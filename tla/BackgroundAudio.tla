-------------------------- MODULE BackgroundAudio --------------------------
(***************************************************************************)
(* The background-audio bed of one platform: beds.Store (the record of     *)
(* which bed plays), the audio watchdog and the volume meter that advance  *)
(* and replace what plays, and the console and chat that switch it.        *)
(*                                                                         *)
(* All of them drive the same OBS source, and none holds the store's mutex *)
(* over an OBS call: each reads the store, calls OBS, and records what it  *)
(* did.  Those three are separate steps here, of the switch that lands     *)
(* (job), of the watchdog's goroutine (wd) and of Advance, which the meter *)
(* and the watchdog both run (adv).  The lock sections in which            *)
(* applyPending writes the station and setNow reads it back are one step,  *)
(* as are the two in which a successful switch is recorded.                *)
(*                                                                         *)
(* Abstracted: the track that plays (an album is one source that ends and  *)
(* is started again), stations that may not be selected, metrics and       *)
(* replies.  A delay is a step that comes later.                           *)
(***************************************************************************)
EXTENDS Naturals

CONSTANTS
  Stations, FirstStation, \* the list, and DefaultStation()
  BootStation,            \* the station in the OBS scene config
  Voicings, DefaultVoicing,
  FailThreshold, SilenceThreshold, RecoverThreshold,
  SwapCooldown,           \* in ticks
  MaxProbeSkip,
  MaxGen,                 \* bound: requests (Schedule, ApplyNow)
  MaxAudioFaults          \* bound: stalls, OBS and bot restarts, failed reads

ASSUME AudioConstants ==
  /\ {FirstStation, BootStation} \subseteq Stations /\ DefaultVoicing \in Voicings
  /\ {"album", "drone"} \cap Voicings = {}
  /\ FailThreshold \in Nat \ {0} /\ SilenceThreshold \in Nat /\ RecoverThreshold \in Nat \ {0}
  /\ FailThreshold <= SilenceThreshold
  /\ {SwapCooldown, MaxProbeSkip, MaxGen, MaxAudioFaults} \subseteq Nat

Beds      == {"radio", "carhum"}      \* the selectable ones
Switches  == [bed : Beds, station : Stations, voicing : Voicings]
NoSwitch  == [bed |-> "none"]
LocalFiles == {"album", "drone"} \cup Voicings
Gens      == 1 .. MaxGen
Walkers   == {"meter", "watchdog"}    \* who runs Advance

VARIABLES
  (* OBS and the stations. *)
  obs,      \* up, and the source's settings: is_local_file, local_file, input
  air,      \* what the source does: "playing", "down" or "quiet"
  serving,  \* stations that serve bytes
  library,  \* the track index lists the fallback albums
  report,   \* a MediaInputPlaybackEnded event on its way
  (* The store. *)
  bed, station, voicing, fallback,
  ordered,  \* the album has a play order
  fresh,    \* lastStart is within advanceDebounce
  pending, gen,
  (* The processes. *)
  job,      \* job[g]: the switch of generation g, from its timer to OBS
  wd,       \* the watchdog's locals and place
  adv,      \* adv[w]: w's place in Advance
  (* History. *)
  audioFaults,
  choice,   \* the bed and station last put on OBS by choice, or by its boot
  asked,    \* the last switch asked for, while it is still to be judged
  refused,  \* a switch failed since
  drifted   \* two of the processes overlapped, or Detect could not read OBS

world == <<obs, air, serving, library, report>>
store == <<bed, station, voicing, fallback, ordered, fresh, pending, gen>>
ghost == <<choice, asked, refused>>
audioVars == <<world, store, job, wd, adv, audioFaults, ghost, drifted>>

Least(a, b) == IF a < b THEN a ELSE b

Idle  == [pc |-> "idle"]
Watch0 == [pc |-> "idle", synced |-> FALSE, misses |-> 0, hits |-> 0,
           skip |-> 0, skipped |-> 0, since |-> SwapCooldown, seen |-> "playing"]
BootSettings == [up |-> TRUE, local |-> TRUE, file |-> "album", url |-> BootStation]

(***************************************************************************)
(* What the store says, and what is so.                                    *)
(***************************************************************************)
Playing == IF fallback # "none" THEN fallback ELSE bed

OnAir == IF ~obs.local THEN "radio"
         ELSE IF obs.file = "album" THEN "album" ELSE "carhum"

(* Somebody has read the store or OBS and has yet to act or record. *)
WatchCalls == {"detected", "advance", "toFallback", "fellBack", "toRadio", "onRadio"}
Busy == \/ \E g \in Gens : job[g].pc \in {"due", "ready", "took", "refused"}
        \/ wd.pc \in WatchCalls
        \/ \E w \in Walkers : adv[w] # "idle"

Starts == drifted' = (drifted \/ Busy)   \* the step that begins such a span

AudioFault == audioFaults < MaxAudioFaults /\ audioFaults' = audioFaults + 1

(* A call dials OBS: it fails while OBS is down, and may fail otherwise. *)
Accepted == obs.up /\ UNCHANGED audioFaults
Rejected == (IF obs.up THEN AudioFault ELSE UNCHANGED audioFaults) /\ UNCHANGED world

(***************************************************************************)
(* The two OBS calls.  OBS merges the settings it is given into the ones   *)
(* it has: a local file leaves `input' alone, a stream leaves local_file.  *)
(***************************************************************************)
SetLocalFile(f) ==
  /\ obs' = [obs EXCEPT !.local = TRUE, !.file = f]
  /\ air' = "playing"
  /\ UNCHANGED <<serving, library, report>>

SetNetwork(s) ==
  /\ obs' = [obs EXCEPT !.local = FALSE, !.url = s]
  /\ air' = IF s \in serving THEN "playing" ELSE "down"
  /\ UNCHANGED <<serving, library, report>>

(***************************************************************************)
(* The console and chat: Set, SetStation, SetVoicing, ApplyNow.            *)
(***************************************************************************)
StopTimer(jobs) == [g \in Gens |-> IF jobs[g].pc = "armed" THEN Idle ELSE jobs[g]]

Schedule(sw) ==
  /\ gen < MaxGen
  /\ gen' = gen + 1
  /\ pending' = sw
  /\ job' = [StopTimer(job) EXCEPT ![gen + 1] = [pc |-> "armed", sw |-> sw]]
  /\ asked' = sw /\ refused' = FALSE
  /\ UNCHANGED <<world, bed, station, voicing, fallback, ordered, fresh, wd, adv,
                 audioFaults, choice, drifted>>

Set(b) == Schedule([bed |-> b, station |-> station, voicing |-> voicing])
SetStation(s) == Schedule([bed |-> "radio", station |-> s, voicing |-> voicing])
SetVoicing(v) == Schedule([bed |-> "carhum", station |-> station, voicing |-> v])

ApplyNow ==
  /\ pending # NoSwitch /\ gen < MaxGen
  /\ gen' = gen + 1
  /\ job' = [StopTimer(job) EXCEPT ![gen + 1] = [pc |-> "due", sw |-> pending]]
  /\ Starts
  /\ UNCHANGED <<world, bed, station, voicing, fallback, ordered, fresh, pending,
                 wd, adv, audioFaults, ghost>>

(***************************************************************************)
(* A switch on its way to OBS.                                             *)
(***************************************************************************)
Fire(g) ==
  /\ job[g].pc = "armed"
  /\ job' = [job EXCEPT ![g].pc = "fired"]
  /\ UNCHANGED <<world, store, wd, adv, audioFaults, ghost, drifted>>

(* Mutant: Timer.Stop trusted to win. *)
NeverStale(g) ==
  /\ job[g].pc = "fired"
  /\ job' = [job EXCEPT ![g].pc = "due"] /\ Starts
  /\ UNCHANGED <<world, store, wd, adv, audioFaults, ghost>>

CheckStale(g) ==
  /\ job[g].pc = "fired"
  /\ IF gen # g
     THEN job' = [job EXCEPT ![g] = Idle] /\ UNCHANGED drifted
     ELSE job' = [job EXCEPT ![g].pc = "due"] /\ Starts
  /\ UNCHANGED <<world, store, wd, adv, audioFaults, ghost>>

ApplyPending(g) ==
  /\ job[g].pc = "due"
  /\ job' = [job EXCEPT ![g] = [pc |-> "ready", sw |-> job[g].sw,
                                prev |-> <<station, voicing>>]]
  /\ station' = job[g].sw.station
  /\ voicing' = job[g].sw.voicing
  /\ UNCHANGED <<world, bed, fallback, ordered, fresh, pending, gen, wd, adv,
                 audioFaults, ghost, drifted>>

Apply(g) ==
  LET sw == job[g].sw IN
  /\ job[g].pc = "ready"
  /\ \/ /\ Accepted
        /\ IF sw.bed = "radio" THEN SetNetwork(sw.station) ELSE SetLocalFile(sw.voicing)
        /\ job' = [job EXCEPT ![g].pc = "took"]
        /\ choice' = [bed |-> sw.bed, station |-> sw.station]
     \/ /\ Rejected
        /\ job' = [job EXCEPT ![g].pc = "refused"]
        /\ UNCHANGED choice
  /\ UNCHANGED <<store, wd, adv, asked, refused, drifted>>

ClearPending(g) == pending' = IF gen = g THEN NoSwitch ELSE pending

(* Mutant: a chosen bed leaves the stand-in's mark. *)
KeepsStandIn(g) ==
  /\ job[g].pc = "took"
  /\ bed' = job[g].sw.bed
  /\ fresh' = TRUE
  /\ ClearPending(g)
  /\ job' = [job EXCEPT ![g] = Idle]
  /\ UNCHANGED <<world, station, voicing, fallback, ordered, gen, wd, adv, audioFaults,
                 ghost, drifted>>

RecordSwitch(g) ==
  /\ job[g].pc = "took"
  /\ bed' = job[g].sw.bed
  /\ fallback' = "none"
  /\ fresh' = TRUE
  /\ ClearPending(g)
  /\ job' = [job EXCEPT ![g] = Idle]
  /\ UNCHANGED <<world, station, voicing, ordered, gen, wd, adv, audioFaults, ghost, drifted>>

RollBack(g) ==
  /\ job[g].pc = "refused"
  /\ station' = job[g].prev[1]
  /\ voicing' = job[g].prev[2]
  /\ ClearPending(g)
  /\ job' = [job EXCEPT ![g] = Idle]
  /\ refused' = TRUE
  /\ UNCHANGED <<world, bed, fallback, ordered, fresh, gen, wd, adv, audioFaults,
                 choice, asked, drifted>>

SwitchStep(g) == \/ Fire(g) \/ CheckStale(g) \/ ApplyPending(g) \/ Apply(g)
                 \/ RecordSwitch(g) \/ RollBack(g)

(***************************************************************************)
(* Advance: the next track, or the drone when there is none.               *)
(***************************************************************************)
AdvanceTo == IF Playing # "album" \/ fresh THEN "idle"
             ELSE IF ordered THEN "next" ELSE "rescue"

StartAdvance(w) ==
  /\ adv[w] = "idle"
  /\ adv' = [adv EXCEPT ![w] = AdvanceTo]
  /\ fresh' = (fresh \/ AdvanceTo = "next")

MeterEnded ==
  /\ report /\ report' = FALSE
  /\ StartAdvance("meter")
  /\ IF AdvanceTo = "idle" THEN UNCHANGED drifted ELSE Starts
  /\ UNCHANGED <<obs, air, serving, library, bed, station, voicing, fallback,
                 ordered, pending, gen, job, wd, audioFaults, ghost>>

NextTrack(w) ==
  /\ adv[w] = "next"
  /\ adv' = [adv EXCEPT ![w] = "idle"]
  /\ (Accepted /\ SetLocalFile("album")) \/ Rejected
  /\ UNCHANGED <<store, job, wd, ghost, drifted>>

RescueEmptyAlbum(w) ==
  /\ adv[w] = "rescue"
  /\ \/ Accepted /\ SetLocalFile("drone") /\ adv' = [adv EXCEPT ![w] = "rescued"]
     \/ Rejected /\ adv' = [adv EXCEPT ![w] = "idle"]
  /\ UNCHANGED <<store, job, wd, ghost, drifted>>

RecordRescue(w) ==
  /\ adv[w] = "rescued"
  /\ adv' = [adv EXCEPT ![w] = "idle"]
  /\ fallback' = "carhum"
  /\ fresh' = TRUE
  /\ UNCHANGED <<world, bed, station, voicing, ordered, pending, gen, job, wd,
                 audioFaults, ghost, drifted>>

AdvanceStep(w) == NextTrack(w) \/ RescueEmptyAlbum(w) \/ RecordRescue(w)

(***************************************************************************)
(* The watchdog.  Done(w) ends an iteration: the media state it read       *)
(* (seen) is local to it.  A tick reads the media state over the meter's   *)
(* connection, so it is blind exactly while OBS is down.                   *)
(***************************************************************************)
Done(w) == [w EXCEPT !.pc = "idle", !.seen = "playing"]

(* The meter redials until OBS is up, and holds that connection; a level no  *)
(* frame has renewed is not read as silence. *)
Connected == obs.up
MediaInputState == IF Connected THEN air ELSE wd.seen

AudioTick ==
  /\ wd.pc = "idle"
  /\ wd' = [wd EXCEPT !.pc = IF ~Connected THEN "idle" ELSE IF wd.synced THEN "decide" ELSE "resync",
                      !.synced = @ /\ Connected,
                      !.seen = MediaInputState,
                      !.since = Least(@ + 1, SwapCooldown)]
  /\ UNCHANGED <<world, store, job, adv, audioFaults, ghost, drifted>>

Resync ==
  /\ wd.pc = "resync" /\ obs.up
  /\ wd' = [pc |-> "detected", read |-> obs, seen |-> wd.seen, since |-> wd.since,
            synced |-> TRUE, misses |-> wd.misses, hits |-> wd.hits,
            skip |-> wd.skip, skipped |-> wd.skipped]
  /\ Starts
  /\ UNCHANGED <<world, store, job, adv, audioFaults, ghost>>

(* Detect logs an error and returns; the watchdog counts itself synced. *)
ResyncFails ==
  /\ wd.pc = "resync"
  /\ obs.up => audioFaults < MaxAudioFaults
  /\ audioFaults' = IF obs.up THEN audioFaults + 1 ELSE audioFaults
  /\ wd' = [wd EXCEPT !.pc = "decide", !.synced = TRUE]
  /\ drifted' = TRUE
  /\ UNCHANGED <<world, store, job, adv, ghost>>

(* Mutant: the watchdog's drone read back as the operator's. *)
DroneIsAChoice(settings) ==
  IF settings.local /\ settings.file # "album" THEN "carhum" ELSE "radio"

BedFromSettings(settings) ==
  IF settings.local /\ settings.file \in Voicings THEN "carhum" ELSE "radio"

Detect ==
  LET got == wd.read IN
  /\ wd.pc = "detected"
  /\ bed' = BedFromSettings(got)
  /\ station' = got.url
  /\ voicing' = IF got.file \in Voicings THEN got.file ELSE voicing
  /\ fallback' = IF got.local /\ got.file = "album" THEN "album"
                 ELSE IF got.local /\ got.file = "drone" THEN "carhum" ELSE "none"
  /\ ordered' = (ordered \/ (got.local /\ got.file = "album" /\ library))
  /\ wd' = [x \in DOMAIN Watch0 |-> IF x = "pc" THEN "decide" ELSE wd[x]]
  /\ UNCHANGED <<world, fresh, pending, gen, job, adv, audioFaults, ghost, drifted>>

(* A local bed is selected: nothing to fall back to. *)
HoldOff ==
  /\ wd.pc = "decide" /\ bed # "radio"
  /\ wd' = Done([wd EXCEPT !.misses = 0, !.hits = 0])
  /\ UNCHANGED <<world, store, job, adv, audioFaults, ghost, drifted>>

SourceUnreadable ==
  /\ wd.pc = "decide" /\ bed = "radio" /\ ~obs.up
  /\ wd' = Done(wd)
  /\ UNCHANGED <<world, store, job, adv, audioFaults, ghost, drifted>>

SwapCooling == wd.since < SwapCooldown

(* Mutant: only a stopped source counts, a silent one never does. *)
DeafWatch ==
  LET misses == IF wd.seen # "down" THEN 0 ELSE Least(wd.misses + 1, SilenceThreshold)
      swap   == misses >= FailThreshold /\ ~SwapCooling
  IN
  /\ wd.pc = "decide" /\ bed = "radio" /\ obs.up /\ ~obs.local
  /\ wd' = [Done(wd) EXCEPT !.pc = IF swap THEN "toFallback" ELSE "idle",
                            !.misses = misses, !.skip = 0, !.skipped = 0]
  /\ IF swap THEN Starts ELSE UNCHANGED drifted
  /\ UNCHANGED <<world, store, job, adv, audioFaults, ghost>>

WatchRadio ==
  LET misses    == IF wd.seen = "playing" THEN 0 ELSE Least(wd.misses + 1, SilenceThreshold)
      threshold == IF wd.seen = "down" THEN FailThreshold ELSE SilenceThreshold
      swap      == wd.seen # "playing" /\ misses >= threshold /\ ~SwapCooling
  IN
  /\ wd.pc = "decide" /\ bed = "radio" /\ obs.up /\ ~obs.local
  /\ wd' = [Done(wd) EXCEPT !.pc = IF swap THEN "toFallback" ELSE "idle",
                            !.misses = misses, !.skip = 0, !.skipped = 0]
  /\ IF swap THEN Starts ELSE UNCHANGED drifted
  /\ UNCHANGED <<world, store, job, adv, audioFaults, ghost>>

SwapToFallback ==
  /\ wd.pc = "toFallback"
  /\ ordered' = (ordered \/ library)
  /\ \/ /\ Accepted /\ SetLocalFile(IF library THEN "album" ELSE "drone")
        /\ wd' = [wd EXCEPT !.pc = "fellBack"]
     \/ Rejected /\ wd' = Done(wd)
  /\ UNCHANGED <<bed, station, voicing, fallback, fresh, pending, gen, job, adv,
                 ghost, drifted>>

RecordFallback ==
  /\ wd.pc = "fellBack"
  /\ fallback' = IF library THEN "album" ELSE "carhum"
  /\ fresh' = TRUE
  /\ wd' = [wd EXCEPT !.pc = "idle", !.since = 0, !.misses = 0, !.hits = 0]
  /\ UNCHANGED <<world, bed, station, voicing, ordered, pending, gen, job, adv,
                 audioFaults, ghost, drifted>>

(* On the fallback: back up the meter's advance, then probe. *)
WatchFallback ==
  /\ wd.pc = "decide" /\ bed = "radio" /\ obs.up /\ obs.local
  /\ wd' = [Done(wd) EXCEPT !.pc = "advance"]
  /\ IF wd.seen = "down"
     THEN StartAdvance("watchdog")
     ELSE UNCHANGED <<adv, fresh>>
  /\ Starts
  /\ UNCHANGED <<world, bed, station, voicing, fallback, ordered, pending, gen,
                 job, audioFaults, ghost>>

(* Mutant: the ticks sat out are not counted. *)
SitOutForever ==
  /\ wd.pc = "advance" /\ adv["watchdog"] = "idle" /\ wd.skipped < wd.skip
  /\ wd' = [wd EXCEPT !.pc = "idle"]
  /\ UNCHANGED <<world, store, job, adv, audioFaults, ghost, drifted>>

SitOut ==
  /\ wd.pc = "advance" /\ adv["watchdog"] = "idle" /\ wd.skipped < wd.skip
  /\ wd' = [wd EXCEPT !.pc = "idle", !.skipped = @ + 1]
  /\ UNCHANGED <<world, store, job, adv, audioFaults, ghost, drifted>>

(* Mutant: the backoff is not capped. *)
UncappedProbe ==
  /\ wd.pc = "advance" /\ adv["watchdog"] = "idle" /\ wd.skipped >= wd.skip
  /\ wd' = [wd EXCEPT !.pc = "idle", !.skipped = 0, !.hits = 0,
                      !.skip = IF station \in serving THEN 0 ELSE 2 * @ + 1]
  /\ UNCHANGED <<world, store, job, adv, audioFaults, ghost, drifted>>

Probe ==
  LET reachable == station \in serving
      hits      == IF reachable THEN Least(wd.hits + 1, RecoverThreshold) ELSE 0
  IN
  /\ wd.pc = "advance" /\ adv["watchdog"] = "idle" /\ wd.skipped >= wd.skip
  /\ wd' = [wd EXCEPT !.pc = IF hits >= RecoverThreshold /\ ~SwapCooling THEN "toRadio" ELSE "idle",
                      !.skipped = 0, !.hits = hits,
                      !.skip = IF reachable THEN 0 ELSE Least(2 * @ + 1, MaxProbeSkip)]
  /\ UNCHANGED <<world, store, job, adv, audioFaults, ghost, drifted>>

SwapToRadio ==
  /\ wd.pc = "toRadio"
  /\ \/ Accepted /\ SetNetwork(station) /\ wd' = [wd EXCEPT !.pc = "onRadio"]
     \/ Rejected /\ wd' = Done(wd)
  /\ UNCHANGED <<store, job, adv, ghost, drifted>>

RecordRadio ==
  /\ wd.pc = "onRadio"
  /\ fallback' = "none"
  /\ wd' = [wd EXCEPT !.pc = "idle", !.since = 0, !.hits = 0]
  /\ UNCHANGED <<world, bed, station, voicing, ordered, fresh, pending, gen, job,
                 adv, audioFaults, ghost, drifted>>

WatchStep == \/ AudioTick \/ Resync \/ ResyncFails \/ Detect \/ HoldOff \/ SourceUnreadable
             \/ WatchRadio \/ SwapToFallback \/ RecordFallback
             \/ WatchFallback \/ SitOut \/ Probe \/ SwapToRadio \/ RecordRadio

(***************************************************************************)
(* The environment.                                                        *)
(***************************************************************************)
bot == <<store, job, wd, adv>>

(* Tracks run minutes, so none ends within the debounce of its start. *)
TrackEnds ==
  /\ obs.up /\ obs.local /\ obs.file = "album" /\ air = "playing" /\ ~fresh
  /\ air' = "down"
  /\ report' \in BOOLEAN      \* the subscription may be down
  /\ UNCHANGED <<obs, serving, library, bot, audioFaults, ghost, drifted>>

RadioStalls ==
  /\ obs.up /\ ~obs.local /\ air = "playing" /\ AudioFault
  /\ air' \in {"down", "quiet"}
  /\ serving' \in {serving, serving \ {obs.url}}
  /\ report' = (report \/ air' = "down")
  /\ UNCHANGED <<obs, library, bot, ghost, drifted>>

QuietEnds ==
  /\ obs.up /\ ~obs.local /\ air = "quiet" /\ obs.url \in serving
  /\ air' = "playing"
  /\ UNCHANGED <<obs, serving, library, report, bot, audioFaults, ghost, drifted>>

EdgeReturns(s) ==
  /\ s \notin serving
  /\ serving' = serving \cup {s}
  /\ UNCHANGED <<obs, air, library, report, bot, audioFaults, ghost, drifted>>

OBSDies ==
  /\ obs.up /\ AudioFault
  /\ obs' = [obs EXCEPT !.up = FALSE]
  /\ air' = "down" /\ report' = FALSE
  /\ UNCHANGED <<serving, library, bot, ghost, drifted>>

(* OBS is gone for longer than a tick; it boots on the album. *)
OBSBoots ==
  /\ ~obs.up /\ ~wd.synced
  /\ obs' = BootSettings /\ air' = "playing"
  /\ choice' = [bed |-> "radio", station |-> BootStation]
  /\ asked' = NoSwitch
  /\ UNCHANGED <<serving, library, report, bot, audioFaults, refused, drifted>>

DebouncePasses ==
  /\ fresh /\ fresh' = FALSE
  /\ UNCHANGED <<world, bed, station, voicing, fallback, ordered, pending, gen,
                 job, wd, adv, audioFaults, ghost, drifted>>

(* gen starts again at 0 in the code; here it also counts the requests. *)
BotRestarts ==
  /\ AudioFault
  /\ bed' = "radio" /\ station' = FirstStation /\ voicing' = DefaultVoicing
  /\ fallback' = "none" /\ ordered' = FALSE /\ fresh' = FALSE /\ pending' = NoSwitch
  /\ job' = [g \in Gens |-> Idle] /\ wd' = Watch0 /\ adv' = [w \in Walkers |-> "idle"]
  /\ UNCHANGED gen
  /\ report' = FALSE /\ asked' = NoSwitch /\ refused' = FALSE
  /\ UNCHANGED <<obs, air, serving, library, choice, drifted>>

AudioInit ==
  /\ bed = "radio" /\ station = FirstStation /\ voicing = DefaultVoicing
  /\ fallback = "none" /\ ordered = FALSE /\ fresh = FALSE /\ pending = NoSwitch
  /\ job = [g \in Gens |-> Idle] /\ wd = Watch0 /\ adv = [w \in Walkers |-> "idle"]
  /\ gen = 0
  /\ obs = BootSettings /\ air = "playing" /\ serving = Stations
  /\ library \in BOOLEAN /\ report = FALSE
  /\ audioFaults = 0 /\ choice = [bed |-> "radio", station |-> BootStation]
  /\ asked = NoSwitch /\ refused = FALSE /\ drifted = FALSE

Requests == \/ \E b \in Beds : Set(b)
            \/ \E s \in Stations : SetStation(s)
            \/ \E v \in Voicings : SetVoicing(v)
            \/ ApplyNow

World == \/ TrackEnds \/ RadioStalls \/ QuietEnds \/ OBSDies \/ OBSBoots
         \/ \E s \in Stations : EdgeReturns(s)
         \/ DebouncePasses \/ BotRestarts

AudioNext == \/ Requests \/ World \/ MeterEnded \/ WatchStep
        \/ \E g \in Gens : SwitchStep(g)
        \/ \E w \in Walkers : AdvanceStep(w)

AudioSpec == AudioInit /\ [][AudioNext]_audioVars

(* The bot's own goroutines and timers run, its container is restarted by  *)
(* the platform, and the clock passes.  Nothing obliges a station to       *)
(* return, a track to end or an operator to act.                           *)
Fairness ==
  /\ WF_audioVars(WatchStep) /\ WF_audioVars(MeterEnded)
  /\ WF_audioVars(OBSBoots) /\ WF_audioVars(DebouncePasses)
  /\ \A g \in Gens : WF_audioVars(SwitchStep(g))
  /\ \A w \in Walkers : WF_audioVars(AdvanceStep(w))

FairAudioSpec == AudioSpec /\ Fairness

(***************************************************************************)
(* Properties.                                                             *)
(***************************************************************************)
(* Every variable has its type. *)
AudioTypeOK ==
  /\ obs \in [up : BOOLEAN, local : BOOLEAN, file : LocalFiles, url : Stations]
  /\ air \in {"playing", "down", "quiet"} /\ serving \subseteq Stations
  /\ {library, report, ordered, fresh, refused, drifted} \subseteq BOOLEAN
  /\ bed \in Beds /\ station \in Stations /\ voicing \in Voicings
  /\ fallback \in {"none", "album", "carhum"}
  /\ {pending, asked} \subseteq Switches \cup {NoSwitch} /\ gen \in 0 .. MaxGen
  /\ \A g \in Gens : job[g].pc \in {"idle", "armed", "fired", "due", "ready", "took", "refused"}
  /\ wd.pc \in {"idle", "resync", "decide"} \cup WatchCalls
  /\ wd.misses \in 0 .. SilenceThreshold /\ wd.hits \in 0 .. RecoverThreshold
  /\ wd.skip \in 0 .. MaxProbeSkip /\ wd.skipped \in 0 .. wd.skip /\ wd.since \in 0 .. SwapCooldown
  /\ adv \in [Walkers -> {"idle", "next", "rescue", "rescued"}]
  /\ choice \in [bed : Beds, station : Stations] /\ audioFaults \in 0 .. MaxAudioFaults

Undrifted == ~drifted     \* every property below holds of a state that drifted

Settled == obs.up /\ wd.synced /\ ~Busy

(* What beds.go says of Playing: it "reports the bed actually on air", and *)
(* with it the station or the voicing. *)
ReportsWhatIsOnAir ==
  Settled => /\ Playing = OnAir
             /\ OnAir = "radio" => station = obs.url
             /\ Playing = bed /\ bed = "carhum" => obs.file = voicing

(* The report is right through outages, fallbacks, failed switches and     *)
(* restarts, as long as no two of the processes that drive the source      *)
(* overlapped and Detect could read the settings. *)
PlayingIsOnAir == drifted \/ ReportsWhatIsOnAir

(* The bed and the station last chosen stay selected until OBS itself      *)
(* restarts: a fallback is never taken for a choice, by Detect after a     *)
(* restart of the bot either, and never stands in for a local bed. *)
ChoiceStands ==
  Settled /\ ~drifted => /\ bed = choice.bed
                         /\ bed = "radio" => station = choice.station
                         /\ bed = "carhum" => fallback = "none"

(* The last switch asked for is the one that stands: a switch corrected    *)
(* inside its delay, or forced with ApplyNow, lands as it was last asked   *)
(* for and nothing older lands after it. *)
LastRequestWins ==
  (/\ Settled /\ ~drifted /\ ~refused /\ pending = NoSwitch /\ asked # NoSwitch
   /\ \A g \in Gens : job[g].pc = "idle")
  => choice = [bed |-> asked.bed, station |-> asked.station]

(* Silence ends: whatever stalls, ends or restarts, something audible is   *)
(* on air again, on the radio, the album or the drone. *)
MusicReturns == []<>(air = "playing" \/ drifted)

(* An outage of the station ends on the air too: once the tuned station    *)
(* serves for good, the backed-off probe finds it and the radio returns. *)
RadioComesBack ==
  <>[](bed = "radio" /\ station \in serving)
    => []<>(drifted \/ (~obs.local /\ obs.url = station))

(* What a listener hears is what the store says and what was last asked    *)
(* for, however switches, swaps and the album's advance cross. *)
AudioIsAsAsked == PlayingIsOnAir /\ ChoiceStands /\ LastRequestWins

(* No outage lasts: silence ends, and the radio comes back once it serves.  *)
AudioRecovers == MusicReturns /\ RadioComesBack
=============================================================================
