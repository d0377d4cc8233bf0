------------------------------- MODULE Egress -------------------------------
(***************************************************************************)
(* cmd/tripbot: the two legs of the stream watchdog whose broadcast is an  *)
(* object at the platform, and not only a socket.                          *)
(*                                                                         *)
(* TikTok's room is reaped when the push stays away, and has to be minted  *)
(* again through the gateway; YouTube's broadcast waits on an encoder it   *)
(* did not recognise, or is missing. Whether the channel is live is read   *)
(* off the snapshot the gateway keeps publishing, retained by the broker   *)
(* however old it is, and asked of the gateway only when that snapshot is  *)
(* not fresh. When a tick may ask, and when a recovery is due, is module   *)
(* SilentDisconnect; this module is what the asking and the recovering do. *)
(*                                                                         *)
(* A tick of the clock is the gateway's publish interval (30 s).           *)
(***************************************************************************)
EXTENDS Integers, Sequences

CONSTANTS
  Legs,         \* the platforms of the instance: a subset of {"tiktok", "youtube"}
  MaxAge,       \* egressSnapshotMaxAge, in ticks
  Skew,         \* how far the gateway's clock may be off, either way
  MaxClock,     \* bound: ticks of the clock
  MaxBinds,     \* bound: broadcasts bound before the loop stands down
  MaxFaults     \* bound: reaped rooms, failing calls, gateway restarts, stops

ASSUME EgressConstants ==
  /\ Legs \subseteq {"tiktok", "youtube"} /\ Legs # {}
  /\ MaxAge \in Nat /\ Skew \in Nat /\ MaxClock \in Nat /\ MaxBinds \in Nat /\ MaxFaults \in Nat

VARIABLES
  leg,       \* which platform this instance serves
  time,      \* the clock of this instance's pod
  room,      \* the broadcast at the platform: "gone", "pending" or "on"
  binds,     \* how often a broadcast was bound to the relay or the stream key
  push,      \* OBS's RTMP session: the bind it was opened under, 0 if closed
  lastLive,  \* when the platform last showed the channel live
  gateway,   \* is the platform's gateway up?
  retained,  \* the broker's last snapshot: [live, at], at by the gateway's clock
  verdict,    \* the last answer of the live-check: "none", "live", "dark", "unknown"
  asking,    \* is the live-check waiting for the gateway's own answer?
  step,      \* where the recovery is: "idle", "stop", "gap", "start", "close", "open"
  failed,    \* has a step of this recovery returned an error?
  trusted,   \* did the last recovery return no error, and nothing befall it since?
  faults     \* bound: how much of MaxFaults is used

platformVars == <<room, binds, push, lastLive>>
gatewayVars  == <<gateway, retained>>
checkVars    == <<verdict, asking>>
recoverVars  == <<step, failed, trusted>>
egressVars == <<leg, time, platformVars, gatewayVars, checkVars, recoverVars, faults>>

Unpublished == [live |-> FALSE, at |-> -1000]

EgressTypeOK ==
  /\ leg \in Legs /\ time \in 0..MaxClock
  /\ room \in {"gone", "pending", "on"} /\ binds \in Nat /\ push \in 0..binds
  /\ lastLive \in -MaxClock..MaxClock /\ gateway \in BOOLEAN
  /\ retained \in [live : BOOLEAN, at : Int]
  /\ verdict \in {"none", "live", "dark", "unknown"} /\ asking \in BOOLEAN
  /\ step \in {"idle", "stop", "gap", "start", "close", "open"}
  /\ failed \in BOOLEAN /\ trusted \in BOOLEAN /\ faults \in 0..MaxFaults

EgressInit ==
  /\ leg \in Legs
  /\ time = 0 /\ room = "on" /\ binds = 1 /\ push = 1 /\ lastLive = 0
  /\ gateway = TRUE /\ retained = Unpublished
  /\ verdict = "none" /\ asking = FALSE
  /\ step = "idle" /\ failed = FALSE /\ trusted = FALSE
  /\ faults = 0

Live == room = "on"
Fault == faults < MaxFaults /\ faults' = faults + 1

-----------------------------------------------------------------------------
(* The platform, the gateway and OBS *)

EgressTick ==
  /\ time < MaxClock
  /\ time' = time + 1
  /\ lastLive' = IF Live THEN time + 1 ELSE lastLive
  /\ UNCHANGED <<leg, room, binds, push, gatewayVars, checkVars, recoverVars, faults>>

\* The room is reaped, or the broadcast ended at the platform.
Reap ==
  /\ room # "gone" /\ Fault
  /\ room' = "gone" /\ trusted' = FALSE
  /\ UNCHANGED <<leg, time, binds, push, lastLive, gatewayVars, checkVars, step, failed>>

\* YouTube: an encoder whose session reached the bound broadcast is recognised.
Recognise ==
  /\ room = "pending" /\ push = binds
  /\ room' = "on" /\ lastLive' = time
  /\ UNCHANGED <<leg, time, binds, push, gatewayVars, checkVars, recoverVars, faults>>

\* The broadcast falls back to waiting for its encoder.
Forget ==
  /\ leg = "youtube" /\ room = "on" /\ Fault
  /\ room' = "pending" /\ trusted' = FALSE
  /\ UNCHANGED <<leg, time, binds, push, lastLive, gatewayVars, checkVars, step, failed>>

\* The gateway publishes what it sees, stamped by its own clock.
Publish ==
  /\ gateway
  /\ \E off \in -Skew..Skew :
       retained' = [live |-> Live, at |-> time + off]
  /\ UNCHANGED <<leg, time, platformVars, gateway, checkVars, recoverVars, faults>>

GatewayGoes ==
  /\ gateway /\ Fault
  /\ gateway' = FALSE
  /\ UNCHANGED <<leg, time, platformVars, retained, checkVars, recoverVars>>

GatewayReturns ==
  /\ ~gateway
  /\ gateway' = TRUE
  /\ UNCHANGED <<leg, time, platformVars, retained, checkVars, recoverVars, faults>>

\* The operator stops OBS's output, or opens it again.
Operator ==
  /\ step = "idle" /\ Fault
  /\ push' = IF push = 0 THEN binds ELSE 0
  /\ trusted' = FALSE
  /\ UNCHANGED <<leg, time, room, binds, lastLive, gatewayVars, checkVars, step, failed>>

-----------------------------------------------------------------------------
(* The live-check: the retained snapshot, then the gateway *)

AnyAge(at) == TRUE
Fresh(at) == time - at <= MaxAge /\ time - at >= -MaxAge

\* snapshotThenPoll, its first half: a fresh snapshot answers.
Check ==
  /\ step = "idle" /\ push # 0 /\ ~asking
  /\ IF Fresh(retained.at)
       THEN /\ verdict' = IF retained.live THEN "live" ELSE "dark"
            /\ UNCHANGED asking
       ELSE /\ asking' = TRUE
            /\ UNCHANGED verdict
  /\ UNCHANGED <<leg, time, platformVars, gatewayVars, recoverVars, faults>>

\* A call of the gateway reaches it and is answered.
Reachable == gateway

\* Its second half, IsLive or ActiveBroadcast. A gateway that is down, or whose
\* platform declines, leaves the answer unknown. A pending broadcast is not live.
Poll ==
  /\ asking
  /\ asking' = FALSE
  /\ \/ /\ Reachable
        /\ verdict' = IF Live THEN "live" ELSE "dark"
        /\ UNCHANGED faults
     \/ /\ ~Reachable
        /\ verdict' = "unknown"
        /\ UNCHANGED faults
     \/ /\ Reachable /\ Fault
        /\ verdict' = "unknown"
  /\ UNCHANGED <<leg, time, platformVars, gatewayVars, recoverVars>>

-----------------------------------------------------------------------------
(* The recovery *)

\* The steps of each leg's Restart, in order. The mint comes before the bounce: a
\* session in flight is not moved onto a broadcast that binds under it.
BounceFirst ==
  IF leg = "tiktok" THEN <<"stop", "gap", "close", "open", "start">>
                    ELSE <<"close", "open", "start">>
Plan ==
  IF leg = "tiktok" THEN <<"stop", "gap", "start", "close", "open">>
                    ELSE <<"start", "close", "open">>

\* The loop declares the channel dark and calls Restart.
Declare ==
  /\ step = "idle" /\ verdict = "dark" /\ ~asking /\ push # 0 /\ binds < MaxBinds
  /\ step' = Plan[1]
  /\ failed' = FALSE /\ trusted' = FALSE
  /\ UNCHANGED <<leg, time, platformVars, gatewayVars, checkVars, faults>>

\* The step at hand is done, with or without an error kept for the end.
Proceed(err) ==
  LET i == CHOOSE k \in DOMAIN Plan : Plan[k] = step
      last == i = Len(Plan)
  IN  /\ step' = IF last THEN "idle" ELSE Plan[i + 1]
      /\ failed' = (failed \/ err)
      /\ trusted' = (last /\ ~failed')
      /\ verdict' = IF last THEN "none" ELSE verdict

\* The step at hand ends the recovery with its error.
Abort ==
  /\ step' = "idle" /\ failed' = TRUE /\ trusted' = FALSE /\ verdict' = "none"

\* StopEgress. A call whose answer is lost has closed the room all the same.
StopEgress ==
  /\ step = "stop"
  /\ \/ Reachable /\ room' = "gone" /\ Proceed(FALSE) /\ UNCHANGED faults
     \/ Reachable /\ Fault /\ room' = "gone" /\ Abort
     \/ ~Reachable /\ Abort /\ UNCHANGED <<room, faults>>
  /\ UNCHANGED <<leg, time, binds, push, lastLive, gatewayVars, asking>>

\* tiktokRemintGap, unless the process is told to stop in it.
Gap ==
  /\ step = "gap"
  /\ \/ Proceed(FALSE) /\ UNCHANGED faults
     \/ Fault /\ Abort
  /\ UNCHANGED <<leg, time, platformVars, gatewayVars, asking>>

\* What StartEgress mints: nothing, when YouTube has a broadcast already.
Mint ==
  IF leg = "youtube" /\ room # "gone"
    THEN UNCHANGED <<room, binds, lastLive>>
    ELSE /\ binds' = binds + 1
         /\ room' = IF leg = "tiktok" THEN "on" ELSE "pending"
         /\ lastLive' = IF leg = "tiktok" THEN time ELSE lastLive
NoMint == UNCHANGED <<room, binds, lastLive>>

\* TikTok gives up on a failed mint; YouTube bounces the output anyway.
Refused == IF leg = "tiktok" THEN Abort ELSE Proceed(TRUE)

\* StartEgress, whose answer may be lost after it has minted.
StartEgress ==
  /\ step = "start"
  /\ \/ Reachable /\ Mint /\ Proceed(FALSE) /\ UNCHANGED faults
     \/ Reachable /\ Fault /\ Mint /\ Refused
     \/ Reachable /\ Fault /\ NoMint /\ Refused
     \/ ~Reachable /\ NoMint /\ Refused /\ UNCHANGED faults
  /\ UNCHANGED <<leg, time, push, gatewayVars, asking>>

\* RestartOBSOutput: the session is closed, and one is opened in its place.
CloseOutput ==
  /\ step = "close"
  /\ \/ push' = 0 /\ Proceed(FALSE) /\ UNCHANGED faults
     \/ Fault /\ Abort /\ UNCHANGED push
  /\ UNCHANGED <<leg, time, room, binds, lastLive, gatewayVars, asking>>

OpenOutput ==
  /\ step = "open"
  /\ \/ push' = binds /\ Proceed(FALSE) /\ UNCHANGED faults
     \/ Fault /\ Abort /\ UNCHANGED push
  /\ UNCHANGED <<leg, time, room, binds, lastLive, gatewayVars, asking>>

EgressNext ==
  \/ EgressTick \/ Reap \/ Recognise \/ Forget \/ Publish \/ GatewayGoes
  \/ GatewayReturns \/ Operator \/ Check \/ Poll \/ Declare
  \/ StopEgress \/ Gap \/ StartEgress \/ CloseOutput \/ OpenOutput

EgressSpec == EgressInit /\ [][EgressNext]_egressVars

-----------------------------------------------------------------------------
(* Properties *)

\* egress_snapshot.go: the retained snapshot outlives its gateway, and must not
\* keep an outage looking live. Whatever the two clocks say, a channel that is
\* taken for live was live no longer ago than a snapshot may be old, give or take
\* their difference.
LiveAnswerIsFresh ==
  [][(Check \/ Poll) /\ ~asking' /\ verdict' = "live" =>
       time - lastLive <= MaxAge + Skew]_egressVars

\* tripbot.go, remintTikTokEgress: only a session opened after the bind reaches
\* the new room. A recovery that reported success, through lost answers, failed
\* mints and rooms reaped under it, left OBS's session on the broadcast that
\* stands.
RecoveredRoomIsFed == trusted => push = binds
=============================================================================
