--------------------------- MODULE OutputRestart ----------------------------
(***************************************************************************)
(* pkg/obs/watchdog: the two goroutines of one tripbot that stop and start *)
(* the same OBS output, and the process that may end under them.           *)
(*   - silent  WatchSilentDisconnect, through RestartOBSOutput             *)
(*   - cap     WatchBroadcastCap, through RestartBroadcast                 *)
(* Nothing serialises the two: each decides on the streaming state the     *)
(* poller cached, then talks to OBS call by call. What silent counts before *)
(* it decides is SilentDisconnect's subject; here it may decide whenever   *)
(* its last reading allows it. OBS and the platform are modelled from how  *)
(* this code uses them.                                                    *)
(***************************************************************************)
EXTENDS Integers

CONSTANTS
  StartAttempts,   \* startAttempts: tries to start the output again
  CapAttempts,     \* capRestartAttempts: restarts tried per broadcast
  MaxDecisions,    \* bound: restarts decided on
  MaxFaults,       \* bound: refused calls, failed reads, dropped polls
  MaxBroadcasts,   \* bound: broadcasts the platform opens
  MaxOperator,     \* bound: the operator's stops and starts
  MaxExits         \* bound: times the process is told to stop

ASSUME OutputConstants ==
  /\ StartAttempts \in Nat \ {0} /\ CapAttempts \in Nat \ {0}
  /\ MaxDecisions \in Nat /\ MaxFaults \in Nat /\ MaxBroadcasts \in Nat \ {0}
  /\ MaxOperator \in Nat /\ MaxExits \in Nat

Restarters == {"silent", "cap"}

VARIABLES
  (* OBS and the platform *)
  output,      \* "active", "stopping" (the RTMP teardown is under way), "stopped"
  socket,      \* does what OBS pushes reach the platform?
  live,        \* does the platform report the channel live?
  broadcast,   \* the broadcast the platform is running, or ran last
  aged,        \* is that broadcast maxAge old?
  (* tripbot *)
  alive,       \* is the process running?
  cancelled,   \* has its context been cancelled?
  seen,        \* lastStreamState
  pc,          \* each restarter's next step
  tries,       \* its failed attempts to start the output
  restartedFor, attempts, capRestarted, \* WatchBroadcastCap's memory
  (* History and bounds *)
  wanted,      \* does the operator want the stream on?
  settled,     \* was it off, as wanted, with no restart in flight?
  gaveUp,      \* did a restart run out of attempts with the output down?
  orphaned,    \* did the process end under a restart that owed a start?
  decisions, faults, operations, exits

obsVars  == <<output, socket>>
airVars  == <<live, broadcast, aged>>
procVars == <<alive, cancelled, seen, pc, tries>>
capVars  == <<restartedFor, attempts, capRestarted>>
wantVars == <<wanted, settled, gaveUp, orphaned>>
bounds   == <<decisions, faults, operations, exits>>
outputVars == <<obsVars, airVars, procVars, capVars, wantVars, bounds>>

Outputs    == {"active", "stopping", "stopped"}
Readings   == {"unknown", "inactive", "reconnecting", "steady"}
Steps      == {"idle", "stop", "confirm", "offline", "start"}
Broadcasts == 0 .. MaxBroadcasts

OutputTypeOK ==
  /\ output \in Outputs /\ socket \in BOOLEAN
  /\ live \in BOOLEAN /\ broadcast \in Broadcasts /\ aged \in BOOLEAN
  /\ alive \in BOOLEAN /\ cancelled \in BOOLEAN /\ seen \in Readings
  /\ pc \in [Restarters -> Steps]
  /\ tries \in [Restarters -> 0 .. StartAttempts]
  /\ restartedFor \in Broadcasts /\ attempts \in 0 .. CapAttempts
  /\ capRestarted \in BOOLEAN
  /\ wanted \in BOOLEAN /\ settled \in BOOLEAN /\ gaveUp \in BOOLEAN
  /\ orphaned \in BOOLEAN
  /\ decisions \in 0 .. MaxDecisions /\ faults \in 0 .. MaxFaults
  /\ operations \in 0 .. MaxOperator /\ exits \in 0 .. MaxExits

Fault   == faults < MaxFaults /\ faults' = faults + 1
NoFault == UNCHANGED faults

\* r has had its stop accepted and has not got to the end of its start.
Owes(r) == pc[r] \in {"confirm", "offline", "start"}

\* History: is the output off for good after this step?
Settle ==
  settled' = (settled \/ (~wanted' /\ output' = "stopped" /\
                          \A r \in Restarters : ~Owes(r)'))

\* History: the output is up, whatever happened before.
Recovered == gaveUp' = FALSE /\ orphaned' = FALSE

-----------------------------------------------------------------------------
(* OBS and the platform *)

\* StopStream is answered when the stop is initiated ...
CanStop == output # "stopped"

\* ... and the output goes down when the socket has closed.
Teardown ==
  /\ output = "stopping"
  /\ output' = "stopped"
  /\ UNCHANGED <<socket, airVars, procVars, capVars, wanted, gaveUp, orphaned,
                 bounds>>
  /\ Settle

\* The session dies at the platform's end, and OBS does not notice.
HalfOpen ==
  /\ output = "active" /\ socket /\ faults < MaxFaults
  /\ socket' = FALSE /\ faults' = faults + 1
  /\ UNCHANGED <<output, airVars, procVars, capVars, wantVars, decisions,
                 operations, exits>>

\* OBS noticed after all, and its own reconnect lands.
Reconnects ==
  /\ output = "active" /\ ~socket
  /\ socket' = TRUE
  /\ UNCHANGED <<output, airVars, procVars, capVars, wantVars, bounds>>

\* The platform reports offline once nothing reaches it for a while.
GoesOffline ==
  /\ live /\ (output # "active" \/ ~socket)
  /\ live' = FALSE
  /\ UNCHANGED <<obsVars, broadcast, aged, procVars, capVars, wantVars, bounds>>

\* A push that arrives when it is offline opens a broadcast of its own; one
\* that arrives before resumes the old one.
GoesLive ==
  /\ ~live /\ output = "active" /\ socket /\ broadcast < MaxBroadcasts
  /\ live' = TRUE /\ broadcast' = broadcast + 1 /\ aged' = FALSE
  /\ UNCHANGED <<obsVars, procVars, capVars, wantVars, bounds>>

GrowsOld ==
  /\ live /\ ~aged /\ aged' = TRUE
  /\ UNCHANGED <<obsVars, live, broadcast, procVars, capVars, wantVars, bounds>>

OperatorStops ==
  /\ wanted /\ output = "active" /\ operations < MaxOperator
  /\ output' = "stopping" /\ wanted' = FALSE /\ operations' = operations + 1
  /\ UNCHANGED <<socket, airVars, procVars, capVars, settled, gaveUp, orphaned,
                 decisions, faults, exits>>

OperatorStarts ==
  /\ output = "stopped" /\ operations < MaxOperator
  /\ output' = "active" /\ socket' = TRUE /\ wanted' = TRUE
  /\ settled' = FALSE /\ Recovered
  /\ operations' = operations + 1
  /\ UNCHANGED <<airVars, procVars, capVars, decisions, faults, exits>>

-----------------------------------------------------------------------------
(* PollStreamingActive: the cached reading, and its loss with the connection *)

\* What GetStreamStatus answers: an output that is going down is still active,
\* and OBS may or may not have noticed that its session is gone.
Reported ==
  IF output = "stopped" THEN {"inactive"}
  ELSE IF socket THEN {"steady"} ELSE {"steady", "reconnecting"}

Poll ==
  /\ alive
  /\ seen' \in Reported \ {seen}
  /\ UNCHANGED <<obsVars, airVars, alive, cancelled, pc, tries, capVars,
                 wantVars, bounds>>

PollFails ==
  /\ alive /\ seen # "unknown" /\ Fault
  /\ seen' = "unknown"
  /\ UNCHANGED <<obsVars, airVars, alive, cancelled, pc, tries, capVars,
                 wantVars, decisions, operations, exits>>

-----------------------------------------------------------------------------
(* Deciding on a restart *)

\* Silent acts on an output last seen pushing, and a channel that is offline.
DecideSilent ==
  /\ alive /\ pc["silent"] = "idle" /\ seen \in {"steady", "reconnecting"}
  /\ ~live
  /\ decisions < MaxDecisions /\ decisions' = decisions + 1
  /\ pc' = [pc EXCEPT !["silent"] = "stop"]
  /\ UNCHANGED <<obsVars, airVars, alive, cancelled, seen, tries, capVars,
                 wantVars, faults, operations, exits>>

\* Cap acts on a broadcast that is old, unless it is done with that one.
RememberAttempt ==
  IF broadcast = restartedFor
  THEN /\ ~capRestarted /\ attempts < CapAttempts
       /\ attempts' = attempts + 1 /\ UNCHANGED capRestarted
  ELSE attempts' = 1 /\ capRestarted' = FALSE

DecideCap ==
  /\ alive /\ pc["cap"] = "idle" /\ seen = "steady" /\ live /\ aged
  /\ decisions < MaxDecisions /\ decisions' = decisions + 1
  /\ RememberAttempt
  /\ restartedFor' = broadcast
  /\ pc' = [pc EXCEPT !["cap"] = "stop"]
  /\ UNCHANGED <<obsVars, airVars, alive, cancelled, seen, tries, wantVars,
                 faults, operations, exits>>

-----------------------------------------------------------------------------
(* RestartOBSOutput and RestartBroadcast, call by call *)

\* The restart ends. Only cap remembers how.
Ends(r, ok) ==
  /\ pc' = [pc EXCEPT ![r] = "idle"]
  /\ tries' = [tries EXCEPT ![r] = 0]
  /\ capRestarted' = (capRestarted \/ (r = "cap" /\ ok))

\* The stop was not accepted: the output is as it was, and owed nothing.
StartsAnyway(r) ==
  /\ pc' = [pc EXCEPT ![r] = "start"]
  /\ UNCHANGED <<tries, capRestarted>>
NothingToStart(r) == Ends(r, FALSE)

\* StopStream is accepted. (Dialing OBS pays no heed to the context.)
StopAccepted(r) ==
  /\ pc[r] = "stop" /\ CanStop
  /\ output' = "stopping"
  /\ pc' = [pc EXCEPT ![r] = "confirm"]
  /\ UNCHANGED <<socket, airVars, alive, cancelled, seen, tries, capVars,
                 wantVars, bounds>>

\* OBS cannot be dialed, or has no output to stop.
StopRefused(r) ==
  /\ pc[r] = "stop"
  /\ \/ ~CanStop /\ NoFault
     \/ Fault
  /\ NothingToStart(r)
  /\ UNCHANGED <<obsVars, airVars, alive, cancelled, seen, restartedFor,
                 attempts, wanted, gaveUp, orphaned, decisions, operations,
                 exits>>
  /\ Settle

\* awaitOutputStopped saw the output down: silent goes on to the start, cap
\* waits for the platform first.
Confirmed(r) ==
  /\ pc[r] = "confirm" /\ output = "stopped" /\ ~cancelled
  /\ pc' = [pc EXCEPT ![r] = IF r = "cap" THEN "offline" ELSE "start"]
  /\ UNCHANGED <<obsVars, airVars, alive, cancelled, seen, tries, capVars,
                 wantVars, bounds>>

\* The read failed, the 30 seconds passed or the context ended: the start is
\* owed all the same.
Dropped(r) == Ends(r, FALSE)
Owed(r) ==
  /\ pc' = [pc EXCEPT ![r] = "start"]
  /\ UNCHANGED <<tries, capRestarted>>

Unconfirmed(r) ==
  /\ pc[r] = "confirm"
  /\ Owed(r)
  /\ UNCHANGED <<obsVars, airVars, alive, cancelled, seen, restartedFor,
                 attempts, wanted, settled, gaveUp, orphaned, bounds>>

\* awaitOffline: an offline reading, the deadline or the context ends it.
AwaitOffline(r) ==
  /\ pc[r] = "offline"
  /\ pc' = [pc EXCEPT ![r] = "start"]
  /\ UNCHANGED <<obsVars, airVars, alive, cancelled, seen, tries, capVars,
                 wantVars, bounds>>

\* StartStream: rejected unless the output is down.
StartSucceeds(r) ==
  /\ pc[r] = "start" /\ output = "stopped"
  /\ output' = "active" /\ socket' = TRUE
  /\ Ends(r, TRUE) /\ Recovered
  /\ UNCHANGED <<airVars, alive, cancelled, seen, restartedFor, attempts,
                 wanted, settled, bounds>>

StartFails(r) ==
  /\ pc[r] = "start"
  /\ \/ output # "stopped" /\ NoFault
     \/ Fault
  /\ IF tries[r] + 1 < StartAttempts
     THEN /\ tries' = [tries EXCEPT ![r] = @ + 1]
          /\ UNCHANGED <<pc, capRestarted, gaveUp>>
     ELSE Ends(r, FALSE) /\ gaveUp' = (gaveUp \/ output # "active")
  /\ UNCHANGED <<obsVars, airVars, alive, cancelled, seen, restartedFor,
                 attempts, wanted, orphaned, decisions, operations, exits>>
  /\ Settle

RestartStep(r) ==
  \/ StopAccepted(r) \/ StopRefused(r)
  \/ Confirmed(r) \/ Unconfirmed(r) \/ AwaitOffline(r)
  \/ StartSucceeds(r) \/ StartFails(r)

-----------------------------------------------------------------------------
(* The process: its context is cancelled, the shutdown sequence runs beside *)
(* the watchdogs, and nothing waits for them before it exits.               *)

Cancel ==
  /\ alive /\ ~cancelled /\ exits < MaxExits
  /\ cancelled' = TRUE /\ exits' = exits + 1
  /\ UNCHANGED <<obsVars, airVars, alive, seen, pc, tries, capVars, wantVars,
                 decisions, faults, operations>>

Exit ==
  /\ alive /\ cancelled
  /\ alive' = FALSE
  /\ orphaned' = (orphaned \/ (output # "active" /\
                               \E r \in Restarters : Owes(r)))
  /\ pc' = [r \in Restarters |-> "idle"]
  /\ tries' = [r \in Restarters |-> 0]
  /\ UNCHANGED <<obsVars, airVars, cancelled, seen, capVars, wanted, gaveUp,
                 bounds>>
  /\ Settle

\* The next pod starts with nothing remembered.
Boot ==
  /\ ~alive
  /\ alive' = TRUE /\ cancelled' = FALSE /\ seen' = "unknown"
  /\ restartedFor' = 0 /\ attempts' = 0 /\ capRestarted' = FALSE
  /\ UNCHANGED <<obsVars, airVars, pc, tries, wanted, settled, gaveUp,
                 orphaned, bounds>>

-----------------------------------------------------------------------------
OutputInit ==
  /\ output = "active" /\ socket = TRUE
  /\ live = TRUE /\ broadcast = 1 /\ aged = FALSE
  /\ alive = TRUE /\ cancelled = FALSE /\ seen = "unknown"
  /\ pc = [r \in Restarters |-> "idle"]
  /\ tries = [r \in Restarters |-> 0]
  /\ restartedFor = 0 /\ attempts = 0 /\ capRestarted = FALSE
  /\ wanted = TRUE /\ settled = FALSE /\ gaveUp = FALSE /\ orphaned = FALSE
  /\ decisions = 0 /\ faults = 0 /\ operations = 0 /\ exits = 0

OutputNext ==
  \/ Teardown \/ HalfOpen \/ Reconnects \/ GoesOffline \/ GoesLive \/ GrowsOld
  \/ OperatorStops \/ OperatorStarts
  \/ Poll \/ PollFails \/ DecideSilent \/ DecideCap
  \/ \E r \in Restarters : RestartStep(r)
  \/ Cancel \/ Exit \/ Boot

OutputSpec == OutputInit /\ [][OutputNext]_outputVars

\* A restart under way goes on (each of its waits has a deadline), OBS closes
\* the socket in the end, and a cancelled process exits.
FairOutputSpec ==
  /\ OutputSpec
  /\ WF_outputVars(Teardown) /\ WF_outputVars(Exit)
  /\ \A r \in Restarters : WF_outputVars(RestartStep(r))

-----------------------------------------------------------------------------
(* Properties *)

\* Nothing but the two watchdogs starts the output, and both stand down from
\* one that is stopped: so a stream that is off though it should be on, with no
\* restart under way, must be one whose every start was refused, or whose
\* process ended under it. However the two restarts interleave.
DarkOnlyIfRefused ==
  wanted /\ alive /\ (\A r \in Restarters : ~Owes(r)) /\ output = "stopped"
    => gaveUp \/ orphaned

\* The operator's stop stands: a stream that is off, as wanted, with no start
\* owed, is not turned on by a watchdog that still sees it on.
OffStaysOff == settled => output = "stopped"

\* The output stays as the operator left it, on or off, unless every start was
\* refused or the process ended (RestartOBSOutput, RestartBroadcast).
OutputStands == DarkOnlyIfRefused /\ OffStaysOff

\* A restart does not leave the stream hanging: what it stops comes back, or
\* one of the reasons above keeps it down.
DarkIsTemporary ==
  (\E r \in Restarters : Owes(r)) ~> (output = "active" \/ gaveUp \/ orphaned)
=============================================================================
