------------------------------ MODULE Rollout -------------------------------
(***************************************************************************)
(* cmd/tripbot: how an instance starts, how it ends, and how the pod after *)
(* it overlaps with it.                                                    *)
(*                                                                         *)
(* A rolling update starts the new pod beside the old one: the HTTP server *)
(* is the first thing Run brings up, so the pod is Ready, and the old one  *)
(* is told to stop, while the rest of Run is still being installed step by *)
(* step. Both write the same users row, event rows and deploy rows; the    *)
(* session map, and the miles in it, are each pod's own. How the database  *)
(* calls of one pod interleave is module Sessions' subject: here a login   *)
(* and a checkpoint are one step each, of one viewer who keeps watching.   *)
(***************************************************************************)
EXTENDS Integers, Sequences, FiniteSets

CONSTANTS
  Pods,         \* 1..n: the pods of the instance, in the order they start
  Versions,     \* the builds they can run
  OrphanDelay,  \* orphanCheckDelay, in ticks
  Interval,     \* between two checkpoints of the miles, in ticks
  Handover,     \* external: the old pod is stopped this soon after the new one is Ready
  Grace,        \* external: ... and is killed this soon after that
  LastTick,     \* bound: ticks of the clock
  MaxDeaths     \* bound: pods that die without warning, and failing dedup reads

ASSUME RolloutConstants ==
  /\ IsFiniteSet(Pods) /\ Pods = 1..Cardinality(Pods) /\ Pods # {} /\ Versions # {}
  /\ OrphanDelay \in Nat /\ Interval \in Nat \ {0} /\ Handover \in Nat /\ Grace \in Nat
  /\ Handover + Grace < OrphanDelay
  /\ LastTick \in Nat /\ MaxDeaths \in Nat

\* Run, in its order. The outbound client comes up before the presence step, and
\* EventSub before the cron, so that what they announce has a way out; the chat
\* poll comes last.
Run == <<"serve", "deploy", "orphans", "presence", "cron">>
Unread == "unread"
NotYet == {0}

VARIABLES
  clock,
  pod,      \* pod[p]: the process, and what is in its memory
  stored,   \* users.miles of the viewer
  opened,   \* login rows, in order: the pod that wrote each
  paired,   \* the login rows with a logout row
  deploys,  \* deploy rows, in order: the versions
  mishaps,  \* bound: how much of MaxDeaths is used
  blind,    \* has a dedup read failed?
  watched   \* history: ticks the viewer watched while some pod had seen them

dbRows == <<stored, opened, paired, deploys>>
rolloutVars == <<clock, pod, dbRows, mishaps, blind, watched>>

Alive == {p \in Pods : pod[p].st \in {"up", "stopping", "closing"}}

\* st       "none", "up", "stopping" (told to), "closing" (viewer's miles saved),
\*          "gone" (after a graceful exit) or "dead"
\* done     how many steps of Run it has taken
\* own      the login rows before this one are not of its own run
\* ready, born, told: when it was Ready, took the orphan step, was told to stop
\* seen     the last deployed version it read
\* on, miles, since: the viewer's session: open?, lifetime miles, ticks not banked
\* count    the login rows it reported as orphaned, or NotYet
Unborn ==
  [st |-> "none", done |-> 0, build |-> Unread, own |-> 0, ready |-> 0, born |-> 0,
   told |-> 0, seen |-> Unread, on |-> FALSE, miles |-> 0, since |-> 0, count |-> NotYet]

RolloutTypeOK ==
  /\ clock \in 0..LastTick
  /\ pod \in [Pods -> [st : {"none", "up", "stopping", "closing", "gone", "dead"},
                       done : 0..Len(Run), build : Versions \cup {Unread}, own : Nat,
                       ready : 0..LastTick, born : 0..LastTick, told : 0..LastTick,
                       seen : Versions \cup {Unread, ""}, on : BOOLEAN, miles : Nat,
                       since : Nat, count : SUBSET Nat]]
  /\ stored \in Nat /\ watched \in Nat
  /\ opened \in Seq(Pods) /\ paired \subseteq DOMAIN opened
  /\ deploys \in Seq(Versions) /\ mishaps \in 0..MaxDeaths /\ blind \in BOOLEAN

RolloutInit ==
  /\ clock = 0 /\ pod = [p \in Pods |-> Unborn]
  /\ stored = 0 /\ opened = <<>> /\ paired = {} /\ deploys = <<>>
  /\ mishaps = 0 /\ blind = FALSE /\ watched = 0

Mishap == mishaps < MaxDeaths /\ mishaps' = mishaps + 1
Set(p, r) == pod' = [pod EXCEPT ![p] = r]

\* Has p taken the step of Run named s?
Has(p, s) == \E k \in 1..pod[p].done : Run[k] = s
Next1(p, s) == pod[p].done < Len(Run) /\ Run[pod[p].done + 1] = s
Took(p) == [pod[p] EXCEPT !.done = @ + 1]

-----------------------------------------------------------------------------
(* The cluster *)

\* A boot is over within a tick; the outgoing pod is told to stop, and killed, in
\* time; the cron banks in time.
OnTime ==
  \A p \in Alive :
    /\ Has(p, "cron")
    /\ \A q \in Alive : q > p /\ Has(q, "serve") /\ pod[p].st = "up"
                          => clock < pod[q].ready + Handover
    /\ pod[p].st # "up" => clock < pod[p].told + Grace
    /\ pod[p].st = "up" /\ pod[p].on => pod[p].since < Interval

ClockTicks ==
  /\ clock < LastTick /\ OnTime
  /\ clock' = clock + 1
  /\ pod' = [p \in Pods |-> IF p \in Alive /\ pod[p].on
                              THEN [pod[p] EXCEPT !.since = @ + 1] ELSE pod[p]]
  /\ watched' = watched + IF \E p \in Alive : pod[p].on THEN 1 ELSE 0
  /\ UNCHANGED <<dbRows, mishaps, blind>>

\* The first pod, the new one of a rollout, or the restart of one that ended.
Launch(p) ==
  /\ pod[p].st = "none" /\ Cardinality(Alive) < 2
  /\ \A q \in Pods : q < p => pod[q].st # "none"
  /\ \A q \in Alive : pod[q].st = "up" /\ Has(q, "cron")
  /\ \E v \in Versions :
       /\ p > 1 /\ Alive = {} => v = pod[p - 1].build
       /\ Set(p, [Unborn EXCEPT !.st = "up", !.build = v])
  /\ UNCHANGED <<clock, dbRows, mishaps, blind, watched>>

\* SIGTERM: a newer pod is Ready, or the instance is scaled away.
Tell(p) ==
  /\ pod[p].st = "up"
  /\ Set(p, [pod[p] EXCEPT !.st = "stopping", !.told = clock])
  /\ UNCHANGED <<clock, dbRows, mishaps, blind, watched>>

\* All that is left of an ended pod.
Over(p, how) ==
  [Unborn EXCEPT !.st = how, !.build = pod[p].build, !.own = pod[p].own, !.count = pod[p].count]

\* A crash, or the kill that ends the grace period.
Die(p) ==
  /\ p \in Alive
  /\ \/ Mishap
     \/ pod[p].st # "up" /\ clock >= pod[p].told + Grace /\ UNCHANGED mishaps
  /\ Set(p, Over(p, "dead"))
  /\ UNCHANGED <<clock, dbRows, blind, watched>>

-----------------------------------------------------------------------------
(* Run: none of its steps looks at the context before the last *)

Serve(p) ==
  /\ p \in Alive /\ Next1(p, "serve")
  /\ Set(p, [Took(p) EXCEPT !.ready = clock])
  /\ UNCHANGED <<clock, dbRows, mishaps, blind, watched>>

\* Deploy: the dedup read, which may fail ...
ReadLastDeploy(p) ==
  /\ p \in Alive /\ Next1(p, "deploy") /\ pod[p].seen = Unread
  /\ \/ /\ Set(p, [pod[p] EXCEPT !.seen =
                     IF deploys = <<>> THEN "" ELSE deploys[Len(deploys)]])
        /\ UNCHANGED <<mishaps, blind>>
     \/ /\ Mishap /\ blind' = TRUE
        /\ Set(p, [pod[p] EXCEPT !.seen = ""])
  /\ UNCHANGED <<clock, dbRows, watched>>

\* ... and the row, unless the build is the one recorded last.
EveryBoot(p) == TRUE
IsNews(p) == pod[p].seen # pod[p].build

RecordDeploy(p) ==
  /\ p \in Alive /\ Next1(p, "deploy") /\ pod[p].seen # Unread
  /\ deploys' = IF IsNews(p) THEN Append(deploys, pod[p].build) ELSE deploys
  /\ Set(p, Took(p))
  /\ UNCHANGED <<clock, stored, opened, paired, mishaps, blind, watched>>

\* reportOrphanedSessions is started with the time of its start.
StartOrphanWatch(p) ==
  /\ p \in Alive /\ Next1(p, "orphans")
  /\ Set(p, [Took(p) EXCEPT !.born = clock, !.own = Len(opened) + 1])
  /\ UNCHANGED <<clock, dbRows, mishaps, blind, watched>>

\* login, with the row read and written at once.
LogIn(p, r) ==
  /\ Set(p, [r EXCEPT !.on = TRUE, !.miles = stored, !.since = 0])
  /\ opened' = Append(opened, p)
  /\ UNCHANGED <<stored, paired, deploys>>

\* getCurrentUsers, under a context of its own: a cancelled Run logs in all the same.
SeeWhoIsThere(p) ==
  /\ p \in Alive /\ Next1(p, "presence")
  /\ LogIn(p, Took(p))
  /\ UNCHANGED <<clock, mishaps, blind, watched>>

StartCron(p) ==
  /\ p \in Alive /\ Next1(p, "cron")
  /\ Set(p, Took(p))
  /\ UNCHANGED <<clock, dbRows, mishaps, blind, watched>>

-----------------------------------------------------------------------------
(* While it runs *)

\* CheckpointMiles: the credit in the map, and the row written whole.
CreditsOnly(p) == stored
WritesWhole(p) == pod[p].miles + pod[p].since

Checkpoint(p) ==
  /\ p \in Alive /\ Has(p, "cron") /\ pod[p].st # "closing"
  /\ pod[p].on /\ pod[p].since > 0
  /\ stored' = WritesWhole(p)
  /\ Set(p, [pod[p] EXCEPT !.miles = @ + pod[p].since, !.since = 0])
  /\ UNCHANGED <<clock, opened, paired, deploys, mishaps, blind, watched>>

AtOnce(p) == clock >= pod[p].born
Waited(p) == clock >= pod[p].born + OrphanDelay

\* The logins from before this run, of any pod, that no logout pairs.
CountOrphans(p) ==
  /\ pod[p].st = "up" /\ Has(p, "orphans") /\ pod[p].count = NotYet
  /\ Waited(p)
  /\ Set(p, [pod[p] EXCEPT !.count =
               {n \in DOMAIN opened : n < pod[p].own /\ n \notin paired}])
  /\ UNCHANGED <<clock, dbRows, mishaps, blind, watched>>

-----------------------------------------------------------------------------
(* shutdown: the cron is stopped, the sessions are flushed, the database closed *)

\* Run has reached its end and finds the context cancelled.
Flush(p) ==
  /\ pod[p].st = "stopping" /\ Has(p, "cron") /\ pod[p].on
  /\ stored' = WritesWhole(p)
  /\ Set(p, [pod[p] EXCEPT !.st = "closing", !.on = FALSE, !.since = 0])
  /\ UNCHANGED <<clock, opened, paired, deploys, mishaps, blind, watched>>

Exit(p) ==
  /\ pod[p].st = "closing"
  /\ paired' = paired \cup {n \in DOMAIN opened : opened[n] = p}
  /\ Set(p, Over(p, "gone"))
  /\ UNCHANGED <<clock, stored, opened, deploys, mishaps, blind, watched>>

RolloutNext ==
  \/ ClockTicks
  \/ \E p \in Pods :
       \/ Launch(p) \/ Tell(p) \/ Die(p)
       \/ Serve(p) \/ ReadLastDeploy(p) \/ RecordDeploy(p) \/ StartOrphanWatch(p)
       \/ SeeWhoIsThere(p) \/ StartCron(p)
       \/ Checkpoint(p) \/ CountOrphans(p)
       \/ Flush(p) \/ Exit(p)

RolloutSpec == RolloutInit /\ [][RolloutNext]_rolloutVars

-----------------------------------------------------------------------------
(* Properties *)

\* opsevents.go: counting at once would read the sessions of a pod that is still
\* draining as orphans. What a pod reports are sessions of pods that died, all of
\* them, and none that a graceful exit closed or is still to close.
OrphansAreLost ==
  \A p \in Pods : pod[p].count # NotYet =>
    pod[p].count = {n \in DOMAIN opened :
                      /\ n < pod[p].own /\ n \notin paired
                      /\ pod[opened[n]].st = "dead"}

\* session.go, CheckpointMiles: a process that ends costs one interval, never the
\* session. However pods die, drain and overlap, the viewer's miles trail what they
\* watched by no more than an interval for each pod that ended, and what its grace
\* period adds.
Shown == {stored} \cup {pod[p].miles + pod[p].since : p \in {q \in Alive : pod[q].on}}
EndsCostAnInterval ==
  LET ended == {p \in Pods : pod[p].st \in {"closing", "gone", "dead"}}
  IN  \E m \in Shown : watched - m <= Cardinality(ended) * (Interval + Grace)

\* events.go, Deploy: only a change of version is a deploy.
DeployRowsTurn ==
  ~blind => \A i \in 1..Len(deploys) - 1 : deploys[i] # deploys[i + 1]

\* opsevents.go: a graceful exit reports 0 orphans; anything else names the viewers
\* whose miles that exit discarded, so that the loss is known within minutes. A pod
\* that reports none after exits that were all graceful has a viewer short of nothing.
NoOrphansNoLoss ==
  \A p \in Pods :
    /\ pod[p].st = "up" /\ pod[p].count = {} /\ pod[p].on
    /\ \A q \in Pods : q < p => pod[q].st = "gone"
    => pod[p].miles + pod[p].since >= watched

\* A change of pods costs what the rows say: the orphans reported are sessions
\* nobody closed, an end costs at most an interval of miles, and a deploy row
\* is written when the version turns (reportOrphanedSessions, shutdown, Deploy).
HandoversAreAccounted == OrphansAreLost /\ EndsCostAnInterval /\ DeployRowsTurn
=============================================================================
