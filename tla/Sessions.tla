------------------------------ MODULE Sessions ------------------------------
(***************************************************************************)
(* pkg/users: the viewers logged in to one platform's chat, and the miles  *)
(* they earn by watching.                                                  *)
(*                                                                         *)
(* The session map is guarded by a mutex that is never held across a       *)
(* database call, so every operation is a short chain of atomic steps with *)
(* a copy of the viewer's row carried between them, and the chains of the  *)
(* goroutines that touch the map interleave freely:                        *)
(*   - Ticks   the users.UpdateSession cron (logout, then login)           *)
(*   - Bankers the users.CheckpointMiles cron                              *)
(*   - Chats   the inbound chat goroutine (login, !givemiles)              *)
(*   - Main    the shutdown sequence                                       *)
(* One goroutine polls the platform's chat and answers what it brings in    *)
(* order, so !givemiles never runs beside itself.                          *)
(* A users row is written whole (save() writes an absolute miles figure);  *)
(* the monthly scoreboard is written by increments.                        *)
(***************************************************************************)
EXTENDS Integers, FiniteSets, FiniteSetsExt

CONSTANTS
  Users,          \* viewers
  Sids,           \* the session ids uuid.New can hand out
  NoSid,
  Ticks,          \* concurrent executions of the UpdateSession job
  Bankers,        \* concurrent executions of the CheckpointMiles job
  Chats,          \* the one goroutine that handles inbound chat
  Mains,          \* the goroutine that runs shutdown ({} to leave it out)
  MilesPerTick,   \* helpers.DurationToMiles of one clock tick
  BonusPerTick,   \* a subscriber's bonus for one clock tick
  Lifetime,       \* users.miles of every viewer at the start
  Gift,           \* the argument of GiveEveryoneMiles
  Deltas,         \* the corrections !givemiles is asked for
  MaxTime,        \* bound: ticks of the clock
  Budget          \* bound: gifts, corrections, subscription changes, crashes and
                  \* failing writes

Cron  == Ticks \cup Bankers
Procs == Cron \cup Chats \cup Mains

ASSUME ConstantsOK ==
  /\ NoSid \notin Sids
  /\ Ticks \cap Bankers = {} /\ Ticks \cap Chats = {} /\ Bankers \cap Chats = {}
  /\ Mains \cap (Cron \cup Chats) = {}
  /\ IsFiniteSet(Procs) /\ \A p, q \in Chats : p = q
  /\ MilesPerTick \in Nat /\ BonusPerTick \in Nat /\ Gift \in Nat
  /\ Lifetime \in Nat
  /\ Deltas \subseteq Int
  /\ MaxTime \in Nat /\ Budget \in Nat

VARIABLES
  now,        \* the clock
  subscriber, \* subscriber[u]: does the chatter source report u subscribed?
  row,        \* row[u]: users.miles in the database
  score,      \* score[u]: u's value on this month's miles scoreboard
  online,     \* the keys of Sessions.loggedIn
  entry,      \* entry[u]: the User that loggedIn[u] points to
  pc, op,     \* each goroutine's next step, and the operation it is part of
  who,        \* the viewer that operation is about
  copy,       \* the User value it carries outside the mutex
  amt,        \* the miles it is about to bank, or the correction it applies
  outs, ins,  \* viewers it has still to visit (log out or bank; log in)
  cancelled,  \* has the shutdown cancelled the job and chat contexts?
  spent,      \* bound: how much of Budget is used
  (* What the events table records. *)
  used,       \* session ids handed out so far
  logins,     \* login events, as <<viewer, session id>>
  logouts,    \* logouts[s]: logout events of session s
  (* History, for the properties: what the viewers are due. *)
  tally,      \* tally[u]: the most u's current session has been worth so far
  earned,     \* earned[u]: the lifetime miles u is due
  boardDue,   \* boardDue[u]: what the monthly board owes u
  faulted,    \* has a write failed, or the process been stopped?
  disturbed   \* viewers two operations worked on at once, or lost a write

memVars  == <<online, entry>>
dbVars   == <<row, score>>
procVars == <<pc, op, who, copy, amt, outs, ins>>
evVars   == <<used, logins, logouts>>
dueVars  == <<tally, earned, boardDue>>
vars == <<now, subscriber, memVars, dbVars, procVars, evVars, dueVars,
          cancelled, spent, faulted, disturbed>>

User == [sid : Sids \cup {NoSid}, miles : Int, since : Nat,
         banked : Int, extra : Int]
Steps == {"idle", "find", "credit", "persist", "publish", "readscore",
          "score", "event"}
Ops   == {"none", "login", "logout", "bank", "correct", "amend"}

Blank == [sid |-> NoSid, miles |-> 0, since |-> 0, banked |-> 0, extra |-> 0]

Larger(a, b) == IF a > b THEN a ELSE b

TypeOK ==
  /\ now \in Nat
  /\ subscriber \in [Users -> BOOLEAN]
  /\ row \in [Users -> Int] /\ score \in [Users -> Int]
  /\ online \subseteq Users /\ entry \in [Users -> User]
  /\ pc \in [Procs -> Steps] /\ op \in [Procs -> Ops]
  /\ who \in [Procs -> Users] /\ copy \in [Procs -> User]
  /\ amt \in [Procs -> Int]
  /\ outs \in [Procs -> SUBSET Users] /\ ins \in [Procs -> SUBSET Users]
  /\ cancelled \in BOOLEAN /\ spent \in Nat
  /\ used \subseteq Sids
  /\ logins \subseteq Users \X Sids /\ logouts \in [Sids -> Nat]
  /\ tally \in [Users -> Int] /\ earned \in [Users -> Int]
  /\ boardDue \in [Users -> Int]
  /\ faulted \in BOOLEAN /\ disturbed \subseteq Users

-----------------------------------------------------------------------------
(* Miles arithmetic *)

\* What the session behind e is worth by now, bonus included.
SessionMiles(e, u) ==
  (now - e.since) * (MilesPerTick + IF subscriber[u] THEN BonusPerTick ELSE 0)

\* The part of it that is not banked yet; a lapsed subscription floors at 0.
InFlightIgnoresBanked(e, u) == SessionMiles(e, u)
InFlight(e, u) == Larger(SessionMiles(e, u) - e.banked, 0)

\* A clawback removes at most the balance it comes out of.
ClampNothing(balance, delta) == delta
ClampClawback(balance, delta) ==
  IF delta >= 0 THEN delta ELSE Larger(delta, -Larger(balance, 0))

-----------------------------------------------------------------------------
(* What the critical sections do to the map and its entries *)

LeaveInMap(u) == UNCHANGED memVars
Evict(u) ==
  /\ online' = online \ {u}
  /\ entry' = [entry EXCEPT ![u] = Blank]

WithMiles(e, m) == [e EXCEPT !.miles = @ + m]

GiftedUntracked(e) == WithMiles(e, Gift)
Gifted(e) == [WithMiles(e, Gift) EXCEPT !.extra = @ + Gift]

CreditedUnmarked(e, m) == WithMiles(e, m)
Credited(e, m) == [WithMiles(e, m) EXCEPT !.banked = @ + m]

\* LoginIfNecessary: is there no session to reuse?
PresumedAbsent(u) == u \in Users
Absent(u) == u \notin online

\* FindOrCreate: the session a login starts from.
FreshSession(s, u) ==
  [sid |-> s, miles |-> row[u], since |-> now, banked |-> 0, extra |-> 0]

\* uuid.New: an id no session had before.
ZeroSid == {NoSid}
FreshSids == Sids \ used

-----------------------------------------------------------------------------
(* Goroutines *)

\* p works on u's row: from the moment it looked u up until its users write.
Holds(p, u) ==
  who[p] = u /\ pc[p] \in {"find", "credit", "persist", "publish"}

\* p starts to work on u, which another operation may be doing already.
Take(p, u) ==
  disturbed' = IF \E q \in Procs \ {p} : Holds(q, u)
               THEN disturbed \cup {u} ELSE disturbed

\* p is in no operation, nor in a loop with viewers left to visit.
AtRest(p) == pc[p] = "idle" /\ outs[p] = {} /\ ins[p] = {}

\* p's operation is over.
Finish(p) ==
  /\ pc' = [pc EXCEPT ![p] = "idle"]
  /\ op' = [op EXCEPT ![p] = "none"]
  /\ copy' = [copy EXCEPT ![p] = Blank]
  /\ amt' = [amt EXCEPT ![p] = 0]

\* p's context is cancelled: each database call it makes now fails.
Dead(p) == cancelled /\ p \notin Mains

Fault(p) ==
  /\ \/ Dead(p) /\ spent' = spent
     \/ ~Dead(p) /\ spent < Budget /\ spent' = spent + 1
  /\ faulted' = TRUE

-----------------------------------------------------------------------------
(* The world outside *)

Clock ==
  /\ now < MaxTime
  /\ now' = now + 1
  /\ UNCHANGED <<subscriber, memVars, dbVars, procVars, evVars, dueVars,
                 cancelled, spent, disturbed, faulted>>

Subscription(u) ==
  /\ spent < Budget /\ spent' = spent + 1
  /\ subscriber' = [subscriber EXCEPT ![u] = ~@]
  /\ UNCHANGED <<now, memVars, dbVars, procVars, evVars, dueVars,
                 cancelled, disturbed, faulted>>

\* A subscription arrives: GiveEveryoneMiles, in one critical section.
Give ==
  /\ spent < Budget /\ Gift > 0 /\ online # {}
  /\ spent' = spent + 1
  /\ entry' = [u \in Users |->
                 IF u \in online
                 THEN Gifted(entry[u]) ELSE entry[u]]
  /\ earned' = [u \in Users |->
                  IF u \in online THEN earned[u] + Gift ELSE earned[u]]
  /\ UNCHANGED <<now, subscriber, dbVars, online, procVars, evVars, tally,
                 boardDue, cancelled, disturbed, faulted>>

-----------------------------------------------------------------------------
(* UpdateSession and Shutdown: whom to log out, whom to log in *)

StartTick(p) ==
  /\ p \in Ticks /\ AtRest(p) /\ ~cancelled
  /\ \E present \in SUBSET Users :
       /\ outs' = [outs EXCEPT ![p] = online \ present]
       /\ ins' = [ins EXCEPT ![p] = present \ online]
  /\ UNCHANGED <<now, subscriber, memVars, dbVars, pc, op, who, copy, amt,
                 evVars, dueVars, cancelled, spent, disturbed, faulted>>

StartCheckpoint(p) ==
  /\ p \in Bankers /\ AtRest(p) /\ ~cancelled
  /\ outs' = [outs EXCEPT ![p] = online]
  /\ UNCHANGED <<now, subscriber, memVars, dbVars, pc, op, who, copy, amt,
                 ins, evVars, dueVars, cancelled, spent, disturbed, faulted>>

\* scheduler.Shutdown cancels the job contexts; the chat context is already
\* cancelled, which is what made Run return.
CancelJobs(p) ==
  /\ p \in Mains /\ ~cancelled
  /\ cancelled' = TRUE
  /\ faulted' = TRUE
  /\ UNCHANGED <<now, subscriber, memVars, dbVars, procVars, evVars, dueVars,
                 spent, disturbed>>

StartShutdown(p) ==
  /\ p \in Mains /\ AtRest(p) /\ cancelled
  /\ outs' = [outs EXCEPT ![p] = online]
  /\ UNCHANGED <<now, subscriber, memVars, dbVars, pc, op, who, copy, amt,
                 ins, evVars, dueVars, cancelled, spent, disturbed, faulted>>

-----------------------------------------------------------------------------
(* logout *)

\* The entry leaves the map and the miles in flight are added to the copy.
ClaimNothing(p, u) ==
  /\ u \notin online
  /\ UNCHANGED <<memVars, pc, op, who, copy, amt, dueVars, disturbed>>

Claim(p, u) ==
  /\ u \in online
  /\ LET m     == InFlight(entry[u], u)
         worth == Larger(tally[u], SessionMiles(entry[u], u))
     IN
     /\ copy' = [copy EXCEPT ![p] = WithMiles(entry[u], m)]
     /\ amt' = [amt EXCEPT ![p] = m]
     /\ earned' = [earned EXCEPT ![u] = @ + worth - tally[u]]
     /\ boardDue' = [boardDue EXCEPT ![u] = @ + worth - tally[u]]
  /\ tally' = [tally EXCEPT ![u] = 0]
  /\ Evict(u)
  /\ pc' = [pc EXCEPT ![p] = "persist"]
  /\ op' = [op EXCEPT ![p] = "logout"]
  /\ who' = [who EXCEPT ![p] = u]
  /\ Take(p, u)

LogoutNext(p) ==
  /\ p \in Ticks \cup Mains /\ pc[p] = "idle"
  /\ \E u \in outs[p] :
       /\ outs' = [outs EXCEPT ![p] = @ \ {u}]
       /\ ClaimNothing(p, u) \/ Claim(p, u)
  /\ UNCHANGED <<now, subscriber, dbVars, ins, evVars,
                 cancelled, spent, faulted>>

-----------------------------------------------------------------------------
(* login *)

\* LoginIfNecessary found no session for u.
BeginLogin(p, u) ==
  /\ Absent(u)
  /\ pc' = [pc EXCEPT ![p] = "find"]
  /\ op' = [op EXCEPT ![p] = "login"]
  /\ who' = [who EXCEPT ![p] = u]
  /\ Take(p, u)

LoginNext(p) ==
  /\ p \in Ticks /\ pc[p] = "idle" /\ outs[p] = {}
  /\ \E u \in ins[p] :
       /\ ins' = [ins EXCEPT ![p] = @ \ {u}]
       /\ \/ BeginLogin(p, u)
          \/ u \in online /\ UNCHANGED <<pc, op, who, disturbed>>
  /\ UNCHANGED <<now, subscriber, memVars, dbVars, copy, amt, outs,
                 evVars, dueVars, cancelled, spent, faulted>>

ChatLogin(p, u) ==
  /\ p \in Chats /\ pc[p] = "idle" /\ ~cancelled
  /\ BeginLogin(p, u)
  /\ UNCHANGED <<now, subscriber, memVars, dbVars, copy, amt, outs, ins,
                 evVars, dueVars, cancelled, spent, faulted>>

\* FindOrCreate for a login: the row as it is now, under a fresh session id.
FindForLogin(p) ==
  /\ pc[p] = "find" /\ op[p] = "login" /\ ~Dead(p)
  /\ \E s \in FreshSids :
       /\ used' = used \cup {s}
       /\ copy' = [copy EXCEPT ![p] = FreshSession(s, who[p])]
  /\ pc' = [pc EXCEPT ![p] = "persist"]
  /\ UNCHANGED <<now, subscriber, memVars, dbVars, op, who, amt, outs,
                 ins, logins, logouts, dueVars, cancelled, spent, disturbed,
                 faulted>>

\* No row, no session: the operation is dropped.
FindFails(p) ==
  /\ pc[p] = "find"
  /\ Finish(p)
  /\ UNCHANGED <<now, subscriber, memVars, dbVars, who, outs, ins, evVars,
                 dueVars, cancelled, spent, disturbed, faulted>>

\* The map takes the new entry, whatever it held under that name.
Publish(p) ==
  /\ pc[p] = "publish"
  /\ online' = online \cup {who[p]}
  /\ entry' = [entry EXCEPT ![who[p]] = copy[p]]
  /\ tally' = [tally EXCEPT ![who[p]] = 0]
  /\ pc' = [pc EXCEPT ![p] = "event"]
  /\ UNCHANGED <<now, subscriber, dbVars, op, who, copy, amt, outs, ins,
                 evVars, earned, boardDue, cancelled, spent, disturbed,
                 faulted>>

-----------------------------------------------------------------------------
(* CheckpointMiles *)

\* The miles are measured in one critical section ...
MeasureNext(p) ==
  /\ p \in Bankers /\ pc[p] = "idle"
  /\ \E u \in outs[p] :
       LET worth == Larger(tally[u], SessionMiles(entry[u], u)) IN
       /\ outs' = [outs EXCEPT ![p] = @ \ {u}]
       /\ \/ /\ u \in online /\ InFlight(entry[u], u) > 0
             /\ amt' = [amt EXCEPT ![p] = InFlight(entry[u], u)]
             /\ earned' = [earned EXCEPT ![u] = @ + worth - tally[u]]
             /\ boardDue' = [boardDue EXCEPT ![u] = @ + worth - tally[u]]
             /\ tally' = [tally EXCEPT ![u] = worth]
             /\ pc' = [pc EXCEPT ![p] = "credit"]
             /\ op' = [op EXCEPT ![p] = "bank"]
             /\ who' = [who EXCEPT ![p] = u]
             /\ Take(p, u)
          \/ /\ u \notin online \/ InFlight(entry[u], u) = 0
             /\ UNCHANGED <<amt, dueVars, pc, op, who, disturbed>>
  /\ UNCHANGED <<now, subscriber, memVars, dbVars, copy, ins, evVars,
                 cancelled, spent, faulted>>

\* ... and credited in another, to whichever session is there by then.
Credit(p) ==
  /\ pc[p] = "credit"
  /\ \/ /\ who[p] \in online
        /\ entry' = [entry EXCEPT ![who[p]] = Credited(entry[who[p]], amt[p])]
        /\ copy' = [copy EXCEPT ![p] = Credited(entry[who[p]], amt[p])]
        /\ pc' = [pc EXCEPT ![p] = "persist"]
        /\ UNCHANGED <<op, amt>>
     \/ /\ who[p] \notin online
        /\ Finish(p)
        /\ UNCHANGED entry
  /\ UNCHANGED <<now, subscriber, dbVars, online, who, outs, ins, evVars,
                 dueVars, cancelled, spent, disturbed, faulted>>

-----------------------------------------------------------------------------
(* CorrectMiles *)

CorrectCopyOnly(p, u, d) ==
  /\ u \in online
  /\ LET delta == ClampClawback(entry[u].miles, d) IN
     /\ copy' = [copy EXCEPT ![p] = WithMiles(entry[u], delta)]
     /\ amt' = [amt EXCEPT ![p] = delta]
     /\ earned' = [earned EXCEPT ![u] = @ + delta]
  /\ pc' = [pc EXCEPT ![p] = "persist"]
  /\ op' = [op EXCEPT ![p] = "correct"]
  /\ UNCHANGED entry

\* A logged-in viewer: the live entry and the copy to save move together.
CorrectLive(p, u, d) ==
  /\ u \in online
  /\ LET delta == ClampClawback(entry[u].miles, d) IN
     /\ entry' = [entry EXCEPT ![u] = WithMiles(entry[u], delta)]
     /\ copy' = [copy EXCEPT ![p] = WithMiles(entry[u], delta)]
     /\ amt' = [amt EXCEPT ![p] = delta]
     /\ earned' = [earned EXCEPT ![u] = @ + delta]
  /\ pc' = [pc EXCEPT ![p] = "persist"]
  /\ op' = [op EXCEPT ![p] = "correct"]

\* Nobody by that name in the map: the correction goes to the row alone.
CorrectOffline(p, u, d) ==
  /\ u \notin online
  /\ amt' = [amt EXCEPT ![p] = d]
  /\ pc' = [pc EXCEPT ![p] = "find"]
  /\ op' = [op EXCEPT ![p] = "amend"]
  /\ UNCHANGED <<entry, copy, earned>>

CorrectMiles(p, u, d) ==
  /\ p \in Chats /\ pc[p] = "idle" /\ ~cancelled
  /\ spent < Budget /\ spent' = spent + 1
  /\ CorrectLive(p, u, d) \/ CorrectOffline(p, u, d)
  /\ who' = [who EXCEPT ![p] = u]
  /\ Take(p, u)
  /\ UNCHANGED <<now, subscriber, dbVars, online, outs, ins, evVars,
                 tally, boardDue, cancelled, faulted>>

FindForAmend(p) ==
  /\ pc[p] = "find" /\ op[p] = "amend" /\ ~Dead(p)
  /\ LET u     == who[p]
         delta == ClampClawback(row[u], amt[p])
     IN
     /\ copy' = [copy EXCEPT ![p] = WithMiles(Blank, row[u] + delta)]
     /\ amt' = [amt EXCEPT ![p] = delta]
  /\ pc' = [pc EXCEPT ![p] = "persist"]
  /\ UNCHANGED <<now, subscriber, memVars, dbVars, op, who, outs, ins,
                 evVars, dueVars, cancelled, spent, disturbed, faulted>>

-----------------------------------------------------------------------------
(* The writes the operations share *)

\* A correction of nothing is not entered on the board, a clawback is clamped
\* to what the board shows first.
AfterSaveNoBoardClamp(p) == IF op[p] = "login" THEN "publish" ELSE "score"

AfterSave(p) ==
  IF op[p] = "login" THEN "publish"
  ELSE IF op[p] \in {"correct", "amend"} /\ amt[p] <= 0
       THEN IF amt[p] = 0 THEN "event" ELSE "readscore"
       ELSE "score"

\* User.save: the row takes the copy's miles. Its failure is only logged.
Save(p) ==
  /\ pc[p] = "persist" /\ ~Dead(p)
  /\ row' = [row EXCEPT ![who[p]] = copy[p].miles]
  /\ earned' = IF op[p] = "amend"
               THEN [earned EXCEPT ![who[p]] = @ + amt[p]] ELSE earned
  /\ pc' = [pc EXCEPT ![p] = AfterSave(p)]
  /\ UNCHANGED <<now, subscriber, memVars, score, op, who, copy, amt, outs, ins,
                 evVars, tally, boardDue, cancelled, spent, disturbed, faulted>>

SaveFails(p) ==
  /\ pc[p] = "persist" /\ Fault(p)
  /\ pc' = [pc EXCEPT ![p] = AfterSave(p)]
  /\ disturbed' = IF op[p] = "logout"
                  THEN disturbed \cup {who[p]} ELSE disturbed
  /\ UNCHANGED <<now, subscriber, memVars, dbVars, op, who, copy, amt, outs,
                 ins, evVars, dueVars, cancelled>>

\* correctMonthly: a clawback takes at most what the board shows.
ReadScore(p) ==
  /\ pc[p] = "readscore" /\ ~Dead(p)
  /\ LET delta == Larger(amt[p], -score[who[p]]) IN
     /\ amt' = [amt EXCEPT ![p] = delta]
     /\ pc' = [pc EXCEPT ![p] = IF delta = 0 THEN "event" ELSE "score"]
  /\ UNCHANGED <<now, subscriber, memVars, dbVars, op, who, copy, outs,
                 ins, evVars, dueVars, cancelled, spent, disturbed, faulted>>

ReadScoreFails(p) ==
  /\ pc[p] = "readscore" /\ Fault(p)
  /\ pc' = [pc EXCEPT ![p] = "event"]
  /\ UNCHANGED <<now, subscriber, memVars, dbVars, op, who, copy, amt,
                 outs, ins, evVars, dueVars, cancelled, disturbed>>

\* After the scoreboard: a checkpoint is over, the others log an event.
Scored(p) ==
  IF op[p] = "bank" THEN Finish(p)
  ELSE pc' = [pc EXCEPT ![p] = "event"] /\ UNCHANGED <<op, copy, amt>>

\* AddToScore, one increment in one statement.
AddScore(p) ==
  /\ pc[p] = "score" /\ ~Dead(p)
  /\ score' = [score EXCEPT ![who[p]] = @ + amt[p]]
  /\ boardDue' = IF op[p] \in {"correct", "amend"}
                 THEN [boardDue EXCEPT ![who[p]] = @ + amt[p]] ELSE boardDue
  /\ Scored(p)
  /\ UNCHANGED <<now, subscriber, memVars, row, who, outs, ins, evVars, tally,
                 earned, cancelled, spent, disturbed, faulted>>

AddScoreFails(p) ==
  /\ pc[p] = "score" /\ Fault(p)
  /\ Scored(p)
  /\ UNCHANGED <<now, subscriber, memVars, dbVars, who, outs, ins, evVars,
                 dueVars, cancelled, disturbed>>

\* events.Login, events.Logout or the correction event.
Record(p) ==
  /\ pc[p] = "event" /\ ~Dead(p)
  /\ logins' = IF op[p] = "login"
               THEN logins \cup {<<who[p], copy[p].sid>>} ELSE logins
  /\ logouts' = IF op[p] = "logout"
                THEN [logouts EXCEPT ![copy[p].sid] = @ + 1] ELSE logouts
  /\ Finish(p)
  /\ UNCHANGED <<now, subscriber, memVars, dbVars, who, outs, ins, used,
                 dueVars, cancelled, spent, disturbed, faulted>>

RecordFails(p) ==
  /\ pc[p] = "event" /\ Fault(p)
  /\ Finish(p)
  /\ UNCHANGED <<now, subscriber, memVars, dbVars, who, outs, ins, evVars,
                 dueVars, cancelled, disturbed>>

-----------------------------------------------------------------------------
(* A crash loses the map; the next process starts from the rows. *)
Crash ==
  /\ spent < Budget /\ spent' = spent + 1
  /\ faulted' = TRUE
  /\ online' = {}
  /\ entry' = [u \in Users |-> Blank]
  /\ pc' = [p \in Procs |-> "idle"]
  /\ op' = [p \in Procs |-> "none"]
  /\ copy' = [p \in Procs |-> Blank]
  /\ amt' = [p \in Procs |-> 0]
  /\ outs' = [p \in Procs |-> {}]
  /\ ins' = [p \in Procs |-> {}]
  /\ cancelled' = FALSE
  /\ disturbed' = {}
  /\ earned' = row
  /\ boardDue' = score
  /\ tally' = [u \in Users |-> 0]
  /\ UNCHANGED <<now, subscriber, dbVars, who, evVars>>

-----------------------------------------------------------------------------
Init ==
  /\ now = 0
  /\ subscriber \in [Users -> BOOLEAN]
  /\ row = [u \in Users |-> Lifetime]
  /\ score = [u \in Users |-> 0]
  /\ online = {}
  /\ entry = [u \in Users |-> Blank]
  /\ pc = [p \in Procs |-> "idle"]
  /\ op = [p \in Procs |-> "none"]
  /\ who \in [Procs -> Users] /\ \A p, q \in Procs : who[p] = who[q]
  /\ copy = [p \in Procs |-> Blank]
  /\ amt = [p \in Procs |-> 0]
  /\ outs = [p \in Procs |-> {}]
  /\ ins = [p \in Procs |-> {}]
  /\ cancelled = FALSE
  /\ spent = 0
  /\ used = {}
  /\ logins = {}
  /\ logouts = [s \in Sids |-> 0]
  /\ tally = [u \in Users |-> 0]
  /\ earned = row
  /\ boardDue = score
  /\ faulted = FALSE
  /\ disturbed = {}

Step(p) ==
  \/ StartTick(p) \/ StartCheckpoint(p)
  \/ CancelJobs(p) \/ StartShutdown(p)
  \/ LogoutNext(p) \/ LoginNext(p) \/ MeasureNext(p)
  \/ \E u \in Users : ChatLogin(p, u)
  \/ \E u \in Users, d \in Deltas : CorrectMiles(p, u, d)
  \/ FindForLogin(p) \/ FindForAmend(p) \/ FindFails(p)
  \/ Publish(p) \/ Credit(p)
  \/ Save(p) \/ SaveFails(p)
  \/ ReadScore(p) \/ ReadScoreFails(p) \/ AddScore(p) \/ AddScoreFails(p)
  \/ Record(p) \/ RecordFails(p)

Next ==
  \/ Clock \/ Give \/ Crash
  \/ \E u \in Users : Subscription(u)
  \/ \E p \in Procs : Step(p)

Spec == Init /\ [][Next]_vars

-----------------------------------------------------------------------------
(* Properties *)

\* Only sessions that exist are closed, and none twice: of a logout by the
\* cron and one by the shutdown, the claim lets one through.
ClosedAtMostOnce == \A s \in Sids : logouts[s] <= (IF s \in used THEN 1 ELSE 0)

\* Lifetime miles: as long as no two operations worked on a viewer's row at
\* once, whatever ran before and in whatever order, the session entry holds
\* every mile the viewer is due (a checkpoint about to credit one excepted),
\* and once the viewer is gone the database does.
LifetimeMilesKept ==
  \A u \in Users \ disturbed :
    /\ u \in online /\ (\A p \in Procs : who[p] = u => pc[p] # "credit")
         => entry[u].miles = earned[u]
    /\ u \notin online /\ (\A p \in Procs : ~Holds(p, u))
         => row[u] = earned[u]

\* What a crash can cost: while a session is open and nothing is being written
\* for its viewer, the row lacks the gifts of this session at most. Checkpoints
\* and corrections are already in it.
UnsavedIsOnlyGifts ==
  ~faulted =>
    \A u \in online \ disturbed :
      (\A p \in Procs : ~Holds(p, u)) =>
        entry[u].miles - row[u] \in 0 .. entry[u].extra

\* The monthly board: the increments made and the ones on their way add up to
\* what the sessions were worth, so that a mile a checkpoint banked is not
\* banked again by the logout, and no mile is skipped.
OnItsWay(u) ==
  MapThenSumSet(LAMBDA p : amt[p],
                {p \in Procs : /\ who[p] = u /\ op[p] \in {"bank", "logout"}
                               /\ pc[p] \in {"credit", "persist", "score"}})

BoardCountsEachMileOnce ==
  ~faulted =>
    \A u \in Users \ disturbed : score[u] + OnItsWay(u) = boardDue[u]

\* No clawback, at whatever moment it lands, drives a balance below zero.
BalancesNeverNegative ==
  \A u \in Users : row[u] >= 0 /\ score[u] >= 0 /\ entry[u].miles >= 0

\* Login and logout events pair up: a session that was opened and not closed
\* is the one the viewer has now, or an operation on the viewer is under way.
OpenSessionsAreLive ==
  ~faulted =>
    \A u \in Users \ disturbed : \A s \in Sids :
      <<u, s>> \in logins /\ logouts[s] = 0 =>
        \/ u \in online /\ entry[u].sid = s
        \/ \E p \in Procs : who[p] = u /\ op[p] # "none"

-----------------------------------------------------------------------------
(* What the comments promise, without exempting the disturbed viewers *)

\* session.go, logout: "safe against what runs beside it". A viewer who is
\* gone, and whom nobody is writing, has every mile in the row.
GoneMeansBanked ==
  \A u \in Users \ online :
    (\A p \in Procs : ~Holds(p, u)) => row[u] = earned[u]

\* A session's books balance: the row lacks its gifts at most, the board has
\* each mile once, no balance is negative, and logins and logouts pair up
\* (Sessions.login, CheckpointMiles, logout, CorrectMiles).
BooksBalance ==
  /\ UnsavedIsOnlyGifts /\ BoardCountsEachMileOnce /\ BalancesNeverNegative
  /\ OpenSessionsAreLive /\ ClosedAtMostOnce
=============================================================================
