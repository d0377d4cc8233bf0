------------------------------ MODULE Rollups ------------------------------
(***************************************************************************)
(* The rollup tick (rollups.Reconcile): one transaction that freezes the   *)
(* month that just ended, takes the watermark's row lock, recomputes the   *)
(* totals of every viewer with events past the watermark, and moves the    *)
(* watermark to the largest event id it saw.  It runs at READ COMMITTED,   *)
(* so each of its statements sees what was committed when that statement   *)
(* ran; its own writes land together, at the commit, or not at all.        *)
(*                                                                         *)
(* Around it: the writers of the events table, which draw an id when they  *)
(* insert and show the row when they commit; the credits to the monthly    *)
(* board, which name the board before they write; two pods, old and new,   *)
(* whose ticks may overlap during a deploy; and the calendar.              *)
(*                                                                         *)
(* Abstracted: one platform; the top 50 is every viewer; the guess board,  *)
(* which is treated like the miles board; the daily snapshot; miles are    *)
(* counted in hours.                                                       *)
(***************************************************************************)
EXTENDS Integers, FiniteSets, FiniteSetsExt

CONSTANTS
  None, Viewers, Writers,
  Veteran,       \* a viewer with a session from before session ids, or None
  MaxTicks,      \* ticks that may run at once
  MonthLength,   \* MonthLength[m]: its days, m in 1 .. Months
  MaxSession,    \* hours; a session this long is a missed logout
  Scenarios      \* bound: what the outside does, at most, in one behaviour

Months == DOMAIN MonthLength
Ticks  == 1 .. MaxTicks

(* A row of the events table. *)
RowSet == [id : Nat \ {0}, viewer : Viewers, event : {"login", "logout", "correction"},
           session : Nat, at : Nat, extra : Int]

(* Months are numbered from 1, and the veteran's hour is no missed logout.  *)
ASSUME RollupConstants ==
  /\ 1 \in Months /\ MaxSession \in Nat \ {0, 1}
  /\ None \notin Viewers /\ Veteran \in Viewers \cup {None} /\ MaxTicks \in Nat \ {0}
  /\ \A m \in Months : m \in Nat \ {0} /\ MonthLength[m] \in Nat \ {0}
  /\ None \notin Ticks \cup RowSet

NoSession == 0   \* the zero UUID of legacy rows

VARIABLES
  events,    \* committed rows of the events table
  inserted,  \* inserted[w]: the row w has inserted and has yet to commit
  lastId,    \* the id sequence
  hour, date,
  scores,    \* scores[m][v]: the board of month m
  credit,    \* a credit on its way: its board and viewer
  frozen,    \* scoreboard_snapshots, per board
  watermark, rollup,
  rowLock,   \* the tick whose transaction holds the watermark's row
  tick,      \* tick[p]: a running tick's transaction
  budget,
  skipped,   \* history: viewers with a row the watermark passed unseen
  late,      \* history: months credited after they were frozen
  truth      \* history: what each viewer really did

database == <<events, scores, frozen, watermark, rollup>>
outside  == <<inserted, lastId, hour, date, credit>>
vars     == <<database, outside, rowLock, tick, budget, skipped, late, truth>>

NoTick == [pc |-> "idle", freeze |-> None, board |-> 0, max |-> 0,
           rows |-> None, seen |-> {}]
Zero   == [miles |-> 0, sessions |-> 0, extra |-> 0]

Spend(k) == budget[k] > 0 /\ budget' = [budget EXCEPT ![k] = @ - 1]

(***************************************************************************)
(* reconcileSQL.                                                           *)
(***************************************************************************)
Of(v, kind, rows) == {e \in rows : e.viewer = v /\ e.event = kind}

(* The rows that have a session_id: MIN collapses a double logout. *)
Keyed(v, rows) ==
  LET ins(s)  == {e.at : e \in {f \in Of(v, "login", rows) : f.session = s}}
      outs(s) == {e.at : e \in {f \in Of(v, "logout", rows) : f.session = s}}
      both    == {s \in {e.session : e \in rows} \ {NoSession} : ins(s) # {} /\ outs(s) # {}}
  IN {<<s, Min(ins(s)), Min(outs(s))>> : s \in both}

(* The rows from before: the n-th login with the n-th logout. *)
Legacy(v, rows) ==
  LET old(kind)  == {e \in Of(v, kind, rows) : e.session = NoSession}
      rn(e, all) == Cardinality({f \in all : f.at < e.at \/ (f.at = e.at /\ f.id <= e.id)})
      nth        == {p \in old("login") \X old("logout") :
                       rn(p[1], old("login")) = rn(p[2], old("logout"))}
  IN {<<-p[1].id, p[1].at, p[2].at>> : p \in nth}

Counted(pairs) == {p \in pairs : p[3] > p[2] /\ p[3] - p[2] < MaxSession}

Aggregate(v, rows) ==
  [miles    |-> MapThenSumSet(LAMBDA p : p[3] - p[2], Counted(Keyed(v, rows) \cup Legacy(v, rows))),
   sessions |-> Cardinality(Of(v, "login", rows)),
   extra    |-> MapThenSumSet(LAMBDA e : e.extra,
                              Of(v, "logout", rows) \cup Of(v, "correction", rows))]

(* Mutant: the newest row is left for next time. *)
DirtyBelow(from, to) == {e.viewer : e \in {f \in events : from < f.id /\ f.id < to}}

Dirty(from, to) == {e.viewer : e \in {f \in events : from < f.id /\ f.id <= to}}

(***************************************************************************)
(* The calendar.                                                           *)
(***************************************************************************)
(* Mutant: AddDate(0, -1, 0), which normalizes forward on the 31st. *)
NaiveMonthBack(d) ==
  IF d.month - 1 \in Months /\ d.day > MonthLength[d.month - 1] THEN d.month ELSE d.month - 1

(* The day before the first of the month, whatever today is. *)
PreviousMonth(d) == d.month - 1

CurrentBoard == date.month

(***************************************************************************)
(* The tick, statement by statement.                                       *)
(***************************************************************************)
At(p, pc)   == tick[p].pc = pc
Step(p, t)  == tick' = [tick EXCEPT ![p] = t]
Quietly     == UNCHANGED <<outside, late, truth>>

(* The job's singleton mode keeps the ticks of one pod apart.              *)
Alone(p) == \A q \in Ticks \ {p} : At(q, "idle")
FirstIdle(p) == At(p, "idle") /\ \A q \in 1 .. p - 1 : ~At(q, "idle")

(* Mutant: no NOT EXISTS guard. *)
FreezeAgain(p) ==
  /\ FirstIdle(p) /\ IF Alone(p) THEN UNCHANGED budget ELSE Spend("overlap")
  /\ LET board == PreviousMonth(date)
         due   == board \in Months /\ \E v \in Viewers : scores[board][v] > 0
     IN Step(p, [NoTick EXCEPT !.pc = "lock", !.board = IF due THEN board ELSE 0,
                               !.freeze = IF due THEN scores[board] ELSE None])
  /\ Quietly /\ UNCHANGED <<database, rowLock, skipped>>

(* snapshotSQL: nothing if the board has no scores or is frozen already. *)
Freeze(p) ==
  /\ FirstIdle(p) /\ IF Alone(p) THEN UNCHANGED budget ELSE Spend("overlap")
  /\ LET board == PreviousMonth(date)
         due   == board \in Months /\ frozen[board] = None /\ \E v \in Viewers : scores[board][v] > 0
     IN Step(p, [NoTick EXCEPT !.pc = "lock", !.board = IF due THEN board ELSE 0,
                               !.freeze = IF due THEN scores[board] ELSE None])
  /\ Quietly /\ UNCHANGED <<database, rowLock, skipped>>

(* Mutant: a plain SELECT. *)
ReadWatermark(p) ==
  /\ At(p, "lock") /\ Step(p, [tick[p] EXCEPT !.pc = "max"])
  /\ Quietly /\ UNCHANGED <<database, budget, skipped, rowLock>>

(* SELECT ... FOR UPDATE. *)
LockWatermark(p) ==
  /\ At(p, "lock") /\ rowLock = None
  /\ rowLock' = p /\ Step(p, [tick[p] EXCEPT !.pc = "max"])
  /\ Quietly /\ UNCHANGED <<database, budget, skipped>>

(* Mutant: the watermark names the next id to read. *)
ReadNext(p) ==
  /\ At(p, "max")
  /\ LET top == Max({e.id : e \in events} \cup {0}) + 1
     IN Step(p, [tick[p] EXCEPT !.max = top, !.pc = IF top <= watermark THEN "commit" ELSE "agg"])
  /\ Quietly /\ UNCHANGED <<database, rowLock, budget, skipped>>

(* Mutant: a tick with no new events has nothing to do. *)
SkipQuietTick(p) ==
  /\ At(p, "max")
  /\ LET top == Max({e.id : e \in events} \cup {0})
     IN Step(p, IF top <= watermark THEN [NoTick EXCEPT !.pc = "commit"]
                ELSE [tick[p] EXCEPT !.max = top, !.pc = "agg"])
  /\ Quietly /\ UNCHANGED <<database, rowLock, budget, skipped>>

ReadMax(p) ==
  /\ At(p, "max")
  /\ LET top == Max({e.id : e \in events} \cup {0})
     IN Step(p, [tick[p] EXCEPT !.max = top, !.pc = IF top <= watermark THEN "commit" ELSE "agg"])
  /\ Quietly /\ UNCHANGED <<database, rowLock, budget, skipped>>

(* The statement reads every committed row of the dirty viewers. *)
Recompute(p) ==
  /\ At(p, "agg")
  /\ Step(p, [tick[p] EXCEPT !.pc = "commit",
       !.rows = [v \in Dirty(watermark, tick[p].max) |-> Aggregate(v, events)],
       !.seen = events])
  /\ Quietly /\ UNCHANGED <<database, rowLock, budget, skipped>>

(* The commit; a board frozen meanwhile fails it on the unique index. *)
Commit(p) ==
  /\ At(p, "commit")
  /\ tick[p].board # 0 => frozen[tick[p].board] = None
  /\ frozen' = IF tick[p].board = 0 THEN frozen
               ELSE [frozen EXCEPT ![tick[p].board] = tick[p].freeze]
  /\ IF tick[p].rows = None THEN UNCHANGED <<watermark, rollup, skipped>>
     ELSE /\ watermark' = tick[p].max
          /\ rollup' = [v \in Viewers |-> IF v \in DOMAIN tick[p].rows THEN tick[p].rows[v] ELSE rollup[v]]
          /\ skipped' = (skipped \ DOMAIN tick[p].rows)
                          \cup {e.viewer : e \in {f \in events \ tick[p].seen : f.id <= tick[p].max}}
  /\ rowLock' = IF rowLock = p THEN None ELSE rowLock
  /\ Step(p, NoTick)
  /\ Quietly /\ UNCHANGED <<events, scores, budget>>

(* An error, a timeout or the end of the pod: everything is rolled back. *)
RollBack(p) ==
  /\ ~At(p, "idle")
  /\ \/ Spend("fault")
     \/ At(p, "commit") /\ tick[p].board # 0 /\ UNCHANGED budget
        /\ frozen[tick[p].board] # None
  /\ rowLock' = IF rowLock = p THEN None ELSE rowLock
  /\ Step(p, NoTick)
  /\ UNCHANGED <<database, outside, skipped, late, truth>>

Tick(p) == Freeze(p) \/ LockWatermark(p) \/ ReadMax(p) \/ Recompute(p) \/ Commit(p) \/ RollBack(p)

(***************************************************************************)
(* The writers of events (events.record) and of the monthly board.         *)
(***************************************************************************)
Insert(w, row) ==
  /\ inserted[w] = None /\ Spend("event")
  /\ lastId' = lastId + 1
  /\ inserted' = [inserted EXCEPT ![w] = [row EXCEPT !.id = lastId + 1, !.at = hour]]
  /\ UNCHANGED <<database, hour, date, credit, rowLock, tick, skipped, late>>

Row(v, kind, s, x) ==
  [id |-> 0, viewer |-> v, event |-> kind, session |-> s, at |-> 0, extra |-> x]

Rows == events \cup {inserted[w] : w \in {x \in Writers : inserted[x] # None}}

(* A login starts a session, here named after its row's id. *)
Login(w, v) ==
  /\ Insert(w, Row(v, "login", lastId + 1, 0))
  /\ truth' = [truth EXCEPT ![v].sessions = @ + 1]

(* The row a logout writes; a session may be logged out twice. *)
Logout(w, e, x) ==
  /\ e.event = "login" /\ e.session # NoSession
  /\ Insert(w, Row(e.viewer, "logout", e.session, x))
  /\ LET first == ~ \E f \in Rows : f.event = "logout" /\ f.session = e.session
         long  == hour - e.at >= MaxSession
         was   == truth[e.viewer]
     IN truth' = [truth EXCEPT ![e.viewer] =
          [miles    |-> IF first /\ ~long THEN was.miles + (hour - e.at) ELSE was.miles,
           sessions |-> was.sessions,
           extra    |-> was.extra + x]]

Correction(w, v, x) ==
  /\ Insert(w, Row(v, "correction", NoSession, x))
  /\ truth' = [truth EXCEPT ![v].extra = @ + x]

CommitRow(w) ==
  /\ inserted[w] # None
  /\ events' = events \cup {inserted[w]}
  /\ inserted' = [inserted EXCEPT ![w] = None]
  /\ skipped' = IF inserted[w].id <= watermark THEN skipped \cup {inserted[w].viewer} ELSE skipped
  /\ UNCHANGED <<scores, frozen, watermark, rollup, lastId, hour, date, credit>>
  /\ UNCHANGED <<rowLock, tick, budget, late, truth>>

(* AddToScore(CurrentMilesScoreboard(), ...): the name first ... *)
NameBoard(v) ==
  /\ credit = None /\ Spend("credit")
  /\ credit' = [board |-> CurrentBoard, viewer |-> v]
  /\ UNCHANGED <<database, inserted, lastId, hour, date, rowLock, tick, skipped, late, truth>>

(* ... and then the upsert, which adds to what is there. *)
AddToScoreByName ==
  /\ credit # None
  /\ scores' = [scores EXCEPT ![credit.board][credit.viewer] = @ + 1]
  /\ late' = IF credit.board # CurrentBoard THEN late \cup {credit.board} ELSE late
  /\ credit' = None
  /\ UNCHANGED <<events, frozen, watermark, rollup, inserted, lastId, hour, date>>
  /\ UNCHANGED <<rowLock, tick, budget, skipped, truth>>

(* Time passes. *)
HourPasses == /\ Spend("hour") /\ hour' = hour + 1
              /\ UNCHANGED <<database, inserted, lastId, date, credit>>
              /\ UNCHANGED <<rowLock, tick, skipped, late, truth>>

DayPasses ==
  /\ date.day < MonthLength[date.month] \/ date.month + 1 \in Months
  /\ Spend("day")
  /\ date' = IF date.day < MonthLength[date.month] THEN [date EXCEPT !.day = @ + 1]
             ELSE [month |-> date.month + 1, day |-> 1]
  /\ UNCHANGED <<database, inserted, lastId, hour, credit>>
  /\ UNCHANGED <<rowLock, tick, skipped, late, truth>>

(***************************************************************************)
(* The veteran has one login and one logout from before session ids, an    *)
(* hour apart.                                                             *)
(***************************************************************************)
LegacyRows == {[Row(Veteran, "login", NoSession, 0) EXCEPT !.id = 1],
               [Row(Veteran, "logout", NoSession, 0) EXCEPT !.id = 2, !.at = 1]}

Init ==
  /\ events = IF Veteran = None THEN {} ELSE LegacyRows
  /\ truth = [v \in Viewers |->
       IF v = Veteran THEN [Zero EXCEPT !.miles = 1, !.sessions = 1] ELSE Zero]
  /\ inserted = [w \in Writers |-> None]
  /\ lastId = 2 /\ hour = 1 /\ date = [month |-> 1, day |-> 1]
  /\ scores = [m \in Months |-> [v \in Viewers |-> 0]]
  /\ credit = None /\ frozen = [m \in Months |-> None]
  /\ watermark = 0 /\ rollup = [v \in Viewers |-> Zero]
  /\ rowLock = None /\ tick = [p \in Ticks |-> NoTick]
  /\ budget \in Scenarios /\ skipped = {} /\ late = {}

Write == \E w \in Writers :
  \/ \E v \in Viewers : Login(w, v) \/ Correction(w, v, -1)
  \/ \E e \in events : Logout(w, e, 1)
  \/ CommitRow(w)

Next == \/ \E p \in Ticks : Tick(p)
        \/ Write
        \/ \E v \in Viewers : NameBoard(v)
        \/ AddToScoreByName \/ HourPasses \/ DayPasses

Spec == Init /\ [][Next]_vars

(* The scheduler runs the job every five minutes, a transaction that began *)
(* goes on, and a writer's round trip ends.                                *)
FairSpec ==
  /\ Spec
  /\ \A p \in Ticks : /\ WF_vars(Freeze(p)) /\ SF_vars(LockWatermark(p))
                     /\ WF_vars(ReadMax(p) \/ Recompute(p) \/ Commit(p))
                     /\ WF_vars(At(p, "commit") /\ RollBack(p))
  /\ \A w \in Writers : WF_vars(CommitRow(w))

(***************************************************************************)
(* Properties.                                                             *)
(***************************************************************************)
TypeOK ==
  /\ lastId \in Nat /\ watermark \in 0 .. lastId
  /\ \A e \in Rows : e.id \in 1 .. lastId /\ e.viewer \in Viewers
  /\ \A e, f \in Rows : e.id = f.id => e = f
  /\ DOMAIN rollup = Viewers /\ skipped \subseteq Viewers
  /\ date.month \in Months /\ date.day \in 1 .. MonthLength[date.month]
  /\ rowLock = None \/ tick[rowLock].pc \in {"max", "agg", "commit"}

(* A viewer whose rows are all past the watermark has the totals of what   *)
(* they really did, crashes, double logouts and legacy rows included:      *)
(* unless a row of theirs drew its id before the watermark's and committed *)
(* after it, which only their next event repairs.                          *)
RollupIsCurrent ==
  \A v \in Viewers :
    v \notin skipped /\ (\A e \in Rows : e.viewer = v => e \in events /\ e.id <= watermark)
      => rollup[v] = truth[v]

(* A frozen month is the month's final board: it is never frozen before it *)
(* ends, and changes after it only by credits that named it before.        *)
FrozenIsFinal ==
  \A m \in Months : frozen[m] # None /\ m \notin late => frozen[m] = scores[m]

(* A frozen board is never rewritten, and the watermark never falls back,  *)
(* whatever two overlapping ticks do.                                      *)
WritesStand ==
  [][ /\ \A m \in Months : frozen[m] # None => frozen'[m] = frozen[m]
      /\ watermark' >= watermark ]_vars

(* The totals catch up with every viewer the watermark did not pass by.    *)
RollupCatchesUp ==
  <>[](\A v \in Viewers : v \in skipped \/ rollup[v] = truth[v])

(* A month that anybody scored in is frozen while the next one runs, even  *)
(* when no event arrives any more.                                         *)
QuietMonthIsFrozen ==
  <>[](\A m \in Months : m + 1 = date.month /\ (\E v \in Viewers : scores[m][v] > 0)
                          => frozen[m] # None)

(* What is behind catches up, the totals and the month's board.            *)
RollupsSettle == RollupCatchesUp /\ QuietMonthIsFrozen

\* The frozen board and the running totals are of the rows that were committed:
\* what a tick sums is current, and what it froze is the month's final word
\* (refreshRollups, freezeMonth).
RollupsAgree == RollupIsCurrent /\ FrozenIsFinal
=============================================================================
