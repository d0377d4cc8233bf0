---------------------------- MODULE ConsoleProofs ----------------------------
(***************************************************************************)
(* What the console writes and what onscreens-server shows holds for any   *)
(* viewers, ids, goroutines, clips, texts, timers and lines: theorems      *)
(* about Accounts, Moments and OnscreensServer.                            *)
(*                                                                         *)
(* In Accounts every goroutine works on a copy, so the invariants are      *)
(* about copies: what each one carries of the viewer's row, and since      *)
(* when.  They are stated viewer by viewer, and a step of a goroutine that *)
(* is busy with another viewer leaves them alone.                          *)
(***************************************************************************)
EXTENDS Accounts, Moments, OnscreensServer,
        FiniteSetTheorems, SequenceTheorems, TLAPS

Body == [bot : BOOLEAN \cup {Unset}, excluded : BOOLEAN \cup {Unset}, starred : BOOLEAN \cup {Unset}]
Entry ==
  [bot : BOOLEAN, excluded : BOOLEAN, id : Ids \cup {NoId}, contested : BOOLEAN,
   miles : Nat, since : Nat, banked : Nat]

\* What a goroutine may be doing, and with what in hand.
LoginJobs == [step : {"login", "publish"}, user : Users, id : Ids \cup {NoId}, copy : Entry]
StampJobs == [step : {"stamp", "mirror"}, user : Users, id : Ids, copy : Entry]
SaveJobs == [step : {"save"}, user : Users, copy : Entry]
SetsBot(body) == body \in Body /\ body.bot \in BOOLEAN
SetsExclude(body) == body \in Body /\ body.excluded \in BOOLEAN
FlagJobs ==
  {j \in [step : {"bot", "liveBot", "exclude", "liveExclude", "star"}, user : Users, body : Body] :
     (j.step = "liveBot" => SetsBot(j.body)) /\ (j.step = "liveExclude" => SetsExclude(j.body))}
BotJobs == {j \in [step : {"saveBot"}, user : Users, body : Body, copy : Row] : SetsBot(j.body)}
OverlayJobs == [step : {"overlay"}, todo : SUBSET Users, shown : [Users -> Nat]]
MeasureJobs ==
  [step : {"measure"}, todo : SUBSET Users, shown : [Users -> Nat], user : Users, miles : Nat]
Jobs ==
  {Idle} \cup LoginJobs \cup StampJobs \cup SaveJobs \cup FlagJobs \cup BotJobs
    \cup OverlayJobs \cup MeasureJobs

\* A session is as long as it lasts, and has banked no more than that.
Past(e) == e.since + e.banked <= now
AccountsTyped ==
  /\ rows \in [Users -> Row] /\ now \in Nat
  /\ entry \in [Users -> Entry \cup {NoEntry}]
  /\ board \in [Users -> Nat]
  /\ set \in [Users -> [bot : BOOLEAN, excluded : BOOLEAN]]
  /\ job \in [Workers -> Jobs]
  /\ crossed \subseteq Users /\ twice \subseteq Users
  /\ took \in [Users -> SUBSET Ids]
  /\ \A u \in Users : entry[u] # NoEntry => Past(entry[u])
  /\ \A w \in Workers : job[w].step \in {"login", "publish"} => Past(job[w].copy)

-----------------------------------------------------------------------------
(* What a job is, by its step *)

LEMMA JobKinds ==
  ASSUME NEW j \in Jobs
  PROVE  /\ j.step \in {"login", "publish"} => j \in LoginJobs
         /\ j.step \in {"stamp", "mirror"} => j \in StampJobs
         /\ j.step = "save" => j \in SaveJobs
         /\ j.step \in {"bot", "liveBot", "exclude", "liveExclude", "star"} => j \in FlagJobs
         /\ j.step = "saveBot" => j \in BotJobs
         /\ j.step = "overlay" => j \in OverlayJobs
         /\ j.step = "measure" => j \in MeasureJobs
         /\ j.step = "idle" => j = Idle
BY DEF Jobs, LoginJobs, StampJobs, SaveJobs, FlagJobs, BotJobs, OverlayJobs, MeasureJobs, Idle

\* A step of w leaves the others' jobs alone.
LEMMA OwnJob ==
  ASSUME job \in [Workers -> Jobs], NEW w \in Workers, NEW j, Become(w, j)
  PROVE  /\ job'[w] = j /\ \A v \in Workers \ {w} : job'[v] = job[v]
         /\ j \in Jobs => job' \in [Workers -> Jobs]
BY DEF Become

LEMMA SavedRow ==
  ASSUME rows \in [Users -> Row], NEW u \in Users, NEW c, c.bot \in BOOLEAN, c.miles \in Nat
  PROVE  /\ Saved(u, c) \in [Users -> Row]
         /\ Saved(u, c)[u].bot = c.bot /\ Saved(u, c)[u].miles = c.miles
         /\ Saved(u, c)[u].excluded = rows[u].excluded /\ Saved(u, c)[u].id = rows[u].id
         /\ \A v \in Users \ {u} : Saved(u, c)[v] = rows[v]
<1> DEFINE r == [rows[u] EXCEPT !.bot = c.bot, !.miles = c.miles]
<1>1. Saved(u, c) = [rows EXCEPT ![u] = r]
  BY DEF Saved
<1>2. rows[u] \in Row
  OBVIOUS
<1>3. /\ r \in Row /\ r.bot = c.bot /\ r.miles = c.miles /\ r.excluded = rows[u].excluded
      /\ r.id = rows[u].id
  BY <1>2 DEF Row
<1> HIDE DEF r
<1>4. QED
  BY <1>1, <1>3
-----------------------------------------------------------------------------
(* Types *)

LEMMA Measures ==
  ASSUME AccountsTyped, NEW u \in Users, entry[u] # NoEntry
  PROVE  /\ entry[u] \in Entry /\ Past(entry[u]) /\ InFlight(entry[u]) \in Nat
         /\ entry[u].since \in Nat /\ entry[u].banked \in Nat /\ entry[u].miles \in Nat /\ now \in Nat
         /\ entry[u].since + entry[u].banked + InFlight(entry[u]) = now
<1>1. entry[u] \in Entry /\ Past(entry[u]) /\ now \in Nat
  BY DEF AccountsTyped
<1>2. entry[u].since \in Nat /\ entry[u].banked \in Nat /\ entry[u].miles \in Nat
  BY <1>1 DEF Entry
<1>3. QED
  BY <1>1, <1>2 DEF Past, InFlight

\* What each step takes up, and that the rest of the state stays well typed.
LEMMA FindForLoginTyped ==
  ASSUME AccountsTyped, NEW w \in Workers, NEW u \in Users, NEW id \in Ids \cup {NoId}, FindForLogin(w, u, id)
  PROVE  /\ AccountsTyped' /\ job'[w] \in LoginJobs /\ job'[w].step = "login" /\ job'[w].user = u
         /\ job'[w].copy.bot = rows[u].bot /\ job'[w].copy.id = rows[u].id
         /\ job'[w].copy.miles = rows[u].miles /\ job'[w].copy.since = now /\ job'[w].copy.banked = 0
<1> DEFINE c == [bot |-> rows[u].bot, excluded |-> rows[u].excluded, id |-> rows[u].id, contested |-> FALSE,
                 miles |-> rows[u].miles, since |-> now, banked |-> 0]
           j == [step |-> "login", user |-> u, id |-> id, copy |-> c]
<1>1. /\ rows \in [Users -> Row] /\ rows[u] \in Row /\ now \in Nat /\ job \in [Workers -> Jobs]
  BY DEF AccountsTyped
<1>2. c \in Entry /\ c.since = now /\ c.banked = 0
  BY <1>1 DEF Entry, Row
<1>3. j \in LoginJobs /\ j \in Jobs
  BY <1>2 DEF LoginJobs, Jobs
<1>4. Become(w, j) /\ UNCHANGED <<rows, entry, board, set, took, now>>
  BY DEF FindForLogin
<1>5. crossed' \subseteq Users /\ twice' \subseteq Users
  BY DEF FindForLogin, Crossing, AccountsTyped
<1>6. j.copy = c /\ j.step = "login" /\ j.user = u
  OBVIOUS
<1>7. job'[w] = j /\ (\A v \in Workers \ {w} : job'[v] = job[v]) /\ job' \in [Workers -> Jobs]
  <2> HIDE DEF j
  <2>1. QED
    BY <1>1, <1>3, <1>4, OwnJob
<1>8. \A v \in Workers : job'[v].step \in {"login", "publish"} => Past(job[v].copy)'
  BY <1>1, <1>2, <1>4, <1>6, <1>7 DEF AccountsTyped, Past
<1>9. \A v \in Users : entry'[v] # NoEntry => Past(entry[v])'
  BY <1>4 DEF AccountsTyped, Past
<1>10. AccountsTyped'
  BY <1>1, <1>4, <1>5, <1>7, <1>8, <1>9 DEF AccountsTyped
<1>11. QED
  BY <1>3, <1>6, <1>7, <1>10

\* Steps that touch no entry: the copies in hand stay as past as they were.
LEMMA RowsStepTyped ==
  ASSUME AccountsTyped, NEW w \in Workers, NEW j \in Jobs, Become(w, j),
         rows' \in [Users -> Row], UNCHANGED <<entry, now>>,
         board' \in [Users -> Nat], set' \in [Users -> [bot : BOOLEAN, excluded : BOOLEAN]],
         crossed' \subseteq Users, twice' \subseteq Users, took' \in [Users -> SUBSET Ids],
         j.step \in {"login", "publish"} => Past(j.copy)
  PROVE  AccountsTyped'
<1>1. job'[w] = j /\ (\A v \in Workers \ {w} : job'[v] = job[v]) /\ job' \in [Workers -> Jobs]
  BY OwnJob DEF AccountsTyped
<1>2. \A v \in Workers : job'[v].step \in {"login", "publish"} => Past(job[v].copy)'
  BY <1>1 DEF AccountsTyped, Past
<1>3. \A v \in Users : entry'[v] # NoEntry => Past(entry[v])'
  BY DEF AccountsTyped, Past
<1>4. QED
  BY <1>1, <1>2, <1>3 DEF AccountsTyped

\* Steps that put an entry in place, or take it away.
LEMMA EntryStepTyped ==
  ASSUME AccountsTyped, NEW w \in Workers, NEW j \in Jobs, Become(w, j),
         NEW u \in Users, NEW e, entry' = [entry EXCEPT ![u] = e], e = NoEntry \/ (e \in Entry /\ Past(e)),
         UNCHANGED <<rows, board, set, took, now>>, crossed' \subseteq Users, twice' \subseteq Users,
         j.step \notin {"login", "publish"}
  PROVE  AccountsTyped'
<1>1. job'[w] = j /\ (\A v \in Workers \ {w} : job'[v] = job[v]) /\ job' \in [Workers -> Jobs]
  BY OwnJob DEF AccountsTyped
<1>2. \A v \in Workers : job'[v].step \in {"login", "publish"} => Past(job[v].copy)'
  BY <1>1 DEF AccountsTyped, Past
<1>3. /\ entry' \in [Users -> Entry \cup {NoEntry}]
      /\ \A v \in Users : entry'[v] = IF v = u THEN e ELSE entry[v]
  BY DEF AccountsTyped
<1>4. \A v \in Users : entry'[v] # NoEntry => Past(entry[v])'
  BY <1>3 DEF AccountsTyped, Past
<1>5. QED
  BY <1>1, <1>2, <1>3, <1>4 DEF AccountsTyped
LEMMA SaveLoginTyped ==
  ASSUME AccountsTyped, NEW w \in Workers, SaveLogin(w)
  PROVE  LET u == job[w].user c == job[w].copy IN
         /\ AccountsTyped' /\ job[w].step = "login" /\ u \in Users /\ c \in Entry
         /\ job'[w].step = "publish" /\ job'[w].user = u /\ job'[w].copy = c
         /\ rows' = Saved(u, c) \/ rows' = rows
<1> DEFINE u == job[w].user
           c == job[w].copy
           j == [job[w] EXCEPT !.step = "publish"]
<1>1. /\ rows \in [Users -> Row] /\ job \in [Workers -> Jobs] /\ job[w].step = "login" /\ job[w] \in Jobs
      /\ board \in [Users -> Nat] /\ set \in [Users -> [bot : BOOLEAN, excluded : BOOLEAN]]
      /\ took \in [Users -> SUBSET Ids]
  BY DEF AccountsTyped, SaveLogin, Busy
<1>2. job[w] \in LoginJobs
  BY <1>1, JobKinds
<1>3. u \in Users /\ c \in Entry /\ c.bot \in BOOLEAN /\ c.miles \in Nat /\ Past(c)
  BY <1>1, <1>2 DEF LoginJobs, Entry, AccountsTyped
<1>4. j \in LoginJobs /\ j.step = "publish" /\ j.user = u /\ j.copy = c
  BY <1>2 DEF LoginJobs
<1>5. /\ Become(w, j) /\ UNCHANGED <<entry, board, set, twice, took, now>>
      /\ rows' = Saved(u, c) \/ rows' = rows
  BY DEF SaveLogin, Save
<1>6. crossed' \subseteq Users
  BY <1>3 DEF SaveLogin, Crossing, AccountsTyped
<1> HIDE DEF j, u, c
<1>7. rows' \in [Users -> Row]
  BY <1>1, <1>3, <1>5, SavedRow
<1>8. j \in Jobs
  BY <1>4 DEF Jobs
<1>9. AccountsTyped'
  BY <1>1, <1>3, <1>4, <1>5, <1>6, <1>7, <1>8, RowsStepTyped DEF AccountsTyped
<1>10. job'[w] = j
  BY <1>1, <1>5, OwnJob
<1>11. QED
  BY <1>1, <1>3, <1>4, <1>5, <1>9, <1>10 DEF u, c

LEMMA PublishLoginTyped ==
  ASSUME AccountsTyped, NEW w \in Workers, PublishLogin(w)
  PROVE  LET u == job[w].user c == job[w].copy IN
         /\ AccountsTyped' /\ job[w].step = "publish" /\ u \in Users /\ c \in Entry
         /\ entry' = [entry EXCEPT ![u] = c]
         /\ job'[w].step \in {"stamp", "idle"}
         /\ job'[w].step = "stamp" => job'[w].copy = c /\ job'[w].user = u
<1> DEFINE u == job[w].user
           c == job[w].copy
           j == IF job[w].id = NoId THEN Idle ELSE [job[w] EXCEPT !.step = "stamp"]
<1>1. job \in [Workers -> Jobs] /\ job[w].step = "publish" /\ job[w] \in Jobs
  BY DEF AccountsTyped, PublishLogin, Busy
<1>2. job[w] \in LoginJobs
  BY <1>1, JobKinds
<1>3. u \in Users /\ c \in Entry /\ Past(c)
  BY <1>1, <1>2 DEF LoginJobs, AccountsTyped
<1>4. j \in StampJobs \cup {Idle} /\ j.step \in {"stamp", "idle"} /\ (j.step = "stamp" => j.copy = c /\ j.user = u)
  BY <1>2 DEF LoginJobs, StampJobs, Idle
<1>5. /\ Become(w, j) /\ entry' = [entry EXCEPT ![u] = c] /\ UNCHANGED <<rows, board, set, twice, took, now>>
  BY DEF PublishLogin, Rest
<1>6. crossed' \subseteq Users /\ twice' \subseteq Users
  BY <1>3, <1>5 DEF PublishLogin, Crossing, AccountsTyped
<1> HIDE DEF j, u, c
<1>7. j \in Jobs
  BY <1>4 DEF Jobs
<1>8. AccountsTyped'
  BY <1>3, <1>4, <1>5, <1>6, <1>7, EntryStepTyped
<1>9. job'[w] = j
  BY <1>1, <1>5, OwnJob
<1>10. QED
  BY <1>1, <1>3, <1>4, <1>5, <1>8, <1>9 DEF u, c

\* Logout and Checkpoint: what the viewer's row will be told.
LEMMA LogoutTyped ==
  ASSUME AccountsTyped, NEW w \in Workers, NEW u \in Users, Logout(w, u)
  PROVE  /\ AccountsTyped' /\ job[w].step = "idle" /\ entry[u] # NoEntry
         /\ entry' = [entry EXCEPT ![u] = NoEntry]
         /\ job'[w].step = "save" /\ job'[w].user = u /\ job'[w].copy \in Entry
         /\ job'[w].copy.bot = entry[u].bot
         /\ job'[w].copy.miles = entry[u].miles + InFlight(entry[u])
<1> DEFINE c == [entry[u] EXCEPT !.miles = @ + InFlight(entry[u])]
           j == [step |-> "save", user |-> u, copy |-> c]
<1>1. job \in [Workers -> Jobs] /\ job[w].step = "idle" /\ entry[u] # NoEntry
  BY DEF AccountsTyped, Logout, Busy
<1>2. entry[u] \in Entry /\ entry[u].miles + InFlight(entry[u]) \in Nat
  BY <1>1, Measures
<1>3. c \in Entry /\ c.bot = entry[u].bot /\ c.miles = entry[u].miles + InFlight(entry[u])
  BY <1>2 DEF Entry
<1>4. Become(w, j) /\ entry' = [entry EXCEPT ![u] = NoEntry] /\ UNCHANGED <<rows, board, set, twice, took, now>>
  BY DEF Logout
<1>5. crossed' \subseteq Users /\ twice' \subseteq Users
  BY <1>4 DEF Logout, Crossing, AccountsTyped
<1> HIDE DEF c
<1>6. j \in SaveJobs /\ j.step = "save" /\ j.user = u /\ j.copy = c
  BY <1>3 DEF SaveJobs
<1> HIDE DEF j
<1>7. j \in Jobs
  BY <1>6 DEF Jobs
<1>8. AccountsTyped'
  BY <1>4, <1>5, <1>6, <1>7, EntryStepTyped
<1>9. job'[w] = j
  BY <1>1, <1>4, OwnJob
<1>10. QED
  BY <1>1, <1>3, <1>4, <1>6, <1>8, <1>9

LEMMA CheckpointTyped ==
  ASSUME AccountsTyped, NEW w \in Workers, NEW u \in Users, Checkpoint(w, u)
  PROVE  /\ AccountsTyped' /\ job[w].step = "idle" /\ entry[u] # NoEntry
         /\ entry'[u] \in Entry /\ entry' = [entry EXCEPT ![u] = entry'[u]]
         /\ entry'[u].bot = entry[u].bot /\ entry'[u].id = entry[u].id /\ entry'[u].since = entry[u].since
         /\ entry'[u].miles = entry[u].miles + InFlight(entry[u])
         /\ entry'[u].banked = entry[u].banked + InFlight(entry[u])
         /\ job'[w].step = "save" /\ job'[w].user = u /\ job'[w].copy = entry'[u]
<1> DEFINE k == InFlight(entry[u])
           c == [entry[u] EXCEPT !.miles = @ + k, !.banked = @ + k]
           j == [step |-> "save", user |-> u, copy |-> entry'[u]]
<1>1. job \in [Workers -> Jobs] /\ job[w].step = "idle" /\ entry[u] # NoEntry
      /\ entry \in [Users -> Entry \cup {NoEntry}]
  BY DEF AccountsTyped, Checkpoint, Busy
<1>2. /\ entry[u] \in Entry /\ k \in Nat /\ entry[u].miles + k \in Nat /\ entry[u].banked + k \in Nat
      /\ entry[u].since + (entry[u].banked + k) = now /\ now \in Nat
  BY <1>1, Measures
<1>3. Become(w, j) /\ entry' = [entry EXCEPT ![u] = c] /\ UNCHANGED <<rows, board, set, twice, took, now>>
  BY <1>1 DEF Checkpoint
<1> HIDE DEF k
<1>4. /\ c \in Entry /\ c.bot = entry[u].bot /\ c.id = entry[u].id /\ c.since = entry[u].since
      /\ c.miles = entry[u].miles + k /\ c.banked = entry[u].banked + k
  BY <1>2 DEF Entry
<1>5. crossed' \subseteq Users /\ twice' \subseteq Users
  BY <1>3 DEF Checkpoint, Crossing, AccountsTyped
<1> HIDE DEF c
<1>6. entry'[u] = c
  BY <1>1, <1>3
<1>7. j \in SaveJobs /\ j.step = "save" /\ j.user = u /\ j.copy = c
  BY <1>4, <1>6 DEF SaveJobs
<1> HIDE DEF j
<1>8. j \in Jobs /\ Past(c)
  BY <1>2, <1>4, <1>7 DEF Jobs, Past
<1>9. AccountsTyped'
  BY <1>3, <1>4, <1>5, <1>7, <1>8, EntryStepTyped
<1>10. job'[w] = j
  BY <1>1, <1>3, OwnJob
<1>11. QED
  BY <1>1, <1>3, <1>4, <1>6, <1>7, <1>9, <1>10 DEF k

LEMMA IdleJob == Idle \in Jobs /\ Idle.step = "idle"
BY DEF Jobs, Idle

LEMMA WriteBackTyped ==
  ASSUME AccountsTyped, NEW w \in Workers, WriteBack(w)
  PROVE  LET u == job[w].user c == job[w].copy IN
         /\ AccountsTyped' /\ job[w].step = "save" /\ u \in Users /\ c \in Entry
         /\ job'[w] = Idle
         /\ rows' = Saved(u, c) \/ rows' = rows
<1> DEFINE u == job[w].user
           c == job[w].copy
<1>1. /\ rows \in [Users -> Row] /\ job \in [Workers -> Jobs] /\ job[w].step = "save" /\ job[w] \in Jobs
      /\ board \in [Users -> Nat] /\ set \in [Users -> [bot : BOOLEAN, excluded : BOOLEAN]]
      /\ took \in [Users -> SUBSET Ids]
  BY DEF AccountsTyped, WriteBack, Busy
<1>2. job[w] \in SaveJobs
  BY <1>1, JobKinds
<1>3. u \in Users /\ c \in Entry /\ c.bot \in BOOLEAN /\ c.miles \in Nat
  BY <1>2 DEF SaveJobs, Entry
<1>4. /\ Become(w, Idle) /\ UNCHANGED <<entry, board, set, twice, took, now>>
      /\ rows' = Saved(u, c) \/ rows' = rows
  BY DEF WriteBack, Save, Rest
<1>5. crossed' \subseteq Users
  BY <1>3 DEF WriteBack, Crossing, AccountsTyped
<1> HIDE DEF u, c
<1>6. rows' \in [Users -> Row]
  BY <1>1, <1>3, <1>4, SavedRow
<1>7. AccountsTyped'
  BY <1>1, <1>4, <1>5, <1>6, IdleJob, RowsStepTyped DEF AccountsTyped
<1>8. job'[w] = Idle
  BY <1>1, <1>4, OwnJob
<1>9. QED
  BY <1>1, <1>3, <1>4, <1>7, <1>8 DEF u, c
\* Steps that have nothing to do with a viewer's miles or is_bot.
Elsewhere == {"idle", "stamp", "mirror", "bot", "exclude", "liveExclude", "star"}
SameEntry(u) ==
  entry'[u] # NoEntry =>
    /\ entry[u] # NoEntry /\ entry'[u].bot = entry[u].bot /\ entry'[u].miles = entry[u].miles
    /\ entry'[u].since = entry[u].since /\ entry'[u].banked = entry[u].banked
SameRow(u) ==
  /\ rows'[u].bot = rows[u].bot /\ rows'[u].miles = rows[u].miles /\ set'[u].bot = set[u].bot
  /\ rows[u].excluded = set[u].excluded => rows'[u].excluded = set'[u].excluded
Quietly(w) ==
  /\ job[w].step \in Elsewhere /\ job'[w].step \in Elsewhere
  /\ \A v \in Workers \ {w} : job'[v] = job[v]
  /\ UNCHANGED <<board, crossed, twice, now>>
  /\ \A u \in Users : SameRow(u) /\ SameEntry(u)

LEMMA SpeaksTyped ==
  ASSUME AccountsTyped, NEW w \in Workers, NEW u \in Users, NEW id \in Ids, Speaks(w, u, id)
  PROVE  AccountsTyped' /\ Quietly(w)
<1> DEFINE j == [step |-> "stamp", user |-> u, id |-> id, copy |-> entry[u]]
<1>1. job \in [Workers -> Jobs] /\ job[w].step = "idle" /\ entry[u] \in Entry
  BY DEF AccountsTyped, Speaks, Busy
<1>2. j \in StampJobs /\ j.step = "stamp"
  BY <1>1 DEF StampJobs
<1>3. Become(w, j) /\ UNCHANGED <<rows, entry, board, set, crossed, twice, took, now>>
  BY DEF Speaks
<1> HIDE DEF j
<1>4. j \in Jobs
  BY <1>2 DEF Jobs
<1>5. AccountsTyped'
  BY <1>2, <1>3, <1>4, RowsStepTyped DEF AccountsTyped
<1>6. QED
  BY <1>1, <1>2, <1>3, <1>5, OwnJob DEF Quietly, Elsewhere, SameRow, SameEntry

\* What becomes of an id that was presented.
LEMMA StampIdTyped ==
  ASSUME AccountsTyped, NEW w \in Workers, StampId(w)
  PROVE  LET u == job[w].user id == job[w].id c == job[w].copy d == job'[w].copy IN
         /\ AccountsTyped' /\ Quietly(w) /\ u \in Users /\ id \in Ids /\ c \in Entry /\ d \in Entry
         /\ job[w].step = "stamp" /\ job'[w].step = "mirror" /\ job'[w].user = u /\ entry' = entry
         /\ \A v \in Users \ {u} : took'[v] = took[v] /\ rows'[v].id = rows[v].id
         /\ \/ d.id = c.id /\ took' = took /\ rows' = rows
            \/ d.id = id /\ took'[u] = took[u] \cup {id} /\ rows'[u].id = id
<1> DEFINE u == job[w].user
           id == job[w].id
           c == job[w].copy
<1>1. /\ rows \in [Users -> Row] /\ job \in [Workers -> Jobs] /\ job[w].step = "stamp" /\ job[w] \in Jobs
      /\ board \in [Users -> Nat] /\ set \in [Users -> [bot : BOOLEAN, excluded : BOOLEAN]]
      /\ took \in [Users -> SUBSET Ids] /\ crossed \subseteq Users /\ twice \subseteq Users
  BY DEF AccountsTyped, StampId, Busy
<1>2. job[w] \in StampJobs
  BY <1>1, JobKinds
<1>3. u \in Users /\ id \in Ids /\ c \in Entry
  BY <1>2 DEF StampJobs
<1>4. UNCHANGED <<entry, board, set, crossed, twice, now>>
  BY DEF StampId
<1>5. PICK d : /\ Become(w, [job[w] EXCEPT !.step = "mirror", !.copy = d])
               /\ \/ d = c /\ UNCHANGED <<rows, took>>
                  \/ /\ d = [c EXCEPT !.id = id] /\ c.id # id
                     /\ rows' = [rows EXCEPT ![u].id = id] /\ took' = [took EXCEPT ![u] = @ \cup {id}]
                  \/ d = [c EXCEPT !.contested = TRUE] /\ UNCHANGED <<rows, took>>
  BY DEF StampId, Refused
<1>6. d \in Entry /\ (d.id = c.id \/ d.id = id)
  BY <1>3, <1>5 DEF Entry
<1> DEFINE j == [job[w] EXCEPT !.step = "mirror", !.copy = d]
<1>7. j \in StampJobs /\ j.step = "mirror" /\ j.user = u /\ j.copy = d
  BY <1>2, <1>6 DEF StampJobs
<1>8. j \in Jobs
  BY <1>7 DEF Jobs
<1>9. Become(w, j)
  BY <1>5
<1> HIDE DEF j, u, id, c
<1>10. job'[w] = j /\ \A v \in Workers \ {w} : job'[v] = job[v]
  BY <1>1, <1>9, OwnJob
<1>11. CASE rows' = rows /\ took' = took /\ d.id = c.id
  <2>1. AccountsTyped'
    BY <1>1, <1>4, <1>7, <1>8, <1>9, <1>11, RowsStepTyped
  <2>2. Quietly(w)
    BY <1>1, <1>4, <1>7, <1>10, <1>11 DEF Quietly, Elsewhere, SameRow, SameEntry
  <2>3. QED
    BY <1>1, <1>3, <1>4, <1>6, <1>7, <1>10, <1>11, <2>1, <2>2 DEF u, id, c
<1>12. CASE /\ d = [c EXCEPT !.id = id] /\ c.id # id
            /\ rows' = [rows EXCEPT ![u].id = id] /\ took' = [took EXCEPT ![u] = @ \cup {id}]
  <2>1. d.id = id
    BY <1>3, <1>12 DEF Entry
  <2> DEFINE r == [rows[u] EXCEPT !.id = id]
  <2>2. /\ r \in Row /\ r.bot = rows[u].bot /\ r.miles = rows[u].miles /\ r.excluded = rows[u].excluded
        /\ r.id = id
    BY <1>1, <1>3 DEF Row
  <2>3. rows' = [rows EXCEPT ![u] = r]
    BY <1>12
  <2> HIDE DEF r
  <2>4. /\ rows' \in [Users -> Row] /\ rows'[u] = r /\ \A v \in Users \ {u} : rows'[v] = rows[v]
    BY <1>1, <1>3, <2>2, <2>3
  <2>5. /\ took'[u] = took[u] \cup {id} /\ \A v \in Users \ {u} : took'[v] = took[v]
    BY <1>1, <1>3, <1>12
  <2>6. took' \in [Users -> SUBSET Ids]
    BY <1>1, <1>3, <1>12
  <2>7. AccountsTyped'
    BY <1>1, <1>4, <1>7, <1>8, <1>9, <2>4, <2>6, RowsStepTyped
  <2>8. Quietly(w)
    BY <1>1, <1>4, <1>7, <1>10, <2>2, <2>4 DEF Quietly, Elsewhere, SameRow, SameEntry
  <2>9. QED
    BY <1>1, <1>3, <1>4, <1>6, <1>7, <1>10, <2>1, <2>2, <2>4, <2>5, <2>7, <2>8 DEF u, id, c
<1>13. QED
  <2>1. d = [c EXCEPT !.contested = TRUE] => d.id = c.id
    BY <1>3 DEF Entry
  <2>2. \/ d = c /\ UNCHANGED <<rows, took>>
        \/ /\ d = [c EXCEPT !.id = id] /\ c.id # id
           /\ rows' = [rows EXCEPT ![u].id = id] /\ took' = [took EXCEPT ![u] = @ \cup {id}]
        \/ d = [c EXCEPT !.contested = TRUE] /\ UNCHANGED <<rows, took>>
    BY <1>5 DEF u, id, c
  <2>3. QED
    BY <1>11, <1>12, <2>1, <2>2
LEMMA MirrorIdTyped ==
  ASSUME AccountsTyped, NEW w \in Workers, MirrorId(w)
  PROVE  LET u == job[w].user IN
         /\ AccountsTyped' /\ Quietly(w) /\ job[w].step = "mirror" /\ u \in Users /\ UNCHANGED <<rows, took>>
         /\ \A v \in Users \ {u} : entry'[v] = entry[v]
         /\ entry'[u] # NoEntry => entry'[u].id = job[w].copy.id
         /\ job'[w] = Idle
<1> DEFINE u == job[w].user
           c == job[w].copy
<1>1. /\ job \in [Workers -> Jobs] /\ job[w].step = "mirror" /\ job[w] \in Jobs
      /\ entry \in [Users -> Entry \cup {NoEntry}]
  BY DEF AccountsTyped, MirrorId, Busy
<1>2. u \in Users /\ c.id \in Ids \cup {NoId} /\ c.contested \in BOOLEAN
  BY <1>1, JobKinds DEF StampJobs, Entry
<1>3. /\ Become(w, Idle) /\ UNCHANGED <<rows, board, set, crossed, twice, took, now>>
      /\ entry' = IF entry[u] = NoEntry THEN entry
                  ELSE [entry EXCEPT ![u].id = c.id, ![u].contested = c.contested]
  BY DEF MirrorId, Rest
<1> DEFINE e == IF entry[u] = NoEntry THEN NoEntry ELSE [entry[u] EXCEPT !.id = c.id, !.contested = c.contested]
<1>4. entry' = [entry EXCEPT ![u] = e]
  BY <1>1, <1>2, <1>3
<1>5. entry[u] # NoEntry =>
        /\ e \in Entry /\ e.bot = entry[u].bot /\ e.miles = entry[u].miles
        /\ e.since = entry[u].since /\ e.banked = entry[u].banked /\ e.id = c.id
  BY <1>1, <1>2 DEF Entry
<1>6. entry[u] = NoEntry => e = NoEntry
  OBVIOUS
<1> HIDE DEF e, u
<1>7. entry[u] # NoEntry => Past(e)
  BY <1>2, <1>5 DEF AccountsTyped, Past
<1>8. crossed' \subseteq Users /\ twice' \subseteq Users
  BY <1>3 DEF AccountsTyped
<1>9. e = NoEntry \/ (e \in Entry /\ Past(e))
  BY <1>5, <1>6, <1>7
<1>10. AccountsTyped'
  BY <1>2, <1>3, <1>4, <1>8, <1>9, IdleJob, EntryStepTyped
<1>11. entry'[u] = e /\ \A v \in Users \ {u} : entry'[v] = entry[v]
  BY <1>1, <1>2, <1>4
<1>12. \A v \in Users : SameEntry(v)
  BY <1>5, <1>6, <1>11 DEF SameEntry
<1>13. job'[w] = Idle /\ \A v \in Workers \ {w} : job'[v] = job[v]
  BY <1>1, <1>3, OwnJob
<1>14. Quietly(w)
  BY <1>1, <1>3, <1>12, <1>13, IdleJob DEF Quietly, Elsewhere, SameRow
<1>15. QED
  BY <1>1, <1>2, <1>3, <1>5, <1>6, <1>10, <1>11, <1>13, <1>14 DEF u

\* Any job goes on to another without touching a row or an entry.
LEMMA JobStepTyped ==
  ASSUME AccountsTyped, NEW w \in Workers, NEW j \in Jobs, Become(w, j), job[w].step \in Elsewhere,
         j.step \in Elsewhere, UNCHANGED <<rows, entry, board, set, crossed, twice, took, now>>
  PROVE  AccountsTyped' /\ Quietly(w)
<1>1. AccountsTyped'
  BY RowsStepTyped DEF AccountsTyped, Elsewhere
<1>2. QED
  BY <1>1, OwnJob DEF AccountsTyped, Quietly, SameRow, SameEntry

LEMMA FlagJob ==
  ASSUME AccountsTyped, NEW w \in Workers, job[w].step \in {"bot", "liveBot", "exclude", "liveExclude", "star"}
  PROVE  /\ job[w] \in FlagJobs /\ job[w].user \in Users /\ job[w].body \in Body
         /\ \A s \in {"bot", "liveBot", "exclude", "liveExclude", "star"} :
              /\ s = "liveBot" => SetsBot(job[w].body)
              /\ s = "liveExclude" => SetsExclude(job[w].body)
              => /\ [job[w] EXCEPT !.step = s] \in Jobs /\ [job[w] EXCEPT !.step = s].step = s
                 /\ [job[w] EXCEPT !.step = s].user = job[w].user
<1>1. job[w] \in FlagJobs
  BY JobKinds DEF AccountsTyped
<1> DEFINE F == [step : {"bot", "liveBot", "exclude", "liveExclude", "star"}, user : Users, body : Body]
<1>2. job[w] \in F /\ job[w].user \in Users /\ job[w].body \in Body
  BY <1>1 DEF FlagJobs
<1>3. ASSUME NEW s \in {"bot", "liveBot", "exclude", "liveExclude", "star"},
             s = "liveBot" => SetsBot(job[w].body), s = "liveExclude" => SetsExclude(job[w].body)
      PROVE  /\ [job[w] EXCEPT !.step = s] \in Jobs /\ [job[w] EXCEPT !.step = s].step = s
             /\ [job[w] EXCEPT !.step = s].user = job[w].user
  <2> DEFINE j == [job[w] EXCEPT !.step = s]
  <2>1. j \in F /\ j.step = s /\ j.body = job[w].body /\ j.user = job[w].user
    BY <1>2
  <2> HIDE DEF j
  <2>2. j \in FlagJobs
    BY <1>3, <2>1 DEF FlagJobs
  <2>3. QED
    BY <2>1, <2>2 DEF Jobs, j
<1>4. QED
  BY <1>1, <1>2, <1>3

LEMMA FlagStepsTyped ==
  ASSUME AccountsTyped, NEW w \in Workers,
         \/ \E x \in Users, body \in Bodies : AskFlags(w, x, body)
         \/ GiveUp(w) \/ SetExclude(w) \/ LiveExclude(w) \/ SetStarred(w)
         \/ FindBot(w) /\ job[w].body.bot = Unset
  PROVE  /\ AccountsTyped' /\ Quietly(w) /\ UNCHANGED took
         /\ \A v \in Users : rows'[v].id = rows[v].id
         /\ \A v \in Users : entry'[v] # NoEntry => entry[v] # NoEntry /\ entry'[v].id = entry[v].id
<1>1. /\ rows \in [Users -> Row] /\ job \in [Workers -> Jobs] /\ job[w] \in Jobs
      /\ board \in [Users -> Nat] /\ set \in [Users -> [bot : BOOLEAN, excluded : BOOLEAN]]
      /\ took \in [Users -> SUBSET Ids] /\ crossed \subseteq Users /\ twice \subseteq Users
      /\ entry \in [Users -> Entry \cup {NoEntry}]
  BY DEF AccountsTyped
<1>2. ASSUME NEW u \in Users, NEW body \in Bodies, AskFlags(w, u, body)
      PROVE  AccountsTyped' /\ Quietly(w) /\ UNCHANGED <<rows, entry, took>>
  <2> DEFINE j == [step |-> "bot", user |-> u, body |-> body]
  <2>1. body \in Body
    BY AccountsConstants DEF Body
  <2>2. j \in FlagJobs /\ j.step = "bot" /\ Become(w, j) /\ job[w].step = "idle"
    BY <1>2, <2>1 DEF FlagJobs, AskFlags, Busy
  <2>3. UNCHANGED <<rows, entry, board, set, crossed, twice, took, now>>
    BY <1>2 DEF AskFlags
  <2> HIDE DEF j
  <2>4. j \in Jobs
    BY <2>2 DEF Jobs
  <2>5. QED
    BY <1>1, <2>2, <2>3, <2>4, JobStepTyped DEF Elsewhere
<1>3. CASE GiveUp(w)
  <2>1. /\ Become(w, Idle) /\ job[w].step \in {"bot", "exclude", "star"}
        /\ UNCHANGED <<rows, entry, board, set, crossed, twice, took, now>>
    BY <1>3 DEF GiveUp, Busy, Rest
  <2>2. QED
    BY <2>1, IdleJob, JobStepTyped DEF Elsewhere
<1>4. CASE FindBot(w) /\ job[w].body.bot = Unset
  <2>1. /\ Become(w, [job[w] EXCEPT !.step = "exclude"]) /\ job[w].step = "bot"
        /\ UNCHANGED <<rows, entry, board, set, crossed, twice, took, now>>
    BY <1>4 DEF FindBot, Busy
  <2>2. QED
    BY <2>1, FlagJob, JobStepTyped DEF Elsewhere
<1>5. CASE SetExclude(w)
  <2> DEFINE u == job[w].user
             b == job[w].body.excluded
  <2>1. job[w].step = "exclude" /\ u \in Users /\ b \in BOOLEAN \cup {Unset}
    BY <1>5, FlagJob DEF SetExclude, Busy, Body
  <2>2. CASE b = Unset
    <3>1. /\ Become(w, [job[w] EXCEPT !.step = "star"])
          /\ UNCHANGED <<rows, entry, board, set, crossed, twice, took, now>>
      BY <1>5, <2>2 DEF SetExclude
    <3>2. QED
      BY <2>1, <3>1, FlagJob, JobStepTyped DEF Elsewhere
  <2>3. CASE b # Unset
    <3> DEFINE j == [job[w] EXCEPT !.step = "liveExclude"]
               r == [rows[u] EXCEPT !.excluded = b]
               s == [set[u] EXCEPT !.excluded = b]
    <3>1. /\ Become(w, j) /\ rows' = [rows EXCEPT ![u].excluded = b] /\ set' = [set EXCEPT ![u].excluded = b]
          /\ UNCHANGED <<entry, board, crossed, twice, took, now>>
      BY <1>5, <2>3 DEF SetExclude
    <3>2. rows' = [rows EXCEPT ![u] = r] /\ set' = [set EXCEPT ![u] = s]
      BY <3>1
    <3>3. b \in BOOLEAN
      BY <2>1, <2>3
    <3>4. r \in Row /\ r.bot = rows[u].bot /\ r.miles = rows[u].miles /\ r.excluded = b /\ r.id = rows[u].id
      BY <1>1, <2>1, <3>3, ZenonT(30) DEF Row
    <3>5. s \in [bot : BOOLEAN, excluded : BOOLEAN] /\ s.bot = set[u].bot /\ s.excluded = b
      BY <1>1, <2>1, <3>3
    <3>6. j \in Jobs /\ j.step = "liveExclude"
      <4>1. SetsExclude(job[w].body)
        BY <2>1, <3>3, FlagJob DEF SetsExclude
      <4>2. QED
        BY <2>1, <4>1, FlagJob
    <3> HIDE DEF j, r, s, u
    <3>7. /\ rows' \in [Users -> Row] /\ rows'[u] = r /\ \A v \in Users \ {u} : rows'[v] = rows[v]
          /\ set' \in [Users -> [bot : BOOLEAN, excluded : BOOLEAN]]
          /\ set'[u] = s /\ \A v \in Users \ {u} : set'[v] = set[v]
      BY <1>1, <2>1, <3>2, <3>4, <3>5
    <3>8. AccountsTyped'
      BY <1>1, <3>1, <3>6, <3>7, RowsStepTyped
    <3>9. job'[w] = j /\ \A v \in Workers \ {w} : job'[v] = job[v]
      BY <1>1, <3>1, OwnJob
    <3>10. \A v \in Users : SameRow(v) /\ SameEntry(v) /\ rows'[v].id = rows[v].id
      BY <2>1, <3>1, <3>4, <3>5, <3>7 DEF SameRow, SameEntry
    <3>11. QED
      BY <2>1, <3>1, <3>6, <3>8, <3>9, <3>10 DEF Quietly, Elsewhere
  <2>4. QED
    BY <2>2, <2>3
<1>6. CASE LiveExclude(w)
  <2> DEFINE u == job[w].user
             b == job[w].body.excluded
             e == IF entry[u] = NoEntry THEN NoEntry ELSE [entry[u] EXCEPT !.excluded = b]
             j == [job[w] EXCEPT !.step = "star"]
  <2>1. job[w].step = "liveExclude" /\ u \in Users /\ j \in Jobs /\ j.step = "star"
    BY <1>6, FlagJob DEF LiveExclude, Busy
  <2>2. b \in BOOLEAN
    BY <2>1, FlagJob DEF FlagJobs, SetsExclude
  <2>3. /\ Become(w, j) /\ UNCHANGED <<rows, board, set, crossed, twice, took, now>>
        /\ entry' = IF entry[u] = NoEntry THEN entry ELSE [entry EXCEPT ![u].excluded = b]
    BY <1>6 DEF LiveExclude
  <2>4. entry' = [entry EXCEPT ![u] = e]
    BY <1>1, <2>1, <2>3
  <2>5. entry[u] # NoEntry =>
          /\ e \in Entry /\ e.bot = entry[u].bot /\ e.miles = entry[u].miles
          /\ e.since = entry[u].since /\ e.banked = entry[u].banked /\ e.id = entry[u].id
    BY <1>1, <2>1, <2>2 DEF Entry
  <2>6. entry[u] = NoEntry => e = NoEntry
    OBVIOUS
  <2> HIDE DEF e, u, b, j
  <2>7. entry[u] # NoEntry => Past(e)
    BY <2>1, <2>5 DEF AccountsTyped, Past
  <2>8. e = NoEntry \/ (e \in Entry /\ Past(e))
    BY <2>5, <2>6, <2>7
  <2>9. crossed' \subseteq Users /\ twice' \subseteq Users
    BY <1>1, <2>3
  <2>10. AccountsTyped'
    BY <2>1, <2>3, <2>4, <2>8, <2>9, EntryStepTyped, ZenonT(30)
  <2>11. entry'[u] = e /\ \A v \in Users \ {u} : entry'[v] = entry[v]
    BY <1>1, <2>1, <2>4
  <2>12. \A v \in Users : SameEntry(v) /\ (entry'[v] # NoEntry => entry[v] # NoEntry /\ entry'[v].id = entry[v].id)
    BY <2>5, <2>6, <2>11 DEF SameEntry
  <2>13. job'[w] = j /\ \A v \in Workers \ {w} : job'[v] = job[v]
    BY <1>1, <2>3, OwnJob
  <2>14. Quietly(w)
    BY <2>1, <2>3, <2>12, <2>13 DEF Quietly, Elsewhere, SameRow
  <2>15. QED
    BY <2>3, <2>10, <2>12, <2>14
<1>7. CASE SetStarred(w)
  <2> DEFINE u == job[w].user
             b == job[w].body.starred
             r == IF b = Unset THEN rows[u] ELSE [rows[u] EXCEPT !.starred = b]
  <2>1. job[w].step = "star" /\ u \in Users /\ b \in BOOLEAN \cup {Unset}
    BY <1>7, FlagJob DEF SetStarred, Busy, Body
  <2>2. /\ Become(w, Idle) /\ UNCHANGED <<entry, board, set, crossed, twice, took, now>>
        /\ rows' = IF b = Unset THEN rows ELSE [rows EXCEPT ![u].starred = b]
    BY <1>7 DEF SetStarred, Rest
  <2>3. rows' = [rows EXCEPT ![u] = r]
    BY <1>1, <2>1, <2>2
  <2>4. /\ r \in Row /\ r.bot = rows[u].bot /\ r.miles = rows[u].miles /\ r.excluded = rows[u].excluded
        /\ r.id = rows[u].id
    BY <1>1, <2>1, ZenonT(30) DEF Row
  <2> HIDE DEF r, u, b
  <2>5. rows' \in [Users -> Row] /\ rows'[u] = r /\ \A v \in Users \ {u} : rows'[v] = rows[v]
    BY <1>1, <2>1, <2>3, <2>4
  <2>6. AccountsTyped'
    BY <1>1, <2>2, <2>5, IdleJob, RowsStepTyped
  <2>7. job'[w] = Idle /\ \A v \in Workers \ {w} : job'[v] = job[v]
    BY <1>1, <2>2, OwnJob
  <2>8. \A v \in Users : SameRow(v) /\ SameEntry(v) /\ rows'[v].id = rows[v].id
    BY <2>2, <2>4, <2>5 DEF SameRow, SameEntry
  <2>9. QED
    BY <2>1, <2>2, <2>6, <2>7, <2>8, IdleJob DEF Quietly, Elsewhere
<1>8. QED
  BY <1>2, <1>3, <1>4, <1>5, <1>6, <1>7
LEMMA FindBotTyped ==
  ASSUME AccountsTyped, NEW w \in Workers, FindBot(w), job[w].body.bot # Unset
  PROVE  LET u == job[w].user IN
         /\ AccountsTyped' /\ job[w].step = "bot" /\ u \in Users /\ UNCHANGED <<rows, entry, set>>
         /\ job'[w].step = "saveBot" /\ job'[w].user = u /\ job'[w].copy.bot = job'[w].body.bot
         /\ job'[w].copy.miles = rows[u].miles
         /\ crossed' = IF Copied(u, w) \/ SettingBot(u, w) THEN crossed \cup {u} ELSE crossed
<1> DEFINE u == job[w].user
           b == job[w].body.bot
           c == [rows[u] EXCEPT !.bot = b]
           j == [step |-> "saveBot", user |-> u, body |-> job[w].body, copy |-> c]
<1>1. /\ rows \in [Users -> Row] /\ job \in [Workers -> Jobs] /\ job[w].step = "bot" /\ crossed \subseteq Users
      /\ twice \subseteq Users
  BY DEF AccountsTyped, FindBot, Busy
<1>2. u \in Users /\ job[w].body \in Body /\ b \in BOOLEAN
  BY <1>1, FlagJob DEF Body
<1>3. c \in Row /\ c.bot = b /\ c.miles = rows[u].miles
  BY <1>1, <1>2 DEF Row
<1>4. /\ Become(w, j) /\ UNCHANGED <<rows, entry, board, set, twice, took, now>>
      /\ crossed' = IF Copied(u, w) \/ SettingBot(u, w) THEN crossed \cup {u} ELSE crossed
  BY DEF FindBot
<1> HIDE DEF c
<1>5. j \in BotJobs /\ j.step = "saveBot" /\ j.user = u /\ j.body = job[w].body /\ j.copy = c
  BY <1>2, <1>3 DEF BotJobs, SetsBot
<1> HIDE DEF j, u
<1>6. j \in Jobs
  BY <1>5 DEF Jobs
<1>7. crossed' \subseteq Users
  BY <1>1, <1>2, <1>4
<1>8. AccountsTyped'
  BY <1>1, <1>4, <1>5, <1>6, <1>7, RowsStepTyped DEF AccountsTyped
<1>9. job'[w] = j
  BY <1>1, <1>4, OwnJob
<1>10. QED
  BY <1>1, <1>2, <1>3, <1>4, <1>5, <1>8, <1>9 DEF u

LEMMA SaveBotTyped ==
  ASSUME AccountsTyped, failures \in Nat, NEW w \in Workers, SaveBot(w)
  PROVE  LET u == job[w].user c == job[w].copy IN
         /\ AccountsTyped' /\ job[w].step = "saveBot" /\ u \in Users /\ c \in Row /\ entry' = entry
         /\ job'[w].step = "liveBot" /\ job'[w].user = u /\ job'[w].body = job[w].body
         /\ set' = [set EXCEPT ![u].bot = job[w].body.bot]
         /\ job[w].body.bot \in BOOLEAN
         /\ set'[u].bot = job[w].body.bot /\ set'[u].excluded = set[u].excluded
         /\ \A v \in Users \ {u} : set'[v] = set[v]
         /\ \/ rows' = Saved(u, c)
            \/ rows' = rows /\ u \in crossed'
         /\ crossed \subseteq crossed'
         /\ Copied(u, w) => u \in crossed'
<1> DEFINE u == job[w].user
           c == job[w].copy
           b == job[w].body.bot
           j == [step |-> "liveBot", user |-> u, body |-> job[w].body]
           s == [set[u] EXCEPT !.bot = b]
<1>1. /\ rows \in [Users -> Row] /\ job \in [Workers -> Jobs] /\ job[w].step = "saveBot" /\ job[w] \in Jobs
      /\ board \in [Users -> Nat] /\ set \in [Users -> [bot : BOOLEAN, excluded : BOOLEAN]]
      /\ took \in [Users -> SUBSET Ids] /\ crossed \subseteq Users /\ twice \subseteq Users
  BY DEF AccountsTyped, SaveBot, Busy
<1>2. job[w] \in BotJobs
  BY <1>1, JobKinds
<1>3. u \in Users /\ c \in Row /\ SetsBot(job[w].body) /\ b \in BOOLEAN
  BY <1>2 DEF BotJobs, SetsBot
<1>4. c.bot \in BOOLEAN /\ c.miles \in Nat
  BY <1>3 DEF Row
<1>5. /\ Become(w, j) /\ UNCHANGED <<entry, board, twice, took, now>>
      /\ set' = [set EXCEPT ![u].bot = b] /\ Save(u, c)
      /\ crossed' = IF failures' # failures \/ Copied(u, w) THEN crossed \cup {u} ELSE crossed
  BY DEF SaveBot
<1>6. rows' = Saved(u, c) \/ (rows' = rows /\ u \in crossed')
  <2>1. CASE failures' # failures
    BY <1>5, <2>1 DEF Save
  <2>2. CASE failures' = failures /\ ~(Works /\ rows' = Saved(u, c))
    <3>1. failures' = failures + 1 /\ rows' = rows
      BY <1>5, <2>2 DEF Save, Fails
    <3>2. QED
      BY <2>2, <3>1
  <2>3. QED
    BY <2>1, <2>2
<1>7. set' = [set EXCEPT ![u] = s]
  BY <1>5
<1>8. s \in [bot : BOOLEAN, excluded : BOOLEAN] /\ s.bot = b /\ s.excluded = set[u].excluded
  BY <1>1, <1>3
<1>9. j \in FlagJobs /\ j.step = "liveBot" /\ j.user = u /\ j.body = job[w].body
  BY <1>3 DEF FlagJobs, SetsBot
<1> HIDE DEF j, s, u, c, b
<1>10. /\ set' \in [Users -> [bot : BOOLEAN, excluded : BOOLEAN]]
       /\ set'[u] = s /\ \A v \in Users \ {u} : set'[v] = set[v]
  BY <1>1, <1>3, <1>7, <1>8
<1>11. rows' \in [Users -> Row] /\ crossed' \subseteq Users
  BY <1>1, <1>3, <1>4, <1>5, <1>6, SavedRow
<1>12. j \in Jobs
  BY <1>9 DEF Jobs
<1>13. AccountsTyped'
  BY <1>1, <1>5, <1>9, <1>10, <1>11, <1>12, RowsStepTyped
<1>14. job'[w] = j
  BY <1>1, <1>5, OwnJob
<1>15. QED
  BY <1>1, <1>3, <1>5, <1>6, <1>8, <1>9, <1>10, <1>13, <1>14 DEF u, c, b

LEMMA LiveBotTyped ==
  ASSUME AccountsTyped, NEW w \in Workers, LiveBot(w)
  PROVE  LET u == job[w].user IN
         /\ AccountsTyped' /\ job[w].step = "liveBot" /\ u \in Users /\ UNCHANGED <<rows, set>>
         /\ \A v \in Users \ {u} : entry'[v] = entry[v]
         /\ entry'[u] # NoEntry =>
              /\ entry[u] # NoEntry
              /\ entry'[u].bot = job[w].body.bot /\ entry'[u].id = entry[u].id
              /\ entry'[u].miles = entry[u].miles /\ entry'[u].since = entry[u].since
              /\ entry'[u].banked = entry[u].banked
         /\ job'[w].step = "exclude" /\ job'[w].user = u
         /\ crossed' = IF Copied(u, w) THEN crossed \cup {u} ELSE crossed
<1> DEFINE u == job[w].user
           b == job[w].body.bot
           e == IF entry[u] = NoEntry THEN NoEntry ELSE [entry[u] EXCEPT !.bot = b]
           j == [step |-> "exclude", user |-> u, body |-> job[w].body]
<1>1. /\ job \in [Workers -> Jobs] /\ job[w].step = "liveBot" /\ crossed \subseteq Users
      /\ entry \in [Users -> Entry \cup {NoEntry}] /\ twice \subseteq Users
  BY DEF AccountsTyped, LiveBot, Busy
<1>2. u \in Users /\ b \in BOOLEAN /\ job[w].body \in Body
  BY <1>1, FlagJob DEF FlagJobs, SetsBot
<1>3. /\ Become(w, j) /\ UNCHANGED <<rows, board, set, twice, took, now>>
      /\ entry' = IF entry[u] = NoEntry THEN entry ELSE [entry EXCEPT ![u].bot = b]
      /\ crossed' = IF Copied(u, w) THEN crossed \cup {u} ELSE crossed
  BY DEF LiveBot, KeepInStep
<1>4. entry' = [entry EXCEPT ![u] = e]
  BY <1>1, <1>2, <1>3
<1>5. entry[u] # NoEntry =>
        /\ e \in Entry /\ e.bot = b /\ e.miles = entry[u].miles /\ e.id = entry[u].id
        /\ e.since = entry[u].since /\ e.banked = entry[u].banked
  BY <1>1, <1>2 DEF Entry
<1>6. entry[u] = NoEntry => e = NoEntry
  OBVIOUS
<1>7. j \in FlagJobs /\ j.step = "exclude" /\ j.user = u
  BY <1>2 DEF FlagJobs
<1> HIDE DEF e, u, b, j
<1>8. entry[u] # NoEntry => Past(e)
  BY <1>2, <1>5 DEF AccountsTyped, Past
<1>9. e = NoEntry \/ (e \in Entry /\ Past(e))
  BY <1>5, <1>6, <1>8
<1>10. crossed' \subseteq Users /\ twice' \subseteq Users
  BY <1>1, <1>2, <1>3
<1>11. j \in Jobs
  BY <1>7 DEF Jobs
<1>12. AccountsTyped'
  BY <1>2, <1>3, <1>4, <1>7, <1>9, <1>10, <1>11, EntryStepTyped, ZenonT(60)
<1>13. entry'[u] = e /\ \A v \in Users \ {u} : entry'[v] = entry[v]
  BY <1>1, <1>2, <1>4
<1>14. job'[w] = j
  BY <1>1, <1>3, OwnJob
<1>15. QED
  BY <1>1, <1>2, <1>3, <1>5, <1>6, <1>7, <1>12, <1>13, <1>14 DEF u, b
\* The leaderboard's steps.
LEMMA FetchTyped ==
  ASSUME AccountsTyped, NEW w \in Workers, FetchLeaderboard(w)
  PROVE  /\ AccountsTyped' /\ job[w].step = "idle" /\ job'[w].step = "overlay"
         /\ job'[w].shown \in [Users -> Nat]
         /\ \A u \in Users : job'[w].shown[u] \in {rows[u].miles, 0}
<1> DEFINE j == [step |-> "overlay", todo |-> OnBoard,
                 shown |-> [u \in Users |-> IF u \in OnBoard THEN rows[u].miles ELSE NotShown]]
<1>1. job \in [Workers -> Jobs] /\ job[w].step = "idle" /\ rows \in [Users -> Row]
  BY DEF AccountsTyped, FetchLeaderboard, Busy
<1>2. Become(w, j) /\ UNCHANGED <<rows, entry, board, set, crossed, twice, took, now>>
  BY DEF FetchLeaderboard
<1>3. j.shown \in [Users -> Nat] /\ \A u \in Users : j.shown[u] \in {rows[u].miles, 0}
  BY <1>1 DEF NotShown, Row
<1>4. j \in OverlayJobs /\ j.step = "overlay"
  BY <1>3 DEF OverlayJobs, OnBoard
<1> HIDE DEF j
<1>5. j \in Jobs
  BY <1>4 DEF Jobs
<1>6. AccountsTyped'
  BY <1>2, <1>4, <1>5, RowsStepTyped DEF AccountsTyped
<1>7. job'[w] = j
  BY <1>1, <1>2, OwnJob
<1>8. QED
  BY <1>1, <1>3, <1>4, <1>6, <1>7

LEMMA CopyLiveTyped ==
  ASSUME AccountsTyped, NEW w \in Workers, NEW u \in Users, CopyLive(w, u)
  PROVE  /\ AccountsTyped' /\ job[w].step = "overlay" /\ job'[w].step \in {"overlay", "measure"}
         /\ job[w].shown \in [Users -> Nat] /\ job'[w].shown = job[w].shown
         /\ job'[w].step = "measure" =>
              entry[u] # NoEntry /\ job'[w].user = u /\ job'[w].miles = entry[u].miles
<1> DEFINE j == IF entry[u] = NoEntry THEN [job[w] EXCEPT !.todo = @ \ {u}]
                ELSE [step |-> "measure", todo |-> job[w].todo \ {u}, shown |-> job[w].shown,
                      user |-> u, miles |-> entry[u].miles]
<1>1. job \in [Workers -> Jobs] /\ job[w].step = "overlay" /\ job[w] \in Jobs
  BY DEF AccountsTyped, CopyLive, Busy
<1>2. job[w] \in OverlayJobs
  BY <1>1, JobKinds
<1>3. Become(w, j) /\ UNCHANGED <<rows, entry, board, set, crossed, twice, took, now>>
  BY DEF CopyLive
<1>4. CASE entry[u] = NoEntry
  <2>1. j \in OverlayJobs /\ j.step = "overlay" /\ j.shown = job[w].shown
    BY <1>2, <1>4 DEF OverlayJobs
  <2> HIDE DEF j
  <2>2. j \in Jobs
    BY <2>1 DEF Jobs
  <2>3. AccountsTyped'
    BY <1>3, <2>1, <2>2, RowsStepTyped DEF AccountsTyped
  <2>4. job'[w] = j
    BY <1>1, <1>3, OwnJob
  <2>5. QED
    BY <1>1, <1>2, <2>1, <2>3, <2>4 DEF OverlayJobs
<1>5. CASE entry[u] # NoEntry
  <2>1. entry[u].miles \in Nat
    BY <1>5, Measures
  <2>2. /\ j \in MeasureJobs /\ j.step = "measure" /\ j.shown = job[w].shown /\ j.user = u
        /\ j.miles = entry[u].miles
    BY <1>2, <1>5, <2>1 DEF OverlayJobs, MeasureJobs
  <2> HIDE DEF j
  <2>3. j \in Jobs
    BY <2>2 DEF Jobs
  <2>4. AccountsTyped'
    BY <1>3, <2>2, <2>3, RowsStepTyped DEF AccountsTyped
  <2>5. job'[w] = j
    BY <1>1, <1>3, OwnJob
  <2>6. QED
    BY <1>1, <1>2, <1>5, <2>2, <2>4, <2>5 DEF OverlayJobs
<1>6. QED
  BY <1>4, <1>5

\* What a measured viewer is shown with.
Measured(w) ==
  LET u == job[w].user IN job[w].miles + (IF entry[u] = NoEntry THEN 0 ELSE InFlight(entry[u]))

LEMMA CurrentMilesTyped ==
  ASSUME AccountsTyped, NEW w \in Workers, CurrentMiles(w)
  PROVE  /\ AccountsTyped' /\ job[w].step = "measure" /\ job'[w].step = "overlay"
         /\ job[w].user \in Users /\ job[w].shown \in [Users -> Nat]
         /\ job'[w].shown = [job[w].shown EXCEPT ![job[w].user] = Measured(w)]
<1> DEFINE m == Measured(w)
           f == [job[w].shown EXCEPT ![job[w].user] = m]
           j == [step |-> "overlay", todo |-> job[w].todo, shown |-> f]
<1>1. job \in [Workers -> Jobs] /\ job[w].step = "measure" /\ job[w] \in Jobs
  BY DEF AccountsTyped, CurrentMiles, Busy
<1>2. job[w] \in MeasureJobs
  BY <1>1, JobKinds
<1>3. job[w].user \in Users /\ job[w].miles \in Nat /\ job[w].shown \in [Users -> Nat] /\ job[w].todo \in SUBSET Users
  BY <1>2 DEF MeasureJobs
<1>4. m \in Nat
  BY <1>3, Measures DEF Measured
<1>5. Become(w, j) /\ UNCHANGED <<rows, entry, board, set, crossed, twice, took, now>>
  BY DEF CurrentMiles, Measured, SessionMiles
<1> HIDE DEF m
<1>6. f \in [Users -> Nat]
  BY <1>3, <1>4
<1> HIDE DEF f
<1>7. j \in OverlayJobs /\ j.step = "overlay" /\ j.shown = f
  BY <1>3, <1>6 DEF OverlayJobs
<1> HIDE DEF j
<1>8. j \in Jobs
  BY <1>7 DEF Jobs
<1>9. AccountsTyped'
  BY <1>5, <1>7, <1>8, RowsStepTyped DEF AccountsTyped
<1>10. job'[w] = j
  BY <1>1, <1>5, OwnJob
<1>11. QED
  BY <1>1, <1>3, <1>7, <1>9, <1>10 DEF f, m

LEMMA InstallTyped ==
  ASSUME AccountsTyped, NEW w \in Workers, InstallLeaderboard(w)
  PROVE  /\ AccountsTyped' /\ job[w].step = "overlay" /\ job'[w] = Idle
         /\ job[w].shown \in [Users -> Nat] /\ board' = job[w].shown
<1>1. job \in [Workers -> Jobs] /\ job[w].step = "overlay" /\ job[w] \in Jobs
  BY DEF AccountsTyped, InstallLeaderboard, Busy
<1>2. job[w].shown \in [Users -> Nat]
  BY <1>1, JobKinds DEF OverlayJobs
<1>3. Become(w, Idle) /\ board' = job[w].shown /\ UNCHANGED <<rows, entry, set, crossed, twice, took, now>>
  BY DEF InstallLeaderboard, Rest
<1>4. AccountsTyped'
  BY <1>2, <1>3, IdleJob, RowsStepTyped DEF AccountsTyped
<1>5. QED
  BY <1>1, <1>2, <1>3, <1>4, OwnJob

\* Every step, by name: what is typed stays typed.
LEMMA AccountsStayTyped ==
  ASSUME AccountsTyped, failures \in Nat, AccountsNext
  PROVE  AccountsTyped' /\ failures' \in Nat
<1>1. ASSUME AccountsTick
      PROVE  AccountsTyped'
  <2>1. /\ UNCHANGED <<rows, entry, board, job, set, crossed, twice, took>>
        /\ now \in Nat /\ now' = now + 1 /\ now' \in Nat
    BY <1>1 DEF AccountsTick, AccountsTyped
  <2>2. ASSUME NEW e \in Entry, Past(e)
        PROVE  e.since + e.banked <= now'
    BY <2>1, <2>2 DEF Past, Entry
  <2>3. \A u \in Users : entry[u] # NoEntry => entry[u].since + entry[u].banked <= now'
    BY <2>2 DEF AccountsTyped
  <2>4. \A w \in Workers : job[w].step \in {"login", "publish"} => job[w].copy \in Entry
    BY JobKinds DEF AccountsTyped, LoginJobs
  <2>5. \A w \in Workers : job[w].step \in {"login", "publish"} =>
          job[w].copy.since + job[w].copy.banked <= now'
    BY <2>2, <2>4 DEF AccountsTyped
  <2>6. /\ \A u \in Users : entry[u] # NoEntry => Past(entry[u])'
        /\ \A w \in Workers : job[w].step \in {"login", "publish"} => Past(job[w].copy)'
    BY <2>1, <2>3, <2>5 DEF Past
  <2>7. \A u \in Users : entry'[u] # NoEntry => Past(entry[u])'
    BY <2>1, <2>6
  <2>8. \A w \in Workers : job'[w].step \in {"login", "publish"} => Past(job[w].copy)'
    BY <2>1, <2>6
  <2>9. QED
    BY <2>1, <2>7, <2>8 DEF AccountsTyped
<1>2. ASSUME NEW w \in Workers, SessionStep(w)
      PROVE  AccountsTyped'
  BY <1>2, FindForLoginTyped, SaveLoginTyped, PublishLoginTyped, LogoutTyped, CheckpointTyped, WriteBackTyped
     DEF SessionStep
<1>3. ASSUME NEW w \in Workers, IdStep(w)
      PROVE  AccountsTyped'
  BY <1>3, SpeaksTyped, StampIdTyped, MirrorIdTyped DEF IdStep
<1>4. ASSUME NEW w \in Workers, FlagStep(w)
      PROVE  AccountsTyped'
  BY <1>4, FlagStepsTyped, FindBotTyped, SaveBotTyped, LiveBotTyped DEF FlagStep
<1>5. ASSUME NEW w \in Workers, BoardStep(w)
      PROVE  AccountsTyped'
  BY <1>5, FetchTyped, CopyLiveTyped, CurrentMilesTyped, InstallTyped DEF BoardStep
<1>6. failures' = failures \/ failures' = failures + 1
  <2> DEFINE Fine == failures' = failures \/ failures' = failures + 1
  <2>1. ASSUME NEW w \in Workers, SessionStep(w)
        PROVE  Fine
    BY <2>1 DEF SessionStep, FindForLogin, SaveLogin, PublishLogin, Logout, Checkpoint, WriteBack, Save, Works, Fails
  <2>2. ASSUME NEW w \in Workers, IdStep(w)
        PROVE  Fine
    BY <2>2 DEF IdStep, Speaks, StampId, MirrorId, Save, Works, Fails
  <2>3. ASSUME NEW w \in Workers, FlagStep(w)
        PROVE  Fine
    BY <2>3 DEF FlagStep, AskFlags, GiveUp, FindBot, SaveBot, LiveBot, SetExclude, LiveExclude, SetStarred, Save, Works, Fails
  <2>4. ASSUME NEW w \in Workers, BoardStep(w)
        PROVE  Fine
    BY <2>4 DEF BoardStep, FetchLeaderboard, CopyLive, CurrentMiles, InstallLeaderboard, Save, Works, Fails
  <2>5. CASE AccountsTick
    BY <2>5 DEF AccountsTick
  <2>6. QED
    BY <2>1, <2>2, <2>3, <2>4, <2>5 DEF AccountsNext
<1>7. failures' \in Nat
  BY <1>6
<1>8. QED
  BY <1>1, <1>2, <1>3, <1>4, <1>5, <1>7 DEF AccountsNext
-----------------------------------------------------------------------------
(* The marks *)

\* w holds u's row, and may write it back; or is setting u's is_bot.
Carries(w, u) == job[w].step \in {"login", "publish", "save", "saveBot"} /\ job[w].user = u
Setting(w, u) == job[w].step \in {"saveBot", "liveBot"} /\ job[w].user = u
Informing(w, u) == job[w].step = "liveBot" /\ job[w].user = u

\* What is known of a viewer whose is_bot nobody set beside another copy.
CopiesAgree(u) ==
  \A w \in Workers : Carries(w, u) /\ job[w].step # "saveBot" => job[w].copy.bot = rows[u].bot
SettersAreAlone(u) ==
  \A w \in Workers : Setting(w, u) =>
    \A v \in Workers \ {w} : ~Carries(v, u) /\ ~Setting(v, u)
InformedOfTheRow(u) == \A w \in Workers : Informing(w, u) => job[w].body.bot = rows[u].bot
EntryAgrees(u) ==
  entry[u] # NoEntry /\ (\A w \in Workers : ~Informing(w, u)) => entry[u].bot = rows[u].bot
MarkOf(u) ==
  /\ rows[u].bot = set[u].bot
  /\ CopiesAgree(u) /\ SettersAreAlone(u) /\ InformedOfTheRow(u) /\ EntryAgrees(u)

CopiesAreAsked == \A w \in Workers : job[w].step = "saveBot" => job[w].copy.bot = job[w].body.bot
ExclusionStands == \A u \in Users : rows[u].excluded = set[u].excluded
MarksInv == CopiesAreAsked /\ ExclusionStands /\ \A u \in Users \ crossed : MarkOf(u)

LEMMA OthersCarry ==
  ASSUME NEW u, NEW w \in Workers
  PROVE  /\ Copied(u, w) <=> \E v \in Workers \ {w} : Carries(v, u)
         /\ SettingBot(u, w) <=> \E v \in Workers \ {w} : Setting(v, u)
BY DEF Copied, SettingBot, Carries, Setting

\* A step that does not touch a viewer's is_bot, and is not about to.
LEMMA MarkUntouched ==
  ASSUME NEW u \in Users, NEW w \in Workers, MarkOf(u),
         \A v \in Workers \ {w} : job'[v] = job[v],
         ~Carries(w, u)', ~Setting(w, u)', ~Informing(w, u),
         rows'[u].bot = rows[u].bot, set'[u].bot = set[u].bot,
         entry'[u] # NoEntry => entry[u] # NoEntry /\ entry'[u].bot = entry[u].bot
  PROVE  MarkOf(u)'
<1>1. \A v \in Workers \ {w} : /\ Carries(v, u)' <=> Carries(v, u)
                               /\ Setting(v, u)' <=> Setting(v, u)
                               /\ Informing(v, u)' <=> Informing(v, u)
  BY DEF Carries, Setting, Informing
<1>2. ~Informing(w, u)'
  BY DEF Informing, Setting
<1>3. CopiesAgree(u)'
  BY <1>1 DEF MarkOf, CopiesAgree
<1>4. SettersAreAlone(u)'
  BY <1>1 DEF MarkOf, SettersAreAlone
<1>5. InformedOfTheRow(u)'
  BY <1>1, <1>2 DEF MarkOf, InformedOfTheRow
<1>6. EntryAgrees(u)'
  BY <1>1, <1>2 DEF MarkOf, EntryAgrees
<1>7. QED
  BY <1>3, <1>4, <1>5, <1>6 DEF MarkOf

\* w takes up a copy that says what the row says, while nobody is setting it.
LEMMA MarkCopied ==
  ASSUME NEW u \in Users, NEW w \in Workers, MarkOf(u),
         \A v \in Workers \ {w} : job'[v] = job[v],
         ~SettingBot(u, w), ~Setting(w, u), ~Setting(w, u)',
         Carries(w, u)' => job'[w].copy.bot = rows'[u].bot,
         rows'[u].bot = rows[u].bot, set'[u].bot = set[u].bot,
         entry'[u] # NoEntry => entry'[u].bot = rows'[u].bot
  PROVE  MarkOf(u)'
<1>1. \A v \in Workers \ {w} : /\ Carries(v, u)' <=> Carries(v, u)
                               /\ Setting(v, u)' <=> Setting(v, u)
                               /\ Informing(v, u)' <=> Informing(v, u)
  BY DEF Carries, Setting, Informing
<1>2. \A v \in Workers : ~Setting(v, u)' /\ ~Informing(v, u)'
  BY <1>1, OthersCarry DEF Informing, Setting
<1>3. CopiesAgree(u)'
  BY <1>1 DEF MarkOf, CopiesAgree
<1>4. SettersAreAlone(u)'
  BY <1>2 DEF SettersAreAlone
<1>5. InformedOfTheRow(u)'
  BY <1>2 DEF InformedOfTheRow
<1>6. EntryAgrees(u)'
  BY DEF EntryAgrees
<1>7. QED
  BY <1>3, <1>4, <1>5, <1>6 DEF MarkOf
LEMMA NobodySets ==
  ASSUME NEW u \in Users, NEW w \in Workers, MarkOf(u), ~SettingBot(u, w), ~Setting(w, u), entry[u] # NoEntry
  PROVE  entry[u].bot = rows[u].bot
<1>1. \A v \in Workers : ~Informing(v, u)
  BY OthersCarry DEF Informing, Setting
<1>2. QED
  BY <1>1 DEF MarkOf, EntryAgrees

\* A step of w for x: nobody else's marks move.
OnlyFor(w, x) ==
  /\ \A v \in Workers \ {w} : job'[v] = job[v]
  /\ job'[w].step \in {"login", "publish", "save", "saveBot", "liveBot"} => job'[w].user = x
  /\ job[w].step = "liveBot" => job[w].user = x
  /\ \A u \in Users \ {x} :
       /\ rows'[u].bot = rows[u].bot /\ set'[u].bot = set[u].bot
       /\ entry'[u] # NoEntry => entry[u] # NoEntry /\ entry'[u].bot = entry[u].bot
  /\ \A u \in Users : rows'[u].excluded = rows[u].excluded /\ set'[u].excluded = set[u].excluded
  /\ crossed \subseteq crossed'

LEMMA MarksByOne ==
  ASSUME MarksInv, NEW w \in Workers, NEW x \in Users, OnlyFor(w, x),
         job'[w].step = "saveBot" => job'[w].copy.bot = job'[w].body.bot,
         x \notin crossed' => MarkOf(x)'
  PROVE  MarksInv'
<1>1. CopiesAreAsked'
  BY DEF MarksInv, CopiesAreAsked, OnlyFor
<1>2. ExclusionStands'
  BY DEF MarksInv, ExclusionStands, OnlyFor
<1>3. ASSUME NEW u \in Users, u \notin crossed'
      PROVE  MarkOf(u)'
  <2>1. CASE u = x
    BY <1>3, <2>1
  <2>2. CASE u # x
    <3>1. MarkOf(u)
      BY <1>3 DEF MarksInv, OnlyFor
    <3>2. ~Carries(w, u)' /\ ~Setting(w, u)' /\ ~Informing(w, u)
      BY <2>2 DEF OnlyFor, Carries, Setting, Informing
    <3>3. QED
      BY <2>2, <3>1, <3>2, MarkUntouched DEF OnlyFor
  <2>3. QED
    BY <2>1, <2>2
<1>4. QED
  BY <1>1, <1>2, <1>3 DEF MarksInv

\* A session's step for x, on which nobody is setting is_bot.
LEMMA CarriedOn ==
  ASSUME MarksInv, NEW w \in Workers, NEW x \in Users,
         crossed' = IF SettingBot(x, w) THEN crossed \cup {x} ELSE crossed,
         \A v \in Workers \ {w} : job'[v] = job[v],
         job[w].step \notin {"saveBot", "liveBot"}, job'[w].step \notin {"saveBot", "liveBot"},
         job'[w].step \in {"login", "publish", "save"} => job'[w].user = x,
         set' = set,
         \A u \in Users \ {x} : rows'[u] = rows[u] /\ entry'[u] = entry[u],
         \A u \in Users : rows'[u].excluded = rows[u].excluded,
         MarkOf(x) /\ ~SettingBot(x, w) =>
           /\ rows'[x].bot = rows[x].bot
           /\ Carries(w, x)' => job'[w].copy.bot = rows'[x].bot
           /\ entry'[x] # NoEntry => entry'[x].bot = rows'[x].bot
  PROVE  MarksInv'
<1>1. OnlyFor(w, x)
  BY DEF OnlyFor
<1>2. ASSUME x \notin crossed'
      PROVE  MarkOf(x)'
  <2>1. ~SettingBot(x, w) /\ x \notin crossed
    BY <1>2
  <2>2. MarkOf(x)
    BY <2>1 DEF MarksInv
  <2>3. ~Setting(w, x) /\ ~Setting(w, x)'
    BY DEF Setting
  <2>4. QED
    BY <2>1, <2>2, <2>3, MarkCopied
<1>3. QED
  BY <1>1, <1>2, MarksByOne

\* What a copy says of is_bot, when nobody is setting it.
LEMMA CopySays ==
  ASSUME NEW w \in Workers, NEW x \in Users, MarkOf(x), job[w].user = x,
         job[w].step \in {"login", "publish", "save"}
  PROVE  job[w].copy.bot = rows[x].bot
BY DEF MarkOf, CopiesAgree, Carries

LEMMA FindKeepsMarks ==
  ASSUME AccountsTyped, MarksInv, NEW w \in Workers, NEW x \in Users, NEW id \in Ids \cup {NoId},
         FindForLogin(w, x, id)
  PROVE  MarksInv'
<1>1. /\ job'[w].step = "login" /\ job'[w].user = x /\ job'[w].copy.bot = rows[x].bot
      /\ job[w].step = "idle" /\ entry[x] = NoEntry /\ rows' = rows /\ entry' = entry /\ set' = set
      /\ crossed' = IF SettingBot(x, w) THEN crossed \cup {x} ELSE crossed
  BY FindForLoginTyped DEF FindForLogin, Busy, Crossing
<1>2. \A v \in Workers \ {w} : job'[v] = job[v]
  BY OwnJob DEF FindForLogin, AccountsTyped
<1>3. QED
  BY <1>1, <1>2, CarriedOn

\* User.save: what is written is what the row says already.
LEMMA SaveKeepsMarks ==
  ASSUME AccountsTyped, MarksInv, NEW w \in Workers, SaveLogin(w) \/ WriteBack(w)
  PROVE  MarksInv'
<1>1. /\ job[w].user \in Users /\ job[w].copy \in Entry
      /\ rows' = Saved(job[w].user, job[w].copy) \/ rows' = rows
      /\ job[w].step \in {"login", "save"} /\ job'[w].step \in {"publish", "idle"}
      /\ job'[w].step = "publish" => job'[w].user = job[w].user /\ job'[w].copy = job[w].copy
  BY SaveLoginTyped, WriteBackTyped, IdleJob
<1>2. /\ entry' = entry /\ set' = set
      /\ crossed' = IF SettingBot(job[w].user, w) THEN crossed \cup {job[w].user} ELSE crossed
  BY DEF SaveLogin, WriteBack, Crossing
<1>3. \A v \in Workers \ {w} : job'[v] = job[v]
  BY OwnJob DEF SaveLogin, WriteBack, Rest, AccountsTyped
<1>4. PICK x \in Users : x = job[w].user
  BY <1>1
<1>5. PICK c \in Entry : c = job[w].copy
  BY <1>1
<1>6. c.bot \in BOOLEAN /\ c.miles \in Nat /\ rows \in [Users -> Row]
  BY DEF Entry, AccountsTyped
<1>7. /\ \A u \in Users : rows'[u].excluded = rows[u].excluded
      /\ \A u \in Users \ {x} : rows'[u] = rows[u]
      /\ rows'[x].bot = c.bot \/ rows'[x].bot = rows[x].bot
  <2>1. CASE rows' = rows
    BY <2>1
  <2>2. CASE rows' = Saved(x, c)
    BY <1>6, <2>2, SavedRow
  <2>3. QED
    BY <1>1, <1>4, <1>5, <2>1, <2>2
<1>8. ASSUME MarkOf(x), ~SettingBot(x, w)
      PROVE  /\ rows'[x].bot = rows[x].bot
             /\ Carries(w, x)' => job'[w].copy.bot = rows'[x].bot
             /\ entry'[x] # NoEntry => entry'[x].bot = rows'[x].bot
  <2>1. c.bot = rows[x].bot
    BY <1>1, <1>4, <1>5, <1>8, CopySays
  <2>2. rows'[x].bot = rows[x].bot
    BY <1>7, <2>1
  <2>3. Carries(w, x)' => job'[w].copy.bot = rows'[x].bot
    BY <1>1, <1>5, <2>1, <2>2 DEF Carries
  <2>4. ~Setting(w, x)
    BY <1>1 DEF Setting
  <2>5. entry'[x] # NoEntry => entry'[x].bot = rows'[x].bot
    BY <1>2, <1>8, <2>2, <2>4, NobodySets
  <2>6. QED
    BY <2>2, <2>3, <2>5
<1>9. /\ crossed' = IF SettingBot(x, w) THEN crossed \cup {x} ELSE crossed
      /\ job'[w].step \in {"login", "publish", "save"} => job'[w].user = x
      /\ job[w].step \notin {"saveBot", "liveBot"} /\ job'[w].step \notin {"saveBot", "liveBot"}
  BY <1>1, <1>2, <1>4
<1>10. QED
  BY <1>2, <1>3, <1>7, <1>8, <1>9, CarriedOn

LEMMA PublishKeepsMarks ==
  ASSUME AccountsTyped, MarksInv, NEW w \in Workers, PublishLogin(w)
  PROVE  MarksInv'
<1>1. /\ job[w].user \in Users /\ entry' = [entry EXCEPT ![job[w].user] = job[w].copy]
      /\ job[w].step = "publish" /\ job'[w].step \in {"stamp", "idle"}
  BY PublishLoginTyped
<1>2. /\ rows' = rows /\ set' = set
      /\ crossed' = IF SettingBot(job[w].user, w) THEN crossed \cup {job[w].user} ELSE crossed
  BY DEF PublishLogin, Crossing
<1>3. \A v \in Workers \ {w} : job'[v] = job[v]
  BY OwnJob DEF PublishLogin, Rest, AccountsTyped
<1>4. PICK x \in Users : x = job[w].user
  BY <1>1
<1>5. entry'[x] = job[w].copy /\ \A u \in Users \ {x} : entry'[u] = entry[u]
  BY <1>1, <1>4 DEF AccountsTyped
<1>6. MarkOf(x) => entry'[x].bot = rows[x].bot
  BY <1>1, <1>4, <1>5, CopySays
<1>7. ~Carries(w, x)'
  BY <1>1 DEF Carries
<1>8. crossed' = IF SettingBot(x, w) THEN crossed \cup {x} ELSE crossed
  BY <1>2, <1>4
<1>9. QED
  BY <1>1, <1>2, <1>3, <1>5, <1>6, <1>7, <1>8, CarriedOn

LEMMA BankKeepsMarks ==
  ASSUME AccountsTyped, MarksInv, NEW w \in Workers, NEW x \in Users, Logout(w, x) \/ Checkpoint(w, x)
  PROVE  MarksInv'
<1>1. /\ job[w].step = "idle" /\ entry[x] # NoEntry
      /\ job'[w].step = "save" /\ job'[w].user = x /\ job'[w].copy.bot = entry[x].bot
      /\ \/ entry' = [entry EXCEPT ![x] = NoEntry]
         \/ entry' = [entry EXCEPT ![x] = entry'[x]] /\ entry'[x].bot = entry[x].bot
  BY LogoutTyped, CheckpointTyped
<1>2. /\ rows' = rows /\ set' = set
      /\ crossed' = IF SettingBot(x, w) THEN crossed \cup {x} ELSE crossed
  BY DEF Logout, Checkpoint, Crossing
<1>3. \A v \in Workers \ {w} : job'[v] = job[v]
  BY OwnJob DEF Logout, Checkpoint, AccountsTyped
<1>4. \A u \in Users \ {x} : entry'[u] = entry[u]
  <2>1. \A e : \A u \in Users \ {x} : [entry EXCEPT ![x] = e][u] = entry[u]
    BY DEF AccountsTyped
  <2>2. CASE entry' = [entry EXCEPT ![x] = NoEntry]
    BY <2>1, <2>2
  <2>3. CASE entry' = [entry EXCEPT ![x] = entry'[x]]
    <3>1. PICK e : e = entry'[x]
      OBVIOUS
    <3>2. entry' = [entry EXCEPT ![x] = e]
      BY <2>3, <3>1
    <3>3. QED
      BY <2>1, <3>2
  <2>4. QED
    BY <1>1, <2>2, <2>3
<1>5. entry'[x] = NoEntry \/ entry'[x].bot = entry[x].bot
  BY <1>1 DEF AccountsTyped
<1>6. ~Setting(w, x)
  BY <1>1 DEF Setting
<1>7. MarkOf(x) /\ ~SettingBot(x, w) => entry[x].bot = rows[x].bot
  BY <1>1, <1>6, NobodySets
<1>8. QED
  BY <1>1, <1>2, <1>3, <1>4, <1>5, <1>7, CarriedOn, SMTT(30)

LEMMA SessionKeepsMarks ==
  ASSUME AccountsTyped, MarksInv, NEW w \in Workers, SessionStep(w)
  PROVE  MarksInv'
BY FindKeepsMarks, SaveKeepsMarks, PublishKeepsMarks, BankKeepsMarks DEF SessionStep
\* Steps that touch nobody's is_bot, and the tick.
LEMMA QuietKeepsMarks ==
  ASSUME AccountsTyped, MarksInv, NEW w \in Workers, Quietly(w)
  PROVE  MarksInv'
<1>1. CopiesAreAsked'
  BY DEF MarksInv, CopiesAreAsked, Quietly, Elsewhere
<1>2. ExclusionStands'
  BY DEF MarksInv, ExclusionStands, Quietly, SameRow
<1>3. ASSUME NEW u \in Users, u \notin crossed'
      PROVE  MarkOf(u)'
  <2>1. MarkOf(u)
    BY <1>3 DEF MarksInv, Quietly
  <2>2. ~Carries(w, u)' /\ ~Setting(w, u)' /\ ~Informing(w, u)
    BY DEF Quietly, Elsewhere, Carries, Setting, Informing
  <2>3. /\ rows'[u].bot = rows[u].bot /\ set'[u].bot = set[u].bot
        /\ entry'[u] # NoEntry => entry[u] # NoEntry /\ entry'[u].bot = entry[u].bot
    BY DEF Quietly, SameRow, SameEntry
  <2>4. \A v \in Workers \ {w} : job'[v] = job[v]
    BY DEF Quietly
  <2>5. QED
    BY <2>1, <2>2, <2>3, <2>4, MarkUntouched
<1>4. QED
  BY <1>1, <1>2, <1>3 DEF MarksInv

\* Find, for SetBot: from here on the viewer is being set, by w alone or crossed.
LEMMA FindBotKeepsMarks ==
  ASSUME AccountsTyped, MarksInv, NEW w \in Workers, FindBot(w), job[w].body.bot # Unset
  PROVE  MarksInv'
<1>1. PICK x \in Users : x = job[w].user
  BY FindBotTyped
<1>2. /\ job[w].step = "bot" /\ rows' = rows /\ entry' = entry /\ set' = set
      /\ job'[w].step = "saveBot" /\ job'[w].user = x /\ job'[w].copy.bot = job'[w].body.bot
      /\ crossed' = IF Copied(x, w) \/ SettingBot(x, w) THEN crossed \cup {x} ELSE crossed
  BY <1>1, FindBotTyped
<1>3. \A v \in Workers \ {w} : job'[v] = job[v]
  BY OwnJob DEF FindBot, AccountsTyped
<1>4. OnlyFor(w, x)
  BY <1>2, <1>3 DEF OnlyFor
<1>5. ASSUME x \notin crossed'
      PROVE  MarkOf(x)'
  <2>1. MarkOf(x) /\ ~Copied(x, w) /\ ~SettingBot(x, w)
    BY <1>2, <1>5 DEF MarksInv
  <2>2. \A v \in Workers \ {w} : ~Carries(v, x)' /\ ~Setting(v, x)' /\ ~Informing(v, x)' /\ ~Informing(v, x)
    BY <1>3, <2>1, OthersCarry DEF Carries, Setting, Informing
  <2>3. ~Informing(w, x)' /\ ~Informing(w, x)
    BY <1>2 DEF Informing
  <2>4. CopiesAgree(x)'
    BY <1>2, <2>2 DEF CopiesAgree
  <2>5. SettersAreAlone(x)'
    BY <2>2 DEF SettersAreAlone
  <2>6. InformedOfTheRow(x)'
    BY <2>2, <2>3 DEF InformedOfTheRow
  <2>7. EntryAgrees(x)'
    BY <1>2, <2>1, <2>2, <2>3 DEF MarkOf, EntryAgrees
  <2>8. QED
    BY <1>2, <2>1, <2>4, <2>5, <2>6, <2>7 DEF MarkOf
<1>6. QED
  BY <1>2, <1>4, <1>5, MarksByOne

\* The column is written: the row says what was asked, and nobody else has a copy.
LEMMA SaveBotKeepsMarks ==
  ASSUME AccountsTyped, failures \in Nat, MarksInv, NEW w \in Workers, SaveBot(w)
  PROVE  MarksInv'
<1>1. PICK x \in Users : x = job[w].user
  BY SaveBotTyped
<1>2. PICK c \in Row : c = job[w].copy
  BY SaveBotTyped
<1>3. PICK b \in BOOLEAN : b = job[w].body.bot
  BY SaveBotTyped
<1>4. /\ job[w].step = "saveBot" /\ entry' = entry
      /\ job'[w].step = "liveBot" /\ job'[w].user = x /\ job'[w].body.bot = b
      /\ set'[x].bot = b /\ set'[x].excluded = set[x].excluded
      /\ \A v \in Users \ {x} : set'[v] = set[v]
      /\ rows' = Saved(x, c) \/ (rows' = rows /\ x \in crossed')
      /\ crossed \subseteq crossed' /\ (Copied(x, w) => x \in crossed')
  BY <1>1, <1>2, <1>3, SaveBotTyped
<1>5. \A v \in Workers \ {w} : job'[v] = job[v]
  BY OwnJob DEF SaveBot, AccountsTyped
<1>6. c.bot \in BOOLEAN /\ c.miles \in Nat /\ rows \in [Users -> Row]
  BY DEF Row, AccountsTyped
<1>7. /\ \A u \in Users : rows'[u].excluded = rows[u].excluded
      /\ \A u \in Users \ {x} : rows'[u] = rows[u]
      /\ x \notin crossed' => rows'[x].bot = c.bot
  <2>1. CASE rows' = rows /\ x \in crossed'
    BY <2>1
  <2>2. CASE rows' = Saved(x, c)
    BY <1>6, <2>2, SavedRow
  <2>3. QED
    BY <1>4, <2>1, <2>2
<1>8. OnlyFor(w, x)
  BY <1>4, <1>5, <1>7 DEF OnlyFor
<1>9. ASSUME x \notin crossed'
      PROVE  MarkOf(x)'
  <2>1. MarkOf(x) /\ ~Copied(x, w)
    BY <1>4, <1>9 DEF MarksInv
  <2>2. c.bot = b
    BY <1>2, <1>3, <1>4 DEF MarksInv, CopiesAreAsked
  <2>3. rows'[x].bot = b /\ set'[x].bot = b
    BY <1>4, <1>7, <1>9, <2>2
  <2>4. Setting(w, x)
    BY <1>1, <1>4 DEF Setting
  <2>5. \A v \in Workers \ {w} : ~Carries(v, x)' /\ ~Setting(v, x)' /\ ~Informing(v, x)'
    BY <1>5, <2>1, <2>4 DEF MarkOf, SettersAreAlone, Carries, Setting, Informing
  <2>6. ~Carries(w, x)' /\ Informing(w, x)'
    BY <1>4 DEF Carries, Informing
  <2>7. CopiesAgree(x)'
    BY <2>5, <2>6 DEF CopiesAgree
  <2>8. SettersAreAlone(x)'
    BY <2>5 DEF SettersAreAlone
  <2>9. InformedOfTheRow(x)'
    BY <1>4, <2>3, <2>5 DEF InformedOfTheRow
  <2>10. EntryAgrees(x)'
    BY <2>6 DEF EntryAgrees
  <2>11. QED
    BY <2>3, <2>7, <2>8, <2>9, <2>10 DEF MarkOf
<1>10. QED
  BY <1>4, <1>8, <1>9, MarksByOne

\* The entry is told.
LEMMA LiveBotKeepsMarks ==
  ASSUME AccountsTyped, MarksInv, NEW w \in Workers, LiveBot(w)
  PROVE  MarksInv'
<1>1. PICK x \in Users : x = job[w].user
  BY LiveBotTyped
<1>2. /\ job[w].step = "liveBot" /\ rows' = rows /\ set' = set
      /\ \A v \in Users \ {x} : entry'[v] = entry[v]
      /\ entry'[x] # NoEntry => entry'[x].bot = job[w].body.bot
      /\ job'[w].step = "exclude"
      /\ crossed' = IF Copied(x, w) THEN crossed \cup {x} ELSE crossed
  BY <1>1, LiveBotTyped
<1>3. \A v \in Workers \ {w} : job'[v] = job[v]
  BY OwnJob DEF LiveBot, AccountsTyped
<1>4. OnlyFor(w, x)
  BY <1>1, <1>2, <1>3 DEF OnlyFor
<1>5. ASSUME x \notin crossed'
      PROVE  MarkOf(x)'
  <2>1. MarkOf(x)
    BY <1>2, <1>5 DEF MarksInv
  <2>2. Setting(w, x) /\ Informing(w, x)
    BY <1>1, <1>2 DEF Setting, Informing
  <2>3. entry'[x] # NoEntry => entry'[x].bot = rows[x].bot
    BY <1>2, <2>1, <2>2 DEF MarkOf, InformedOfTheRow
  <2>4. \A v \in Workers \ {w} : ~Carries(v, x)' /\ ~Setting(v, x)' /\ ~Informing(v, x)'
    BY <1>3, <2>1, <2>2 DEF MarkOf, SettersAreAlone, Carries, Setting, Informing
  <2>5. ~Carries(w, x)' /\ ~Informing(w, x)' /\ ~Setting(w, x)'
    BY <1>2 DEF Carries, Informing, Setting
  <2>6. CopiesAgree(x)' /\ InformedOfTheRow(x)'
    BY <2>4, <2>5 DEF CopiesAgree, InformedOfTheRow
  <2>7. SettersAreAlone(x)'
    BY <2>4, <2>5 DEF SettersAreAlone
  <2>8. EntryAgrees(x)'
    BY <1>2, <2>3 DEF EntryAgrees
  <2>9. QED
    BY <1>2, <2>1, <2>6, <2>7, <2>8 DEF MarkOf
<1>6. QED
  BY <1>2, <1>4, <1>5, MarksByOne

\* The leaderboard reads, and its workers carry no viewer's copy.
LEMMA BoardKeepsMarks ==
  ASSUME AccountsTyped, MarksInv, NEW w \in Workers, BoardStep(w)
  PROVE  MarksInv'
<1>1. /\ rows' = rows /\ entry' = entry /\ set' = set /\ crossed' = crossed
      /\ job[w].step \in {"idle", "overlay", "measure"}
  BY DEF BoardStep, FetchLeaderboard, CopyLive, CurrentMiles, InstallLeaderboard, Busy
<1>2. job'[w].step \in {"idle", "overlay", "measure"}
  BY IdleJob, FetchTyped, CopyLiveTyped, CurrentMilesTyped, InstallTyped DEF BoardStep
<1>3. \A v \in Workers \ {w} : job'[v] = job[v]
  BY OwnJob DEF BoardStep, FetchLeaderboard, CopyLive, CurrentMiles, InstallLeaderboard, Rest, AccountsTyped
<1>4. CopiesAreAsked' /\ ExclusionStands'
  BY <1>1, <1>2, <1>3 DEF MarksInv, CopiesAreAsked, ExclusionStands
<1>5. ASSUME NEW u \in Users, u \notin crossed'
      PROVE  MarkOf(u)'
  <2>1. MarkOf(u)
    BY <1>1, <1>5 DEF MarksInv
  <2>2. ~Carries(w, u)' /\ ~Setting(w, u)' /\ ~Informing(w, u)
    BY <1>1, <1>2 DEF Carries, Setting, Informing
  <2>3. QED
    BY <1>1, <1>3, <2>1, <2>2, MarkUntouched
<1>6. QED
  BY <1>4, <1>5 DEF MarksInv

LEMMA SameKeepsMarks ==
  ASSUME MarksInv, UNCHANGED <<rows, entry, job, set, crossed>>
  PROVE  MarksInv'
BY DEF MarksInv, CopiesAreAsked, ExclusionStands, MarkOf, CopiesAgree, SettersAreAlone, InformedOfTheRow,
       EntryAgrees, Carries, Setting, Informing

LEMMA StepKeepsMarks ==
  ASSUME AccountsTyped, failures \in Nat, MarksInv, AccountsNext
  PROVE  MarksInv'
<1>1. ASSUME AccountsTick
      PROVE  MarksInv'
  BY <1>1, SameKeepsMarks DEF AccountsTick
<1>2. ASSUME NEW w \in Workers, IdStep(w)
      PROVE  MarksInv'
  BY <1>2, SpeaksTyped, StampIdTyped, MirrorIdTyped, QuietKeepsMarks DEF IdStep
<1>3. ASSUME NEW w \in Workers, FlagStep(w)
      PROVE  MarksInv'
  <2>1. CASE FindBot(w) /\ job[w].body.bot # Unset
    BY <2>1, FindBotKeepsMarks
  <2>2. CASE SaveBot(w) \/ LiveBot(w)
    BY <2>2, SaveBotKeepsMarks, LiveBotKeepsMarks
  <2>3. CASE \/ \E u \in Users, body \in Bodies : AskFlags(w, u, body)
             \/ GiveUp(w) \/ SetExclude(w) \/ LiveExclude(w) \/ SetStarred(w)
             \/ FindBot(w) /\ job[w].body.bot = Unset
    BY <2>3, FlagStepsTyped, QuietKeepsMarks
  <2>4. QED
    BY <1>3, <2>1, <2>2, <2>3 DEF FlagStep
<1>4. QED
  BY <1>1, <1>2, <1>3, SessionKeepsMarks, BoardKeepsMarks DEF AccountsNext

-----------------------------------------------------------------------------
(* The platform's ids *)

Known(i, u) == i = NoId \/ i \in took[u]
HoldsId(w) == job[w].step \in {"login", "publish", "stamp", "mirror"}
IdsInv ==
  /\ \A u \in Users : Known(rows[u].id, u) /\ (took[u] # {} => rows[u].id \in took[u])
  /\ \A u \in Users : entry[u] # NoEntry => Known(entry[u].id, u)
  /\ \A w \in Workers : HoldsId(w) => Known(job[w].copy.id, job[w].user)

\* A step of w that takes no id: the copies it makes are copies of what is known.
LEMMA NoneTaken ==
  ASSUME IdsInv, NEW w \in Workers, took' = took,
         \A v \in Workers \ {w} : job'[v] = job[v],
         \A u \in Users : rows'[u].id = rows[u].id,
         \A u \in Users : entry'[u] # NoEntry => Known(entry'[u].id, u),
         HoldsId(w)' => Known(job'[w].copy.id, job'[w].user)
  PROVE  IdsInv'
<1>1. \A u \in Users : Known(rows[u].id, u)' /\ (took'[u] # {} => rows'[u].id \in took'[u])
  BY DEF IdsInv, Known
<1>2. \A u \in Users : entry'[u] # NoEntry => Known(entry[u].id, u)'
  BY DEF Known
<1>3. \A v \in Workers : HoldsId(v)' => Known(job[v].copy.id, job[v].user)'
  BY DEF IdsInv, HoldsId, Known
<1>4. QED
  BY <1>1, <1>2, <1>3 DEF IdsInv

LEMMA SessionKeepsIds ==
  ASSUME AccountsTyped, IdsInv, NEW w \in Workers, SessionStep(w)
  PROVE  IdsInv'
<1>0. took' = took /\ \A v \in Workers \ {w} : job'[v] = job[v]
  BY OwnJob DEF SessionStep, FindForLogin, SaveLogin, PublishLogin, Logout, Checkpoint, WriteBack, Rest, AccountsTyped
<1>1. ASSUME NEW x \in Users, NEW id \in Ids \cup {NoId}, FindForLogin(w, x, id)
      PROVE  IdsInv'
  <2>1. job'[w].user = x /\ job'[w].copy.id = rows[x].id /\ rows' = rows /\ entry' = entry
    BY <1>1, FindForLoginTyped DEF FindForLogin
  <2>2. QED
    BY <1>0, <2>1, NoneTaken DEF IdsInv
<1>2. ASSUME SaveLogin(w) \/ WriteBack(w)
      PROVE  IdsInv'
  <2>1. /\ job[w].user \in Users /\ job[w].copy \in Entry
        /\ rows' = Saved(job[w].user, job[w].copy) \/ rows' = rows
        /\ job[w].step \in {"login", "save"} /\ job'[w].step \in {"publish", "idle"}
        /\ job'[w].step = "publish" =>
             job[w].step = "login" /\ job'[w].user = job[w].user /\ job'[w].copy = job[w].copy
    BY <1>2, SaveLoginTyped, WriteBackTyped, IdleJob
  <2>2. entry' = entry
    BY <1>2 DEF SaveLogin, WriteBack
  <2>3. PICK x \in Users, c \in Entry : x = job[w].user /\ c = job[w].copy
    BY <2>1
  <2>4. c.bot \in BOOLEAN /\ c.miles \in Nat /\ rows \in [Users -> Row]
    BY DEF Entry, AccountsTyped
  <2>5. CASE rows' = Saved(x, c)
    <3>1. \A u \in Users : rows'[u].id = rows[u].id
      BY <2>4, <2>5, SavedRow
    <3>2. HoldsId(w)' => Known(job'[w].copy.id, job'[w].user)
      BY <2>1 DEF IdsInv, HoldsId
    <3>3. QED
      BY <1>0, <2>2, <3>1, <3>2, NoneTaken DEF IdsInv
  <2>6. CASE rows' = rows
    <3>1. HoldsId(w)' => Known(job'[w].copy.id, job'[w].user)
      BY <2>1 DEF IdsInv, HoldsId
    <3>2. QED
      BY <1>0, <2>2, <2>6, <3>1, NoneTaken DEF IdsInv
  <2>7. QED
    BY <2>1, <2>3, <2>5, <2>6
<1>3. ASSUME PublishLogin(w)
      PROVE  IdsInv'
  <2>1. /\ job[w].user \in Users /\ entry' = [entry EXCEPT ![job[w].user] = job[w].copy]
        /\ job[w].step = "publish" /\ job'[w].step \in {"stamp", "idle"}
        /\ job'[w].step = "stamp" => job'[w].copy = job[w].copy /\ job'[w].user = job[w].user
    BY <1>3, PublishLoginTyped
  <2>2. Known(job[w].copy.id, job[w].user)
    BY <2>1 DEF IdsInv, HoldsId
  <2>3. \A u \in Users : entry'[u] # NoEntry => Known(entry'[u].id, u)
    BY <2>1, <2>2 DEF IdsInv, AccountsTyped
  <2>4. HoldsId(w)' => Known(job'[w].copy.id, job'[w].user)
    BY <2>1, <2>2 DEF HoldsId
  <2>5. rows' = rows
    BY <1>3 DEF PublishLogin
  <2>6. QED
    BY <1>0, <2>3, <2>4, <2>5, NoneTaken
<1>4. ASSUME NEW x \in Users, Logout(w, x) \/ Checkpoint(w, x)
      PROVE  IdsInv'
  <2>1. /\ job'[w].step = "save"
        /\ \/ entry' = [entry EXCEPT ![x] = NoEntry]
           \/ /\ entry' = [entry EXCEPT ![x] = entry'[x]] /\ entry'[x].id = entry[x].id
              /\ entry[x] # NoEntry
    BY <1>4, LogoutTyped, CheckpointTyped
  <2>2. rows' = rows
    BY <1>4 DEF Logout, Checkpoint
  <2>3. CASE entry' = [entry EXCEPT ![x] = NoEntry]
    <3>1. \A u \in Users : entry'[u] # NoEntry => entry'[u] = entry[u]
      BY <2>3 DEF AccountsTyped
    <3>2. QED
      BY <1>0, <2>1, <2>2, <3>1, NoneTaken DEF IdsInv, HoldsId
  <2>4. CASE entry' = [entry EXCEPT ![x] = entry'[x]] /\ entry'[x].id = entry[x].id /\ entry[x] # NoEntry
    <3>1. \A e : \A u \in Users \ {x} : [entry EXCEPT ![x] = e][u] = entry[u]
      BY DEF AccountsTyped
    <3>2. PICK e : e = entry'[x]
      OBVIOUS
    <3>3. \A u \in Users \ {x} : entry'[u] = entry[u]
      BY <2>4, <3>1, <3>2, ZenonT(60)
    <3>4. \A u \in Users : entry'[u] # NoEntry => Known(entry'[u].id, u)
      BY <2>4, <3>3 DEF IdsInv
    <3>5. QED
      BY <1>0, <2>1, <2>2, <3>4, NoneTaken DEF HoldsId
  <2>5. QED
    BY <2>1, <2>3, <2>4
<1>5. QED
  BY <1>1, <1>2, <1>3, <1>4 DEF SessionStep

LEMMA IdStepKeepsIds ==
  ASSUME AccountsTyped, IdsInv, NEW w \in Workers, IdStep(w)
  PROVE  IdsInv'
<1>1. ASSUME NEW x \in Users, NEW id \in Ids, Speaks(w, x, id)
      PROVE  IdsInv'
  <2>1. /\ entry[x] # NoEntry /\ rows' = rows /\ entry' = entry /\ took' = took
        /\ Become(w, [step |-> "stamp", user |-> x, id |-> id, copy |-> entry[x]])
    BY <1>1 DEF Speaks
  <2>2. /\ \A v \in Workers \ {w} : job'[v] = job[v]
        /\ job'[w].user = x /\ job'[w].copy = entry[x]
    BY <2>1, OwnJob DEF AccountsTyped
  <2>3. QED
    BY <2>1, <2>2, NoneTaken DEF IdsInv
<1>2. ASSUME StampId(w)
      PROVE  IdsInv'
  <2>1. PICK x \in Users, id \in Ids : x = job[w].user /\ id = job[w].id
    BY <1>2, StampIdTyped
  <2>2. /\ job[w].step = "stamp" /\ job'[w].step = "mirror" /\ job'[w].user = x /\ entry' = entry
        /\ \A v \in Users \ {x} : took'[v] = took[v] /\ rows'[v].id = rows[v].id
        /\ \/ job'[w].copy.id = job[w].copy.id /\ took' = took /\ rows' = rows
           \/ job'[w].copy.id = id /\ took'[x] = took[x] \cup {id} /\ rows'[x].id = id
    BY <1>2, <2>1, StampIdTyped
  <2>3. \A v \in Workers \ {w} : job'[v] = job[v]
    BY <1>2, StampIdTyped DEF Quietly
  <2>4. Known(job[w].copy.id, x)
    BY <2>1, <2>2 DEF IdsInv, HoldsId
  <2>5. CASE job'[w].copy.id = job[w].copy.id /\ took' = took /\ rows' = rows
    BY <2>2, <2>3, <2>4, <2>5, NoneTaken DEF IdsInv
  <2>6. CASE job'[w].copy.id = id /\ took'[x] = took[x] \cup {id} /\ rows'[x].id = id
    <3>1. \A u \in Users : took[u] \subseteq took'[u]
      BY <2>2, <2>6
    <3>2. \A u \in Users : Known(rows[u].id, u)' /\ (took'[u] # {} => rows'[u].id \in took'[u])
      BY <2>2, <2>6 DEF IdsInv, Known
    <3>3. \A u \in Users : entry'[u] # NoEntry => Known(entry[u].id, u)'
      BY <2>2, <3>1 DEF IdsInv, Known
    <3>4. \A v \in Workers \ {w} : HoldsId(v) => job[v].user \in Users
      BY JobKinds DEF AccountsTyped, HoldsId, LoginJobs, StampJobs
    <3>5. \A v \in Workers \ {w} : HoldsId(v)' => Known(job[v].copy.id, job[v].user)'
      BY <2>3, <3>1, <3>4 DEF IdsInv, HoldsId, Known
    <3>6. Known(job[w].copy.id, job[w].user)'
      BY <2>2, <2>6 DEF Known
    <3>7. QED
      BY <3>2, <3>3, <3>5, <3>6 DEF IdsInv
  <2>7. QED
    BY <2>2, <2>5, <2>6
<1>3. ASSUME MirrorId(w)
      PROVE  IdsInv'
  <2>1. PICK x \in Users : x = job[w].user
    BY <1>3, MirrorIdTyped
  <2>2. /\ job[w].step = "mirror" /\ rows' = rows /\ took' = took
        /\ \A v \in Users \ {x} : entry'[v] = entry[v]
        /\ entry'[x] # NoEntry => entry'[x].id = job[w].copy.id
        /\ job'[w].step = "idle"
    BY <1>3, <2>1, MirrorIdTyped, IdleJob
  <2>3. \A v \in Workers \ {w} : job'[v] = job[v]
    BY <1>3, MirrorIdTyped DEF Quietly
  <2>4. Known(job[w].copy.id, x)
    BY <2>1, <2>2 DEF IdsInv, HoldsId
  <2>5. \A u \in Users : entry'[u] # NoEntry => Known(entry'[u].id, u)
    BY <2>2, <2>4 DEF IdsInv
  <2>6. QED
    BY <2>2, <2>3, <2>5, NoneTaken DEF HoldsId
<1>4. QED
  BY <1>1, <1>2, <1>3 DEF IdStep

LEMMA FlagStepKeepsIds ==
  ASSUME AccountsTyped, failures \in Nat, IdsInv, NEW w \in Workers, FlagStep(w)
  PROVE  IdsInv'
<1>1. took' = took /\ \A v \in Workers \ {w} : job'[v] = job[v]
  BY OwnJob DEF FlagStep, AskFlags, GiveUp, FindBot, SaveBot, LiveBot, SetExclude, LiveExclude, SetStarred, Rest,
                AccountsTyped
<1>2. job'[w].step \in {"idle", "bot", "saveBot", "liveBot", "exclude", "liveExclude", "star"}
  <2>1. job \in [Workers -> Jobs]
    BY DEF AccountsTyped
  <2>2. ASSUME NEW u \in Users, NEW body \in Bodies, AskFlags(w, u, body)
        PROVE  job'[w].step = "bot"
    BY <2>1, <2>2, OwnJob DEF AskFlags
  <2>3. CASE GiveUp(w) \/ SetStarred(w)
    BY <2>1, <2>3, OwnJob, IdleJob DEF GiveUp, SetStarred, Rest
  <2>4. CASE FindBot(w) \/ SetExclude(w) \/ LiveExclude(w)
    <3>1. job[w].step \in {"bot", "exclude", "liveExclude"}
      BY <2>4 DEF FindBot, SetExclude, LiveExclude, Busy
    <3>2. job[w] \in FlagJobs
      BY <2>1, <3>1, JobKinds
    <3>3. \A s : [job[w] EXCEPT !.step = s].step = s
      BY <3>2 DEF FlagJobs
    <3>4. CASE FindBot(w) /\ job[w].body.bot # Unset
      BY <3>4, FindBotTyped
    <3>5. CASE FindBot(w) /\ job[w].body.bot = Unset
      <4>1. Become(w, [job[w] EXCEPT !.step = "exclude"])
        BY <3>5 DEF FindBot
      <4>2. job'[w] = [job[w] EXCEPT !.step = "exclude"]
        BY <2>1, <4>1, OwnJob
      <4>3. job'[w].step = "exclude"
        BY <3>3, <4>2
      <4>4. QED
        BY <4>3
    <3>6. CASE SetExclude(w)
      <4>1. \E s \in {"star", "liveExclude"} : Become(w, [job[w] EXCEPT !.step = s])
        BY <3>6 DEF SetExclude
      <4>2. PICK s \in {"star", "liveExclude"} : Become(w, [job[w] EXCEPT !.step = s])
        BY <4>1
      <4>3. job'[w] = [job[w] EXCEPT !.step = s]
        BY <2>1, <4>2, OwnJob
      <4>4. job'[w].step = s
        BY <3>3, <4>3
      <4>5. QED
        BY <4>2, <4>4
    <3>7. CASE LiveExclude(w)
      <4>1. Become(w, [job[w] EXCEPT !.step = "star"])
        BY <3>7 DEF LiveExclude
      <4>2. job'[w] = [job[w] EXCEPT !.step = "star"]
        BY <2>1, <4>1, OwnJob
      <4>3. job'[w].step = "star"
        BY <3>3, <4>2
      <4>4. QED
        BY <4>3
    <3>8. QED
      BY <2>4, <3>4, <3>5, <3>6, <3>7
  <2>5. CASE SaveBot(w) \/ LiveBot(w)
    BY <2>1, <2>5, OwnJob DEF SaveBot, LiveBot
  <2>6. QED
    BY <2>2, <2>3, <2>4, <2>5 DEF FlagStep
<1>3. ~HoldsId(w)'
  BY <1>2 DEF HoldsId
<1>4. CASE \/ \E u \in Users, body \in Bodies : AskFlags(w, u, body)
           \/ GiveUp(w) \/ SetExclude(w) \/ LiveExclude(w) \/ SetStarred(w)
           \/ FindBot(w) /\ job[w].body.bot = Unset
  BY <1>1, <1>3, <1>4, FlagStepsTyped, NoneTaken DEF IdsInv
<1>5. CASE FindBot(w) /\ job[w].body.bot # Unset
  <2>1. rows' = rows /\ entry' = entry
    BY <1>5, FindBotTyped
  <2>2. QED
    BY <1>1, <1>3, <2>1, NoneTaken DEF IdsInv
<1>6. CASE SaveBot(w)
  <2>1. PICK x \in Users, c \in Row : x = job[w].user /\ c = job[w].copy
    BY <1>6, SaveBotTyped
  <2>2. entry' = entry /\ (rows' = Saved(x, c) \/ rows' = rows)
    BY <1>6, <2>1, SaveBotTyped
  <2>3. c.bot \in BOOLEAN /\ c.miles \in Nat /\ rows \in [Users -> Row]
    BY DEF Row, AccountsTyped
  <2>4. \A u \in Users : rows'[u].id = rows[u].id
    BY <2>2, <2>3, SavedRow
  <2>5. QED
    BY <1>1, <1>3, <2>2, <2>4, NoneTaken DEF IdsInv
<1>7. CASE LiveBot(w)
  <2>1. PICK x \in Users : x = job[w].user
    BY <1>7, LiveBotTyped
  <2>2. /\ rows' = rows /\ \A v \in Users \ {x} : entry'[v] = entry[v]
        /\ entry'[x] # NoEntry => entry[x] # NoEntry /\ entry'[x].id = entry[x].id
    BY <1>7, <2>1, LiveBotTyped
  <2>3. \A u \in Users : entry'[u] # NoEntry => Known(entry'[u].id, u)
    BY <2>2 DEF IdsInv
  <2>4. QED
    BY <1>1, <1>3, <2>2, <2>3, NoneTaken
<1>8. QED
  BY <1>4, <1>5, <1>6, <1>7 DEF FlagStep

LEMMA SameKeepsIds ==
  ASSUME IdsInv, UNCHANGED <<rows, entry, job, took>>
  PROVE  IdsInv'
BY DEF IdsInv, Known, HoldsId

LEMMA StepKeepsIds ==
  ASSUME AccountsTyped, failures \in Nat, IdsInv, AccountsNext
  PROVE  IdsInv'
<1>1. CASE AccountsTick
  BY <1>1, SameKeepsIds DEF AccountsTick
<1>2. ASSUME NEW w \in Workers, BoardStep(w)
      PROVE  IdsInv'
  <2>1. rows' = rows /\ entry' = entry /\ took' = took
    BY <1>2 DEF BoardStep, FetchLeaderboard, CopyLive, CurrentMiles, InstallLeaderboard
  <2>2. job'[w].step \in {"idle", "overlay", "measure"}
    BY <1>2, IdleJob, FetchTyped, CopyLiveTyped, CurrentMilesTyped, InstallTyped DEF BoardStep
  <2>3. \A v \in Workers \ {w} : job'[v] = job[v]
    BY <1>2, OwnJob
       DEF BoardStep, FetchLeaderboard, CopyLive, CurrentMiles, InstallLeaderboard, Rest, AccountsTyped
  <2>4. ~HoldsId(w)'
    BY <2>2 DEF HoldsId
  <2>5. QED
    BY <2>1, <2>3, <2>4, NoneTaken DEF IdsInv
<1>3. QED
  BY <1>1, <1>2, SessionKeepsIds, IdStepKeepsIds, FlagStepKeepsIds DEF AccountsNext
-----------------------------------------------------------------------------
(* The miles *)

LogsIn(w, u) == job[w].step \in {"login", "publish"} /\ job[w].user = u
Saves(w, u) == job[w].step \in {"save", "saveBot"} /\ job[w].user = u
Shows(w) == job[w].step \in {"overlay", "measure"}
MeasuresFor(w, u) == job[w].step = "measure" /\ job[w].user = u

\* A copy holds no more than the time up to what it has banked.
Earned(e) == e.miles <= e.since + e.banked

\* What is known of a viewer whom two goroutines never logged in at once: a
\* login's copy is the only one of its session, and a measurement in flight was
\* taken before whatever session is going on or about to start.
EntryEarned(u) ==
  entry[u] # NoEntry => Earned(entry[u]) /\ \A w \in Workers : ~LogsIn(w, u)
LoginsEarned(u) ==
  \A w \in Workers : LogsIn(w, u) =>
    /\ job[w].copy.miles <= job[w].copy.since /\ job[w].copy.banked = 0
    /\ \A v \in Workers \ {w} : ~LogsIn(v, u)
SavesEarned(u) == \A w \in Workers : Saves(w, u) => job[w].copy.miles <= now
ShownEarned(u) == \A w \in Workers : Shows(w) => job[w].shown[u] <= now
MeasuresEarned(u) ==
  \A w \in Workers : MeasuresFor(w, u) =>
    /\ job[w].miles <= now
    /\ entry[u] # NoEntry => job[w].miles <= entry[u].since + entry[u].banked
    /\ \A v \in Workers : LogsIn(v, u) => job[w].miles <= job[v].copy.since
MilesOf(u) ==
  /\ rows[u].miles <= now /\ board[u] <= now
  /\ EntryEarned(u) /\ LoginsEarned(u) /\ SavesEarned(u) /\ ShownEarned(u) /\ MeasuresEarned(u)
MilesInv == \A u \in Users \ twice : MilesOf(u)

\* What w has to show for its step, whoever the viewer is.
LEMMA MilesKept ==
  ASSUME NEW u \in Users, NEW w \in Workers, MilesOf(u), now' = now,
         \A v \in Workers \ {w} : job'[v] = job[v],
         rows'[u].miles <= now, board'[u] <= now,
         entry'[u] # NoEntry =>
           /\ Earned(entry'[u]) /\ ~LogsIn(w, u)' /\ \A v \in Workers \ {w} : ~LogsIn(v, u),
         LogsIn(w, u)' =>
           /\ job'[w].copy.miles <= job'[w].copy.since /\ job'[w].copy.banked = 0
           /\ \A v \in Workers \ {w} : ~LogsIn(v, u),
         Saves(w, u)' => job'[w].copy.miles <= now,
         Shows(w)' => job'[w].shown[u] <= now,
         MeasuresFor(w, u)' =>
           /\ job'[w].miles <= now /\ ~LogsIn(w, u)' /\ \A v \in Workers \ {w} : ~LogsIn(v, u)
           /\ entry'[u] # NoEntry => job'[w].miles <= entry'[u].since + entry'[u].banked,
         \A v \in Workers \ {w} : MeasuresFor(v, u) =>
           /\ entry'[u] # NoEntry => job[v].miles <= entry'[u].since + entry'[u].banked
           /\ LogsIn(w, u)' => job[v].miles <= job'[w].copy.since
  PROVE  MilesOf(u)'
<1>1. \A v \in Workers \ {w} : /\ LogsIn(v, u)' <=> LogsIn(v, u)
                               /\ Saves(v, u)' <=> Saves(v, u)
                               /\ Shows(v)' <=> Shows(v)
                               /\ MeasuresFor(v, u)' <=> MeasuresFor(v, u)
  BY DEF LogsIn, Saves, Shows, MeasuresFor
<1>2. EntryEarned(u)'
  <2>1. Earned(entry'[u]) <=> Earned(entry[u])'
    BY DEF Earned
  <2>2. QED
    BY <1>1, <2>1 DEF EntryEarned
<1>3. LoginsEarned(u)'
  <2>1. ASSUME NEW v \in Workers, LogsIn(v, u)'
        PROVE  /\ job'[v].copy.miles <= job'[v].copy.since /\ job'[v].copy.banked = 0
               /\ \A o \in Workers \ {v} : ~LogsIn(o, u)'
    <3>1. CASE v = w
      BY <1>1, <2>1, <3>1
    <3>2. CASE v # w
      <4>1. LogsIn(v, u) /\ ~LogsIn(w, u)'
        BY <1>1, <2>1, <3>2
      <4>2. QED
        BY <1>1, <3>2, <4>1 DEF MilesOf, LoginsEarned
    <3>3. QED
      BY <3>1, <3>2
  <2>2. QED
    BY <2>1 DEF LoginsEarned
<1>4. SavesEarned(u)'
  BY <1>1 DEF MilesOf, SavesEarned
<1>5. ShownEarned(u)'
  BY <1>1 DEF MilesOf, ShownEarned
<1>6. MeasuresEarned(u)'
  <2>1. ASSUME NEW v \in Workers, MeasuresFor(v, u)'
        PROVE  /\ job'[v].miles <= now'
               /\ entry'[u] # NoEntry => job'[v].miles <= entry'[u].since + entry'[u].banked
               /\ \A o \in Workers : LogsIn(o, u)' => job'[v].miles <= job'[o].copy.since
    <3>1. CASE v = w
      BY <1>1, <2>1, <3>1
    <3>2. CASE v # w
      <4>1. MeasuresFor(v, u) /\ job'[v] = job[v]
        BY <1>1, <2>1, <3>2
      <4>2. job[v].miles <= now /\ \A o \in Workers : LogsIn(o, u) => job[v].miles <= job[o].copy.since
        BY <4>1 DEF MilesOf, MeasuresEarned
      <4>3. \A o \in Workers \ {w} : LogsIn(o, u)' => job[v].miles <= job'[o].copy.since
        BY <1>1, <4>2
      <4>4. QED
        BY <3>2, <4>1, <4>2, <4>3
    <3>3. QED
      BY <3>1, <3>2
  <2>2. QED
    BY <2>1 DEF MeasuresEarned
<1>7. QED
  BY <1>2, <1>3, <1>4, <1>5, <1>6 DEF MilesOf

\* A step that neither starts nor ends anything for this viewer.
LEMMA MilesUntouched ==
  ASSUME NEW u \in Users, NEW w \in Workers, MilesOf(u), now' = now,
         \A v \in Workers \ {w} : job'[v] = job[v],
         rows'[u].miles <= now, board'[u] <= now, SameEntry(u),
         ~LogsIn(w, u)', ~MeasuresFor(w, u)',
         Saves(w, u)' => job'[w].copy.miles <= now,
         Shows(w)' => job'[w].shown[u] <= now
  PROVE  MilesOf(u)'
<1>1. ASSUME entry'[u] # NoEntry
      PROVE  /\ Earned(entry'[u]) /\ \A v \in Workers \ {w} : ~LogsIn(v, u)
             /\ \A v \in Workers \ {w} : MeasuresFor(v, u) =>
                  job[v].miles <= entry'[u].since + entry'[u].banked
  BY <1>1 DEF SameEntry, MilesOf, EntryEarned, MeasuresEarned, Earned
<1>2. QED
  BY <1>1, MilesKept
LEMMA Within ==
  ASSUME NEW a \in Nat, NEW s \in Nat, NEW b \in Nat, NEW k \in Nat, NEW n \in Nat,
         a <= s + b, s + b + k = n
  PROVE  a <= n /\ a + k <= n /\ a + k <= s + (b + k) /\ a <= s + (b + k)
OBVIOUS

LEMMA WithinCopy ==
  ASSUME NEW a \in Nat, NEW s \in Nat, NEW b \in Nat, NEW n \in Nat, a <= s, b = 0, s + b <= n
  PROVE  a <= n /\ a <= s + b /\ s <= n /\ s + b = s
OBVIOUS

LEMMA FindKeepsMiles ==
  ASSUME AccountsTyped, NEW w \in Workers, NEW u \in Users, MilesOf(u), u \notin twice',
         NEW x \in Users, NEW id \in Ids \cup {NoId}, FindForLogin(w, x, id)
  PROVE  MilesOf(u)'
<1>1. /\ job'[w].step = "login" /\ job'[w].user = x /\ job'[w].copy.miles = rows[x].miles
      /\ job'[w].copy.since = now /\ job'[w].copy.banked = 0
  BY FindForLoginTyped
<1>2. /\ entry[x] = NoEntry /\ rows' = rows /\ entry' = entry /\ board' = board /\ now' = now
      /\ twice' = IF LoggingIn(x, w) THEN twice \cup {x} ELSE twice
  BY DEF FindForLogin
<1>3. \A v \in Workers \ {w} : job'[v] = job[v]
  BY OwnJob DEF FindForLogin, AccountsTyped
<1>4. ~Saves(w, u)' /\ ~Shows(w)' /\ ~MeasuresFor(w, u)' /\ (LogsIn(w, u)' => u = x)
  BY <1>1 DEF Saves, Shows, MeasuresFor, LogsIn
<1>5. rows'[u].miles <= now /\ board'[u] <= now
  BY <1>2 DEF MilesOf
<1>6. CASE u # x
  BY <1>2, <1>3, <1>4, <1>5, <1>6, MilesUntouched DEF SameEntry
<1>7. CASE u = x
  <2>1. \A v \in Workers \ {w} : ~LogsIn(v, u)
    BY <1>2, <1>7 DEF LoggingIn, LogsIn
  <2>2. job'[w].copy.miles <= job'[w].copy.since
    BY <1>1, <1>7 DEF MilesOf
  <2>3. \A v \in Workers \ {w} : MeasuresFor(v, u) => job[v].miles <= job'[w].copy.since
    BY <1>1 DEF MilesOf, MeasuresEarned
  <2>4. entry'[u] = NoEntry
    BY <1>2, <1>7
  <2>5. QED
    BY <1>1, <1>2, <1>3, <1>4, <1>5, <2>1, <2>2, <2>3, <2>4, MilesKept
<1>8. QED
  BY <1>6, <1>7

LEMMA SaveKeepsMiles ==
  ASSUME AccountsTyped, NEW w \in Workers, NEW u \in Users, MilesOf(u), SaveLogin(w) \/ WriteBack(w)
  PROVE  MilesOf(u)'
<1>1. /\ job[w].user \in Users /\ job[w].copy \in Entry
      /\ rows' = Saved(job[w].user, job[w].copy) \/ rows' = rows
      /\ \/ /\ job[w].step = "login" /\ job'[w].step = "publish"
            /\ job'[w].user = job[w].user /\ job'[w].copy = job[w].copy
         \/ job[w].step = "save" /\ job'[w].step = "idle"
  BY SaveLoginTyped, WriteBackTyped, IdleJob
<1>2. entry' = entry /\ board' = board /\ now' = now
  BY DEF SaveLogin, WriteBack
<1>3. \A v \in Workers \ {w} : job'[v] = job[v]
  BY OwnJob DEF SaveLogin, WriteBack, Rest, AccountsTyped
<1>4. PICK x \in Users, c \in Entry : x = job[w].user /\ c = job[w].copy
  BY <1>1
<1>5. /\ c.bot \in BOOLEAN /\ c.miles \in Nat /\ c.since \in Nat /\ c.banked \in Nat
      /\ rows \in [Users -> Row] /\ now \in Nat
  BY DEF Entry, AccountsTyped
<1>6. u = x => c.miles <= now
  <2>1. CASE job[w].step = "save"
    BY <1>4, <2>1 DEF MilesOf, SavesEarned, Saves
  <2>2. CASE job[w].step = "login" /\ u = x
    <3>1. c.miles <= c.since /\ c.banked = 0
      BY <1>4, <2>2 DEF MilesOf, LoginsEarned, LogsIn
    <3>2. c.since + c.banked <= now
      BY <1>4, <2>2 DEF AccountsTyped, Past
    <3>3. QED
      BY <1>5, <3>1, <3>2, WithinCopy
  <2>3. QED
    BY <1>1, <2>1, <2>2
<1>7. rows'[u].miles <= now
  <2>1. CASE rows' = rows
    BY <2>1 DEF MilesOf
  <2>2. CASE rows' = Saved(x, c) /\ u = x
    BY <1>5, <1>6, <2>2, SavedRow
  <2>3. CASE rows' = Saved(x, c) /\ u # x
    <3>1. rows'[u] = rows[u]
      BY <1>5, <2>3, SavedRow
    <3>2. QED
      BY <3>1 DEF MilesOf
  <2>4. QED
    BY <1>1, <1>4, <2>1, <2>2, <2>3
<1>8. ~Saves(w, u)' /\ ~Shows(w)' /\ ~MeasuresFor(w, u)' /\ board'[u] <= now
  BY <1>1, <1>2 DEF Saves, Shows, MeasuresFor, MilesOf
<1>9. CASE ~LogsIn(w, u)'
  BY <1>2, <1>3, <1>7, <1>8, <1>9, MilesUntouched DEF SameEntry
<1>10. CASE LogsIn(w, u)'
  <2>1. LogsIn(w, u) /\ job'[w].copy = job[w].copy
    BY <1>1, <1>10 DEF LogsIn
  <2>2. /\ job'[w].copy.miles <= job'[w].copy.since /\ job'[w].copy.banked = 0
        /\ \A v \in Workers \ {w} : ~LogsIn(v, u)
    BY <2>1 DEF MilesOf, LoginsEarned
  <2>3. entry'[u] = NoEntry
    BY <1>2, <2>1 DEF MilesOf, EntryEarned
  <2>4. \A v \in Workers \ {w} : MeasuresFor(v, u) => job[v].miles <= job'[w].copy.since
    BY <2>1 DEF MilesOf, MeasuresEarned
  <2>5. QED
    BY <1>2, <1>3, <1>7, <1>8, <2>2, <2>3, <2>4, MilesKept
<1>11. QED
  BY <1>9, <1>10

LEMMA PublishKeepsMiles ==
  ASSUME AccountsTyped, NEW w \in Workers, NEW u \in Users, MilesOf(u), PublishLogin(w)
  PROVE  MilesOf(u)'
<1>1. /\ job[w].user \in Users /\ job[w].copy \in Entry /\ job[w].step = "publish"
      /\ entry' = [entry EXCEPT ![job[w].user] = job[w].copy]
      /\ job'[w].step \in {"stamp", "idle"}
  BY PublishLoginTyped
<1>2. rows' = rows /\ board' = board /\ now' = now
  BY DEF PublishLogin
<1>3. \A v \in Workers \ {w} : job'[v] = job[v]
  BY OwnJob DEF PublishLogin, Rest, AccountsTyped
<1>4. /\ ~Saves(w, u)' /\ ~Shows(w)' /\ ~MeasuresFor(w, u)' /\ ~LogsIn(w, u)'
      /\ rows'[u].miles <= now /\ board'[u] <= now
  BY <1>1, <1>2 DEF Saves, Shows, MeasuresFor, LogsIn, MilesOf
<1>5. CASE u # job[w].user
  <2>1. entry'[u] = entry[u]
    BY <1>1, <1>5 DEF AccountsTyped
  <2>2. QED
    BY <1>2, <1>3, <1>4, <2>1, MilesUntouched DEF SameEntry
<1>6. CASE u = job[w].user
  <2>1. LogsIn(w, u)
    BY <1>1, <1>6 DEF LogsIn
  <2>2. PICK c \in Entry : c = job[w].copy
    BY <1>1
  <2>3. entry'[u] = c
    BY <1>1, <1>6, <2>2 DEF AccountsTyped
  <2>4. c.miles <= c.since /\ c.banked = 0 /\ \A v \in Workers \ {w} : ~LogsIn(v, u)
    BY <2>1, <2>2 DEF MilesOf, LoginsEarned
  <2>5. c.miles \in Nat /\ c.since \in Nat /\ c.banked \in Nat
    BY DEF Entry
  <2>6. c.miles <= c.since + c.banked /\ c.since + c.banked = c.since
    BY <2>4, <2>5
  <2>7. \A v \in Workers \ {w} : MeasuresFor(v, u) => job[v].miles <= c.since + c.banked
    BY <2>1, <2>2, <2>6 DEF MilesOf, MeasuresEarned
  <2>8. Earned(entry'[u])
    BY <2>3, <2>6 DEF Earned
  <2>9. QED
    BY <1>2, <1>3, <1>4, <2>3, <2>4, <2>7, <2>8, MilesKept
<1>7. QED
  BY <1>5, <1>6

LEMMA LogoutKeepsMiles ==
  ASSUME AccountsTyped, NEW w \in Workers, NEW u \in Users, MilesOf(u), NEW x \in Users, Logout(w, x)
  PROVE  MilesOf(u)'
<1>1. /\ entry[x] # NoEntry /\ entry' = [entry EXCEPT ![x] = NoEntry]
      /\ job'[w].step = "save" /\ job'[w].user = x /\ job'[w].copy.miles = entry[x].miles + InFlight(entry[x])
  BY LogoutTyped
<1>2. rows' = rows /\ board' = board /\ now' = now
  BY DEF Logout
<1>3. \A v \in Workers \ {w} : job'[v] = job[v]
  BY OwnJob DEF Logout, AccountsTyped
<1>4. /\ ~Shows(w)' /\ ~MeasuresFor(w, u)' /\ ~LogsIn(w, u)' /\ (Saves(w, u)' => u = x)
      /\ rows'[u].miles <= now /\ board'[u] <= now
  BY <1>1, <1>2 DEF Saves, Shows, MeasuresFor, LogsIn, MilesOf
<1>5. Saves(w, u)' => job'[w].copy.miles <= now
  <2>1. SUFFICES ASSUME u = x PROVE entry[x].miles + InFlight(entry[x]) <= now
    BY <1>1, <1>4
  <2>2. entry[x].miles <= entry[x].since + entry[x].banked
    BY <1>1, <2>1 DEF MilesOf, EntryEarned, Earned
  <2>3. QED
    BY <1>1, <2>2, Measures, Within
<1>6. SameEntry(u)
  BY <1>1 DEF SameEntry, AccountsTyped
<1>7. QED
  BY <1>2, <1>3, <1>4, <1>5, <1>6, MilesUntouched

LEMMA CheckpointKeepsMiles ==
  ASSUME AccountsTyped, NEW w \in Workers, NEW u \in Users, MilesOf(u), NEW x \in Users, Checkpoint(w, x)
  PROVE  MilesOf(u)'
<1>1. /\ entry[x] # NoEntry /\ entry'[x] \in Entry /\ entry' = [entry EXCEPT ![x] = entry'[x]]
      /\ entry'[x].since = entry[x].since /\ entry'[x].miles = entry[x].miles + InFlight(entry[x])
      /\ entry'[x].banked = entry[x].banked + InFlight(entry[x])
      /\ job'[w].step = "save" /\ job'[w].user = x /\ job'[w].copy = entry'[x]
  BY CheckpointTyped
<1>2. rows' = rows /\ board' = board /\ now' = now
  BY DEF Checkpoint
<1>3. \A v \in Workers \ {w} : job'[v] = job[v]
  BY OwnJob DEF Checkpoint, AccountsTyped
<1>4. /\ ~Shows(w)' /\ ~MeasuresFor(w, u)' /\ ~LogsIn(w, u)' /\ (Saves(w, u)' => u = x)
      /\ rows'[u].miles <= now /\ board'[u] <= now
  BY <1>1, <1>2 DEF Saves, Shows, MeasuresFor, LogsIn, MilesOf
<1>5. CASE u # x
  <2>1. \A e : [entry EXCEPT ![x] = e][u] = entry[u]
    BY <1>5 DEF AccountsTyped
  <2>2. PICK e : e = entry'[x]
    OBVIOUS
  <2>3. entry' = [entry EXCEPT ![x] = e]
    BY <1>1, <2>2
  <2>4. entry'[u] = entry[u]
    BY <2>1, <2>3
  <2>5. QED
    BY <1>2, <1>3, <1>4, <1>5, <2>4, MilesUntouched DEF SameEntry
<1>6. CASE u = x
  <2>1. PICK a \in Nat, s \in Nat, b \in Nat, k \in Nat :
          a = entry[x].miles /\ s = entry[x].since /\ b = entry[x].banked /\ k = InFlight(entry[x])
    BY <1>1, Measures
  <2>2. s + b + k = now /\ now \in Nat
    BY <1>1, <2>1, Measures
  <2>3. a <= s + b /\ \A v \in Workers \ {w} : ~LogsIn(v, u)
    BY <1>1, <1>6, <2>1 DEF MilesOf, EntryEarned, Earned
  <2>4. entry'[u].miles = a + k /\ entry'[u].since = s /\ entry'[u].banked = b + k
    BY <1>1, <1>6, <2>1
  <2>5. Earned(entry'[u]) /\ entry'[u].miles <= now
    BY <2>2, <2>3, <2>4, Within DEF Earned
  <2>6. \A v \in Workers \ {w} : MeasuresFor(v, u) => job[v].miles <= entry'[u].since + entry'[u].banked
    <3>1. SUFFICES ASSUME NEW v \in Workers, MeasuresFor(v, u) PROVE job[v].miles <= s + (b + k)
      BY <2>4
    <3>2. job[v].miles <= s + b
      BY <1>1, <1>6, <2>1, <3>1 DEF MilesOf, MeasuresEarned
    <3>3. job[v].miles \in Nat
      BY <3>1, JobKinds DEF AccountsTyped, MeasuresFor, MeasureJobs
    <3>4. QED
      BY <2>2, <3>2, <3>3, Within
  <2>7. Saves(w, u)' => job'[w].copy.miles <= now
    BY <1>1, <1>6, <2>5
  <2>8. QED
    BY <1>2, <1>3, <1>4, <2>3, <2>5, <2>6, <2>7, MilesKept
<1>7. QED
  BY <1>5, <1>6
LEMMA QuietKeepsMiles ==
  ASSUME AccountsTyped, NEW w \in Workers, NEW u \in Users, MilesOf(u), Quietly(w)
  PROVE  MilesOf(u)'
<1>1. /\ ~Saves(w, u)' /\ ~Shows(w)' /\ ~MeasuresFor(w, u)' /\ ~LogsIn(w, u)'
  BY DEF Quietly, Elsewhere, Saves, Shows, MeasuresFor, LogsIn
<1>2. rows'[u].miles <= now /\ board'[u] <= now /\ SameEntry(u) /\ now' = now
  BY DEF Quietly, SameRow, MilesOf
<1>3. \A v \in Workers \ {w} : job'[v] = job[v]
  BY DEF Quietly
<1>4. QED
  BY <1>1, <1>2, <1>3, MilesUntouched

LEMMA BotKeepsMiles ==
  ASSUME AccountsTyped, failures \in Nat, NEW w \in Workers, NEW u \in Users, MilesOf(u),
         \/ FindBot(w) /\ job[w].body.bot # Unset
         \/ SaveBot(w) \/ LiveBot(w)
  PROVE  MilesOf(u)'
<1>1. board' = board /\ now' = now
  BY DEF FindBot, SaveBot, LiveBot
<1>2. \A v \in Workers \ {w} : job'[v] = job[v]
  BY OwnJob DEF FindBot, SaveBot, LiveBot, AccountsTyped
<1>3. job'[w].step \in {"saveBot", "liveBot", "exclude"}
  BY FindBotTyped, SaveBotTyped, LiveBotTyped
<1>4. ~Shows(w)' /\ ~MeasuresFor(w, u)' /\ ~LogsIn(w, u)' /\ board'[u] <= now
  BY <1>1, <1>3 DEF Shows, MeasuresFor, LogsIn, MilesOf
<1>5. CASE FindBot(w) /\ job[w].body.bot # Unset
  <2>1. rows' = rows /\ entry' = entry /\ job'[w].user = job[w].user /\ job'[w].copy.miles = rows[job[w].user].miles
    BY <1>5, FindBotTyped
  <2>2. Saves(w, u)' => job'[w].copy.miles <= now
    BY <2>1 DEF Saves, MilesOf
  <2>3. QED
    BY <1>1, <1>2, <1>4, <2>1, <2>2, MilesUntouched DEF SameEntry, MilesOf
<1>6. CASE SaveBot(w)
  <2>1. PICK x \in Users, c \in Row : x = job[w].user /\ c = job[w].copy
    BY <1>6, SaveBotTyped
  <2>2. /\ job[w].step = "saveBot" /\ entry' = entry /\ job'[w].step = "liveBot"
        /\ rows' = Saved(x, c) \/ rows' = rows
    BY <1>6, <2>1, SaveBotTyped
  <2>3. c.bot \in BOOLEAN /\ c.miles \in Nat /\ rows \in [Users -> Row]
    BY DEF Row, AccountsTyped
  <2>4. u = x => c.miles <= now
    BY <2>1, <2>2 DEF MilesOf, SavesEarned, Saves
  <2>5. rows'[u].miles <= now
    <3>1. rows'[u] = rows[u] \/ (u = x /\ rows'[u].miles = c.miles)
      BY <2>2, <2>3, SavedRow
    <3>2. QED
      BY <2>4, <3>1 DEF MilesOf
  <2>6. ~Saves(w, u)'
    BY <2>2 DEF Saves
  <2>7. QED
    BY <1>1, <1>2, <1>4, <2>2, <2>5, <2>6, MilesUntouched DEF SameEntry
<1>7. CASE LiveBot(w)
  <2>1. PICK x \in Users : x = job[w].user
    BY <1>7, LiveBotTyped
  <2>2. /\ rows' = rows /\ \A v \in Users \ {x} : entry'[v] = entry[v]
        /\ entry'[x] # NoEntry =>
             /\ entry[x] # NoEntry /\ entry'[x].bot = job[w].body.bot
             /\ entry'[x].miles = entry[x].miles /\ entry'[x].since = entry[x].since
             /\ entry'[x].banked = entry[x].banked
        /\ job'[w].step = "exclude" /\ job[w].step = "liveBot"
    BY <1>7, <2>1, LiveBotTyped
  <2>3. ~Saves(w, u)' /\ rows'[u].miles <= now
    BY <2>2 DEF Saves, MilesOf
  <2>4. entry'[u] # NoEntry =>
          /\ entry[u] # NoEntry /\ entry'[u].miles = entry[u].miles /\ entry'[u].since = entry[u].since
          /\ entry'[u].banked = entry[u].banked
    BY <2>2
  <2>5. entry'[u] # NoEntry =>
           /\ Earned(entry'[u]) /\ \A v \in Workers \ {w} : ~LogsIn(v, u)
           /\ \A v \in Workers \ {w} : MeasuresFor(v, u) =>
                job[v].miles <= entry'[u].since + entry'[u].banked
    BY <2>4 DEF MilesOf, EntryEarned, MeasuresEarned, Earned
  <2>6. QED
    BY <1>1, <1>2, <1>4, <2>3, <2>5, MilesKept
<1>8. QED
  BY <1>5, <1>6, <1>7

LEMMA BoardKeepsMiles ==
  ASSUME AccountsTyped, NEW w \in Workers, NEW u \in Users, MilesOf(u), BoardStep(w)
  PROVE  MilesOf(u)'
<1>1. rows' = rows /\ entry' = entry /\ now' = now /\ SameEntry(u) /\ rows'[u].miles <= now
  BY DEF BoardStep, FetchLeaderboard, CopyLive, CurrentMiles, InstallLeaderboard, SameEntry, MilesOf
<1>2. \A v \in Workers \ {w} : job'[v] = job[v]
  BY OwnJob DEF BoardStep, FetchLeaderboard, CopyLive, CurrentMiles, InstallLeaderboard, Rest, AccountsTyped
<1>3. job'[w].step \in {"idle", "overlay", "measure"}
  BY IdleJob, FetchTyped, CopyLiveTyped, CurrentMilesTyped, InstallTyped DEF BoardStep
<1>4. ~Saves(w, u)' /\ ~LogsIn(w, u)'
  BY <1>3 DEF Saves, LogsIn
<1>5. CASE FetchLeaderboard(w)
  <2>1. /\ job'[w].step = "overlay" /\ board' = board /\ rows[u].miles \in Nat /\ now \in Nat
        /\ job'[w].shown[u] = rows[u].miles \/ job'[w].shown[u] = 0
    BY <1>5, FetchTyped DEF FetchLeaderboard, AccountsTyped, Row
  <2>2. job'[w].shown[u] <= now /\ board'[u] <= now
    BY <2>1 DEF MilesOf
  <2>3. ~MeasuresFor(w, u)'
    BY <2>1 DEF MeasuresFor
  <2>4. QED
    BY <1>1, <1>2, <1>4, <2>2, <2>3, MilesUntouched
<1>6. ASSUME NEW x \in Users, CopyLive(w, x)
      PROVE  MilesOf(u)'
  <2>1. /\ job[w].step = "overlay" /\ board' = board /\ job'[w].shown = job[w].shown
        /\ job'[w].step = "measure" =>
             entry[x] # NoEntry /\ job'[w].user = x /\ job'[w].miles = entry[x].miles
    BY <1>6, CopyLiveTyped DEF CopyLive
  <2>2. job'[w].shown[u] <= now /\ board'[u] <= now
    BY <2>1 DEF MilesOf, ShownEarned, Shows
  <2>3. CASE ~MeasuresFor(w, u)'
    BY <1>1, <1>2, <1>4, <2>2, <2>3, MilesUntouched
  <2>4. CASE MeasuresFor(w, u)'
    <3>1. entry[u] # NoEntry /\ job'[w].miles = entry[u].miles
      BY <2>1, <2>4 DEF MeasuresFor
    <3>2. entry[u].miles <= entry[u].since + entry[u].banked /\ \A v \in Workers : ~LogsIn(v, u)
      BY <3>1 DEF MilesOf, EntryEarned, Earned
    <3>3. entry[u].miles <= now
      BY <3>1, <3>2, Measures, Within
    <3>4. Earned(entry'[u])
      BY <1>1, <3>2 DEF Earned
    <3>5. \A v \in Workers \ {w} : MeasuresFor(v, u) => job[v].miles <= entry[u].since + entry[u].banked
      BY <3>1 DEF MilesOf, MeasuresEarned
    <3>6. QED
      BY <1>1, <1>2, <1>4, <2>2, <3>1, <3>2, <3>3, <3>4, <3>5, MilesKept
  <2>5. QED
    BY <2>3, <2>4
<1>7. CASE CurrentMiles(w)
  <2>1. /\ job[w].step = "measure" /\ job'[w].step = "overlay" /\ job[w].user \in Users
        /\ job[w].shown \in [Users -> Nat] /\ board' = board
        /\ job'[w].shown = [job[w].shown EXCEPT ![job[w].user] = Measured(w)]
    BY <1>7, CurrentMilesTyped DEF CurrentMiles
  <2>2. job[w].shown[u] <= now /\ board'[u] <= now
    BY <2>1 DEF MilesOf, ShownEarned, Shows
  <2>3. u = job[w].user => Measured(w) <= now
    <3>1. SUFFICES ASSUME u = job[w].user PROVE Measured(w) <= now
      OBVIOUS
    <3>2. MeasuresFor(w, u)
      BY <2>1, <3>1 DEF MeasuresFor
    <3>3. PICK m \in Nat : m = job[w].miles
      BY <2>1, JobKinds DEF AccountsTyped, MeasureJobs
    <3>4. m <= now /\ (entry[u] # NoEntry => m <= entry[u].since + entry[u].banked)
      BY <3>2, <3>3 DEF MilesOf, MeasuresEarned
    <3>5. CASE entry[u] = NoEntry
      <4>1. m + 0 <= now
        BY <3>4
      <4>2. QED
        BY <3>1, <3>3, <3>5, <4>1 DEF Measured
    <3>6. CASE entry[u] # NoEntry
      <4>1. m + InFlight(entry[u]) <= now
        BY <3>4, <3>6, Measures, Within
      <4>2. QED
        BY <3>1, <3>3, <3>6, <4>1 DEF Measured
    <3>7. QED
      BY <3>5, <3>6
  <2>4. job'[w].shown[u] <= now
    <3>1. \A r : LET f == [job[w].shown EXCEPT ![job[w].user] = r]
                 IN  f[u] = IF u = job[w].user THEN r ELSE job[w].shown[u]
      BY <2>1
    <3>2. job'[w].shown[u] = IF u = job[w].user THEN Measured(w) ELSE job[w].shown[u]
      BY <2>1, <3>1
    <3>3. QED
      BY <2>2, <2>3, <3>2
  <2>5. ~MeasuresFor(w, u)'
    BY <2>1 DEF MeasuresFor
  <2>6. QED
    BY <1>1, <1>2, <1>4, <2>2, <2>4, <2>5, MilesUntouched
<1>8. CASE InstallLeaderboard(w)
  <2>1. job[w].step = "overlay" /\ job'[w].step = "idle" /\ board' = job[w].shown
    BY <1>8, InstallTyped, IdleJob
  <2>2. board'[u] <= now
    BY <2>1 DEF MilesOf, ShownEarned, Shows
  <2>3. ~MeasuresFor(w, u)' /\ ~Shows(w)'
    BY <2>1 DEF MeasuresFor, Shows
  <2>4. QED
    BY <1>1, <1>2, <1>4, <2>2, <2>3, MilesUntouched
<1>9. QED
  BY <1>5, <1>6, <1>7, <1>8 DEF BoardStep

LEMMA Later == ASSUME NEW a \in Nat, NEW n \in Nat, a <= n PROVE a <= n + 1
OBVIOUS

\* Time passes: what was earned stays earned.
LEMMA TickKeepsMiles ==
  ASSUME AccountsTyped, NEW u \in Users, MilesOf(u), AccountsTick
  PROVE  MilesOf(u)'
<1>1. /\ now \in Nat /\ now' = now + 1 /\ rows' = rows /\ entry' = entry /\ board' = board /\ job' = job
  BY DEF AccountsTyped, AccountsTick
<1>2. rows'[u].miles <= now' /\ board'[u] <= now'
  <2>1. rows[u].miles \in Nat /\ board[u] \in Nat
    BY DEF AccountsTyped, Row
  <2>2. QED
    BY <1>1, <2>1, Later DEF MilesOf
<1>3. EntryEarned(u)' /\ LoginsEarned(u)'
  BY <1>1 DEF MilesOf, EntryEarned, LoginsEarned, LogsIn, Earned
<1>4. SavesEarned(u)'
  <2>1. SUFFICES ASSUME NEW w \in Workers, Saves(w, u) PROVE job[w].copy.miles <= now + 1
    BY <1>1 DEF SavesEarned, Saves
  <2>2. job[w].copy.miles \in Nat
    BY <2>1, JobKinds DEF AccountsTyped, Saves, SaveJobs, BotJobs, Entry, Row
  <2>3. QED
    BY <1>1, <2>1, <2>2, Later DEF MilesOf, SavesEarned
<1>5. ShownEarned(u)'
  <2>1. SUFFICES ASSUME NEW w \in Workers, Shows(w) PROVE job[w].shown[u] <= now + 1
    BY <1>1 DEF ShownEarned, Shows
  <2>2. job[w].shown[u] \in Nat
    BY <2>1, JobKinds DEF AccountsTyped, Shows, OverlayJobs, MeasureJobs
  <2>3. QED
    BY <1>1, <2>1, <2>2, Later DEF MilesOf, ShownEarned
<1>6. MeasuresEarned(u)'
  <2>1. SUFFICES ASSUME NEW w \in Workers, MeasuresFor(w, u)
                 PROVE  /\ job[w].miles <= now + 1
                        /\ entry[u] # NoEntry => job[w].miles <= entry[u].since + entry[u].banked
                        /\ \A v \in Workers : LogsIn(v, u) => job[w].miles <= job[v].copy.since
    BY <1>1 DEF MeasuresEarned, MeasuresFor, LogsIn
  <2>2. job[w].miles \in Nat
    BY <2>1, JobKinds DEF AccountsTyped, MeasuresFor, MeasureJobs
  <2>3. QED
    BY <1>1, <2>1, <2>2, Later DEF MilesOf, MeasuresEarned
<1>7. QED
  BY <1>2, <1>3, <1>4, <1>5, <1>6 DEF MilesOf

LEMMA StepKeepsMiles ==
  ASSUME AccountsTyped, failures \in Nat, MilesInv, AccountsNext
  PROVE  MilesInv'
<1>1. twice \subseteq twice'
  <2> DEFINE Fine == twice \subseteq twice'
  <2>1. ASSUME NEW w \in Workers, SessionStep(w)
        PROVE  Fine
    BY <2>1 DEF SessionStep, FindForLogin, SaveLogin, PublishLogin, Logout, Checkpoint, WriteBack
  <2>2. ASSUME NEW w \in Workers, IdStep(w)
        PROVE  Fine
    BY <2>2 DEF IdStep, Speaks, StampId, MirrorId
  <2>3. ASSUME NEW w \in Workers, FlagStep(w)
        PROVE  Fine
    BY <2>3 DEF FlagStep, AskFlags, GiveUp, FindBot, SaveBot, LiveBot, SetExclude, LiveExclude, SetStarred
  <2>4. ASSUME NEW w \in Workers, BoardStep(w)
        PROVE  Fine
    BY <2>4 DEF BoardStep, FetchLeaderboard, CopyLive, CurrentMiles, InstallLeaderboard
  <2>5. CASE AccountsTick
    BY <2>5 DEF AccountsTick
  <2>6. QED
    BY <2>1, <2>2, <2>3, <2>4, <2>5 DEF AccountsNext
<1>2. ASSUME NEW u \in Users, u \notin twice'
      PROVE  MilesOf(u)'
  <2>1. MilesOf(u)
    BY <1>1, <1>2 DEF MilesInv
  <2>2. CASE AccountsTick
    BY <2>1, <2>2, TickKeepsMiles
  <2>3. ASSUME NEW w \in Workers, SessionStep(w)
        PROVE  MilesOf(u)'
    BY <1>2, <2>1, <2>3, FindKeepsMiles, SaveKeepsMiles, PublishKeepsMiles, LogoutKeepsMiles, CheckpointKeepsMiles
       DEF SessionStep
  <2>4. ASSUME NEW w \in Workers, IdStep(w)
        PROVE  MilesOf(u)'
    BY <2>1, <2>4, SpeaksTyped, StampIdTyped, MirrorIdTyped, QuietKeepsMiles DEF IdStep
  <2>5. ASSUME NEW w \in Workers, FlagStep(w)
        PROVE  MilesOf(u)'
    <3>1. CASE \/ FindBot(w) /\ job[w].body.bot # Unset
               \/ SaveBot(w) \/ LiveBot(w)
      BY <2>1, <3>1, BotKeepsMiles
    <3>2. CASE \/ \E x \in Users, body \in Bodies : AskFlags(w, x, body)
               \/ GiveUp(w) \/ SetExclude(w) \/ LiveExclude(w) \/ SetStarred(w)
               \/ FindBot(w) /\ job[w].body.bot = Unset
      BY <2>1, <3>2, FlagStepsTyped, QuietKeepsMiles
    <3>3. QED
      BY <2>5, <3>1, <3>2 DEF FlagStep
  <2>6. ASSUME NEW w \in Workers, BoardStep(w)
        PROVE  MilesOf(u)'
    BY <2>1, <2>6, BoardKeepsMiles
  <2>7. QED
    BY <2>2, <2>3, <2>4, <2>5, <2>6 DEF AccountsNext
<1>3. QED
  BY <1>2 DEF MilesInv

-----------------------------------------------------------------------------
(* From the first step on *)

LEMMA SameKeepsMiles ==
  ASSUME MilesInv, UNCHANGED <<rows, entry, board, job, twice>>, now' = now
  PROVE  MilesInv'
BY DEF MilesInv, MilesOf, EntryEarned, LoginsEarned, SavesEarned, ShownEarned, MeasuresEarned, LogsIn, Saves,
       Shows, MeasuresFor, Earned

LEMMA AccountsStart ==
  ASSUME AccountsInit
  PROVE  AccountsTyped /\ failures \in Nat /\ MarksInv /\ IdsInv /\ MilesInv
<1> DEFINE r == [bot |-> FALSE, excluded |-> FALSE, starred |-> FALSE, id |-> NoId, miles |-> 0]
<1>1. /\ rows = [u \in Users |-> r] /\ entry = [u \in Users |-> NoEntry] /\ board = [u \in Users |-> 0]
      /\ job = [w \in Workers |-> Idle] /\ set = [u \in Users |-> [bot |-> FALSE, excluded |-> FALSE]]
      /\ crossed = {} /\ twice = {} /\ took = [u \in Users |-> {}] /\ now = 0 /\ asks = 0 /\ failures = 0
  BY DEF AccountsInit, NotShown
<1>2. r \in Row /\ r.bot = FALSE /\ r.excluded = FALSE /\ r.id = NoId /\ r.miles = 0
  BY DEF Row
<1> HIDE DEF r
<1>3. \A w \in Workers : job[w].step = "idle"
  BY <1>1, IdleJob
<1>4. AccountsTyped
  BY <1>1, <1>2, <1>3, IdleJob DEF AccountsTyped
<1>5. \A u \in Users : rows[u].bot = FALSE /\ set[u].bot = FALSE /\ rows[u].excluded = FALSE
                       /\ set[u].excluded = FALSE /\ entry[u] = NoEntry
  BY <1>1, <1>2
<1>6. \A w \in Workers, u \in Users : ~Carries(w, u) /\ ~Setting(w, u) /\ ~Informing(w, u)
  BY <1>3 DEF Carries, Setting, Informing
<1>7. CopiesAreAsked /\ ExclusionStands
  BY <1>3, <1>5 DEF CopiesAreAsked, ExclusionStands
<1>8. \A u \in Users : MarkOf(u)
  BY <1>5, <1>6 DEF MarkOf, CopiesAgree, SettersAreAlone, InformedOfTheRow, EntryAgrees
<1>9. \A u \in Users : rows[u].id = NoId /\ rows[u].miles = 0 /\ took[u] = {}
  BY <1>1, <1>2
<1>10. \A w \in Workers : ~HoldsId(w)
  BY <1>3 DEF HoldsId
<1>11. IdsInv
  BY <1>5, <1>9, <1>10 DEF IdsInv, Known
<1>12. \A w \in Workers, u \in Users : ~LogsIn(w, u) /\ ~Saves(w, u) /\ ~Shows(w) /\ ~MeasuresFor(w, u)
  BY <1>3 DEF LogsIn, Saves, Shows, MeasuresFor
<1>13. \A u \in Users : rows[u].miles <= now /\ board[u] <= now
  <2>1. \A u \in Users : rows[u].miles = 0 /\ board[u] = 0
    BY <1>1, <1>9
  <2>2. now = 0 /\ 0 <= 0
    BY <1>1
  <2>3. QED
    BY <2>1, <2>2
<1>14. MilesInv
  BY <1>5, <1>12, <1>13
     DEF MilesInv, MilesOf, EntryEarned, LoginsEarned, SavesEarned, ShownEarned, MeasuresEarned
<1>15. QED
  BY <1>1, <1>4, <1>7, <1>8, <1>11, <1>14 DEF MarksInv

AccountsInv == AccountsTyped /\ failures \in Nat /\ MarksInv /\ IdsInv /\ MilesInv

LEMMA AccountsHold == AccountsSpec => []AccountsInv
<1>1. AccountsInit => AccountsInv
  BY AccountsStart DEF AccountsInv
<1>2. AccountsInv /\ [AccountsNext]_accountVars => AccountsInv'
  <2> SUFFICES ASSUME AccountsInv, [AccountsNext]_accountVars PROVE AccountsInv'
    OBVIOUS
  <2>1. CASE AccountsNext
    BY <2>1, AccountsStayTyped, StepKeepsMarks, StepKeepsIds, StepKeepsMiles DEF AccountsInv
  <2>2. CASE UNCHANGED accountVars
    <3>1. /\ UNCHANGED <<rows, entry, board, job, set, crossed, twice, took>> /\ now' = now
          /\ failures' = failures
      BY <2>2 DEF accountVars
    <3>2. AccountsTyped'
      BY <3>1 DEF AccountsInv, AccountsTyped, Past
    <3>3. MarksInv'
      BY <3>1, SameKeepsMarks DEF AccountsInv
    <3>4. IdsInv' /\ MilesInv'
      BY <3>1, SameKeepsIds, SameKeepsMiles DEF AccountsInv
    <3>5. QED
      BY <3>1, <3>2, <3>3, <3>4 DEF AccountsInv
  <2>3. QED
    BY <2>1, <2>2
<1>3. QED
  BY <1>1, <1>2, PTL DEF AccountsSpec

\* What the rows, the leaderboard and the marks may hold, in every state of
\* Accounts: every worker's copies included.
THEOREM AccountsTypeCorrect == AccountsSpec => []AccountsTypeOK
<1>1. AccountsInv => AccountsTypeOK
  BY DEF AccountsInv, AccountsTyped, AccountsTypeOK
<1>2. QED
  BY <1>1, AccountsHold, PTL

\* The marks hold for any number of viewers, workers, requests and failures
\* (users.go, save and SetBot; presence.go, the flags handler).
THEOREM MarksAlwaysHold == AccountsSpec => []MarksHold
<1>1. AccountsInv => MarksHold
  BY DEF AccountsInv, MarksInv, ExclusionStands, MarkOf, MarksHold
<1>2. QED
  BY <1>1, AccountsHold, PTL

\* No id is claimed that the database did not take, for any names, ids and
\* failures (users.go, RecordPlatformUserID and the copy it mirrors).
THEOREM IdsAreAlwaysHonest == AccountsSpec => []IdsAreHonest
<1>1. AccountsInv => IdsAreHonest
  BY DEF AccountsInv, IdsInv, Known, IdsAreHonest
<1>2. QED
  BY <1>1, AccountsHold, PTL

\* The leaderboard is never ahead of the clock, however its query, its copies and
\* its measurements fall between logins, checkpoints and logouts (users.go,
\* sessionMiles; leaderboard.go, UpdateLeaderboard).
THEOREM TheBoardIsNeverAhead == AccountsSpec => []BoardNeverAhead
<1>1. AccountsInv => BoardNeverAhead
  BY DEF AccountsInv, MilesInv, MilesOf, BoardNeverAhead
<1>2. QED
  BY <1>1, AccountsHold, PTL
-----------------------------------------------------------------------------
(* Moments: answers *)

\* Two stretches of x and y seconds into the clip, asked for at a and b: however
\* the windows fall, the later stretch is never the one chosen for the earlier
\* question.
LEMMA NeverBackwards ==
  ASSUME NEW x \in Nat, NEW y \in Nat, NEW a \in Nat, NEW b \in Nat, NEW C \in Nat, NEW O \in Nat, NEW L \in Nat,
         NEW xa \in Nat, NEW ya \in Nat, NEW xb \in Nat, NEW yb \in Nat,
         NEW rocr \in BOOLEAN, NEW socr \in BOOLEAN,
         xa = IF x > a THEN x - a ELSE a - x, ya = IF y > a THEN y - a ELSE a - y,
         xb = IF x > b THEN x - b ELSE b - x, yb = IF y > b THEN y - b ELSE b - y,
         b = a + L, 0 < L, O <= C, C - O <= L, xa <= C, yb <= C,
         ya <= C => IF (xa > O) # (ya > O) THEN ya > O ELSE IF rocr # socr THEN rocr ELSE xa <= ya,
         xb <= C => IF (yb > O) # (xb > O) THEN xb > O ELSE IF socr # rocr THEN socr ELSE yb <= xb
  PROVE  x <= y
<1>1. SUFFICES ASSUME y < x PROVE FALSE
  OBVIOUS
<1>2. ya <= C /\ xb <= C
  BY <1>1
<1>3. CASE rocr = socr
  <2>1. xa <= ya
    BY <1>2, <1>3
  <2>2. yb <= xb
    BY <1>2, <1>3
  <2>3. QED
    BY <1>1, <2>1, <2>2
<1>4. CASE rocr # socr
  <2>1. (xb > O /\ yb <= O) \/ (ya > O /\ xa <= O)
    BY <1>2, <1>4
  <2>2. QED
    BY <1>1, <2>1
<1>5. QED
  BY <1>3, <1>4

LEMMA FarIsNat ==
  ASSUME cut \in Cuts, coords \in Tracks, NEW r \in coords, InClip(r), NEW at \in Nat
  PROVE  /\ Far(r, at) \in Nat /\ r.sec - cut \in Nat /\ r.ocr \in BOOLEAN /\ r.sec \in Nat /\ cut \in Nat
         /\ Far(r, at) = IF r.sec - cut > at THEN (r.sec - cut) - at ELSE at - (r.sec - cut)
<1>1. r.sec \in Nat /\ cut \in Nat /\ r.sec >= cut /\ r.ocr \in BOOLEAN
  BY MomentsConstants DEF InClip
<1>2. r.sec - cut \in Nat
  BY <1>1
<1>3. QED
  BY <1>1, <1>2 DEF Far

LEMMA AnswersStand ==
  ASSUME cut \in Cuts, coords \in Tracks
  PROVE  AnswersFromTheRoad
<1>1. \A at \in {s - cut : s \in {t \in Seconds : t >= cut}} : at \in Nat
  <2>1. TAKE at \in {s - cut : s \in {t \in Seconds : t >= cut}}
  <2>2. PICK s \in Seconds : s >= cut /\ at = s - cut
    OBVIOUS
  <2>3. s \in Nat /\ cut \in Nat
    BY MomentsConstants
  <2>4. QED
    BY <2>2, <2>3
<1>2. ASSUME NEW at \in Nat, NEW r \in CoordAt(at)
      PROVE  LET beside == {s \in Covering(at) : Far(s, at) <= OcrWindow}
             IN  /\ beside # {} => r \in beside
                 /\ (\E s \in beside : s.ocr) => r.ocr
  <2>1. r \in Covering(at) /\ \A s \in Covering(at) : Sooner(r, s, at)
    BY DEF CoordAt
  <2>2. ASSUME NEW s \in Covering(at), Far(s, at) <= OcrWindow
        PROVE  Far(r, at) <= OcrWindow /\ (s.ocr => r.ocr)
    <3>1. /\ Far(r, at) \in Nat /\ Far(s, at) \in Nat /\ r.ocr \in BOOLEAN /\ s.ocr \in BOOLEAN
          /\ OcrWindow \in Nat
      BY <2>1, FarIsNat, MomentsConstants DEF Covering
    <3>2. Sooner(r, s, at)
      BY <2>1
    <3>3. ~(Far(s, at) > OcrWindow)
      BY <2>2, <3>1
    <3>4. ~(Far(r, at) > OcrWindow)
      BY <3>2, <3>3 DEF Sooner
    <3>5. s.ocr => r.ocr
      BY <3>1, <3>2, <3>3, <3>4 DEF Sooner
    <3>6. QED
      BY <3>1, <3>4, <3>5
  <2>3. QED
    BY <2>1, <2>2
<1>3. ASSUME NEW at \in Nat, NEW r \in CoordAt(Baseline(at)[1]), NEW s \in CoordAt(Baseline(at)[2])
      PROVE  r.sec <= s.sec
  <2>1. PICK a \in Nat, b \in Nat : a = Baseline(at)[1] /\ b = Baseline(at)[2] /\ b = a + Lookback
    BY MomentsConstants DEF Baseline
  <2>2. /\ r \in coords /\ InClip(r) /\ Far(r, a) <= CoordWindow
        /\ s \in coords /\ InClip(s) /\ Far(s, b) <= CoordWindow
        /\ \A t \in Covering(a) : Sooner(r, t, a)
        /\ \A t \in Covering(b) : Sooner(s, t, b)
    BY <2>1 DEF CoordAt, Covering
  <2>3. PICK x \in Nat, y \in Nat : x = r.sec - cut /\ y = s.sec - cut
    BY <2>2, FarIsNat
  <2>4. PICK xa \in Nat, ya \in Nat, xb \in Nat, yb \in Nat :
          xa = Far(r, a) /\ ya = Far(s, a) /\ xb = Far(r, b) /\ yb = Far(s, b)
    BY <2>2, FarIsNat
  <2>5. /\ xa = IF x > a THEN x - a ELSE a - x
        /\ ya = IF y > a THEN y - a ELSE a - y
        /\ xb = IF x > b THEN x - b ELSE b - x
        /\ yb = IF y > b THEN y - b ELSE b - y
    BY <2>2, <2>3, <2>4, FarIsNat
  <2>6. r.ocr \in BOOLEAN /\ s.ocr \in BOOLEAN /\ r.sec \in Nat /\ s.sec \in Nat /\ cut \in Nat
    BY <2>2, FarIsNat
  <2>7. ya <= CoordWindow => Sooner(r, s, a)
    BY <2>2, <2>4 DEF Covering
  <2>8. xb <= CoordWindow => Sooner(s, r, b)
    BY <2>2, <2>4 DEF Covering
  <2>9. ya <= CoordWindow =>
          IF (xa > OcrWindow) # (ya > OcrWindow) THEN ya > OcrWindow ELSE IF r.ocr # s.ocr THEN r.ocr ELSE xa <= ya
    BY <2>4, <2>7 DEF Sooner
  <2>10. xb <= CoordWindow =>
          IF (yb > OcrWindow) # (xb > OcrWindow) THEN xb > OcrWindow ELSE IF s.ocr # r.ocr THEN s.ocr ELSE yb <= xb
    BY <2>4, <2>8 DEF Sooner
  <2>11. /\ CoordWindow \in Nat /\ OcrWindow \in Nat /\ Lookback \in Nat /\ 0 < Lookback
         /\ OcrWindow <= CoordWindow /\ CoordWindow - OcrWindow <= Lookback
    BY MomentsConstants
  <2>12. xa <= CoordWindow /\ yb <= CoordWindow
    BY <2>2, <2>4
  <2>13. x <= y
    BY <2>1, <2>5, <2>6, <2>9, <2>10, <2>11, <2>12, NeverBackwards
  <2>14. QED
    BY <2>3, <2>6, <2>13
<1>4. QED
  BY <1>1, <1>2, <1>3 DEF AnswersFromTheRoad
-----------------------------------------------------------------------------
(* Moments: marks *)

Kinds == {"star", "trim", "bad_coord"}
Placed == [at : Nat, kind : Kinds, remove : BOOLEAN, off : Nat \cup {-1}, saw : Nat, moved : BOOLEAN]
Marks == [kind : Kinds, src : Nat, by : Fans \cup {Console}]

\* What a handler has in hand: the second its caller saw, as long as it can tell.
SeenWell(j) ==
  ~j.moved =>
    /\ j.off = -1 => j.saw = j.at + cut /\ \E r \in coords : InClip(r)
    /\ j.off # -1 => j.at + j.off = j.saw

MarksTyped ==
  /\ cut \in Cuts /\ aired \in Cuts /\ coords \in Tracks
  /\ asking \in [Setters -> Placed \cup {Asleep}]
  /\ marks \subseteq Marks
OneOfEach == \A m, n \in marks : m.by \in Fans /\ m.by = n.by /\ m.kind = n.kind => m = n
AskersSeeWell ==
  \A p \in Setters : asking[p] # Asleep =>
    SeenWell(asking[p]) /\ (asking[p].remove => p \in Operators)
MomentsInv == MarksTyped /\ OneOfEach /\ AskersSeeWell

LEMMA Offsets ==
  ASSUME MarksTyped
  PROVE  /\ cut \in Nat /\ aired \in Nat /\ ClipOffset \in Nat
         /\ (\E r \in coords : InClip(r)) => ClipOffset = cut
BY MomentsConstants DEF MarksTyped, ClipOffset

LEMMA Sleeps ==
  ASSUME MarksTyped, NEW p \in Setters
  PROVE  /\ asking[p] # Asleep => asking[p] \in Placed
         /\ \A j \in Placed : j # Asleep
<1>1. \A j \in Placed : j.at # Asleep.at
  BY DEF Placed, Asleep
<1>2. QED
  BY <1>1 DEF MarksTyped

\* One handler's turn: the others keep what they have in hand.
LEMMA AskerTurn ==
  ASSUME MomentsInv, NEW p \in Setters, NEW j \in Placed \cup {Asleep}, asking' = [asking EXCEPT ![p] = j],
         UNCHANGED <<cut, aired, coords>>, marks' \subseteq Marks, OneOfEach',
         j # Asleep => SeenWell(j) /\ (j.remove => p \in Operators)
  PROVE  MomentsInv'
<1>1. MarksTyped'
  BY DEF MomentsInv, MarksTyped
<1>2. asking \in [Setters -> Placed \cup {Asleep}]
  BY DEF MomentsInv, MarksTyped
<1>3. asking'[p] = j /\ \A q \in Setters \ {p} : asking'[q] = asking[q]
  BY <1>2
<1>4. \A k : SeenWell(k)' <=> SeenWell(k)
  BY DEF SeenWell, InClip
<1>5. ASSUME NEW q \in Setters, asking'[q] # Asleep
      PROVE  SeenWell(asking'[q]) /\ (asking'[q].remove => q \in Operators)
  BY <1>3, <1>5 DEF MomentsInv, AskersSeeWell
<1>6. \A q \in Setters : SeenWell(asking'[q]) => SeenWell(asking[q])'
  BY DEF SeenWell, InClip
<1>7. AskersSeeWell'
  BY <1>5, <1>6 DEF AskersSeeWell
<1>8. QED
  BY <1>1, <1>7 DEF MomentsInv

LEMMA SeesKeeps ==
  ASSUME MomentsInv, NEW p \in Setters, NEW kind \in Kinds, NEW at \in Nat, NEW remove \in BOOLEAN,
         remove => p \in Operators, Sees(p, kind, at, remove)
  PROVE  MomentsInv'
<1> DEFINE j == [at |-> at, kind |-> kind, remove |-> remove, off |-> -1,
                 saw |-> at + IF p \in Fans THEN aired ELSE cut,
                 moved |-> (p \in Fans /\ aired # cut) \/ \A r \in coords : ~InClip(r)]
<1>1. asking' = [asking EXCEPT ![p] = j] /\ UNCHANGED <<cut, aired, coords, marks>>
  BY DEF Sees
<1>2. cut \in Nat /\ aired \in Nat
  BY Offsets DEF MomentsInv
<1>3. j.saw \in Nat /\ j.moved \in BOOLEAN
  BY <1>2
<1>4. j \in Placed
  BY <1>3 DEF Placed
<1>5. SeenWell(j)
  BY <1>2 DEF SeenWell
<1>6. j.remove => p \in Operators
  OBVIOUS
<1> HIDE DEF j
<1>7. marks' \subseteq Marks /\ OneOfEach'
  BY <1>1 DEF MomentsInv, MarksTyped, OneOfEach
<1>8. QED
  BY <1>1, <1>4, <1>5, <1>6, <1>7, AskerTurn

LEMMA ReadOffsetKeeps ==
  ASSUME MomentsInv, NEW p \in Setters, ReadOffset(p)
  PROVE  MomentsInv'
<1> DEFINE j == [asking[p] EXCEPT !.off = ClipOffset]
<1>1. /\ asking[p] # Asleep /\ asking[p].off = -1
      /\ asking' = [asking EXCEPT ![p] = j] /\ UNCHANGED <<cut, aired, coords, marks>>
  BY DEF ReadOffset
<1>2. asking[p] \in Placed /\ ClipOffset \in Nat
  BY <1>1, Sleeps, Offsets DEF MomentsInv
<1>3. /\ j \in Placed /\ j.off = ClipOffset /\ j.at = asking[p].at /\ j.saw = asking[p].saw
      /\ j.moved = asking[p].moved /\ j.remove = asking[p].remove
  BY <1>2 DEF Placed
<1> HIDE DEF j
<1>4. SeenWell(asking[p]) /\ (asking[p].remove => p \in Operators)
  BY <1>1 DEF MomentsInv, AskersSeeWell
<1>5. SeenWell(j)
  <2>1. SUFFICES ASSUME ~asking[p].moved PROVE j.off # -1 /\ j.at + j.off = j.saw
    BY <1>3 DEF SeenWell
  <2>2. asking[p].saw = asking[p].at + cut /\ \E r \in coords : InClip(r)
    BY <1>1, <1>4, <2>1 DEF SeenWell
  <2>3. ClipOffset = cut
    BY <2>2, Offsets DEF MomentsInv
  <2>4. ClipOffset # -1
    BY <1>2
  <2>5. QED
    BY <1>3, <2>2, <2>3, <2>4
<1>6. marks' \subseteq Marks /\ OneOfEach'
  BY <1>1 DEF MomentsInv, MarksTyped, OneOfEach
<1>7. QED
  BY <1>1, <1>3, <1>4, <1>5, <1>6, AskerTurn

LEMMA MarkIsAMark ==
  ASSUME MarksTyped, NEW p \in Setters, asking[p] # Asleep, asking[p].off # -1
  PROVE  /\ Mark(p) \in Marks /\ Mark(p).kind = asking[p].kind /\ Mark(p).by = Author(p)
         /\ Author(p) \in Fans => p \in Fans /\ Author(p) = p
<1>1. asking[p].at \in Nat /\ asking[p].off \in Nat /\ asking[p].kind \in Kinds
  BY Sleeps DEF Placed
<1>2. asking[p].at + asking[p].off \in Nat
  BY <1>1
<1>3. Author(p) \in Fans \cup {Console} /\ (Author(p) \in Fans => p \in Fans /\ Author(p) = p)
  BY MomentsConstants DEF Author
<1>4. QED
  BY <1>1, <1>2, <1>3 DEF Mark, Marks

LEMMA WriteKeeps ==
  ASSUME MomentsInv, NEW p \in Setters, WriteMark(p) \/ WriteMarkFails(p) \/ RemoveMark(p)
  PROVE  MomentsInv'
<1>1. /\ asking[p] # Asleep /\ asking[p].off # -1 /\ asking' = [asking EXCEPT ![p] = Asleep]
      /\ UNCHANGED <<cut, aired, coords>>
  BY DEF WriteMark, WriteMarkFails, RemoveMark
<1>2. Mark(p) \in Marks /\ Mark(p).kind = asking[p].kind /\ Mark(p).by = Author(p)
      /\ (Author(p) \in Fans => p \in Fans /\ Author(p) = p)
  BY <1>1, MarkIsAMark DEF MomentsInv
<1>3. marks \subseteq Marks /\ OneOfEach
  BY DEF MomentsInv, MarksTyped
<1>4. CASE WriteMark(p)
  <2>1. marks' = (marks \ Earlier(p)) \cup {Mark(p)}
    BY <1>4 DEF WriteMark
  <2>2. ASSUME NEW n \in marks', n.by \in Fans, n.by = Mark(p).by, n.kind = Mark(p).kind
        PROVE  n = Mark(p)
    BY <1>2, <2>1, <2>2 DEF Earlier
  <2>3. marks' \subseteq Marks
    BY <1>2, <1>3, <2>1
  <2>4. OneOfEach'
    BY <1>3, <2>1, <2>2 DEF OneOfEach
  <2>5. QED
    BY <1>1, <2>3, <2>4, AskerTurn
<1>5. CASE WriteMarkFails(p) \/ RemoveMark(p)
  <2>1. marks' \subseteq marks
    BY <1>5 DEF WriteMarkFails, RemoveMark, RolledBack
  <2>2. marks' \subseteq Marks /\ OneOfEach'
    BY <1>3, <2>1 DEF OneOfEach
  <2>3. QED
    BY <1>1, <2>2, AskerTurn
<1>6. QED
  BY <1>4, <1>5

LEMMA RecutKeeps ==
  ASSUME MomentsInv, NEW c \in Cuts, Recut(c)
  PROVE  MomentsInv'
<1>1. /\ cut' = c /\ UNCHANGED <<aired, coords, marks>>
      /\ asking' = [p \in Setters |->
           IF asking[p] # Asleep /\ asking[p].off = -1 THEN [asking[p] EXCEPT !.moved = TRUE] ELSE asking[p]]
  BY DEF Recut
<1>2. ASSUME NEW p \in Setters, asking[p] # Asleep, asking[p].off = -1
      PROVE  /\ asking'[p] \in Placed /\ asking'[p].moved /\ asking'[p].remove = asking[p].remove
  <2>1. asking'[p] = [asking[p] EXCEPT !.moved = TRUE] /\ asking[p] \in Placed
    BY <1>1, <1>2, Sleeps DEF MomentsInv
  <2>2. QED
    BY <2>1 DEF Placed
<1>3. ASSUME NEW p \in Setters, asking[p] = Asleep \/ asking[p].off # -1
      PROVE  asking'[p] = asking[p]
  BY <1>1, <1>3
<1>4. \A p \in Setters : asking'[p] \in Placed \cup {Asleep}
  BY <1>2, <1>3 DEF MomentsInv, MarksTyped
<1>5. MarksTyped'
  <2>1. asking' \in [Setters -> Placed \cup {Asleep}]
    BY <1>1, <1>4
  <2>2. QED
    BY <1>1, <2>1 DEF MomentsInv, MarksTyped
<1>6. AskersSeeWell'
  <2>1. ASSUME NEW p \in Setters, asking'[p] # Asleep
        PROVE  SeenWell(asking[p])' /\ (asking'[p].remove => p \in Operators)
    <3>1. CASE asking[p] # Asleep /\ asking[p].off = -1
      BY <1>2, <3>1 DEF MomentsInv, AskersSeeWell, SeenWell
    <3>2. CASE asking[p] = Asleep \/ asking[p].off # -1
      <4>1. asking'[p] = asking[p] /\ asking[p] # Asleep /\ asking[p].off # -1
        BY <1>3, <2>1, <3>2
      <4>2. SeenWell(asking[p]) /\ (asking[p].remove => p \in Operators)
        BY <4>1 DEF MomentsInv, AskersSeeWell
      <4>3. QED
        BY <4>1, <4>2 DEF SeenWell
    <3>3. QED
      BY <3>1, <3>2
  <2>2. QED
    BY <2>1 DEF AskersSeeWell
<1>7. OneOfEach'
  BY <1>1 DEF MomentsInv, OneOfEach
<1>8. QED
  BY <1>5, <1>6, <1>7 DEF MomentsInv

LEMMA RestKeeps ==
  ASSUME MomentsInv, Rendered \/ UNCHANGED momentVars
  PROVE  MomentsInv'
<1>1. cut' = cut /\ coords' = coords /\ marks' = marks /\ asking' = asking /\ aired' \in {aired, cut}
  BY DEF Rendered, momentVars
<1>2. MarksTyped'
  BY <1>1 DEF MomentsInv, MarksTyped
<1>3. OneOfEach' /\ AskersSeeWell'
  BY <1>1 DEF MomentsInv, OneOfEach, AskersSeeWell, SeenWell, InClip
<1>4. QED
  BY <1>2, <1>3 DEF MomentsInv

LEMMA MomentsStep ==
  ASSUME MomentsInv, [MomentsNext]_momentVars
  PROVE  MomentsInv'
<1>1. ASSUME NEW p \in Setters, MarksMoment(p)
      PROVE  MomentsInv'
  <2>1. PICK kind \in MarkKinds(p), at \in Seconds : Sees(p, kind, at, FALSE)
    BY <1>1 DEF MarksMoment
  <2>2. kind \in Kinds /\ at \in Nat
    BY MomentsConstants DEF MarkKinds, Kinds
  <2>3. QED
    BY <2>1, <2>2, SeesKeeps
<1>2. ASSUME NEW p \in Setters, PicksMark(p)
      PROVE  MomentsInv'
  <2>1. PICK m \in marks : /\ p \in Operators /\ m.kind \in MarkKinds(p) /\ m.src >= ClipOffset
                           /\ Sees(p, m.kind, m.src - ClipOffset, TRUE)
    BY <1>2 DEF PicksMark
  <2>2. m.kind \in Kinds /\ m.src \in Nat /\ ClipOffset \in Nat
    BY Offsets DEF MomentsInv, MarksTyped, Marks
  <2>3. m.src - ClipOffset \in Nat
    BY <2>1, <2>2
  <2>4. QED
    BY <2>1, <2>2, <2>3, SeesKeeps
<1>3. QED
  BY <1>1, <1>2, ReadOffsetKeeps, WriteKeeps, RecutKeeps, RestKeeps DEF MomentsNext

LEMMA MomentsStart == ASSUME MomentsInit PROVE MomentsInv
<1>1. asking \in [Setters -> Placed \cup {Asleep}] /\ \A p \in Setters : asking[p] = Asleep
  BY DEF MomentsInit
<1>2. QED
  BY <1>1 DEF MomentsInit, MomentsInv, MarksTyped, OneOfEach, AskersSeeWell

LEMMA MomentsHold == MomentsSpec => []MomentsInv
BY MomentsStart, MomentsStep, PTL DEF MomentsSpec

\* A mark goes where it was seen, however often the clip is re-trimmed, and an
\* answer is read beside the second on screen, for any recording, rows, windows
\* and people (moments.go, coords.go, heading.go).
THEOREM MomentsStayWhereSeen == MomentsSpec => []MomentsAreWhereSeen
<1>1. MomentsInv => AnswersFromTheRoad
  BY AnswersStand DEF MomentsInv, MarksTyped
<1>2. ASSUME MomentsInv
      PROVE  MarkedWhereSeen
  <2>1. ASSUME NEW p \in Setters, asking[p] # Asleep, asking[p].off # -1, ~asking[p].moved
        PROVE  Mark(p).src = asking[p].saw
    BY <1>2, <2>1 DEF MomentsInv, AskersSeeWell, SeenWell, Mark
  <2>2. QED
    BY <2>1 DEF MarkedWhereSeen
<1>3. MomentsInv => MomentsAreWhereSeen
  BY <1>1, <1>2 DEF MomentsAreWhereSeen
<1>4. QED
  BY <1>3, MomentsHold, PTL

Held(f, kind, ms) == {m \in ms : m.by = f /\ m.kind = kind}

LEMMA AtMostOne ==
  ASSUME NEW ms, \A m, n \in ms : m.by \in Fans /\ m.by = n.by /\ m.kind = n.kind => m = n,
         NEW f \in Fans, NEW kind
  PROVE  Cardinality(Held(f, kind, ms)) <= 1
<1>1. CASE Held(f, kind, ms) = {}
  <2>1. Cardinality(Held(f, kind, ms)) = 0
    BY <1>1, FS_EmptySet
  <2>2. QED
    BY <2>1
<1>2. ASSUME NEW m \in Held(f, kind, ms)
      PROVE  Cardinality(Held(f, kind, ms)) <= 1
  <2>1. Held(f, kind, ms) = {m}
    BY DEF Held
  <2>2. Cardinality({m}) = 1
    BY FS_Singleton
  <2>3. QED
    BY <2>1, <2>2
<1>3. QED
  BY <1>1, <1>2

\* A step takes a viewer's mark of a kind only for the next one of that kind.
LEMMA NeverLost ==
  ASSUME MomentsInv, [MomentsNext]_momentVars, NEW f \in Fans, NEW kind, NEW m \in Held(f, kind, marks)
  PROVE  Held(f, kind, marks') # {}
<1>1. m \in marks /\ m.by = f /\ m.kind = kind
  BY DEF Held
<1>2. ASSUME NEW p \in Setters, WriteMark(p)
      PROVE  Held(f, kind, marks') # {}
  <2>1. marks' = (marks \ Earlier(p)) \cup {Mark(p)} /\ asking[p] # Asleep /\ asking[p].off # -1
    BY <1>2 DEF WriteMark
  <2>2. CASE m \in Earlier(p)
    <3>1. p = f /\ asking[p].kind = kind /\ p \in Fans
      BY <1>1, <2>2 DEF Earlier
    <3>2. Mark(p).by = f /\ Mark(p).kind = kind
      BY <2>1, <3>1, MarkIsAMark DEF MomentsInv, Author
    <3>3. QED
      BY <2>1, <3>2 DEF Held
  <2>3. CASE m \notin Earlier(p)
    BY <1>1, <2>1, <2>3 DEF Held
  <2>4. QED
    BY <2>2, <2>3
<1>3. ASSUME NEW p \in Setters, RemoveMark(p)
      PROVE  Held(f, kind, marks') # {}
  <2>1. /\ marks' = {n \in marks : n # Mark(p)} /\ asking[p] # Asleep /\ asking[p].off # -1 /\ asking[p].remove
    BY <1>3 DEF RemoveMark
  <2>2. p \in Operators
    BY <2>1 DEF MomentsInv, AskersSeeWell
  <2>3. Author(p) = Console
    BY <2>2, MomentsConstants DEF Author
  <2>4. Mark(p).by = Console
    BY <2>1, <2>3, MarkIsAMark DEF MomentsInv
  <2>5. m # Mark(p)
    BY <1>1, <2>4, MomentsConstants
  <2>6. QED
    BY <1>1, <2>1, <2>5 DEF Held
<1>4. CASE marks' = marks
  BY <1>1, <1>4 DEF Held
<1>5. QED
  BY <1>2, <1>3, <1>4
     DEF MomentsNext, MarksMoment, PicksMark, Sees, ReadOffset, WriteMarkFails, RolledBack, Recut, Rendered,
         momentVars

\* One mark of a kind to a viewer, for any viewers, clips and failed writes
\* (moments.go, SetMark's transaction).
THEOREM EveryViewerHasOneMark == MomentsSpec => OneMarkEach
<1> DEFINE A == \A f \in Fans : \A kind \in MarkKinds(f) :
                  LET held(ms) == {m \in ms : m.by = f /\ m.kind = kind}
                  IN  Cardinality(held(marks')) <= 1 /\ (held(marks) # {} => held(marks') # {})
<1>1. ASSUME MomentsInv, [MomentsNext]_momentVars
      PROVE  A
  <2>1. OneOfEach'
    BY <1>1, MomentsStep DEF MomentsInv
  <2>2. \A m, n \in marks' : m.by \in Fans /\ m.by = n.by /\ m.kind = n.kind => m = n
    BY <2>1 DEF OneOfEach
  <2>3. \A f \in Fans : \A kind : Cardinality(Held(f, kind, marks')) <= 1
    BY <2>2, AtMostOne
  <2>4. \A f \in Fans : \A kind : Held(f, kind, marks) # {} => Held(f, kind, marks') # {}
    BY <1>1, NeverLost
  <2>5. QED
    BY <2>3, <2>4 DEF Held
<1>2. MomentsInv /\ [MomentsNext]_momentVars => [A]_momentVars
  BY <1>1
<1>3. QED
  BY <1>2, MomentsHold, PTL DEF MomentsSpec, OneMarkEach

-----------------------------------------------------------------------------
(***************************************************************************)
(* OnscreensServer, however often links, broker and processes fail: the    *)
(* types, the promise of Overlay that the middle text implements, and what *)
(* is kept of what is shown.                                               *)
(***************************************************************************)

StateRec == [text : Texts \cup {Blank}, showing : BOOLEAN]
ShowRec  == [text : Texts, timed : BOOLEAN]
Messages1 == StateRec \cup Copies \cup {None}

\* The broker and the clients: a callback under way is owed.
BusTyped ==
  /\ link \in [Clients -> BOOLEAN] /\ declared \subseteq Subjects /\ owed \in [Clients -> Nat]
  /\ kept \in [Subjects -> Messages1] /\ buffer \in [Subjects -> Messages1]
  /\ kept["middle.state"] \in StateRec \cup {None} /\ buffer["middle.state"] \in StateRec \cup {None}
  /\ kept["rotator.config"] \in Copies \cup {None} /\ buffer["rotator.config"] \in Copies \cup {None}

MiddleTyped ==
  /\ content \in Texts \cup {Blank} /\ isShowing \in BOOLEAN
  /\ middleExpiry \in armed \cup fired \cup {NoTimer} /\ armed \cap fired = {}
  /\ armed \cup fired \subseteq Timers
  /\ shows \in Seq(ShowRec) /\ hides \in Nat /\ recalled \in BOOLEAN

Steps == {"idle", "list", "read", "publish", "published"}
RotatorsTyped ==
  /\ record \in Copies \cup {None} /\ live \in Copies /\ pushes \in Seq(Copies)
  /\ edits \in [Requests -> Copies \cup {None}]
  /\ republish \in [pc : Steps, copy : Copies \cup {None}]
  /\ republish.pc = "publish" => republish.copy \in Copies

Hows == {"none", "picked", "relaxed", "blank", "rare", "raced"}
Shown == [line : Lines \cup {NoLine}, how : Hows]
CornersTyped == line \in [Corners -> Shown] /\ pick \in [Corners -> Shown] /\ fresh \in BOOLEAN

Places == {"idle", "readMiddle", "setMiddle", "readCopy", "setCopy", "done"}
CallTyped ==
  /\ call \in [pc : Places, read : Messages1]
  /\ call.pc = "setMiddle" => call.read \in StateRec \cup {None}
  /\ call.pc = "setCopy" => call.read \in Copies \cup {None}
  /\ call.pc \in {"readMiddle", "setMiddle"} => ~recalled
  /\ call.pc \in {"readCopy", "setCopy"} => recalled
  /\ call.pc # "idle" => owed["onscreens"] > 0
  /\ republish.pc # "idle" => owed["tripbot"] > 0

Typed == BusTyped /\ MiddleTyped /\ RotatorsTyped /\ CornersTyped /\ CallTyped

-----------------------------------------------------------------------------
(* The broker's operations *)

LEMMA Two == /\ "onscreens" \in Clients /\ "tripbot" \in Clients
             /\ "middle.state" \in Subjects /\ "rotator.config" \in Subjects
             /\ "onscreens" # "tripbot" /\ "middle.state" # "rotator.config"
             /\ Publisher("middle.state") = "onscreens" /\ Publisher("rotator.config") = "tripbot"
             /\ \A c \in Clients : c = "onscreens" \/ c = "tripbot"
             /\ \A s \in Subjects : s = "middle.state" \/ s = "rotator.config"
BY DEF Clients, Subjects, Publisher

LEMMA PublishStateTyped ==
  ASSUME BusTyped, NEW m \in StateRec, Publish("middle.state", m)
  PROVE  /\ BusTyped' /\ link' = link /\ declared' = declared /\ owed' = owed
         /\ kept'["rotator.config"] = kept["rotator.config"] /\ buffer'["rotator.config"] = buffer["rotator.config"]
         /\ IF link["onscreens"]
            THEN /\ buffer' = buffer
                 /\ kept'["middle.state"] = IF "middle.state" \in declared THEN m ELSE kept["middle.state"]
            ELSE kept' = kept /\ buffer'["middle.state"] = m
BY Two DEF BusTyped, Publish, Messages1

LEMMA PublishCopyTyped ==
  ASSUME BusTyped, NEW m \in Copies, Publish("rotator.config", m)
  PROVE  /\ BusTyped' /\ link' = link /\ declared' = declared /\ owed' = owed
         /\ kept'["middle.state"] = kept["middle.state"] /\ buffer'["middle.state"] = buffer["middle.state"]
         /\ IF link["tripbot"]
            THEN /\ buffer' = buffer
                 /\ kept'["rotator.config"] = IF "rotator.config" \in declared THEN m ELSE kept["rotator.config"]
            ELSE kept' = kept /\ buffer'["rotator.config"] = m
BY Two DEF BusTyped, Publish, Messages1

LEMMA DeclareTyped ==
  ASSUME BusTyped, NEW c \in Clients, NEW ss \in SUBSET Subjects, Declare(c, ss)
  PROVE  BusTyped' /\ declared \subseteq declared' /\ (link[c] => ss \subseteq declared')
BY DEF BusTyped, Declare

LEMMA CallbackEndsTyped ==
  ASSUME BusTyped, NEW c \in Clients, owed[c] > 0, CallbackEnds(c)
  PROVE  /\ BusTyped' /\ owed'[c] = owed[c] - 1 /\ \A d \in Clients \ {c} : owed'[d] = owed[d]
BY DEF BusTyped, CallbackEnds

\* Which subject a client's reconnect flushes.
LEMMA LinkReturnsTyped ==
  ASSUME BusTyped, NEW c \in Clients, LinkReturns(c)
  PROVE  /\ BusTyped' /\ link'[c] /\ ~link[c] /\ owed'[c] = owed[c] + 1 /\ declared' = declared
         /\ \A d \in Clients \ {c} : link'[d] = link[d] /\ owed'[d] = owed[d]
         /\ \A s \in Subjects :
              IF Publisher(s) = c /\ buffer[s] # None
              THEN /\ buffer'[s] = None
                   /\ kept'[s] = IF s \in declared THEN buffer[s] ELSE kept[s]
              ELSE buffer'[s] = buffer[s] /\ kept'[s] = kept[s]
<1> DEFINE flushed == {s \in Subjects : Publisher(s) = c /\ buffer[s] # None}
<1>1. /\ ~link[c] /\ link' = [link EXCEPT ![c] = TRUE] /\ owed' = [owed EXCEPT ![c] = @ + 1]
      /\ kept' = [s \in Subjects |-> IF s \in flushed \cap declared THEN buffer[s] ELSE kept[s]]
      /\ buffer' = [s \in Subjects |-> IF s \in flushed THEN None ELSE buffer[s]]
      /\ declared' = declared
  BY DEF LinkReturns
<1>2. \A s \in Subjects :
        IF Publisher(s) = c /\ buffer[s] # None
        THEN buffer'[s] = None /\ kept'[s] = IF s \in declared THEN buffer[s] ELSE kept[s]
        ELSE buffer'[s] = buffer[s] /\ kept'[s] = kept[s]
  BY <1>1
<1>3. /\ link \in [Clients -> BOOLEAN] /\ owed \in [Clients -> Nat]
      /\ kept \in [Subjects -> Messages1] /\ buffer \in [Subjects -> Messages1]
  BY DEF BusTyped
<1>4. /\ link'[c] /\ owed'[c] = owed[c] + 1 /\ link' \in [Clients -> BOOLEAN] /\ owed' \in [Clients -> Nat]
      /\ \A d \in Clients \ {c} : link'[d] = link[d] /\ owed'[d] = owed[d]
  BY <1>1, <1>3
<1>5. kept' \in [Subjects -> Messages1] /\ buffer' \in [Subjects -> Messages1]
  BY <1>1, <1>3 DEF Messages1
<1>6. \A s \in Subjects : kept'[s] \in {kept[s], buffer[s]} /\ buffer'[s] \in {None, buffer[s]}
  BY <1>2
<1>7. BusTyped'
  BY <1>1, <1>4, <1>5, <1>6, Two DEF BusTyped
<1>8. QED
  BY <1>1, <1>2, <1>4, <1>7

LEMMA LinkDropsTyped ==
  ASSUME BusTyped, NEW c \in Clients, LinkDrops(c)
  PROVE  BusTyped' /\ ~link'[c] /\ \A d \in Clients \ {c} : link'[d] = link[d]
BY DEF BusTyped, LinkDrops

LEMMA BrokerRestartsTyped ==
  ASSUME BusTyped, NEW wiped \in BOOLEAN, BrokerRestarts(wiped)
  PROVE  /\ BusTyped' /\ \A c \in Clients : ~link'[c]
         /\ \A s \in Subjects : kept'[s] = IF wiped THEN None ELSE kept[s]
<1>1. \A s \in Subjects : kept'[s] = IF wiped THEN None ELSE kept[s]
  BY DEF BrokerRestarts
<1>2. /\ link' \in [Clients -> BOOLEAN] /\ declared' \subseteq Subjects /\ kept' \in [Subjects -> Messages1]
      /\ buffer' = buffer /\ owed' = owed /\ \A c \in Clients : ~link'[c]
  BY DEF BusTyped, BrokerRestarts, Messages1
<1>3. QED
  BY <1>1, <1>2, Two DEF BusTyped

LEMMA ClientRestartsTyped ==
  ASSUME BusTyped, NEW c \in Clients, ClientRestarts(c)
  PROVE  /\ BusTyped' /\ ~link'[c] /\ owed'[c] = 0 /\ declared' = declared /\ kept' = kept
         /\ \A d \in Clients \ {c} : link'[d] = link[d] /\ owed'[d] = owed[d]
         /\ \A s \in Subjects : buffer'[s] = IF Publisher(s) = c THEN None ELSE buffer[s]
<1>1. \A s \in Subjects : buffer'[s] = IF Publisher(s) = c THEN None ELSE buffer[s]
  BY DEF ClientRestarts
<1>2. /\ link' \in [Clients -> BOOLEAN] /\ owed' \in [Clients -> Nat] /\ buffer' \in [Subjects -> Messages1]
      /\ kept' = kept /\ declared' = declared /\ ~link'[c] /\ owed'[c] = 0
      /\ \A d \in Clients \ {c} : link'[d] = link[d] /\ owed'[d] = owed[d]
  BY DEF BusTyped, ClientRestarts, Messages1
<1>3. QED
  BY <1>1, <1>2, Two DEF BusTyped
-----------------------------------------------------------------------------
(* The middle text's steps *)

\* A show's timer is new, so it has not fired; without one, none is pending.
LEMMA ArmTyped ==
  ASSUME MiddleTyped, NEW timed \in BOOLEAN, ArmMiddleHide(timed), fired' \subseteq fired
  PROVE  /\ middleExpiry' \in armed' \cup fired' \cup {NoTimer} /\ armed' \cap fired' = {}
         /\ armed' \cup fired' \subseteq Timers
         /\ IF timed THEN middleExpiry' # NoTimer /\ middleExpiry' \notin fired'
                     ELSE middleExpiry' = NoTimer
<1>1. /\ armed \cap fired = {} /\ armed \cup fired \subseteq Timers /\ MaxTimers \in Nat
      /\ \A t \in Timers : t # NoTimer
  BY MiddleConstants DEF MiddleTyped, Timers, NoTimer
<1>2. CASE timed
  <2>1. PICK t \in Free : middleExpiry' = t /\ armed' = (armed \ {middleExpiry}) \cup {t}
    BY <1>2 DEF ArmMiddleHide
  <2>2. t \in Timers /\ t \notin armed /\ t \notin fired
    BY <2>1 DEF Free
  <2>3. QED
    BY <1>1, <1>2, <2>1, <2>2
<1>3. CASE ~timed
  BY <1>1, <1>3 DEF ArmMiddleHide
<1>4. QED
  BY <1>2, <1>3

LEMMA ShowHandled ==
  ASSUME BusTyped, MiddleTyped, HandleMiddleShow
  PROVE  /\ BusTyped' /\ MiddleTyped' /\ owed' = owed /\ recalled' = recalled
         /\ Publish("middle.state", State') /\ State' = [text |-> Head(shows).text, showing |-> TRUE]
         /\ IF Head(shows).timed THEN middleExpiry' # NoTimer /\ middleExpiry' \notin fired'
                                 ELSE middleExpiry' = NoTimer
<1>1. Head(shows) \in ShowRec /\ Tail(shows) \in Seq(ShowRec)
  BY HeadTailProperties DEF MiddleTyped, HandleMiddleShow
<1>2. State' = [text |-> Head(shows).text, showing |-> TRUE] /\ State' \in StateRec
  BY <1>1 DEF HandleMiddleShow, State, StateRec, ShowRec
<1>3. /\ BusTyped' /\ Publish("middle.state", State') /\ owed' = owed
  BY <1>2, PublishStateTyped DEF HandleMiddleShow, PublishMiddleState
<1>4. /\ Head(shows).timed \in BOOLEAN /\ ArmMiddleHide(Head(shows).timed) /\ fired' \subseteq fired
  BY <1>1 DEF HandleMiddleShow, ShowRec
<1>5. QED
  BY <1>1, <1>2, <1>3, <1>4, ArmTyped DEF MiddleTyped, HandleMiddleShow, ShowRec

\* A hide, asked for or by a timer.
LEMMA HideHandled ==
  ASSUME BusTyped, MiddleTyped, HideMiddle, hides' \in Nat, fired' \subseteq fired
  PROVE  /\ BusTyped' /\ MiddleTyped' /\ owed' = owed /\ recalled' = recalled
         /\ Publish("middle.state", State') /\ State' = [text |-> content, showing |-> FALSE]
         /\ middleExpiry' = NoTimer
<1>1. State' = [text |-> content, showing |-> FALSE] /\ State' \in StateRec
  BY DEF HideMiddle, State, StateRec, MiddleTyped
<1>2. /\ BusTyped' /\ Publish("middle.state", State') /\ owed' = owed
  BY <1>1, PublishStateTyped DEF HideMiddle, PublishMiddleState
<1>3. ArmMiddleHide(FALSE)
  BY DEF HideMiddle
<1>4. QED
  BY <1>1, <1>2, <1>3, ArmTyped DEF MiddleTyped, HideMiddle

LEMMA TimerFired ==
  ASSUME BusTyped, MiddleTyped, NEW t \in Timers, TimerFires(t)
  PROVE  BusTyped' /\ MiddleTyped' /\ UNCHANGED busVars /\ recalled' = recalled
BY DEF BusTyped, MiddleTyped, TimerFires, busVars

LEMMA Expired ==
  ASSUME BusTyped, MiddleTyped, NEW t \in Timers, ExpireMiddle(t)
  PROVE  /\ BusTyped' /\ MiddleTyped' /\ owed' = owed /\ recalled' = recalled
         /\ \/ /\ UNCHANGED <<content, isShowing, middleExpiry, shows, hides, recalled, astray>>
               /\ UNCHANGED busVars /\ fired' = fired \ {t} /\ middleExpiry # t
            \/ /\ middleExpiry = t /\ t \in fired /\ HideMiddle /\ middleExpiry' = NoTimer /\ hides' = hides
               /\ Publish("middle.state", State') /\ State' = [text |-> content, showing |-> FALSE]
<1>1. t \in fired /\ fired' = fired \ {t} /\ UNCHANGED hides
  BY DEF ExpireMiddle
<1>2. CASE middleExpiry = t /\ HideMiddle
  BY <1>1, <1>2, HideHandled DEF MiddleTyped
<1>3. CASE middleExpiry # t
  <2>1. UNCHANGED <<content, isShowing, middleExpiry, armed, shows, recalled, astray>> /\ UNCHANGED busVars
    BY <1>3 DEF ExpireMiddle
  <2>2. BusTyped' /\ MiddleTyped'
    BY <1>1, <1>3, <2>1 DEF BusTyped, MiddleTyped, busVars
  <2>3. QED
    BY <1>1, <1>3, <2>1, <2>2 DEF busVars
<1>4. QED
  BY <1>2, <1>3 DEF ExpireMiddle

LEMMA Arrived ==
  ASSUME BusTyped, MiddleTyped, NEW text \in Texts, NEW timed \in BOOLEAN,
         ShowArrives(text, timed) \/ HideArrives
  PROVE  BusTyped' /\ MiddleTyped' /\ UNCHANGED busVars /\ recalled' = recalled
<1>1. UNCHANGED busVars /\ UNCHANGED <<content, isShowing, middleExpiry, armed, fired, recalled, astray>>
  BY DEF ShowArrives, HideArrives
<1>2. shows' \in Seq(ShowRec) /\ hides' \in Nat
  <2>1. [text |-> text, timed |-> timed] \in ShowRec
    BY DEF ShowRec
  <2>2. QED
    BY <2>1, SMTT(30) DEF MiddleTyped, ShowArrives, HideArrives
<1>3. QED
  BY <1>1, <1>2 DEF BusTyped, MiddleTyped, busVars

LEMMA RestoreTyped ==
  ASSUME MiddleTyped, NEW s \in StateRec \cup {None}, RestoreMiddleText(s)
  PROVE  MiddleTyped' /\ recalled' /\ State' = IF s = None THEN State ELSE s
<1>1. /\ recalled' = TRUE /\ UNCHANGED <<middleExpiry, armed, fired, shows, hides>>
  BY DEF RestoreMiddleText
<1>2. CASE s = None
  BY <1>1, <1>2 DEF RestoreMiddleText, MiddleTyped, State
<1>3. CASE s # None
  <2>1. s \in StateRec /\ content' = s.text /\ isShowing' = s.showing
    BY <1>3 DEF RestoreMiddleText
  <2>2. s = [text |-> s.text, showing |-> s.showing] /\ s.text \in Texts \cup {Blank} /\ s.showing \in BOOLEAN
    BY <2>1 DEF StateRec
  <2>3. QED
    BY <1>1, <1>3, <2>1, <2>2 DEF MiddleTyped, State
<1>4. QED
  BY <1>2, <1>3

LEMMA RebootTyped == ASSUME MiddleReboot PROVE MiddleTyped' /\ ~recalled'
BY EmptySeq DEF MiddleReboot, MiddleTyped
-----------------------------------------------------------------------------
(* The rotators' steps *)

LEMMA DocumentsTyped == /\ Default \in Copies /\ None \notin Copies
                        /\ \A copy \in Copies \cup {None} : OrDefault(copy) \in Copies
BY RotatorConstants DEF OrDefault

\* A copy published: who gets it, and what it leaves astray.
LEMMA CopyPublished ==
  ASSUME BusTyped, RotatorsTyped, NEW copy \in Copies, PublishCopy(copy)
  PROVE  /\ BusTyped' /\ owed' = owed /\ Publish("rotator.config", copy)
         /\ pushes' \in Seq(Copies) /\ UNCHANGED <<live, fresh, line, pick>>
BY PublishCopyTyped DEF PublishCopy, RotatorsTyped, corners

LEMMA CornersSame == ASSUME CornersTyped, UNCHANGED <<corners, fresh>> PROVE CornersTyped'
BY DEF CornersTyped, corners

LEMMA EditStored ==
  ASSUME BusTyped, RotatorsTyped, NEW r \in Requests, NEW row \in Copies \cup {None}, StoreEdit(r, row)
  PROVE  /\ BusTyped' /\ RotatorsTyped' /\ UNCHANGED busVars
         /\ UNCHANGED <<republish, pushes, live, fresh, corners, strayed>>
         /\ record' = row /\ edits'[r] = OrDefault(row) /\ edits'[r] # None
<1>1. /\ UNCHANGED <<republish, pushes, live, fresh, corners, strayed>> /\ UNCHANGED busVars
      /\ record' = row /\ edits' = [edits EXCEPT ![r] = OrDefault(row)]
  BY DEF StoreEdit
<1>2. QED
  BY <1>1, DocumentsTyped DEF BusTyped, RotatorsTyped, busVars

LEMMA EditPublished ==
  ASSUME BusTyped, RotatorsTyped, NEW r \in Requests, PublishEdit(r)
  PROVE  /\ BusTyped' /\ RotatorsTyped' /\ owed' = owed /\ republish' = republish /\ record' = record
         /\ edits[r] \in Copies /\ PublishCopy(edits[r]) /\ UNCHANGED <<corners, fresh, live>>
<1>1. /\ edits[r] \in Copies /\ PublishCopy(edits[r]) /\ edits' = [edits EXCEPT ![r] = None]
      /\ UNCHANGED <<record, republish>>
  BY DEF PublishEdit, RotatorsTyped
<1>2. QED
  BY <1>1, CopyPublished DEF RotatorsTyped, corners

LEMMA StreamDeclared ==
  ASSUME BusTyped, RotatorsTyped, DeclareCopyStream
  PROVE  /\ BusTyped' /\ RotatorsTyped' /\ owed' = owed /\ owed["tripbot"] > 0 /\ republish.pc = "idle"
         /\ republish'.pc = "list"
         /\ UNCHANGED <<record, edits, pushes, live, fresh, corners, strayed>>
         /\ UNCHANGED <<link, kept, buffer>> /\ declared \subseteq declared'
         /\ link["tripbot"] => "rotator.config" \in declared'
<1>1. /\ Declare("tripbot", {"rotator.config"}) /\ republish' = [republish EXCEPT !.pc = "list"]
      /\ UNCHANGED <<record, edits, pushes, live, fresh, corners, strayed>>
      /\ owed["tripbot"] > 0 /\ republish.pc = "idle"
  BY DEF DeclareCopyStream
<1>2. BusTyped' /\ declared \subseteq declared' /\ (link["tripbot"] => "rotator.config" \in declared')
  BY <1>1, DeclareTyped, Two
<1>3. UNCHANGED <<link, kept, buffer, owed>>
  BY <1>1 DEF Declare
<1>4. RotatorsTyped' /\ republish'.pc = "list"
  BY <1>1 DEF RotatorsTyped, Steps
<1>5. QED
  BY <1>1, <1>2, <1>3, <1>4

LEMMA PlatformsListed ==
  ASSUME BusTyped, RotatorsTyped, owed["tripbot"] > 0, ListPlatforms
  PROVE  /\ BusTyped' /\ RotatorsTyped' /\ republish.pc = "list"
         /\ UNCHANGED <<record, edits, pushes, live, fresh, corners, strayed>>
         /\ UNCHANGED <<link, declared, kept, buffer>>
         /\ owed'["onscreens"] = owed["onscreens"]
         /\ IF record = None
            THEN republish'.pc = "idle" /\ owed'["tripbot"] = owed["tripbot"] - 1
            ELSE republish'.pc = "read" /\ owed' = owed
<1>1. republish.pc = "list" /\ UNCHANGED <<record, edits, pushes, live, fresh, corners, strayed>>
  BY DEF ListPlatforms
<1>2. CASE record = None
  <2>1. republish' = Resting /\ CallbackEnds("tripbot")
    BY <1>2 DEF ListPlatforms
  <2>2. BusTyped' /\ owed'["tripbot"] = owed["tripbot"] - 1 /\ owed'["onscreens"] = owed["onscreens"]
    BY <2>1, CallbackEndsTyped, Two
  <2>3. UNCHANGED <<link, declared, kept, buffer>>
    BY <2>1 DEF CallbackEnds
  <2>4. RotatorsTyped' /\ republish'.pc = "idle"
    BY <1>1, <2>1 DEF RotatorsTyped, Resting, Steps
  <2>5. QED
    BY <1>1, <1>2, <2>2, <2>3, <2>4
<1>3. CASE record # None
  <2>1. republish' = [republish EXCEPT !.pc = "read"] /\ UNCHANGED busVars
    BY <1>3 DEF ListPlatforms
  <2>2. QED
    BY <1>1, <1>3, <2>1 DEF RotatorsTyped, BusTyped, Steps, busVars
<1>4. QED
  BY <1>2, <1>3

LEMMA RecordRead ==
  ASSUME BusTyped, RotatorsTyped, ReadRecord
  PROVE  /\ BusTyped' /\ RotatorsTyped' /\ UNCHANGED busVars /\ republish.pc = "read"
         /\ republish' = [pc |-> "publish", copy |-> OrDefault(record)]
         /\ UNCHANGED <<record, edits, pushes, live, fresh, corners, strayed>>
BY DocumentsTyped DEF ReadRecord, BusTyped, RotatorsTyped, Steps, busVars

LEMMA CopyRepublished ==
  ASSUME BusTyped, RotatorsTyped, Republish
  PROVE  /\ BusTyped' /\ RotatorsTyped' /\ owed' = owed /\ UNCHANGED <<record, edits, corners, live, fresh>>
         /\ republish.pc = "publish" /\ republish'.pc = "published"
         /\ republish.copy \in Copies /\ PublishCopy(republish.copy)
<1>1. /\ republish.pc = "publish" /\ republish.copy \in Copies /\ PublishCopy(republish.copy)
      /\ republish' = [republish EXCEPT !.pc = "published"] /\ UNCHANGED <<record, edits>>
  BY DEF Republish, RotatorsTyped
<1>2. QED
  BY <1>1, CopyPublished DEF RotatorsTyped, corners, Steps

LEMMA RepublishEnded ==
  ASSUME BusTyped, RotatorsTyped, owed["tripbot"] > 0, Republished
  PROVE  /\ BusTyped' /\ RotatorsTyped' /\ republish.pc = "published" /\ republish'.pc = "idle"
         /\ UNCHANGED <<record, edits, pushes, live, fresh, corners, strayed>>
         /\ UNCHANGED <<link, declared, kept, buffer>>
         /\ owed'["tripbot"] = owed["tripbot"] - 1 /\ owed'["onscreens"] = owed["onscreens"]
<1>1. /\ republish.pc = "published" /\ republish' = Resting /\ CallbackEnds("tripbot")
      /\ UNCHANGED <<record, edits, pushes, live, fresh, corners, strayed>>
  BY DEF Republished
<1>2. /\ BusTyped' /\ owed'["tripbot"] = owed["tripbot"] - 1 /\ owed'["onscreens"] = owed["onscreens"]
      /\ UNCHANGED <<link, declared, kept, buffer>>
  BY <1>1, CallbackEndsTyped, Two DEF CallbackEnds
<1>3. RotatorsTyped' /\ republish'.pc = "idle"
  BY <1>1 DEF RotatorsTyped, Resting, Steps
<1>4. QED
  BY <1>1, <1>2, <1>3

LEMMA TripbotRestarted ==
  ASSUME BusTyped, RotatorsTyped, TripbotRestarts
  PROVE  /\ BusTyped' /\ RotatorsTyped' /\ UNCHANGED <<record, pushes, live, fresh, corners>>
         /\ republish'.pc = "idle" /\ ~link'["tripbot"] /\ declared' = declared /\ kept' = kept
         /\ link'["onscreens"] = link["onscreens"] /\ owed'["onscreens"] = owed["onscreens"]
         /\ owed'["tripbot"] = 0 /\ buffer'["middle.state"] = buffer["middle.state"]
         /\ buffer'["rotator.config"] = None
         /\ strayed' = IF buffer["rotator.config"] # None \/ \E r \in Requests : edits[r] # None
                       THEN strayed \cup {"lost"} ELSE strayed
<1>1. /\ ClientRestarts("tripbot") /\ edits' = [r \in Requests |-> None] /\ republish' = Resting
      /\ strayed' = IF buffer["rotator.config"] # None \/ \E r \in Requests : edits[r] # None
                    THEN strayed \cup {"lost"} ELSE strayed
      /\ UNCHANGED <<record, pushes, live, fresh, corners>>
  BY DEF TripbotRestarts
<1>2. /\ BusTyped' /\ ~link'["tripbot"] /\ declared' = declared /\ kept' = kept
      /\ link'["onscreens"] = link["onscreens"] /\ owed'["onscreens"] = owed["onscreens"]
      /\ owed'["tripbot"] = 0 /\ buffer'["middle.state"] = buffer["middle.state"]
      /\ buffer'["rotator.config"] = None
  BY <1>1, ClientRestartsTyped, Two
<1>3. RotatorsTyped' /\ republish'.pc = "idle"
  BY <1>1 DEF RotatorsTyped, Resting, Steps
<1>4. QED
  BY <1>1, <1>2, <1>3

LEMMA TripbotReconnected ==
  ASSUME BusTyped, RotatorsTyped, TripbotReconnects
  PROVE  /\ BusTyped' /\ RotatorsTyped' /\ UNCHANGED <<record, edits, republish, live, fresh, corners>>
         /\ link'["tripbot"] /\ ~link["tripbot"] /\ owed'["tripbot"] = owed["tripbot"] + 1
         /\ declared' = declared
         /\ link'["onscreens"] = link["onscreens"] /\ owed'["onscreens"] = owed["onscreens"]
         /\ buffer'["middle.state"] = buffer["middle.state"] /\ kept'["middle.state"] = kept["middle.state"]
         /\ buffer'["rotator.config"] = None
         /\ kept'["rotator.config"] =
              IF buffer["rotator.config"] # None /\ "rotator.config" \in declared
              THEN buffer["rotator.config"] ELSE kept["rotator.config"]
         /\ IF buffer["rotator.config"] = None THEN UNCHANGED <<pushes, strayed>>
            ELSE IF link["onscreens"]
                 THEN pushes' = Append(pushes, buffer["rotator.config"]) /\ UNCHANGED strayed
                 ELSE strayed' = strayed \cup {"missed"} /\ UNCHANGED pushes
<1>1. /\ LinkReturns("tripbot") /\ UNCHANGED <<record, edits, republish, live, fresh, corners>>
      /\ IF buffer["rotator.config"] = None THEN UNCHANGED <<pushes, strayed>>
         ELSE IF link["onscreens"]
              THEN pushes' = Append(pushes, buffer["rotator.config"]) /\ UNCHANGED strayed
              ELSE strayed' = strayed \cup {"missed"} /\ UNCHANGED pushes
  BY DEF TripbotReconnects, tripbot
<1>2. /\ BusTyped' /\ link'["tripbot"] /\ ~link["tripbot"] /\ owed'["tripbot"] = owed["tripbot"] + 1
      /\ declared' = declared
      /\ link'["onscreens"] = link["onscreens"] /\ owed'["onscreens"] = owed["onscreens"]
  BY <1>1, LinkReturnsTyped, Two
<1>3. /\ buffer'["middle.state"] = buffer["middle.state"] /\ kept'["middle.state"] = kept["middle.state"]
      /\ buffer'["rotator.config"] = None
      /\ kept'["rotator.config"] =
           IF buffer["rotator.config"] # None /\ "rotator.config" \in declared
           THEN buffer["rotator.config"] ELSE kept["rotator.config"]
  <2>1. \A s \in Subjects :
          IF Publisher(s) = "tripbot" /\ buffer[s] # None
          THEN /\ buffer'[s] = None
               /\ kept'[s] = IF s \in declared THEN buffer[s] ELSE kept[s]
          ELSE buffer'[s] = buffer[s] /\ kept'[s] = kept[s]
    BY <1>1, LinkReturnsTyped, Two
  <2>2. QED
    BY <2>1, Two
<1>4. pushes' \in Seq(Copies)
  <2>1. pushes \in Seq(Copies) /\ buffer["rotator.config"] \in Copies \cup {None}
    BY DEF RotatorsTyped, BusTyped
  <2>2. \/ pushes' = pushes
        \/ buffer["rotator.config"] # None /\ pushes' = Append(pushes, buffer["rotator.config"])
    BY <1>1
  <2>3. QED
    BY <2>1, <2>2
<1>5. RotatorsTyped'
  BY <1>1, <1>4 DEF RotatorsTyped
<1>6. QED
  BY <1>1, <1>2, <1>3, <1>5

LEMMA CopyHandled ==
  ASSUME BusTyped, RotatorsTyped, HandleRotatorConfig
  PROVE  BusTyped' /\ RotatorsTyped' /\ UNCHANGED busVars
<1>1. Head(pushes) \in Copies /\ Tail(pushes) \in Seq(Copies)
  BY HeadTailProperties DEF RotatorsTyped, HandleRotatorConfig
<1>2. QED
  BY <1>1 DEF HandleRotatorConfig, BusTyped, RotatorsTyped, busVars, tripbot

LEMMA CopyRestored ==
  ASSUME RotatorsTyped, NEW copy \in Copies \cup {None}, RestoreRotatorCopy(copy)
  PROVE  RotatorsTyped' /\ UNCHANGED <<record, edits, republish, pushes, fresh, corners>>
BY DEF RestoreRotatorCopy, RotatorsTyped, tripbot

-----------------------------------------------------------------------------
(* The corners' steps *)

\* What rot.Pick returns, for any pool, exclusion and data.
LEMMA PicksTyped ==
  ASSUME NEW c \in Corners, NEW copy \in Copies, NEW exclude, NEW data \in BOOLEAN,
         NEW p \in Content(c, copy, exclude, data)
  PROVE  /\ p \in Shown /\ p.how \in {"picked", "relaxed", "blank", "rare"}
         /\ p.how \in {"picked", "blank"} => CommandsIn(p.line) \cap exclude = {}
<1> DEFINE able == Messages[copy][c] \cap Resolvable(data)
           free == {l \in able : CommandsIn(l) \cap exclude = {}}
<1>1. able \subseteq Lines /\ {RareMessage[copy]} \cap Resolvable(data) \subseteq Lines /\ free \subseteq Lines
  BY RotatorConstants DEF Resolvable
<1>2. CASE p \in [line : {RareMessage[copy]} \cap Resolvable(data), how : {"rare"}]
  BY <1>1, <1>2 DEF Shown, Hows
<1>3. CASE p \in [line : free, how : {"picked"}]
  BY <1>1, <1>3 DEF Shown, Hows
<1>4. CASE p \in [line : able, how : {"relaxed"}]
  BY <1>1, <1>4 DEF Shown, Hows
<1>5. CASE p \in [line : {NoLine}, how : {"blank"}]
  BY <1>5 DEF Shown, Hows, CommandsIn
<1>6. p \in Pick(Messages[copy][c], exclude, data) \/
      p \in [line : {RareMessage[copy]} \cap Resolvable(data), how : {"rare"}]
  BY DEF Content
<1>7. CASE p \in Pick(Messages[copy][c], exclude, data)
  <2>1. \/ p \in [line : free, how : {"picked"}] \/ p \in [line : able, how : {"relaxed"}]
        \/ p \in [line : {NoLine}, how : {"blank"}]
    BY <1>7 DEF Pick
  <2>2. QED
    BY <2>1, <1>3, <1>4, <1>5
<1>8. QED
  BY <1>2, <1>6, <1>7
\* A pick keeps off what it excludes, unless its way of being picked tells.
LEMMA LinePicked ==
  ASSUME BusTyped, RotatorsTyped, CornersTyped, NEW c \in Corners, PickLine(c)
  PROVE  /\ CornersTyped' /\ UNCHANGED <<busVars, tripbot, pushes, live, fresh, line, strayed>>
         /\ pick[c] = NoPick /\ pick'[c] \in Shown
         /\ pick' = [pick EXCEPT ![c] = pick'[c]]
         /\ IF pick[Sibling(c)] # NoPick THEN pick'[c].how = "raced"
            ELSE /\ pick'[c].how \in {"picked", "relaxed", "blank", "rare"}
                 /\ pick'[c].how \in {"picked", "blank"} =>
                      CommandsIn(pick'[c].line) \cap SiblingCommands(c) = {}
<1>1. /\ pick[c] = NoPick /\ UNCHANGED <<busVars, tripbot, pushes, live, fresh, line, strayed>>
  BY DEF PickLine
<1>2. PICK p \in Content(c, live, SiblingCommands(c), fresh) :
        pick' = [pick EXCEPT ![c] = IF pick[Sibling(c)] # NoPick THEN [p EXCEPT !.how = "raced"] ELSE p]
  BY DEF PickLine
<1>3. /\ p \in Shown /\ p.how \in {"picked", "relaxed", "blank", "rare"}
      /\ p.how \in {"picked", "blank"} => CommandsIn(p.line) \cap SiblingCommands(c) = {}
  BY <1>2, PicksTyped DEF RotatorsTyped, CornersTyped
<1>4. PICK e \in Shown : e = IF pick[Sibling(c)] # NoPick THEN [p EXCEPT !.how = "raced"] ELSE p
  BY <1>3 DEF Shown, Hows
<1>5. pick' = [pick EXCEPT ![c] = e] /\ pick'[c] = e /\ pick' \in [Corners -> Shown]
  BY <1>2, <1>4 DEF CornersTyped
<1>6. IF pick[Sibling(c)] # NoPick THEN e.how = "raced" ELSE e = p
  BY <1>3, <1>4 DEF Shown
<1>7. CornersTyped'
  BY <1>1, <1>5 DEF CornersTyped
<1>8. QED
  BY <1>1, <1>3, <1>5, <1>6, <1>7

LEMMA LineShown ==
  ASSUME CornersTyped, NEW c \in Corners, ShowLine(c)
  PROVE  /\ CornersTyped' /\ UNCHANGED <<busVars, tripbot, pushes, live, fresh, strayed>>
         /\ pick[c] # NoPick /\ line' = [line EXCEPT ![c] = pick[c]] /\ pick' = [pick EXCEPT ![c] = NoPick]
<1>1. NoPick \in Shown
  BY DEF NoPick, Shown, Hows
<1>2. QED
  BY <1>1 DEF ShowLine, CornersTyped

\* The first lines: right was picked against left's.
LEMMA PrimedTyped ==
  ASSUME NEW l \in PrimedLines
  PROVE  /\ l \in [Corners -> Shown]
         /\ l["right"].how \in {"relaxed", "rare"}
            \/ CommandsIn(l["right"].line) \cap CommandsIn(l["left"].line) = {}
<1>1. PICK a \in Content("left", Default, {}, FALSE) :
        l \in [left : {a}, right : Content("right", Default, CommandsIn(a.line), FALSE)]
  BY DEF PrimedLines
<1>2. PICK b \in Content("right", Default, CommandsIn(a.line), FALSE) : l = [left |-> a, right |-> b]
  BY <1>1
<1>3. a \in Shown /\ b \in Shown
      /\ (b.how \in {"relaxed", "rare"} \/ CommandsIn(b.line) \cap CommandsIn(a.line) = {})
  BY <1>1, <1>2, PicksTyped, DocumentsTyped DEF Corners
<1>4. QED
  BY <1>2, <1>3 DEF Corners
-----------------------------------------------------------------------------
(* Type correctness *)

LEMMA CallSame ==
  ASSUME CallTyped, UNCHANGED <<call, recalled>>, owed'["onscreens"] = owed["onscreens"],
         republish'.pc # "idle" => owed'["tripbot"] > 0
  PROVE  CallTyped'
BY DEF CallTyped

\* What tripbot and the links do not touch.
LEMMA MiddleSame == ASSUME MiddleTyped, UNCHANGED middle PROVE MiddleTyped' /\ recalled' = recalled
BY DEF MiddleTyped, middle

LEMMA RotatorsSame ==
  ASSUME RotatorsTyped, CornersTyped, UNCHANGED rotators
  PROVE  RotatorsTyped' /\ CornersTyped' /\ republish' = republish
BY DEF RotatorsTyped, CornersTyped, rotators, tripbot, corners

LEMMA BusSame == ASSUME BusTyped, UNCHANGED busVars PROVE BusTyped' /\ owed' = owed
BY DEF BusTyped, busVars

LEMMA TypedInit == ASSUME Init PROVE Typed
<1>1. BusTyped
  BY Two DEF Init, BusInit, BusTyped, Messages1
<1>2. MiddleTyped
  BY EmptySeq DEF Init, MiddleBoot, MiddleTyped
<1>3. RotatorsTyped
  BY EmptySeq, DocumentsTyped DEF Init, RotatorBoot, RotatorsTyped, Resting, Steps
<1>4. CornersTyped
  <2>1. line \in PrimedLines /\ pick = [c \in Corners |-> NoPick] /\ fresh = FALSE
    BY DEF Init, RotatorBoot
  <2>2. NoPick \in Shown
    BY DEF NoPick, Shown, Hows
  <2>3. QED
    BY <2>1, <2>2, PrimedTyped DEF CornersTyped
<1>5. CallTyped
  BY DEF Init, CallTyped, Waiting, Places, Messages1, Resting
<1>6. QED
  BY <1>1, <1>2, <1>3, <1>4, <1>5 DEF Typed

\* The callback's own steps.
LEMMA CallbackTyped == ASSUME Typed, Callback PROVE Typed'
<1>1. BusTyped /\ MiddleTyped /\ RotatorsTyped /\ CornersTyped /\ CallTyped
  BY DEF Typed
<1>2. owed \in [Clients -> Nat]
  BY <1>1 DEF BusTyped
<1>3. CASE EnsureStreams
  <2>1. UNCHANGED <<middle, astray, rotators, budget>> /\ Declare("onscreens", Subjects)
    BY <1>3 DEF EnsureStreams
  <2>2. BusTyped' /\ owed' = owed
    BY <1>1, <2>1, DeclareTyped, Two DEF Declare
  <2>3. MiddleTyped' /\ RotatorsTyped' /\ CornersTyped' /\ recalled' = recalled /\ republish' = republish
    BY <1>1, <2>1, MiddleSame, RotatorsSame
  <2>4. /\ call' = [call EXCEPT !.pc = IF recalled THEN "done" ELSE "readMiddle"]
        /\ owed["onscreens"] > 0 /\ call.pc = "idle"
    BY <1>3 DEF EnsureStreams
  <2>5. CallTyped'
    BY <1>1, <2>2, <2>3, <2>4 DEF CallTyped, Places
  <2>6. QED
    BY <2>2, <2>3, <2>5 DEF Typed
<1>4. CASE ReadMiddle
  <2>1. /\ UNCHANGED <<busVars, middle, astray, rotators, budget>>
        /\ call.pc = "readMiddle" /\ call' = [pc |-> "setMiddle", read |-> MiddleRead]
    BY <1>4 DEF ReadMiddle
  <2>2. MiddleRead \in StateRec \cup {None}
    BY <1>1 DEF MiddleRead, BusTyped
  <2>3. /\ BusTyped' /\ MiddleTyped' /\ RotatorsTyped' /\ CornersTyped' /\ recalled' = recalled
        /\ republish' = republish /\ owed' = owed
    BY <1>1, <2>1, MiddleSame, RotatorsSame, BusSame
  <2>4. CallTyped'
    BY <1>1, <2>1, <2>2, <2>3 DEF CallTyped, Places, Messages1
  <2>5. QED
    BY <2>3, <2>4 DEF Typed
<1>5. CASE SetMiddle
  <2>1. /\ UNCHANGED <<busVars, rotators, budget>> /\ RestoreMiddleText(call.read)
        /\ call.pc = "setMiddle" /\ call' = [pc |-> "readCopy", read |-> None]
    BY <1>5 DEF SetMiddle
  <2>2. call.read \in StateRec \cup {None}
    BY <1>1, <2>1 DEF CallTyped
  <2>3. MiddleTyped' /\ recalled'
    BY <1>1, <2>1, <2>2, RestoreTyped
  <2>4. BusTyped' /\ RotatorsTyped' /\ CornersTyped' /\ republish' = republish /\ owed' = owed
    BY <1>1, <2>1, RotatorsSame, BusSame
  <2>5. CallTyped'
    BY <1>1, <2>1, <2>3, <2>4 DEF CallTyped, Places, Messages1
  <2>6. QED
    BY <2>3, <2>4, <2>5 DEF Typed
<1>6. CASE ReadCopy
  <2>1. /\ UNCHANGED <<busVars, middle, astray, rotators, budget>>
        /\ call.pc = "readCopy" /\ call' = [pc |-> "setCopy", read |-> CopyRead]
    BY <1>6 DEF ReadCopy
  <2>2. CopyRead \in Copies \cup {None}
    BY <1>1 DEF CopyRead, BusTyped
  <2>3. /\ BusTyped' /\ MiddleTyped' /\ RotatorsTyped' /\ CornersTyped' /\ recalled' = recalled
        /\ republish' = republish /\ owed' = owed
    BY <1>1, <2>1, MiddleSame, RotatorsSame, BusSame
  <2>4. CallTyped'
    BY <1>1, <2>1, <2>2, <2>3 DEF CallTyped, Places, Messages1
  <2>5. QED
    BY <2>3, <2>4 DEF Typed
<1>7. CASE SetCopy
  <2>1. /\ UNCHANGED <<busVars, middle, astray, budget>> /\ RestoreRotatorCopy(call.read)
        /\ call.pc = "setCopy" /\ call' = [pc |-> "done", read |-> None]
    BY <1>7 DEF SetCopy
  <2>2. RotatorsTyped' /\ UNCHANGED <<record, edits, republish, pushes, fresh, corners>>
    BY <1>1, <2>1, CopyRestored DEF CallTyped
  <2>3. /\ BusTyped' /\ MiddleTyped' /\ CornersTyped' /\ recalled' = recalled /\ owed' = owed
    BY <1>1, <2>1, <2>2, MiddleSame, CornersSame, BusSame
  <2>4. CallTyped'
    BY <1>1, <2>1, <2>2, <2>3 DEF CallTyped, Places, Messages1
  <2>5. QED
    BY <2>2, <2>3, <2>4 DEF Typed
<1>8. CASE EndCall
  <2>1. /\ UNCHANGED <<middle, astray, rotators, budget>> /\ CallbackEnds("onscreens")
        /\ call.pc = "done" /\ call' = Waiting
    BY <1>8 DEF EndCall
  <2>2. owed["onscreens"] > 0
    BY <1>1, <2>1 DEF CallTyped
  <2>3. BusTyped' /\ owed'["tripbot"] = owed["tripbot"]
    BY <1>1, <2>1, <2>2, CallbackEndsTyped, Two
  <2>4. MiddleTyped' /\ RotatorsTyped' /\ CornersTyped' /\ recalled' = recalled /\ republish' = republish
    BY <1>1, <2>1, MiddleSame, RotatorsSame
  <2>5. CallTyped'
    BY <1>1, <2>1, <2>3, <2>4 DEF CallTyped, Places, Messages1, Waiting
  <2>6. QED
    BY <2>3, <2>4, <2>5 DEF Typed
<1>9. QED
  BY <1>3, <1>4, <1>5, <1>6, <1>7, <1>8 DEF Callback

LEMMA LinkTyped == ASSUME Typed, Link PROVE Typed'
<1>1. BusTyped /\ MiddleTyped /\ RotatorsTyped /\ CornersTyped /\ CallTyped
  BY DEF Typed
<1>2. owed \in [Clients -> Nat]
  BY <1>1 DEF BusTyped
<1>3. CASE OnscreensReconnects
  <2>1. LinkReturns("onscreens") /\ UNCHANGED <<middle, rotators, call, budget>>
    BY <1>3 DEF OnscreensReconnects
  <2>2. BusTyped' /\ owed'["onscreens"] = owed["onscreens"] + 1 /\ owed'["tripbot"] = owed["tripbot"]
    BY <1>1, <2>1, LinkReturnsTyped, Two
  <2>3. MiddleTyped' /\ RotatorsTyped' /\ CornersTyped' /\ recalled' = recalled /\ republish' = republish
    BY <1>1, <2>1, MiddleSame, RotatorsSame
  <2>4. CallTyped'
    BY <1>1, <1>2, <2>1, <2>2, <2>3, Two DEF CallTyped
  <2>5. QED
    BY <2>2, <2>3, <2>4 DEF Typed
<1>4. ASSUME NEW c \in Clients, LinkDrops(c), UNCHANGED <<middle, astray, rotators, call>>
      PROVE  Typed'
  <2>1. BusTyped' /\ owed' = owed
    BY <1>1, <1>4, LinkDropsTyped DEF LinkDrops
  <2>2. MiddleTyped' /\ RotatorsTyped' /\ CornersTyped' /\ recalled' = recalled /\ republish' = republish
    BY <1>1, <1>4, MiddleSame, RotatorsSame
  <2>3. CallTyped'
    BY <1>1, <1>4, <2>1, <2>2, CallSame DEF CallTyped
  <2>4. QED
    BY <2>1, <2>2, <2>3 DEF Typed
<1>5. ASSUME NEW wiped \in BOOLEAN, BrokerFails(wiped)
      PROVE  Typed'
  <2>1. BrokerRestarts(wiped) /\ UNCHANGED <<middle, rotators, call>>
    BY <1>5 DEF BrokerFails
  <2>2. BusTyped' /\ owed' = owed
    BY <1>1, <2>1, BrokerRestartsTyped DEF BrokerRestarts
  <2>3. MiddleTyped' /\ RotatorsTyped' /\ CornersTyped' /\ recalled' = recalled /\ republish' = republish
    BY <1>1, <2>1, MiddleSame, RotatorsSame
  <2>4. CallTyped'
    BY <1>1, <2>1, <2>2, <2>3, CallSame DEF CallTyped
  <2>5. QED
    BY <2>2, <2>3, <2>4 DEF Typed
<1>6. CASE OnscreensRestarts
  <2>1. /\ ClientRestarts("onscreens") /\ MiddleReboot /\ RotatorReboot /\ call' = Waiting
        /\ UNCHANGED <<record, edits, republish>>
    BY <1>6 DEF OnscreensRestarts, tripbot
  <2>2. BusTyped' /\ owed'["tripbot"] = owed["tripbot"]
    BY <1>1, <2>1, ClientRestartsTyped, Two
  <2>3. MiddleTyped' /\ ~recalled'
    BY <2>1, RebootTyped
  <2>4. RotatorsTyped'
    BY <1>1, <2>1, EmptySeq, DocumentsTyped DEF RotatorReboot, RotatorsTyped
  <2>5. CornersTyped'
    <3>1. line' \in PrimedLines /\ pick' = [c \in Corners |-> NoPick] /\ fresh' = FALSE
      BY <2>1 DEF RotatorReboot
    <3>2. NoPick \in Shown
      BY DEF NoPick, Shown, Hows
    <3>3. line' \in [Corners -> Shown]
      BY <3>1, PrimedTyped
    <3>4. QED
      BY <3>1, <3>2, <3>3 DEF CornersTyped
  <2>6. CallTyped'
    BY <1>1, <2>1, <2>2 DEF CallTyped, Places, Messages1, Waiting
  <2>7. QED
    BY <2>2, <2>3, <2>4, <2>5, <2>6 DEF Typed
<1>7. CASE TripbotReconnects /\ UNCHANGED <<middle, astray, call, budget>>
  <2>1. /\ BusTyped' /\ RotatorsTyped' /\ UNCHANGED <<republish, fresh, corners>>
        /\ owed'["tripbot"] = owed["tripbot"] + 1 /\ owed'["onscreens"] = owed["onscreens"]
    BY <1>1, <1>7, TripbotReconnected
  <2>2. MiddleTyped' /\ recalled' = recalled /\ CornersTyped'
    BY <1>1, <1>7, <2>1, MiddleSame, CornersSame
  <2>3. CallTyped'
    BY <1>1, <1>2, <1>7, <2>1, <2>2, CallSame, Two
  <2>4. QED
    BY <2>1, <2>2, <2>3 DEF Typed
<1>8. CASE TripbotRestarts /\ UNCHANGED <<middle, astray, call>>
  <2>1. /\ BusTyped' /\ RotatorsTyped' /\ UNCHANGED <<fresh, corners>>
        /\ republish'.pc = "idle" /\ owed'["onscreens"] = owed["onscreens"]
    BY <1>1, <1>8, TripbotRestarted
  <2>2. MiddleTyped' /\ recalled' = recalled /\ CornersTyped'
    BY <1>1, <1>8, <2>1, MiddleSame, CornersSame
  <2>3. CallTyped'
    BY <1>1, <1>8, <2>1, <2>2, CallSame
  <2>4. QED
    BY <2>1, <2>2, <2>3 DEF Typed
<1>9. QED
  BY <1>3, <1>4, <1>5, <1>6, <1>7, <1>8, Two DEF Link, OnscreensDrops, TripbotDrops

LEMMA OutsideTyped == ASSUME Typed, Outside PROVE Typed'
<1>1. BusTyped /\ MiddleTyped /\ RotatorsTyped /\ CornersTyped /\ CallTyped
  BY DEF Typed
<1>2. ASSUME UNCHANGED <<rotators, call>>, NEW text \in Texts, NEW timed \in BOOLEAN,
             ShowArrives(text, timed) \/ HideArrives
      PROVE  Typed'
  <2>1. BusTyped' /\ MiddleTyped' /\ UNCHANGED busVars /\ recalled' = recalled
    BY <1>1, <1>2, Arrived
  <2>2. RotatorsTyped' /\ CornersTyped' /\ republish' = republish
    BY <1>1, <1>2, RotatorsSame
  <2>3. CallTyped'
    BY <1>1, <1>2, <2>1, <2>2, CallSame, BusSame DEF CallTyped
  <2>4. QED
    BY <2>1, <2>2, <2>3 DEF Typed
<1>3. ASSUME UNCHANGED <<rotators, call>>, HideArrives
      PROVE  Typed'
  <2>1. UNCHANGED busVars /\ UNCHANGED <<content, isShowing, middleExpiry, armed, fired, shows, recalled>>
        /\ hides' = hides + 1
    BY <1>3 DEF HideArrives
  <2>2. MiddleTyped' /\ BusTyped' /\ owed' = owed
    BY <1>1, <2>1, BusSame DEF MiddleTyped
  <2>3. RotatorsTyped' /\ CornersTyped' /\ republish' = republish
    BY <1>1, <1>3, RotatorsSame
  <2>4. CallTyped'
    BY <1>1, <1>3, <2>1, <2>2, <2>3, CallSame DEF CallTyped
  <2>5. QED
    BY <2>2, <2>3, <2>4 DEF Typed
<1>4. ASSUME UNCHANGED <<middle, astray, call>>, NEW r \in Requests, NEW row \in Copies \cup {None},
             StoreEdit(r, row)
      PROVE  Typed'
  <2>1. /\ BusTyped' /\ RotatorsTyped' /\ owed' = owed
        /\ UNCHANGED <<republish, fresh, corners>>
    BY <1>1, <1>4, EditStored DEF busVars
  <2>2. MiddleTyped' /\ recalled' = recalled /\ CornersTyped'
    BY <1>1, <1>4, <2>1, MiddleSame, CornersSame
  <2>3. CallTyped'
    BY <1>1, <1>4, <2>1, <2>2, CallSame DEF CallTyped
  <2>4. QED
    BY <2>1, <2>2, <2>3 DEF Typed
<1>5. ASSUME UNCHANGED <<middle, astray, call>>, DataChanges
      PROVE  Typed'
  <2>1. /\ UNCHANGED busVars /\ UNCHANGED <<record, edits, republish, pushes, live, corners>>
        /\ fresh' = ~fresh
    BY <1>5 DEF DataChanges, tripbot
  <2>2. RotatorsTyped' /\ CornersTyped'
    BY <1>1, <2>1 DEF RotatorsTyped, CornersTyped, corners
  <2>3. MiddleTyped' /\ recalled' = recalled /\ BusTyped' /\ owed' = owed
    BY <1>1, <1>5, <2>1, MiddleSame, BusSame
  <2>4. CallTyped'
    BY <1>1, <1>5, <2>1, <2>3, CallSame DEF CallTyped
  <2>5. QED
    BY <2>2, <2>3, <2>4 DEF Typed
<1>6. ASSUME UNCHANGED <<middle, astray, call>>, NEW c \in Corners, PickLine(c)
      PROVE  Typed'
  <2>1. CornersTyped' /\ UNCHANGED <<busVars, record, edits, republish, pushes, live>>
    BY <1>1, <1>6, LinePicked DEF tripbot
  <2>2. MiddleTyped' /\ recalled' = recalled /\ BusTyped' /\ owed' = owed
    BY <1>1, <1>6, <2>1, MiddleSame, BusSame
  <2>3. RotatorsTyped'
    BY <1>1, <2>1 DEF RotatorsTyped
  <2>4. CallTyped'
    BY <1>1, <1>6, <2>1, <2>2, CallSame DEF CallTyped
  <2>5. QED
    BY <2>1, <2>2, <2>3, <2>4 DEF Typed
<1>7. QED
  BY <1>2, <1>3, <1>4, <1>5, <1>6 DEF Outside

LEMMA MiddleTurnTyped == ASSUME Typed, Middle PROVE Typed'
<1>1. BusTyped /\ MiddleTyped /\ RotatorsTyped /\ CornersTyped /\ CallTyped /\ UNCHANGED <<rotators, call>>
  BY DEF Typed, Middle, MiddleStep
<1>2. hides \in Nat
  BY <1>1 DEF MiddleTyped
<1>3. BusTyped' /\ MiddleTyped' /\ owed' = owed /\ recalled' = recalled
  <2>1. CASE HandleMiddleShow
    BY <1>1, <2>1, ShowHandled
  <2>2. CASE HandleMiddleHide
    <3>1. HideMiddle /\ hides' \in Nat /\ fired' \subseteq fired
      BY <1>2, <2>2 DEF HandleMiddleHide
    <3>2. QED
      BY <1>1, <3>1, HideHandled
  <2>3. ASSUME NEW t \in Timers, TimerFires(t)
        PROVE  BusTyped' /\ MiddleTyped' /\ owed' = owed /\ recalled' = recalled
    BY <1>1, <2>3, TimerFired, BusSame
  <2>4. ASSUME NEW t \in Timers, ExpireMiddle(t)
        PROVE  BusTyped' /\ MiddleTyped' /\ owed' = owed /\ recalled' = recalled
    BY <1>1, <2>4, Expired
  <2>5. QED
    BY <2>1, <2>2, <2>3, <2>4 DEF Middle
<1>4. RotatorsTyped' /\ CornersTyped' /\ republish' = republish
  BY <1>1, RotatorsSame
<1>5. CallTyped'
  BY <1>1, <1>3, <1>4, CallSame DEF CallTyped
<1>6. QED
  BY <1>3, <1>4, <1>5 DEF Typed

LEMMA RotatorTurnTyped == ASSUME Typed, Rotator PROVE Typed'
<1>1. /\ BusTyped /\ MiddleTyped /\ RotatorsTyped /\ CornersTyped /\ CallTyped
      /\ UNCHANGED <<middle, astray, call, budget>>
  BY DEF Typed, Rotator, RotatorStep
<1>2. MiddleTyped' /\ recalled' = recalled /\ call' = call
  BY <1>1, MiddleSame
<1>3. republish.pc # "idle" => owed["tripbot"] > 0
  BY <1>1 DEF CallTyped
<1>4. /\ BusTyped' /\ RotatorsTyped' /\ CornersTyped' /\ owed'["onscreens"] = owed["onscreens"]
      /\ republish'.pc # "idle" => owed'["tripbot"] > 0
  <2> DEFINE Fine == /\ BusTyped' /\ RotatorsTyped' /\ CornersTyped' /\ owed'["onscreens"] = owed["onscreens"]
                     /\ republish'.pc # "idle" => owed'["tripbot"] > 0
  <2>1. ASSUME NEW r \in Requests, PublishEdit(r)
        PROVE  Fine
    BY <1>1, <1>3, <2>1, EditPublished, CornersSame
  <2>2. CASE DeclareCopyStream
    BY <1>1, <1>3, <2>2, StreamDeclared, CornersSame
  <2>3. CASE ListPlatforms
    <3>1. owed["tripbot"] > 0
      BY <1>3, <2>3 DEF ListPlatforms
    <3>2. QED
      BY <1>1, <3>1, <2>3, PlatformsListed, CornersSame DEF CornersTyped
  <2>4. CASE ReadRecord
    BY <1>1, <1>3, <2>4, RecordRead, CornersSame, BusSame
  <2>5. CASE Republish
    BY <1>1, <1>3, <2>5, CopyRepublished, CornersSame
  <2>6. CASE Republished
    <3>1. owed["tripbot"] > 0
      BY <1>3, <2>6 DEF Republished
    <3>2. QED
      BY <1>1, <3>1, <2>6, RepublishEnded, CornersSame DEF CornersTyped
  <2>7. CASE HandleRotatorConfig
    <3>1. BusTyped' /\ RotatorsTyped' /\ owed' = owed
      BY <1>1, <2>7, CopyHandled, BusSame
    <3>2. UNCHANGED <<republish, corners, fresh>>
      BY <2>7 DEF HandleRotatorConfig, tripbot
    <3>3. QED
      BY <1>1, <1>3, <3>1, <3>2, CornersSame
  <2>8. ASSUME NEW c \in Corners, ShowLine(c)
        PROVE  Fine
    <3>1. CornersTyped' /\ UNCHANGED <<busVars, record, edits, republish, pushes, live>>
      BY <1>1, <2>8, LineShown DEF tripbot
    <3>2. RotatorsTyped' /\ BusTyped' /\ owed' = owed
      BY <1>1, <3>1, BusSame DEF RotatorsTyped
    <3>3. QED
      BY <1>3, <3>1, <3>2
  <2>9. Fine
    BY <2>1, <2>2, <2>3, <2>4, <2>5, <2>6, <2>7, <2>8 DEF Rotator
  <2>10. QED
    BY <2>9
<1>5. CallTyped'
  BY <1>1, <1>2, <1>4, CallSame
<1>6. QED
  BY <1>2, <1>4, <1>5 DEF Typed

LEMMA TypedStep == ASSUME Typed, [Next]_vars PROVE Typed'
<1>1. CASE UNCHANGED vars
  BY <1>1 DEF Typed, BusTyped, MiddleTyped, RotatorsTyped, CornersTyped, CallTyped,
              vars, busVars, middle, rotators, tripbot, corners
<1>2. QED
  BY <1>1, CallbackTyped, LinkTyped, OutsideTyped, MiddleTurnTyped, RotatorTurnTyped DEF Next

\* Every variable of the two overlays and of the broker keeps its type, for
\* any texts, lines, copies and requests: no handler leaves a state, a
\* document or a timer of the wrong kind in another's place (messages on the
\* middle stream are middle states, a pending timer is armed or has fired).
THEOREM OnscreensTypeCorrect == Spec => []TypeOK
<1>1. Typed => TypeOK
  <2>1. ASSUME Typed PROVE TypeOK
    BY <2>1 DEF Typed, BusTyped, MiddleTyped, RotatorsTyped, TypeOK, StateRec, State
  <2>2. QED
    BY <2>1
<1>2. Init => Typed
  BY TypedInit
<1>3. Typed /\ [Next]_vars => Typed'
  BY TypedStep
<1>4. QED
  BY <1>1, <1>2, <1>3, PTL DEF Spec
-----------------------------------------------------------------------------
(* The promise of Overlay *)

Clock == IF middleExpiry = NoTimer THEN "none"
         ELSE IF middleExpiry \in fired THEN "over" ELSE "running"

\* Nothing of the screen moves: a stutter.
LEMMA ScreenStands ==
  ASSUME UNCHANGED middle
  PROVE  State' = State /\ Clock' = Clock /\ UNCHANGED <<shows, hides, recalled>>
BY DEF middle, State, Clock

LEMMA Hidden ==
  ASSUME MiddleTyped
  PROVE  [State EXCEPT !.showing = FALSE] = [text |-> content, showing |-> FALSE]
<1>1. ASSUME NEW r \in StateRec
      PROVE  [r EXCEPT !.showing = FALSE] = [text |-> r.text, showing |-> FALSE]
  <2>1. [r EXCEPT !.showing = FALSE] \in StateRec
    BY DEF StateRec
  <2>2. /\ [r EXCEPT !.showing = FALSE].text = r.text
        /\ [r EXCEPT !.showing = FALSE].showing = FALSE
    BY DEF StateRec
  <2>3. \A q \in StateRec : q = [text |-> q.text, showing |-> q.showing]
    BY DEF StateRec
  <2>4. QED
    BY <2>1, <2>2, <2>3
<1>2. State \in StateRec /\ State.text = content
  BY DEF State, StateRec, MiddleTyped
<1>3. QED
  BY <1>1, <1>2

LEMMA PromisedShow ==
  ASSUME BusTyped, MiddleTyped, HandleMiddleShow
  PROVE  Promise!Show
<1>1. /\ State' = [text |-> Head(shows).text, showing |-> TRUE]
      /\ IF Head(shows).timed THEN middleExpiry' # NoTimer /\ middleExpiry' \notin fired'
                              ELSE middleExpiry' = NoTimer
  BY ShowHandled
<1>2. Clock' = IF Head(shows).timed THEN "running" ELSE "none"
  BY <1>1 DEF Clock
<1>3. shows # << >> /\ shows' = Tail(shows) /\ UNCHANGED <<hides, recalled>>
  BY DEF HandleMiddleShow
<1>4. QED
  BY <1>1, <1>2, <1>3 DEF Promise!Show, Clock

LEMMA PromisedHide ==
  ASSUME BusTyped, MiddleTyped, HandleMiddleHide
  PROVE  Promise!Hide
<1>1. hides > 0 /\ hides' = hides - 1 /\ HideMiddle /\ fired' = fired /\ hides \in Nat
  BY DEF HandleMiddleHide, MiddleTyped
<1>2. State' = [text |-> content, showing |-> FALSE] /\ middleExpiry' = NoTimer
  BY <1>1, HideHandled
<1>3. State' = [State EXCEPT !.showing = FALSE]
  BY <1>2, Hidden
<1>4. Clock' = "none"
  BY <1>2 DEF Clock
<1>5. UNCHANGED <<shows, recalled>>
  BY <1>1 DEF HideMiddle
<1>6. QED
  BY <1>1, <1>3, <1>4, <1>5 DEF Promise!Hide, Clock

\* A timer that is not the text's own changes nothing on screen.
LEMMA PromisedTimer ==
  ASSUME BusTyped, MiddleTyped, NEW t \in Timers, TimerFires(t)
  PROVE  Promise!TimeIsUp \/ UNCHANGED <<State, Clock, shows, hides, recalled>>
<1>1. /\ t \in armed /\ fired' = fired \cup {t} /\ t \notin fired /\ t # NoTimer
      /\ UNCHANGED <<content, isShowing, middleExpiry, shows, hides, recalled>>
  BY MiddleConstants DEF TimerFires, MiddleTyped, Timers, NoTimer
<1>2. State' = State
  BY <1>1 DEF State
<1>3. CASE middleExpiry = t
  <2>1. Clock = "running" /\ Clock' = "over"
    BY <1>1, <1>3 DEF Clock
  <2>2. QED
    BY <1>1, <1>2, <2>1 DEF Promise!TimeIsUp, Clock
<1>4. CASE middleExpiry # t
  <2>1. Clock' = Clock
    BY <1>1, <1>4 DEF Clock
  <2>2. QED
    BY <1>1, <1>2, <2>1
<1>5. QED
  BY <1>3, <1>4

LEMMA PromisedExpiry ==
  ASSUME BusTyped, MiddleTyped, NEW t \in Timers, ExpireMiddle(t)
  PROVE  Promise!Expire \/ UNCHANGED <<State, Clock, shows, hides, recalled>>
<1>1. t # NoTimer
  BY MiddleConstants DEF Timers, NoTimer
<1>2. CASE /\ UNCHANGED <<content, isShowing, middleExpiry, shows, hides, recalled, astray>>
           /\ UNCHANGED busVars /\ fired' = fired \ {t} /\ middleExpiry # t
  BY <1>2 DEF State, Clock
<1>3. CASE /\ middleExpiry = t /\ t \in fired /\ HideMiddle /\ middleExpiry' = NoTimer /\ hides' = hides
           /\ Publish("middle.state", State') /\ State' = [text |-> content, showing |-> FALSE]
  <2>1. Clock = "over" /\ Clock' = "none"
    BY <1>1, <1>3 DEF Clock
  <2>2. State' = [State EXCEPT !.showing = FALSE]
    BY <1>3, Hidden
  <2>3. UNCHANGED <<shows, hides, recalled>>
    BY <1>3 DEF HideMiddle
  <2>4. QED
    BY <2>1, <2>2, <2>3 DEF Promise!Expire, Clock
<1>4. QED
  BY <1>2, <1>3, Expired

LEMMA PromisedArrival ==
  ASSUME NEW text \in Texts, NEW timed \in BOOLEAN, ShowArrives(text, timed)
  PROVE  Promise!AskShow
<1>1. /\ shows' = Append(shows, [text |-> text, timed |-> timed])
      /\ UNCHANGED <<content, isShowing, middleExpiry, fired, hides, recalled>>
  BY DEF ShowArrives
<1>2. [text |-> text, timed |-> timed] \in [text : Texts, timed : BOOLEAN]
  OBVIOUS
<1>3. State' = State /\ Clock' = Clock
  BY <1>1 DEF State, Clock
<1>4. QED
  BY <1>1, <1>2, <1>3 DEF Promise!AskShow, Clock

LEMMA PromisedHideArrival == ASSUME HideArrives PROVE Promise!AskHide
<1>1. hides' = hides + 1 /\ UNCHANGED <<content, isShowing, middleExpiry, fired, shows, recalled>>
  BY DEF HideArrives
<1>2. State' = State /\ Clock' = Clock
  BY <1>1 DEF State, Clock
<1>3. QED
  BY <1>1, <1>2 DEF Promise!AskHide, Clock

\* The restore is the recall of this process, and the only one.
LEMMA PromisedRecall == ASSUME Typed, SetMiddle PROVE Promise!Recall
<1>1. /\ call.pc = "setMiddle" /\ RestoreMiddleText(call.read) /\ MiddleTyped
      /\ call.read \in StateRec \cup {None} /\ ~recalled /\ recalled \in BOOLEAN
  BY DEF Typed, CallTyped, MiddleTyped, SetMiddle
<1>2. State' = IF call.read = None THEN State ELSE call.read
  BY <1>1, RestoreTyped
<1>3. State \in StateRec
  BY <1>1 DEF MiddleTyped, State, StateRec
<1>4. State' \in [text : Texts \cup {Blank}, showing : BOOLEAN]
  BY <1>1, <1>2, <1>3 DEF StateRec
<1>5. recalled' = TRUE /\ UNCHANGED <<middleExpiry, fired, shows, hides>>
  BY <1>1 DEF RestoreMiddleText
<1>6. Clock' = Clock
  BY <1>5 DEF Clock
<1>7. QED
  BY <1>1, <1>4, <1>5, <1>6 DEF Promise!Recall, Promise!Screens, Clock

LEMMA PromisedRestart == ASSUME MiddleReboot PROVE Promise!Restart
<1>1. /\ content' = Blank /\ isShowing' = TRUE /\ middleExpiry' = NoTimer
      /\ shows' = << >> /\ hides' = 0 /\ recalled' = FALSE
  BY DEF MiddleReboot
<1>2. State' = [text |-> Blank, showing |-> TRUE] /\ Clock' = "none"
  BY <1>1 DEF State, Clock
<1>3. QED
  BY <1>1, <1>2 DEF Promise!Restart, Promise!Boot, Clock

\* What the screen shows changes only as Overlay lets it: for a show or a
\* hide that was asked for, in order; for the time of the very text on it,
\* never an earlier one's (armMiddleHide and its callback, with timers that
\* fired before they could be stopped); for a new process; and for one
\* recall per process, of a state of the right form, whenever the restore's
\* read and its SetState fall.
THEOREM PromiseIsKept == Spec => PromiseKept
<1>1. Init => Promise!Init
  <2>1. SUFFICES ASSUME Init PROVE Promise!Init
    OBVIOUS
  <2>2. /\ content = Blank /\ isShowing = TRUE /\ middleExpiry = NoTimer
        /\ shows = << >> /\ hides = 0 /\ recalled = FALSE
    BY <2>1 DEF Init, MiddleBoot
  <2>3. QED
    BY <2>2 DEF Promise!Init, Promise!Boot, State
<1>2. Typed /\ [Next]_vars => [Promise!Next]_(Promise!vars)
  <2> SUFFICES ASSUME Typed, [Next]_vars
               PROVE  Promise!Next \/ UNCHANGED <<State, Clock, shows, hides, recalled>>
    BY DEF Promise!vars, Clock
  <2>1. BusTyped /\ MiddleTyped
    BY DEF Typed
  <2>2. CASE UNCHANGED middle
    BY <2>2, ScreenStands
  <2>3. CASE SetMiddle
    BY <2>3, PromisedRecall DEF Promise!Next
  <2>4. CASE OnscreensRestarts
    BY <2>4, PromisedRestart DEF Promise!Next, OnscreensRestarts
  <2>5. CASE Outside
    <3>1. ASSUME NEW text \in Texts, NEW timed \in BOOLEAN, ShowArrives(text, timed)
          PROVE  Promise!AskShow
      BY <3>1, PromisedArrival
    <3>2. CASE HideArrives
      BY <3>2, PromisedHideArrival DEF Promise!Next
    <3>3. QED
      BY <2>2, <2>5, <3>1, <3>2 DEF Outside, Promise!Next
  <2>6. CASE Middle
    <3>1. ASSUME NEW t \in Timers, TimerFires(t) \/ ExpireMiddle(t)
          PROVE  Promise!Next \/ UNCHANGED <<State, Clock, shows, hides, recalled>>
      BY <2>1, <3>1, PromisedTimer, PromisedExpiry DEF Promise!Next
    <3>2. CASE HandleMiddleShow
      BY <2>1, <3>2, PromisedShow DEF Promise!Next
    <3>3. CASE HandleMiddleHide
      BY <2>1, <3>3, PromisedHide DEF Promise!Next
    <3>4. QED
      BY <2>6, <3>1, <3>2, <3>3 DEF Middle
  <2>7. CASE Rotator
    BY <2>2, <2>7 DEF Rotator, RotatorStep
  <2>8. CASE Link /\ ~OnscreensRestarts
    <3>1. UNCHANGED middle
      BY <2>8 DEF Link, OnscreensReconnects, OnscreensDrops, TripbotDrops, BrokerFails
    <3>2. QED
      BY <2>2, <3>1
  <2>9. CASE Callback /\ ~SetMiddle
    <3>1. UNCHANGED middle
      BY <2>9 DEF Callback, EnsureStreams, ReadMiddle, ReadCopy, SetCopy, EndCall
    <3>2. QED
      BY <2>2, <3>1
  <2>10. CASE UNCHANGED vars
    BY <2>2, <2>10 DEF vars
  <2>11. QED
    BY <2>3, <2>4, <2>5, <2>6, <2>7, <2>8, <2>9, <2>10 DEF Next
<1>3. Init => Typed
  BY TypedInit
<1>4. Typed /\ [Next]_vars => Typed'
  BY TypedStep
<1>5. QED
  BY <1>1, <1>2, <1>3, <1>4, PTL DEF Spec, PromiseKept, Promise!Spec
-----------------------------------------------------------------------------
(* No twins *)

Told == {"raced", "relaxed", "rare"}
Clear(p, q) == \/ CommandsIn(p.line) \cap CommandsIn(q.line) = {}
               \/ p.how \in Told \/ q.how \in Told

\* A line up, or about to go up, keeps off its sibling's, or one of the two
\* tells why it need not; of two picks under way, the second is marked.
TwinsInv ==
  /\ Clear(line["left"], line["right"])
  /\ \A c \in Corners : pick[c] # NoPick => Clear(pick[c], line[Sibling(c)])
  /\ pick["left"] # NoPick /\ pick["right"] # NoPick =>
       pick["left"].how = "raced" \/ pick["right"].how = "raced"

LEMMA Siblings ==
  /\ Corners = {"left", "right"} /\ Sibling("left") = "right" /\ Sibling("right") = "left"
  /\ \A c \in Corners : Sibling(c) \in Corners /\ Sibling(c) # c /\ Sibling(Sibling(c)) = c
BY DEF Corners, Sibling

LEMMA CornersMove ==
  ASSUME [Next]_vars
  PROVE  UNCHANGED corners \/ RotatorReboot \/ \E c \in Corners : PickLine(c) \/ ShowLine(c)
<1>1. CASE Callback
  BY <1>1 DEF Callback, EnsureStreams, ReadMiddle, SetMiddle, ReadCopy, SetCopy, EndCall, RestoreRotatorCopy, rotators
<1>2. CASE Link
  BY <1>2 DEF Link, OnscreensReconnects, OnscreensDrops, TripbotDrops, BrokerFails, OnscreensRestarts,
              TripbotReconnects, TripbotRestarts, rotators
<1>3. CASE Outside
  BY <1>3 DEF Outside, StoreEdit, DataChanges, rotators
<1>4. CASE Middle
  BY <1>4 DEF Middle, MiddleStep, rotators
<1>5. CASE Rotator
  BY <1>5 DEF Rotator, PublishEdit, PublishCopy, DeclareCopyStream, ListPlatforms, ReadRecord, Republish,
              Republished, HandleRotatorConfig
<1>6. CASE UNCHANGED vars
  BY <1>6 DEF vars, rotators
<1>7. QED
  BY <1>1, <1>2, <1>3, <1>4, <1>5, <1>6 DEF Next

LEMMA PrimedClear ==
  ASSUME NEW l \in PrimedLines
  PROVE  Clear(l["left"], l["right"])
BY PrimedTyped DEF Clear, Told

LEMMA PickClear ==
  ASSUME Typed, TwinsInv, NEW c \in Corners, PickLine(c)
  PROVE  TwinsInv'
<1>1. /\ BusTyped /\ RotatorsTyped /\ CornersTyped /\ pick \in [Corners -> Shown]
  BY DEF Typed, CornersTyped
<1>2. /\ line' = line /\ pick' = [pick EXCEPT ![c] = pick'[c]]
      /\ IF pick[Sibling(c)] # NoPick THEN pick'[c].how = "raced"
         ELSE /\ pick'[c].how \in {"picked", "relaxed", "blank", "rare"}
              /\ pick'[c].how \in {"picked", "blank"} =>
                   CommandsIn(pick'[c].line) \cap SiblingCommands(c) = {}
  BY <1>1, LinePicked
<1>3. \A d \in Corners : d = c \/ (d = Sibling(c) /\ pick'[d] = pick[d])
  <2>1. PICK e : e = pick'[c]
    OBVIOUS
  <2>2. pick' = [pick EXCEPT ![c] = e]
    BY <1>2, <2>1
  <2>3. QED
    BY <1>1, <2>2, Siblings
<1>4. Clear(pick[c]', line[Sibling(c)])
  BY <1>2 DEF Clear, Told, SiblingCommands
<1>5. \A d \in Corners : pick'[d] # NoPick => Clear(pick'[d], line'[Sibling(d)])
  BY <1>2, <1>3, <1>4 DEF TwinsInv
<1>6. pick[Sibling(c)] # NoPick => pick'[c].how = "raced"
  BY <1>2
<1>7. pick'["left"] # NoPick /\ pick'["right"] # NoPick =>
        pick'["left"].how = "raced" \/ pick'["right"].how = "raced"
  BY <1>3, <1>6, Siblings
<1>8. QED
  BY <1>2, <1>5, <1>7 DEF TwinsInv

LEMMA ShowClear ==
  ASSUME Typed, TwinsInv, NEW c \in Corners, ShowLine(c)
  PROVE  TwinsInv'
<1>1. CornersTyped /\ line \in [Corners -> Shown] /\ pick \in [Corners -> Shown]
  BY DEF Typed, CornersTyped
<1>2. pick[c] # NoPick /\ line' = [line EXCEPT ![c] = pick[c]] /\ pick' = [pick EXCEPT ![c] = NoPick]
  BY <1>1, LineShown
<1>3. /\ line'[c] = pick[c] /\ pick'[c] = NoPick
      /\ line'[Sibling(c)] = line[Sibling(c)] /\ pick'[Sibling(c)] = pick[Sibling(c)]
  BY <1>1, <1>2, Siblings
<1>4. Clear(pick[c], line[Sibling(c)])
  BY <1>2 DEF TwinsInv
<1>5. Clear(line'["left"], line'["right"])
  BY <1>3, <1>4, Siblings DEF Clear
<1>6. ASSUME NEW d \in Corners, pick'[d] # NoPick
      PROVE  Clear(pick'[d], line'[Sibling(d)])
  <2>1. d = Sibling(c) /\ Sibling(d) = c /\ pick[d] # NoPick
    BY <1>3, <1>6, Siblings
  <2>2. pick[c].how = "raced" \/ pick[d].how = "raced"
    BY <1>2, <2>1, Siblings DEF TwinsInv
  <2>3. QED
    BY <1>3, <2>1, <2>2 DEF Clear, Told
<1>7. ~(pick'["left"] # NoPick /\ pick'["right"] # NoPick)
  BY <1>3, Siblings
<1>8. QED
  BY <1>5, <1>6, <1>7 DEF TwinsInv

LEMMA TwinsStep == ASSUME Typed, TwinsInv, [Next]_vars PROVE TwinsInv'
<1>1. CASE UNCHANGED corners
  BY <1>1 DEF TwinsInv, corners
<1>2. CASE RotatorReboot
  <2>1. line' \in PrimedLines /\ pick' = [c \in Corners |-> NoPick]
    BY <1>2 DEF RotatorReboot
  <2>2. Clear(line'["left"], line'["right"])
    BY <2>1, PrimedClear
  <2>3. \A c \in Corners : pick'[c] = NoPick
    BY <2>1
  <2>4. QED
    BY <2>2, <2>3, Siblings DEF TwinsInv
<1>3. QED
  BY <1>1, <1>2, CornersMove, PickClear, ShowClear

LEMMA TwinsInit == ASSUME Init PROVE TwinsInv
<1>1. line \in PrimedLines /\ pick = [c \in Corners |-> NoPick]
  BY DEF Init, RotatorBoot
<1>2. Clear(line["left"], line["right"])
  BY <1>1, PrimedClear
<1>3. \A c \in Corners : pick[c] = NoPick
  BY <1>1
<1>4. QED
  BY <1>2, <1>3, Siblings DEF TwinsInv

LEMMA NoTwinsFollows == ASSUME TwinsInv PROVE NoTwins
BY Siblings DEF TwinsInv, NoTwins, Clear, Told
-----------------------------------------------------------------------------
(* What is kept of the middle text *)

BootState == [text |-> Blank, showing |-> TRUE]
KeptState == kept["middle.state"]
HeldState == buffer["middle.state"]

\* What the client holds back, or the stream keeps, is what is on screen;
\* until the restore ran, a stream that keeps nothing found the boot screen.
MiddleInv ==
  /\ astray \subseteq {"uncaptured", "outdated"}
  /\ HeldState # None => ~link["onscreens"]
  /\ HeldState # None /\ "outdated" \notin astray => HeldState = State
  /\ astray = {} /\ recalled /\ HeldState = None =>
       State = IF KeptState = None THEN BootState ELSE KeptState
  /\ astray = {} /\ ~recalled /\ HeldState = None /\ KeptState = None => State = BootState

LEMMA NoneIsNoState == None \notin StateRec
BY MiddleConstants DEF StateRec

LEMMA MiddleUndisturbed ==
  ASSUME MiddleInv, UNCHANGED <<State, KeptState, HeldState, recalled, astray>>,
         link'["onscreens"] => link["onscreens"]
  PROVE  MiddleInv'
BY DEF MiddleInv

\* A change that is published keeps, holds back or marks what it shows.
LEMMA PublishedStateHeld ==
  ASSUME BusTyped, MiddleInv, State' \in StateRec, PublishMiddleState(State'), recalled' = recalled
  PROVE  MiddleInv'
<1>1. /\ link' = link /\ declared' = declared
      /\ IF link["onscreens"]
         THEN /\ buffer' = buffer
              /\ kept'["middle.state"] = IF "middle.state" \in declared THEN State' ELSE kept["middle.state"]
         ELSE kept' = kept /\ buffer'["middle.state"] = State'
      /\ astray' = IF ~link["onscreens"] THEN astray
                   ELSE IF "middle.state" \in declared THEN {} ELSE {"uncaptured"}
  BY PublishStateTyped DEF PublishMiddleState
<1>2. State' # None
  BY NoneIsNoState
<1>3. CASE ~link["onscreens"]
  <2>1. HeldState' = State' /\ KeptState' = KeptState /\ astray' = astray
    BY <1>1, <1>3 DEF HeldState, KeptState
  <2>2. QED
    BY <1>1, <1>2, <1>3, <2>1 DEF MiddleInv
<1>4. CASE link["onscreens"] /\ "middle.state" \in declared
  <2>1. HeldState' = None /\ KeptState' = State' /\ astray' = {}
    BY <1>1, <1>4 DEF HeldState, KeptState, MiddleInv
  <2>2. QED
    BY <1>2, <2>1 DEF MiddleInv
<1>5. CASE link["onscreens"] /\ "middle.state" \notin declared
  <2>1. HeldState' = None /\ astray' = {"uncaptured"}
    BY <1>1, <1>5 DEF HeldState, MiddleInv
  <2>2. QED
    BY <2>1 DEF MiddleInv
<1>6. QED
  BY <1>3, <1>4, <1>5

LEMMA RestoreHeld ==
  ASSUME Typed, MiddleInv, SetMiddle
  PROVE  MiddleInv'
<1>1. /\ UNCHANGED busVars /\ RestoreMiddleText(call.read) /\ call.pc = "setMiddle"
  BY DEF SetMiddle
<1>2. /\ call.read \in StateRec \cup {None} /\ ~recalled /\ MiddleTyped
  BY <1>1 DEF Typed, CallTyped
<1>3. recalled' /\ State' = IF call.read = None THEN State ELSE call.read
  BY <1>1, <1>2, RestoreTyped
<1>4. astray' = IF call.read # KeptState \/ HeldState # None THEN astray \cup {"outdated"} ELSE astray
  BY <1>1 DEF RestoreMiddleText, KeptState, HeldState
<1>5. KeptState' = KeptState /\ HeldState' = HeldState /\ link' = link
  BY <1>1 DEF busVars, KeptState, HeldState
<1>6. QED
  BY <1>2, <1>3, <1>4, <1>5 DEF MiddleInv

LEMMA ReconnectHeld ==
  ASSUME Typed, MiddleInv, OnscreensReconnects
  PROVE  MiddleInv'
<1>1. /\ BusTyped /\ LinkReturns("onscreens") /\ UNCHANGED middle
      /\ astray' = IF HeldState = None THEN astray
                   ELSE IF "middle.state" \in declared THEN astray \ {"uncaptured"}
                   ELSE astray \cup {"uncaptured"}
  BY DEF OnscreensReconnects, Typed, HeldState
<1>2. \A s \in Subjects :
        IF Publisher(s) = "onscreens" /\ buffer[s] # None
        THEN /\ buffer'[s] = None
             /\ kept'[s] = IF s \in declared THEN buffer[s] ELSE kept[s]
        ELSE buffer'[s] = buffer[s] /\ kept'[s] = kept[s]
  BY <1>1, LinkReturnsTyped, Two
<1>3. IF HeldState # None
      THEN HeldState' = None /\ KeptState' = IF "middle.state" \in declared THEN HeldState ELSE KeptState
      ELSE HeldState' = HeldState /\ KeptState' = KeptState
  BY <1>2, Two DEF HeldState, KeptState
<1>4. State' = State /\ recalled' = recalled
  BY <1>1 DEF middle, State
<1>5. CASE HeldState = None
  BY <1>1, <1>3, <1>4, <1>5 DEF MiddleInv
<1>6. CASE HeldState # None /\ "middle.state" \in declared
  BY <1>1, <1>3, <1>4, <1>6 DEF MiddleInv
<1>7. CASE HeldState # None /\ "middle.state" \notin declared
  BY <1>1, <1>3, <1>4, <1>7 DEF MiddleInv
<1>8. QED
  BY <1>5, <1>6, <1>7

LEMMA BrokerHeld ==
  ASSUME Typed, MiddleInv, NEW wiped \in BOOLEAN, BrokerFails(wiped)
  PROVE  MiddleInv'
<1>1. /\ BusTyped /\ BrokerRestarts(wiped) /\ UNCHANGED middle
      /\ astray' = IF wiped THEN astray \cup {"uncaptured"} ELSE astray
  BY DEF BrokerFails, Typed
<1>2. /\ KeptState' = IF wiped THEN None ELSE KeptState
      /\ ~link'["onscreens"]
  BY <1>1, BrokerRestartsTyped, Two DEF KeptState
<1>3. HeldState' = HeldState /\ State' = State /\ recalled' = recalled
  BY <1>1 DEF BrokerRestarts, HeldState, middle, State
<1>4. QED
  BY <1>1, <1>2, <1>3 DEF MiddleInv

LEMMA RestartHeld ==
  ASSUME Typed, OnscreensRestarts
  PROVE  MiddleInv'
<1>1. /\ BusTyped /\ ClientRestarts("onscreens") /\ astray' = {} /\ MiddleReboot
  BY DEF OnscreensRestarts, Typed
<1>2. HeldState' = None
  BY <1>1, ClientRestartsTyped, Two DEF HeldState
<1>3. State' = BootState /\ ~recalled'
  BY <1>1 DEF MiddleReboot, State, BootState
<1>4. QED
  BY <1>1, <1>2, <1>3 DEF MiddleInv

\* Nothing tripbot publishes, or loses, is about the middle text.
LEMMA TripbotHeld ==
  ASSUME Typed, MiddleInv, UNCHANGED middle, astray' = astray,
         \/ \E r \in Requests : PublishEdit(r)
         \/ Republish \/ DeclareCopyStream \/ ListPlatforms \/ Republished
         \/ TripbotReconnects \/ TripbotRestarts
  PROVE  MiddleInv'
<1>1. BusTyped /\ RotatorsTyped /\ CallTyped
  BY DEF Typed
<1>2. State' = State /\ recalled' = recalled
  BY DEF middle, State
<1>3. ASSUME NEW copy \in Copies, PublishCopy(copy)
      PROVE  UNCHANGED <<link, KeptState, HeldState>>
  <2>1. Publish("rotator.config", copy)
    BY <1>3 DEF PublishCopy
  <2>2. QED
    BY <1>1, <2>1, PublishCopyTyped DEF KeptState, HeldState
<1>4. CASE \E r \in Requests : PublishEdit(r)
  <2>1. PICK r \in Requests : PublishEdit(r)
    BY <1>4
  <2>2. QED
    BY <1>1, <1>2, <1>3, <2>1, EditPublished, MiddleUndisturbed
<1>5. CASE Republish
  BY <1>1, <1>2, <1>3, <1>5, CopyRepublished, MiddleUndisturbed
<1>6. CASE DeclareCopyStream
  BY <1>2, <1>6, MiddleUndisturbed DEF DeclareCopyStream, Declare, KeptState, HeldState
<1>7. CASE ListPlatforms \/ Republished
  BY <1>2, <1>7, MiddleUndisturbed DEF ListPlatforms, Republished, CallbackEnds, KeptState, HeldState, busVars
<1>8. CASE TripbotReconnects
  BY <1>1, <1>2, <1>8, TripbotReconnected, MiddleUndisturbed DEF KeptState, HeldState
<1>9. CASE TripbotRestarts
  BY <1>1, <1>2, <1>9, TripbotRestarted, MiddleUndisturbed DEF KeptState, HeldState
<1>10. QED
  BY <1>4, <1>5, <1>6, <1>7, <1>8, <1>9

LEMMA BusStillHeld ==
  ASSUME MiddleInv, UNCHANGED <<content, isShowing, recalled, astray>>, UNCHANGED busVars
  PROVE  MiddleInv'
BY MiddleUndisturbed DEF State, KeptState, HeldState, busVars

LEMMA MiddleHeld == ASSUME Typed, MiddleInv, [Next]_vars PROVE MiddleInv'
<1>1. BusTyped /\ MiddleTyped /\ RotatorsTyped
  BY DEF Typed
<1>2. CASE Callback
  <2>1. CASE EnsureStreams
    <3>1. UNCHANGED <<content, isShowing, recalled, astray, link, kept, buffer>>
      BY <2>1 DEF EnsureStreams, Declare, middle
    <3>2. QED
      BY <3>1, MiddleUndisturbed DEF State, KeptState, HeldState
  <2>2. CASE ReadMiddle \/ ReadCopy \/ SetCopy
    BY <2>2, BusStillHeld DEF ReadMiddle, ReadCopy, SetCopy, middle
  <2>3. CASE EndCall
    <3>1. UNCHANGED <<content, isShowing, recalled, astray, link, kept, buffer>>
      BY <2>3 DEF EndCall, CallbackEnds, middle
    <3>2. QED
      BY <3>1, MiddleUndisturbed DEF State, KeptState, HeldState
  <2>4. QED
    BY <1>2, <2>1, <2>2, <2>3, RestoreHeld DEF Callback
<1>3. CASE Link
  <2>1. ASSUME NEW c \in Clients, LinkDrops(c), UNCHANGED <<middle, astray, rotators, call>>
        PROVE  MiddleInv'
    <3>1. /\ UNCHANGED <<content, isShowing, recalled, astray, kept, buffer>>
          /\ link'["onscreens"] => link["onscreens"]
      BY <1>1, <2>1, LinkDropsTyped, Two DEF LinkDrops, middle
    <3>2. QED
      BY <3>1, MiddleUndisturbed DEF State, KeptState, HeldState
  <2>2. CASE TripbotReconnects /\ UNCHANGED <<middle, astray, call, budget>>
    BY <2>2, TripbotHeld
  <2>3. CASE TripbotRestarts /\ UNCHANGED <<middle, astray, call>>
    BY <2>3, TripbotHeld
  <2>4. QED
    BY <1>3, <2>1, <2>2, <2>3, Two, ReconnectHeld, BrokerHeld, RestartHeld DEF Link, OnscreensDrops, TripbotDrops
<1>4. CASE Outside
  BY <1>4, BusStillHeld DEF Outside, ShowArrives, HideArrives, StoreEdit, DataChanges, PickLine, middle
<1>5. CASE Middle
  <2>1. CASE HandleMiddleShow
    <3>1. /\ recalled' = recalled /\ State' = [text |-> Head(shows).text, showing |-> TRUE]
          /\ MiddleTyped'
      BY <1>1, <2>1, ShowHandled
    <3>2. State' \in StateRec /\ PublishMiddleState(State')
      BY <2>1, <3>1 DEF HandleMiddleShow, MiddleTyped, State, StateRec
    <3>3. QED
      BY <1>1, <3>1, <3>2, PublishedStateHeld
  <2>2. ASSUME HideMiddle, hides' \in Nat, fired' \subseteq fired
        PROVE  MiddleInv'
    <3>1. recalled' = recalled /\ State' = [text |-> content, showing |-> FALSE] /\ MiddleTyped'
      BY <1>1, <2>2, HideHandled
    <3>2. State' \in StateRec /\ PublishMiddleState(State')
      BY <2>2, <3>1 DEF HideMiddle, MiddleTyped, State, StateRec
    <3>3. QED
      BY <1>1, <3>1, <3>2, PublishedStateHeld
  <2>3. CASE HandleMiddleHide
    <3>1. HideMiddle /\ fired' \subseteq fired /\ hides > 0 /\ hides' = hides - 1 /\ hides \in Nat
      BY <1>1, <2>3 DEF HandleMiddleHide, MiddleTyped
    <3>2. QED
      BY <2>2, <3>1
  <2>4. ASSUME NEW t \in Timers, TimerFires(t)
        PROVE  MiddleInv'
    BY <2>4, BusStillHeld DEF TimerFires
  <2>5. ASSUME NEW t \in Timers, ExpireMiddle(t)
        PROVE  MiddleInv'
    <3>1. CASE HideMiddle
      BY <1>1, <2>2, <2>5, <3>1 DEF ExpireMiddle, MiddleTyped
    <3>2. QED
      BY <2>5, <3>1, BusStillHeld DEF ExpireMiddle
  <2>6. QED
    BY <1>5, <2>1, <2>3, <2>4, <2>5 DEF Middle
<1>6. CASE Rotator
  <2>1. UNCHANGED middle /\ astray' = astray
    BY <1>6 DEF Rotator, RotatorStep
  <2>2. CASE ReadRecord \/ HandleRotatorConfig \/ \E c \in Corners : ShowLine(c)
    BY <2>1, <2>2, BusStillHeld DEF ReadRecord, HandleRotatorConfig, ShowLine, middle
  <2>3. QED
    BY <1>6, <2>1, <2>2, TripbotHeld DEF Rotator
<1>7. CASE UNCHANGED vars
  BY <1>7, BusStillHeld DEF vars, middle
<1>8. QED
  BY <1>2, <1>3, <1>4, <1>5, <1>6, <1>7 DEF Next

LEMMA MiddleInit == ASSUME Init PROVE MiddleInv
BY Two DEF Init, BusInit, MiddleBoot, MiddleInv, HeldState, KeptState, State, BootState

LEMMA DurableFollows == ASSUME MiddleInv PROVE MiddleIsDurable
BY DEF MiddleInv, MiddleIsDurable, Quiet, HeldState, KeptState, BootState
-----------------------------------------------------------------------------
(* What is kept of the copy, and what the corners rotate through *)

SavedCopy == kept["rotator.config"]
HeldCopy  == buffer["rotator.config"]
\* tripbot's callback has no run to come but the one under way, if any; it is
\* through when that one has published, and the console's edits have too.
Started   == IF republish.pc = "idle" THEN 0 ELSE 1
NoneToCome == link["tripbot"] /\ owed["tripbot"] = Started
Through    == NoneToCome /\ republish.pc \in {"idle", "published"} /\ EditsDone
Bound(queue, shown) == IF queue = << >> THEN shown ELSE queue[Len(queue)]
Unrestored == ~recalled \/ call.pc \in {"readCopy", "setCopy"}

\* A connected tripbot holds no copy back, and a stream that keeps one is declared.
StreamInv ==
  /\ HeldCopy # None => ~link["tripbot"]
  /\ SavedCopy # None => "rotator.config" \in declared
  /\ NoneToCome => "rotator.config" \in declared

\* What the stream keeps when tripbot is through.
SavedInv == Through /\ record # None /\ "stale" \notin strayed => SavedCopy = record

\* The last copy on its way to the corners, or the one they have, is the
\* record, unless the restore has yet to bring it.
LiveInv ==
  Through /\ record # None /\ strayed = {} =>
    Bound(pushes, live) = record \/ (pushes = << >> /\ Unrestored)

\* Without a record nothing but the compiled-in copy is kept or on its way.
NoneInv ==
  record = None /\ EditsDone /\ strayed \cap {"stale", "lost"} = {} =>
    \/ HeldCopy = Default
    \/ /\ HeldCopy = None /\ SavedCopy \in {None, Default}
       /\ strayed \cap {"missed", "outdated"} = {} => Bound(pushes, live) = Default

CopiesInv == StreamInv /\ SavedInv /\ LiveInv /\ NoneInv

LEMMA BoundAppend ==
  ASSUME NEW queue \in Seq(Copies), NEW copy \in Copies, NEW shown
  PROVE  Bound(Append(queue, copy), shown) = copy /\ Append(queue, copy) # << >>
BY DEF Bound

LEMMA BoundRest ==
  ASSUME NEW queue \in Seq(Copies), NEW rest \in Seq(Copies), NEW l \in Nat, NEW k \in Nat,
         l = Len(queue), k = Len(rest), l = k + 1,
         \A i \in 1 .. k : rest[i] = queue[i + 1], NEW shown
  PROVE  Bound(rest, queue[1]) = Bound(queue, shown)
<1>1. queue # << >> /\ (k = 0 <=> rest = << >>)
  <2>1. l # 0
    OBVIOUS
  <2>2. Len(queue) # 0 /\ Len(<< >>) = 0
    BY <2>1, EmptySeq
  <2>3. queue # << >>
    BY <2>2
  <2>4. Len(rest) = 0 <=> rest = << >>
    BY EmptySeq
  <2>5. QED
    BY <2>3, <2>4
<1>2. k # 0 => rest[k] = queue[l]
  OBVIOUS
<1>3. k = 0 => queue[l] = queue[1]
  OBVIOUS
<1>4. QED
  BY <1>1, <1>2, <1>3 DEF Bound
LEMMA BoundTail ==
  ASSUME NEW queue \in Seq(Copies), queue # << >>, NEW shown
  PROVE  Bound(Tail(queue), Head(queue)) = Bound(queue, shown)
<1>1. /\ Len(queue) \in Nat /\ Len(Tail(queue)) \in Nat /\ Len(queue) = Len(Tail(queue)) + 1
      /\ Tail(queue) \in Seq(Copies) /\ Head(queue) = queue[1]
      /\ \A i \in 1 .. Len(Tail(queue)) : Tail(queue)[i] = queue[i + 1]
  BY HeadTailProperties, EmptySeq
<1>2. PICK rest \in Seq(Copies) : rest = Tail(queue)
  BY <1>1
<1>3. Bound(rest, queue[1]) = Bound(queue, shown)
  BY <1>1, <1>2, BoundRest
<1>4. QED
  BY <1>1, <1>2, <1>3

LEMMA CopiesSame ==
  ASSUME CopiesInv, UNCHANGED <<record, edits, republish, pushes, live, strayed, SavedCopy, HeldCopy>>,
         owed'["tripbot"] = owed["tripbot"], link'["tripbot"] => link["tripbot"],
         declared \subseteq declared', Unrestored => Unrestored'
  PROVE  CopiesInv'
<1>1. (Through' => Through) /\ (NoneToCome' => NoneToCome) /\ EditsDone' = EditsDone
  BY DEF Through, NoneToCome, Started, EditsDone
<1>2. StreamInv'
  BY <1>1 DEF CopiesInv, StreamInv
<1>3. SavedInv' /\ LiveInv' /\ NoneInv'
  BY <1>1 DEF CopiesInv, SavedInv, LiveInv, NoneInv
<1>4. QED
  BY <1>2, <1>3 DEF CopiesInv

\* Where the restore stands is onscreens-server's own business.
LEMMA UnrestoredSame == ASSUME UNCHANGED <<call, recalled>> PROVE Unrestored' = Unrestored
BY DEF Unrestored

LEMMA CopyPublishedKept ==
  ASSUME Typed, CopiesInv, NEW copy \in Copies, PublishCopy(copy), record' = record, Started' = Started
  PROVE  CopiesInv'
<1>1. BusTyped /\ RotatorsTyped
  BY DEF Typed
<1>2. /\ link' = link /\ declared' = declared /\ owed' = owed
      /\ IF link["tripbot"]
         THEN /\ HeldCopy' = HeldCopy
              /\ SavedCopy' = IF "rotator.config" \in declared THEN copy ELSE SavedCopy
         ELSE SavedCopy' = SavedCopy /\ HeldCopy' = copy
  BY <1>1, PublishCopyTyped DEF PublishCopy, HeldCopy, SavedCopy
<1>3. /\ copy # OrDefault(record) => "stale" \in strayed'
      /\ link["tripbot"] /\ ~link["onscreens"] => "missed" \in strayed'
      /\ pushes' = IF link["tripbot"] /\ link["onscreens"] THEN Append(pushes, copy) ELSE pushes
  BY DEF PublishCopy
<1>4. (NoneToCome' => NoneToCome) /\ (NoneToCome' => link["tripbot"])
  BY <1>2 DEF NoneToCome
<1>5. StreamInv'
  BY <1>2, <1>4 DEF CopiesInv, StreamInv
<1>6. link["tripbot"] /\ link["onscreens"] => Bound(pushes', live') = copy
  BY <1>1, <1>3, BoundAppend DEF RotatorsTyped
<1>7. SavedInv'
  <2>1. SUFFICES ASSUME Through', record' # None, "stale" \notin strayed'
                 PROVE  SavedCopy' = record'
    BY DEF SavedInv
  <2>2. NoneToCome /\ link["tripbot"] /\ "rotator.config" \in declared
    BY <1>4, <2>1 DEF Through, CopiesInv, StreamInv
  <2>3. copy = record
    BY <1>3, <2>1 DEF OrDefault
  <2>4. QED
    BY <1>2, <2>2, <2>3
<1>8. LiveInv'
  <2>1. SUFFICES ASSUME Through', record' # None, strayed' = {}
                 PROVE  Bound(pushes', live') = record'
    BY DEF LiveInv
  <2>2. link["tripbot"] /\ link["onscreens"] /\ copy = record
    BY <1>3, <1>4, <2>1 DEF Through, OrDefault
  <2>3. QED
    BY <1>6, <2>2
<1>9. NoneInv'
  <2>1. SUFFICES ASSUME record' = None, strayed' \cap {"stale", "lost"} = {}
                 PROVE  \/ HeldCopy' = Default
                        \/ /\ HeldCopy' = None /\ SavedCopy' \in {None, Default}
                           /\ strayed' \cap {"missed", "outdated"} = {} => Bound(pushes', live') = Default
    BY DEF NoneInv
  <2>2. copy = Default
    BY <1>3, <2>1 DEF OrDefault
  <2>3. CASE ~link["tripbot"]
    BY <1>2, <2>2, <2>3
  <2>4. CASE link["tripbot"]
    <3>1. HeldCopy' = None /\ SavedCopy' \in {None, Default}
      BY <1>2, <2>2, <2>4 DEF CopiesInv, StreamInv
    <3>2. "missed" \notin strayed' => link["onscreens"]
      BY <1>3, <2>4
    <3>3. QED
      BY <1>6, <2>2, <2>4, <3>1, <3>2
  <2>5. QED
    BY <2>3, <2>4
<1>10. QED
  BY <1>5, <1>7, <1>8, <1>9 DEF CopiesInv

LEMMA EditStoredKept ==
  ASSUME Typed, CopiesInv, NEW r \in Requests, NEW row \in Copies \cup {None}, StoreEdit(r, row)
  PROVE  CopiesInv'
<1>1. /\ UNCHANGED busVars /\ UNCHANGED <<republish, strayed>> /\ edits'[r] # None
  BY EditStored DEF Typed
<1>2. ~EditsDone'
  BY <1>1 DEF EditsDone
<1>3. StreamInv'
  BY <1>1 DEF CopiesInv, StreamInv, busVars, HeldCopy, SavedCopy, NoneToCome, Started
<1>4. QED
  BY <1>2, <1>3 DEF CopiesInv, SavedInv, LiveInv, NoneInv, Through

LEMMA StreamDeclaredKept ==
  ASSUME Typed, CopiesInv, DeclareCopyStream, UNCHANGED <<call, recalled>>
  PROVE  CopiesInv'
<1>1. /\ owed' = owed /\ republish.pc = "idle" /\ republish'.pc = "list"
      /\ UNCHANGED <<record, edits, pushes, live, strayed, link, SavedCopy, HeldCopy>>
      /\ declared \subseteq declared' /\ (link["tripbot"] => "rotator.config" \in declared')
  BY StreamDeclared DEF Typed, SavedCopy, HeldCopy
<1>2. StreamInv'
  BY <1>1 DEF CopiesInv, StreamInv, NoneToCome
<1>3. ~Through' /\ EditsDone' = EditsDone
  BY <1>1 DEF Through, EditsDone
<1>4. QED
  BY <1>1, <1>2, <1>3 DEF CopiesInv, SavedInv, LiveInv, NoneInv

LEMMA PlatformsListedKept ==
  ASSUME Typed, CopiesInv, ListPlatforms, UNCHANGED <<call, recalled>>
  PROVE  CopiesInv'
<1>1. owed["tripbot"] > 0 /\ owed["tripbot"] \in Nat
  BY Two DEF Typed, CallTyped, ListPlatforms, BusTyped
<1>2. /\ UNCHANGED <<record, edits, pushes, live, strayed, link, declared, SavedCopy, HeldCopy>>
      /\ republish.pc = "list"
      /\ IF record = None
         THEN republish'.pc = "idle" /\ owed'["tripbot"] = owed["tripbot"] - 1
         ELSE republish'.pc = "read" /\ owed' = owed
  BY <1>1, PlatformsListed DEF Typed, SavedCopy, HeldCopy
<1>3. NoneToCome' = NoneToCome /\ (record # None => ~Through') /\ EditsDone' = EditsDone
  BY <1>1, <1>2 DEF NoneToCome, Started, Through, EditsDone
<1>4. StreamInv'
  BY <1>2, <1>3 DEF CopiesInv, StreamInv
<1>5. QED
  BY <1>2, <1>3, <1>4 DEF CopiesInv, SavedInv, LiveInv, NoneInv

LEMMA RecordReadKept ==
  ASSUME Typed, CopiesInv, ReadRecord
  PROVE  CopiesInv'
<1>1. /\ UNCHANGED busVars /\ republish.pc = "read" /\ republish'.pc = "publish"
      /\ UNCHANGED <<record, edits, pushes, live, strayed>>
  BY RecordRead DEF Typed
<1>2. UNCHANGED <<SavedCopy, HeldCopy, link, declared>> /\ NoneToCome' = NoneToCome
  BY <1>1 DEF busVars, SavedCopy, HeldCopy, NoneToCome, Started
<1>3. ~Through' /\ EditsDone' = EditsDone
  BY <1>1 DEF Through, EditsDone
<1>4. QED
  BY <1>1, <1>2, <1>3 DEF CopiesInv, StreamInv, SavedInv, LiveInv, NoneInv

LEMMA RepublishedKept ==
  ASSUME Typed, CopiesInv, Republished, UNCHANGED <<call, recalled>>
  PROVE  CopiesInv'
<1>1. owed["tripbot"] > 0 /\ owed["tripbot"] \in Nat
  BY Two DEF Typed, CallTyped, Republished, BusTyped
<1>2. /\ UNCHANGED <<record, edits, pushes, live, strayed, link, declared, SavedCopy, HeldCopy>>
      /\ republish.pc = "published" /\ republish'.pc = "idle" /\ owed'["tripbot"] = owed["tripbot"] - 1
  BY <1>1, RepublishEnded DEF Typed, SavedCopy, HeldCopy
<1>3. NoneToCome' = NoneToCome /\ Through' = Through /\ EditsDone' = EditsDone /\ Unrestored' = Unrestored
  BY <1>1, <1>2 DEF NoneToCome, Started, Through, EditsDone, Unrestored
<1>4. QED
  BY <1>2, <1>3 DEF CopiesInv, StreamInv, SavedInv, LiveInv, NoneInv

\* Handling a push moves what is on its way into place; it forgives an older
\* miss only when the last push is the record.
LEMMA CopyHandledKept ==
  ASSUME Typed, CopiesInv, HandleRotatorConfig, UNCHANGED <<call, recalled>>
  PROVE  CopiesInv'
<1>1. /\ pushes \in Seq(Copies) /\ pushes # << >> /\ live' = Head(pushes) /\ pushes' = Tail(pushes)
      /\ strayed' = Forgiven(Head(pushes)) /\ UNCHANGED <<record, edits, republish, busVars>>
  BY DEF Typed, RotatorsTyped, HandleRotatorConfig, tripbot
<1>2. /\ UNCHANGED <<SavedCopy, HeldCopy, link, declared, owed>>
      /\ NoneToCome' = NoneToCome /\ Through' = Through /\ EditsDone' = EditsDone
  BY <1>1 DEF busVars, SavedCopy, HeldCopy, NoneToCome, Started, Through, EditsDone
<1>3. Bound(pushes', live') = Bound(pushes, live)
  BY <1>1, BoundTail
<1>4. \/ strayed' = strayed
      \/ /\ Head(pushes) = OrDefault(record) /\ Len(pushes) = 1
         /\ strayed' = strayed \ {"missed", "outdated"}
  BY <1>1 DEF Forgiven
<1>5. Len(pushes) = 1 => Bound(pushes, live) = Head(pushes)
  BY <1>1 DEF Bound
<1>6. StreamInv' /\ SavedInv'
  BY <1>1, <1>2, <1>4 DEF CopiesInv, StreamInv, SavedInv
<1>7. LiveInv'
  BY <1>1, <1>2, <1>3, <1>4, <1>5 DEF CopiesInv, LiveInv, OrDefault
<1>8. NoneInv'
  BY <1>1, <1>2, <1>3, <1>4, <1>5 DEF CopiesInv, NoneInv, OrDefault
<1>9. QED
  BY <1>6, <1>7, <1>8 DEF CopiesInv

LEMMA TripbotReconnectedKept ==
  ASSUME Typed, CopiesInv, TripbotReconnects
  PROVE  CopiesInv'
<1>1. BusTyped /\ RotatorsTyped /\ owed["tripbot"] \in Nat
  BY Two DEF Typed, BusTyped
<1>2. /\ UNCHANGED <<record, edits, republish, live>> /\ owed'["tripbot"] = owed["tripbot"] + 1
      /\ declared' = declared /\ HeldCopy' = None
      /\ SavedCopy' = IF HeldCopy # None /\ "rotator.config" \in declared THEN HeldCopy ELSE SavedCopy
      /\ IF HeldCopy = None THEN UNCHANGED <<pushes, strayed>>
         ELSE IF link["onscreens"]
              THEN pushes' = Append(pushes, HeldCopy) /\ UNCHANGED strayed
              ELSE strayed' = strayed \cup {"missed"} /\ UNCHANGED pushes
  BY <1>1, TripbotReconnected DEF SavedCopy, HeldCopy
<1>3. ~NoneToCome' /\ ~Through' /\ EditsDone' = EditsDone
  <2>1. (republish.pc = "idle" => Started = 0) /\ (republish.pc # "idle" => Started = 1 /\ owed["tripbot"] > 0)
    BY DEF Started, Typed, CallTyped
  <2>2. owed'["tripbot"] # Started /\ Started' = Started
    BY <1>1, <1>2, <2>1 DEF Started
  <2>3. QED
    BY <1>2, <2>2 DEF NoneToCome, Through, EditsDone
<1>4. StreamInv'
  BY <1>2, <1>3 DEF CopiesInv, StreamInv
<1>5. NoneInv'
  <2>1. SUFFICES ASSUME record = None, EditsDone, strayed \cap {"stale", "lost"} = {}
                 PROVE  /\ HeldCopy' = None /\ SavedCopy' \in {None, Default}
                        /\ strayed' \cap {"missed", "outdated"} = {} => Bound(pushes', live') = Default
    BY <1>2, <1>3 DEF NoneInv
  <2>2. CASE HeldCopy = None
    BY <1>2, <2>1, <2>2, DocumentsTyped DEF CopiesInv, NoneInv
  <2>3. CASE HeldCopy # None
    <3>1. HeldCopy = Default /\ Default \in Copies
      BY <2>1, <2>3, DocumentsTyped DEF CopiesInv, NoneInv
    <3>2. SavedCopy' \in {None, Default}
      BY <1>2, <2>3, <3>1 DEF CopiesInv, StreamInv
    <3>3. link["onscreens"] => Bound(pushes', live') = Default
      <4>1. ASSUME link["onscreens"]
            PROVE  Bound(pushes', live') = Default
        <5>1. pushes' = Append(pushes, Default) /\ pushes \in Seq(Copies)
          BY <1>1, <1>2, <2>3, <3>1, <4>1 DEF RotatorsTyped
        <5>2. QED
          BY <3>1, <5>1, BoundAppend
      <4>2. QED
        BY <4>1
    <3>4. ~link["onscreens"] => "missed" \in strayed'
      BY <1>2, <2>3
    <3>5. QED
      BY <1>2, <3>2, <3>3, <3>4
  <2>4. QED
    BY <2>2, <2>3
<1>6. QED
  BY <1>3, <1>4, <1>5 DEF CopiesInv, SavedInv, LiveInv

LEMMA TripbotRestartedKept ==
  ASSUME Typed, CopiesInv, TripbotRestarts
  PROVE  CopiesInv'
<1>1. /\ UNCHANGED <<record, pushes, live, declared, SavedCopy>> /\ ~link'["tripbot"] /\ HeldCopy' = None
      /\ strayed' = IF HeldCopy # None \/ \E r \in Requests : edits[r] # None
                    THEN strayed \cup {"lost"} ELSE strayed
  BY TripbotRestarted DEF Typed, HeldCopy, SavedCopy
<1>2. "lost" \notin strayed' => HeldCopy = None /\ EditsDone /\ strayed' = strayed
  BY <1>1 DEF EditsDone
<1>3. NoneInv'
  BY <1>1, <1>2, DocumentsTyped DEF CopiesInv, NoneInv
<1>4. ~Through' /\ StreamInv'
  BY <1>1 DEF Through, NoneToCome, CopiesInv, StreamInv
<1>5. QED
  BY <1>3, <1>4 DEF CopiesInv, SavedInv, LiveInv

LEMMA BrokerFailsKept ==
  ASSUME Typed, CopiesInv, NEW wiped \in BOOLEAN, BrokerFails(wiped)
  PROVE  CopiesInv'
<1>1. /\ BusTyped /\ BrokerRestarts(wiped) /\ UNCHANGED <<record, edits, republish, pushes, live, strayed>>
  BY DEF BrokerFails, Typed, rotators, tripbot
<1>2. /\ ~link'["tripbot"] /\ SavedCopy' = IF wiped THEN None ELSE SavedCopy
  BY <1>1, BrokerRestartsTyped, Two DEF SavedCopy
<1>3. HeldCopy' = HeldCopy /\ declared' = IF wiped THEN {} ELSE declared
  BY <1>1 DEF BrokerRestarts, HeldCopy
<1>4. StreamInv' /\ ~Through' /\ EditsDone' = EditsDone
  BY <1>1, <1>2, <1>3 DEF CopiesInv, StreamInv, NoneToCome, Through, EditsDone
<1>5. NoneInv'
  BY <1>1, <1>2, <1>3, <1>4 DEF CopiesInv, NoneInv
<1>6. QED
  BY <1>4, <1>5 DEF CopiesInv, SavedInv, LiveInv

LEMMA OnscreensRestartsKept ==
  ASSUME Typed, CopiesInv, OnscreensRestarts
  PROVE  CopiesInv'
<1>1. /\ BusTyped /\ ClientRestarts("onscreens") /\ UNCHANGED <<record, edits, republish>>
      /\ live' = Default /\ pushes' = << >> /\ recalled' = FALSE
      /\ strayed' = strayed \ {"missed", "outdated"}
  BY DEF OnscreensRestarts, Typed, tripbot, RotatorReboot, MiddleReboot
<1>2. /\ link'["tripbot"] = link["tripbot"] /\ owed'["tripbot"] = owed["tripbot"]
      /\ UNCHANGED <<SavedCopy, HeldCopy, declared>>
  BY <1>1, ClientRestartsTyped, Two DEF SavedCopy, HeldCopy
<1>3. NoneToCome' = NoneToCome /\ Through' = Through /\ EditsDone' = EditsDone /\ Unrestored'
  BY <1>1, <1>2 DEF NoneToCome, Started, Through, EditsDone, Unrestored
<1>4. StreamInv' /\ SavedInv' /\ LiveInv'
  BY <1>1, <1>2, <1>3 DEF CopiesInv, StreamInv, SavedInv, LiveInv
<1>5. NoneInv'
  BY <1>1, <1>2, <1>3 DEF CopiesInv, NoneInv, Bound
<1>6. QED
  BY <1>4, <1>5 DEF CopiesInv

\* The restore brings what the stream keeps, which is the record, or marks
\* that it read something else.
LEMMA CopyRestoredKept ==
  ASSUME Typed, CopiesInv, SetCopy
  PROVE  CopiesInv'
<1>1. /\ UNCHANGED <<busVars, middle>> /\ RestoreRotatorCopy(call.read) /\ call.pc = "setCopy"
      /\ RotatorsTyped
  BY DEF SetCopy, Typed
<1>2. /\ UNCHANGED <<record, edits, republish, pushes, SavedCopy, HeldCopy, link, declared, owed>>
      /\ live' = IF call.read = None THEN live ELSE call.read
      /\ strayed' = IF call.read # SavedCopy THEN strayed \cup {"outdated"} ELSE strayed
  BY <1>1 DEF RestoreRotatorCopy, busVars, tripbot, SavedCopy, HeldCopy
<1>3. NoneToCome' = NoneToCome /\ Through' = Through /\ EditsDone' = EditsDone
  BY <1>2 DEF NoneToCome, Started, Through, EditsDone
<1>4. /\ pushes # << >> => Bound(pushes', live') = Bound(pushes, live)
      /\ pushes = << >> => Bound(pushes', live') = live'
  BY <1>2 DEF Bound
<1>5. StreamInv' /\ SavedInv'
  BY <1>2, <1>3 DEF CopiesInv, StreamInv, SavedInv
<1>6. LiveInv'
  <2>1. SUFFICES ASSUME Through, record # None, strayed' = {}
                 PROVE  Bound(pushes', live') = record
    BY <1>2, <1>3 DEF LiveInv
  <2>2. strayed = {} /\ call.read = SavedCopy /\ SavedCopy = record
    BY <1>2, <2>1 DEF CopiesInv, SavedInv
  <2>3. QED
    BY <1>2, <1>4, <2>1, <2>2 DEF CopiesInv, LiveInv
<1>7. NoneInv'
  <2>1. SUFFICES ASSUME record = None, EditsDone, strayed' \cap {"stale", "lost"} = {}
                 PROVE  \/ HeldCopy = Default
                        \/ /\ HeldCopy = None /\ SavedCopy \in {None, Default}
                           /\ strayed' \cap {"missed", "outdated"} = {} => Bound(pushes', live') = Default
    BY <1>2, <1>3 DEF NoneInv
  <2>2. strayed \cap {"stale", "lost"} = {}
    BY <1>2, <2>1
  <2>3. CASE HeldCopy = None /\ SavedCopy \in {None, Default}
             /\ (strayed \cap {"missed", "outdated"} = {} => Bound(pushes, live) = Default)
    <3>1. ASSUME strayed' \cap {"missed", "outdated"} = {}
          PROVE  Bound(pushes', live') = Default
      <4>1. call.read = SavedCopy /\ strayed' = strayed /\ Bound(pushes, live) = Default
        BY <1>2, <2>3, <3>1
      <4>2. CASE pushes # << >>
        BY <1>4, <4>1, <4>2
      <4>3. CASE pushes = << >>
        BY <1>2, <1>4, <2>3, <4>1, <4>3 DEF Bound
      <4>4. QED
        BY <4>2, <4>3
    <3>2. QED
      BY <2>3, <3>1
  <2>4. QED
    BY <2>1, <2>2, <2>3 DEF CopiesInv, NoneInv
<1>8. QED
  BY <1>5, <1>6, <1>7 DEF CopiesInv

\* What the middle text publishes leaves the copy alone.
LEMMA MiddleTurnKept ==
  ASSUME Typed, CopiesInv, Middle
  PROVE  CopiesInv'
<1>1. /\ BusTyped /\ MiddleTyped /\ UNCHANGED <<rotators, call>> /\ hides \in Nat
  BY DEF Typed, Middle, MiddleStep, MiddleTyped
<1>2. UNCHANGED <<record, edits, republish, pushes, live, strayed>>
  BY <1>1 DEF rotators, tripbot
<1>3. ASSUME State' \in StateRec, Publish("middle.state", State'), recalled' = recalled
      PROVE  CopiesInv'
  <2>1. UNCHANGED <<link, declared, owed, SavedCopy, HeldCopy>>
    BY <1>1, <1>3, PublishStateTyped DEF SavedCopy, HeldCopy
  <2>2. QED
    BY <1>1, <1>2, <1>3, <2>1, CopiesSame, UnrestoredSame
<1>4. ASSUME UNCHANGED busVars, recalled' = recalled
      PROVE  CopiesInv'
  <2>1. UNCHANGED <<link, declared, owed, SavedCopy, HeldCopy>>
    BY <1>4 DEF SavedCopy, HeldCopy, busVars
  <2>2. QED
    BY <1>1, <1>2, <1>4, <2>1, CopiesSame, UnrestoredSame
<1>5. MiddleTyped' => State' \in StateRec
  BY DEF MiddleTyped, State, StateRec
<1>6. CASE HandleMiddleShow
  BY <1>1, <1>3, <1>5, <1>6, ShowHandled
<1>7. CASE HandleMiddleHide
  <2>1. HideMiddle /\ fired' \subseteq fired /\ hides' \in Nat
    BY <1>1, <1>7 DEF HandleMiddleHide
  <2>2. QED
    BY <1>1, <1>3, <1>5, <2>1, HideHandled
<1>8. ASSUME NEW t \in Timers, TimerFires(t)
      PROVE  CopiesInv'
  BY <1>1, <1>4, <1>8, TimerFired
<1>9. ASSUME NEW t \in Timers, ExpireMiddle(t)
      PROVE  CopiesInv'
  <2>1. MiddleTyped' /\ recalled' = recalled /\ (UNCHANGED busVars \/ Publish("middle.state", State'))
    BY <1>1, <1>9, Expired
  <2>2. QED
    BY <1>3, <1>4, <1>5, <2>1
<1>10. QED
  BY <1>6, <1>7, <1>8, <1>9 DEF Middle

LEMMA CallbackKept ==
  ASSUME Typed, CopiesInv, Callback
  PROVE  CopiesInv'
<1>1. /\ BusTyped /\ (call.pc \in {"readMiddle", "setMiddle"} => ~recalled)
  BY DEF Typed, CallTyped
<1>2. CASE SetCopy
  BY <1>2, CopyRestoredKept
<1>3. CASE ~SetCopy
  <2>1. UNCHANGED rotators
    BY <1>3 DEF Callback, EnsureStreams, ReadMiddle, SetMiddle, ReadCopy, EndCall
  <2>2. UNCHANGED <<record, edits, republish, pushes, live, strayed>>
    BY <2>1 DEF rotators, tripbot
  <2>3. Unrestored => Unrestored'
    <3>1. CASE EnsureStreams
      BY <3>1 DEF EnsureStreams, Unrestored, middle
    <3>2. CASE ReadMiddle \/ ReadCopy
      BY <3>2 DEF ReadMiddle, ReadCopy, Unrestored, middle
    <3>3. CASE SetMiddle
      BY <3>3 DEF SetMiddle, Unrestored
    <3>4. CASE EndCall
      BY <3>4 DEF EndCall, Unrestored, middle
    <3>5. QED
      BY <1>3, <3>1, <3>2, <3>3, <3>4 DEF Callback
  <2>4. UNCHANGED <<link, kept, buffer>> /\ declared \subseteq declared' /\ owed'["tripbot"] = owed["tripbot"]
    <3>1. CASE EnsureStreams
      <4>1. Declare("onscreens", Subjects)
        BY <3>1 DEF EnsureStreams
      <4>2. QED
        BY <1>1, <4>1, DeclareTyped, Two DEF Declare
    <3>2. CASE EndCall
      <4>1. CallbackEnds("onscreens") /\ owed["onscreens"] > 0
        BY <3>2 DEF EndCall, Typed, CallTyped
      <4>2. QED
        BY <1>1, <4>1, CallbackEndsTyped, Two DEF CallbackEnds
    <3>3. QED
      BY <1>3, <3>1, <3>2 DEF Callback, ReadMiddle, SetMiddle, ReadCopy, busVars
  <2>5. QED
    BY <2>2, <2>3, <2>4, CopiesSame DEF SavedCopy, HeldCopy
<1>4. QED
  BY <1>2, <1>3

LEMMA LinkKept ==
  ASSUME Typed, CopiesInv, Link
  PROVE  CopiesInv'
<1>1. BusTyped
  BY DEF Typed
<1>2. CASE OnscreensReconnects
  <2>1. /\ LinkReturns("onscreens") /\ UNCHANGED <<record, edits, republish, pushes, live, strayed>>
        /\ UNCHANGED <<recalled, call>>
    BY <1>2 DEF OnscreensReconnects, rotators, tripbot, middle
  <2>2. \A s \in Subjects :
          IF Publisher(s) = "onscreens" /\ buffer[s] # None
          THEN /\ buffer'[s] = None
               /\ kept'[s] = IF s \in declared THEN buffer[s] ELSE kept[s]
          ELSE buffer'[s] = buffer[s] /\ kept'[s] = kept[s]
    BY <1>1, <2>1, LinkReturnsTyped, Two
  <2>3. UNCHANGED <<SavedCopy, HeldCopy>>
    BY <2>2, Two DEF SavedCopy, HeldCopy
  <2>4. /\ link'["tripbot"] = link["tripbot"] /\ owed'["tripbot"] = owed["tripbot"] /\ declared' = declared
    BY <1>1, <2>1, LinkReturnsTyped, Two
  <2>5. QED
    BY <2>1, <2>3, <2>4, CopiesSame, UnrestoredSame
<1>3. ASSUME NEW c \in Clients, LinkDrops(c), UNCHANGED <<middle, astray, rotators, call>>
      PROVE  CopiesInv'
  <2>1. /\ UNCHANGED <<record, edits, republish, pushes, live, strayed>> /\ UNCHANGED <<recalled, call>>
    BY <1>3 DEF rotators, tripbot, middle
  <2>2. /\ UNCHANGED <<SavedCopy, HeldCopy, declared, owed>> /\ (link'["tripbot"] => link["tripbot"])
    BY <1>1, <1>3, LinkDropsTyped, Two DEF LinkDrops, SavedCopy, HeldCopy
  <2>3. QED
    BY <2>1, <2>2, CopiesSame, UnrestoredSame
<1>4. QED
  BY <1>2, <1>3, Two, BrokerFailsKept, OnscreensRestartsKept, TripbotReconnectedKept, TripbotRestartedKept
     DEF Link, OnscreensDrops, TripbotDrops

LEMMA BusStillKept ==
  ASSUME CopiesInv, UNCHANGED busVars, UNCHANGED <<record, edits, republish, pushes, live, strayed, recalled, call>>
  PROVE  CopiesInv'
BY CopiesSame, UnrestoredSame DEF SavedCopy, HeldCopy, busVars

LEMMA RotatorTurnKept ==
  ASSUME Typed, CopiesInv, Rotator
  PROVE  CopiesInv'
<1>1. BusTyped /\ RotatorsTyped /\ UNCHANGED <<call, recalled>>
  BY DEF Typed, Rotator, RotatorStep, middle
<1>2. ASSUME NEW r \in Requests, PublishEdit(r)
      PROVE  CopiesInv'
  <2>1. edits[r] \in Copies /\ PublishCopy(edits[r]) /\ record' = record /\ republish' = republish
    BY <1>1, <1>2, EditPublished
  <2>2. QED
    BY <2>1, CopyPublishedKept DEF Started
<1>3. CASE Republish
  <2>1. /\ republish.copy \in Copies /\ PublishCopy(republish.copy) /\ record' = record
        /\ republish.pc = "publish" /\ republish'.pc = "published"
    BY <1>1, <1>3, CopyRepublished
  <2>2. QED
    BY <2>1, CopyPublishedKept DEF Started
<1>4. ASSUME NEW c \in Corners, ShowLine(c)
      PROVE  CopiesInv'
  BY <1>1, <1>4, BusStillKept DEF ShowLine, tripbot
<1>5. QED
  BY <1>1, <1>2, <1>3, <1>4, StreamDeclaredKept, PlatformsListedKept, RecordReadKept, RepublishedKept, CopyHandledKept
     DEF Rotator

LEMMA CopiesStep == ASSUME Typed, CopiesInv, [Next]_vars PROVE CopiesInv'
<1>1. CASE Outside
  <2>1. ASSUME UNCHANGED busVars, UNCHANGED <<rotators, call, recalled>>
        PROVE  CopiesInv'
    BY <2>1, BusStillKept DEF rotators, tripbot
  <2>2. ASSUME NEW c \in Corners, DataChanges \/ PickLine(c), UNCHANGED <<middle, astray, call>>
        PROVE  CopiesInv'
    BY <2>2, BusStillKept DEF DataChanges, PickLine, tripbot, middle
  <2>3. ASSUME DataChanges, UNCHANGED <<middle, astray, call>>
        PROVE  CopiesInv'
    BY <2>3, BusStillKept DEF DataChanges, tripbot, middle
  <2>4. QED
    BY <1>1, <2>1, <2>2, <2>3, EditStoredKept DEF Outside, ShowArrives, HideArrives
<1>2. CASE UNCHANGED vars
  BY <1>2, BusStillKept DEF vars, rotators, tripbot, middle
<1>3. QED
  BY <1>1, <1>2, CallbackKept, LinkKept, MiddleTurnKept, RotatorTurnKept DEF Next

LEMMA CopiesInit == ASSUME Init PROVE CopiesInv
<1>1. /\ SavedCopy = None /\ HeldCopy = None /\ ~link["tripbot"] /\ record = None /\ live = Default
      /\ pushes = << >>
  BY Two DEF Init, BusInit, RotatorBoot, SavedCopy, HeldCopy
<1>2. QED
  BY <1>1 DEF CopiesInv, StreamInv, SavedInv, LiveInv, NoneInv, NoneToCome, Through, Bound

LEMMA CopiesFollow ==
  ASSUME Typed, CopiesInv
  PROVE  SavedCopyIsKept /\ LiveIsRecord
<1>1. Quiet("tripbot") => NoneToCome /\ republish.pc = "idle"
  BY Two DEF Quiet, NoneToCome, Started, Typed, CallTyped
<1>2. SavedCopyIsKept
  BY <1>1 DEF CopiesInv, SavedInv, SavedCopyIsKept, Through, SavedCopy
<1>3. Quiet("onscreens") => call.pc = "idle"
  BY Two DEF Quiet, Typed, CallTyped
<1>4. LiveIsRecord
  <2>1. SUFFICES ASSUME Quiet("tripbot"), Quiet("onscreens"), EditsDone, recalled, pushes = << >>, strayed = {}
                 PROVE  live = OrDefault(record)
    BY DEF LiveIsRecord
  <2>2. Bound(pushes, live) = live
    BY <2>1 DEF Bound
  <2>3. CASE record # None
    <3>1. Through /\ ~Unrestored
      BY <1>1, <1>3, <2>1 DEF Through, Unrestored
    <3>2. QED
      BY <2>1, <2>2, <2>3, <3>1 DEF CopiesInv, LiveInv, OrDefault
  <2>4. CASE record = None
    <3>1. HeldCopy = None
      BY <1>1, <2>1 DEF CopiesInv, StreamInv, NoneToCome
    <3>2. QED
      BY <2>1, <2>2, <2>4, <3>1, DocumentsTyped DEF CopiesInv, NoneInv, OrDefault
  <2>5. QED
    BY <2>3, <2>4
<1>5. QED
  BY <1>2, <1>4

\* What is shown is what is kept, however often links drop, the broker
\* restarts or loses its disk and either process stops: the middle text comes
\* back as it was on screen (publishMiddleState, RestoreMiddleText); a copy
\* the console saved is the one the stream keeps and the corners rotate
\* through (PublishRotatorConfig, ensureRotatorCopyPublished,
\* RestoreRotatorCopy), unless one of the named races came between; and the
\* corners advertise one command twice only when a pick says why.
THEOREM ShownIsAlwaysKept == Spec => []ShownIsKept
<1> DEFINE Inv == Typed /\ TwinsInv /\ MiddleInv /\ CopiesInv
<1>1. Init => Inv
  BY TypedInit, TwinsInit, MiddleInit, CopiesInit
<1>2. Inv /\ [Next]_vars => Inv'
  BY TypedStep, TwinsStep, MiddleHeld, CopiesStep
<1>3. Inv => ShownIsKept
  BY NoTwinsFollows, DurableFollows, CopiesFollow DEF ShownIsKept
<1>4. QED
  BY <1>1, <1>2, <1>3, PTL DEF Spec
==============================================================================
