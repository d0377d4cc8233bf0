------------------------------ MODULE Accounts ------------------------------
(* The viewers' rows beside their session entries, for what the miles do not   *)
(* depend on: the marks an operator sets from the presence report, the         *)
(* platform's own user id, and the leaderboard kept in memory.  Every goroutine *)
(* works on copies, so two workers meet in every order.                        *)
EXTENDS Naturals

CONSTANTS
  Users,          \* usernames, each with a row
  Ids, NoId,      \* the platform's user ids; a person who renames keeps theirs
  NoEntry,
  Workers,        \* cron jobs, the chat poller, HTTP handlers
  Unset,          \* a mark the request body leaves out
  Bodies,         \* the bodies requests come with
  LastTick, Asks, Failures     \* bounds: the clock, flag requests, failing calls

ASSUME AccountsConstants ==
  /\ NoId \notin Ids /\ Unset \notin BOOLEAN
  /\ Bodies \subseteq [bot : BOOLEAN \cup {Unset}, excluded : BOOLEAN \cup {Unset},
                       starred : BOOLEAN \cup {Unset}]
  /\ {LastTick, Asks, Failures} \subseteq Nat

VARIABLES
  rows, entry,    \* users, and Sessions.loggedIn
  board,          \* Sessions.lifetimeLeaderboard, as the miles it shows
  job,            \* what each worker is doing, and the copy it carries
  set,            \* the is_bot and exclude_from_leaderboard last set by hand
  crossed,        \* viewers whose is_bot was set beside another copy, or not written
  twice,          \* viewers two goroutines were logging in at once
  took,           \* took[u]: the ids the database has taken for u
  now, asks, failures

accountVars == <<rows, entry, board, job, set, crossed, twice, took, now, asks, failures>>

Row == [bot : BOOLEAN, excluded : BOOLEAN, starred : BOOLEAN,
        id : Ids \cup {NoId}, miles : Nat]
Idle == [step |-> "idle"]
NotShown == 0

AccountsInit ==
  /\ rows = [u \in Users |-> [bot |-> FALSE, excluded |-> FALSE, starred |-> FALSE,
                              id |-> NoId, miles |-> 0]]
  /\ entry = [u \in Users |-> NoEntry]
  /\ board = [u \in Users |-> NotShown]
  /\ job = [w \in Workers |-> Idle]
  /\ set = [u \in Users |-> [bot |-> FALSE, excluded |-> FALSE]]
  /\ crossed = {} /\ twice = {} /\ took = [u \in Users |-> {}]
  /\ now = 0 /\ asks = 0 /\ failures = 0

Fails == failures < Failures /\ failures' = failures + 1
Works == UNCHANGED failures

Busy(w, step) == job[w].step = step
Become(w, j) == job' = [job EXCEPT ![w] = j]
Rest(w) == Become(w, Idle)

\* A copy another worker may still write back.
Copied(u, w) == \E v \in Workers \ {w} : job[v].step \in {"login", "publish", "save", "saveBot"}
                                        /\ job[v].user = u
\* is_bot is being set: found, and not yet both written and in the entry.
SettingBot(u, w) == \E v \in Workers \ {w} : job[v].step \in {"saveBot", "liveBot"}
                                            /\ job[v].user = u
\* Another goroutine is between finding u's row and publishing the entry.
LoggingIn(u, w) == \E v \in Workers \ {w} : job[v].step \in {"login", "publish"} /\ job[v].user = u
Crossing(w, u) == crossed' = IF SettingBot(u, w) THEN crossed \cup {u} ELSE crossed

InFlight(e) == now - e.since - e.banked

\* sessionMiles reads the live entry, which knows what was banked.
WholeSession(e) == now - e.since
SessionMiles(e) == InFlight(e)

-----------------------------------------------------------------------------
(* User.save leaves alone the columns nothing but their own writer sets. *)

SavedWhole(u, copy) ==
  [rows EXCEPT ![u].bot = copy.bot, ![u].miles = copy.miles, ![u].excluded = copy.excluded]
Saved(u, copy) == [rows EXCEPT ![u].bot = copy.bot, ![u].miles = copy.miles]

\* A save that fails is logged and nothing more.
Save(u, copy) ==
  \/ Works /\ rows' = Saved(u, copy)
  \/ Fails /\ UNCHANGED rows

\* LoginIfNecessary, up to the row's copy; id comes with a chat message only.
FindForLogin(w, u, id) ==
  /\ Busy(w, "idle") /\ entry[u] = NoEntry
  /\ Become(w, [step |-> "login", user |-> u, id |-> id,
                copy |-> [bot |-> rows[u].bot, excluded |-> rows[u].excluded,
                          id |-> rows[u].id, contested |-> FALSE,
                          miles |-> rows[u].miles, since |-> now, banked |-> 0]])
  /\ twice' = IF LoggingIn(u, w) THEN twice \cup {u} ELSE twice
  /\ Crossing(w, u) /\ UNCHANGED <<rows, entry, board, set, took, now, asks, failures>>

SaveLogin(w) ==
  /\ Busy(w, "login") /\ Save(job[w].user, job[w].copy)
  /\ Become(w, [job[w] EXCEPT !.step = "publish"])
  /\ Crossing(w, job[w].user) /\ UNCHANGED <<entry, board, set, twice, took, now, asks>>

PublishLogin(w) ==
  /\ Busy(w, "publish") /\ entry' = [entry EXCEPT ![job[w].user] = job[w].copy]
  /\ IF job[w].id = NoId THEN Rest(w) ELSE Become(w, [job[w] EXCEPT !.step = "stamp"])
  /\ Crossing(w, job[w].user) /\ UNCHANGED <<rows, board, set, twice, took, now, asks, failures>>

Logout(w, u) ==
  /\ Busy(w, "idle") /\ entry[u] # NoEntry
  /\ entry' = [entry EXCEPT ![u] = NoEntry]
  /\ Become(w, [step |-> "save", user |-> u,
                copy |-> [entry[u] EXCEPT !.miles = @ + InFlight(entry[u])]])
  /\ Crossing(w, u) /\ UNCHANGED <<rows, board, set, twice, took, now, asks, failures>>

Checkpoint(w, u) ==
  /\ Busy(w, "idle") /\ entry[u] # NoEntry /\ InFlight(entry[u]) > 0
  /\ entry' = [entry EXCEPT ![u].miles = @ + InFlight(entry[u]),
                            ![u].banked = @ + InFlight(entry[u])]
  /\ Become(w, [step |-> "save", user |-> u, copy |-> entry'[u]])
  /\ Crossing(w, u) /\ UNCHANGED <<rows, board, set, twice, took, now, asks, failures>>

WriteBack(w) ==
  /\ Busy(w, "save") /\ Save(job[w].user, job[w].copy) /\ Rest(w)
  /\ Crossing(w, job[w].user) /\ UNCHANGED <<entry, board, set, twice, took, now, asks>>

-----------------------------------------------------------------------------
(* The platform's user id, stamped when its owner speaks. *)

Speaks(w, u, id) ==
  /\ Busy(w, "idle") /\ entry[u] # NoEntry
  /\ Become(w, [step |-> "stamp", user |-> u, id |-> id, copy |-> entry[u]])
  /\ UNCHANGED <<rows, entry, board, set, crossed, twice, took, now, asks, failures>>

Taken(u, id) == \E v \in Users \ {u} : rows[v].id = id

\* The row is updated through a bare copy, so what the database refuses never
\* reaches the viewer in memory; a unique index refuses an id another row has.
RefusedInPlace(copy, id) == [copy EXCEPT !.id = id]
Refused(copy, id) == copy

StampId(w) ==
  LET u == job[w].user id == job[w].id copy == job[w].copy
      To(c) == Become(w, [job[w] EXCEPT !.step = "mirror", !.copy = c])
  IN  /\ Busy(w, "stamp")
      /\ \/ (copy.id = id \/ copy.contested) /\ To(copy) /\ UNCHANGED <<rows, took>> /\ Works
         \/ /\ copy.id # id /\ ~copy.contested
            /\ \/ ~Taken(u, id) /\ Works
                  /\ rows' = [rows EXCEPT ![u].id = id] /\ To([copy EXCEPT !.id = id])
                  /\ took' = [took EXCEPT ![u] = @ \cup {id}]
               \/ Taken(u, id) /\ Works /\ UNCHANGED <<rows, took>>
                  /\ To([Refused(copy, id) EXCEPT !.contested = TRUE])
               \/ Fails /\ UNCHANGED <<rows, took>> /\ To(Refused(copy, id))
      /\ UNCHANGED <<entry, board, set, crossed, twice, now, asks>>

MirrorId(w) ==
  LET u == job[w].user IN
  /\ Busy(w, "mirror") /\ Rest(w)
  /\ entry' = IF entry[u] = NoEntry THEN entry
              ELSE [entry EXCEPT ![u].id = job[w].copy.id,
                                 ![u].contested = job[w].copy.contested]
  /\ UNCHANGED <<rows, board, set, crossed, twice, took, now, asks, failures>>

-----------------------------------------------------------------------------
(* POST /api/user/{username}/flags: is_bot, then exclude_from_leaderboard, then *)
(* starred, each only if the body sets it and those before it did not fail.     *)

AskFlags(w, u, body) ==
  /\ Busy(w, "idle") /\ asks < Asks /\ asks' = asks + 1
  /\ \E mark \in DOMAIN body : body[mark] # Unset
  /\ Become(w, [step |-> "bot", user |-> u, body |-> body])
  /\ UNCHANGED <<rows, entry, board, set, crossed, twice, took, now, failures>>

\* Find or the write of a column fails: the handler answers 500, the rest undone.
GiveUp(w) ==
  /\ \/ Busy(w, "bot") /\ job[w].body.bot # Unset
     \/ Busy(w, "exclude") /\ job[w].body.excluded # Unset
     \/ Busy(w, "star") /\ job[w].body.starred # Unset
  /\ Fails /\ Rest(w)
  /\ UNCHANGED <<rows, entry, board, set, crossed, twice, took, now, asks>>

FindBot(w) ==
  LET u == job[w].user IN
  /\ Busy(w, "bot")
  /\ IF job[w].body.bot = Unset
     THEN Become(w, [job[w] EXCEPT !.step = "exclude"]) /\ UNCHANGED crossed
     ELSE /\ Become(w, [step |-> "saveBot", user |-> u, body |-> job[w].body,
                        copy |-> [rows[u] EXCEPT !.bot = job[w].body.bot]])
          /\ crossed' = IF Copied(u, w) \/ SettingBot(u, w) THEN crossed \cup {u} ELSE crossed
  /\ UNCHANGED <<rows, entry, board, set, twice, took, now, asks, failures>>

\* SetBot does not look at what save says: the request is answered as done.
SaveBot(w) ==
  LET u == job[w].user IN
  /\ Busy(w, "saveBot") /\ Save(u, job[w].copy)
  /\ set' = [set EXCEPT ![u].bot = job[w].body.bot]
  /\ crossed' = IF failures' # failures \/ Copied(u, w) THEN crossed \cup {u} ELSE crossed
  /\ Become(w, [step |-> "liveBot", user |-> u, body |-> job[w].body])
  /\ UNCHANGED <<entry, board, twice, took, now, asks>>

RowOnly(u, b) == UNCHANGED entry
KeepInStep(u, b) == entry' = IF entry[u] = NoEntry THEN entry ELSE [entry EXCEPT ![u].bot = b]

LiveBot(w) ==
  LET u == job[w].user IN
  /\ Busy(w, "liveBot") /\ KeepInStep(u, job[w].body.bot)
  /\ Become(w, [step |-> "exclude", user |-> u, body |-> job[w].body])
  /\ crossed' = IF Copied(u, w) THEN crossed \cup {u} ELSE crossed
  /\ UNCHANGED <<rows, board, set, twice, took, now, asks, failures>>

SetExclude(w) ==
  LET u == job[w].user b == job[w].body.excluded IN
  /\ Busy(w, "exclude")
  /\ IF b = Unset THEN Become(w, [job[w] EXCEPT !.step = "star"]) /\ UNCHANGED <<rows, set>>
     ELSE /\ rows' = [rows EXCEPT ![u].excluded = b]
          /\ set' = [set EXCEPT ![u].excluded = b]
          /\ Become(w, [job[w] EXCEPT !.step = "liveExclude"])
  /\ UNCHANGED <<entry, board, crossed, twice, took, now, asks, failures>>

LiveExclude(w) ==
  LET u == job[w].user IN
  /\ Busy(w, "liveExclude") /\ Become(w, [job[w] EXCEPT !.step = "star"])
  /\ entry' = IF entry[u] = NoEntry THEN entry
              ELSE [entry EXCEPT ![u].excluded = job[w].body.excluded]
  /\ UNCHANGED <<rows, board, set, crossed, twice, took, now, asks, failures>>

SetStarred(w) ==
  LET b == job[w].body.starred IN
  /\ Busy(w, "star") /\ Rest(w)
  /\ rows' = IF b = Unset THEN rows ELSE [rows EXCEPT ![job[w].user].starred = b]
  /\ UNCHANGED <<entry, board, set, crossed, twice, took, now, asks, failures>>

-----------------------------------------------------------------------------
(* UpdateLeaderboard: the stored miles, with the session's on top of them. *)

OnBoard == {u \in Users : rows[u].miles # 0 /\ ~rows[u].bot /\ ~rows[u].excluded}

FetchLeaderboard(w) ==
  /\ Busy(w, "idle")
  /\ Become(w, [step |-> "overlay",
       todo |-> OnBoard,
       shown |-> [u \in Users |-> IF u \in OnBoard THEN rows[u].miles ELSE NotShown]])
  /\ UNCHANGED <<rows, entry, board, set, crossed, twice, took, now, asks, failures>>

\* The live entry is copied under the lock and measured after it.
CopyLive(w, u) ==
  /\ Busy(w, "overlay") /\ u \in job[w].todo
  /\ Become(w, IF entry[u] = NoEntry
               THEN [job[w] EXCEPT !.todo = @ \ {u}]
               ELSE [step |-> "measure", todo |-> job[w].todo \ {u}, shown |-> job[w].shown,
                     user |-> u, miles |-> entry[u].miles])
  /\ UNCHANGED <<rows, entry, board, set, crossed, twice, took, now, asks, failures>>

CurrentMiles(w) ==
  LET u == job[w].user
      session == IF entry[u] = NoEntry THEN 0 ELSE SessionMiles(entry[u])
  IN  /\ Busy(w, "measure")
      /\ Become(w, [step |-> "overlay", todo |-> job[w].todo,
                    shown |-> [job[w].shown EXCEPT ![u] = job[w].miles + session]])
      /\ UNCHANGED <<rows, entry, board, set, crossed, twice, took, now, asks, failures>>

InstallLeaderboard(w) ==
  /\ Busy(w, "overlay") /\ job[w].todo = {} /\ board' = job[w].shown /\ Rest(w)
  /\ UNCHANGED <<rows, entry, set, crossed, twice, took, now, asks, failures>>

AccountsTick ==
  /\ now < LastTick /\ now' = now + 1
  /\ UNCHANGED <<rows, entry, board, job, set, crossed, twice, took, asks, failures>>

-----------------------------------------------------------------------------
SessionStep(w) ==
  \/ \E u \in Users : \E id \in Ids \cup {NoId} : FindForLogin(w, u, id)
  \/ \E u \in Users : Logout(w, u) \/ Checkpoint(w, u)
  \/ SaveLogin(w) \/ PublishLogin(w) \/ WriteBack(w)

IdStep(w) ==
  \/ \E u \in Users : \E id \in Ids : Speaks(w, u, id)
  \/ StampId(w) \/ MirrorId(w)

FlagStep(w) ==
  \/ \E u \in Users : \E body \in Bodies : AskFlags(w, u, body)
  \/ GiveUp(w) \/ FindBot(w) \/ SaveBot(w) \/ LiveBot(w)
  \/ SetExclude(w) \/ LiveExclude(w) \/ SetStarred(w)

BoardStep(w) ==
  \/ FetchLeaderboard(w) \/ InstallLeaderboard(w) \/ CurrentMiles(w)
  \/ \E u \in Users : CopyLive(w, u)

AccountsNext ==
  \/ AccountsTick
  \/ \E w \in Workers : SessionStep(w) \/ IdStep(w) \/ FlagStep(w) \/ BoardStep(w)

AccountsSpec == AccountsInit /\ [][AccountsNext]_accountVars

-----------------------------------------------------------------------------
(* Properties. *)

AccountsTypeOK ==
  /\ rows \in [Users -> Row] /\ crossed \subseteq Users
  /\ board \in [Users -> Nat]
  /\ set \in [Users -> [bot : BOOLEAN, excluded : BOOLEAN]]

\* A mark an operator set stays set, whatever the viewer's sessions write back
\* later: exclude_from_leaderboard always ("writing the session's copy back
\* would let a stale in-memory false revert a flag", users.go, save), is_bot
\* unless it was set while another goroutine carried a copy of the viewer or its
\* write failed.
MarksHold ==
  \A u \in Users :
    /\ rows[u].excluded = set[u].excluded
    /\ u \notin crossed => rows[u].bot = set[u].bot

\* What presence.go says of the writer it calls: it "keeps the live session copy
\* in step: a DB-only is_bot write would be reverted by the next miles
\* checkpoint's save of a logged-in viewer".
FlagsStick ==
  (\A w \in Workers : job[w] = Idle) => \A u \in Users : rows[u].bot = set[u].bot

\* The viewer in memory never claims a user id the database did not take for
\* it, and the row of a name that only ever had one owner holds that owner's id:
\* through refusals, failures, names that pass to somebody else and sessions that
\* end while the id is being stamped (users.go, RecordPlatformUserID).
IdsAreHonest ==
  \A u \in Users : entry[u] # NoEntry /\ entry[u].id # NoId =>
    /\ entry[u].id \in took[u]
    /\ took[u] = {entry[u].id} => rows[u].id = entry[u].id

\* The leaderboard never shows a viewer more miles than the time gave them:
\* what a checkpoint banks between the query, the copy of the live entry and
\* its measurement is not counted again (users.go, sessionMiles).  Two sessions
\* of one viewer that were being opened at once can add up.
BoardNeverAhead == \A u \in Users \ twice : board[u] <= now
=============================================================================
