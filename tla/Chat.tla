-------------------------------- MODULE Chat --------------------------------
(***************************************************************************)
(* Inbound chat and the commands that move the playhead.                   *)
(*                                                                         *)
(* The chat goroutine polls the platform's gateway from a cursor it keeps  *)
(* in memory (gatewayChatPoller.Run) and handles the lines of a page one   *)
(* after the other (route, HandleMessage, dispatch).  The jumps are chains *)
(* of remote calls: check the 20 s gap, show the cover, hand the clip to   *)
(* playout, read back what is on screen, stamp the time.  Beside the chat  *)
(* goroutine run the operator's find (App.Find, on the NATS subscriber)    *)
(* and the cron that reads the clip on screen (Player.GetCurrentlyPlaying),*)
(* which share the time stamp and the player with it, and the console's    *)
(* toggles of the flag that lets gifts have an effect (FeatureFlags).      *)
(*                                                                         *)
(* A command is one of a kind: "where" names the place (!location,         *)
(* !state), "guess" is !guess, "warp" is !timewarp, "jump" the commands    *)
(* that give up when playout refuses (!jump, !daytime, !find), "seek" the  *)
(* ones that do not (!skip, !back), "report" is !report, "gift" is a gift, *)
(* and "other" any command whose handler has no state.  Clips are numbered *)
(* in the order they come on screen; what a guess names is left open, and  *)
(* durations are in ticks of the clock.                                    *)
(***************************************************************************)
EXTENDS Integers, Sequences, FeatureFlags

CONSTANTS
  Viewers, Broadcasters,
  Gap,             \* between two rationed jumps (20 s)
  GiftFloor,       \* between two gifts' effects (6 s)
  GuessCooldown,   \* after being told the answer (3 min)
  ReportCooldown,  \* between two reports of a viewer (1 min)
  Scenarios,       \* bound: a conversation, a sequence of [by, kind], and what else
                   \* the outside does, at most, in a behaviour with it
  MaxTime

Kinds == {"where", "guess", "warp", "jump", "seek", "report", "gift", "other"}

ASSUME ChatConstants ==
  /\ Broadcasters \subseteq Viewers
  /\ \A s \in Scenarios : s[1] \in Seq([by : Viewers, kind : Kinds])
  /\ {Gap, GiftFloor, GuessCooldown, ReportCooldown, MaxTime} \subseteq Nat

NoCursor == -1
Never    == -100  \* the zero time, and the day before a login

VARIABLES
  chat,       \* the platform's chat: lines, oldest first
  said,       \* how many of them have been written so far
  now,
  screen,     \* playout: the number of the clip on screen, from the first one shown
  cursor,     \* the gateway's cursor: the line it points after, or NoCursor
  page,       \* lines fetched and not yet routed
  proc,       \* proc[g]: what goroutine g is in the middle of
  pollMu,     \* who holds the player's poll mutex
  known,      \* Player.playing: the number of a clip, or 0
  lastWarp,   \* lastTimewarp
  lastGift,   \* lastGiftEffectTime
  misses,     \* guessMisses[v]: when v last missed
  reportedAt,
  rows,       \* rows[i]: the command rows line i has left in the events table
  budget,
  score,      \* correct guesses credited
  hints,      \* history: warmer/colder hints given
  jumps,      \* history: times the playhead was moved by a jump
  unstamped,  \* history: it was moved since the last stamp
  landed,     \* history: when the chat goroutine last saw a jump of its own land
  missed      \* history: missed[v]: the jump after which v last missed

outside == <<chat, said, now, screen, budget>>
intake  == <<cursor, page>>
memory  == <<known, lastWarp, lastGift, misses, reportedAt>>
history == <<hints, jumps, unstamped, landed, missed>>
vars    == <<outside, intake, proc, pollMu, memory, rows, score, history>>

all     == <<vars, flagVars>>

Goroutines == {"chat", "operator", "cron"}
Nobody == "nobody"
Idle == [phase |-> "idle", kind |-> "none", line |-> 0, rationed |-> FALSE, read |-> 0]

Init ==
  /\ \E s \in Scenarios : chat = s[1] /\ budget = s[2]
  /\ said = 0 /\ now = 0
  /\ screen = 1
  /\ cursor = NoCursor /\ page = <<>>
  /\ proc = [g \in Goroutines |-> Idle]
  /\ pollMu = Nobody /\ known = 0
  /\ lastWarp = Never /\ lastGift = Never
  /\ misses = [v \in Viewers |-> Never]
  /\ reportedAt = [v \in Viewers |-> Never]
  /\ rows = [i \in DOMAIN chat |-> <<>>]
  /\ score = [v \in Viewers |-> 0]
  /\ hints = 0 /\ jumps = 0 /\ unstamped = FALSE /\ landed = Never
  /\ missed = [v \in Viewers |-> 0]
  /\ FlagsInit

-----------------------------------------------------------------------------
(* The outside *)

Spend(what) == budget[what] > 0 /\ budget' = [budget EXCEPT ![what] = @ - 1]

Say ==
  /\ said < Len(chat) /\ said' = said + 1
  /\ UNCHANGED <<chat, now, screen, budget, intake, proc, pollMu, memory, rows, score, history>>

Clock ==
  /\ now < MaxTime /\ now' = now + 1
  /\ UNCHANGED <<chat, said, screen, budget, intake, proc, pollMu, memory, rows, score, history>>

\* The clip runs out and playout goes on to the next.
ClipEnds ==
  /\ Spend("clips")
  /\ screen' = screen + 1
  /\ UNCHANGED <<chat, said, now, intake, proc, pollMu, memory, rows, score, history>>

\* The pod is replaced, in the middle of whatever it was doing.
Restart ==
  /\ Spend("restarts")
  /\ cursor' = NoCursor /\ page' = <<>>
  /\ proc' = [g \in Goroutines |-> Idle]
  /\ pollMu' = Nobody /\ known' = 0
  /\ lastWarp' = Never /\ lastGift' = Never
  /\ misses' = [v \in Viewers |-> Never]
  /\ reportedAt' = [v \in Viewers |-> Never]
  /\ unstamped' = FALSE /\ landed' = Never
  /\ FlagsReboot
  /\ UNCHANGED <<chat, said, now, screen, rows, score, hints, jumps, missed>>

\* The console and the flags' poll, each step as in FeatureFlags.
FlagStep ==
  /\ \/ Spend("polls") /\ StartPoll
     \/ \E r \in Requests : Spend("toggles") /\ Toggle(r)
     \/ \E r \in Refreshers : (Load(r) \/ Install(r)) /\ UNCHANGED budget
     \/ \E r \in Refreshers : Spend("faults") /\ LoadFails(r)
  /\ UNCHANGED <<chat, said, now, screen, intake, proc, pollMu, memory, rows, score, history>>

-----------------------------------------------------------------------------
(* The poll *)

AtRest == proc["chat"] = Idle /\ page = <<>>

\* The gateway skips the backlog when it is asked without a cursor.
Fetch ==
  /\ AtRest
  /\ cursor' = said
  /\ page' = IF cursor = NoCursor THEN <<>>
             ELSE [n \in 1 .. said - cursor |-> cursor + n]
  /\ UNCHANGED <<outside, proc, pollMu, memory, rows, score, history>>

\* Offline: an empty page, and an empty cursor.
FetchOffline ==
  /\ AtRest /\ Spend("offline")
  /\ cursor' = NoCursor
  /\ UNCHANGED <<chat, said, now, screen, page, proc, pollMu, memory, rows, score, history>>

AfterFailure(c) == c

\* The answer is lost, whether or not the gateway gave one.
FetchFails ==
  /\ AtRest
  /\ cursor' = AfterFailure(cursor)
  /\ UNCHANGED <<outside, page, proc, pollMu, memory, rows, score, history>>

-----------------------------------------------------------------------------
(* dispatch: a row for a run, or one for a refusal *)

IgnoresTheMark(refused) == IF refused THEN <<"refusal", "run">> ELSE <<"run">>
Outcome(refused) == IF refused THEN <<"refusal">> ELSE <<"run">>

\* The insert is best effort: its row may be lost.
Record(i, refused) ==
  \/ rows' = [rows EXCEPT ![i] = @ \o Outcome(refused)] /\ UNCHANGED budget
  \/ Spend("lostRows") /\ UNCHANGED rows

\* The chat goroutine turns to a line of this kind.
Routes(kind) ==
  /\ proc["chat"] = Idle /\ page # <<>> /\ chat[Head(page)].kind = kind
  /\ page' = Tail(page)

Sender == chat[Head(page)].by

\* A command that is answered in one go.
Answer(refused) ==
  /\ Record(Head(page), refused)
  /\ UNCHANGED <<chat, said, now, screen, cursor, proc, pollMu, known, lastWarp, lastGift>>

\* A command, or a gift, that sets out to move the playhead.
SetOut(phase, kind, rationed) ==
  /\ proc' = [proc EXCEPT !["chat"] =
       [Idle EXCEPT !.phase = phase, !.kind = kind, !.line = Head(page),
                    !.rationed = rationed]]
  /\ UNCHANGED <<outside, cursor, pollMu, memory, rows, history>>

\* The gate of checkAccess, or a trigger nobody knows.
Other ==
  /\ Routes("other")
  /\ \E refused \in BOOLEAN : Answer(refused)
  /\ UNCHANGED <<misses, reportedAt, score, history>>

ReportAllowed(v) == now - reportedAt[v] >= ReportCooldown

\* reportCmd refuses from inside the handler; recordRefusal sets the mark that
\* keeps dispatch from recording a run as well.
Report ==
  /\ Routes("report")
  /\ Answer(~ReportAllowed(Sender))
  /\ reportedAt' = IF ReportAllowed(Sender) THEN [reportedAt EXCEPT ![Sender] = now]
                   ELSE reportedAt
  /\ UNCHANGED <<misses, score, history>>

-----------------------------------------------------------------------------
(* Knowing the answer *)

\* chatUser: a copy of the session's entry, whose lastLocation login set to the
\* day before; a platform without sessions has the zero time.
ChatUser(v) == [lastLocation |-> Never]

HasGuessCommandAvailable(user) ==
  \/ user.lastLocation < lastWarp
  \/ user.lastLocation + GuessCooldown <= now

\* SetLastLocationTime writes the handler's copy of the user, which ends here.
Where ==
  /\ Routes("where")
  /\ Answer(FALSE)
  /\ UNCHANGED <<misses, reportedAt, score, history>>

HintsOnTies(v) == misses[v] >= lastWarp
Hinted(v) == misses[v] > lastWarp

\* A wrong guess: warmer or colder than the sender's last one of the round.
Misses ==
  /\ Answer(FALSE)
  /\ misses' = [misses EXCEPT ![Sender] = now]
  /\ missed' = [missed EXCEPT ![Sender] = jumps]
  /\ hints' = hints + (IF Hinted(Sender) THEN 1 ELSE 0)
  /\ UNCHANGED <<reportedAt, score, jumps, unstamped, landed>>

\* A right one is credited, and warps the playhead whatever the gap.
GuessesRight ==
  /\ score' = [score EXCEPT ![Sender] = @ + 1]
  /\ SetOut("cover", "warp", FALSE)

\* Not a state, or no telling which: a usage line, and the trail undisturbed.
NamesNoState == Answer(FALSE) /\ UNCHANGED <<misses, reportedAt, score, history>>

Guess ==
  /\ Routes("guess")
  /\ IF HasGuessCommandAvailable(ChatUser(Sender))
     THEN GuessesRight \/ Misses \/ NamesNoState
     ELSE Answer(TRUE) /\ UNCHANGED <<misses, reportedAt, score, history>>

-----------------------------------------------------------------------------
(* Setting out to jump *)

TooSoon(v) == v \notin Broadcasters /\ now - lastWarp < Gap

\* The rate limit answers in chat and records a run.
NotYet ==
  /\ \E k \in {"warp", "jump", "seek"} : Routes(k)
  /\ TooSoon(Sender)
  /\ Answer(FALSE)
  /\ UNCHANGED <<misses, reportedAt, score, history>>

\* Only a warp, and the find among the jumps, put the cover up first; the time
\* it takes is the clock's business either way.
HereWeGo ==
  /\ \E k \in {"warp", "jump", "seek"} :
       Routes(k) /\ ~TooSoon(Sender) /\ SetOut("cover", k, Sender \notin Broadcasters)
  /\ UNCHANGED score

\* No footage, no such state, nothing found, or a span that does not parse.
NothingToPlay ==
  /\ \E k \in {"jump", "seek"} : Routes(k)
  /\ ~TooSoon(Sender)
  /\ Answer(FALSE)
  /\ UNCHANGED <<misses, reportedAt, score, history>>

\* a.Flags.Bool, without the allowlists.
GiftsOn == snapshot

\* A gift is not rationed, but for the effect of the last one.  No row.
Gift ==
  /\ Routes("gift") /\ GiftsOn
  /\ now - lastGift >= GiftFloor
  /\ SetOut("cover", "gift", FALSE)
  /\ UNCHANGED score

GiftIsIdle ==
  /\ Routes("gift")
  /\ ~GiftsOn \/ now - lastGift < GiftFloor
  /\ UNCHANGED <<outside, cursor, proc, pollMu, memory, rows, score, history>>

\* App.Find: the operator's, past the limit and without a word in chat.
Find ==
  /\ proc["operator"] = Idle /\ Spend("finds")
  /\ proc' = [proc EXCEPT !["operator"].phase = "cover", !["operator"].kind = "jump"]
  /\ UNCHANGED <<chat, said, now, screen, intake, pollMu, memory, rows, score, history>>

-----------------------------------------------------------------------------
(* The jump *)

GoesOn(g, phase) == proc' = [proc EXCEPT ![g].phase = phase]

GivesUp(g) == proc[g].kind = "jump"

\* Playout has moved the playhead, and said so or not.
Lands(g, told) ==
  /\ screen' = screen + 1
  /\ jumps' = jumps + 1 /\ unstamped' = TRUE
  /\ landed' = IF g = "chat" /\ (told \/ ~GivesUp(g)) THEN now ELSE landed

PlayoutAnswers(g) ==
  /\ proc[g].phase = "cover"
  /\ Lands(g, TRUE) /\ GoesOn(g, "look")
  /\ UNCHANGED <<chat, said, now, budget, intake, pollMu, memory, rows, score, hints, missed>>

\* The call fails, before playout moved or after.
PlayoutFails(g) ==
  /\ proc[g].phase = "cover" /\ Spend("faults")
  /\ GoesOn(g, IF GivesUp(g) THEN "done" ELSE "look")
  /\ \/ Lands(g, FALSE)
     \/ UNCHANGED <<screen, jumps, unstamped, landed>>
  /\ UNCHANGED <<chat, said, now, intake, pollMu, memory, rows, score, hints, missed>>

\* GetCurrentlyPlaying, for the cron and after a jump: ask playout and save the
\* answer under one lock.
NeverLocked == FALSE
Locked == pollMu # Nobody

Looks(g) == proc[g].phase = "look" \/ (g = "cron" /\ proc[g] = Idle /\ known # screen)

AskPlayout(g) ==
  /\ Looks(g) /\ ~Locked
  /\ pollMu' = g
  /\ proc' = [proc EXCEPT ![g].phase = "save", ![g].read = screen]
  /\ UNCHANGED <<outside, intake, memory, rows, score, history>>

AfterLook(g) == IF g = "cron" THEN Idle ELSE [proc[g] EXCEPT !.phase = "stamp", !.read = 0]

SavePlaying(g) ==
  /\ proc[g].phase = "save"
  /\ known' = proc[g].read
  /\ pollMu' = Nobody
  /\ proc' = [proc EXCEPT ![g] = AfterLook(g)]
  /\ UNCHANGED <<outside, intake, lastWarp, lastGift, misses, reportedAt, rows, score, history>>

\* A failed poll keeps the previous clip.
PollFails(g) ==
  /\ proc[g].phase = "save" /\ Spend("faults")
  /\ pollMu' = Nobody
  /\ proc' = [proc EXCEPT ![g] = AfterLook(g)]
  /\ UNCHANGED <<chat, said, now, screen, intake, memory, rows, score, history>>

SparesGifts(g) == IF proc[g].kind = "gift" THEN lastWarp ELSE now
Stamp(g) == now

SetLastTimewarpTime(g) ==
  /\ proc[g].phase = "stamp"
  /\ lastWarp' = Stamp(g)
  /\ unstamped' = FALSE
  /\ GoesOn(g, "done")
  /\ UNCHANGED <<outside, intake, pollMu, known, lastGift, misses, reportedAt, rows, score,
                 hints, jumps, landed, missed>>

Finish(g) ==
  /\ proc[g].phase = "done"
  /\ proc' = [proc EXCEPT ![g] = Idle]
  /\ lastGift' = IF proc[g].kind = "gift" THEN now ELSE lastGift
  /\ IF g = "chat" /\ proc[g].kind # "gift" THEN Record(proc[g].line, FALSE)
     ELSE UNCHANGED <<rows, budget>>
  /\ UNCHANGED <<chat, said, now, screen, intake, pollMu, known, lastWarp, misses, reportedAt,
                 score, history>>

-----------------------------------------------------------------------------
Handle ==
  \/ Say \/ Clock \/ ClipEnds
  \/ Fetch \/ FetchOffline \/ FetchFails
  \/ Other \/ Report \/ Where \/ Guess
  \/ NotYet \/ HereWeGo \/ NothingToPlay \/ Gift \/ GiftIsIdle \/ Find
  \/ \E g \in Goroutines :
       \/ PlayoutAnswers(g) \/ PlayoutFails(g)
       \/ AskPlayout(g) \/ SavePlaying(g) \/ PollFails(g)
       \/ SetLastTimewarpTime(g) \/ Finish(g)

Next ==
  \/ Handle /\ UNCHANGED flagVars
  \/ FlagStep \/ Restart

Spec == Init /\ [][Next]_all

-----------------------------------------------------------------------------
Phases == {"idle", "cover", "look", "save", "stamp", "done"}
Times  == {Never} \cup 0 .. MaxTime

\* Every variable keeps its type.
TypeOK ==
  /\ now \in 0 .. MaxTime
  /\ said \in 0 .. Len(chat)
  /\ cursor \in {NoCursor} \cup 0 .. said
  /\ \A i \in 1 .. Len(page) : page[i] \in 1 .. said
  /\ known \in 0 .. screen
  /\ proc \in [Goroutines -> [phase : Phases, kind : Kinds \cup {"none", "warp", "jump"},
                              line : 0 .. Len(chat), rationed : BOOLEAN, read : 0 .. screen]]
  /\ pollMu \in Goroutines \cup {Nobody}
  /\ lastWarp \in Times /\ lastGift \in Times
  /\ misses \in [Viewers -> Times] /\ reportedAt \in [Viewers -> Times]
  /\ FlagTypeOK

\* A line leaves one row at most, a run or a refusal, however polls fail, the
\* gateway goes offline or the pod is replaced: no line is handled twice, and
\* an attempt "lands in exactly one event kind".
OneOutcome == \A i \in DOMAIN rows : Len(rows[i]) <= 1

\* A viewer's jump lands the gap after every jump the chat goroutine has seen
\* land, whoever asked for that one and however it was paid for: the time is
\* stamped after the chain, and before the next line is looked at.
JumpsAreSpaced ==
  [][ /\ jumps' > jumps
      /\ proc["chat"].rationed /\ proc'["chat"] # proc["chat"]
      => now - landed >= Gap ]_vars

\* A viewer is told warmer or colder only between two misses of one round: no
\* jump in between, but one whose stamp is still to come or was never made.
HintsStayInTheRound ==
  [][hints' > hints => unstamped \/ missed[Sender] = jumps]_vars

\* The player's clip never goes back to one that had left the screen before
\* it was known, though the cron and the commands poll side by side.
ReadsInOrder == [][known' # 0 => known' >= known]_vars

\* A gift moves the stream only while the operator lets gifts do so: once the
\* console's toggle has returned, with its refresh in order and no other at the
\* same time, gifts obey it, whatever the polls before and after it did.
GiftsObeyTheSwitch ==
  [][proc'["chat"].kind = "gift" /\ proc["chat"].kind # "gift" /\ Settled => enabled]_vars

\* What the playhead's commands may do at one step: rationed jumps keep their
\* distance, a hint compares guesses of one round, and a gift needs its flag
\* (playback.go, guessCmd, giftCmd).
PlaybackIsRationed == JumpsAreSpaced /\ HintsStayInTheRound /\ GiftsObeyTheSwitch
=============================================================================
