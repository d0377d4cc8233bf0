----------------------------- MODULE ChatProofs ------------------------------
(***************************************************************************)
(* Inbound chat, the flags' snapshot, the clips that are picked and the    *)
(* commands that lines are taken for hold for any conversation, viewers,   *)
(* times, film and registry: theorems about Chat, FeatureFlags, Library    *)
(* and Dispatch.                                                           *)
(*                                                                         *)
(* In Chat all rests on one fact of the chat goroutine: it is alone.  The  *)
(* page is the lines after the last one it routed, so no line is met       *)
(* twice, and while it is in the middle of a jump nothing else claims the  *)
(* times that jump is judged by.                                           *)
(*                                                                         *)
(* In Dispatch it rests on what the table of distances counts: an edit     *)
(* changes a distance by one, and some edit brings a word nearer, so the   *)
(* triggers in reach of the table are those in reach of as many edits.     *)
(***************************************************************************)
EXTENDS Chat, Library, Dispatch, Sums, SequenceTheorems, TLAPS

ChatLines == [by : Viewers, kind : Kinds]
Outcomes == {"run", "refusal"}
ProcRecords ==
  [phase : Phases, kind : Kinds \cup {"none"}, line : 0 .. Len(chat), rationed : BOOLEAN,
   read : Nat]

IntakeTyped ==
  /\ chat \in Seq(ChatLines) /\ said \in 0 .. Len(chat) /\ cursor \in {NoCursor} \cup 0 .. said
  /\ page \in Seq(Nat)
TimesTyped ==
  /\ now \in 0 .. MaxTime /\ lastWarp \in Times /\ lastGift \in Times /\ landed \in Times
  /\ misses \in [Viewers -> Times] /\ reportedAt \in [Viewers -> Times]
CountsTyped ==
  /\ screen \in Nat /\ known \in Nat /\ jumps \in Nat /\ hints \in Nat
  /\ missed \in [Viewers -> Nat] /\ unstamped \in BOOLEAN
ProcTyped == proc \in [Goroutines -> ProcRecords] /\ pollMu \in Goroutines \cup {Nobody}
RowsTyped == rows \in [DOMAIN chat -> Seq(Outcomes)]

\* The page is the lines up to the cursor that have not been routed.
Routed == cursor - Len(page)
PageIsNext ==
  page # <<>> => /\ cursor # NoCursor /\ Len(page) <= cursor
                 /\ \A n \in 1 .. Len(page) : page[n] = Routed + n

ChatTyped ==
  /\ IntakeTyped /\ TimesTyped /\ CountsTyped /\ ProcTyped /\ RowsTyped /\ PageIsNext

-----------------------------------------------------------------------------
(* What is fetched, and the next line of it *)

LEMMA Constants ==
  /\ {Gap, GiftFloor, GuessCooldown, ReportCooldown, MaxTime} \subseteq Nat
  /\ NoCursor \in Int /\ NoCursor < 0 /\ Never \in Int /\ Never < 0
  /\ Gap \in Nat /\ MaxTime \in Nat /\ Times \subseteq Int
BY ChatConstants DEF NoCursor, Never, Times

LEMMA NextLine ==
  ASSUME ChatTyped, page # <<>>
  PROVE  /\ Head(page) = Routed + 1 /\ Head(page) \in DOMAIN chat /\ Head(page) \in 1 .. said
         /\ Head(page) \in 1 .. Len(chat)
         /\ cursor \in 0 .. said /\ cursor # NoCursor /\ Routed \in Nat /\ Len(page) \in Nat
         /\ Sender \in Viewers /\ chat[Head(page)].kind \in Kinds
         /\ Tail(page) \in Seq(Nat) /\ Len(Tail(page)) = Len(page) - 1
         /\ \A n \in 1 .. Len(page) - 1 : Tail(page)[n] = page[n + 1]
<1>1. /\ page \in Seq(Nat) /\ chat \in Seq(ChatLines) /\ said \in 0 .. Len(chat)
      /\ cursor \in {NoCursor} \cup 0 .. said /\ cursor # NoCursor /\ Len(page) <= cursor
      /\ \A n \in 1 .. Len(page) : page[n] = Routed + n
  BY DEF ChatTyped, IntakeTyped, PageIsNext
<1>2. Len(page) \in Nat /\ Len(page) # 0 /\ Len(chat) \in Nat /\ cursor \in 0 .. said
  BY <1>1
<1>3. Head(page) = page[1] /\ 1 \in 1 .. Len(page)
  BY <1>1, <1>2
<1>4. Head(page) = Routed + 1
  BY <1>1, <1>3
<1>5. Routed \in Nat /\ Head(page) \in 1 .. said /\ Head(page) \in 1 .. Len(chat)
  BY <1>1, <1>2, <1>4 DEF Routed
<1>6. DOMAIN chat = 1 .. Len(chat)
  BY <1>1
<1>7. chat[Head(page)] \in ChatLines
  BY <1>1, <1>5
<1>8. Sender \in Viewers /\ chat[Head(page)].kind \in Kinds
  BY <1>7 DEF ChatLines, Sender
<1>9. /\ Tail(page) \in Seq(Nat) /\ Len(Tail(page)) = Len(page) - 1
      /\ \A n \in 1 .. Len(page) - 1 : Tail(page)[n] = page[n + 1]
  BY <1>1, HeadTailProperties
<1>10. QED
  BY <1>1, <1>2, <1>4, <1>5, <1>6, <1>8, <1>9

\* What a step does to the lines and to the page.
PageStands == UNCHANGED <<cursor, page>>
PageForgotten == cursor' = NoCursor /\ page' = <<>>
PageFetched ==
  /\ AtRest /\ cursor' = said
  /\ page' = IF cursor = NoCursor THEN <<>> ELSE [n \in 1 .. said - cursor |-> cursor + n]
LineRouted == proc["chat"] = Idle /\ page # <<>> /\ page' = Tail(page) /\ cursor' = cursor

LEMMA PageSteps ==
  ASSUME Next
  PROVE  /\ chat' = chat /\ (said' = said \/ (said < Len(chat) /\ said' = said + 1))
         /\ PageStands \/ PageForgotten \/ (PageFetched /\ said' = said) \/ LineRouted
<1>1. ASSUME Handle
      PROVE  /\ chat' = chat /\ (said' = said \/ (said < Len(chat) /\ said' = said + 1))
             /\ PageStands \/ PageForgotten \/ (PageFetched /\ said' = said) \/ LineRouted
  <2> USE DEF outside, intake
  <2>1. CASE Say \/ Clock \/ ClipEnds \/ Find
    BY <2>1 DEF Say, Clock, ClipEnds, Find, PageStands
  <2>2. CASE Fetch \/ FetchOffline \/ FetchFails
    BY <2>2 DEF Fetch, FetchOffline, FetchFails, AfterFailure, AtRest, PageStands, PageFetched, PageForgotten
  <2>3. CASE Other \/ Report \/ Where \/ NotYet \/ NothingToPlay
    BY <2>3 DEF Other, Report, Where, NotYet, NothingToPlay, Answer, Routes, LineRouted
  <2>4. CASE Guess
    BY <2>4 DEF Guess, GuessesRight, Misses, NamesNoState, SetOut, Answer, Routes, LineRouted
  <2>5. CASE HereWeGo \/ Gift \/ GiftIsIdle
    BY <2>5 DEF HereWeGo, Gift, GiftIsIdle, SetOut, Routes, LineRouted
  <2>6. ASSUME NEW g \in Goroutines,
               \/ PlayoutAnswers(g) \/ PlayoutFails(g) \/ AskPlayout(g) \/ SavePlaying(g)
               \/ PollFails(g) \/ SetLastTimewarpTime(g) \/ Finish(g)
        PROVE  UNCHANGED <<chat, said>> /\ PageStands
    BY <2>6 DEF PlayoutAnswers, PlayoutFails, AskPlayout, SavePlaying, PollFails, SetLastTimewarpTime,
       Finish, PageStands
  <2>7. QED
    BY <1>1, <2>1, <2>2, <2>3, <2>4, <2>5, <2>6 DEF Handle
<1>2. QED
  BY <1>1 DEF Next, FlagStep, Restart, PageStands, PageForgotten, intake

LEMMA PageStaysNext ==
  ASSUME ChatTyped, Next
  PROVE  IntakeTyped' /\ PageIsNext'
<1>1. /\ chat \in Seq(ChatLines) /\ said \in 0 .. Len(chat) /\ Len(chat) \in Nat /\ said \in Nat
      /\ cursor \in {NoCursor} \cup 0 .. said /\ page \in Seq(Nat)
  BY DEF ChatTyped, IntakeTyped
<1>2. chat' = chat /\ said' \in 0 .. Len(chat) /\ said <= said'
  BY <1>1, PageSteps
<1>3. CASE PageStands
  BY <1>1, <1>2, <1>3 DEF PageStands, ChatTyped, IntakeTyped, PageIsNext, Routed
<1>4. CASE PageForgotten
  BY <1>1, <1>2, <1>4 DEF PageForgotten, IntakeTyped, PageIsNext
<1>5. CASE PageFetched /\ said' = said
  <2>1. CASE cursor = NoCursor
    BY <1>1, <1>2, <1>5, <2>1 DEF PageFetched, IntakeTyped, PageIsNext
  <2>2. CASE cursor # NoCursor
    <3>1. cursor \in 0 .. said /\ said - cursor \in Nat
      BY <1>1, <2>2
    <3> DEFINE k == said - cursor
    <3>2. page' = [n \in 1 .. k |-> cursor + n] /\ cursor' = said
      BY <1>5, <2>2 DEF PageFetched
    <3>3. page' \in Seq(Nat) /\ Len(page') = k
      <4>1. \A n \in 1 .. k : cursor + n \in Nat
        BY <3>1
      <4>2. QED
        BY <3>1, <3>2, <4>1
    <3>4. cursor' - Len(page') = cursor
      BY <1>1, <3>1, <3>2, <3>3
    <3>5. \A n \in 1 .. Len(page') : page'[n] = (cursor' - Len(page')) + n
      BY <3>2, <3>3, <3>4
    <3>6. cursor' # NoCursor /\ Len(page') <= cursor' /\ cursor' \in 0 .. said'
      BY <1>1, <1>5, <3>1, <3>2, <3>3, Constants
    <3>7. QED
      BY <1>1, <1>2, <3>3, <3>5, <3>6 DEF IntakeTyped, PageIsNext, Routed
  <2>3. QED
    BY <2>1, <2>2
<1>6. CASE LineRouted
  <2>1. page # <<>> /\ page' = Tail(page) /\ cursor' = cursor
    BY <1>6 DEF LineRouted
  <2>2. /\ Tail(page) \in Seq(Nat) /\ Len(Tail(page)) = Len(page) - 1 /\ cursor \in 0 .. said
        /\ \A n \in 1 .. Len(page) - 1 : Tail(page)[n] = page[n + 1]
        /\ cursor # NoCursor /\ Len(page) \in Nat
    BY <2>1, NextLine
  <2>3. Len(page) <= cursor /\ \A n \in 1 .. Len(page) : page[n] = (cursor - Len(page)) + n
    BY <2>1 DEF ChatTyped, PageIsNext, Routed
  <2>4. \A n \in 1 .. Len(page') : page'[n] = (cursor' - Len(page')) + n
    <3>1. SUFFICES ASSUME NEW n \in 1 .. Len(page) - 1
                   PROVE  page[n + 1] = (cursor - (Len(page) - 1)) + n
      BY <2>1, <2>2
    <3>2. n + 1 \in 1 .. Len(page)
      BY <2>2
    <3>3. page[n + 1] = (cursor - Len(page)) + (n + 1)
      BY <2>3, <3>2
    <3>4. QED
      BY <2>2, <3>3
  <2>5. Len(page') <= cursor' /\ cursor' # NoCursor /\ cursor' \in 0 .. said'
    BY <1>1, <1>2, <2>1, <2>2, <2>3
  <2>6. QED
    BY <1>1, <1>2, <2>1, <2>2, <2>4, <2>5 DEF IntakeTyped, PageIsNext, Routed
<1>7. QED
  BY <1>3, <1>4, <1>5, <1>6, PageSteps
-----------------------------------------------------------------------------
(* The clock, and what is remembered of it *)

LEMMA TimeSteps ==
  ASSUME Next
  PROVE  /\ now' = now \/ (now < MaxTime /\ now' = now + 1)
         /\ lastWarp' \in {lastWarp, now, Never} /\ lastGift' \in {lastGift, now, Never}
         /\ landed' \in {landed, now, Never}
         /\ \/ misses' = misses \/ misses' = [v \in Viewers |-> Never]
            \/ page # <<>> /\ misses' = [misses EXCEPT ![Sender] = now]
         /\ \/ reportedAt' = reportedAt \/ reportedAt' = [v \in Viewers |-> Never]
            \/ page # <<>> /\ reportedAt' = [reportedAt EXCEPT ![Sender] = now]
<1> USE DEF outside, memory, history
<1>1. CASE Say \/ Clock \/ ClipEnds \/ Find \/ Fetch \/ FetchOffline \/ FetchFails
  BY <1>1 DEF Say, Clock, ClipEnds, Find, Fetch, FetchOffline, FetchFails
<1>2. CASE Other \/ Where \/ NotYet \/ NothingToPlay
  BY <1>2 DEF Other, Where, NotYet, NothingToPlay, Answer
<1>3. CASE Report
  BY <1>3 DEF Report, Answer, Routes
<1>4. CASE Guess
  BY <1>4 DEF Guess, GuessesRight, Misses, NamesNoState, SetOut, Answer, Routes
<1>5. CASE HereWeGo \/ Gift \/ GiftIsIdle
  BY <1>5 DEF HereWeGo, Gift, GiftIsIdle, SetOut
<1>6. ASSUME NEW g \in Goroutines,
             \/ PlayoutAnswers(g) \/ PlayoutFails(g) \/ AskPlayout(g) \/ SavePlaying(g)
             \/ PollFails(g) \/ SetLastTimewarpTime(g) \/ Finish(g)
      PROVE  /\ UNCHANGED <<now, misses, reportedAt>>
             /\ lastWarp' \in {lastWarp, now} /\ lastGift' \in {lastGift, now}
             /\ landed' \in {landed, now}
  BY <1>6 DEF PlayoutAnswers, PlayoutFails, Lands, AskPlayout, SavePlaying, PollFails,
     SetLastTimewarpTime, Stamp, Finish
<1>7. CASE FlagStep \/ Restart
  BY <1>7 DEF FlagStep, Restart
<1>8. QED
  BY <1>1, <1>2, <1>3, <1>4, <1>5, <1>6, <1>7 DEF Next, Handle

LEMMA TimesStayTyped ==
  ASSUME ChatTyped, Next
  PROVE  TimesTyped'
<1>1. /\ now \in 0 .. MaxTime /\ lastWarp \in Times /\ lastGift \in Times /\ landed \in Times
      /\ misses \in [Viewers -> Times] /\ reportedAt \in [Viewers -> Times] /\ MaxTime \in Nat
  BY Constants DEF ChatTyped, TimesTyped
<1>2. now' \in 0 .. MaxTime /\ now \in Times /\ Never \in Times
  BY <1>1, TimeSteps DEF Times
<1>3. lastWarp' \in Times /\ lastGift' \in Times /\ landed' \in Times
  BY <1>1, <1>2, TimeSteps
<1>4. page # <<>> => Sender \in Viewers
  BY NextLine
<1>5. misses' \in [Viewers -> Times] /\ reportedAt' \in [Viewers -> Times]
  BY <1>1, <1>2, <1>4, TimeSteps
<1>6. QED
  BY <1>2, <1>3, <1>5 DEF TimesTyped

-----------------------------------------------------------------------------
(* The goroutines *)

Busy(g) == proc[g].phase # "idle"

\* What a step does to a goroutine: nothing, or it sets out, goes on or ends.
SetsOut(g) ==
  /\ proc[g] = Idle /\ proc'[g].phase = "cover" /\ proc'[g].read = 0
  /\ proc'[g].kind \in Kinds /\ proc'[g].rationed \in BOOLEAN
  /\ proc'[g].line \in {0} \cup 1 .. Len(chat) /\ proc'[g] \in ProcRecords
Landed(g) ==
  /\ proc[g].phase = "cover"
  /\ \E p \in {"look", "done"} : proc'[g] = [proc[g] EXCEPT !.phase = p]
Asked(g) ==
  /\ Looks(g) /\ pollMu = Nobody /\ pollMu' = g
  /\ proc'[g] = [proc[g] EXCEPT !.phase = "save", !.read = screen]
Replied(g) ==
  /\ proc[g].phase = "save" /\ pollMu' = Nobody /\ proc'[g] = AfterLook(g)
Stamped(g) == proc[g].phase = "stamp" /\ proc'[g] = [proc[g] EXCEPT !.phase = "done"]
Ended(g) == proc[g].phase = "done" /\ proc'[g] = Idle

Moves(g) ==
  \/ (SetsOut(g) \/ Landed(g) \/ Stamped(g) \/ Ended(g)) /\ pollMu' = pollMu
  \/ Asked(g) \/ Replied(g)
\* Nothing becomes of the others.
Only(g) == proc' = [proc EXCEPT ![g] = proc'[g]]
OneMoves ==
  \E g \in Goroutines : Moves(g) /\ Only(g)
AllStop == proc' = [g \in Goroutines |-> Idle] /\ pollMu' = Nobody

LEMMA IdleIsTyped == ChatTyped => Idle \in ProcRecords
<1>1. ChatTyped => 0 \in 0 .. Len(chat)
  BY DEF ChatTyped, IntakeTyped
<1>2. QED
  BY <1>1 DEF Idle, ProcRecords, Phases

LEMMA ChatSetsOut ==
  ASSUME ChatTyped, NEW phase, NEW kind \in Kinds, NEW rationed \in BOOLEAN, page # <<>>,
         proc["chat"] = Idle, SetOut(phase, kind, rationed), phase = "cover"
  PROVE  /\ SetsOut("chat") /\ pollMu' = pollMu
         /\ Only("chat")
         /\ proc'["chat"].kind = kind /\ proc'["chat"].line = Head(page)
         /\ proc'["chat"].rationed = rationed
<1>1. proc \in [Goroutines -> ProcRecords] /\ "chat" \in Goroutines
  BY DEF ChatTyped, ProcTyped, Goroutines
<1>1a. Idle \in ProcRecords
  BY IdleIsTyped
<1> DEFINE set == [Idle EXCEPT !.phase = phase, !.kind = kind, !.line = Head(page), !.rationed = rationed]
<1>2. /\ set.phase = "cover" /\ set.kind = kind /\ set.line = Head(page) /\ set.rationed = rationed
      /\ set.read = 0
  BY DEF Idle
<1>3. proc' = [proc EXCEPT !["chat"] = set] /\ pollMu' = pollMu
  BY DEF SetOut
<1>4. Head(page) \in 1 .. Len(chat) /\ Head(page) \in 0 .. Len(chat)
  BY NextLine
<1>5. set \in ProcRecords
  BY <1>1a, <1>4 DEF ProcRecords, Phases
<1> HIDE DEF set
<1>6. proc'["chat"] = set
  BY <1>1, <1>3
<1>7. Only("chat")
  BY <1>3, <1>6 DEF Only
<1>8. QED
  BY <1>2, <1>3, <1>4, <1>5, <1>6, <1>7 DEF SetsOut

LEMMA ChatSteps ==
  ASSUME ChatTyped, Other \/ Report \/ Where \/ Guess \/ NotYet \/ HereWeGo \/ NothingToPlay \/ Gift \/ GiftIsIdle
  PROVE  \/ UNCHANGED <<proc, pollMu>>
         \/ /\ SetsOut("chat") /\ pollMu' = pollMu
            /\ Only("chat")
<1>1. CASE Other \/ Report \/ Where \/ NotYet \/ NothingToPlay
  BY <1>1 DEF Other, Report, Where, NotYet, NothingToPlay, Answer
<1>2. CASE Guess
  <2>1. CASE GuessesRight
    BY <1>2, <2>1, ChatSetsOut DEF Guess, Routes, GuessesRight, Kinds
  <2>2. QED
    BY <1>2, <2>1 DEF Guess, Misses, NamesNoState, Answer
<1>3. CASE HereWeGo
  <2>1. PICK k \in {"warp", "jump", "seek"} :
          Routes(k) /\ SetOut("cover", k, Sender \notin Broadcasters)
    BY <1>3 DEF HereWeGo
  <2>2. QED
    BY <2>1, ChatSetsOut DEF Routes, Kinds
<1>4. CASE Gift
  BY <1>4, ChatSetsOut DEF Gift, Routes, Kinds
<1>5. CASE GiftIsIdle
  BY <1>5 DEF GiftIsIdle
<1>6. QED
  BY <1>1, <1>2, <1>3, <1>4, <1>5

\* The steps of a jump, one goroutine's at a time.
LEMMA JumpSteps ==
  ASSUME ChatTyped, NEW g \in Goroutines,
         \/ PlayoutAnswers(g) \/ PlayoutFails(g) \/ AskPlayout(g) \/ SavePlaying(g)
         \/ PollFails(g) \/ SetLastTimewarpTime(g) \/ Finish(g)
  PROVE  Moves(g) /\ Only(g)
<1>1. proc \in [Goroutines -> ProcRecords] /\ proc[g] \in ProcRecords
  BY DEF ChatTyped, ProcTyped
<1>2. CASE PlayoutAnswers(g) \/ PlayoutFails(g)
  <2>1. PICK p \in {"look", "done"} : proc' = [proc EXCEPT ![g].phase = p]
    BY <1>2 DEF PlayoutAnswers, PlayoutFails, GoesOn
  <2>2. proc[g].phase = "cover" /\ pollMu' = pollMu
    BY <1>2 DEF PlayoutAnswers, PlayoutFails
  <2>3. proc'[g] = [proc[g] EXCEPT !.phase = p] /\ Only(g)
    BY <1>1, <2>1 DEF Only
  <2>4. QED
    BY <2>2, <2>3 DEF Moves, Landed
<1>3. CASE AskPlayout(g)
  <2>1. /\ Looks(g) /\ pollMu = Nobody /\ pollMu' = g
        /\ proc' = [proc EXCEPT ![g].phase = "save", ![g].read = screen]
    BY <1>3 DEF AskPlayout, Locked
  <2>2. /\ proc'[g] = [proc[g] EXCEPT !.phase = "save", !.read = screen]
        /\ Only(g)
    BY <1>1, <2>1 DEF Only
  <2>3. QED
    BY <2>1, <2>2 DEF Moves, Asked
<1>4. CASE SavePlaying(g) \/ PollFails(g)
  <2>1. proc[g].phase = "save" /\ pollMu' = Nobody /\ proc' = [proc EXCEPT ![g] = AfterLook(g)]
    BY <1>4 DEF SavePlaying, PollFails
  <2>2. proc'[g] = AfterLook(g) /\ Only(g)
    BY <1>1, <2>1 DEF Only
  <2>3. QED
    BY <2>1, <2>2 DEF Moves, Replied
<1>5. CASE SetLastTimewarpTime(g)
  <2>1. proc[g].phase = "stamp" /\ pollMu' = pollMu /\ proc' = [proc EXCEPT ![g].phase = "done"]
    BY <1>5 DEF SetLastTimewarpTime, GoesOn
  <2>2. proc'[g] = [proc[g] EXCEPT !.phase = "done"] /\ Only(g)
    BY <1>1, <2>1 DEF Only
  <2>3. QED
    BY <2>1, <2>2 DEF Moves, Stamped
<1>6. CASE Finish(g)
  <2>1. proc[g].phase = "done" /\ pollMu' = pollMu /\ proc' = [proc EXCEPT ![g] = Idle]
    BY <1>6 DEF Finish
  <2>2. proc'[g] = Idle /\ Only(g)
    BY <1>1, <2>1 DEF Only
  <2>3. QED
    BY <2>1, <2>2 DEF Moves, Ended
<1>7. QED
  BY <1>2, <1>3, <1>4, <1>5, <1>6

LEMMA ProcSteps ==
  ASSUME ChatTyped, Next
  PROVE  UNCHANGED <<proc, pollMu>> \/ OneMoves \/ AllStop
<1>1. "chat" \in Goroutines /\ "operator" \in Goroutines
  BY DEF Goroutines
<1>2. CASE Find
  <2>1. proc \in [Goroutines -> ProcRecords] /\ proc["operator"] = Idle /\ pollMu' = pollMu
    BY <1>2 DEF ChatTyped, ProcTyped, Find
  <2> DEFINE found == [Idle EXCEPT !.phase = "cover", !.kind = "jump"]
  <2>1a. Idle \in ProcRecords
    BY IdleIsTyped
  <2>2. /\ found.phase = "cover" /\ found.read = 0 /\ found.kind \in Kinds
        /\ found.rationed \in BOOLEAN /\ found.line = 0
        /\ found \in ProcRecords
    BY <2>1a DEF Idle, Kinds, ProcRecords, Phases
  <2>3. proc'["operator"] = found /\ Only("operator")
    BY <1>1, <1>2, <2>1 DEF Find, Only
  <2> HIDE DEF found
  <2>4. SetsOut("operator")
    BY <2>1, <2>2, <2>3 DEF SetsOut
  <2>5. QED
    BY <1>1, <2>1, <2>3, <2>4 DEF OneMoves, Moves
<1>3. CASE Other \/ Report \/ Where \/ Guess \/ NotYet \/ HereWeGo \/ NothingToPlay \/ Gift \/ GiftIsIdle
  BY <1>1, <1>3, ChatSteps DEF OneMoves, Moves
<1>4. CASE Say \/ Clock \/ ClipEnds \/ Fetch \/ FetchOffline \/ FetchFails \/ FlagStep
  BY <1>4 DEF Say, Clock, ClipEnds, Fetch, FetchOffline, FetchFails, FlagStep
<1>5. CASE Restart
  BY <1>5 DEF Restart, AllStop
<1>6. QED
  BY <1>2, <1>3, <1>4, <1>5, JumpSteps DEF Next, Handle, OneMoves
LEMMA ProcStaysTyped ==
  ASSUME ChatTyped, Next
  PROVE  ProcTyped'
<1>1. /\ proc \in [Goroutines -> ProcRecords] /\ pollMu \in Goroutines \cup {Nobody}
      /\ Idle \in ProcRecords /\ screen \in Nat /\ chat' = chat
  BY IdleIsTyped, PageSteps DEF ChatTyped, ProcTyped, CountsTyped
<1>2. ASSUME NEW g \in Goroutines, Moves(g)
      PROVE  proc'[g] \in ProcRecords /\ pollMu' \in Goroutines \cup {Nobody}
  <2>1. proc[g] \in ProcRecords
    BY <1>1
  <2>2. pollMu' \in Goroutines \cup {Nobody}
    BY <1>1, <1>2 DEF Moves, Asked, Replied
  <2>3. CASE Landed(g) \/ Stamped(g)
    <3>1. PICK p \in Phases : proc'[g] = [proc[g] EXCEPT !.phase = p]
      BY <2>3 DEF Landed, Stamped, Phases
    <3>2. [proc[g] EXCEPT !.phase = p] \in ProcRecords
      BY <2>1 DEF ProcRecords
    <3>3. QED
      BY <2>2, <3>1, <3>2
  <2>4. CASE Asked(g)
    BY <1>1, <2>1, <2>4 DEF Asked, ProcRecords, Phases
  <2>5. CASE Replied(g)
    <3>1. [proc[g] EXCEPT !.phase = "stamp", !.read = 0] \in ProcRecords
      BY <2>1 DEF ProcRecords, Phases
    <3>2. proc'[g] = Idle \/ proc'[g] = [proc[g] EXCEPT !.phase = "stamp", !.read = 0]
      BY <2>5 DEF Replied, AfterLook
    <3>3. QED
      BY <1>1, <2>2, <3>1, <3>2
  <2>6. QED
    BY <1>1, <1>2, <2>2, <2>3, <2>4, <2>5 DEF Moves, SetsOut, Ended
<1>3. proc' \in [Goroutines -> ProcRecords] /\ pollMu' \in Goroutines \cup {Nobody}
  <2>1. CASE OneMoves
    <3>1. PICK g \in Goroutines : Moves(g) /\ Only(g)
      BY <2>1 DEF OneMoves
    <3>2. proc'[g] \in ProcRecords /\ pollMu' \in Goroutines \cup {Nobody}
      BY <1>2, <3>1
    <3>3. \A r \in ProcRecords : [proc EXCEPT ![g] = r] \in [Goroutines -> ProcRecords]
      BY <1>1
    <3>4. QED
      BY <3>1, <3>2, <3>3 DEF Only
  <2>2. CASE AllStop
    BY <1>1, <2>2 DEF AllStop
  <2>3. QED
    BY <1>1, <2>1, <2>2, ProcSteps
<1>4. QED
  BY <1>1, <1>3 DEF ProcTyped, ProcRecords

\* Each goroutine, after a step: the one that moved, or as it was.
LEMMA EachMoves ==
  ASSUME ChatTyped, Next, NEW g \in Goroutines
  PROVE  \/ proc'[g] = proc[g]
         \/ Moves(g) /\ Only(g)
         \/ proc'[g] = Idle /\ AllStop
<1>1. proc \in [Goroutines -> ProcRecords]
  BY DEF ChatTyped, ProcTyped
<1>2. ASSUME NEW h \in Goroutines, Moves(h), Only(h)
      PROVE  proc'[g] = proc[g] \/ (Moves(g) /\ Only(g))
  <2>1. CASE g = h
    BY <1>2, <2>1
  <2>2. CASE g # h
    <3>1. \A r : [proc EXCEPT ![h] = r][g] = proc[g]
      BY <1>1, <2>2
    <3>2. QED
      BY <1>2, <3>1 DEF Only
  <2>3. QED
    BY <2>1, <2>2
<1>3. QED
  BY <1>2, ProcSteps DEF OneMoves, AllStop
-----------------------------------------------------------------------------
(* Counts and rows *)

LEMMA CountSteps ==
  ASSUME Next
  PROVE  /\ screen' = screen \/ screen' = screen + 1
         /\ jumps' = jumps \/ jumps' = jumps + 1
         /\ hints' = hints \/ hints' = hints + 1 \/ hints' = hints + 0
         /\ unstamped' = unstamped \/ unstamped' = TRUE \/ unstamped' = FALSE
         /\ \/ missed' = missed
            \/ page # <<>> /\ missed' = [missed EXCEPT ![Sender] = jumps]
         /\ known' \in {known, 0} \/ \E g \in Goroutines : proc[g].phase = "save" /\ known' = proc[g].read
<1> USE DEF outside, memory, history
<1>1. CASE Say \/ Clock \/ ClipEnds \/ Find \/ Fetch \/ FetchOffline \/ FetchFails
  BY <1>1 DEF Say, Clock, ClipEnds, Find, Fetch, FetchOffline, FetchFails
<1>2. CASE Other \/ Where \/ NotYet \/ NothingToPlay \/ Report
  BY <1>2 DEF Other, Where, NotYet, NothingToPlay, Report, Answer
<1>3. CASE Guess
  BY <1>3 DEF Guess, GuessesRight, Misses, NamesNoState, SetOut, Answer, Routes
<1>4. CASE HereWeGo \/ Gift \/ GiftIsIdle
  BY <1>4 DEF HereWeGo, Gift, GiftIsIdle, SetOut
<1>5. ASSUME NEW g \in Goroutines,
             \/ PlayoutAnswers(g) \/ PlayoutFails(g) \/ AskPlayout(g) \/ SavePlaying(g)
             \/ PollFails(g) \/ SetLastTimewarpTime(g) \/ Finish(g)
      PROVE  /\ screen' = screen \/ screen' = screen + 1
             /\ jumps' = jumps \/ jumps' = jumps + 1
             /\ UNCHANGED <<hints, missed>>
             /\ unstamped' = unstamped \/ unstamped' = TRUE \/ unstamped' = FALSE
             /\ known' = known \/ (proc[g].phase = "save" /\ known' = proc[g].read)
  BY <1>5 DEF PlayoutAnswers, PlayoutFails, Lands, AskPlayout, SavePlaying, PollFails,
     SetLastTimewarpTime, Finish
<1>6. CASE FlagStep \/ Restart
  BY <1>6 DEF FlagStep, Restart
<1>7. QED
  BY <1>1, <1>2, <1>3, <1>4, <1>5, <1>6 DEF Next, Handle

LEMMA CountsStayTyped ==
  ASSUME ChatTyped, Next
  PROVE  CountsTyped'
<1>1. /\ screen \in Nat /\ known \in Nat /\ jumps \in Nat /\ hints \in Nat
      /\ missed \in [Viewers -> Nat] /\ unstamped \in BOOLEAN
      /\ \A g \in Goroutines : proc[g].read \in Nat
  BY DEF ChatTyped, CountsTyped, ProcTyped, ProcRecords
<1>2. page # <<>> => Sender \in Viewers
  BY NextLine
<1>3. screen' \in Nat /\ jumps' \in Nat /\ hints' \in Nat
  BY <1>1, CountSteps
<1>3a. unstamped' \in BOOLEAN
  BY <1>1, CountSteps
<1>4. known' \in Nat
  BY <1>1, CountSteps
<1>5. missed' \in [Viewers -> Nat]
  BY <1>1, <1>2, CountSteps
<1>6. QED
  BY <1>3, <1>3a, <1>4, <1>5 DEF CountsTyped

\* A line that leaves a row is the next of the page, or the one the chat
\* goroutine was in the middle of.
RowsStand == rows' = rows
RowOf(i) == \E refused \in BOOLEAN : rows' = [rows EXCEPT ![i] = rows[i] \o Outcome(refused)]
NextLineLeavesRow == LineRouted /\ proc'["chat"] = Idle /\ RowOf(Head(page))
JumpLeavesRow ==
  /\ proc["chat"].phase = "done" /\ proc["chat"].kind # "gift" /\ proc'["chat"] = Idle
  /\ PageStands /\ RowOf(proc["chat"].line)

LEMMA Records ==
  ASSUME ChatTyped, NEW i \in DOMAIN chat, NEW refused \in BOOLEAN, Record(i, refused)
  PROVE  RowsStand \/ RowOf(i)
<1>1. CASE rows' = rows
  BY <1>1 DEF RowsStand
<1>2. CASE rows' = [rows EXCEPT ![i] = @ \o Outcome(refused)]
  <2>1. rows' = [rows EXCEPT ![i] = rows[i] \o Outcome(refused)]
    BY <1>2 DEF ChatTyped, RowsTyped
  <2>2. QED
    BY <2>1 DEF RowOf
<1>3. QED
  BY <1>1, <1>2 DEF Record

LEMMA Answers ==
  ASSUME ChatTyped, NEW kind, Routes(kind), NEW refused \in BOOLEAN, Answer(refused)
  PROVE  RowsStand \/ NextLineLeavesRow
<1>1. page # <<>> /\ LineRouted /\ proc'["chat"] = Idle /\ Record(Head(page), refused)
  BY DEF Routes, Answer, LineRouted
<1>2. Head(page) \in DOMAIN chat
  BY <1>1, NextLine
<1>3. QED
  BY <1>1, <1>2, Records DEF NextLineLeavesRow

LEMMA RowSteps ==
  ASSUME ChatTyped, Next,
         proc["chat"].phase = "done" /\ proc["chat"].kind # "gift" => proc["chat"].line \in DOMAIN chat
  PROVE  RowsStand \/ NextLineLeavesRow \/ JumpLeavesRow
<1>1. CASE Other \/ Report \/ Where \/ NotYet \/ NothingToPlay
  <2>1. \E kind \in Kinds, refused \in BOOLEAN : Routes(kind) /\ Answer(refused)
    BY <1>1 DEF Other, Report, Where, NotYet, NothingToPlay, Kinds, ReportAllowed
  <2>2. QED
    BY <2>1, Answers
<1>2. CASE Guess
  <2>1. CASE GuessesRight
    BY <2>1 DEF GuessesRight, SetOut, RowsStand
  <2>2. CASE ~GuessesRight
    <3>1. \E refused \in BOOLEAN : Routes("guess") /\ Answer(refused)
      BY <1>2, <2>2 DEF Guess, Misses, NamesNoState
    <3>2. QED
      BY <3>1, Answers
  <2>3. QED
    BY <2>1, <2>2
<1>3. CASE HereWeGo \/ Gift \/ GiftIsIdle
  BY <1>3 DEF HereWeGo, Gift, GiftIsIdle, SetOut, RowsStand
<1>4. CASE Say \/ Clock \/ ClipEnds \/ Find \/ Fetch \/ FetchOffline \/ FetchFails \/ FlagStep \/ Restart
  BY <1>4 DEF Say, Clock, ClipEnds, Find, Fetch, FetchOffline, FetchFails, FlagStep, Restart, RowsStand
<1>5. ASSUME NEW g \in Goroutines, Finish(g)
      PROVE  RowsStand \/ JumpLeavesRow
  <2>1. CASE g = "chat" /\ proc[g].kind # "gift"
    <3>1. /\ proc["chat"].phase = "done" /\ proc["chat"].kind # "gift" /\ PageStands
          /\ Record(proc["chat"].line, FALSE) /\ proc' = [proc EXCEPT !["chat"] = Idle]
      BY <1>5, <2>1 DEF Finish, intake, PageStands
    <3>2. proc'["chat"] = Idle /\ proc["chat"].line \in DOMAIN chat
      BY <3>1 DEF ChatTyped, ProcTyped, Goroutines
    <3>3. QED
      BY <3>1, <3>2, Records DEF JumpLeavesRow
  <2>2. CASE ~(g = "chat" /\ proc[g].kind # "gift")
    BY <1>5, <2>2 DEF Finish, RowsStand
  <2>3. QED
    BY <2>1, <2>2
<1>6. ASSUME NEW g \in Goroutines,
             \/ PlayoutAnswers(g) \/ PlayoutFails(g) \/ AskPlayout(g) \/ SavePlaying(g)
             \/ PollFails(g) \/ SetLastTimewarpTime(g)
      PROVE  RowsStand
  BY <1>6 DEF PlayoutAnswers, PlayoutFails, AskPlayout, SavePlaying, PollFails, SetLastTimewarpTime, RowsStand
<1>7. QED
  BY <1>1, <1>2, <1>3, <1>4, <1>5, <1>6 DEF Next, Handle
LEMMA RowsStayTyped ==
  ASSUME ChatTyped, Next,
         proc["chat"].phase = "done" /\ proc["chat"].kind # "gift" => proc["chat"].line \in DOMAIN chat
  PROVE  RowsTyped'
<1>1. rows \in [DOMAIN chat -> Seq(Outcomes)] /\ chat' = chat
  BY PageSteps DEF ChatTyped, RowsTyped
<1>2. ASSUME NEW i \in DOMAIN chat, RowOf(i)
      PROVE  rows' \in [DOMAIN chat -> Seq(Outcomes)]
  <2>1. PICK refused \in BOOLEAN : rows' = [rows EXCEPT ![i] = rows[i] \o Outcome(refused)]
    BY <1>2 DEF RowOf
  <2>2. Outcome(refused) \in Seq(Outcomes) /\ rows[i] \in Seq(Outcomes)
    BY <1>1 DEF Outcome, Outcomes
  <2>3. rows[i] \o Outcome(refused) \in Seq(Outcomes)
    BY <2>2
  <2>4. QED
    BY <1>1, <2>1, <2>3
<1>3. NextLineLeavesRow => Head(page) \in DOMAIN chat
  BY NextLine DEF NextLineLeavesRow, LineRouted
<1>4. QED
  BY <1>1, <1>2, <1>3, RowSteps DEF RowsStand, NextLineLeavesRow, JumpLeavesRow, RowsTyped

-----------------------------------------------------------------------------
(* One outcome *)

\* A line with a row has been routed, and is not the one being handled.
RowsAreOfRoutedLines ==
  \A i \in DOMAIN chat : rows[i] # <<>> => i <= said /\ (cursor # NoCursor => i <= Routed)
HandledLineHasNoRow ==
  Busy("chat") =>
    /\ cursor # NoCursor
    /\ proc["chat"].line \in DOMAIN chat /\ proc["chat"].line <= Routed
    /\ proc["chat"].kind # "gift" => rows[proc["chat"].line] = <<>>

IntakeInv == RowsAreOfRoutedLines /\ HandledLineHasNoRow /\ OneOutcome

LEMMA OneMore ==
  ASSUME ChatTyped, NEW i \in DOMAIN chat, RowOf(i), rows[i] = <<>>
  PROVE  /\ Len(rows'[i]) <= 1 /\ \A j \in DOMAIN chat : j # i => rows'[j] = rows[j]
         /\ DOMAIN rows' = DOMAIN chat
<1>1. rows \in [DOMAIN chat -> Seq(Outcomes)]
  BY DEF ChatTyped, RowsTyped
<1>2. PICK refused \in BOOLEAN : rows' = [rows EXCEPT ![i] = rows[i] \o Outcome(refused)]
  BY DEF RowOf
<1>3. Outcome(refused) \in Seq(Outcomes) /\ Len(Outcome(refused)) = 1
  <2>1. <<"run">> \in Seq(Outcomes) /\ <<"refusal">> \in Seq(Outcomes)
    BY DEF Outcomes
  <2>2. Len(<<"run">>) = 1 /\ Len(<<"refusal">>) = 1
    OBVIOUS
  <2>3. Outcome(refused) = <<"run">> \/ Outcome(refused) = <<"refusal">>
    BY DEF Outcome
  <2>4. QED
    BY <2>1, <2>2, <2>3
<1>4. Len(rows[i] \o Outcome(refused)) = 1
  <2>1. rows[i] \in Seq(Outcomes) /\ Len(rows[i]) = 0
    BY <1>1
  <2>2. Len(rows[i] \o Outcome(refused)) = Len(rows[i]) + Len(Outcome(refused))
    BY <1>3, <2>1
  <2>3. QED
    BY <1>3, <2>1, <2>2
<1>5. rows'[i] = rows[i] \o Outcome(refused) /\ \A j \in DOMAIN chat : j # i => rows'[j] = rows[j]
  BY <1>1, <1>2
<1>6. DOMAIN rows' = DOMAIN chat
  BY <1>1, <1>2
<1>7. Len(rows'[i]) = 1
  BY <1>4, <1>5
<1>8. Len(rows'[i]) <= 1
  BY <1>7
<1>9. QED
  BY <1>5, <1>6, <1>8

\* Every step, as the lines of chat see it.
AsItWas ==
  /\ PageStands /\ RowsStand
  /\ Busy("chat")' => /\ Busy("chat") /\ proc'["chat"].line = proc["chat"].line
                      /\ proc'["chat"].kind = proc["chat"].kind
ChatLeavesRow == JumpLeavesRow /\ said' = said
Emptied == (PageForgotten \/ PageFetched) /\ RowsStand /\ proc'["chat"] = Idle /\ said' = said
RoutedAndDone ==
  LineRouted /\ (RowsStand \/ NextLineLeavesRow) /\ proc'["chat"] = Idle /\ said' = said
RoutedAndSetOut ==
  LineRouted /\ RowsStand /\ SetsOut("chat") /\ proc'["chat"].line = Head(page) /\ said' = said

LEMMA JumpsAsItWas ==
  ASSUME ChatTyped, NEW g \in Goroutines, PageStands, RowsStand,
         proc'["chat"] = proc["chat"] \/ Landed("chat") \/ Asked("chat") \/ Replied("chat")
           \/ Stamped("chat") \/ Ended("chat")
  PROVE  AsItWas
<1>1. proc["chat"] \in ProcRecords
  BY DEF ChatTyped, ProcTyped, Goroutines
<1>2. CASE proc'["chat"] = proc["chat"]
  BY <1>2 DEF AsItWas, Busy
<1>3. CASE Ended("chat")
  BY <1>3 DEF Ended, Idle, AsItWas, Busy
<1>4. CASE Landed("chat") \/ Asked("chat") \/ Replied("chat") \/ Stamped("chat")
  <2>1. Busy("chat")
    BY <1>4 DEF Landed, Asked, Replied, Stamped, Looks, Busy
  <2>2. proc'["chat"].line = proc["chat"].line /\ proc'["chat"].kind = proc["chat"].kind
    BY <1>1, <1>4 DEF Landed, Asked, Replied, Stamped, AfterLook, ProcRecords
  <2>3. QED
    BY <2>1, <2>2 DEF AsItWas
<1>5. QED
  BY <1>2, <1>3, <1>4

LEMMA IntakeSteps ==
  ASSUME ChatTyped, Next, HandledLineHasNoRow
  PROVE  AsItWas \/ ChatLeavesRow \/ Emptied \/ RoutedAndDone \/ RoutedAndSetOut
<1> USE DEF outside, intake
<1>1. proc \in [Goroutines -> ProcRecords] /\ "chat" \in Goroutines
  BY DEF ChatTyped, ProcTyped, Goroutines
<1>2. CASE Other \/ Report \/ Where \/ NotYet \/ NothingToPlay
  <2>1. PICK kind \in Kinds, refused \in BOOLEAN : Routes(kind) /\ Answer(refused)
    BY <1>2 DEF Other, Report, Where, NotYet, NothingToPlay, Kinds, ReportAllowed
  <2>2. LineRouted /\ proc'["chat"] = Idle /\ said' = said
    BY <2>1 DEF Routes, Answer, LineRouted
  <2>3. QED
    BY <2>1, <2>2, Answers DEF RoutedAndDone
<1>3. CASE Guess
  <2>1. CASE GuessesRight
    BY <1>3, <2>1, ChatSetsOut
       DEF Guess, GuessesRight, SetOut, Routes, Kinds, RowsStand, LineRouted, RoutedAndSetOut
  <2>2. CASE ~GuessesRight
    <3>1. PICK refused \in BOOLEAN : Routes("guess") /\ Answer(refused)
      BY <1>3, <2>2 DEF Guess, Misses, NamesNoState
    <3>2. LineRouted /\ proc'["chat"] = Idle /\ said' = said
      BY <3>1 DEF Routes, Answer, LineRouted
    <3>3. QED
      BY <3>1, <3>2, Answers DEF RoutedAndDone
  <2>3. QED
    BY <2>1, <2>2
<1>4. CASE HereWeGo
  <2>1. PICK k \in {"warp", "jump", "seek"} :
          Routes(k) /\ SetOut("cover", k, Sender \notin Broadcasters)
    BY <1>4 DEF HereWeGo
  <2>2. QED
    BY <2>1, ChatSetsOut, ZenonT(30) DEF SetOut, Routes, Kinds, RowsStand, LineRouted, RoutedAndSetOut
<1>5. CASE Gift
  BY <1>5, ChatSetsOut DEF Gift, SetOut, Routes, Kinds, RowsStand, LineRouted, RoutedAndSetOut
<1>6. CASE GiftIsIdle
  BY <1>6 DEF GiftIsIdle, Routes, RowsStand, LineRouted, RoutedAndDone
<1>7. CASE Fetch \/ FetchOffline
  BY <1>7 DEF Fetch, FetchOffline, AtRest, RowsStand, PageFetched, PageForgotten, Emptied
<1>8. CASE Restart
  BY <1>1, <1>8 DEF Restart, RowsStand, PageForgotten, Emptied
<1>9. CASE Say \/ Clock \/ ClipEnds \/ FetchFails \/ FlagStep
  BY <1>9 DEF Say, Clock, ClipEnds, FetchFails, AfterFailure, FlagStep, RowsStand, PageStands, AsItWas, Busy
<1>10. CASE Find
  BY <1>1, <1>10 DEF Find, RowsStand, PageStands, AsItWas, Busy
<1>11. ASSUME NEW g \in Goroutines,
              \/ PlayoutAnswers(g) \/ PlayoutFails(g) \/ AskPlayout(g) \/ SavePlaying(g)
              \/ PollFails(g) \/ SetLastTimewarpTime(g) \/ Finish(g)
       PROVE  AsItWas \/ ChatLeavesRow
  <2>1. Moves(g) /\ Only(g)
    BY <1>11, JumpSteps
  <2>2. PageStands /\ said' = said
    BY <1>11 DEF PlayoutAnswers, PlayoutFails, AskPlayout, SavePlaying, PollFails, SetLastTimewarpTime,
       Finish, PageStands
  <2>3. proc[g].phase # "idle" \/ g # "chat"
    BY <1>11 DEF PlayoutAnswers, PlayoutFails, AskPlayout, Looks, SavePlaying, PollFails,
       SetLastTimewarpTime, Finish
  <2>4. g # "chat" => proc'["chat"] = proc["chat"]
    <3>1. \A r : g # "chat" => [proc EXCEPT ![g] = r]["chat"] = proc["chat"]
      BY <1>1
    <3>2. QED
      BY <2>1, <3>1 DEF Only
  <2>5. CASE RowsStand
    <3>1. ~SetsOut("chat") \/ g # "chat"
      BY <2>3 DEF SetsOut, Idle
    <3>2. \/ proc'["chat"] = proc["chat"] \/ Landed("chat") \/ Asked("chat") \/ Replied("chat")
          \/ Stamped("chat") \/ Ended("chat")
      BY <2>1, <2>4, <3>1 DEF Moves
    <3>3. QED
      BY <2>2, <2>5, <3>2, JumpsAsItWas
  <2>6. CASE ~RowsStand
    <3>1. Finish(g) /\ g = "chat" /\ proc["chat"].kind # "gift"
      BY <1>11, <2>6 DEF PlayoutAnswers, PlayoutFails, AskPlayout, SavePlaying, PollFails,
         SetLastTimewarpTime, Finish, RowsStand
    <3>2. /\ proc["chat"].phase = "done" /\ Record(proc["chat"].line, FALSE)
          /\ proc' = [proc EXCEPT !["chat"] = Idle]
      BY <3>1 DEF Finish
    <3>3. proc["chat"].line \in DOMAIN chat
      BY <3>2 DEF HandledLineHasNoRow, Busy
    <3>4. proc'["chat"] = Idle
      BY <1>1, <3>2
    <3>5. QED
      BY <2>2, <2>6, <3>1, <3>2, <3>3, <3>4, Records DEF ChatLeavesRow, JumpLeavesRow
  <2>7. QED
    BY <2>5, <2>6
<1>12. QED
  BY <1>2, <1>3, <1>4, <1>5, <1>6, <1>7, <1>8, <1>9, <1>10, <1>11 DEF Next, Handle

LEMMA IntakeInvStays ==
  ASSUME ChatTyped, IntakeInv, Next
  PROVE  IntakeInv'
<1> USE DEF IntakeInv
<1>1. /\ chat' = chat /\ said \in Nat /\ said' \in Nat /\ said <= said'
      /\ DOMAIN rows = DOMAIN chat /\ DOMAIN chat \subseteq Nat /\ Len(page) \in Nat
      /\ cursor \in {NoCursor} \cup 0 .. said /\ DOMAIN rows' = DOMAIN chat
  <2>1. RowsTyped'
    BY RowsStayTyped DEF HandledLineHasNoRow, Busy
  <2>2. chat' = chat /\ (said' = said \/ said' = said + 1)
    BY PageSteps
  <2>3. chat \in Seq(ChatLines) /\ said \in 0 .. Len(chat) /\ page \in Seq(Nat)
    BY DEF ChatTyped, IntakeTyped
  <2>4. QED
    BY <2>1, <2>2, <2>3 DEF ChatTyped, IntakeTyped, RowsTyped
<1>2. CASE AsItWas
  <2>1. UNCHANGED <<cursor, page, rows>>
    BY <1>2 DEF AsItWas, PageStands, RowsStand
  <2>2. RowsAreOfRoutedLines'
    BY <1>1, <2>1 DEF RowsAreOfRoutedLines, Routed
  <2>3. HandledLineHasNoRow'
    BY <1>1, <1>2, <2>1 DEF HandledLineHasNoRow, AsItWas, Routed
  <2>4. OneOutcome'
    BY <2>1 DEF OneOutcome
  <2>5. QED
    BY <2>2, <2>3, <2>4
<1>3. CASE ChatLeavesRow
  <2> DEFINE l == proc["chat"].line
  <2>1. /\ UNCHANGED <<cursor, page>> /\ RowOf(l) /\ proc'["chat"] = Idle /\ said' = said
        /\ Busy("chat") /\ proc["chat"].kind # "gift"
    BY <1>3 DEF ChatLeavesRow, JumpLeavesRow, PageStands, Busy
  <2>2. l \in DOMAIN chat /\ l <= Routed /\ rows[l] = <<>> /\ cursor # NoCursor
    BY <2>1 DEF HandledLineHasNoRow
  <2>3. Len(rows'[l]) <= 1 /\ \A j \in DOMAIN chat : j # l => rows'[j] = rows[j]
    BY <2>1, <2>2, OneMore
  <2>4. l <= said
    BY <1>1, <2>2 DEF Routed
  <2> HIDE DEF l
  <2>5. RowsAreOfRoutedLines'
    BY <1>1, <2>1, <2>2, <2>3, <2>4 DEF RowsAreOfRoutedLines, Routed
  <2>6. HandledLineHasNoRow'
    BY <2>1 DEF HandledLineHasNoRow, Busy, Idle
  <2>7. OneOutcome'
    BY <1>1, <2>2, <2>3 DEF OneOutcome
  <2>8. QED
    BY <2>5, <2>6, <2>7
<1>4. CASE Emptied
  <2>1. rows' = rows /\ proc'["chat"] = Idle /\ said' = said
    BY <1>4 DEF Emptied, RowsStand
  <2>2. RowsAreOfRoutedLines'
    <3>1. SUFFICES ASSUME NEW i \in DOMAIN chat, rows[i] # <<>>, cursor' # NoCursor
                   PROVE  i <= cursor' - Len(page')
      BY <1>1, <2>1 DEF RowsAreOfRoutedLines, Routed
    <3>2. i <= said /\ (cursor # NoCursor => i <= cursor - Len(page))
      BY <3>1 DEF RowsAreOfRoutedLines, Routed
    <3>3. /\ cursor' = said /\ page = <<>>
          /\ page' = IF cursor = NoCursor THEN <<>> ELSE [n \in 1 .. said - cursor |-> cursor + n]
      BY <1>4, <3>1 DEF Emptied, PageForgotten, PageFetched, AtRest
    <3>4. CASE cursor = NoCursor
      BY <1>1, <3>2, <3>3, <3>4
    <3>5. CASE cursor # NoCursor
      <4>1. cursor \in 0 .. said /\ said - cursor \in Nat
        BY <1>1, <3>5
      <4>2. Len(page') = said - cursor
        <5>1. \A n \in 1 .. said - cursor : cursor + n \in Nat
          BY <4>1
        <5>2. QED
          BY <3>3, <3>5, <4>1, <5>1
      <4>3. i <= cursor
        BY <1>1, <3>2, <3>3, <3>5
      <4>4. cursor' - Len(page') = cursor
        BY <1>1, <3>3, <4>1, <4>2
      <4>5. QED
        BY <4>3, <4>4
    <3>6. QED
      BY <3>4, <3>5
  <2>3. HandledLineHasNoRow' /\ OneOutcome'
    BY <2>1 DEF HandledLineHasNoRow, Busy, Idle, OneOutcome
  <2>4. QED
    BY <2>2, <2>3
<1>5. ASSUME LineRouted
      PROVE  /\ Head(page) \in DOMAIN chat /\ Head(page) = Routed + 1 /\ Routed' = Routed + 1
             /\ Head(page) <= said /\ cursor # NoCursor /\ cursor' = cursor /\ Routed \in Nat
             /\ rows[Head(page)] = <<>>
  <2>1. /\ Head(page) \in DOMAIN chat /\ Head(page) = Routed + 1 /\ Head(page) \in 1 .. said
        /\ cursor # NoCursor /\ cursor' = cursor /\ Routed \in Nat /\ page' = Tail(page)
        /\ Len(Tail(page)) = Len(page) - 1 /\ cursor \in 0 .. said
    BY <1>5, NextLine DEF LineRouted
  <2>2. Routed' = Routed + 1
    <3>1. cursor' = cursor /\ Len(page') = Len(page) - 1 /\ cursor \in Nat /\ Len(page) \in Nat
      BY <1>1, <2>1
    <3>2. cursor' - Len(page') = (cursor - Len(page)) + 1
      BY <3>1
    <3>3. QED
      BY <3>2 DEF Routed
  <2>3. rows[Head(page)] = <<>>
    BY <2>1 DEF RowsAreOfRoutedLines
  <2>4. QED
    BY <1>1, <2>1, <2>2, <2>3
<1>6. CASE RoutedAndDone
  <2>1. LineRouted /\ (RowsStand \/ NextLineLeavesRow) /\ proc'["chat"] = Idle /\ said' = said
    BY <1>6 DEF RoutedAndDone
  <2>2. /\ Head(page) \in DOMAIN chat /\ Head(page) = Routed + 1 /\ Routed' = Routed + 1
        /\ Head(page) <= said /\ cursor # NoCursor /\ cursor' = cursor /\ Routed \in Nat
        /\ rows[Head(page)] = <<>>
    BY <1>5, <2>1
  <2>3. /\ Len(rows'[Head(page)]) <= 1
        /\ \A j \in DOMAIN chat : j # Head(page) => rows'[j] = rows[j]
    <3>1. CASE RowsStand
      BY <2>2, <3>1 DEF RowsStand, OneOutcome
    <3>2. CASE NextLineLeavesRow
      BY <2>2, <3>2, OneMore DEF NextLineLeavesRow
    <3>3. QED
      BY <2>1, <3>1, <3>2
  <2>4. RowsAreOfRoutedLines'
    <3>1. SUFFICES ASSUME NEW i \in DOMAIN chat, rows'[i] # <<>>
                   PROVE  i <= said /\ i <= Routed'
      BY <1>1, <2>1 DEF RowsAreOfRoutedLines
    <3>2. CASE i = Head(page)
      BY <2>2, <3>2
    <3>3. CASE i # Head(page)
      BY <1>1, <2>2, <2>3, <3>1, <3>3 DEF RowsAreOfRoutedLines
    <3>4. QED
      BY <3>2, <3>3
  <2>5. HandledLineHasNoRow'
    BY <2>1 DEF HandledLineHasNoRow, Busy, Idle
  <2>6. OneOutcome'
    BY <1>1, <2>2, <2>3 DEF OneOutcome
  <2>7. QED
    BY <2>4, <2>5, <2>6
<1>7. CASE RoutedAndSetOut
  <2>1. LineRouted /\ rows' = rows /\ proc'["chat"].line = Head(page) /\ said' = said
    BY <1>7 DEF RoutedAndSetOut, RowsStand
  <2>2. /\ Head(page) \in DOMAIN chat /\ Head(page) = Routed + 1 /\ Routed' = Routed + 1
        /\ Head(page) <= said /\ cursor # NoCursor /\ cursor' = cursor /\ Routed \in Nat
        /\ rows[Head(page)] = <<>>
    BY <1>5, <2>1
  <2>3. RowsAreOfRoutedLines'
    BY <1>1, <2>1, <2>2 DEF RowsAreOfRoutedLines
  <2>4. HandledLineHasNoRow'
    BY <1>1, <2>1, <2>2 DEF HandledLineHasNoRow
  <2>5. OneOutcome'
    BY <2>1 DEF OneOutcome
  <2>6. QED
    BY <2>3, <2>4, <2>5
<1>8. QED
  BY <1>2, <1>3, <1>4, <1>6, <1>7, IntakeSteps
-----------------------------------------------------------------------------
(* The poll mutex: one answer of playout at a time *)

MuIsHeld == \A g \in Goroutines : proc[g].phase = "save" <=> pollMu = g
ReadsAreOfTheScreen ==
  /\ known <= screen
  /\ \A g \in Goroutines : proc[g].phase = "save" => known <= proc[g].read /\ proc[g].read <= screen
ReadsInv == MuIsHeld /\ ReadsAreOfTheScreen

LEMMA MuStaysHeld ==
  ASSUME ChatTyped, MuIsHeld, Next
  PROVE  MuIsHeld'
<1>1. proc \in [Goroutines -> ProcRecords] /\ Nobody \notin Goroutines
  BY DEF ChatTyped, ProcTyped, Nobody, Goroutines
<1>2. CASE UNCHANGED <<proc, pollMu>>
  BY <1>2 DEF MuIsHeld
<1>3. CASE AllStop
  BY <1>1, <1>3 DEF AllStop, MuIsHeld, Idle
<1>4. CASE OneMoves
  <2>1. PICK g \in Goroutines : Moves(g) /\ Only(g)
    BY <1>4 DEF OneMoves
  <2>2. \A h \in Goroutines \ {g} : proc'[h] = proc[h]
    <3>1. \A r : \A h \in Goroutines \ {g} : [proc EXCEPT ![g] = r][h] = proc[h]
      BY <1>1
    <3>2. QED
      BY <2>1, <3>1 DEF Only
  <2>3. proc[g] \in ProcRecords
    BY <1>1
  <2>4. CASE (SetsOut(g) \/ Landed(g) \/ Stamped(g) \/ Ended(g)) /\ pollMu' = pollMu
    <3>1. proc[g].phase # "save" /\ proc'[g].phase # "save"
      BY <2>3, <2>4 DEF SetsOut, Landed, Stamped, Ended, Idle, ProcRecords
    <3>2. QED
      BY <2>2, <2>4, <3>1 DEF MuIsHeld
  <2>5. CASE Asked(g)
    <3>1. proc'[g].phase = "save" /\ pollMu = Nobody /\ pollMu' = g
      BY <2>3, <2>5 DEF Asked, ProcRecords
    <3>2. QED
      BY <1>1, <2>2, <3>1 DEF MuIsHeld
  <2>6. CASE Replied(g)
    <3>1. proc[g].phase = "save" /\ proc'[g].phase # "save" /\ pollMu' = Nobody
      BY <2>3, <2>6 DEF Replied, AfterLook, Idle, ProcRecords
    <3>2. QED
      BY <1>1, <2>2, <3>1 DEF MuIsHeld
  <2>7. QED
    BY <2>1, <2>4, <2>5, <2>6 DEF Moves
<1>5. QED
  BY <1>2, <1>3, <1>4, ProcSteps

\* Who sets the player's clip.
LEMMA KnownSteps ==
  ASSUME Next
  PROVE  \/ known' = known \/ known' = 0
         \/ \E g \in Goroutines : SavePlaying(g)
<1> USE DEF outside, memory
<1>1. CASE Say \/ Clock \/ ClipEnds \/ Find \/ Fetch \/ FetchOffline \/ FetchFails
  BY <1>1 DEF Say, Clock, ClipEnds, Find, Fetch, FetchOffline, FetchFails
<1>2. CASE Other \/ Where \/ NotYet \/ NothingToPlay \/ Report
  BY <1>2 DEF Other, Where, NotYet, NothingToPlay, Report, Answer
<1>3. CASE Guess
  BY <1>3 DEF Guess, GuessesRight, Misses, NamesNoState, SetOut, Answer
<1>4. CASE HereWeGo \/ Gift \/ GiftIsIdle
  BY <1>4 DEF HereWeGo, Gift, GiftIsIdle, SetOut
<1>5. ASSUME NEW g \in Goroutines,
             \/ PlayoutAnswers(g) \/ PlayoutFails(g) \/ AskPlayout(g)
             \/ PollFails(g) \/ SetLastTimewarpTime(g) \/ Finish(g)
      PROVE  known' = known
  BY <1>5 DEF PlayoutAnswers, PlayoutFails, AskPlayout, PollFails, SetLastTimewarpTime, Finish
<1>6. CASE FlagStep \/ Restart
  BY <1>6 DEF FlagStep, Restart
<1>7. QED
  BY <1>1, <1>2, <1>3, <1>4, <1>5, <1>6 DEF Next, Handle

\* What is saved was read under the lock, after whatever was saved before.
LEMMA SavesGoForward ==
  ASSUME ChatTyped, ReadsInv, Next
  PROVE  \/ known' = known
         \/ known' = 0
         \/ /\ known <= known' /\ known' <= screen /\ screen' = screen
            /\ \A g \in Goroutines : proc'[g].phase # "save"
<1>1. ASSUME NEW g \in Goroutines, SavePlaying(g)
      PROVE  /\ known <= known' /\ known' <= screen /\ screen' = screen
             /\ \A h \in Goroutines : proc'[h].phase # "save"
  <2>1. proc[g].phase = "save" /\ known' = proc[g].read /\ screen' = screen /\ pollMu' = Nobody
    BY <1>1 DEF SavePlaying, outside
  <2>2. known <= known' /\ known' <= screen
    BY <2>1 DEF ReadsInv, ReadsAreOfTheScreen
  <2>3. MuIsHeld'
    BY MuStaysHeld DEF ReadsInv
  <2>4. \A h \in Goroutines : proc'[h].phase # "save"
    BY <2>1, <2>3 DEF MuIsHeld, Goroutines, Nobody
  <2>5. QED
    BY <2>1, <2>2, <2>4
<1>2. QED
  BY <1>1, KnownSteps

LEMMA ReadsInvStays ==
  ASSUME ChatTyped, ReadsInv, Next
  PROVE  ReadsInv'
<1>1. MuIsHeld'
  BY MuStaysHeld DEF ReadsInv
<1>2. /\ screen \in Nat /\ known \in Nat /\ screen' \in Nat /\ known' \in Nat /\ screen <= screen'
      /\ \A g \in Goroutines : proc[g].read \in Nat /\ proc[g] \in ProcRecords
  <2>1. screen \in Nat /\ known \in Nat /\ \A g \in Goroutines : proc[g].read \in Nat /\ proc[g] \in ProcRecords
    BY DEF ChatTyped, CountsTyped, ProcTyped, ProcRecords
  <2>2. screen' = screen \/ screen' = screen + 1
    BY CountSteps
  <2>3. screen' \in Nat /\ known' \in Nat
    BY CountsStayTyped DEF CountsTyped
  <2>4. QED
    BY <2>1, <2>2, <2>3
<1>3. known <= screen /\ \A g \in Goroutines : proc[g].phase = "save" => known <= proc[g].read /\ proc[g].read <= screen
  BY DEF ReadsInv, ReadsAreOfTheScreen
<1>4. CASE /\ known <= known' /\ known' <= screen /\ screen' = screen
           /\ \A g \in Goroutines : proc'[g].phase # "save"
  BY <1>1, <1>2, <1>4 DEF ReadsInv, ReadsAreOfTheScreen
<1>5. CASE known' = known \/ known' = 0
  <2>1. known' <= known
    BY <1>2, <1>5
  <2>2. known' <= screen'
    BY <1>2, <1>3, <2>1
  <2>3. ASSUME NEW g \in Goroutines, proc'[g].phase = "save"
        PROVE  known' <= proc'[g].read /\ proc'[g].read <= screen'
    <3>1. CASE proc'[g] = proc[g]
      BY <1>2, <1>3, <2>1, <2>3, <3>1
    <3>2. CASE Asked(g)
      <4>1. proc'[g].read = screen
        BY <1>2, <3>2 DEF Asked, ProcRecords
      <4>2. QED
        BY <1>2, <1>3, <2>1, <4>1
    <3>3. CASE Moves(g) /\ ~Asked(g)
      <4>1. proc[g] \in ProcRecords
        BY <1>2
      <4>2. proc'[g].phase # "save"
        <5>1. CASE SetsOut(g) \/ Ended(g)
          BY <5>1 DEF SetsOut, Ended, Idle
        <5>2. CASE Landed(g) \/ Stamped(g)
          BY <4>1, <5>2 DEF Landed, Stamped, ProcRecords
        <5>3. CASE Replied(g)
          BY <4>1, <5>3 DEF Replied, AfterLook, Idle, ProcRecords
        <5>4. QED
          BY <3>3, <5>1, <5>2, <5>3 DEF Moves
      <4>3. QED
        BY <2>3, <4>2
    <3>4. CASE proc'[g] = Idle
      BY <2>3, <3>4 DEF Idle
    <3>5. QED
      BY <3>1, <3>2, <3>3, <3>4, EachMoves
  <2>4. QED
    BY <1>1, <2>2, <2>3 DEF ReadsInv, ReadsAreOfTheScreen
<1>6. QED
  BY <1>4, <1>5, SavesGoForward

-----------------------------------------------------------------------------
(* The rationing of jumps, and the round a guess is of *)

\* Only the chat goroutine's own jump, between its landing and its stamp, is
\* later than the time the limit looks at.
StampFollowsLanding ==
  /\ lastWarp <= now /\ landed <= now
  /\ proc["chat"].phase \notin {"look", "save", "stamp"} => landed <= lastWarp
RationedWaited ==
  proc["chat"].rationed /\ proc["chat"].phase = "cover" => now - landed >= Gap
MissesAreOfTheRound ==
  \A v \in Viewers : misses[v] <= now
                     /\ (misses[v] > lastWarp /\ missed[v] # jumps => unstamped)
PlaybackInv == StampFollowsLanding /\ RationedWaited /\ MissesAreOfTheRound

\* Every step, as the times of the jumps see it.
JumpLands ==
  \E g \in Goroutines :
    /\ proc[g].phase = "cover" /\ Only(g) /\ jumps' = jumps + 1 /\ unstamped' = TRUE
    /\ UNCHANGED <<now, lastWarp, misses, missed, hints>>
    /\ proc'[g].rationed = proc[g].rationed
    /\ \/ proc'[g].phase = "look" /\ landed' = (IF g = "chat" THEN now ELSE landed)
       \/ proc'[g].phase = "done" /\ landed' = landed
JumpStamps ==
  \E g \in Goroutines :
    /\ proc[g].phase = "stamp" /\ Only(g) /\ proc'[g].phase = "done"
    /\ lastWarp' = now /\ unstamped' = FALSE
    /\ UNCHANGED <<now, landed, misses, missed, jumps, hints>>
ViewerMisses ==
  /\ page # <<>> /\ misses' = [misses EXCEPT ![Sender] = now] /\ missed' = [missed EXCEPT ![Sender] = jumps]
  /\ hints' = hints + (IF Hinted(Sender) THEN 1 ELSE 0)
  /\ UNCHANGED <<now, proc, lastWarp, landed, jumps, unstamped>>
ViewerSetsOut ==
  /\ page # <<>> /\ proc["chat"] = Idle /\ Only("chat") /\ proc'["chat"].phase = "cover"
  /\ proc'["chat"].rationed => now - lastWarp >= Gap
  /\ UNCHANGED <<now, lastWarp, landed, misses, missed, jumps, hints, unstamped>>
ForgetsTheRound ==
  /\ AllStop /\ lastWarp' = Never /\ landed' = Never /\ misses' = [v \in Viewers |-> Never]
  /\ UNCHANGED <<now, missed, jumps, hints>>
GoesAbout ==
  /\ now' = now \/ (now < MaxTime /\ now' = now + 1)
  /\ UNCHANGED <<lastWarp, landed, misses, missed, jumps, hints, unstamped>>
  /\ \/ proc'["chat"] = proc["chat"]
     \/ Asked("chat") \/ Replied("chat") \/ Ended("chat")
     \/ proc["chat"].phase = "cover" /\ proc'["chat"].phase \in {"look", "done"}
LEMMA PlaybackSteps ==
  ASSUME ChatTyped, Next
  PROVE  JumpLands \/ JumpStamps \/ ViewerMisses \/ ViewerSetsOut \/ ForgetsTheRound \/ GoesAbout
<1> USE DEF outside, memory, history
<1>1. proc \in [Goroutines -> ProcRecords] /\ "chat" \in Goroutines
  BY DEF ChatTyped, ProcTyped, Goroutines
<1>2. CASE Say \/ Clock \/ ClipEnds \/ Fetch \/ FetchOffline \/ FetchFails \/ FlagStep
  BY <1>2 DEF Say, Clock, ClipEnds, Fetch, FetchOffline, FetchFails, FlagStep, GoesAbout
<1>3. CASE Find
  BY <1>1, <1>3 DEF Find, GoesAbout
<1>4. CASE Restart
  BY <1>4 DEF Restart, AllStop, ForgetsTheRound
<1>5. CASE Other \/ Where \/ NotYet \/ NothingToPlay \/ Report \/ GiftIsIdle
  BY <1>5 DEF Other, Where, NotYet, NothingToPlay, Report, Answer, GiftIsIdle, GoesAbout
<1>6. CASE Guess
  <2>1. CASE GuessesRight
    <3>1. /\ SetsOut("chat") /\ Only("chat") /\ proc'["chat"].rationed = FALSE
          /\ page # <<>> /\ proc["chat"] = Idle
      BY <1>6, <2>1, ChatSetsOut DEF Guess, GuessesRight, Routes, Kinds
    <3>2. UNCHANGED <<now, lastWarp, landed, misses, missed, jumps, hints, unstamped>>
      BY <2>1 DEF GuessesRight, SetOut
    <3>3. QED
      BY <3>1, <3>2 DEF ViewerSetsOut, SetsOut
  <2>2. CASE Misses
    BY <1>6, <2>2 DEF Guess, Routes, Misses, Answer, ViewerMisses
  <2>3. CASE NamesNoState
    BY <2>3 DEF NamesNoState, Answer, GoesAbout
  <2>4. CASE Answer(TRUE) /\ UNCHANGED <<misses, reportedAt, score, history>>
    BY <2>4 DEF Answer, GoesAbout
  <2>5. \/ GuessesRight \/ Misses \/ NamesNoState
        \/ Answer(TRUE) /\ UNCHANGED <<misses, reportedAt, score, history>>
    BY <1>6 DEF Guess
  <2>6. QED
    BY <2>1, <2>2, <2>3, <2>4, <2>5
<1>7. CASE HereWeGo
  <2>1. PICK k \in {"warp", "jump", "seek"} :
          Routes(k) /\ ~TooSoon(Sender) /\ SetOut("cover", k, Sender \notin Broadcasters)
    BY <1>7 DEF HereWeGo
  <2>2. /\ SetsOut("chat") /\ Only("chat") /\ proc'["chat"].rationed = (Sender \notin Broadcasters)
        /\ page # <<>> /\ proc["chat"] = Idle
    BY <2>1, ChatSetsOut DEF Routes, Kinds
  <2>3. Sender \notin Broadcasters => ~(now - lastWarp < Gap)
    BY <2>1 DEF TooSoon
  <2>4. Sender \notin Broadcasters => now - lastWarp >= Gap
    BY <2>3, Constants DEF ChatTyped, TimesTyped
  <2>5. UNCHANGED <<now, lastWarp, landed, misses, missed, jumps, hints, unstamped>>
    BY <2>1 DEF SetOut
  <2>6. QED
    BY <2>2, <2>4, <2>5 DEF ViewerSetsOut, SetsOut
<1>8. CASE Gift
  <2>1. /\ SetsOut("chat") /\ Only("chat") /\ proc'["chat"].rationed = FALSE
        /\ page # <<>> /\ proc["chat"] = Idle
    BY <1>8, ChatSetsOut DEF Gift, Routes, Kinds
  <2>2. UNCHANGED <<now, lastWarp, landed, misses, missed, jumps, hints, unstamped>>
    BY <1>8 DEF Gift, SetOut
  <2>3. QED
    BY <2>1, <2>2 DEF ViewerSetsOut, SetsOut
<1>9. ASSUME NEW g \in Goroutines, PlayoutAnswers(g) \/ PlayoutFails(g)
      PROVE  JumpLands \/ GoesAbout
  <2>1. Moves(g) /\ Only(g) /\ proc[g] \in ProcRecords /\ proc[g].phase = "cover"
    BY <1>1, <1>9, JumpSteps DEF PlayoutAnswers, PlayoutFails
  <2>2. PICK p \in {"look", "done"} :
          /\ proc'[g] = [proc[g] EXCEPT !.phase = p]
          /\ \/ PlayoutAnswers(g) /\ p = "look"
             \/ PlayoutFails(g) /\ p = IF GivesUp(g) THEN "done" ELSE "look"
    BY <1>1, <1>9 DEF PlayoutAnswers, PlayoutFails, GoesOn
  <2>3. proc'[g].phase = p /\ proc'[g].rationed = proc[g].rationed
    BY <2>1, <2>2 DEF ProcRecords
  <2>4. UNCHANGED <<now, lastWarp, misses, missed, hints>>
    BY <1>9 DEF PlayoutAnswers, PlayoutFails
  <2>5. CASE PlayoutAnswers(g) /\ p = "look"
    BY <2>1, <2>3, <2>4, <2>5 DEF PlayoutAnswers, Lands, JumpLands
  <2>6. CASE PlayoutFails(g) /\ p = IF GivesUp(g) THEN "done" ELSE "look"
    <3>1. CASE Lands(g, FALSE)
      BY <2>1, <2>3, <2>4, <2>6, <3>1 DEF Lands, JumpLands
    <3>2. CASE UNCHANGED <<screen, jumps, unstamped, landed>>
      <4>1. g = "chat" \/ proc'["chat"] = proc["chat"]
        <5>1. \A r : g # "chat" => [proc EXCEPT ![g] = r]["chat"] = proc["chat"]
          BY <1>1
        <5>2. QED
          BY <2>1, <5>1 DEF Only
      <4>2. QED
        BY <2>1, <2>3, <2>4, <3>2, <4>1 DEF GoesAbout
    <3>3. QED
      BY <2>6, <3>1, <3>2 DEF PlayoutFails
  <2>7. QED
    BY <2>2, <2>5, <2>6
<1>10. ASSUME NEW g \in Goroutines, AskPlayout(g) \/ SavePlaying(g) \/ PollFails(g) \/ Finish(g)
       PROVE  GoesAbout
  <2>1. Moves(g) /\ Only(g) /\ proc[g] \in ProcRecords
    BY <1>1, <1>10, JumpSteps
  <2>2. UNCHANGED <<now, lastWarp, landed, misses, missed, jumps, hints, unstamped>>
    BY <1>10 DEF AskPlayout, SavePlaying, PollFails, Finish
  <2>3. g = "chat" \/ proc'["chat"] = proc["chat"]
    <3>1. \A r : g # "chat" => [proc EXCEPT ![g] = r]["chat"] = proc["chat"]
      BY <1>1
    <3>2. QED
      BY <2>1, <3>1 DEF Only
  <2>4. Asked(g) \/ Replied(g) \/ Ended(g)
    <3>1. proc' = [proc EXCEPT ![g] = Idle] => proc'[g] = Idle
      BY <1>1
    <3>2. CASE AskPlayout(g)
      BY <1>1, <3>2 DEF AskPlayout, Locked, Asked
    <3>3. CASE SavePlaying(g) \/ PollFails(g)
      BY <1>1, <3>3 DEF SavePlaying, PollFails, Replied
    <3>4. CASE Finish(g)
      BY <3>1, <3>4 DEF Finish, Ended
    <3>5. QED
      BY <1>10, <3>2, <3>3, <3>4
  <2>5. QED
    BY <2>2, <2>3, <2>4 DEF GoesAbout
<1>11. ASSUME NEW g \in Goroutines, SetLastTimewarpTime(g)
       PROVE  JumpStamps
  <2>1. Moves(g) /\ Only(g) /\ proc[g] \in ProcRecords /\ proc[g].phase = "stamp"
    BY <1>1, <1>11, JumpSteps DEF SetLastTimewarpTime
  <2>2. proc' = [proc EXCEPT ![g].phase = "done"]
    BY <1>11 DEF SetLastTimewarpTime, GoesOn
  <2>3. proc'[g].phase = "done"
    BY <1>1, <2>1, <2>2 DEF ProcRecords
  <2>4. QED
    BY <1>11, <2>1, <2>3 DEF SetLastTimewarpTime, Stamp, JumpStamps
<1>12. QED
  BY <1>2, <1>3, <1>4, <1>5, <1>6, <1>7, <1>8, <1>9, <1>10, <1>11 DEF Next, Handle
LEMMA LaterIsFurther ==
  ASSUME NEW a \in Int, NEW b \in Int, NEW c \in Int, NEW d \in Int, a <= b, a - c >= d
  PROVE  b - c >= d
OBVIOUS

LEMMA PlaybackInvStays ==
  ASSUME ChatTyped, PlaybackInv, Next
  PROVE  PlaybackInv'
<1> USE DEF PlaybackInv
<1>1. /\ now \in Int /\ now >= 0 /\ lastWarp \in Int /\ landed \in Int /\ Never \in Int /\ Never < 0
      /\ Gap \in Nat /\ \A v \in Viewers : misses[v] \in Int
      /\ misses \in [Viewers -> Times] /\ missed \in [Viewers -> Nat] /\ jumps \in Nat
      /\ proc \in [Goroutines -> ProcRecords] /\ "chat" \in Goroutines
  <2>1. TimesTyped /\ ProcTyped /\ CountsTyped
    BY DEF ChatTyped
  <2>2. now \in 0 .. MaxTime /\ lastWarp \in Int /\ landed \in Int /\ \A v \in Viewers : misses[v] \in Int
    BY <2>1, Constants DEF TimesTyped
  <2>3. QED
    BY <2>1, <2>2, Constants DEF TimesTyped, ProcTyped, CountsTyped, Goroutines
<1>2. /\ lastWarp <= now /\ landed <= now
      /\ proc["chat"].phase \notin {"look", "save", "stamp"} => landed <= lastWarp
      /\ proc["chat"].rationed /\ proc["chat"].phase = "cover" => now - landed >= Gap
  BY DEF StampFollowsLanding, RationedWaited
<1>3. \A v \in Viewers : misses[v] <= now /\ (misses[v] > lastWarp /\ missed[v] # jumps => unstamped)
  BY DEF MissesAreOfTheRound
<1>4. ASSUME NEW g \in Goroutines, Only(g), g # "chat"
      PROVE  proc'["chat"] = proc["chat"]
  <2>1. \A r : [proc EXCEPT ![g] = r]["chat"] = proc["chat"]
    BY <1>1, <1>4
  <2>2. QED
    BY <1>4, <2>1 DEF Only
<1>5. CASE JumpLands
  <2>1. PICK g \in Goroutines :
          /\ proc[g].phase = "cover" /\ Only(g) /\ jumps' = jumps + 1 /\ unstamped' = TRUE
          /\ UNCHANGED <<now, lastWarp, misses, missed, hints>>
          /\ proc'[g].rationed = proc[g].rationed
          /\ \/ proc'[g].phase = "look" /\ landed' = (IF g = "chat" THEN now ELSE landed)
             \/ proc'[g].phase = "done" /\ landed' = landed
    BY <1>5 DEF JumpLands
  <2>2. MissesAreOfTheRound'
    BY <1>3, <2>1 DEF MissesAreOfTheRound
  <2>3. CASE g = "chat"
    <3>1. RationedWaited'
      BY <2>1, <2>3 DEF RationedWaited
    <3>2. StampFollowsLanding'
      BY <1>1, <1>2, <2>1, <2>3 DEF StampFollowsLanding
    <3>3. QED
      BY <2>2, <3>1, <3>2
  <2>4. CASE g # "chat"
    <3>1. proc'["chat"] = proc["chat"] /\ landed' = landed
      BY <1>4, <2>1, <2>4
    <3>2. QED
      BY <1>2, <2>1, <2>2, <3>1 DEF StampFollowsLanding, RationedWaited
  <2>5. QED
    BY <2>3, <2>4
<1>6. CASE JumpStamps
  <2>1. PICK g \in Goroutines :
          /\ proc[g].phase = "stamp" /\ Only(g) /\ proc'[g].phase = "done"
          /\ lastWarp' = now /\ unstamped' = FALSE
          /\ UNCHANGED <<now, landed, misses, missed, jumps, hints>>
    BY <1>6 DEF JumpStamps
  <2>2. MissesAreOfTheRound'
    BY <1>1, <1>3, <2>1 DEF MissesAreOfTheRound
  <2>3. StampFollowsLanding'
    BY <1>1, <1>2, <2>1 DEF StampFollowsLanding
  <2>4. RationedWaited'
    <3>1. g # "chat" => proc'["chat"] = proc["chat"]
      BY <1>4, <2>1
    <3>2. QED
      BY <1>2, <2>1, <3>1 DEF RationedWaited
  <2>5. QED
    BY <2>2, <2>3, <2>4
<1>7. CASE ViewerMisses
  <2>1. /\ page # <<>> /\ misses' = [misses EXCEPT ![Sender] = now]
        /\ missed' = [missed EXCEPT ![Sender] = jumps]
        /\ UNCHANGED <<now, proc, lastWarp, landed, jumps, unstamped>>
    BY <1>7 DEF ViewerMisses
  <2>2. \A v \in Viewers : (misses'[v] = now /\ missed'[v] = jumps)
                           \/ (misses'[v] = misses[v] /\ missed'[v] = missed[v])
    BY <1>1, <2>1
  <2>3. MissesAreOfTheRound'
    BY <1>1, <1>3, <2>1, <2>2 DEF MissesAreOfTheRound
  <2>4. QED
    BY <1>2, <2>1, <2>3 DEF StampFollowsLanding, RationedWaited
<1>8. CASE ViewerSetsOut
  <2>1. /\ proc["chat"] = Idle /\ proc'["chat"].phase = "cover"
        /\ proc'["chat"].rationed => now - lastWarp >= Gap
        /\ UNCHANGED <<now, lastWarp, landed, misses, missed, jumps, hints, unstamped>>
    BY <1>8 DEF ViewerSetsOut
  <2>2. landed <= lastWarp
    BY <1>2, <2>1 DEF Idle
  <2>3. StampFollowsLanding' /\ MissesAreOfTheRound'
    BY <1>2, <1>3, <2>1, <2>2 DEF StampFollowsLanding, MissesAreOfTheRound
  <2>4. RationedWaited'
    BY <1>1, <2>1, <2>2 DEF RationedWaited
  <2>5. QED
    BY <2>3, <2>4
<1>9. CASE ForgetsTheRound
  <2>1. /\ proc'["chat"] = Idle /\ lastWarp' = Never /\ landed' = Never
        /\ misses' = [v \in Viewers |-> Never] /\ now' = now
    BY <1>1, <1>9 DEF ForgetsTheRound, AllStop
  <2>2. StampFollowsLanding' /\ RationedWaited'
    BY <1>1, <2>1 DEF StampFollowsLanding, RationedWaited, Idle
  <2>3. MissesAreOfTheRound'
    BY <1>1, <2>1 DEF MissesAreOfTheRound
  <2>4. QED
    BY <2>2, <2>3
<1>10. CASE GoesAbout
  <2>1. /\ now' \in Int /\ now <= now'
        /\ UNCHANGED <<lastWarp, landed, misses, missed, jumps, unstamped>>
    BY <1>1, <1>10 DEF GoesAbout
  <2>2. MissesAreOfTheRound'
    <3>1. \A v \in Viewers : misses[v] <= now'
      BY <1>1, <1>3, <2>1
    <3>2. QED
      BY <1>3, <2>1, <3>1 DEF MissesAreOfTheRound
  <2>3. lastWarp' <= now' /\ landed' <= now'
    BY <1>1, <1>2, <2>1
  <2>4. proc["chat"] \in ProcRecords
    BY <1>1
  <2>5. \/ proc'["chat"] = proc["chat"]
        \/ proc'["chat"].phase \in {"save", "stamp"}
        \/ proc["chat"].phase \in {"cover", "done"} /\ proc'["chat"].phase \in {"look", "done", "idle"}
    <3>1. CASE Asked("chat")
      BY <2>4, <3>1 DEF Asked, ProcRecords
    <3>2. CASE Replied("chat")
      BY <2>4, <3>2 DEF Replied, AfterLook, ProcRecords
    <3>3. CASE Ended("chat")
      BY <3>3 DEF Ended, Idle
    <3>4. QED
      BY <1>10, <3>1, <3>2, <3>3 DEF GoesAbout
  <2>6. StampFollowsLanding'
    BY <1>2, <2>1, <2>3, <2>5 DEF StampFollowsLanding
  <2>7. RationedWaited'
    <3>1. CASE proc'["chat"] = proc["chat"]
      <4>1. SUFFICES ASSUME proc["chat"].rationed, proc["chat"].phase = "cover"
                     PROVE  now' - landed >= Gap
        BY <2>1, <3>1 DEF RationedWaited
      <4>2. now - landed >= Gap
        BY <1>2, <4>1
      <4>3. now \in Int /\ now' \in Int /\ landed \in Int /\ Gap \in Int /\ now <= now'
        BY <1>1, <2>1
      <4>4. QED
        BY <4>2, <4>3, LaterIsFurther
    <3>2. CASE proc'["chat"].phase # "cover"
      BY <3>2 DEF RationedWaited
    <3>3. QED
      BY <2>5, <3>1, <3>2
  <2>8. QED
    BY <2>2, <2>6, <2>7
<1>11. QED
  BY <1>5, <1>6, <1>7, <1>8, <1>9, <1>10, PlaybackSteps
-----------------------------------------------------------------------------
(***************************************************************************)
(* The flags' snapshot.                                                    *)
(*                                                                         *)
(* A refresh that was alone from its start to its install read what the    *)
(* table still holds, for a toggle begins with the write and would have    *)
(* spoilt it.  Two that overlap leave the snapshot unsettled until such a  *)
(* refresh comes.                                                          *)
(***************************************************************************)
RefreshRecords == [phase : {"idle", "load", "install"}, read : BOOLEAN, clean : BOOLEAN]

CleanIsAlone == \A r \in Refreshers : Refreshing(r) /\ refresh[r].clean => Alone(r)
DirtyIsUnsettled == \A r \in Refreshers : Refreshing(r) => refresh[r].clean \/ unsettled
CleanReadStands ==
  \A r \in Refreshers : refresh[r].phase = "install" /\ refresh[r].clean => refresh[r].read = enabled
SettledIsTrue == Settled => snapshot = enabled

FlagsInv ==
  /\ FlagTypeOK /\ CleanIsAlone /\ DirtyIsUnsettled /\ CleanReadStands /\ SettledIsTrue

LEMMA ReadsKeepFlags ==
  ASSUME FlagsInv, NEW r \in Refreshers, ~Refreshing(r), Reads(r), snapshot' = snapshot,
         enabled' \in BOOLEAN
  PROVE  FlagsInv'
<1> USE DEF FlagsInv
<1>1. refresh \in [Refreshers -> RefreshRecords] /\ unsettled \in BOOLEAN /\ snapshot \in BOOLEAN
  BY DEF FlagTypeOK, RefreshRecords
<1>2. /\ refresh'[r] = [phase |-> "load", read |-> FALSE, clean |-> Alone(r)]
      /\ \A q \in Refreshers \ {r} : refresh'[q] = [refresh[q] EXCEPT !.clean = FALSE]
      /\ refresh' \in [Refreshers -> RefreshRecords] /\ unsettled' = (unsettled \/ ~Alone(r))
  <2>1. Alone(r) \in BOOLEAN
    BY DEF Alone
  <2>2. [phase |-> "load", read |-> FALSE, clean |-> Alone(r)] \in RefreshRecords
    BY <2>1 DEF RefreshRecords
  <2>3. \A q \in Refreshers : [refresh[q] EXCEPT !.clean = FALSE] \in RefreshRecords
    BY <1>1 DEF RefreshRecords
  <2>4. QED
    BY <2>2, <2>3 DEF Reads
<1>3. /\ refresh'[r].phase = "load" /\ refresh'[r].clean = Alone(r)
      /\ \A q \in Refreshers \ {r} : refresh'[q].phase = refresh[q].phase /\ refresh'[q].clean = FALSE
  BY <1>1, <1>2 DEF RefreshRecords
<1>4. FlagTypeOK'
  BY <1>1, <1>2 DEF FlagTypeOK, RefreshRecords
<1>5. CleanIsAlone'
  BY <1>3 DEF CleanIsAlone, Alone, Refreshing
<1>6. DirtyIsUnsettled'
  <2>1. \A q \in Refreshers \ {r} : Refreshing(q) => unsettled'
    BY <1>2 DEF Alone
  <2>2. refresh'[r].clean \/ unsettled'
    BY <1>2, <1>3
  <2>3. QED
    BY <1>3, <2>1, <2>2 DEF DirtyIsUnsettled, Refreshing
<1>7. CleanReadStands' /\ SettledIsTrue'
  BY <1>3 DEF CleanReadStands, SettledIsTrue, Settled, Refreshing
<1>8. QED
  BY <1>4, <1>5, <1>6, <1>7

LEMMA LoadsKeepFlags ==
  ASSUME FlagsInv, NEW r \in Refreshers, Load(r) \/ LoadFails(r)
  PROVE  FlagsInv'
<1> USE DEF FlagsInv
<1>1. refresh \in [Refreshers -> RefreshRecords] /\ enabled \in BOOLEAN /\ refresh[r] \in RefreshRecords
  BY DEF FlagTypeOK, RefreshRecords
<1>2. CASE Load(r)
  <2> DEFINE loaded == [refresh[r] EXCEPT !.phase = "install", !.read = enabled]
  <2>1. /\ refresh' = [refresh EXCEPT ![r] = loaded] /\ refresh[r].phase = "load"
        /\ UNCHANGED <<enabled, snapshot, unsettled>>
    BY <1>2 DEF Load
  <2>2. /\ loaded \in RefreshRecords /\ loaded.phase = "install" /\ loaded.read = enabled
        /\ loaded.clean = refresh[r].clean
    BY <1>1 DEF RefreshRecords
  <2> HIDE DEF loaded
  <2>3. /\ refresh' \in [Refreshers -> RefreshRecords]
        /\ \A q \in Refreshers : refresh'[q] = IF q = r THEN loaded ELSE refresh[q]
    BY <1>1, <2>1, <2>2
  <2>4. FlagTypeOK'
    BY <2>1, <2>3 DEF FlagTypeOK, RefreshRecords
  <2>5. \A q \in Refreshers : Refreshing(q)' <=> Refreshing(q)
    BY <2>1, <2>2, <2>3 DEF Refreshing
  <2>6. CleanIsAlone' /\ DirtyIsUnsettled'
    BY <2>1, <2>2, <2>3, <2>5 DEF CleanIsAlone, DirtyIsUnsettled, Alone
  <2>7. CleanReadStands'
    BY <2>1, <2>2, <2>3 DEF CleanReadStands
  <2>8. SettledIsTrue'
    BY <2>1, <2>5 DEF SettledIsTrue, Settled
  <2>9. QED
    BY <2>4, <2>6, <2>7, <2>8
<1>3. CASE LoadFails(r)
  <2>1. /\ refresh' = [refresh EXCEPT ![r] = NotRefreshing] /\ unsettled' = TRUE
        /\ UNCHANGED <<enabled, snapshot>>
    BY <1>3 DEF LoadFails
  <2>2. NotRefreshing \in RefreshRecords /\ NotRefreshing.phase = "idle"
    BY DEF NotRefreshing, RefreshRecords
  <2>3. /\ refresh' \in [Refreshers -> RefreshRecords]
        /\ \A q \in Refreshers : refresh'[q] = IF q = r THEN NotRefreshing ELSE refresh[q]
    BY <1>1, <2>1, <2>2
  <2>4. FlagTypeOK'
    BY <2>1, <2>3 DEF FlagTypeOK, RefreshRecords
  <2>5. CleanIsAlone' /\ DirtyIsUnsettled'
    BY <2>1, <2>2, <2>3 DEF CleanIsAlone, DirtyIsUnsettled, Alone, Refreshing
  <2>6. CleanReadStands' /\ SettledIsTrue'
    BY <2>1, <2>2, <2>3 DEF CleanReadStands, SettledIsTrue, Settled
  <2>7. QED
    BY <2>4, <2>5, <2>6
<1>4. QED
  BY <1>2, <1>3

LEMMA InstallsKeepFlags ==
  ASSUME FlagsInv, NEW r \in Refreshers, Install(r)
  PROVE  FlagsInv'
<1> USE DEF FlagsInv
<1>1. /\ refresh \in [Refreshers -> RefreshRecords] /\ enabled \in BOOLEAN /\ refresh[r] \in RefreshRecords
      /\ unsettled \in BOOLEAN
  BY DEF FlagTypeOK, RefreshRecords
<1>2. /\ refresh[r].phase = "install" /\ snapshot' = refresh[r].read /\ enabled' = enabled
      /\ refresh' = [refresh EXCEPT ![r] = NotRefreshing] /\ unsettled' = (unsettled /\ ~refresh[r].clean)
  BY DEF Install
<1>3. NotRefreshing \in RefreshRecords /\ NotRefreshing.phase = "idle"
  BY DEF NotRefreshing, RefreshRecords
<1>4. /\ refresh' \in [Refreshers -> RefreshRecords]
      /\ \A q \in Refreshers : refresh'[q] = IF q = r THEN NotRefreshing ELSE refresh[q]
  BY <1>1, <1>2, <1>3
<1>5. FlagTypeOK'
  BY <1>1, <1>2, <1>4 DEF FlagTypeOK, RefreshRecords
<1>6. CleanIsAlone'
  BY <1>3, <1>4 DEF CleanIsAlone, Alone, Refreshing
<1>7. CleanReadStands'
  BY <1>2, <1>3, <1>4 DEF CleanReadStands
<1>8. CASE refresh[r].clean
  <2>1. \A q \in Refreshers : ~Refreshing(q)'
    BY <1>2, <1>3, <1>4, <1>8 DEF CleanIsAlone, Alone, Refreshing
  <2>2. snapshot' = enabled'
    BY <1>2, <1>8 DEF CleanReadStands
  <2>3. QED
    BY <1>5, <1>6, <1>7, <2>1, <2>2 DEF DirtyIsUnsettled, SettledIsTrue
<1>9. CASE ~refresh[r].clean
  <2>1. unsettled /\ unsettled'
    BY <1>1, <1>2, <1>9 DEF DirtyIsUnsettled, Refreshing
  <2>2. QED
    BY <1>5, <1>6, <1>7, <2>1 DEF DirtyIsUnsettled, SettledIsTrue, Settled
<1>10. QED
  BY <1>8, <1>9

LEMMA FlagsInvStays ==
  ASSUME FlagsInv, FlagStep \/ Restart \/ UNCHANGED flagVars
  PROVE  FlagsInv'
<1>1. CASE FlagStep
  <2>1. enabled \in BOOLEAN /\ Poll \in Refreshers /\ Requests \subseteq Refreshers
    BY DEF FlagsInv, FlagTypeOK, Refreshers
  <2>2. CASE StartPoll
    BY <2>1, <2>2, ReadsKeepFlags DEF StartPoll
  <2>3. ASSUME NEW r \in Requests, Toggle(r)
        PROVE  FlagsInv'
    BY <2>1, <2>3, ReadsKeepFlags DEF Toggle
  <2>4. QED
    BY <1>1, <2>2, <2>3, LoadsKeepFlags, InstallsKeepFlags DEF FlagStep
<1>2. CASE Restart
  <2>1. /\ snapshot' = enabled /\ enabled' = enabled /\ unsettled' = FALSE
        /\ refresh' = [r \in Refreshers |-> NotRefreshing]
    BY <1>2 DEF Restart, FlagsReboot
  <2>2. NotRefreshing \in RefreshRecords /\ NotRefreshing.phase = "idle"
    BY DEF NotRefreshing, RefreshRecords
  <2>3. FlagTypeOK'
    BY <2>1, <2>2 DEF FlagsInv, FlagTypeOK, RefreshRecords
  <2>4. QED
    BY <2>1, <2>2, <2>3 DEF FlagsInv, CleanIsAlone, DirtyIsUnsettled, CleanReadStands, SettledIsTrue, Refreshing
<1>3. CASE UNCHANGED flagVars
  BY <1>3 DEF flagVars, FlagsInv, FlagTypeOK, CleanIsAlone, DirtyIsUnsettled, CleanReadStands, SettledIsTrue,
     Settled, Refreshing, Alone
<1>4. QED
  BY <1>1, <1>2, <1>3-----------------------------------------------------------------------------
(* The whole invariant *)

\* What a goroutine has read is never ahead of the screen.
ReadsAreBounded == \A g \in Goroutines : proc[g].read <= screen

LEMMA ReadsStayBounded ==
  ASSUME ChatTyped, ReadsAreBounded, Next
  PROVE  ReadsAreBounded'
<1>1. /\ screen \in Nat /\ \A g \in Goroutines : proc[g].read \in Nat /\ proc[g] \in ProcRecords
  BY DEF ChatTyped, CountsTyped, ProcTyped, ProcRecords
<1>2. screen' \in Nat /\ screen <= screen'
  BY <1>1, CountSteps
<1>3. SUFFICES ASSUME NEW g \in Goroutines
               PROVE  proc'[g].read <= screen'
  BY DEF ReadsAreBounded
<1>4. proc'[g].read \in {proc[g].read, screen, 0}
  <2>1. proc[g] \in ProcRecords
    BY <1>1
  <2>2. CASE SetsOut(g) \/ Ended(g) \/ proc'[g] = Idle
    BY <2>2 DEF SetsOut, Ended, Idle
  <2>3. CASE Landed(g) \/ Stamped(g) \/ Asked(g) \/ proc'[g] = proc[g]
    BY <2>1, <2>3 DEF Landed, Stamped, Asked, ProcRecords
  <2>4. CASE Replied(g)
    BY <2>1, <2>4 DEF Replied, AfterLook, Idle, ProcRecords
  <2>5. QED
    BY <2>2, <2>3, <2>4, EachMoves DEF Moves
<1>5. proc[g].read <= screen /\ proc[g].read \in Nat
  BY <1>1 DEF ReadsAreBounded
<1>6. QED
  BY <1>1, <1>2, <1>4, <1>5

ChatInv ==
  ChatTyped /\ IntakeInv /\ ReadsInv /\ ReadsAreBounded /\ PlaybackInv /\ FlagsInv

LEMMA ChatInvInit == Init => ChatInv
<1> SUFFICES ASSUME Init PROVE ChatInv
  OBVIOUS
<1>1. PICK s \in Scenarios : chat = s[1]
  BY DEF Init
<1>2. chat \in Seq(ChatLines) /\ Len(chat) \in Nat
  <2>1. s[1] \in Seq(ChatLines)
    BY ChatConstants DEF ChatLines
  <2>2. QED
    BY <1>1, <2>1
<1>3. IntakeTyped /\ PageIsNext
  BY <1>2 DEF Init, IntakeTyped, PageIsNext
<1>4. Never \in Times /\ 0 \in 0 .. MaxTime
  BY Constants DEF Times
<1>5. TimesTyped /\ CountsTyped
  BY <1>4 DEF Init, TimesTyped, CountsTyped
<1>6. Idle \in ProcRecords /\ \A g \in Goroutines : proc[g] = Idle
  BY <1>2 DEF Init, Idle, ProcRecords, Phases
<1>7. ProcTyped
  BY <1>6 DEF Init, ProcTyped
<1>8. RowsTyped
  <2>1. <<>> \in Seq(Outcomes)
    OBVIOUS
  <2>2. QED
    BY <2>1 DEF Init, RowsTyped
<1>9. IntakeInv
  <2>1. DOMAIN rows = DOMAIN chat /\ \A i \in DOMAIN chat : rows[i] = <<>> /\ Len(rows[i]) <= 1
    <3>1. Len(<<>>) <= 1
      OBVIOUS
    <3>2. QED
      BY <3>1 DEF Init
  <2>2. proc["chat"].phase = "idle"
    BY <1>6 DEF Idle, Goroutines
  <2>3. QED
    BY <2>1, <2>2 DEF IntakeInv, RowsAreOfRoutedLines, HandledLineHasNoRow, OneOutcome, Busy
<1>10. ReadsInv /\ ReadsAreBounded
  BY <1>6 DEF Init, ReadsInv, MuIsHeld, ReadsAreOfTheScreen, ReadsAreBounded, Idle, Nobody, Goroutines
<1>11. PlaybackInv
  <2>1. proc["chat"].phase = "idle" /\ lastWarp = Never /\ landed = Never /\ now = 0
        /\ \A v \in Viewers : misses[v] = Never
    BY <1>6 DEF Init, Idle, Goroutines
  <2>2. QED
    BY <2>1, Constants DEF PlaybackInv, StampFollowsLanding, RationedWaited, MissesAreOfTheRound
<1>12. FlagsInv
  <2>1. NotRefreshing \in RefreshRecords /\ NotRefreshing.phase = "idle"
    BY DEF NotRefreshing, RefreshRecords
  <2>2. enabled \in BOOLEAN /\ snapshot = enabled /\ unsettled = FALSE
        /\ refresh = [r \in Refreshers |-> NotRefreshing]
    BY FlagConstants DEF Init, FlagsInit
  <2>3. FlagTypeOK
    BY <2>1, <2>2 DEF FlagTypeOK, RefreshRecords
  <2>4. QED
    BY <2>1, <2>2, <2>3 DEF FlagsInv, CleanIsAlone, DirtyIsUnsettled, CleanReadStands, SettledIsTrue, Refreshing
<1>13. QED
  BY <1>3, <1>5, <1>7, <1>8, <1>9, <1>10, <1>11, <1>12 DEF ChatInv, ChatTyped

LEMMA ChatInvNext ==
  ASSUME ChatInv, [Next]_all
  PROVE  ChatInv'
<1>1. CASE Next
  <2>1. ChatTyped'
    <3>1. proc["chat"].phase = "done" /\ proc["chat"].kind # "gift" => proc["chat"].line \in DOMAIN chat
      BY DEF ChatInv, IntakeInv, HandledLineHasNoRow, Busy
    <3>2. QED
      BY <1>1, <3>1, PageStaysNext, TimesStayTyped, CountsStayTyped, ProcStaysTyped, RowsStayTyped
         DEF ChatInv, ChatTyped
  <2>2. IntakeInv' /\ ReadsInv' /\ ReadsAreBounded' /\ PlaybackInv'
    BY <1>1, IntakeInvStays, ReadsInvStays, ReadsStayBounded, PlaybackInvStays DEF ChatInv
  <2>3. FlagsInv'
    BY <1>1, FlagsInvStays DEF ChatInv, Next
  <2>4. QED
    BY <2>1, <2>2, <2>3 DEF ChatInv
<1>2. CASE UNCHANGED all
  <2>1. /\ UNCHANGED <<chat, said, now, screen, cursor, page, proc, pollMu, known, lastWarp, lastGift,
                       misses, reportedAt, rows, hints, jumps, unstamped, landed, missed>>
        /\ UNCHANGED flagVars
    BY <1>2 DEF all, vars, outside, intake, memory, history
  <2>2. ChatTyped'
    BY <2>1 DEF ChatInv, ChatTyped, IntakeTyped, TimesTyped, CountsTyped, ProcTyped, ProcRecords, RowsTyped,
       PageIsNext, Routed
  <2>3. IntakeInv'
    BY <2>1 DEF ChatInv, IntakeInv, RowsAreOfRoutedLines, HandledLineHasNoRow, OneOutcome, Routed, Busy
  <2>4. ReadsInv' /\ ReadsAreBounded'
    BY <2>1 DEF ChatInv, ReadsInv, MuIsHeld, ReadsAreOfTheScreen, ReadsAreBounded
  <2>5. PlaybackInv'
    BY <2>1 DEF ChatInv, PlaybackInv, StampFollowsLanding, RationedWaited, MissesAreOfTheRound
  <2>6. FlagsInv'
    BY <2>1, FlagsInvStays DEF ChatInv
  <2>7. QED
    BY <2>2, <2>3, <2>4, <2>5, <2>6 DEF ChatInv
<1>3. QED
  BY <1>1, <1>2

LEMMA ChatInvariant == Spec => []ChatInv
<1>1. QED
  BY ChatInvInit, ChatInvNext, PTL DEF Spec

\* The types of the chat goroutine's state, of the times and of the flags hold
\* in every state; what is known of the screen is never ahead of it.
THEOREM ChatTypeCorrect == Spec => []TypeOK
<1>1. ChatInv => TypeOK
  <2> SUFFICES ASSUME ChatInv PROVE TypeOK
    OBVIOUS
  <2>1. /\ page \in Seq(Nat) /\ said \in 0 .. Len(chat) /\ cursor \in {NoCursor} \cup 0 .. said
        /\ Len(chat) \in Nat
    BY DEF ChatInv, ChatTyped, IntakeTyped
  <2>2. \A i \in 1 .. Len(page) : page[i] \in 1 .. said
    <3>1. SUFFICES ASSUME NEW i \in 1 .. Len(page)
                   PROVE  page[i] \in 1 .. said
      OBVIOUS
    <3>2. Len(page) \in Nat /\ page # <<>>
      BY <2>1
    <3>3. cursor # NoCursor /\ Len(page) <= cursor /\ page[i] = (cursor - Len(page)) + i
      BY <3>2 DEF ChatInv, ChatTyped, PageIsNext, Routed
    <3>4. cursor \in 0 .. said /\ said \in Nat
      BY <2>1, <3>3
    <3>5. QED
      BY <3>2, <3>3, <3>4
  <2>3. known \in 0 .. screen
    BY DEF ChatInv, ChatTyped, CountsTyped, ReadsInv, ReadsAreOfTheScreen
  <2>4. proc \in [Goroutines -> [phase : Phases, kind : Kinds \cup {"none", "warp", "jump"},
                                 line : 0 .. Len(chat), rationed : BOOLEAN, read : 0 .. screen]]
    <3> DEFINE records == [phase : Phases, kind : Kinds \cup {"none", "warp", "jump"},
                           line : 0 .. Len(chat), rationed : BOOLEAN, read : 0 .. screen]
    <3>1. proc \in [Goroutines -> ProcRecords] /\ screen \in Nat
      BY DEF ChatInv, ChatTyped, ProcTyped, CountsTyped
    <3>2. \A g \in Goroutines : proc[g] \in ProcRecords /\ proc[g].read <= screen
      BY <3>1 DEF ChatInv, ReadsAreBounded
    <3>3. \A g \in Goroutines : proc[g] \in records
      <4>1. SUFFICES ASSUME NEW g \in Goroutines
                     PROVE  proc[g] \in records
        OBVIOUS
      <4>2. proc[g] \in ProcRecords /\ proc[g].read \in 0 .. screen
        BY <3>1, <3>2 DEF ProcRecords
      <4>3. QED
        BY <4>2 DEF ProcRecords
    <3>4. QED
      BY <3>1, <3>3
  <2>5. QED
    BY <2>1, <2>2, <2>3, <2>4 DEF TypeOK, ChatInv, ChatTyped, TimesTyped, ProcTyped, FlagsInv
<1>2. QED
  BY <1>1, ChatInvariant, PTL

\* No line is handled twice, nor refused and run: a page begins after the last
\* line that was routed, a failed poll keeps the cursor, and a cursor that is
\* lost skips what was said before (gatewayChatPoller.Run, dispatch).
THEOREM EveryLineHasOneOutcome == Spec => []OneOutcome
<1>1. ChatInv => OneOutcome
  BY DEF ChatInv, IntakeInv
<1>2. QED
  BY <1>1, ChatInvariant, PTL

\* The player's clip does not go back to one that had left the screen, for the
\* cron and the commands ask playout and save its answer under one lock
\* (Player.GetCurrentlyPlaying).
THEOREM TheClipGoesForward == Spec => ReadsInOrder
<1>1. ChatInv /\ [Next]_all => [known' # 0 => known' >= known]_vars
  <2> SUFFICES ASSUME ChatInv, [Next]_all, known' # 0, known' # known
               PROVE  known' >= known
    BY DEF vars, memory, ChatInv, ChatTyped, CountsTyped
  <2>1. CASE Next
    <3>1. known <= known'
      BY <2>1, SavesGoForward DEF ChatInv
    <3>2. known \in Nat /\ known' \in Nat
      BY <2>1, CountsStayTyped DEF ChatInv, ChatTyped, CountsTyped
    <3>3. QED
      BY <3>1, <3>2
  <2>2. CASE UNCHANGED all
    BY <2>2 DEF all, vars, memory
  <2>3. QED
    BY <2>1, <2>2
<1>2. QED
  BY <1>1, ChatInvariant, PTL DEF Spec, ReadsInOrder

\* Only giftCmd sets out on a gift's jump, and it asks the snapshot first.
LEMMA GiftsAsk ==
  ASSUME ChatTyped, Next, proc["chat"].kind # "gift", proc'["chat"].kind = "gift"
  PROVE  snapshot
<1> USE DEF outside, intake
<1>1. /\ proc \in [Goroutines -> ProcRecords] /\ "chat" \in Goroutines /\ "operator" \in Goroutines
      /\ Idle.kind = "none"
  BY DEF ChatTyped, ProcTyped, Goroutines, Idle
<1>2. CASE Say \/ Clock \/ ClipEnds \/ Fetch \/ FetchOffline \/ FetchFails \/ FlagStep
  BY <1>2 DEF Say, Clock, ClipEnds, Fetch, FetchOffline, FetchFails, FlagStep
<1>3. CASE Find
  BY <1>1, <1>3 DEF Find
<1>4. CASE Restart
  BY <1>1, <1>4 DEF Restart
<1>5. CASE Other \/ Where \/ NotYet \/ NothingToPlay \/ Report \/ GiftIsIdle
  BY <1>5 DEF Other, Where, NotYet, NothingToPlay, Report, Answer, GiftIsIdle
<1>6. CASE Guess
  <2>1. CASE GuessesRight
    <3>1. proc'["chat"].kind = "warp"
      BY <1>6, <2>1, ChatSetsOut DEF Guess, GuessesRight, Routes, Kinds
    <3>2. QED
      BY <3>1
  <2>2. CASE ~GuessesRight
    BY <1>6, <2>2 DEF Guess, Misses, NamesNoState, Answer
  <2>3. QED
    BY <2>1, <2>2
<1>7. CASE HereWeGo
  <2>1. PICK k \in {"warp", "jump", "seek"} :
          Routes(k) /\ SetOut("cover", k, Sender \notin Broadcasters)
    BY <1>7 DEF HereWeGo
  <2>2. proc'["chat"].kind = k
    BY <2>1, ChatSetsOut DEF Routes, Kinds
  <2>3. QED
    BY <2>2
<1>8. CASE Gift
  BY <1>8 DEF Gift, GiftsOn
<1>9. ASSUME NEW g \in Goroutines,
             \/ PlayoutAnswers(g) \/ PlayoutFails(g) \/ AskPlayout(g) \/ SavePlaying(g)
             \/ PollFails(g) \/ SetLastTimewarpTime(g) \/ Finish(g)
      PROVE  proc'["chat"].kind \in {proc["chat"].kind, "none"}
  <2>1. proc[g] \in ProcRecords /\ proc["chat"] \in ProcRecords
    BY <1>1
  <2>2. CASE PlayoutAnswers(g) \/ PlayoutFails(g) \/ SetLastTimewarpTime(g)
    <3>1. \E p : proc' = [proc EXCEPT ![g].phase = p]
      BY <2>2 DEF PlayoutAnswers, PlayoutFails, SetLastTimewarpTime, GoesOn
    <3>2. QED
      BY <1>1, <2>1, <3>1 DEF ProcRecords
  <2>3. CASE AskPlayout(g)
    <3>1. proc' = [proc EXCEPT ![g].phase = "save", ![g].read = screen]
      BY <2>3 DEF AskPlayout
    <3>2. QED
      BY <1>1, <2>1, <3>1 DEF ProcRecords
  <2>4. CASE SavePlaying(g) \/ PollFails(g) \/ Finish(g)
    <3>1. proc' = [proc EXCEPT ![g] = AfterLook(g)] \/ proc' = [proc EXCEPT ![g] = Idle]
      BY <2>4 DEF SavePlaying, PollFails, Finish
    <3>2. AfterLook(g).kind \in {proc[g].kind, "none"}
      BY <1>1, <2>1 DEF AfterLook, ProcRecords
    <3>3. QED
      BY <1>1, <3>1, <3>2
  <2>5. QED
    BY <1>9, <2>2, <2>3, <2>4
<1>10. QED
  BY <1>2, <1>3, <1>4, <1>5, <1>6, <1>7, <1>8, <1>9 DEF Next, Handle

\* A viewer's jump keeps its distance, a hint compares two misses of one round,
\* and a gift has its flag (playback.go, guessCmd, giftCmd).
THEOREM JumpsHintsAndGiftsAreRationed == Spec => PlaybackIsRationed
<1>1. ChatInv /\ [Next]_all =>
        [ /\ jumps' > jumps
          /\ proc["chat"].rationed /\ proc'["chat"] # proc["chat"]
          => now - landed >= Gap ]_vars
  <2> SUFFICES ASSUME ChatInv, Next, jumps' > jumps,
                      proc["chat"].rationed, proc'["chat"] # proc["chat"]
               PROVE  now - landed >= Gap
    BY DEF all
  <2>1. jumps \in Nat /\ proc \in [Goroutines -> ProcRecords] /\ "chat" \in Goroutines
    BY DEF ChatInv, ChatTyped, CountsTyped, ProcTyped, Goroutines
  <2>2. jumps' # jumps
    BY <2>1
  <2>3. JumpLands
    BY <2>2, PlaybackSteps DEF ChatInv, JumpStamps, ViewerMisses, ViewerSetsOut, ForgetsTheRound, GoesAbout
  <2>4. PICK g \in Goroutines : proc[g].phase = "cover" /\ Only(g)
    BY <2>3 DEF JumpLands
  <2>5. g = "chat"
    <3>1. \A r : g # "chat" => [proc EXCEPT ![g] = r]["chat"] = proc["chat"]
      BY <2>1
    <3>2. QED
      BY <2>4, <3>1 DEF Only
  <2>6. QED
    BY <2>4, <2>5 DEF ChatInv, PlaybackInv, RationedWaited
<1>2. ChatInv /\ [Next]_all => [hints' > hints => unstamped \/ missed[Sender] = jumps]_vars
  <2> SUFFICES ASSUME ChatInv, Next, hints' > hints
               PROVE  unstamped \/ missed[Sender] = jumps
    BY DEF all
  <2>1. hints \in Nat
    BY DEF ChatInv, ChatTyped, CountsTyped
  <2>2. hints' # hints
    BY <2>1
  <2>3. ViewerMisses
    BY <2>2, PlaybackSteps DEF ChatInv, JumpLands, JumpStamps, ViewerSetsOut, ForgetsTheRound, GoesAbout
  <2>4. Hinted(Sender) /\ page # <<>>
    BY <2>1, <2>2, <2>3 DEF ViewerMisses
  <2>5. Sender \in Viewers
    BY <2>4, NextLine DEF ChatInv
  <2>6. QED
    BY <2>4, <2>5 DEF ChatInv, PlaybackInv, MissesAreOfTheRound, Hinted
<1>3. ChatInv /\ [Next]_all =>
        [proc'["chat"].kind = "gift" /\ proc["chat"].kind # "gift" /\ Settled => enabled]_vars
  <2> SUFFICES ASSUME ChatInv, Next, proc'["chat"].kind = "gift", proc["chat"].kind # "gift", Settled
               PROVE  enabled
    BY DEF all
  <2>1. snapshot
    BY GiftsAsk DEF ChatInv
  <2>2. QED
    BY <2>1 DEF ChatInv, FlagsInv, SettledIsTrue
<1>4. QED
  BY <1>1, <1>2, <1>3, ChatInvariant, PTL
     DEF Spec, PlaybackIsRationed, JumpsAreSpaced, HintsStayInTheRound, GiftsObeyTheSwitch

-----------------------------------------------------------------------------
(* The clips                                                               *)

\* A page of one original: what was there all along is there now, and what was
\* read of its neighbours is read right.
SourceRight ==
  asked.kind = "source" =>
    /\ {"kind", "step", "prev", "next", "there"} \subseteq DOMAIN asked
    /\ asked.step \in {"cuts", "not_found", "prev", "next", "done"}
    /\ asked.of > 0 /\ asked.of \in Nat
    /\ asked.there \subseteq Originals
    /\ asked.step \in {"next", "done"} =>
         /\ asked.prev \in Nat /\ asked.prev < asked.of
         /\ \A o \in asked.there : o < asked.of => asked.prev >= o
    /\ asked.step = "done" =>
         /\ asked.next \in Nat /\ (asked.next = 0 \/ asked.next > asked.of)
         /\ \A o \in asked.there : o > asked.of => asked.next \in 1 .. o

\* The calendar is of the film as it was, and a day's page of the film as it is.
DaysRight ==
  /\ asked.kind = "calendar" =>
       /\ asked.at \in 0 .. ReIngests /\ asked.at <= changes
       /\ asked.at = changes => asked.days = FootageDays
  /\ asked.kind = "day" =>
       /\ asked.clips = {s \in DOMAIN videos : FootageDay(s) = asked.of}
       /\ asked.fresh => Cardinality(asked.clips) = asked.counted

PagesInv == LibraryTypeOK /\ SourceRight /\ DaysRight

LEMMA FilmFacts ==
  /\ NoClip \notin Slugs /\ NoSuchId \notin Slugs
  /\ IsFiniteSet(Slugs) /\ \A s \in Slugs : s.original \in Nat \ {0}
  /\ ReIngests \in Nat
BY LibraryConstants

LEMMA OriginalsAreFinite ==
  ASSUME LibraryTypeOK
  PROVE  /\ Originals \subseteq Nat \ {0} /\ IsFiniteSet(Originals)
         /\ IsFiniteSet(DOMAIN videos)
<1>. DEFINE pieces == {t \in DOMAIN videos : t.shape = "s2"}
            name == [s \in pieces |-> s.original]
<1>1. IsFiniteSet(DOMAIN videos) /\ IsFiniteSet(pieces)
  <2>1. DOMAIN videos \in SUBSET Slugs /\ pieces \in SUBSET Slugs
    BY DEF LibraryTypeOK
  <2>. QED
    BY <2>1, FilmFacts, FS_Subset
<1>2. name \in Surjection(pieces, Originals)
  BY DEF Surjection, Originals
<1>. QED
  BY <1>1, <1>2, FS_Surjection, FilmFacts DEF Originals, LibraryTypeOK

\* The neighbour of an original: the nearest on its side, or 0 for none.
LEMMA NeighborIsNearest ==
  ASSUME LibraryTypeOK, NEW original \in Nat
  PROVE  /\ NeighborSource(original, FALSE) \in Nat
         /\ original > 0 => NeighborSource(original, FALSE) < original
         /\ \A o \in Originals : o < original => NeighborSource(original, FALSE) >= o
         /\ NeighborSource(original, TRUE) \in Nat
         /\ NeighborSource(original, TRUE) = 0 \/ NeighborSource(original, TRUE) > original
         /\ \A o \in Originals : o > original => NeighborSource(original, TRUE) \in 1 .. o
<1>. DEFINE before == {o \in Originals : o < original}
            beyond == {o \in Originals : o > original}
<1>1. before \subseteq Nat /\ beyond \subseteq Nat /\ Originals \subseteq Nat \ {0}
  BY OriginalsAreFinite
<1>2. IsFiniteSet(before)
  <2>1. before \in SUBSET Originals
    OBVIOUS
  <2>. QED
    BY <2>1, OriginalsAreFinite, FS_Subset
<1>3. before # {} => Max(before) \in before /\ \A o \in before : Max(before) >= o
  <2>1. before # {} => \E x \in before : \A y \in before : y <= x
    BY <1>1, <1>2, LargestExists
  <2>2. before # {} => \E x \in before : \A y \in before : x >= y
    BY <1>1, <2>1
  <2>. HIDE DEF before
  <2>. QED
    BY <2>2 DEF Max
<1>4. beyond # {} => Min(beyond) \in beyond /\ \A o \in beyond : Min(beyond) <= o
  <2>1. beyond # {} => \E x \in beyond : \A y \in beyond : x <= y
    BY <1>1, SmallestExists
  <2>. HIDE DEF beyond
  <2>. QED
    BY <2>1 DEF Min
<1>5. /\ NeighborSource(original, FALSE) = IF before = {} THEN 0 ELSE Max(before)
      /\ NeighborSource(original, TRUE) = IF beyond = {} THEN 0 ELSE Min(beyond)
  BY DEF NeighborSource
<1>. DEFINE prev == NeighborSource(original, FALSE)
            next == NeighborSource(original, TRUE)
<1>6. /\ prev \in Nat
      /\ original > 0 => prev < original
      /\ \A o \in Originals : o < original => prev >= o
  <2>1. CASE before = {}
    <3>1. prev = 0 /\ \A o \in Originals : ~(o < original)
      BY <1>5, <2>1
    <3>. HIDE DEF prev
    <3>. QED
      BY <3>1
  <2>2. CASE before # {}
    <3>1. prev \in before /\ \A o \in before : prev >= o
      BY <1>3, <1>5, <2>2
    <3>. HIDE DEF prev
    <3>. QED
      BY <1>1, <3>1
  <2>. QED
    BY <2>1, <2>2
<1>7. /\ next \in Nat
      /\ next = 0 \/ next > original
      /\ \A o \in Originals : o > original => next \in 1 .. o
  <2>1. CASE beyond = {}
    <3>1. next = 0 /\ \A o \in Originals : ~(o > original)
      BY <1>5, <2>1
    <3>. HIDE DEF next
    <3>. QED
      BY <3>1
  <2>2. CASE beyond # {}
    <3>1. next \in beyond /\ \A o \in beyond : next <= o
      BY <1>4, <1>5, <2>2
    <3>. HIDE DEF next
    <3>. QED
      BY <1>1, <3>1
  <2>. QED
    BY <2>1, <2>2
<1>. QED
  BY <1>6, <1>7

LEMMA PagesInitially == LibraryInit => PagesInv
<1>. SUFFICES ASSUME LibraryInit
              PROVE  PagesInv
  OBVIOUS
<1>1. LibraryTypeOK
  <2>1. CASE videos \in Films /\ DOMAIN cuts = {} /\ changes = ReIngests
    BY <2>1, LibraryConstants DEF LibraryTypeOK
  <2>2. CASE \E shelf \in Shelves : /\ videos = [s \in shelf |-> Pipeline[s]]
                                /\ DOMAIN cuts = Slugs \ shelf /\ changes = 0
    BY <2>2, LibraryConstants DEF LibraryTypeOK
  <2>. QED
    BY <2>1, <2>2 DEF LibraryInit
<1>. QED
  BY <1>1 DEF LibraryInit, PagesInv, SourceRight, DaysRight, Nothing

\* Requests of other kinds.
LEMMA OthersKeepPages ==
  ASSUME PagesInv, asked'.kind \notin {"source", "calendar", "day"},
         UNCHANGED <<videos, cuts, changes>>
  PROVE  PagesInv'
BY DEF PagesInv, LibraryTypeOK, SourceRight, DaysRight

LEMMA SourceStepKeeps ==
  ASSUME PagesInv, ReadCuts \/ ReadPrev \/ ReadNext \/ \E s \in Slugs : OpenSource(s.original)
  PROVE  PagesInv'
<1>1. LibraryTypeOK' /\ Originals' = Originals
  BY DEF PagesInv, LibraryTypeOK, Originals, ReadCuts, ReadPrev, ReadNext, OpenSource
<1>2. CASE \E s \in Slugs : OpenSource(s.original)
  <2>1. asked'.of \in Nat \ {0} /\ asked'.kind = "source" /\ asked'.step = "cuts" /\ asked'.there = Originals
    BY <1>2, FilmFacts DEF OpenSource
  <2>2. {"kind", "step", "prev", "next", "there"} \subseteq DOMAIN asked'
    BY <1>2 DEF OpenSource
  <2>. QED
    BY <1>1, <2>1, <2>2 DEF PagesInv, SourceRight, DaysRight
<1>3. CASE ReadCuts
  <2>1. asked.kind = "source" /\ DOMAIN asked' = DOMAIN asked /\ asked'.step \in {"not_found", "prev"}
    BY <1>3 DEF ReadCuts, PagesInv, SourceRight
  <2>2. asked'.kind = "source" /\ asked'.of = asked.of /\ asked'.there = asked.there
    BY <1>3 DEF ReadCuts, PagesInv, SourceRight
  <2>. QED
    BY <1>1, <2>1, <2>2 DEF PagesInv, SourceRight, DaysRight
<1>4. CASE ReadPrev
  <2>1. asked.kind = "source" /\ DOMAIN asked' = DOMAIN asked
    BY <1>4 DEF ReadPrev
  <2>2. /\ asked'.kind = "source" /\ asked'.of = asked.of /\ asked'.there = asked.there
        /\ asked'.step = "next" /\ asked'.prev = NeighborSource(asked.of, FALSE)
    BY <1>4 DEF ReadPrev, PagesInv, SourceRight
  <2>3. /\ asked.of > 0 /\ asked.of \in Nat /\ asked.there \subseteq Originals
    BY <2>1 DEF PagesInv, SourceRight
  <2>4. /\ asked'.prev \in Nat /\ asked'.prev < asked.of
        /\ \A o \in Originals : o < asked.of => asked'.prev >= o
    BY <2>2, <2>3, NeighborIsNearest DEF PagesInv
  <2>. QED
    BY <1>1, <2>1, <2>2, <2>3, <2>4 DEF PagesInv, SourceRight, DaysRight
<1>5. CASE ReadNext
  <2>1. asked.kind = "source" /\ DOMAIN asked' = DOMAIN asked /\ asked.step = "next"
    BY <1>5 DEF ReadNext
  <2>2. /\ asked'.kind = "source" /\ asked'.of = asked.of /\ asked'.there = asked.there
        /\ asked'.step = "done" /\ asked'.prev = asked.prev
        /\ asked'.next = NeighborSource(asked.of, TRUE)
    BY <1>5 DEF ReadNext, PagesInv, SourceRight
  <2>3. /\ asked.of > 0 /\ asked.of \in Nat /\ asked.there \subseteq Originals
    BY <2>1 DEF PagesInv, SourceRight
  <2>4. /\ asked'.next \in Nat /\ (asked'.next = 0 \/ asked'.next > asked.of)
        /\ \A o \in Originals : o > asked.of => asked'.next \in 1 .. o
    BY <2>2, <2>3, NeighborIsNearest DEF PagesInv
  <2>. QED
    BY <1>1, <2>1, <2>2, <2>3, <2>4 DEF PagesInv, SourceRight, DaysRight
<1>. QED
  BY <1>2, <1>3, <1>4, <1>5

\* The reviewer rules on a cut, the pipeline ingests a clip or withdraws one.
LEMMA ChangeKeepsTable ==
  ASSUME PagesInv, NEW s \in Slugs,
         Ingest(s) \/ Withdraw(s) \/ \E verdict \in {"keep", "trim", "drop"} : Rule(s, verdict)
  PROVE  LibraryTypeOK' /\ changes' = changes + 1 /\ asked.kind \in {"source", "calendar"}
<1>1. changes' = changes + 1 /\ asked.kind \in {"source", "calendar"} /\ changes' \in 0 .. ReIngests
  BY FilmFacts DEF Ingest, Withdraw, Rule, Meanwhile, PagesInv, LibraryTypeOK
<1>2. CASE Ingest(s)
  BY <1>1, <1>2, LibraryConstants DEF Ingest, PagesInv, LibraryTypeOK
<1>3. CASE Withdraw(s)
  BY <1>1, <1>3 DEF Withdraw, PagesInv, LibraryTypeOK
<1>4. CASE \E verdict \in {"keep", "trim", "drop"} : Rule(s, verdict)
  BY <1>1, <1>4 DEF Rule, PagesInv, LibraryTypeOK
<1>. QED
  BY <1>1, <1>2, <1>3, <1>4

LEMMA ChangeKeepsPages ==
  ASSUME PagesInv, NEW s \in Slugs,
         Ingest(s) \/ Withdraw(s) \/ \E verdict \in {"keep", "trim", "drop"} : Rule(s, verdict)
  PROVE  PagesInv'
<1>1. LibraryTypeOK' /\ changes' = changes + 1 /\ asked.kind \in {"source", "calendar"}
  BY ChangeKeepsTable
<1>2. CASE asked.kind = "calendar"
  <2>1. asked' = asked
    BY <1>2 DEF Ingest, Withdraw, Rule
  <2>2. asked.at # changes'
    BY <1>1, <1>2 DEF PagesInv, DaysRight, LibraryTypeOK
  <2>. QED
    BY <1>1, <1>2, <2>1, <2>2 DEF PagesInv, SourceRight, DaysRight, LibraryTypeOK
<1>3. CASE asked.kind = "source"
  <2>1. /\ DOMAIN asked' = DOMAIN asked /\ asked'.kind = "source" /\ asked'.step = asked.step
        /\ asked'.of = asked.of /\ asked'.prev = asked.prev /\ asked'.next = asked.next
        /\ asked'.there \subseteq asked.there
    <3>1. CASE Ingest(s) \/ \E verdict \in {"keep", "trim", "drop"} : Rule(s, verdict)
      BY <1>3, <3>1 DEF Ingest, Rule
    <3>2. CASE Withdraw(s)
      <4>1. {"kind", "step", "prev", "next", "there"} \subseteq DOMAIN asked
        BY <1>3 DEF PagesInv, SourceRight
      <4>2. asked' = asked \/ asked' = [asked EXCEPT !.there = @ \ {s.original}]
        BY <3>2 DEF Withdraw
      <4>3. CASE asked' = [asked EXCEPT !.there = @ \ {s.original}]
        BY <1>3, <4>1, <4>3
      <4>. QED
        BY <1>3, <4>2, <4>3
    <3>. QED
      BY <3>1, <3>2
  <2>2. asked.there \subseteq Originals
    BY <1>3 DEF PagesInv, SourceRight
  <2>3. asked'.there \subseteq Originals'
    <3>1. CASE Ingest(s)
      <4>1. asked'.there = asked.there /\ DOMAIN videos \subseteq DOMAIN videos'
        BY <3>1 DEF Ingest
      <4>. QED
        BY <2>2, <4>1 DEF Originals
    <3>2. CASE \E verdict \in {"keep", "trim", "drop"} : Rule(s, verdict)
      BY <2>2, <3>2 DEF Rule, Originals
    <3>3. CASE Withdraw(s)
      <4>1. DOMAIN videos' = DOMAIN videos \ {s}
        BY <3>3 DEF Withdraw
      <4>2. CASE PiecesOf(s.original) = {s}
        <5>1. asked'.there = asked.there \ {s.original}
          BY <1>3, <3>3, <4>2 DEF Withdraw, PagesInv, SourceRight
        <5>2. asked'.there \subseteq Originals \ {s.original}
          BY <2>2, <5>1
        <5>. QED
          BY <4>1, <5>2 DEF Originals
      <4>3. CASE PiecesOf(s.original) # {s}
        <5>1. asked'.there = asked.there /\ s \in PiecesOf(s.original)
          BY <3>3, <4>3 DEF Withdraw, PiecesOf
        <5>2. PICK t \in PiecesOf(s.original) : t # s
          BY <4>3, <5>1
        <5>3. Originals \subseteq Originals'
          BY <4>1, <5>2 DEF Originals, PiecesOf
        <5>. QED
          BY <2>2, <5>1, <5>3
      <4>. QED
        BY <4>2, <4>3
    <3>. QED
      BY <3>1, <3>2, <3>3
  <2>. QED
    BY <1>1, <1>3, <2>1, <2>3 DEF PagesInv, SourceRight, DaysRight
<1>. QED
  BY <1>1, <1>2, <1>3

LEMMA CalendarKeepsPages ==
  ASSUME PagesInv, OpenCalendar \/ (asked.kind = "calendar" /\ \E d \in DOMAIN asked.days : OpenDay(d))
  PROVE  PagesInv'
<1>1. LibraryTypeOK' /\ FootageDays' = FootageDays /\ changes' = changes
  BY DEF PagesInv, LibraryTypeOK, FootageDays, FootageDay, OpenCalendar, OpenDay
<1>2. CASE OpenCalendar
  BY <1>1, <1>2 DEF PagesInv, LibraryTypeOK, SourceRight, DaysRight, OpenCalendar
<1>3. ASSUME asked.kind = "calendar", NEW d \in DOMAIN asked.days, OpenDay(d)
      PROVE  PagesInv'
  <2>1. /\ asked'.kind = "day" /\ asked'.of = d /\ asked'.counted = asked.days[d]
        /\ asked'.fresh = (asked.at = changes)
        /\ asked'.clips = {s \in DOMAIN videos : FootageDay(s) = d}
        /\ videos' = videos
    BY <1>3 DEF OpenDay
  <2>2. asked'.clips = {s \in DOMAIN videos' : FootageDay(s)' = asked'.of}
    BY <2>1 DEF FootageDay
  <2>3. ASSUME asked'.fresh
        PROVE  Cardinality(asked'.clips) = asked'.counted
    <3>1. asked.days = FootageDays
      BY <1>3, <2>1, <2>3 DEF PagesInv, DaysRight
    <3>2. d \in DOMAIN FootageDays
      BY <1>3, <3>1
    <3>3. FootageDays[d] = Cardinality({s \in DOMAIN videos : FootageDay(s) = d})
      BY <3>2 DEF FootageDays
    <3>. QED
      BY <2>1, <3>1, <3>3
  <2>. QED
    BY <1>1, <2>1, <2>2, <2>3 DEF PagesInv, SourceRight, DaysRight
<1>. QED
  BY <1>2, <1>3

\* A step keeps what the pages are read right by.
LEMMA PagesStep == PagesInv /\ [LibraryNext]_libraryVars => PagesInv'
<1>. SUFFICES ASSUME PagesInv, [LibraryNext]_libraryVars
              PROVE  PagesInv'
  OBVIOUS
<1>1. CASE \E c \in DOMAIN videos : WhereAreWe(c) \/ WhenWasThis(c) \/ DaytimeCmd(c)
  <2>1. asked'.kind \in {"where", "when", "daytime"} /\ UNCHANGED <<videos, cuts, changes>>
    BY <1>1 DEF WhereAreWe, WhenWasThis, DaytimeCmd
  <2>. QED
    BY <2>1, OthersKeepPages
<1>2. CASE \E state \in States : JumpTo(state)
  <2>1. asked'.kind = "jump" /\ UNCHANGED <<videos, cuts, changes>>
    BY <1>2 DEF JumpTo
  <2>. QED
    BY <2>1, OthersKeepPages
<1>3. CASE \E query \in [model : {f.model : f \in Frames}, states : SUBSET States] : FindCmd(query)
  <2>1. asked'.kind = "find" /\ UNCHANGED <<videos, cuts, changes>>
    BY <1>3 DEF FindCmd
  <2>. QED
    BY <2>1, OthersKeepPages
<1>4. CASE SearchUnavailable \/ Answered
  <2>1. asked'.kind \in {"unavailable", "none"} /\ UNCHANGED <<videos, cuts, changes>>
    BY <1>4 DEF SearchUnavailable, Answered, Nothing
  <2>. QED
    BY <2>1, OthersKeepPages
<1>5. CASE ReadCuts \/ ReadPrev \/ ReadNext \/ \E original \in {s.original : s \in Slugs} : OpenSource(original)
  BY <1>5, SourceStepKeeps
<1>6. CASE OpenCalendar \/ (asked.kind = "calendar" /\ \E d \in DOMAIN asked.days : OpenDay(d))
  BY <1>6, CalendarKeepsPages
<1>7. CASE \E s \in DOMAIN cuts, verdict \in {"keep", "trim", "drop"} : Rule(s, verdict)
  <2>1. \E s \in Slugs, verdict \in {"keep", "trim", "drop"} : Rule(s, verdict)
    BY <1>7 DEF PagesInv, LibraryTypeOK
  <2>. QED
    BY <2>1, ChangeKeepsPages
<1>8. CASE \E s \in DOMAIN cuts : Ingest(s)
  <2>1. \E s \in Slugs : Ingest(s)
    BY <1>8 DEF PagesInv, LibraryTypeOK
  <2>. QED
    BY <2>1, ChangeKeepsPages
<1>9. CASE \E s \in DOMAIN videos : Withdraw(s)
  <2>1. \E s \in Slugs : Withdraw(s)
    BY <1>9 DEF PagesInv, LibraryTypeOK
  <2>. QED
    BY <2>1, ChangeKeepsPages
<1>10. CASE UNCHANGED libraryVars
  BY <1>10 DEF libraryVars, PagesInv, LibraryTypeOK, SourceRight, DaysRight, Originals, FootageDays, FootageDay
<1>. QED
  BY <1>1, <1>2, <1>3, <1>4, <1>5, <1>6, <1>7, <1>8, <1>9, <1>10 DEF LibraryNext

\* Pages of the film.
LEMMA PagesFollow == PagesInv => PagesFollowTheFilm
<1>. SUFFICES ASSUME PagesInv
              PROVE  PagesFollowTheFilm
  OBVIOUS
<1>1. ASSUME asked.kind = "source", asked.step = "done"
      PROVE  /\ asked.prev < asked.of /\ (asked.next = 0 \/ asked.next > asked.of)
             /\ \A o \in asked.there : /\ o < asked.of => asked.prev >= o
                                       /\ o > asked.of => asked.next \in 1 .. o
  BY <1>1 DEF PagesInv, SourceRight
<1>2. ASSUME asked.kind = "day"
      PROVE  /\ asked.fresh => Cardinality(asked.clips) = asked.counted
             /\ \A s \in asked.clips : s.shape = "s2" => PiecesOf(s.original) \subseteq asked.clips
  <2>1. /\ asked.clips = {s \in DOMAIN videos : FootageDay(s) = asked.of}
        /\ asked.fresh => Cardinality(asked.clips) = asked.counted
    BY <1>2 DEF PagesInv, DaysRight
  <2>2. ASSUME NEW s \in asked.clips, s.shape = "s2", NEW t \in PiecesOf(s.original)
        PROVE  t \in asked.clips
    <3>1. /\ s \in Slugs /\ t \in Slugs /\ t \in DOMAIN videos
          /\ t.shape = "s2" /\ t.original = s.original
      BY <2>1, <2>2 DEF PiecesOf, PagesInv, LibraryTypeOK
    <3>2. t.day = s.day
      BY <2>2, <3>1, LibraryConstants
    <3>. QED
      BY <2>1, <2>2, <3>1, <3>2 DEF FootageDay
  <2>. QED
    BY <2>1, <2>2
<1>. QED
  BY <1>1, <1>2 DEF PagesFollowTheFilm

\* Paging skips no recording that was there all along and never turns round, and
\* a day's page holds its recordings whole, through re-ingests between a page's
\* queries (neighborSource, footageDaySQL).
THEOREM PagesAlwaysFollow == LibrarySpec => []PagesFollowTheFilm
<1>1. LibraryInit => PagesInv
  BY PagesInitially
<1>2. PagesInv /\ [LibraryNext]_libraryVars => PagesInv'
  BY PagesStep
<1>3. PagesInv => PagesFollowTheFilm
  BY PagesFollow
<1>. QED
  BY <1>1, <1>2, <1>3, PTL DEF LibrarySpec
-----------------------------------------------------------------------------
(* The road ahead                                                           *)

\* Where a road can lead.
Places == Slugs \cup {NoClip, NoSuchId}

LEMMA RoadSteps ==
  ASSUME LibraryTypeOK, NEW c \in DOMAIN videos
  PROVE  /\ Cardinality(DOMAIN videos) \in Nat
         /\ Ahead(c) \in [0 .. Cardinality(DOMAIN videos) -> Places]
         /\ Ahead(c)[0] = videos[c].next
         /\ \A k \in 1 .. Cardinality(DOMAIN videos) :
              Ahead(c)[k] = IF HasRow(Ahead(c)[k - 1]) THEN videos[Ahead(c)[k - 1]].next ELSE NoClip
<1>. DEFINE N == Cardinality(DOMAIN videos)
            F == [x \in Places |-> IF HasRow(x) THEN videos[x].next ELSE NoClip]
            first == videos[c].next
            Solves(g) == g = [k \in 0 .. N |->
                                IF k = 0 THEN videos[c].next
                                ELSE IF HasRow(g[k - 1]) THEN videos[g[k - 1]].next ELSE NoClip]
<1>1. N \in Nat
  BY OriginalsAreFinite, FS_CardinalityType
<1>2. first \in Places /\ F \in [Places -> Places]
  BY DEF LibraryTypeOK, RowOK, Places, HasRow
<1>3. PICK g \in [0 .. N -> Places] : Iterates(g, N, first, F)
  <2>. HIDE DEF N, F, first
  <2>. QED
    BY <1>1, <1>2, IteratesExist
<1>4. g[0] = first /\ \A n \in 1 .. N : g[n - 1] \in Places /\ g[n] = F[g[n - 1]]
  <2>. HIDE DEF N, F, first
  <2>. QED
    BY <1>1, <1>3 DEF Iterates
<1>5. Solves(g)
  <2>1. \A n \in 1 .. N : g[n] = IF HasRow(g[n - 1]) THEN videos[g[n - 1]].next ELSE NoClip
    BY <1>4
  <2>. HIDE DEF N, F
  <2>. QED
    BY <1>1, <1>3, <1>4, <2>1
<1>6. Solves(Ahead(c))
  <2>1. \E h : Solves(h)
    BY <1>5
  <2>2. Ahead(c) = CHOOSE h : Solves(h)
    BY DEF Ahead
  <2>. HIDE DEF Solves
  <2>. QED
    BY <2>1, <2>2
<1>. DEFINE road == Ahead(c)
<1>7. DOMAIN road = 0 .. N /\ \A k \in 0 .. N :
        road[k] = IF k = 0 THEN videos[c].next
                  ELSE IF HasRow(road[k - 1]) THEN videos[road[k - 1]].next ELSE NoClip
  <2>. HIDE DEF N
  <2>. QED
    BY <1>6
<1>8. road[0] = videos[c].next /\ \A k \in 1 .. N :
        road[k] = IF HasRow(road[k - 1]) THEN videos[road[k - 1]].next ELSE NoClip
  <2>. HIDE DEF road
  <2>. QED
    BY <1>1, <1>7
<1>9. \A k \in 0 .. N : road[k] \in Places
  <2>. SUFFICES ASSUME NEW k \in 0 .. N
                PROVE  road[k] \in Places
    OBVIOUS
  <2>. HIDE DEF road
  <2>1. CASE k = 0
    BY <1>2, <1>8, <2>1
  <2>2. CASE k # 0
    <3>1. k \in 1 .. N
      BY <1>1, <2>2
    <3>2. CASE HasRow(road[k - 1])
      BY <1>8, <3>1, <3>2 DEF HasRow, LibraryTypeOK, RowOK, Places
    <3>3. CASE ~ HasRow(road[k - 1])
      BY <1>8, <3>1, <3>3 DEF Places
    <3>. QED
      BY <3>2, <3>3
  <2>. QED
    BY <2>1, <2>2
<1>10. road = [k \in 0 .. N |-> road[k]]
  <2>. HIDE DEF N
  <2>. QED
    BY <1>6
<1>. HIDE DEF road
<1>11. road \in [0 .. N -> Places]
  BY <1>9, <1>10
<1>. QED
  BY <1>1, <1>8, <1>11 DEF road

\* How a walk from a clip goes.
Walked(walk, start) ==
  /\ walk[0] = [deepest |-> start, seen |-> {start}]
  /\ \A n \in 1 .. Cardinality(DOMAIN videos) :
       LET after == videos[walk[n - 1].deepest].next IN
       walk[n] = IF Follows(walk[n - 1], after)
                 THEN [deepest |-> after, seen |-> walk[n - 1].seen \cup {after}]
                 ELSE walk[n - 1]

LEMMA WalkSteps ==
  ASSUME LibraryTypeOK, NEW start \in Places
  PROVE  \E walk : /\ Walk(start) = walk[Cardinality(DOMAIN videos)]
                   /\ Walked(walk, start)
<1>. DEFINE N == Cardinality(DOMAIN videos)
            Paths == [deepest : Places, seen : SUBSET Places]
            After(path) == videos[path.deepest].next
            Step(path) == IF Follows(path, After(path))
                          THEN [deepest |-> After(path), seen |-> path.seen \cup {After(path)}]
                          ELSE path
            F == [path \in Paths |-> Step(path)]
            first == [deepest |-> start, seen |-> {start}]
            Solves(g) == g = [n \in 0 .. N |-> IF n = 0 THEN first ELSE Step(g[n - 1])]
<1>1. N \in Nat
  BY OriginalsAreFinite, FS_CardinalityType
<1>2. first \in Paths /\ F \in [Paths -> Paths]
  <2>1. first \in Paths
    OBVIOUS
  <2>2. ASSUME NEW path \in Paths
        PROVE  Step(path) \in Paths
    <3>1. CASE Follows(path, After(path))
      <4>1. After(path) \in Places
        BY <3>1 DEF Follows, HasRow, LibraryTypeOK, Places
      <4>. QED
        BY <3>1, <4>1
    <3>. QED
      BY <3>1
  <2>. QED
    BY <2>1, <2>2
<1>3. PICK g \in [0 .. N -> Paths] : Iterates(g, N, first, F)
  <2>. HIDE DEF N, F, first, Paths
  <2>. QED
    BY <1>1, <1>2, IteratesExist
<1>4. g[0] = first /\ \A n \in 1 .. N : g[n] = Step(g[n - 1])
  <2>1. g[0] = first /\ \A n \in 1 .. N : g[n - 1] \in Paths /\ g[n] = F[g[n - 1]]
    <3>. HIDE DEF N, Paths, F, first
    <3>. QED
      BY <1>1, <1>3 DEF Iterates
  <2>2. \A p \in Paths : F[p] = Step(p)
    OBVIOUS
  <2>. HIDE DEF Paths, F, Step
  <2>. QED
    BY <2>1, <2>2
<1>5. Solves(g)
  <2>. HIDE DEF Paths, F, Step, first
  <2>. QED
    BY <1>1, <1>3, <1>4
<1>6. PICK walk : Walk(start) = walk[N] /\ Solves(walk)
  <2>1. \E h : Solves(h)
    BY <1>5
  <2>2. Walk(start) = (CHOOSE h : Solves(h))[N]
    BY DEF Walk
  <2>. HIDE DEF Solves
  <2>. QED
    BY <2>1, <2>2
<1>7. walk[0] = first /\ \A n \in 1 .. N : walk[n] = Step(walk[n - 1])
  <2>1. \A n \in 0 .. N : walk[n] = IF n = 0 THEN first ELSE Step(walk[n - 1])
    <3>. HIDE DEF Step, first
    <3>. QED
      BY <1>6
  <2>. HIDE DEF Step, first
  <2>. QED
    BY <1>1, <2>1
<1>. QED
  BY <1>6, <1>7 DEF Walked

\* Where a walk has come to: to the road's j-th clip, past flagged clips only,
\* and no further where it could not go on.
CameTo(path, road, j, n) ==
  /\ path.deepest = road[j] /\ path.seen = {road[i] : i \in 0 .. j}
  /\ \A i \in 0 .. j : HasRow(road[i])
  /\ \A i \in 0 .. j - 1 : Flagged(road[i])
  /\ IsFiniteSet(path.seen) /\ Cardinality(path.seen) = j + 1
  /\ j < n => ~ Follows(path, videos[road[j]].next)

LEMMA WalkComesTo ==
  ASSUME LibraryTypeOK, NEW c \in DOMAIN videos, HasRow(videos[c].next), NEW walk,
         Walked(walk, videos[c].next),
         NEW n \in 0 .. Cardinality(DOMAIN videos)
  PROVE  \E j \in 0 .. n : CameTo(walk[n], Ahead(c), j, n)
<1>. DEFINE N == Cardinality(DOMAIN videos)
            road == Ahead(c)
            Fails == {m \in 0 .. N : ~ \E j \in 0 .. m : CameTo(walk[m], road, j, m)}
<1>1. /\ N \in Nat /\ road[0] = videos[c].next
      /\ \A k \in 1 .. N : road[k] = IF HasRow(road[k - 1]) THEN videos[road[k - 1]].next ELSE NoClip
  BY RoadSteps
<1>0. SUFFICES ASSUME ~ \E j \in 0 .. n : CameTo(walk[n], road, j, n)
               PROVE  FALSE
  OBVIOUS
<1>2. Fails # {}
  BY <1>0
<1>. HIDE DEF N, road
<1>3. PICK m \in Fails : \A k \in Fails : m <= k
  <2>1. Fails \subseteq Nat
    BY <1>1
  <2>. HIDE DEF Fails
  <2>. QED
    BY <1>2, <2>1, SmallestExists
<1>4. m \in 0 .. N /\ m \in Nat /\ ~ \E j \in 0 .. m : CameTo(walk[m], road, j, m)
  BY <1>1, <1>3
<1>5. CASE m = 0
  <2>1. walk[0].deepest = road[0] /\ walk[0].seen = {road[0]}
    <3>1. walk[0] = [deepest |-> road[0], seen |-> {road[0]}]
      BY <1>1 DEF Walked
    <3>. QED
      BY <3>1
  <2>2. IsFiniteSet({road[0]}) /\ Cardinality({road[0]}) = 0 + 1
    <3>1. IsFiniteSet({road[0]}) /\ Cardinality({road[0]}) = 1
      BY FS_Singleton
    <3>. QED
      BY <3>1
  <2>3. CameTo(walk[0], road, 0, 0)
    BY <1>1, <2>1, <2>2 DEF CameTo
  <2>. QED
    BY <1>4, <1>5, <2>3
<1>6. CASE m # 0
  <2>1. m \in 1 .. N /\ m - 1 \in 0 .. N /\ m - 1 \in Nat
    BY <1>1, <1>4, <1>6
  <2>2. m - 1 \notin Fails
    <3>. HIDE DEF Fails
    <3>. QED
      BY <1>3, <1>4, <2>1
  <2>3. PICK j \in 0 .. m - 1 : CameTo(walk[m - 1], road, j, m - 1)
    BY <2>1, <2>2
  <2>4. walk[m - 1].deepest = road[j]
    BY <2>3 DEF CameTo
  <2>5. walk[m] = LET after == videos[road[j]].next IN
                  IF Follows(walk[m - 1], after)
                  THEN [deepest |-> after, seen |-> walk[m - 1].seen \cup {after}]
                  ELSE walk[m - 1]
    BY <2>1, <2>4 DEF Walked, N
  <2>6. CASE ~ Follows(walk[m - 1], videos[road[j]].next)
    <3>1. walk[m] = walk[m - 1]
      BY <2>5, <2>6
    <3>2. CameTo(walk[m], road, j, m)
      BY <2>3, <2>6, <3>1 DEF CameTo
    <3>. QED
      BY <1>4, <2>1, <2>3, <3>2
  <2>7. CASE Follows(walk[m - 1], videos[road[j]].next)
    <3>1. j = m - 1
      BY <2>1, <2>3, <2>7 DEF CameTo
    <3>2. HasRow(road[j]) /\ road[m] = videos[road[j]].next
      BY <1>1, <2>1, <2>3, <3>1 DEF CameTo
    <3>3. /\ walk[m].deepest = road[m] /\ walk[m].seen = walk[m - 1].seen \cup {road[m]}
          /\ HasRow(road[m]) /\ Flagged(road[j]) /\ road[m] \notin walk[m - 1].seen
      BY <2>4, <2>5, <2>7, <3>2 DEF Follows
    <3>4. walk[m].seen = {road[i] : i \in 0 .. m}
      <4>1. walk[m - 1].seen = {road[i] : i \in 0 .. m - 1}
        BY <2>3, <3>1 DEF CameTo
      <4>2. \A i : i \in 0 .. m <=> i \in 0 .. m - 1 \/ i = m
        BY <2>1
      <4>. QED
        BY <3>3, <4>1, <4>2
    <3>5. IsFiniteSet(walk[m].seen) /\ Cardinality(walk[m].seen) = m + 1
      <4>1. IsFiniteSet(walk[m - 1].seen) /\ Cardinality(walk[m - 1].seen) = m
        BY <2>1, <2>3, <3>1 DEF CameTo
      <4>. QED
        BY <3>3, <4>1, FS_AddElement
    <3>6. \A i \in 0 .. m : HasRow(road[i])
      BY <2>1, <2>3, <3>1, <3>3 DEF CameTo
    <3>7. \A i \in 0 .. m - 1 : Flagged(road[i])
      BY <2>1, <2>3, <3>1, <3>3 DEF CameTo
    <3>8. CameTo(walk[m], road, m, m)
      BY <2>1, <3>3, <3>4, <3>5, <3>6, <3>7 DEF CameTo
    <3>. QED
      BY <1>4, <3>8
  <2>. QED
    BY <2>6, <2>7
<1>. QED
  BY <1>5, <1>6

\* A walk of as many steps as there are clips has ended before its last.
LEMMA WalkEnds ==
  ASSUME LibraryTypeOK, NEW c \in DOMAIN videos, HasRow(videos[c].next)
  PROVE  \E j \in 0 .. Cardinality(DOMAIN videos) - 1 :
           CameTo(Walk(videos[c].next), Ahead(c), j, Cardinality(DOMAIN videos))
<1>. DEFINE N == Cardinality(DOMAIN videos)
            path == Walk(videos[c].next)
<1>1. N \in Nat /\ IsFiniteSet(DOMAIN videos) /\ videos[c].next \in Places
  BY RoadSteps, OriginalsAreFinite DEF LibraryTypeOK, RowOK, Places
<1>2. PICK walk : path = walk[N] /\ Walked(walk, videos[c].next)
  BY <1>1, WalkSteps
<1>3. PICK j \in 0 .. N : CameTo(path, Ahead(c), j, N)
  <2>1. N \in 0 .. N
    BY <1>1
  <2>. QED
    BY <1>2, <2>1, WalkComesTo
<1>4. path.seen \in SUBSET DOMAIN videos /\ Cardinality(path.seen) = j + 1
  BY <1>3 DEF CameTo, HasRow
<1>5. j + 1 <= N
  BY <1>1, <1>4, FS_Subset
<1>6. j \in 0 .. N - 1
  BY <1>1, <1>5
<1>. QED
  BY <1>3, <1>6

\* The clip a flagged clip's road goes on to.
Good(road) == {k \in DOMAIN road : HasRow(road[k]) /\ ~Flagged(road[k])}
Broken(road) == \E k \in DOMAIN road : ~HasRow(road[k])

LEMMA NextIsAhead ==
  ASSUME LibraryTypeOK, NEW c \in DOMAIN videos
  PROVE  /\ NextUnflagged(c).clip = IF Good(Ahead(c)) = {} THEN NoClip ELSE Ahead(c)[Min(Good(Ahead(c)))]
         /\ NextUnflagged(c).clip = NoClip => (NextUnflagged(c).why = "broken" <=> Broken(Ahead(c)))
<1>. DEFINE N == Cardinality(DOMAIN videos)
            road == Ahead(c)
            start == videos[c].next
            deepest == Walk(start).deepest
<1>1. /\ N \in Nat /\ DOMAIN road = 0 .. N /\ road[0] = start
      /\ \A k \in 1 .. N : road[k] = IF HasRow(road[k - 1]) THEN videos[road[k - 1]].next ELSE NoClip
  BY RoadSteps
<1>2. ~ HasRow(NoClip)
  BY FilmFacts DEF HasRow, LibraryTypeOK
\* Past a clip without a row there is none.
<1>3. ASSUME NEW j \in 0 .. N, ~ HasRow(road[j]), NEW k \in j .. N
      PROVE  ~ HasRow(road[k])
  <2>. DEFINE Fails == {m \in j .. N : HasRow(road[m])}
  <2>. HIDE DEF N, road
  <2>1. SUFFICES ASSUME Fails # {} PROVE FALSE
    OBVIOUS
  <2>2. Fails \subseteq Nat
    BY <1>1
  <2>3. PICK m \in Fails : \A i \in Fails : m <= i
    BY <2>1, <2>2, SmallestExists
  <2>4. m \in j .. N /\ HasRow(road[m]) /\ m # j
    BY <1>3, <2>3
  <2>5. m - 1 \in j .. N /\ m \in 1 .. N /\ ~ (m <= m - 1)
    BY <1>1, <2>4
  <2>6. ~ HasRow(road[m - 1])
    BY <2>3, <2>5
  <2>. QED
    BY <1>1, <1>2, <2>4, <2>5, <2>6
<1>4. CASE ~ HasRow(start)
  <2>1. 0 \in 0 .. N /\ ~ HasRow(road[0])
    BY <1>1, <1>4
  <2>2. \A k \in 0 .. N : ~ HasRow(road[k])
    BY <1>3, <2>1
  <2>3. Good(road) = {} /\ Broken(road)
    BY <1>1, <2>1, <2>2 DEF Good, Broken
  <2>4. NextUnflagged(c) = [clip |-> NoClip, why |-> "broken"]
    BY <1>4 DEF NextUnflagged
  <2>. QED
    BY <2>3, <2>4
<1>5. CASE HasRow(start)
  <2>1. PICK j \in 0 .. N - 1 : CameTo(Walk(start), road, j, N)
    BY <1>5, WalkEnds
  <2>2. /\ deepest = road[j] /\ \A i \in 0 .. j : HasRow(road[i])
        /\ \A i \in 0 .. j - 1 : Flagged(road[i])
        /\ Walk(start).seen = {road[i] : i \in 0 .. j}
        /\ ~ Follows(Walk(start), videos[road[j]].next)
    BY <1>1, <2>1 DEF CameTo
  <2>3. j + 1 \in 1 .. N /\ j \in 0 .. N /\ j \in 0 .. j /\ road[j + 1] = videos[road[j]].next
    BY <1>1, <2>1, <2>2
  <2>4. CASE ~ Flagged(deepest)
    <3>1. NextUnflagged(c).clip = deepest
      BY <1>5, <2>4 DEF NextUnflagged
    <3>2. j \in Good(road) /\ \A k \in Good(road) : k \in Nat /\ j <= k
      BY <1>1, <2>2, <2>3, <2>4 DEF Good
    <3>3. Min(Good(road)) = j
      <4>1. \A x \in Good(road) : (\A y \in Good(road) : x <= y) => x = j
        BY <1>1, <2>1, <3>2
      <4>. QED
        BY <3>2, <4>1 DEF Min
    <3>4. deepest # NoClip
      BY <1>2, <2>2, <2>3
    <3>. QED
      BY <2>2, <3>1, <3>2, <3>3, <3>4
  <2>5. CASE Flagged(deepest) /\ ~ HasRow(road[j + 1])
    <3>1. NextUnflagged(c) = [clip |-> NoClip, why |-> "broken"]
      BY <1>5, <2>2, <2>3, <2>5 DEF NextUnflagged
    <3>2. \A k \in j + 1 .. N : ~ HasRow(road[k])
      BY <1>1, <1>3, <2>3, <2>5
    <3>3. Good(road) = {} /\ Broken(road)
      <4>1. \A k \in 0 .. N : k \in j + 1 .. N \/ k \in 0 .. j - 1 \/ k = j
        BY <1>1, <2>3
      <4>2. ASSUME NEW k \in 0 .. N
            PROVE  ~ HasRow(road[k]) \/ Flagged(road[k])
        <5>1. CASE k \in j + 1 .. N
          BY <3>2, <5>1
        <5>2. CASE k \in 0 .. j - 1
          BY <2>2, <5>2
        <5>3. CASE k = j
          BY <2>2, <2>5, <5>3
        <5>. QED
          BY <4>1, <5>1, <5>2, <5>3
      <4>3. Good(road) = {}
        BY <1>1, <4>2 DEF Good
      <4>4. j + 1 \in DOMAIN road /\ ~ HasRow(road[j + 1])
        BY <1>1, <2>3, <2>5
      <4>5. Broken(road)
        BY <4>4 DEF Broken
      <4>. QED
        BY <4>3, <4>5
    <3>. QED
      BY <3>1, <3>3
  <2>6. CASE Flagged(deepest) /\ HasRow(road[j + 1])
    <3>1. NextUnflagged(c) = [clip |-> NoClip, why |-> "loop"]
      BY <1>5, <2>2, <2>3, <2>6 DEF NextUnflagged
    <3>. DEFINE seen == {road[i] : i \in 0 .. j}
    <3>2. road[j + 1] \in seen
      BY <2>2, <2>3, <2>6 DEF Follows
    <3>3. \A s \in seen : HasRow(s) /\ Flagged(s)
      <4>1. \A i \in 0 .. j : i \in 0 .. j - 1 \/ i = j
        BY <2>1, <1>1
      <4>. QED
        BY <2>2, <2>6, <4>1
    <3>4. \A s \in seen : videos[s].next \in seen
      <4>. SUFFICES ASSUME NEW i \in 0 .. j
                    PROVE  videos[road[i]].next \in seen
        OBVIOUS
      <4>1. i + 1 \in 1 .. N /\ HasRow(road[i]) /\ (i + 1) - 1 = i
        BY <1>1, <2>1, <2>2
      <4>2. road[i + 1] = videos[road[i]].next
        BY <1>1, <4>1
      <4>3. i + 1 \in 0 .. j \/ i = j
        BY <1>1, <2>1
      <4>. QED
        BY <2>3, <3>2, <4>2, <4>3
    <3>5. \A k \in 0 .. N : road[k] \in seen
      <4>. DEFINE Fails == {k \in 0 .. N : road[k] \notin seen}
      <4>0. road[0] \in seen
        BY <1>1, <2>1
      <4>. HIDE DEF N, road, seen
      <4>1. SUFFICES ASSUME Fails # {} PROVE FALSE
        OBVIOUS
      <4>2. Fails \subseteq Nat
        BY <1>1
      <4>3. PICK m \in Fails : \A i \in Fails : m <= i
        BY <4>1, <4>2, SmallestExists
      <4>4. m \in 0 .. N /\ road[m] \notin seen /\ m # 0
        BY <4>0, <4>3
      <4>5. m - 1 \in 0 .. N /\ m \in 1 .. N /\ ~ (m <= m - 1)
        BY <1>1, <4>4
      <4>6. road[m - 1] \in seen
        BY <4>3, <4>5
      <4>7. road[m] = videos[road[m - 1]].next
        BY <1>1, <3>3, <4>5, <4>6
      <4>. QED
        BY <3>4, <4>4, <4>6, <4>7
    <3>6. Good(road) = {} /\ ~ Broken(road)
      <4>. HIDE DEF seen
      <4>. QED
        BY <1>1, <3>3, <3>5 DEF Good, Broken
    <3>. QED
      BY <3>1, <3>6
  <2>. QED
    BY <2>4, <2>5, <2>6
<1>. QED
  BY <1>4, <1>5

\* What a clip is answered for by.
RightSpot(c, spot) ==
  /\ spot.clip = IF ~Flagged(c) THEN c
                 ELSE IF Good(Ahead(c)) = {} THEN NoClip ELSE Ahead(c)[Min(Good(Ahead(c)))]
  /\ spot.clip = NoClip => (spot.why = "broken" <=> Broken(Ahead(c)))

LEMMA LocatedRight ==
  ASSUME LibraryTypeOK, NEW c \in DOMAIN videos
  PROVE  RightSpot(c, Located(c))
<1>1. c # NoClip
  BY FilmFacts DEF LibraryTypeOK
<1>2. CASE Flagged(c)
  BY <1>2, NextIsAhead DEF RightSpot, Located
<1>3. CASE ~ Flagged(c)
  BY <1>1, <1>3 DEF RightSpot, Located
<1>. QED
  BY <1>2, <1>3

\* Right answers of the kinds that are of one clip.
SpotRight ==
  asked.kind \in {"where", "when"} =>
    /\ RightSpot(asked.screen, asked.spot)
    /\ asked.kind = "where" /\ asked.spot.clip # NoClip =>
         asked.state # NoState \/ videos[asked.spot.clip].state = NoState

LEMMA SpotIsRight == SpotRight => SpotIsAhead
BY DEF SpotRight, RightSpot, SpotIsAhead, Good, Broken

LEMMA TableStays ==
  ASSUME videos' = videos
  PROVE  /\ \A c : HasRow(c)' = HasRow(c) /\ Flagged(c)' = Flagged(c) /\ Ahead(c)' = Ahead(c)
         /\ \A r : Good(r)' = Good(r) /\ Broken(r)' = Broken(r)
         /\ \A c, s : RightSpot(c, s)' <=> RightSpot(c, s)
<1>1. \A c : HasRow(c)' = HasRow(c) /\ Flagged(c)' = Flagged(c)
  BY DEF HasRow, Flagged
<1>2. \A c : Ahead(c)' = Ahead(c)
  BY DEF Ahead, HasRow
<1>3. \A r : Good(r)' = Good(r) /\ Broken(r)' = Broken(r)
  BY DEF HasRow, Flagged, Good, Broken
<1>4. \A c, s : RightSpot(c, s)' <=> RightSpot(c, s)
  BY <1>1, <1>2, <1>3 DEF RightSpot
<1>. QED
  BY <1>1, <1>2, <1>3, <1>4

LEMMA SpotAsked ==
  ASSUME LibraryTypeOK, NEW c \in DOMAIN videos, WhereAreWe(c) \/ WhenWasThis(c)
  PROVE  SpotRight'
<1>1. videos' = videos /\ asked'.screen = c /\ asked'.spot = Located(c)
  BY DEF WhereAreWe, WhenWasThis
<1>2. RightSpot(c, Located(c))
  BY LocatedRight
<1>3. RightSpot(asked.screen, asked.spot)'
  BY <1>1, <1>2, TableStays
<1>4. ASSUME asked'.kind = "where", asked'.spot.clip # NoClip
      PROVE  asked'.state # NoState \/ videos'[asked'.spot.clip].state = NoState
  <2>1. WhereAreWe(c)
    BY <1>4 DEF WhenWasThis
  <2>2. PICK moment \in [tracked : BOOLEAN, state : States \cup {NoState}],
             geocoder \in States \cup {NoState} : asked'.state = Reveal(c, moment, geocoder)
    BY <2>1 DEF WhereAreWe
  <2>3. Flagged(c) \/ Located(c).clip = c
    BY DEF Located
  <2>. QED
    BY <1>1, <1>4, <2>2, <2>3 DEF Reveal
<1>. QED
  BY <1>3, <1>4 DEF SpotRight

-----------------------------------------------------------------------------
(* Mornings                                                                 *)

\* A later day begins later, in whatever zones the days are told.
LEMMA LaterDayIsLater ==
  ASSUME NEW a \in Nat, NEW b \in Nat, a > b, NEW y \in 0 .. HoursADay - 1, NEW z \in Nat
  PROVE  a * HoursADay + z > b * HoursADay + y
<1>1. HoursADay \in Nat
  BY LibraryConstants
<1>2. PICK d \in Nat : a = b + 1 + d
  <2>1. a - b - 1 \in Nat /\ a = b + 1 + (a - b - 1)
    OBVIOUS
  <2>. QED
    BY <2>1
<1>3. a * HoursADay = b * HoursADay + HoursADay + d * HoursADay
  BY <1>1, <1>2
<1>4. d * HoursADay \in Nat /\ b * HoursADay \in Nat /\ a * HoursADay \in Nat
  BY <1>1, <1>2
<1>. QED
  BY <1>1, <1>3, <1>4

LEMMA MinOfTwo ==
  ASSUME NEW a \in Nat, NEW b \in Nat
  PROVE  Min({a, b}) = IF a <= b THEN a ELSE b
<1>1. \E x \in {a, b} : \A y \in {a, b} : x <= y
  OBVIOUS
<1>2. Min({a, b}) \in {a, b} /\ \A y \in {a, b} : Min({a, b}) <= y
  BY <1>1 DEF Min
<1>. QED
  BY <1>2

\* What !daytime may answer.
RightMorning(c, pick) ==
  IF pick = NoClip
  THEN Mornings(c) = {} \/ Cardinality(Upcoming(c)) > ScanLimit
  ELSE /\ pick \in Upcoming(c) /\ IsDaytime(pick)
       /\ \A m \in Mornings(c) : videos[pick].filmed <= videos[m].filmed

LEMMA MorningFound ==
  ASSUME LibraryTypeOK, NEW c \in DOMAIN videos, NEW pick \in FindNextDaytime(c)
  PROVE  RightMorning(c, pick)
<1>. DEFINE ofScan(s) == {d \in s : OnALaterDay(d, c) /\ IsDaytime(d)}
<1>1. PICK s \in Scanned(c) :
        pick \in IF ofScan(s) = {} THEN {NoClip}
                 ELSE {d \in ofScan(s) : \A e \in ofScan(s) : videos[d].filmed <= videos[e].filmed}
  BY DEF FindNextDaytime
<1>2. /\ s \in SUBSET Upcoming(c)
      /\ Cardinality(s) = Min({ScanLimit, Cardinality(Upcoming(c))})
      /\ \A d \in s, e \in Upcoming(c) \ s : videos[d].filmed <= videos[e].filmed
  BY DEF Scanned
<1>3. Upcoming(c) \in SUBSET DOMAIN videos /\ NoClip \notin DOMAIN videos
  BY FilmFacts DEF Upcoming, LibraryTypeOK
<1>4. IsFiniteSet(Upcoming(c)) /\ Cardinality(Upcoming(c)) \in Nat
  BY <1>3, OriginalsAreFinite, FS_Subset, FS_CardinalityType
<1>5. \A m \in Mornings(c) : m \in Upcoming(c) /\ (m \in s => m \in ofScan(s))
  <2>. SUFFICES ASSUME NEW m \in Mornings(c)
                PROVE  m \in Upcoming(c) /\ OnALaterDay(m, c) /\ IsDaytime(m)
    OBVIOUS
  <2>1. m \in Upcoming(c) /\ IsDaytime(m) /\ DayOf(videos[m].filmed) > DayOf(videos[c].filmed)
    BY DEF Mornings
  <2>2. /\ videos[m].filmed \in Nat /\ videos[m].zone \in Nat
        /\ videos[c].filmed \in Nat /\ videos[c].zone \in 0 .. HoursADay - 1
        /\ HoursADay \in Nat \ {0}
    BY <1>3, <2>1, LibraryConstants DEF LibraryTypeOK, RowOK
  <2>3. DayOf(videos[m].filmed) \in Nat /\ DayOf(videos[c].filmed) \in Nat
    BY <2>2 DEF DayOf
  <2>4. 0 \in 0 .. HoursADay - 1
    BY <2>2
  <2>5. /\ LocalDate(m) > LocalDate(c)
        /\ LocalDate(m) > DayOf(videos[c].filmed) * HoursADay + 0
    BY <2>1, <2>2, <2>3, <2>4, LaterDayIsLater DEF LocalDate
  <2>6. DayOf(videos[c].filmed) * HoursADay + 0 = DayOf(videos[c].filmed) * HoursADay
    BY <2>2, <2>3
  <2>. QED
    BY <2>1, <2>5, <2>6 DEF OnALaterDay, AfterDay
<1>6. CASE ofScan(s) = {}
  <2>1. pick = NoClip
    BY <1>1, <1>6
  <2>2. ASSUME Cardinality(Upcoming(c)) <= ScanLimit
        PROVE  Mornings(c) = {}
    <3>1. ScanLimit \in Nat
      BY LibraryConstants
    <3>2. Cardinality(s) = Cardinality(Upcoming(c))
      BY <1>2, <1>4, <2>2, <3>1, MinOfTwo
    <3>3. s = Upcoming(c)
      BY <1>2, <1>4, <3>2, FS_Subset
    <3>. QED
      BY <1>5, <1>6, <3>3
  <2>3. ScanLimit \in Nat
    BY LibraryConstants
  <2>. QED
    BY <1>4, <2>1, <2>2, <2>3 DEF RightMorning
<1>7. CASE ofScan(s) # {}
  <2>1. pick \in ofScan(s) /\ \A e \in ofScan(s) : videos[pick].filmed <= videos[e].filmed
    BY <1>1, <1>7
  <2>2. pick \in s /\ pick \in Upcoming(c) /\ IsDaytime(pick) /\ pick # NoClip
    BY <1>2, <1>3, <2>1
  <2>3. ASSUME NEW m \in Mornings(c)
        PROVE  videos[pick].filmed <= videos[m].filmed
    BY <1>2, <1>5, <2>1, <2>2
  <2>. QED
    BY <2>2, <2>3 DEF RightMorning
<1>. QED
  BY <1>6, <1>7

MorningRight == asked.kind = "daytime" => RightMorning(asked.screen, asked.pick)

LEMMA MorningIsRight == MorningRight => NoMorningSkipped
BY DEF MorningRight, RightMorning, NoMorningSkipped

LEMMA MorningAsked ==
  ASSUME LibraryTypeOK, NEW c \in DOMAIN videos, DaytimeCmd(c)
  PROVE  MorningRight'
<1>1. PICK pick \in FindNextDaytime(c) : asked' = [kind |-> "daytime", screen |-> c, pick |-> pick]
  BY DEF DaytimeCmd
<1>2. asked'.screen = c /\ asked'.pick = pick /\ videos' = videos
  BY <1>1 DEF DaytimeCmd
<1>3. RightMorning(c, pick)
  BY MorningFound
<1>4. RightMorning(c, pick)'
  BY <1>2, <1>3 DEF RightMorning, Mornings, Upcoming, Aired, Flagged, IsDaytime
<1>. QED
  BY <1>2, <1>4 DEF MorningRight

-----------------------------------------------------------------------------
(* What a search finds                                                      *)

\* The nearest few of some frames are some, and the nearest is among them.
LEMMA NearestAreNearest ==
  ASSUME NEW frames \in SUBSET Frames, frames # {}, NEW k \in Nat \ {0},
         NEW s \in NearestOf(frames, k)
  PROVE  \E h \in s : \A g \in frames : h.distance <= g.distance
<1>1. IsFiniteSet(frames) /\ \A f \in frames : f.distance \in Nat
  BY LibraryConstants, FS_Subset
<1>2. /\ s \in SUBSET frames /\ Cardinality(s) = Min({k, Cardinality(frames)})
      /\ \A f \in s, g \in frames \ s : f.distance <= g.distance
  BY DEF NearestOf, kSubset
<1>3. s # {}
  <2>1. Cardinality(frames) \in Nat /\ Cardinality(frames) # 0
    BY <1>1, FS_CardinalityType, FS_EmptySet
  <2>2. Cardinality(s) # 0
    BY <1>2, <2>1, MinOfTwo
  <2>. QED
    BY <2>2, FS_EmptySet
<1>. DEFINE far == {f.distance : f \in s}
<1>4. far \subseteq Nat /\ far # {}
  BY <1>1, <1>2, <1>3
<1>5. \E d \in far : \A e \in far : d <= e
  <2>. HIDE DEF far
  <2>. QED
    BY <1>4, SmallestExists
<1>6. PICK h \in s : \A g \in s : h.distance <= g.distance
  BY <1>5
<1>7. \A g \in frames : h.distance <= g.distance
  BY <1>2, <1>6
<1>. QED
  BY <1>7

NearHits(hits) == {f \in hits : f.distance <= Ceiling}
Leads(hits) == {f \in NearHits(hits) : \A g \in NearHits(hits) : Moment(g) = Moment(f) => g.distance >= f.distance}

LEMMA ToursAre ==
  ASSUME NEW hits \in SUBSET Frames, NEW tour \in Tours(hits)
  PROVE  /\ tour \subseteq Leads(hits) /\ Leads(hits) \subseteq NearHits(hits)
         /\ Cardinality(tour) = Min({TopN, Cardinality(Moments(NearHits(hits)))})
         /\ Cardinality(Moments(tour)) = Cardinality(tour)
         /\ \A f \in tour, g \in Leads(hits) : Moment(g) \notin Moments(tour) => f.distance <= g.distance
         /\ IsFiniteSet(tour) /\ IsFiniteSet(NearHits(hits))
<1>1. /\ tour \subseteq Leads(hits)
      /\ Cardinality(tour) = Min({TopN, Cardinality(Moments(NearHits(hits)))})
      /\ Cardinality(Moments(tour)) = Cardinality(tour)
      /\ \A f \in tour, g \in Leads(hits) : Moment(g) \notin Moments(tour) => f.distance <= g.distance
  BY DEF Tours, kSubset, NearHits, Leads
<1>2. Leads(hits) \subseteq NearHits(hits) /\ NearHits(hits) \in SUBSET Frames
  BY DEF Leads, NearHits
<1>3. tour \in SUBSET Frames
  BY <1>1, <1>2
<1>4. IsFiniteSet(tour) /\ IsFiniteSet(NearHits(hits))
  BY <1>2, <1>3, LibraryConstants, FS_Subset
<1>. QED
  BY <1>1, <1>2, <1>4

\* Moments of finitely many frames; as many as the frames if each has its own.
LEMMA MomentsOf ==
  ASSUME NEW frames, IsFiniteSet(frames)
  PROVE  /\ IsFiniteSet(Moments(frames)) /\ Cardinality(Moments(frames)) \in Nat
         /\ Cardinality(Moments(frames)) = 0 <=> frames = {}
         /\ Cardinality(Moments(frames)) = Cardinality(frames) =>
              \A f, g \in frames : Moment(f) = Moment(g) => f = g
<1>. DEFINE at == [f \in frames |-> Moment(f)]
<1>1. at \in Surjection(frames, Moments(frames))
  BY DEF Surjection, Moments
<1>2. /\ IsFiniteSet(Moments(frames))
      /\ Cardinality(Moments(frames)) = Cardinality(frames) <=> at \in Injection(frames, Moments(frames))
  <2>. HIDE DEF at
  <2>. QED
    BY <1>1, FS_Surjection
<1>3. Cardinality(Moments(frames)) \in Nat
  BY <1>2, FS_CardinalityType
<1>4. Cardinality(Moments(frames)) = 0 <=> Moments(frames) = {}
  BY <1>2, FS_EmptySet
<1>5. Moments(frames) = {} <=> frames = {}
  BY DEF Moments
<1>6. at \in Injection(frames, Moments(frames)) => \A f, g \in frames : Moment(f) = Moment(g) => f = g
  BY DEF Injection, IsInjective
<1>. QED
  BY <1>2, <1>3, <1>4, <1>5, <1>6

\* What a search for what there is gives.
LEMMA TourIsRight ==
  ASSUME NEW frames \in SUBSET Frames, NEW hits \in NearestOf(frames, Pool), NEW tour \in Tours(hits)
  PROVE  /\ tour \subseteq NearHits(frames)
         /\ NearHits(frames) # {} => \E f \in tour : \A g \in NearHits(frames) : f.distance <= g.distance
         /\ \A f, g \in tour : Moment(f) = Moment(g) => f = g
<1>1. hits \in SUBSET frames /\ hits \in SUBSET Frames
  BY DEF NearestOf, kSubset
<1>2. /\ tour \subseteq Leads(hits) /\ Leads(hits) \subseteq NearHits(hits)
      /\ Cardinality(tour) = Min({TopN, Cardinality(Moments(NearHits(hits)))})
      /\ Cardinality(Moments(tour)) = Cardinality(tour)
      /\ \A f \in tour, g \in Leads(hits) : Moment(g) \notin Moments(tour) => f.distance <= g.distance
      /\ IsFiniteSet(tour) /\ IsFiniteSet(NearHits(hits))
  BY <1>1, ToursAre
<1>3. tour \subseteq NearHits(frames)
  BY <1>1, <1>2 DEF NearHits
<1>4. \A f, g \in tour : Moment(f) = Moment(g) => f = g
  BY <1>2, MomentsOf
<1>5. ASSUME NearHits(frames) # {}
      PROVE  \E f \in tour : \A g \in NearHits(frames) : f.distance <= g.distance
  <2>1. frames # {} /\ NearHits(frames) \subseteq frames /\ \A f \in Frames : f.distance \in Nat
    BY <1>5, LibraryConstants DEF NearHits
  <2>2. Pool \in Nat \ {0} /\ TopN \in Nat \ {0} /\ Ceiling \in Nat
    BY LibraryConstants
  <2>3. PICK h \in hits : \A g \in frames : h.distance <= g.distance
    BY <2>1, <2>2, NearestAreNearest
  <2>4. PICK near \in NearHits(frames) : near.distance <= Ceiling
    BY <1>5 DEF NearHits
  <2>5. h \in NearHits(hits)
    BY <1>1, <2>1, <2>2, <2>3, <2>4 DEF NearHits
  <2>6. h \in Leads(hits)
    BY <1>1, <2>3, <2>5 DEF Leads, NearHits
  <2>7. tour # {}
    <3>1. Cardinality(Moments(NearHits(hits))) \in Nat \ {0}
      BY <1>2, <2>5, MomentsOf
    <3>2. Cardinality(tour) # 0
      BY <1>2, <2>2, <3>1, MinOfTwo
    <3>. QED
      BY <3>2, FS_EmptySet
  <2>8. CASE Moment(h) \notin Moments(tour)
    <3>1. PICK f \in tour : f.distance <= h.distance
      BY <1>2, <2>6, <2>7, <2>8
    <3>2. \A g \in NearHits(frames) : f.distance <= g.distance
      BY <1>3, <1>1, <2>1, <2>3, <3>1
    <3>. QED
      BY <3>2
  <2>9. CASE Moment(h) \in Moments(tour)
    <3>1. PICK f \in tour : Moment(f) = Moment(h)
      BY <2>9 DEF Moments
    <3>2. f.distance <= h.distance
      BY <1>2, <2>5, <3>1 DEF Leads
    <3>3. \A g \in NearHits(frames) : f.distance <= g.distance
      BY <1>3, <1>1, <2>1, <2>3, <3>1, <3>2
    <3>. QED
      BY <3>3
  <2>. QED
    BY <2>8, <2>9
<1>. QED
  BY <1>3, <1>4, <1>5

\* The frames that answer a query and can air.
Airable(query) == {f \in Frames : Wanted(f, query) /\ Aired(f.clip)}
FindRight ==
  asked.kind = "find" =>
    /\ asked.hit \subseteq asked.tour
    /\ asked.tour \subseteq NearHits(Airable(asked.query))
    /\ NearHits(Airable(asked.query)) # {} =>
         \E f \in asked.tour : \A g \in NearHits(Airable(asked.query)) : f.distance <= g.distance
    /\ \A f, g \in asked.tour : Moment(f) = Moment(g) => f = g
JumpRight ==
  asked.kind = "jump" =>
    IF asked.pick = NoClip THEN \A c \in DOMAIN videos : videos[c].state = asked.of => ~Aired(c)
    ELSE Aired(asked.pick) /\ videos[asked.pick].state = asked.of

LEMMA FoundAreAirable == FindRight /\ JumpRight => PicksAreAirable
<1>1. \A query : NearHits(Airable(query)) =
        {f \in Frames : Wanted(f, query) /\ Aired(f.clip) /\ f.distance <= Ceiling}
  BY DEF NearHits, Airable
<1>. QED
  BY <1>1 DEF FindRight, JumpRight, PicksAreAirable

LEMMA FindAsked ==
  ASSUME NEW query, FindCmd(query)
  PROVE  FindRight'
<1>1. videos' = videos /\ asked'.query = query
  BY DEF FindCmd
<1>2. PICK hits \in SearchFrames(query) :
        \E tour \in Tours(hits) : asked'.tour = tour /\ asked'.hit \subseteq tour
  BY DEF FindCmd
<1>7. PICK tour \in Tours(hits) : asked'.tour = tour /\ asked'.hit \subseteq tour
  BY <1>2
<1>3. hits \in NearestOf(Airable(query), Pool) /\ Airable(query) \in SUBSET Frames
  BY DEF SearchFrames, Airable
<1>4. /\ tour \subseteq NearHits(Airable(query))
      /\ NearHits(Airable(query)) # {} => \E f \in tour : \A g \in NearHits(Airable(query)) : f.distance <= g.distance
      /\ \A f, g \in tour : Moment(f) = Moment(g) => f = g
  BY <1>3, TourIsRight
<1>5. \A q : NearHits(Airable(q))' = NearHits(Airable(q))
  BY <1>1 DEF NearHits, Airable, Wanted, Aired
<1>6. NearHits(Airable(asked.query))' = NearHits(Airable(query))
  BY <1>1, <1>5
<1>. QED
  BY <1>1, <1>4, <1>6, <1>7 DEF FindRight, Moment

LEMMA JumpAsked ==
  ASSUME LibraryTypeOK, NEW state \in States, JumpTo(state)
  PROVE  JumpRight'
<1>1. videos' = videos /\ asked'.of = state /\ NoClip \notin DOMAIN videos
  BY FilmFacts DEF JumpTo, LibraryTypeOK
<1>2. CASE FindRandomByState(state) = {}
  <2>1. asked'.pick = NoClip
    BY <1>2 DEF JumpTo
  <2>. QED
    BY <1>1, <1>2, <2>1 DEF JumpRight, FindRandomByState, Aired
<1>3. CASE \E c \in FindRandomByState(state) : asked' = [kind |-> "jump", pick |-> c, of |-> state]
  BY <1>1, <1>3 DEF JumpRight, FindRandomByState, Aired
<1>. QED
  BY <1>2, <1>3 DEF JumpTo

-----------------------------------------------------------------------------
(* Picks                                                                    *)

PicksInv == PagesInv /\ SpotRight /\ MorningRight /\ FindRight /\ JumpRight

\* A question of no pick.
LEMMA OthersKeepPicks ==
  ASSUME asked'.kind \notin {"where", "when", "daytime", "find", "jump"}
  PROVE  SpotRight' /\ MorningRight' /\ FindRight' /\ JumpRight'
BY DEF SpotRight, MorningRight, FindRight, JumpRight

LEMMA PicksStep == PicksInv /\ [LibraryNext]_libraryVars => PicksInv'
<1>. SUFFICES ASSUME PicksInv, [LibraryNext]_libraryVars
              PROVE  PicksInv'
  OBVIOUS
<1>1. PagesInv' /\ LibraryTypeOK
  BY PagesStep DEF PicksInv, PagesInv
<1>. SUFFICES SpotRight' /\ MorningRight' /\ FindRight' /\ JumpRight'
  BY <1>1 DEF PicksInv
<1>2. CASE \E c \in DOMAIN videos : WhereAreWe(c) \/ WhenWasThis(c)
  <2>1. asked'.kind \in {"where", "when"} /\ SpotRight'
    BY <1>1, <1>2, SpotAsked DEF WhereAreWe, WhenWasThis
  <2>. QED
    BY <2>1 DEF MorningRight, FindRight, JumpRight
<1>3. CASE \E c \in DOMAIN videos : DaytimeCmd(c)
  <2>1. asked'.kind = "daytime" /\ MorningRight'
    BY <1>1, <1>3, MorningAsked DEF DaytimeCmd
  <2>. QED
    BY <2>1 DEF SpotRight, FindRight, JumpRight
<1>4. CASE \E state \in States : JumpTo(state)
  <2>1. asked'.kind = "jump" /\ JumpRight'
    BY <1>1, <1>4, JumpAsked DEF JumpTo
  <2>. QED
    BY <2>1 DEF SpotRight, MorningRight, FindRight
<1>5. CASE \E query \in [model : {f.model : f \in Frames}, states : SUBSET States] : FindCmd(query)
  <2>1. asked'.kind = "find" /\ FindRight'
    BY <1>5, FindAsked DEF FindCmd
  <2>. QED
    BY <2>1 DEF SpotRight, MorningRight, JumpRight
<1>6. CASE SearchUnavailable \/ Answered \/ OpenCalendar
  <2>1. asked'.kind \in {"unavailable", "none", "calendar"}
    BY <1>6 DEF SearchUnavailable, Answered, OpenCalendar, Nothing
  <2>. QED
    BY <2>1, OthersKeepPicks
<1>7. CASE ReadCuts \/ ReadPrev \/ ReadNext
  <2>1. asked.kind = "source" /\ {"kind", "step"} \subseteq DOMAIN asked
    BY <1>7 DEF ReadCuts, ReadPrev, ReadNext, PicksInv, PagesInv, SourceRight
  <2>2. asked'.kind = "source"
    <3>1. CASE ReadCuts
      BY <2>1, <3>1 DEF ReadCuts
    <3>2. CASE ReadPrev
      BY <2>1, <3>2 DEF ReadPrev
    <3>3. CASE ReadNext
      BY <2>1, <3>3 DEF ReadNext
    <3>. QED
      BY <1>7, <3>1, <3>2, <3>3
  <2>. QED
    BY <2>2, OthersKeepPicks
<1>8. CASE \/ \E original \in {s.original : s \in Slugs} : OpenSource(original)
           \/ asked.kind = "calendar" /\ \E d \in DOMAIN asked.days : OpenDay(d)
  <2>1. asked'.kind \in {"source", "day"}
    BY <1>8 DEF OpenSource, OpenDay
  <2>. QED
    BY <2>1, OthersKeepPicks
<1>9. CASE \/ \E s \in DOMAIN cuts, verdict \in {"keep", "trim", "drop"} : Rule(s, verdict)
           \/ \E s \in DOMAIN cuts : Ingest(s)
           \/ \E s \in DOMAIN videos : Withdraw(s)
  <2>1. asked.kind \in {"source", "calendar"}
    BY <1>9 DEF Rule, Ingest, Withdraw, Meanwhile
  <2>2. asked'.kind = asked.kind
    <3>1. CASE \E s \in DOMAIN videos : Withdraw(s)
      <4>1. PICK s \in DOMAIN videos : Withdraw(s)
        BY <3>1
      <4>2. asked' = asked \/ (asked.kind = "source" /\ asked' = [asked EXCEPT !.there = @ \ {s.original}])
        BY <4>1 DEF Withdraw
      <4>. QED
        BY <4>2 DEF PicksInv, PagesInv, SourceRight
    <3>. QED
      BY <1>9, <3>1 DEF Rule, Ingest
  <2>. QED
    BY <2>1, <2>2, OthersKeepPicks
<1>10. CASE UNCHANGED libraryVars
  <2>1. videos' = videos /\ asked' = asked
    BY <1>10 DEF libraryVars
  <2>2. SpotRight'
    BY <2>1, TableStays DEF PicksInv, SpotRight
  <2>3. MorningRight'
    BY <2>1 DEF PicksInv, MorningRight, RightMorning, Mornings, Upcoming, Aired, Flagged, IsDaytime
  <2>4. FindRight'
    <3>1. NearHits(Airable(asked.query))' = NearHits(Airable(asked.query))
      BY <2>1 DEF NearHits, Airable, Wanted, Aired
    <3>. QED
      BY <2>1, <3>1 DEF PicksInv, FindRight, Moment
  <2>5. JumpRight'
    BY <2>1 DEF PicksInv, JumpRight, Aired
  <2>. QED
    BY <2>2, <2>3, <2>4, <2>5
<1>. QED
  BY <1>2, <1>3, <1>4, <1>5, <1>6, <1>7, <1>8, <1>9, <1>10 DEF LibraryNext

\* The spot told for a flagged clip is the first ahead with a fix, !daytime passes
\* over no morning, and what !find and !jump go to can air and is what was asked
\* for (NextUnflagged, FindNextDaytime, pickFindHit, FindRandomByState).
THEOREM PicksAreAlwaysRight == LibrarySpec => []PicksAreRight
<1>1. LibraryInit => PicksInv
  <2>. SUFFICES ASSUME LibraryInit
                PROVE  PicksInv
    OBVIOUS
  <2>1. PagesInv /\ asked.kind = "none"
    BY PagesInitially DEF LibraryInit, Nothing
  <2>. QED
    BY <2>1 DEF PicksInv, SpotRight, MorningRight, FindRight, JumpRight
<1>2. PicksInv /\ [LibraryNext]_libraryVars => PicksInv'
  BY PicksStep
<1>3. PicksInv => PicksAreRight
  BY SpotIsRight, MorningIsRight, FoundAreAirable DEF PicksInv, PicksAreRight
<1>. QED
  BY <1>1, <1>2, <1>3, PTL DEF LibrarySpec

\* The table holds rows of clips, and no more is done to it than the bound.
THEOREM LibraryIsTyped == LibrarySpec => []LibraryTypeOK
<1>1. LibraryInit => PagesInv
  BY PagesInitially
<1>2. PagesInv /\ [LibraryNext]_libraryVars => PagesInv'
  BY PagesStep
<1>. QED
  BY <1>1, <1>2, PTL DEF LibrarySpec, PagesInv

-----------------------------------------------------------------------------
(* A sequence of steps                                                       *)

\* What holds at first and is kept by every step holds of all.
LEMMA StepsStay ==
  ASSUME NEW N \in Nat, NEW D, NEW g, g[0] \in D,
         \A n \in 1 .. N : g[n - 1] \in D => g[n] \in D
  PROVE  \A n \in 0 .. N : g[n] \in D
<1>. DEFINE Fails == {n \in 0 .. N : g[n] \notin D}
<1>1. SUFFICES ASSUME Fails # {} PROVE FALSE
  OBVIOUS
<1>2. PICK n \in Fails : \A m \in Fails : n <= m
  <2>1. Fails \subseteq Nat
    OBVIOUS
  <2>. HIDE DEF Fails
  <2>. QED
    BY <1>1, <2>1, SmallestExists
<1>3. n \in 1 .. N /\ g[n] \notin D /\ n - 1 \in 0 .. N
  BY <1>2
<1>4. n - 1 \notin Fails
  BY <1>2, <1>3
<1>. QED
  BY <1>3, <1>4

-----------------------------------------------------------------------------
(* The table of distances                                                    *)

\* A cell, from the ones above it, left of it and across.
Cell(up, left, across, x, y) == Min({up + 1, left + 1, across + EditCost(x, y)})

LEMMA CostIs == ASSUME NEW x, NEW y PROVE EditCost(x, y) \in Nat /\ EditCost(x, y) <= 1
BY DEF EditCost

LEMMA MinOfThree ==
  ASSUME NEW p \in Nat, NEW q \in Nat, NEW r \in Nat
  PROVE  /\ Min({p, q, r}) \in {p, q, r}
         /\ Min({p, q, r}) <= p /\ Min({p, q, r}) <= q /\ Min({p, q, r}) <= r
<1>1. \E x \in {p, q, r} : \A y \in {p, q, r} : x <= y
  <2>1. \/ p <= q /\ p <= r
        \/ q <= p /\ q <= r
        \/ r <= p /\ r <= q
    OBVIOUS
  <2>. QED
    BY <2>1
<1>2. Min({p, q, r}) \in {p, q, r} /\ \A y \in {p, q, r} : Min({p, q, r}) <= y
  BY <1>1 DEF Min
<1>. QED
  BY <1>2

\* A cell is one more than a neighbour, or as much as the one across.
LEMMA CellIs ==
  ASSUME NEW up \in Nat, NEW left \in Nat, NEW across \in Nat, NEW x, NEW y
  PROVE  /\ Cell(up, left, across, x, y) \in Nat
         /\ Cell(up, left, across, x, y) <= up + 1 /\ Cell(up, left, across, x, y) <= left + 1
         /\ Cell(up, left, across, x, y) <= across + EditCost(x, y)
         /\ Cell(up, left, across, x, y) \in {up + 1, left + 1, across + EditCost(x, y)}
<1>1. up + 1 \in Nat /\ left + 1 \in Nat /\ across + EditCost(x, y) \in Nat
  BY CostIs
<1>. QED
  BY <1>1, MinOfThree DEF Cell

\* Row i of the table follows the one before it.
IsRow(curr, prev, i, x, b) ==
  /\ curr \in [0 .. Len(b) -> Nat] /\ curr[0] = i
  /\ \A j \in 1 .. Len(b) : curr[j] = Cell(prev[j], curr[j - 1], prev[j - 1], x, b[j])

\* Such a row is what the program makes of the one before it.
LEMMA RowIs ==
  ASSUME NEW b, Len(b) \in Nat, NEW prev \in [0 .. Len(b) -> Nat], NEW i \in Nat, NEW x
  PROVE  IsRow(EditRow(prev, i, x, b), prev, i, x, b)
<1>. DEFINE Along(curr, j) == IF j = 0 THEN i
                              ELSE Cell(prev[j], curr[j - 1], prev[j - 1], x, b[j])
            Walks(curr) == curr = [j \in 0 .. Len(b) |-> Along(curr, j)]
            F == [j \in 1 .. Len(b) |-> [c \in Nat |-> Cell(prev[j], c, prev[j - 1], x, b[j])]]
            curr == EditRow(prev, i, x, b)
<1>1. curr = CHOOSE g : Walks(g)
  BY DEF EditRow, Cell
<1>2. \A j \in 1 .. Len(b) : prev[j] \in Nat /\ prev[j - 1] \in Nat
  OBVIOUS
<1>3. \E g : Walks(g)
  <2>1. F \in [1 .. Len(b) -> [Nat -> Nat]]
    BY <1>2, CellIs
  <2>2. PICK g \in [0 .. Len(b) -> Nat] : StepByStep(g, Len(b), i, F)
    <3>. HIDE DEF F
    <3>. QED
      BY <2>1, StepsExist
  <2>3. ASSUME NEW j \in 0 .. Len(b) PROVE g[j] = Along(g, j)
    <3>1. CASE j = 0
      BY <2>2, <3>1 DEF StepByStep
    <3>2. CASE j # 0
      <4>1. j \in 1 .. Len(b) /\ j - 1 \in 0 .. Len(b)
        BY <3>2
      <4>2. g[j - 1] \in Nat
        BY <4>1
      <4>3. g[j] = F[j][g[j - 1]]
        <5>. HIDE DEF F
        <5>. QED
          BY <2>2, <4>1 DEF StepByStep
      <4>. QED
        BY <3>2, <4>1, <4>2, <4>3
    <3>. QED
      BY <3>1, <3>2
  <2>4. Walks(g)
    <3>. HIDE DEF Along
    <3>. QED
      BY <2>3
  <2>. QED
    BY <2>4
<1>4. Walks(curr)
  <2>. HIDE DEF Walks, curr
  <2>. QED
    BY <1>1, <1>3
<1>. HIDE DEF curr
<1>5. /\ curr = [j \in 0 .. Len(b) |-> curr[j]] /\ curr[0] = i
      /\ \A j \in 1 .. Len(b) : curr[j] = Cell(prev[j], curr[j - 1], prev[j - 1], x, b[j])
  BY <1>4
<1>6. ASSUME NEW j \in 1 .. Len(b), curr[j - 1] \in Nat PROVE curr[j] \in Nat
  <2>1. curr[j] = Cell(prev[j], curr[j - 1], prev[j - 1], x, b[j])
    BY <1>5
  <2>2. prev[j] \in Nat /\ prev[j - 1] \in Nat
    BY <1>2
  <2>. QED
    BY <1>6, <2>1, <2>2, CellIs
<1>7. \A j \in 0 .. Len(b) : curr[j] \in Nat
  BY <1>5, <1>6, StepsStay
<1>8. curr \in [0 .. Len(b) -> Nat]
  BY <1>5, <1>7
<1>9. IsRow(curr, prev, i, x, b)
  BY <1>5, <1>8 DEF IsRow
<1>. QED
  BY <1>9 DEF curr

\* The whole table, of every beginning of one word against every beginning of
\* the other.
IsTable(t, a, b) ==
  /\ t \in [0 .. Len(a) -> [0 .. Len(b) -> Nat]]
  /\ t[0] = [j \in 0 .. Len(b) |-> j]
  /\ \A i \in 1 .. Len(a) : IsRow(t[i], t[i - 1], i, a[i], b)

Table(a, b) ==
  CHOOSE row : row = [i \in 0 .. Len(a) |->
    IF i = 0 THEN [j \in 0 .. Len(b) |-> j] ELSE EditRow(row[i - 1], i, a[i], b)]

LEMMA DistanceIsLast ==
  ASSUME NEW a, NEW b PROVE Levenshtein(a, b) = Table(a, b)[Len(a)][Len(b)]
BY DEF Levenshtein, Table

LEMMA TableIs ==
  ASSUME NEW a, NEW b, Len(a) \in Nat, Len(b) \in Nat
  PROVE  IsTable(Table(a, b), a, b)
<1>. DEFINE Rows == [0 .. Len(b) -> Nat]
            top == [j \in 0 .. Len(b) |-> j]
            Down(row, i) == IF i = 0 THEN top ELSE EditRow(row[i - 1], i, a[i], b)
            Walks(row) == row = [i \in 0 .. Len(a) |-> Down(row, i)]
            F == [i \in 1 .. Len(a) |-> [r \in Rows |-> EditRow(r, i, a[i], b)]]
            t == Table(a, b)
<1>1. t = CHOOSE row : Walks(row)
  BY DEF Table
<1>2. top \in Rows
  OBVIOUS
<1>3. \A i \in 1 .. Len(a), r \in Rows :
        IsRow(EditRow(r, i, a[i], b), r, i, a[i], b) /\ EditRow(r, i, a[i], b) \in Rows
  BY RowIs DEF IsRow
<1>4. \E row : Walks(row)
  <2>1. F \in [1 .. Len(a) -> [Rows -> Rows]]
    <3>. HIDE DEF Rows
    <3>. QED
      BY <1>3
  <2>2. PICK g \in [0 .. Len(a) -> Rows] : StepByStep(g, Len(a), top, F)
    <3>. HIDE DEF F, Rows, top
    <3>. QED
      BY <1>2, <2>1, StepsExist
  <2>3. ASSUME NEW i \in 0 .. Len(a) PROVE g[i] = Down(g, i)
    <3>. HIDE DEF Rows, top
    <3>1. CASE i = 0
      BY <2>2, <3>1 DEF StepByStep
    <3>2. CASE i # 0
      <4>1. i \in 1 .. Len(a) /\ i - 1 \in 0 .. Len(a)
        BY <3>2
      <4>2. g[i - 1] \in Rows
        BY <4>1
      <4>3. g[i] = F[i][g[i - 1]]
        <5>. HIDE DEF F
        <5>. QED
          BY <2>2, <4>1 DEF StepByStep
      <4>. QED
        BY <3>2, <4>1, <4>2, <4>3
    <3>. QED
      BY <3>1, <3>2
  <2>4. Walks(g)
    <3>. HIDE DEF Down, Rows
    <3>. QED
      BY <2>3
  <2>. QED
    BY <2>4
<1>5. Walks(t)
  <2>. HIDE DEF Walks, t
  <2>. QED
    BY <1>1, <1>4
<1>. HIDE DEF t
<1>6. /\ t = [i \in 0 .. Len(a) |-> t[i]] /\ t[0] = top
      /\ \A i \in 1 .. Len(a) : t[i] = EditRow(t[i - 1], i, a[i], b)
  <2>. HIDE DEF top, Rows
  <2>. QED
    BY <1>5
<1>. HIDE DEF Rows, top
<1>7. ASSUME NEW i \in 1 .. Len(a), t[i - 1] \in Rows
      PROVE  t[i] \in Rows /\ IsRow(t[i], t[i - 1], i, a[i], b)
  <2>1. t[i] = EditRow(t[i - 1], i, a[i], b)
    BY <1>6
  <2>. QED
    BY <1>3, <1>7, <2>1
<1>8. \A i \in 0 .. Len(a) : t[i] \in Rows
  BY <1>2, <1>6, <1>7, StepsStay
<1>9. t \in [0 .. Len(a) -> Rows]
  BY <1>6, <1>8
<1>10. ASSUME NEW i \in 1 .. Len(a) PROVE IsRow(t[i], t[i - 1], i, a[i], b)
  <2>1. i - 1 \in 0 .. Len(a)
    OBVIOUS
  <2>2. t[i - 1] \in Rows
    BY <1>8, <2>1
  <2>. QED
    BY <1>7, <2>2
<1>11. IsTable(t, a, b)
  BY <1>6, <1>9, <1>10 DEF IsTable, Rows, top
<1>. QED
  BY <1>11 DEF t

-----------------------------------------------------------------------------
(* The distance of longer words, from that of shorter ones                   *)

\* The tables of two pairs of words agree as far as the words do.
LEMMA TablesAgree ==
  ASSUME NEW a, NEW b, NEW c, NEW d, NEW t, NEW u, IsTable(t, a, b), IsTable(u, c, d),
         Len(a) \in Nat, Len(b) \in Nat, Len(c) \in Nat, Len(d) \in Nat,
         Len(a) <= Len(c), Len(b) <= Len(d),
         \A i \in 1 .. Len(a) : a[i] = c[i], \A j \in 1 .. Len(b) : b[j] = d[j]
  PROVE  \A i \in 0 .. Len(a), j \in 0 .. Len(b) : t[i][j] = u[i][j]
<1>. DEFINE Fails == {n \in Nat : \E i \in 0 .. Len(a), j \in 0 .. Len(b) :
                                    n = i + j /\ t[i][j] # u[i][j]}
<1>1. SUFFICES ASSUME Fails # {} PROVE FALSE
  <2>1. ASSUME NEW i \in 0 .. Len(a), NEW j \in 0 .. Len(b), Fails = {}
        PROVE  t[i][j] = u[i][j]
    <3>1. i + j \in Nat
      OBVIOUS
    <3>. QED
      BY <2>1, <3>1
  <2>. QED
    BY <2>1
<1>2. PICK n \in Fails : \A m \in Fails : n <= m
  <2>1. Fails \subseteq Nat
    OBVIOUS
  <2>. HIDE DEF Fails
  <2>. QED
    BY <1>1, <2>1, SmallestExists
<1>3. PICK i \in 0 .. Len(a), j \in 0 .. Len(b) : n = i + j /\ t[i][j] # u[i][j]
  BY <1>2
<1>4. \A k \in 0 .. Len(a), l \in 0 .. Len(b) : k + l < n => t[k][l] = u[k][l]
  <2>1. SUFFICES ASSUME NEW k \in 0 .. Len(a), NEW l \in 0 .. Len(b), k + l < n,
                        t[k][l] # u[k][l]
                 PROVE  FALSE
    OBVIOUS
  <2>2. k + l \in Nat /\ k + l \in Fails
    BY <2>1
  <2>3. n \in Nat
    BY <1>2
  <2>. HIDE DEF Fails
  <2>. QED
    BY <1>2, <2>1, <2>2, <2>3
<1>. HIDE DEF Fails
<1>5. i \in 0 .. Len(c) /\ j \in 0 .. Len(d)
  OBVIOUS
<1>6. CASE i = 0
  BY <1>3, <1>5, <1>6 DEF IsTable
<1>7. CASE i # 0 /\ j = 0
  BY <1>3, <1>5, <1>7 DEF IsTable, IsRow
<1>8. CASE i # 0 /\ j # 0
  <2>1. /\ i \in 1 .. Len(a) /\ i - 1 \in 0 .. Len(a) /\ i \in 1 .. Len(c)
        /\ j \in 1 .. Len(b) /\ j - 1 \in 0 .. Len(b) /\ j \in 1 .. Len(d)
    BY <1>5, <1>8
  <2>2. i - 1 + j < n /\ i + (j - 1) < n /\ i - 1 + (j - 1) < n
    BY <1>3
  <2>3. /\ t[i - 1][j] = u[i - 1][j] /\ t[i][j - 1] = u[i][j - 1]
        /\ t[i - 1][j - 1] = u[i - 1][j - 1]
    BY <1>4, <2>1, <2>2
  <2>4. t[i][j] = Cell(t[i - 1][j], t[i][j - 1], t[i - 1][j - 1], a[i], b[j])
    BY <2>1 DEF IsTable, IsRow
  <2>5. u[i][j] = Cell(u[i - 1][j], u[i][j - 1], u[i - 1][j - 1], c[i], d[j])
    BY <2>1 DEF IsTable, IsRow
  <2>6. a[i] = c[i] /\ b[j] = d[j]
    BY <2>1
  <2>. QED
    BY <1>3, <2>3, <2>4, <2>5, <2>6
<1>. QED
  BY <1>6, <1>7, <1>8

\* A table holds the distance of every beginning of its words.
LEMMA TableHoldsDistances ==
  ASSUME NEW a, NEW b, NEW c, NEW d,
         Len(a) \in Nat, Len(b) \in Nat, Len(c) \in Nat, Len(d) \in Nat,
         Len(a) <= Len(c), Len(b) <= Len(d),
         \A i \in 1 .. Len(a) : a[i] = c[i], \A j \in 1 .. Len(b) : b[j] = d[j]
  PROVE  Levenshtein(a, b) = Table(c, d)[Len(a)][Len(b)]
<1>1. IsTable(Table(a, b), a, b) /\ IsTable(Table(c, d), c, d)
  BY TableIs
<1>2. \A i \in 0 .. Len(a), j \in 0 .. Len(b) : Table(a, b)[i][j] = Table(c, d)[i][j]
  BY <1>1, TablesAgree
<1>3. Len(a) \in 0 .. Len(a) /\ Len(b) \in 0 .. Len(b)
  OBVIOUS
<1>. QED
  BY <1>2, <1>3, DistanceIsLast

LEMMA DistanceIsNat ==
  ASSUME NEW a, NEW b, Len(a) \in Nat, Len(b) \in Nat
  PROVE  Levenshtein(a, b) \in Nat
<1>1. IsTable(Table(a, b), a, b)
  BY TableIs
<1>2. Len(a) \in 0 .. Len(a) /\ Len(b) \in 0 .. Len(b)
  OBVIOUS
<1>3. Table(a, b)[Len(a)] \in [0 .. Len(b) -> Nat]
  BY <1>1, <1>2 DEF IsTable
<1>. QED
  BY <1>2, <1>3, DistanceIsLast

\* From nothing or to nothing, every letter counts.
LEMMA DistanceOfNothing ==
  ASSUME NEW a, NEW b, Len(a) \in Nat, Len(b) \in Nat
  PROVE  /\ Len(a) = 0 => Levenshtein(a, b) = Len(b)
         /\ Len(b) = 0 => Levenshtein(a, b) = Len(a)
<1>1. IsTable(Table(a, b), a, b) /\ Levenshtein(a, b) = Table(a, b)[Len(a)][Len(b)]
  BY TableIs, DistanceIsLast
<1>2. Len(a) = 0 => Levenshtein(a, b) = Len(b)
  BY <1>1 DEF IsTable
<1>3. ASSUME Len(b) = 0, Len(a) # 0 PROVE Levenshtein(a, b) = Len(a)
  <2>1. Len(a) \in 1 .. Len(a)
    BY <1>3
  <2>2. IsRow(Table(a, b)[Len(a)], Table(a, b)[Len(a) - 1], Len(a), a[Len(a)], b)
    BY <1>1, <2>1 DEF IsTable
  <2>. QED
    BY <1>1, <1>3, <2>2 DEF IsRow
<1>. QED
  BY <1>2, <1>3

LEMMA AppendIs ==
  ASSUME NEW S, NEW a \in Seq(S), NEW x \in S
  PROVE  /\ Append(a, x) \in Seq(S) /\ Len(Append(a, x)) = Len(a) + 1 /\ Len(a) \in Nat
         /\ \A i \in 1 .. Len(a) : Append(a, x)[i] = a[i]
         /\ Append(a, x)[Len(a) + 1] = x
OBVIOUS

\* The distance of two longer words is a cell over the distances of the shorter
\* ones.
LEMMA DistanceStep ==
  ASSUME NEW S, NEW a \in Seq(S), NEW b \in Seq(S), NEW x \in S, NEW y \in S
  PROVE  Levenshtein(Append(a, x), Append(b, y)) =
           Cell(Levenshtein(a, Append(b, y)), Levenshtein(Append(a, x), b), Levenshtein(a, b),
                x, y)
<1>. DEFINE c == Append(a, x)
            d == Append(b, y)
            t == Table(c, d)
<1>1. /\ Len(c) = Len(a) + 1 /\ Len(d) = Len(b) + 1 /\ Len(a) \in Nat /\ Len(b) \in Nat
      /\ \A i \in 1 .. Len(a) : a[i] = c[i]
      /\ \A j \in 1 .. Len(b) : b[j] = d[j]
      /\ c[Len(c)] = x /\ d[Len(d)] = y
  BY AppendIs
<1>. HIDE DEF c, d
<1>2. /\ Levenshtein(a, d) = t[Len(a)][Len(d)] /\ Levenshtein(c, b) = t[Len(c)][Len(b)]
      /\ Levenshtein(a, b) = t[Len(a)][Len(b)]
  BY <1>1, TableHoldsDistances
<1>3. Levenshtein(c, d) = t[Len(c)][Len(d)]
  BY DistanceIsLast
<1>4. IsTable(t, c, d)
  BY <1>1, TableIs
<1>. HIDE DEF t
<1>5. Len(c) \in 1 .. Len(c) /\ Len(d) \in 1 .. Len(d) /\ Len(c) - 1 = Len(a) /\ Len(d) - 1 = Len(b)
  BY <1>1
<1>6. IsRow(t[Len(c)], t[Len(a)], Len(c), x, d)
  BY <1>1, <1>4, <1>5 DEF IsTable
<1>7. t[Len(c)][Len(d)] = Cell(t[Len(a)][Len(d)], t[Len(c)][Len(b)], t[Len(a)][Len(b)], x, y)
  BY <1>1, <1>5, <1>6 DEF IsRow
<1>8. Levenshtein(c, d) = Cell(Levenshtein(a, d), Levenshtein(c, b), Levenshtein(a, b), x, y)
  BY <1>2, <1>3, <1>7
<1>. QED
  BY <1>8 DEF c, d

\* The distance of two words that go on is that of one of the three ways to shorten them.
LEMMA DistanceOfLonger ==
  ASSUME NEW S, NEW a \in Seq(S), NEW b \in Seq(S), NEW x \in S, NEW y \in S
  PROVE  LET longer == Levenshtein(Append(a, x), Append(b, y))
             up == Levenshtein(a, Append(b, y))
             left == Levenshtein(Append(a, x), b)
             across == Levenshtein(a, b)
         IN  /\ longer \in Nat /\ up \in Nat /\ left \in Nat /\ across \in Nat
             /\ longer <= up + 1 /\ longer <= left + 1 /\ longer <= across + 1
             /\ x = y => longer <= across
             /\ \/ longer = up + 1 \/ longer = left + 1
                \/ x = y /\ longer = across
                \/ x # y /\ longer = across + 1
<1>. DEFINE longer == Levenshtein(Append(a, x), Append(b, y))
            up == Levenshtein(a, Append(b, y))
            left == Levenshtein(Append(a, x), b)
            across == Levenshtein(a, b)
<1>1. longer = Cell(up, left, across, x, y)
  BY DistanceStep
<1>2. up \in Nat /\ left \in Nat /\ across \in Nat
  BY AppendIs, DistanceIsNat
<1>. HIDE DEF longer, up, left, across
<1>3. /\ longer \in Nat /\ longer <= up + 1 /\ longer <= left + 1
      /\ longer <= across + EditCost(x, y)
      /\ longer \in {up + 1, left + 1, across + EditCost(x, y)}
  BY <1>1, <1>2, CellIs
<1>4. /\ longer \in Nat /\ up \in Nat /\ left \in Nat /\ across \in Nat
      /\ longer <= up + 1 /\ longer <= left + 1 /\ longer <= across + 1
      /\ x = y => longer <= across
      /\ \/ longer = up + 1 \/ longer = left + 1
         \/ x = y /\ longer = across
         \/ x # y /\ longer = across + 1
  BY <1>2, <1>3 DEF EditCost
<1>. QED
  BY <1>4 DEF longer, up, left, across

\* A word is empty, or a shorter one and a letter.
LEMMA WordParts ==
  ASSUME NEW S, NEW s \in Seq(S)
  PROVE  s = <<>> \/ \E r \in Seq(S), z \in S : s = Append(r, z)
<1>1. CASE s # <<>>
  <2>1. SubSeq(s, 1, Len(s) - 1) \in Seq(S) /\ s[Len(s)] \in S
    BY <1>1
  <2>2. s = Append(SubSeq(s, 1, Len(s) - 1), s[Len(s)])
    BY <1>1
  <2>. QED
    BY <2>1, <2>2
<1>. QED
  BY <1>1

\* One more letter makes a word at most one edit further from any other.
LEMMA OneLetterMore ==
  ASSUME NEW S, NEW a \in Seq(S), NEW b \in Seq(S), NEW x \in S
  PROVE  /\ Levenshtein(Append(a, x), b) <= Levenshtein(a, b) + 1
         /\ Levenshtein(a, Append(b, x)) <= Levenshtein(a, b) + 1
<1>1. \A s \in Seq(S) : s = <<>> \/ \E r \in Seq(S), z \in S : s = Append(r, z)
  BY WordParts
<1>2. /\ Len(Append(a, x)) = Len(a) + 1 /\ Len(Append(b, x)) = Len(b) + 1
      /\ Len(a) \in Nat /\ Len(b) \in Nat
  BY AppendIs
<1>3. /\ Len(a) = 0 => Levenshtein(a, b) = Len(b)
      /\ Len(b) = 0 => Levenshtein(a, b) = Len(a)
  BY <1>2, DistanceOfNothing
<1>4. \A c : Len(c) \in Nat =>
        /\ Len(a) = 0 => Levenshtein(a, c) = Len(c)
        /\ Len(b) = 0 => Levenshtein(c, b) = Len(c)
  BY <1>2, DistanceOfNothing
<1>5. /\ Len(a) = 0 => Levenshtein(a, Append(b, x)) = Len(b) + 1
      /\ Len(b) = 0 => Levenshtein(Append(a, x), b) = Len(a) + 1
  <2>. DEFINE c == Append(a, x)
              d == Append(b, x)
  <2>1. Len(c) = Len(a) + 1 /\ Len(d) = Len(b) + 1
    BY <1>2
  <2>. HIDE DEF c, d
  <2>2. /\ Len(a) = 0 => Levenshtein(a, d) = Len(b) + 1
        /\ Len(b) = 0 => Levenshtein(c, b) = Len(a) + 1
    BY <1>2, <1>4, <2>1
  <2>. QED
    BY <2>2 DEF c, d
<1>6. Levenshtein(Append(a, x), b) <= Levenshtein(a, b) + 1
  <2>1. CASE b = <<>>
    BY <1>2, <1>3, <1>4, <1>5, <2>1
  <2>2. ASSUME NEW r \in Seq(S), NEW z \in S, b = Append(r, z)
        PROVE  Levenshtein(Append(a, x), b) <= Levenshtein(a, b) + 1
    BY <2>2, DistanceOfLonger
  <2>. QED
    BY <1>1, <2>1, <2>2
<1>7. Levenshtein(a, Append(b, x)) <= Levenshtein(a, b) + 1
  <2>1. CASE a = <<>>
    BY <1>2, <1>3, <1>4, <1>5, <2>1
  <2>2. ASSUME NEW r \in Seq(S), NEW z \in S, a = Append(r, z)
        PROVE  Levenshtein(a, Append(b, x)) <= Levenshtein(a, b) + 1
    BY <2>2, DistanceOfLonger
  <2>. QED
    BY <1>1, <2>1, <2>2
<1>. QED
  BY <1>6, <1>7

-----------------------------------------------------------------------------
(* Edits of a word that goes on                                              *)

\* The three edits.
Deleted(w, i) == SubSeq(w, 1, i - 1) \o SubSeq(w, i + 1, Len(w))
Inserted(w, i, x) == SubSeq(w, 1, i) \o <<x>> \o SubSeq(w, i + 1, Len(w))
Replaced(w, i, x) == [w EXCEPT ![i] = x]

LEMMA OneEditIs ==
  ASSUME NEW S, NEW w \in Seq(S), NEW v
  PROVE  v \in OneEdit(w) <=>
           \/ \E i \in 1 .. Len(w) : v = Deleted(w, i)
           \/ \E i \in 0 .. Len(w), x \in Marks : v = Inserted(w, i, x)
           \/ \E i \in 1 .. Len(w), x \in Marks : v = Replaced(w, i, x)
<1>1. OneEdit(w) = {Deleted(w, i) : i \in DOMAIN w}
                     \cup {Inserted(w, i, x) : i \in 0 .. Len(w), x \in Marks}
                     \cup {Replaced(w, i, x) : i \in DOMAIN w, x \in Marks}
  BY DEF OneEdit, Deleted, Inserted, Replaced
<1>2. DOMAIN w = 1 .. Len(w)
  OBVIOUS
<1>. QED
  BY <1>1, <1>2

\* The letters of a word without one, with one more, and with another.
IsDeletion(v, w, i, S) ==
  /\ v \in Seq(S) /\ Len(v) = Len(w) - 1
  /\ \A k \in 1 .. i - 1 : v[k] = w[k]
  /\ \A k \in i .. Len(w) - 1 : v[k] = w[k + 1]
IsInsertion(v, w, i, x, S) ==
  /\ v \in Seq(S) /\ Len(v) = Len(w) + 1 /\ v[i + 1] = x
  /\ \A k \in 1 .. i : v[k] = w[k]
  /\ \A k \in i + 2 .. Len(w) + 1 : v[k] = w[k - 1]
IsReplacement(v, w, i, x, S) ==
  /\ v \in Seq(S) /\ Len(v) = Len(w) /\ v[i] = x
  /\ \A k \in 1 .. Len(w) : k # i => v[k] = w[k]

LEMMA DeletedIs ==
  ASSUME NEW S, NEW w \in Seq(S), NEW i \in 1 .. Len(w)
  PROVE  IsDeletion(Deleted(w, i), w, i, S)
<1>. DEFINE p == SubSeq(w, 1, i - 1)
            q == SubSeq(w, i + 1, Len(w))
<1>1. \A k \in 1 .. Len(w) : w[k] \in S
  OBVIOUS
<1>2. /\ p \in Seq(S) /\ Len(p) = i - 1 /\ \A k \in 1 .. i - 1 : p[k] = w[k]
  <2>1. \A k \in 1 .. i - 1 : w[k] \in S
    BY <1>1
  <2>. QED
    BY <2>1, SubSeqProperties
<1>3. /\ q \in Seq(S) /\ Len(q) = Len(w) - i /\ \A k \in 1 .. Len(w) - i : q[k] = w[i + k]
  <2>1. \A k \in i + 1 .. Len(w) : w[k] \in S
    BY <1>1
  <2>. QED
    BY <2>1, SubSeqProperties
<1>. HIDE DEF p, q
<1>4. /\ p \o q \in Seq(S) /\ Len(p \o q) = Len(p) + Len(q)
      /\ \A k \in 1 .. Len(p) + Len(q) :
           (p \o q)[k] = IF k <= Len(p) THEN p[k] ELSE q[k - Len(p)]
  BY <1>2, <1>3, ConcatProperties
<1>5. Deleted(w, i) = p \o q
  BY DEF Deleted, p, q
<1>. DEFINE v == p \o q
<1>. HIDE DEF v
<1>6. v \in Seq(S) /\ Len(v) = Len(w) - 1
  BY <1>2, <1>3, <1>4 DEF v
<1>7. ASSUME NEW k \in 1 .. i - 1 PROVE v[k] = w[k]
  BY <1>2, <1>3, <1>4 DEF v
<1>8. ASSUME NEW k \in i .. Len(w) - 1 PROVE v[k] = w[k + 1]
  <2>1. k \in 1 .. Len(p) + Len(q) /\ ~ (k <= Len(p)) /\ k - Len(p) = k - i + 1
    BY <1>2, <1>3
  <2>2. v[k] = q[k - i + 1]
    BY <1>4, <2>1 DEF v
  <2>3. k - i + 1 \in 1 .. Len(w) - i /\ i + (k - i + 1) = k + 1
    OBVIOUS
  <2>. QED
    BY <1>3, <2>2, <2>3
<1>9. Deleted(w, i) = v
  BY <1>5 DEF v
<1>. QED
  BY <1>6, <1>7, <1>8, <1>9 DEF IsDeletion

LEMMA InsertedIs ==
  ASSUME NEW S, NEW w \in Seq(S), NEW i \in 0 .. Len(w), NEW x \in S
  PROVE  IsInsertion(Inserted(w, i, x), w, i, x, S)
<1>. DEFINE p == SubSeq(w, 1, i)
            m == <<x>>
            q == SubSeq(w, i + 1, Len(w))
<1>1. \A k \in 1 .. Len(w) : w[k] \in S
  OBVIOUS
<1>2. /\ p \in Seq(S) /\ Len(p) = i /\ \A k \in 1 .. i : p[k] = w[k]
  <2>1. \A k \in 1 .. i : w[k] \in S
    BY <1>1
  <2>. QED
    BY <2>1, SubSeqProperties
<1>3. /\ q \in Seq(S) /\ Len(q) = Len(w) - i /\ \A k \in 1 .. Len(w) - i : q[k] = w[i + k]
  <2>1. \A k \in i + 1 .. Len(w) : w[k] \in S
    BY <1>1
  <2>. QED
    BY <2>1, SubSeqProperties
<1>4. m \in Seq(S) /\ Len(m) = 1 /\ m[1] = x
  OBVIOUS
<1>. HIDE DEF p, q, m
<1>. DEFINE o == p \o m
            v == o \o q
<1>5. /\ o \in Seq(S) /\ Len(o) = i + 1 /\ o[i + 1] = x
      /\ \A k \in 1 .. i : o[k] = w[k]
  <2>1. /\ p \o m \in Seq(S) /\ Len(p \o m) = Len(p) + Len(m)
        /\ \A k \in 1 .. Len(p) + Len(m) :
             (p \o m)[k] = IF k <= Len(p) THEN p[k] ELSE m[k - Len(p)]
    BY <1>2, <1>4, ConcatProperties
  <2>2. /\ o \in Seq(S) /\ Len(o) = i + 1
        /\ \A k \in 1 .. i + 1 : o[k] = IF k <= i THEN p[k] ELSE m[k - i]
    BY <1>2, <1>4, <2>1
  <2>. HIDE DEF o
  <2>3. i + 1 \in 1 .. i + 1 /\ ~ (i + 1 <= i) /\ i + 1 - i = 1
    OBVIOUS
  <2>4. o[i + 1] = x
    BY <1>4, <2>2, <2>3
  <2>. QED
    BY <1>2, <2>2, <2>4
<1>. HIDE DEF o
<1>6. /\ v \in Seq(S) /\ Len(v) = Len(w) + 1
      /\ \A k \in 1 .. Len(w) + 1 : v[k] = IF k <= i + 1 THEN o[k] ELSE q[k - (i + 1)]
  <2>1. /\ o \o q \in Seq(S) /\ Len(o \o q) = Len(o) + Len(q)
        /\ \A k \in 1 .. Len(o) + Len(q) :
             (o \o q)[k] = IF k <= Len(o) THEN o[k] ELSE q[k - Len(o)]
    BY <1>3, <1>5, ConcatProperties
  <2>2. Len(o) + Len(q) = Len(w) + 1
    BY <1>3, <1>5
  <2>. QED
    BY <1>5, <2>1, <2>2
<1>. HIDE DEF v
<1>7. ASSUME NEW k \in 1 .. i PROVE v[k] = w[k]
  BY <1>5, <1>6
<1>8. v[i + 1] = x
  <2>1. i + 1 \in 1 .. Len(w) + 1 /\ i + 1 <= i + 1
    OBVIOUS
  <2>. QED
    BY <1>5, <1>6, <2>1
<1>9. ASSUME NEW k \in i + 2 .. Len(w) + 1 PROVE v[k] = w[k - 1]
  <2>1. /\ k \in 1 .. Len(w) + 1 /\ ~ (k <= i + 1)
        /\ k - (i + 1) \in 1 .. Len(w) - i /\ i + (k - (i + 1)) = k - 1
    OBVIOUS
  <2>. QED
    BY <1>3, <1>6, <2>1
<1>10. Inserted(w, i, x) = v
  BY DEF Inserted, v, o, p, q, m
<1>. QED
  BY <1>6, <1>7, <1>8, <1>9, <1>10 DEF IsInsertion

LEMMA ReplacedIs ==
  ASSUME NEW S, NEW w \in Seq(S), NEW i \in 1 .. Len(w), NEW x \in S
  PROVE  IsReplacement(Replaced(w, i, x), w, i, x, S)
BY DEF Replaced, IsReplacement

LEMMA EditsAreWords ==
  ASSUME NEW S, Marks \subseteq S, NEW w \in Seq(S), NEW v \in OneEdit(w)
  PROVE  v \in Seq(S)
<1>1. \/ \E i \in 1 .. Len(w) : v = Deleted(w, i)
      \/ \E i \in 0 .. Len(w), x \in S : v = Inserted(w, i, x)
      \/ \E i \in 1 .. Len(w), x \in S : v = Replaced(w, i, x)
  BY OneEditIs
<1>2. /\ \A i \in 1 .. Len(w) : IsDeletion(Deleted(w, i), w, i, S)
      /\ \A i \in 0 .. Len(w), x \in S : IsInsertion(Inserted(w, i, x), w, i, x, S)
      /\ \A i \in 1 .. Len(w), x \in S : IsReplacement(Replaced(w, i, x), w, i, x, S)
  BY DeletedIs, InsertedIs, ReplacedIs
<1>3. CASE \E i \in 1 .. Len(w) : v = Deleted(w, i)
  BY <1>2, <1>3 DEF IsDeletion
<1>4. CASE \E i \in 0 .. Len(w), x \in S : v = Inserted(w, i, x)
  BY <1>2, <1>4 DEF IsInsertion
<1>5. CASE \E i \in 1 .. Len(w), x \in S : v = Replaced(w, i, x)
  BY <1>2, <1>5 DEF IsReplacement
<1>. QED
  BY <1>1, <1>3, <1>4, <1>5

\* Two words with the same letters are one.
LEMMA SameLetters ==
  ASSUME NEW S, NEW v \in Seq(S), NEW w \in Seq(S), Len(v) = Len(w),
         \A i \in 1 .. Len(v) : v[i] = w[i]
  PROVE  v = w
BY SeqEqual

\* An edit of a word that goes on by a letter, in terms of the edits of the
\* word.
LEMMA DeletedFromLonger ==
  ASSUME NEW S, NEW u \in Seq(S), NEW c \in S
  PROVE  /\ Deleted(Append(u, c), Len(u) + 1) = u
         /\ \A i \in 1 .. Len(u) : Deleted(Append(u, c), i) = Append(Deleted(u, i), c)
<1>. DEFINE w == Append(u, c)
<1>1. /\ w \in Seq(S) /\ Len(w) = Len(u) + 1 /\ Len(u) \in Nat /\ w[Len(u) + 1] = c
      /\ \A k \in 1 .. Len(u) : w[k] = u[k]
  BY AppendIs
<1>. HIDE DEF w
<1>2. ASSUME NEW v, IsDeletion(v, w, Len(u) + 1, S) PROVE v = u
  <2>1. v \in Seq(S) /\ Len(v) = Len(u) /\ \A k \in 1 .. Len(v) : v[k] = u[k]
    BY <1>1, <1>2 DEF IsDeletion
  <2>. QED
    BY <2>1, SameLetters
<1>3. ASSUME NEW i \in 1 .. Len(u), NEW v, NEW t, IsDeletion(v, w, i, S), IsDeletion(t, u, i, S)
      PROVE  v = Append(t, c)
  <2>. DEFINE r == Append(t, c)
  <2>1. /\ v \in Seq(S) /\ Len(v) = Len(u)
        /\ \A k \in 1 .. i - 1 : v[k] = w[k]
        /\ \A k \in i .. Len(u) : v[k] = w[k + 1]
    BY <1>1, <1>3 DEF IsDeletion
  <2>2. /\ t \in Seq(S) /\ Len(t) = Len(u) - 1
        /\ \A k \in 1 .. i - 1 : t[k] = u[k]
        /\ \A k \in i .. Len(u) - 1 : t[k] = u[k + 1]
    BY <1>3 DEF IsDeletion
  <2>3. /\ r \in Seq(S) /\ Len(r) = Len(t) + 1 /\ r[Len(t) + 1] = c
        /\ \A k \in 1 .. Len(t) : r[k] = t[k]
    BY <2>2, AppendIs
  <2>. HIDE DEF r
  <2>4. /\ r \in Seq(S) /\ Len(r) = Len(u) /\ r[Len(u)] = c
        /\ \A k \in 1 .. Len(u) - 1 : r[k] = t[k]
    BY <1>1, <2>2, <2>3
  <2>5. ASSUME NEW k \in 1 .. Len(u) PROVE v[k] = r[k]
    <3>1. CASE k < i
      <4>1. k \in 1 .. i - 1 /\ k \in 1 .. Len(u) - 1
        BY <1>1, <3>1
      <4>. QED
        BY <1>1, <2>1, <2>2, <2>4, <4>1
    <3>2. CASE k >= i /\ k # Len(u)
      <4>1. /\ k \in i .. Len(u) - 1 /\ k \in 1 .. Len(u) - 1 /\ k \in i .. Len(u)
            /\ k + 1 \in 1 .. Len(u)
        BY <1>1, <3>2
      <4>. QED
        BY <1>1, <2>1, <2>2, <2>4, <4>1
    <3>3. CASE k = Len(u)
      BY <1>1, <2>1, <2>4, <3>3
    <3>. QED
      BY <1>1, <3>1, <3>2, <3>3
  <2>6. v = r
    BY <2>1, <2>4, <2>5, SameLetters
  <2>. QED
    BY <2>6 DEF r
<1>4. \A i \in 1 .. Len(u) + 1 : IsDeletion(Deleted(w, i), w, i, S)
  BY <1>1, DeletedIs
<1>5. \A i \in 1 .. Len(u) : IsDeletion(Deleted(u, i), u, i, S)
  BY DeletedIs
<1>6. Deleted(w, Len(u) + 1) = u
  <2>1. Len(u) + 1 \in 1 .. Len(u) + 1
    BY <1>1
  <2>. QED
    BY <1>2, <1>4, <2>1
<1>7. ASSUME NEW i \in 1 .. Len(u) PROVE Deleted(w, i) = Append(Deleted(u, i), c)
  <2>1. i \in 1 .. Len(u) + 1
    BY <1>1
  <2>. QED
    BY <1>3, <1>4, <1>5, <2>1
<1>. QED
  BY <1>6, <1>7 DEF w

LEMMA InsertedInLonger ==
  ASSUME NEW S, NEW u \in Seq(S), NEW c \in S, NEW x \in S
  PROVE  /\ Inserted(Append(u, c), Len(u) + 1, x) = Append(Append(u, c), x)
         /\ \A i \in 0 .. Len(u) : Inserted(Append(u, c), i, x) = Append(Inserted(u, i, x), c)
<1>. DEFINE w == Append(u, c)
<1>1. /\ w \in Seq(S) /\ Len(w) = Len(u) + 1 /\ Len(u) \in Nat /\ w[Len(u) + 1] = c
      /\ \A k \in 1 .. Len(u) : w[k] = u[k]
  BY AppendIs
<1>. HIDE DEF w
<1>2. ASSUME NEW v, IsInsertion(v, w, Len(u) + 1, x, S) PROVE v = Append(w, x)
  <2>. DEFINE r == Append(w, x)
  <2>1. /\ v \in Seq(S) /\ Len(v) = Len(w) + 1 /\ v[Len(w) + 1] = x
        /\ \A k \in 1 .. Len(w) : v[k] = w[k]
    BY <1>1, <1>2 DEF IsInsertion
  <2>2. /\ r \in Seq(S) /\ Len(r) = Len(w) + 1 /\ r[Len(w) + 1] = x
        /\ \A k \in 1 .. Len(w) : r[k] = w[k]
    BY <1>1, AppendIs
  <2>. HIDE DEF r
  <2>3. Len(v) = Len(r) /\ \A k \in 1 .. Len(v) : v[k] = r[k]
    BY <1>1, <2>1, <2>2
  <2>4. v = r
    BY <2>1, <2>2, <2>3, SameLetters
  <2>. QED
    BY <2>4 DEF r
<1>3. ASSUME NEW i \in 0 .. Len(u), NEW v, NEW t,
             IsInsertion(v, w, i, x, S), IsInsertion(t, u, i, x, S)
      PROVE  v = Append(t, c)
  <2>. DEFINE r == Append(t, c)
  <2>1. /\ v \in Seq(S) /\ Len(v) = Len(u) + 2 /\ v[i + 1] = x
        /\ \A k \in 1 .. i : v[k] = w[k]
        /\ \A k \in i + 2 .. Len(u) + 2 : v[k] = w[k - 1]
    BY <1>1, <1>3 DEF IsInsertion
  <2>2. /\ t \in Seq(S) /\ Len(t) = Len(u) + 1 /\ t[i + 1] = x
        /\ \A k \in 1 .. i : t[k] = u[k]
        /\ \A k \in i + 2 .. Len(u) + 1 : t[k] = u[k - 1]
    BY <1>3 DEF IsInsertion
  <2>3. /\ r \in Seq(S) /\ Len(r) = Len(t) + 1 /\ r[Len(t) + 1] = c
        /\ \A k \in 1 .. Len(t) : r[k] = t[k]
    BY <2>2, AppendIs
  <2>. HIDE DEF r
  <2>4. /\ r \in Seq(S) /\ Len(r) = Len(u) + 2 /\ r[Len(u) + 2] = c
        /\ \A k \in 1 .. Len(u) + 1 : r[k] = t[k]
    BY <1>1, <2>2, <2>3
  <2>5. ASSUME NEW k \in 1 .. Len(u) + 2 PROVE v[k] = r[k]
    <3>1. CASE k <= i
      <4>1. k \in 1 .. i /\ k \in 1 .. Len(u) /\ k \in 1 .. Len(u) + 1
        BY <1>1, <3>1
      <4>. QED
        BY <1>1, <2>1, <2>2, <2>4, <4>1
    <3>2. CASE k = i + 1
      <4>1. k \in 1 .. Len(u) + 1
        BY <1>1, <3>2
      <4>. QED
        BY <2>1, <2>2, <2>4, <3>2, <4>1
    <3>3. CASE k > i + 1 /\ k # Len(u) + 2
      <4>1. /\ k - 1 \in 1 .. Len(u) /\ k \in 1 .. Len(u) + 1 /\ k \in i + 2 .. Len(u) + 2
            /\ k \in i + 2 .. Len(u) + 1
        <5>. DEFINE n == Len(u)
        <5>1. n \in Nat /\ i \in 0 .. n /\ k \in 1 .. n + 2 /\ k > i + 1 /\ k # n + 2
          BY <1>1, <3>3
        <5>. HIDE DEF n
        <5>2. /\ k - 1 \in 1 .. n /\ k \in 1 .. n + 1 /\ k \in i + 2 .. n + 2
              /\ k \in i + 2 .. n + 1
          BY <5>1
        <5>. QED
          BY <5>2 DEF n
      <4>2. v[k] = w[k - 1]
        BY <2>1, <4>1
      <4>3. w[k - 1] = u[k - 1]
        BY <1>1, <4>1
      <4>4. t[k] = u[k - 1]
        BY <2>2, <4>1
      <4>5. r[k] = t[k]
        BY <2>4, <4>1
      <4>. QED
        BY <4>2, <4>3, <4>4, <4>5
    <3>4. CASE k = Len(u) + 2
      <4>1. k \in i + 2 .. Len(u) + 2 /\ k - 1 = Len(u) + 1
        BY <1>1, <3>4
      <4>. QED
        BY <1>1, <2>1, <2>4, <3>4, <4>1
    <3>. QED
      BY <1>1, <3>1, <3>2, <3>3, <3>4
  <2>6. v = r
    BY <2>1, <2>4, <2>5, SameLetters
  <2>. QED
    BY <2>6 DEF r
<1>4. \A i \in 0 .. Len(u) + 1 : IsInsertion(Inserted(w, i, x), w, i, x, S)
  BY <1>1, InsertedIs
<1>5. \A i \in 0 .. Len(u) : IsInsertion(Inserted(u, i, x), u, i, x, S)
  BY InsertedIs
<1>6. Inserted(w, Len(u) + 1, x) = Append(w, x)
  <2>1. Len(u) + 1 \in 0 .. Len(u) + 1
    BY <1>1
  <2>. QED
    BY <1>2, <1>4, <2>1
<1>7. ASSUME NEW i \in 0 .. Len(u) PROVE Inserted(w, i, x) = Append(Inserted(u, i, x), c)
  <2>1. i \in 0 .. Len(u) + 1
    BY <1>1
  <2>. QED
    BY <1>3, <1>4, <1>5, <2>1
<1>. QED
  BY <1>6, <1>7 DEF w

LEMMA ReplacedInLonger ==
  ASSUME NEW S, NEW u \in Seq(S), NEW c \in S, NEW x \in S
  PROVE  /\ Replaced(Append(u, c), Len(u) + 1, x) = Append(u, x)
         /\ \A i \in 1 .. Len(u) : Replaced(Append(u, c), i, x) = Append(Replaced(u, i, x), c)
<1>. DEFINE w == Append(u, c)
<1>1. /\ w \in Seq(S) /\ Len(w) = Len(u) + 1 /\ Len(u) \in Nat /\ w[Len(u) + 1] = c
      /\ \A k \in 1 .. Len(u) : w[k] = u[k]
  BY AppendIs
<1>. HIDE DEF w
<1>2. ASSUME NEW v, IsReplacement(v, w, Len(u) + 1, x, S) PROVE v = Append(u, x)
  <2>. DEFINE r == Append(u, x)
  <2>1. /\ v \in Seq(S) /\ Len(v) = Len(u) + 1 /\ v[Len(u) + 1] = x
        /\ \A k \in 1 .. Len(u) : v[k] = u[k]
    BY <1>1, <1>2 DEF IsReplacement
  <2>2. /\ r \in Seq(S) /\ Len(r) = Len(u) + 1 /\ r[Len(u) + 1] = x
        /\ \A k \in 1 .. Len(u) : r[k] = u[k]
    BY AppendIs
  <2>. HIDE DEF r
  <2>3. Len(v) = Len(r) /\ \A k \in 1 .. Len(v) : v[k] = r[k]
    BY <1>1, <2>1, <2>2
  <2>4. v = r
    BY <2>1, <2>2, <2>3, SameLetters
  <2>. QED
    BY <2>4 DEF r
<1>3. ASSUME NEW i \in 1 .. Len(u), NEW v, NEW t,
             IsReplacement(v, w, i, x, S), IsReplacement(t, u, i, x, S)
      PROVE  v = Append(t, c)
  <2>. DEFINE r == Append(t, c)
  <2>1. /\ v \in Seq(S) /\ Len(v) = Len(u) + 1 /\ v[i] = x
        /\ \A k \in 1 .. Len(u) + 1 : k # i => v[k] = w[k]
    BY <1>1, <1>3 DEF IsReplacement
  <2>2. /\ t \in Seq(S) /\ Len(t) = Len(u) /\ t[i] = x
        /\ \A k \in 1 .. Len(u) : k # i => t[k] = u[k]
    BY <1>3 DEF IsReplacement
  <2>3. /\ r \in Seq(S) /\ Len(r) = Len(u) + 1 /\ r[Len(u) + 1] = c
        /\ \A k \in 1 .. Len(u) : r[k] = t[k]
    <3>1. /\ r \in Seq(S) /\ Len(r) = Len(t) + 1 /\ r[Len(t) + 1] = c
          /\ \A k \in 1 .. Len(t) : r[k] = t[k]
      BY <2>2, AppendIs
    <3>. HIDE DEF r
    <3>. QED
      BY <2>2, <3>1
  <2>. HIDE DEF r
  <2>4. ASSUME NEW k \in 1 .. Len(u) + 1 PROVE v[k] = r[k]
    <3>1. CASE k = i
      BY <2>1, <2>2, <2>3, <3>1
    <3>2. CASE k # i /\ k # Len(u) + 1
      <4>1. k \in 1 .. Len(u)
        BY <1>1, <3>2
      <4>. QED
        BY <1>1, <2>1, <2>2, <2>3, <3>2, <4>1
    <3>3. CASE k # i /\ k = Len(u) + 1
      BY <1>1, <2>1, <2>3, <3>3
    <3>. QED
      BY <3>1, <3>2, <3>3
  <2>5. v = r
    BY <2>1, <2>3, <2>4, SameLetters
  <2>. QED
    BY <2>5 DEF r
<1>4. \A i \in 1 .. Len(u) + 1 : IsReplacement(Replaced(w, i, x), w, i, x, S)
  BY <1>1, ReplacedIs
<1>5. \A i \in 1 .. Len(u) : IsReplacement(Replaced(u, i, x), u, i, x, S)
  BY ReplacedIs
<1>6. Replaced(w, Len(u) + 1, x) = Append(u, x)
  <2>1. Len(u) + 1 \in 1 .. Len(u) + 1
    BY <1>1
  <2>. QED
    BY <1>2, <1>4, <2>1
<1>7. ASSUME NEW i \in 1 .. Len(u) PROVE Replaced(w, i, x) = Append(Replaced(u, i, x), c)
  <2>1. i \in 1 .. Len(u) + 1
    BY <1>1
  <2>. QED
    BY <1>3, <1>4, <1>5, <2>1
<1>. QED
  BY <1>6, <1>7 DEF w

\* The edits of a longer word are those of the shorter one, and those at its end.
LEMMA EditsOfLonger ==
  ASSUME NEW S, Marks \subseteq S, NEW u \in Seq(S), NEW c \in S, NEW v
  PROVE  v \in OneEdit(Append(u, c)) <=>
           \/ v = u
           \/ \E x \in Marks : v = Append(Append(u, c), x)
           \/ \E x \in Marks : v = Append(u, x)
           \/ \E s \in OneEdit(u) : v = Append(s, c)
<1>. DEFINE w == Append(u, c)
<1>1. Len(w) = Len(u) + 1 /\ Len(u) \in Nat /\ w \in Seq(S)
  BY AppendIs
<1>2. /\ Deleted(w, Len(u) + 1) = u
      /\ \A i \in 1 .. Len(u) : Deleted(w, i) = Append(Deleted(u, i), c)
  BY DeletedFromLonger
<1>3. \A x \in Marks : /\ Inserted(w, Len(u) + 1, x) = Append(w, x)
                       /\ \A i \in 0 .. Len(u) : Inserted(w, i, x) = Append(Inserted(u, i, x), c)
  BY InsertedInLonger
<1>4. \A x \in Marks : /\ Replaced(w, Len(u) + 1, x) = Append(u, x)
                       /\ \A i \in 1 .. Len(u) : Replaced(w, i, x) = Append(Replaced(u, i, x), c)
  BY ReplacedInLonger
<1>. HIDE DEF w
<1>5. v \in OneEdit(w) <=>
        \/ \E i \in 1 .. Len(u) + 1 : v = Deleted(w, i)
        \/ \E i \in 0 .. Len(u) + 1, x \in Marks : v = Inserted(w, i, x)
        \/ \E i \in 1 .. Len(u) + 1, x \in Marks : v = Replaced(w, i, x)
  BY <1>1, OneEditIs
<1>6. \A s : s \in OneEdit(u) <=>
        \/ \E i \in 1 .. Len(u) : s = Deleted(u, i)
        \/ \E i \in 0 .. Len(u), x \in Marks : s = Inserted(u, i, x)
        \/ \E i \in 1 .. Len(u), x \in Marks : s = Replaced(u, i, x)
  BY OneEditIs
<1>7. ASSUME v \in OneEdit(w)
      PROVE  \/ v = u
             \/ \E x \in Marks : v = Append(w, x)
             \/ \E x \in Marks : v = Append(u, x)
             \/ \E s \in OneEdit(u) : v = Append(s, c)
  <2>1. ASSUME NEW i \in 1 .. Len(u) + 1, v = Deleted(w, i)
        PROVE  v = u \/ \E s \in OneEdit(u) : v = Append(s, c)
    <3>1. CASE i = Len(u) + 1
      BY <1>2, <2>1, <3>1
    <3>2. CASE i # Len(u) + 1
      <4>1. i \in 1 .. Len(u)
        BY <1>1, <3>2
      <4>2. Deleted(u, i) \in OneEdit(u) /\ v = Append(Deleted(u, i), c)
        BY <1>2, <1>6, <2>1, <4>1
      <4>. QED
        BY <4>2
    <3>. QED
      BY <3>1, <3>2
  <2>2. ASSUME NEW i \in 0 .. Len(u) + 1, NEW x \in Marks, v = Inserted(w, i, x)
        PROVE  v = Append(w, x) \/ \E s \in OneEdit(u) : v = Append(s, c)
    <3>1. CASE i = Len(u) + 1
      BY <1>3, <2>2, <3>1
    <3>2. CASE i # Len(u) + 1
      <4>1. i \in 0 .. Len(u)
        BY <1>1, <3>2
      <4>2. Inserted(u, i, x) \in OneEdit(u) /\ v = Append(Inserted(u, i, x), c)
        BY <1>3, <1>6, <2>2, <4>1
      <4>. QED
        BY <4>2
    <3>. QED
      BY <3>1, <3>2
  <2>3. ASSUME NEW i \in 1 .. Len(u) + 1, NEW x \in Marks, v = Replaced(w, i, x)
        PROVE  v = Append(u, x) \/ \E s \in OneEdit(u) : v = Append(s, c)
    <3>1. CASE i = Len(u) + 1
      BY <1>4, <2>3, <3>1
    <3>2. CASE i # Len(u) + 1
      <4>1. i \in 1 .. Len(u)
        BY <1>1, <3>2
      <4>2. Replaced(u, i, x) \in OneEdit(u) /\ v = Append(Replaced(u, i, x), c)
        BY <1>4, <1>6, <2>3, <4>1
      <4>. QED
        BY <4>2
    <3>. QED
      BY <3>1, <3>2
  <2>4. \/ \E i \in 1 .. Len(u) + 1 : v = Deleted(w, i)
        \/ \E i \in 0 .. Len(u) + 1, x \in Marks : v = Inserted(w, i, x)
        \/ \E i \in 1 .. Len(u) + 1, x \in Marks : v = Replaced(w, i, x)
    BY <1>5, <1>7
  <2>. QED
    BY <2>1, <2>2, <2>3, <2>4
<1>8. /\ 1 \in 1 .. Len(u) + 1 /\ Len(u) + 1 \in 1 .. Len(u) + 1 /\ Len(u) + 1 \in 0 .. Len(u) + 1
      /\ \A i \in 1 .. Len(u) : i \in 1 .. Len(u) + 1
      /\ \A i \in 0 .. Len(u) : i \in 0 .. Len(u) + 1
  BY <1>1
<1>9. v = u => v \in OneEdit(w)
  BY <1>2, <1>5, <1>8
<1>10. ASSUME NEW x \in Marks, v = Append(w, x) PROVE v \in OneEdit(w)
  BY <1>3, <1>5, <1>8, <1>10
<1>11. ASSUME NEW x \in Marks, v = Append(u, x) PROVE v \in OneEdit(w)
  BY <1>4, <1>5, <1>8, <1>11
<1>12. ASSUME NEW s \in OneEdit(u), v = Append(s, c) PROVE v \in OneEdit(w)
  <2>1. \/ \E i \in 1 .. Len(u) : s = Deleted(u, i)
        \/ \E i \in 0 .. Len(u), x \in Marks : s = Inserted(u, i, x)
        \/ \E i \in 1 .. Len(u), x \in Marks : s = Replaced(u, i, x)
    BY <1>6, <1>12
  <2>2. \/ \E i \in 1 .. Len(u) : v = Deleted(w, i)
        \/ \E i \in 0 .. Len(u), x \in Marks : v = Inserted(w, i, x)
        \/ \E i \in 1 .. Len(u), x \in Marks : v = Replaced(w, i, x)
    BY <1>2, <1>3, <1>4, <1>12, <2>1
  <2>. QED
    BY <1>5, <1>8, <2>2
<1>. QED
  BY <1>7, <1>9, <1>10, <1>11, <1>12 DEF w

LEMMA EditsOfNothing ==
  ASSUME NEW w \in Seq(Marks), Len(w) = 0
  PROVE  /\ \A v \in OneEdit(w) : \E x \in Marks : v = Append(w, x)
         /\ \A x \in Marks : Append(w, x) \in OneEdit(w)
<1>1. \A v : v \in OneEdit(w) <=> \E x \in Marks : v = Inserted(w, 0, x)
  <2>1. \A v : v \in OneEdit(w) <=>
          \/ \E i \in 1 .. Len(w) : v = Deleted(w, i)
          \/ \E i \in 0 .. Len(w), x \in Marks : v = Inserted(w, i, x)
          \/ \E i \in 1 .. Len(w), x \in Marks : v = Replaced(w, i, x)
    BY OneEditIs
  <2>2. 1 .. Len(w) = {} /\ 0 .. Len(w) = {0}
    OBVIOUS
  <2>. QED
    BY <2>1, <2>2
<1>2. ASSUME NEW x \in Marks PROVE Inserted(w, 0, x) = Append(w, x)
  <2>1. 0 \in 0 .. Len(w)
    OBVIOUS
  <2>2. IsInsertion(Inserted(w, 0, x), w, 0, x, Marks)
    BY <2>1, InsertedIs
  <2>3. ASSUME NEW v, IsInsertion(v, w, 0, x, Marks) PROVE v = Append(w, x)
    <3>. DEFINE r == Append(w, x)
    <3>1. v \in Seq(Marks) /\ Len(v) = 1 /\ v[1] = x
      BY <2>3 DEF IsInsertion
    <3>2. r \in Seq(Marks) /\ Len(r) = 1 /\ r[1] = x
      OBVIOUS
    <3>. HIDE DEF r
    <3>3. v = r
      BY <3>1, <3>2, SameLetters
    <3>. QED
      BY <3>3 DEF r
  <2>. QED
    BY <2>2, <2>3
<1>. QED
  BY <1>1, <1>2

-----------------------------------------------------------------------------
(* The distance is the number of edits                                       *)

LEMMA DistanceFromEmpty ==
  ASSUME NEW S, NEW a \in Seq(S), NEW b \in Seq(S)
  PROVE  /\ Levenshtein(a, b) \in Nat
         /\ a = <<>> => Levenshtein(a, b) = Len(b)
         /\ b = <<>> => Levenshtein(a, b) = Len(a)
<1>1. Len(a) \in Nat /\ Len(b) \in Nat /\ (a = <<>> => Len(a) = 0) /\ (b = <<>> => Len(b) = 0)
  OBVIOUS
<1>. QED
  BY <1>1, DistanceIsNat, DistanceOfNothing

\* An edit brings a word at most one nearer to another.
Nears(u, b) == \E v \in OneEdit(u) : ~ (Levenshtein(u, b) <= Levenshtein(v, b) + 1)

\* Undoing an edit costs one: the last letter inserted,
LEMMA EndInserted ==
  ASSUME NEW S, NEW u \in Seq(S), NEW b \in Seq(S), NEW x \in S,
         \A d \in Seq(S), y \in S :
           b = Append(d, y) => Levenshtein(u, d) <= Levenshtein(Append(u, x), d) + 1
  PROVE  Levenshtein(u, b) <= Levenshtein(Append(u, x), b) + 1
<1>. DEFINE v == Append(u, x)
<1>1. v \in Seq(S) /\ Len(v) = Len(u) + 1 /\ Len(u) \in Nat
  BY AppendIs
<1>2. CASE b = <<>>
  <2>1. Levenshtein(u, b) = Len(u)
    BY <1>2, DistanceFromEmpty
  <2>2. \A s \in Seq(S) : Levenshtein(s, b) = Len(s)
    BY <1>2, DistanceFromEmpty
  <2>. HIDE DEF v
  <2>3. Levenshtein(v, b) = Len(u) + 1
    BY <1>1, <2>2
  <2>4. Levenshtein(u, b) <= Levenshtein(v, b) + 1
    BY <1>1, <2>1, <2>3
  <2>. QED
    BY <2>4 DEF v
<1>3. ASSUME NEW d \in Seq(S), NEW y \in S, b = Append(d, y)
      PROVE  Levenshtein(u, b) <= Levenshtein(v, b) + 1
  <2>1. /\ Levenshtein(v, b) \in Nat /\ Levenshtein(u, b) \in Nat /\ Levenshtein(v, d) \in Nat
        /\ Levenshtein(u, d) \in Nat
        /\ \/ Levenshtein(v, b) = Levenshtein(u, b) + 1
           \/ Levenshtein(v, b) = Levenshtein(v, d) + 1
           \/ Levenshtein(v, b) = Levenshtein(u, d)
           \/ Levenshtein(v, b) = Levenshtein(u, d) + 1
    BY <1>3, DistanceOfLonger
  <2>2. Levenshtein(u, b) <= Levenshtein(u, d) + 1
    BY <1>3, OneLetterMore
  <2>3. Levenshtein(u, d) <= Levenshtein(v, d) + 1
    BY <1>3
  <2>. HIDE DEF v
  <2>. QED
    BY <2>1, <2>2, <2>3
<1>. QED
  BY <1>2, <1>3, WordParts

\* the last letter replaced,
LEMMA EndReplaced ==
  ASSUME NEW S, NEW u \in Seq(S), NEW b \in Seq(S), NEW c \in S, NEW x \in S,
         \A d \in Seq(S), y \in S :
           b = Append(d, y) => Levenshtein(Append(u, c), d) <= Levenshtein(Append(u, x), d) + 1
  PROVE  Levenshtein(Append(u, c), b) <= Levenshtein(Append(u, x), b) + 1
<1>. DEFINE w == Append(u, c)
            v == Append(u, x)
<1>1. /\ v \in Seq(S) /\ Len(v) = Len(u) + 1 /\ Len(u) \in Nat
      /\ w \in Seq(S) /\ Len(w) = Len(u) + 1
  BY AppendIs
<1>2. CASE b = <<>>
  <2>1. \A s \in Seq(S) : Levenshtein(s, b) = Len(s)
    BY <1>2, DistanceFromEmpty
  <2>. HIDE DEF v, w
  <2>2. Levenshtein(w, b) <= Levenshtein(v, b) + 1
    BY <1>1, <2>1
  <2>. QED
    BY <2>2 DEF v, w
<1>3. ASSUME NEW d \in Seq(S), NEW y \in S, b = Append(d, y)
      PROVE  Levenshtein(w, b) <= Levenshtein(v, b) + 1
  <2>1. /\ Levenshtein(v, b) \in Nat /\ Levenshtein(u, b) \in Nat /\ Levenshtein(v, d) \in Nat
        /\ Levenshtein(u, d) \in Nat
        /\ \/ Levenshtein(v, b) = Levenshtein(u, b) + 1
           \/ Levenshtein(v, b) = Levenshtein(v, d) + 1
           \/ Levenshtein(v, b) = Levenshtein(u, d)
           \/ Levenshtein(v, b) = Levenshtein(u, d) + 1
    BY <1>3, DistanceOfLonger
  <2>2. /\ Levenshtein(w, b) \in Nat /\ Levenshtein(w, d) \in Nat
        /\ Levenshtein(w, b) <= Levenshtein(u, b) + 1
        /\ Levenshtein(w, b) <= Levenshtein(w, d) + 1
        /\ Levenshtein(w, b) <= Levenshtein(u, d) + 1
    BY <1>3, DistanceOfLonger
  <2>3. Levenshtein(w, d) <= Levenshtein(v, d) + 1
    BY <1>3
  <2>. HIDE DEF v, w
  <2>. QED
    BY <2>1, <2>2, <2>3
<1>. QED
  BY <1>2, <1>3, WordParts

\* or what is before the last letter edited.
LEMMA BeginningEdited ==
  ASSUME NEW S, NEW u \in Seq(S), NEW s \in Seq(S), NEW b \in Seq(S), NEW c \in S,
         Levenshtein(u, b) <= Levenshtein(s, b) + 1,
         \A d \in Seq(S), y \in S :
           b = Append(d, y) =>
             /\ Levenshtein(u, d) <= Levenshtein(s, d) + 1
             /\ Levenshtein(Append(u, c), d) <= Levenshtein(Append(s, c), d) + 1
  PROVE  Levenshtein(Append(u, c), b) <= Levenshtein(Append(s, c), b) + 1
<1>. DEFINE w == Append(u, c)
            v == Append(s, c)
<1>1. /\ v \in Seq(S) /\ Len(v) = Len(s) + 1 /\ Len(s) \in Nat
      /\ w \in Seq(S) /\ Len(w) = Len(u) + 1 /\ Len(u) \in Nat
  BY AppendIs
<1>2. CASE b = <<>>
  <2>1. \A r \in Seq(S) : Levenshtein(r, b) = Len(r)
    BY <1>2, DistanceFromEmpty
  <2>. HIDE DEF v, w
  <2>2. Levenshtein(w, b) <= Levenshtein(v, b) + 1
    BY <1>1, <2>1
  <2>. QED
    BY <2>2 DEF v, w
<1>3. ASSUME NEW d \in Seq(S), NEW y \in S, b = Append(d, y)
      PROVE  Levenshtein(w, b) <= Levenshtein(v, b) + 1
  <2>1. /\ Levenshtein(v, b) \in Nat /\ Levenshtein(s, b) \in Nat /\ Levenshtein(v, d) \in Nat
        /\ Levenshtein(s, d) \in Nat
        /\ \/ Levenshtein(v, b) = Levenshtein(s, b) + 1
           \/ Levenshtein(v, b) = Levenshtein(v, d) + 1
           \/ c = y /\ Levenshtein(v, b) = Levenshtein(s, d)
           \/ c # y /\ Levenshtein(v, b) = Levenshtein(s, d) + 1
    BY <1>3, DistanceOfLonger
  <2>2. /\ Levenshtein(w, b) \in Nat /\ Levenshtein(w, d) \in Nat
        /\ Levenshtein(u, b) \in Nat /\ Levenshtein(u, d) \in Nat
        /\ Levenshtein(w, b) <= Levenshtein(u, b) + 1
        /\ Levenshtein(w, b) <= Levenshtein(w, d) + 1
        /\ Levenshtein(w, b) <= Levenshtein(u, d) + 1
        /\ c = y => Levenshtein(w, b) <= Levenshtein(u, d)
    BY <1>3, DistanceOfLonger
  <2>3. /\ Levenshtein(w, d) <= Levenshtein(v, d) + 1
        /\ Levenshtein(u, d) <= Levenshtein(s, d) + 1
    BY <1>3
  <2>. HIDE DEF v, w
  <2>4. Levenshtein(u, b) <= Levenshtein(s, b) + 1
    OBVIOUS
  <2>. DEFINE wb == Levenshtein(w, b)
              vb == Levenshtein(v, b)
              ub == Levenshtein(u, b)
              sb == Levenshtein(s, b)
              wd == Levenshtein(w, d)
              vd == Levenshtein(v, d)
              ud == Levenshtein(u, d)
              sd == Levenshtein(s, d)
  <2>5. /\ wb \in Nat /\ vb \in Nat /\ ub \in Nat /\ sb \in Nat
        /\ wd \in Nat /\ vd \in Nat /\ ud \in Nat /\ sd \in Nat
        /\ ub <= sb + 1 /\ wd <= vd + 1 /\ ud <= sd + 1
        /\ wb <= ub + 1 /\ wb <= wd + 1 /\ wb <= ud + 1
    BY <2>1, <2>2, <2>3, <2>4
  <2>6. \/ vb = sb + 1 \/ vb = vd + 1 \/ vb = sd + 1
        \/ vb = sd /\ wb <= ud
    BY <2>1, <2>2
  <2>. HIDE DEF wb, vb, ub, sb, wd, vd, ud, sd
  <2>7. wb <= vb + 1
    BY <2>5, <2>6
  <2>. QED
    BY <2>7 DEF wb, vb
<1>. QED
  BY <1>2, <1>3, WordParts

\* One edit changes the distance to any word by one at most.
LEMMA EditIsOneStep ==
  ASSUME NEW S, Marks \subseteq S, NEW a \in Seq(S), NEW b \in Seq(S), NEW v \in OneEdit(a)
  PROVE  Levenshtein(a, b) <= Levenshtein(v, b) + 1
<1>. DEFINE Fails == {n \in Nat : \E u \in Seq(S), d \in Seq(S) : n = Len(u) + Len(d) /\ Nears(u, d)}
<1>1. SUFFICES ASSUME Fails # {} PROVE FALSE
  <2>1. Len(a) + Len(b) \in Nat
    OBVIOUS
  <2>2. Fails = {} => ~ Nears(a, b)
    BY <2>1
  <2>. QED
    BY <2>2 DEF Nears
<1>2. PICK n \in Fails : \A m \in Fails : n <= m
  <2>1. Fails \subseteq Nat
    OBVIOUS
  <2>. HIDE DEF Fails
  <2>. QED
    BY <1>1, <2>1, SmallestExists
<1>3. PICK w \in Seq(S), e \in Seq(S) : n = Len(w) + Len(e) /\ Nears(w, e)
  BY <1>2
<1>4. ASSUME NEW p \in Seq(S), NEW q \in Seq(S), Len(p) + Len(q) < Len(w) + Len(e),
             NEW r \in OneEdit(p)
      PROVE  Levenshtein(p, q) <= Levenshtein(r, q) + 1
  <2>1. n \in Nat /\ Len(p) + Len(q) \in Nat
    BY <1>2
  <2>2. Len(p) + Len(q) \notin Fails
    <3>. HIDE DEF Fails
    <3>. QED
      BY <1>2, <1>3, <1>4, <2>1
  <2>3. ~ Nears(p, q)
    BY <2>1, <2>2
  <2>. QED
    BY <1>4, <2>3 DEF Nears
<1>. HIDE DEF Fails
<1>5. PICK r \in OneEdit(w) : ~ (Levenshtein(w, e) <= Levenshtein(r, e) + 1)
  BY <1>3 DEF Nears
<1>6. ASSUME NEW d \in Seq(S), NEW y \in S, e = Append(d, y)
      PROVE  Len(e) = Len(d) + 1 /\ Levenshtein(w, d) <= Levenshtein(r, d) + 1
  <2>1. Len(e) = Len(d) + 1 /\ Len(d) \in Nat /\ Len(w) \in Nat
    BY <1>6, AppendIs
  <2>. QED
    BY <1>4, <2>1
<1>7. ASSUME NEW x \in Marks, r = Append(w, x) PROVE FALSE
  BY <1>5, <1>6, <1>7, EndInserted
<1>8. CASE w = <<>>
  <2>1. w \in Seq(Marks) /\ Len(w) = 0
    BY <1>8
  <2>2. \E x \in Marks : r = Append(w, x)
    BY <2>1, EditsOfNothing
  <2>. QED
    BY <1>7, <2>2
<1>9. ASSUME NEW u \in Seq(S), NEW c \in S, w = Append(u, c) PROVE FALSE
  <2>1. \/ r = u
        \/ \E x \in Marks : r = Append(w, x)
        \/ \E x \in Marks : r = Append(u, x)
        \/ \E s \in OneEdit(u) : r = Append(s, c)
    <3>1. r \in OneEdit(Append(u, c))
      BY <1>9
    <3>2. \/ r = u
          \/ \E x \in Marks : r = Append(Append(u, c), x)
          \/ \E x \in Marks : r = Append(u, x)
          \/ \E s \in OneEdit(u) : r = Append(s, c)
      BY <3>1, EditsOfLonger
    <3>. QED
      BY <1>9, <3>2
  <2>2. CASE r = u
    BY <1>5, <1>9, <2>2, OneLetterMore
  <2>3. ASSUME NEW x \in Marks, r = Append(u, x) PROVE FALSE
    <3>1. x \in S
      OBVIOUS
    <3>. QED
      BY <1>5, <1>6, <1>9, <2>3, <3>1, EndReplaced
  <2>4. ASSUME NEW s \in OneEdit(u), r = Append(s, c) PROVE FALSE
    <3>1. s \in Seq(S)
      BY EditsAreWords
    <3>2. Len(w) = Len(u) + 1 /\ Len(u) \in Nat /\ Len(e) \in Nat
      BY <1>9, AppendIs
    <3>3. Levenshtein(u, e) <= Levenshtein(s, e) + 1
      BY <1>4, <3>2
    <3>4. ASSUME NEW d \in Seq(S), NEW y \in S, e = Append(d, y)
          PROVE  Levenshtein(u, d) <= Levenshtein(s, d) + 1
      <4>1. Len(e) = Len(d) + 1 /\ Len(d) \in Nat
        BY <1>6, <3>4
      <4>. QED
        BY <1>4, <3>2, <4>1
    <3>5. Levenshtein(w, e) <= Levenshtein(r, e) + 1
      BY <1>6, <1>9, <2>4, <3>1, <3>3, <3>4, BeginningEdited
    <3>. QED
      BY <1>5, <3>5
  <2>. QED
    BY <1>7, <2>1, <2>2, <2>3, <2>4
<1>. QED
  BY <1>8, <1>9, WordParts

\* What the empty word has, and one letter more does not lose, every word has.
LEMMA WordByWord ==
  ASSUME NEW S, NEW P, <<>> \in P, \A u \in Seq(S), x \in S : u \in P => Append(u, x) \in P
  PROVE  \A w \in Seq(S) : w \in P
<1>. DEFINE Fails == {n \in Nat : \E w \in Seq(S) : n = Len(w) /\ w \notin P}
<1>1. SUFFICES ASSUME Fails # {} PROVE FALSE
  <2>1. \A w \in Seq(S) : Len(w) \in Nat
    OBVIOUS
  <2>. QED
    BY <2>1
<1>2. PICK n \in Fails : \A m \in Fails : n <= m
  <2>1. Fails \subseteq Nat
    OBVIOUS
  <2>. HIDE DEF Fails
  <2>. QED
    BY <1>1, <2>1, SmallestExists
<1>3. PICK w \in Seq(S) : n = Len(w) /\ w \notin P
  BY <1>2
<1>4. PICK u \in Seq(S), x \in S : w = Append(u, x)
  BY <1>3, WordParts
<1>5. Len(w) = Len(u) + 1 /\ Len(u) \in Nat /\ u \notin P
  BY <1>3, <1>4, AppendIs
<1>6. Len(u) \in Fails
  BY <1>5
<1>7. n <= Len(u)
  <2>. HIDE DEF Fails
  <2>. QED
    BY <1>2, <1>6
<1>. QED
  BY <1>3, <1>5, <1>7

LEMMA NoDistanceToItself ==
  ASSUME NEW S, NEW a \in Seq(S)
  PROVE  Levenshtein(a, a) = 0
<1>. DEFINE P == {w \in Seq(S) : Levenshtein(w, w) = 0}
<1>1. <<>> \in P
  <2>1. <<>> \in Seq(S) /\ Len(<<>>) = 0
    OBVIOUS
  <2>. QED
    BY <2>1, DistanceFromEmpty
<1>2. ASSUME NEW u \in Seq(S), NEW x \in S, u \in P PROVE Append(u, x) \in P
  <2>1. Append(u, x) \in Seq(S)
    BY AppendIs
  <2>2. Levenshtein(Append(u, x), Append(u, x)) <= Levenshtein(u, u)
    BY DistanceOfLonger
  <2>3. Levenshtein(Append(u, x), Append(u, x)) \in Nat
    BY <2>1, DistanceFromEmpty
  <2>. QED
    BY <1>2, <2>1, <2>2, <2>3
<1>3. \A w \in Seq(S) : w \in P
  <2>. HIDE DEF P
  <2>. QED
    BY <1>1, <1>2, WordByWord
<1>. QED
  BY <1>3

LEMMA OnlyItselfAtNoDistance ==
  ASSUME NEW S, NEW a \in Seq(S), NEW b \in Seq(S), Levenshtein(a, b) = 0
  PROVE  a = b
<1>. DEFINE P == {w \in Seq(S) : \A u \in Seq(S) : Levenshtein(u, w) = 0 => u = w}
<1>1. <<>> \in P
  <2>1. <<>> \in Seq(S)
    OBVIOUS
  <2>2. ASSUME NEW u \in Seq(S), Levenshtein(u, <<>>) = 0 PROVE u = <<>>
    <3>1. Len(u) = 0
      BY <2>1, <2>2, DistanceFromEmpty
    <3>. QED
      BY <3>1
  <2>. QED
    BY <2>1, <2>2
<1>2. ASSUME NEW w \in Seq(S), NEW y \in S, w \in P PROVE Append(w, y) \in P
  <2>1. Append(w, y) \in Seq(S) /\ Len(Append(w, y)) = Len(w) + 1 /\ Len(w) \in Nat
    BY AppendIs
  <2>2. ASSUME NEW u \in Seq(S), Levenshtein(u, Append(w, y)) = 0 PROVE u = Append(w, y)
    <3>1. CASE u = <<>>
      <4>1. Levenshtein(u, Append(w, y)) = Len(Append(w, y))
        BY <2>1, <3>1, DistanceFromEmpty
      <4>. QED
        BY <2>1, <2>2, <4>1
    <3>2. ASSUME NEW r \in Seq(S), NEW x \in S, u = Append(r, x) PROVE u = Append(w, y)
      <4>. DEFINE d == Levenshtein(Append(r, x), Append(w, y))
                  up == Levenshtein(r, Append(w, y))
                  left == Levenshtein(Append(r, x), w)
                  across == Levenshtein(r, w)
      <4>1. /\ up \in Nat /\ left \in Nat /\ across \in Nat
            /\ \/ d = up + 1 \/ d = left + 1
               \/ x = y /\ d = across
               \/ x # y /\ d = across + 1
        BY DistanceOfLonger
      <4>2. x = y /\ across = 0
        <5>1. d = 0
          BY <2>2, <3>2
        <5>. HIDE DEF d, up, left, across
        <5>. QED
          BY <4>1, <5>1
      <4>3. r = w
        BY <1>2, <4>2
      <4>. QED
        BY <3>2, <4>2, <4>3
    <3>. QED
      BY <3>1, <3>2, WordParts
  <2>. QED
    BY <2>1, <2>2
<1>3. \A w \in Seq(S) : w \in P
  <2>. HIDE DEF P
  <2>. QED
    BY <1>1, <1>2, WordByWord
<1>. QED
  BY <1>3

\* A word at some distance from another has an edit that is nearer to it.
CanNear(a, b) ==
  Levenshtein(a, b) # 0 => \E v \in OneEdit(a) : Levenshtein(v, b) + 1 <= Levenshtein(a, b)

\* A word that is not there yet has an edit that is nearer.
LEMMA AnEditIsNearer ==
  ASSUME NEW S, Marks \subseteq S, NEW a \in Seq(S), NEW b \in Seq(Marks)
  PROVE  CanNear(a, b)
<1>. DEFINE P == {w \in Seq(Marks) : \A u \in Seq(S) : CanNear(u, w)}
<1>1. \A w \in Seq(Marks) : w \in Seq(S)
  BY SeqMonotonic
\* The last letter taken away.
<1>2. ASSUME NEW u \in Seq(S), NEW x \in S, NEW w \in Seq(S),
             Levenshtein(u, w) + 1 <= Levenshtein(Append(u, x), w)
      PROVE  CanNear(Append(u, x), w)
  <2>1. u \in OneEdit(Append(u, x))
    BY EditsOfLonger
  <2>. QED
    BY <1>2, <2>1 DEF CanNear
<1>3. <<>> \in P
  <2>1. <<>> \in Seq(Marks) /\ <<>> \in Seq(S)
    OBVIOUS
  <2>2. ASSUME NEW u \in Seq(S) PROVE CanNear(u, <<>>)
    <3>1. \A s \in Seq(S) : Levenshtein(s, <<>>) = Len(s)
      BY <2>1, DistanceFromEmpty
    <3>2. CASE u = <<>>
      <4>1. Levenshtein(u, <<>>) = 0
        BY <3>1, <3>2
      <4>. QED
        BY <4>1 DEF CanNear
    <3>3. ASSUME NEW r \in Seq(S), NEW x \in S, u = Append(r, x) PROVE CanNear(u, <<>>)
      <4>1. Len(u) = Len(r) + 1 /\ Len(r) \in Nat
        BY <3>3, AppendIs
      <4>2. Levenshtein(r, <<>>) = Len(r) /\ Levenshtein(u, <<>>) = Len(u)
        BY <3>1
      <4>3. Levenshtein(r, <<>>) + 1 <= Levenshtein(u, <<>>)
        BY <4>1, <4>2
      <4>4. Levenshtein(r, <<>>) + 1 <= Levenshtein(Append(r, x), <<>>)
        BY <3>3, <4>3
      <4>. QED
        BY <1>2, <2>1, <3>3, <4>4
    <3>. QED
      BY <3>2, <3>3, WordParts
  <2>. QED
    BY <2>1, <2>2
<1>4. ASSUME NEW w \in Seq(Marks), NEW y \in Marks, w \in P PROVE Append(w, y) \in P
  <2>. DEFINE t == Append(w, y)
  <2>1. t \in Seq(Marks) /\ Len(t) = Len(w) + 1 /\ Len(w) \in Nat
    BY AppendIs
  <2>2. w \in Seq(S) /\ t \in Seq(S) /\ y \in S
    BY <1>1, <2>1
  <2>3. ASSUME NEW u \in Seq(S) PROVE CanNear(u, t)
    \* The letter that is missing at the end, put there.
    <3>1. Levenshtein(Append(u, y), t) <= Levenshtein(u, w) /\ Levenshtein(u, w) \in Nat
      BY <2>2, DistanceOfLonger
    <3>2. CASE u = <<>>
      <4>1. u \in Seq(Marks) /\ Len(u) = 0
        BY <3>2
      <4>2. Append(u, y) \in OneEdit(u)
        BY <4>1, EditsOfNothing
      <4>3. Levenshtein(u, w) = Len(w) /\ Levenshtein(u, t) = Len(t)
        BY <2>2, <3>2, DistanceFromEmpty
      <4>4. Levenshtein(Append(u, y), t) \in Nat
        <5>1. Append(u, y) \in Seq(S)
          BY <2>2, AppendIs
        <5>. QED
          BY <2>2, <5>1, DistanceFromEmpty
      <4>. HIDE DEF t
      <4>5. Levenshtein(Append(u, y), t) + 1 <= Levenshtein(u, t)
        BY <2>1, <3>1, <4>3, <4>4
      <4>. QED
        BY <4>2, <4>5 DEF CanNear
    <3>3. ASSUME NEW r \in Seq(S), NEW x \in S, u = Append(r, x), Levenshtein(u, t) # 0
          PROVE  CanNear(u, t)
      <4>1. /\ Levenshtein(u, t) \in Nat /\ Levenshtein(r, t) \in Nat
            /\ Levenshtein(u, w) \in Nat /\ Levenshtein(r, w) \in Nat
            /\ \/ Levenshtein(u, t) = Levenshtein(r, t) + 1
               \/ Levenshtein(u, t) = Levenshtein(u, w) + 1
               \/ x = y /\ Levenshtein(u, t) = Levenshtein(r, w)
               \/ x # y /\ Levenshtein(u, t) = Levenshtein(r, w) + 1
        BY <2>2, <3>3, DistanceOfLonger
      <4>2. CASE Levenshtein(u, t) = Levenshtein(r, t) + 1
        <5>1. Levenshtein(r, t) + 1 <= Levenshtein(Append(r, x), t)
          BY <3>3, <4>1, <4>2
        <5>. QED
          BY <1>2, <2>2, <3>3, <5>1
      <4>3. CASE Levenshtein(u, t) = Levenshtein(u, w) + 1
        <5>1. Append(u, y) \in OneEdit(u)
          <6>1. Append(Append(r, x), y) \in OneEdit(Append(r, x))
            BY EditsOfLonger
          <6>. QED
            BY <3>3, <6>1
        <5>2. Levenshtein(Append(u, y), t) \in Nat
          <6>1. Append(u, y) \in Seq(S)
            BY <2>2, AppendIs
          <6>. QED
            BY <2>2, <6>1, DistanceFromEmpty
        <5>. HIDE DEF t
        <5>3. Levenshtein(Append(u, y), t) + 1 <= Levenshtein(u, t)
          BY <3>1, <4>1, <4>3, <5>2
        <5>. QED
          BY <5>1, <5>3 DEF CanNear
      <4>4. CASE x = y /\ Levenshtein(u, t) = Levenshtein(r, w)
        <5>1. CanNear(r, w) /\ Levenshtein(r, w) # 0
          BY <1>4, <3>3, <4>4
        <5>2. PICK v \in OneEdit(r) : Levenshtein(v, w) + 1 <= Levenshtein(r, w)
          BY <5>1 DEF CanNear
        <5>3. v \in Seq(S)
          BY EditsAreWords
        <5>4. Append(v, x) \in OneEdit(u)
          <6>1. Append(v, x) \in OneEdit(Append(r, x))
            BY EditsOfLonger
          <6>. QED
            BY <3>3, <6>1
        <5>5. /\ Levenshtein(Append(v, x), t) <= Levenshtein(v, w)
              /\ Levenshtein(Append(v, x), t) \in Nat /\ Levenshtein(v, w) \in Nat
          BY <2>2, <4>4, <5>3, DistanceOfLonger
        <5>. HIDE DEF t
        <5>6. Levenshtein(Append(v, x), t) + 1 <= Levenshtein(u, t)
          BY <4>1, <4>4, <5>2, <5>5
        <5>. QED
          BY <5>4, <5>6 DEF CanNear
      <4>5. CASE x # y /\ Levenshtein(u, t) = Levenshtein(r, w) + 1
        <5>1. Append(r, y) \in OneEdit(u)
          <6>1. Append(r, y) \in OneEdit(Append(r, x))
            BY EditsOfLonger
          <6>. QED
            BY <3>3, <6>1
        <5>2. /\ Levenshtein(Append(r, y), t) <= Levenshtein(r, w)
              /\ Levenshtein(Append(r, y), t) \in Nat
          BY <2>2, DistanceOfLonger
        <5>. HIDE DEF t
        <5>3. Levenshtein(Append(r, y), t) + 1 <= Levenshtein(u, t)
          BY <4>1, <4>5, <5>2
        <5>. QED
          BY <5>1, <5>3 DEF CanNear
      <4>. QED
        BY <4>1, <4>2, <4>3, <4>4, <4>5
    <3>4. Levenshtein(u, t) = 0 => CanNear(u, t)
      BY DEF CanNear
    <3>. QED
      BY <3>2, <3>3, <3>4, WordParts
  <2>. QED
    BY <2>1, <2>3
<1>5. \A w \in Seq(Marks) : w \in P
  <2>. HIDE DEF P
  <2>. QED
    BY <1>3, <1>4, WordByWord
<1>. QED
  BY <1>5

-----------------------------------------------------------------------------
(* Distances and edits of what is typed                                      *)

\* The letters of all that is typed, some of which no trigger has.
AllMarks == Marks \cup UNION {Range(w) : w \in Typed}

LEMMA TypedAreWords ==
  /\ Marks \subseteq AllMarks
  /\ \A w \in Typed : w \in Seq(AllMarks)
  /\ \A t \in Spellings : t \in Seq(Marks) /\ t \in Seq(AllMarks) /\ t # <<>>
<1>1. Marks \subseteq AllMarks
  BY DEF AllMarks
<1>2. ASSUME NEW w \in Typed PROVE w \in Seq(AllMarks)
  <2>1. w \in Seq(Range(w))
    BY DispatchConstants DEF IsSequence
  <2>2. Range(w) \subseteq AllMarks
    BY DEF AllMarks
  <2>. QED
    BY <2>1, <2>2, SeqMonotonic
<1>3. ASSUME NEW t \in Spellings PROVE t \in Seq(Marks) /\ t \in Seq(AllMarks) /\ t # <<>>
  <2>1. PICK table \in Tables, c \in Commands : t \in table.own[c]
    BY DEF Spellings, TriggersOf
  <2>2. t \in Seq(Marks) \ {<<>>}
    BY <2>1, DispatchConstants
  <2>. QED
    BY <1>1, <2>2, SeqMonotonic
<1>. QED
  BY <1>1, <1>2, <1>3

\* Counting insertions, deletions and substitutions one by one, a word is within
\* k edits of a trigger exactly when their distance is k or less, for words of any
\* length and every reach the lookup has (levenshtein).
THEOREM DistanceCountsEdits ==
  ASSUME NEW w \in Typed, NEW t \in Seq(Marks), NEW k \in 0 .. 2
  PROVE  (\E i \in 0 .. k : t \in Edits[w][i + 1]) <=> Levenshtein(w, t) <= k
<1>. DEFINE once == OneEdit(w)
            twice == UNION {OneEdit(v) : v \in once}
            d(v) == Levenshtein(v, t)
<1>1. Edits[w] = <<{w}, once, twice>>
  BY DEF Edits
<1>2. w \in Seq(AllMarks) /\ t \in Seq(AllMarks) /\ Marks \subseteq AllMarks
  <2>1. w \in Seq(AllMarks) /\ Marks \subseteq AllMarks
    BY TypedAreWords
  <2>. QED
    BY <2>1, SeqMonotonic
<1>3. \A v \in once : v \in Seq(AllMarks)
  BY <1>2, EditsAreWords
<1>4. \A v \in twice : v \in Seq(AllMarks)
  BY <1>2, <1>3, EditsAreWords
<1>5. d(w) \in Nat /\ (\A v \in once : d(v) \in Nat) /\ \A v \in twice : d(v) \in Nat
  BY <1>2, <1>3, <1>4, DistanceFromEmpty
<1>6. d(t) = 0
  BY NoDistanceToItself
<1>7. \A v \in once : d(w) <= d(v) + 1
  BY <1>2, EditIsOneStep
<1>8. \A v \in once : \A u \in OneEdit(v) : d(v) <= d(u) + 1
  BY <1>2, <1>3, EditIsOneStep
<1>9. w = t <=> d(w) = 0
  BY <1>2, <1>6, OnlyItselfAtNoDistance
<1>10. \A v \in once : d(v) = 0 => v = t
  BY <1>2, <1>3, OnlyItselfAtNoDistance
<1>11. \A v \in twice : d(v) = 0 => v = t
  BY <1>2, <1>4, OnlyItselfAtNoDistance
<1>12. d(w) # 0 => \E v \in once : d(v) + 1 <= d(w)
  BY <1>2, AnEditIsNearer DEF CanNear
<1>13. \A v \in once : d(v) # 0 => \E u \in OneEdit(v) : d(u) + 1 <= d(v)
  BY <1>2, <1>3, AnEditIsNearer DEF CanNear
<1>14. /\ \A v \in once : v \in Seq(AllMarks)
       /\ \A v \in once : \A u \in OneEdit(v) : u \in twice
       /\ \A u \in twice : \E v \in once : u \in OneEdit(v)
  BY <1>3
<1>. HIDE DEF once, twice, d
<1>15. t \in once => d(w) <= 1
  BY <1>5, <1>6, <1>7
<1>16. t \in twice => d(w) <= 2
  <2>1. SUFFICES ASSUME t \in twice PROVE d(w) <= 2
    OBVIOUS
  <2>2. PICK v \in once : t \in OneEdit(v)
    BY <1>14, <2>1
  <2>3. d(v) <= d(t) + 1 /\ d(w) <= d(v) + 1 /\ d(v) \in Nat
    BY <1>5, <1>7, <1>8, <2>2
  <2>. QED
    BY <1>5, <1>6, <2>3
<1>17. d(w) = 1 => t \in once
  <2>1. SUFFICES ASSUME d(w) = 1 PROVE t \in once
    OBVIOUS
  <2>2. PICK v \in once : d(v) + 1 <= d(w)
    BY <1>12, <2>1
  <2>3. d(v) = 0
    BY <1>5, <2>1, <2>2
  <2>. QED
    BY <1>10, <2>2, <2>3
<1>18. d(w) = 2 => t \in once \/ t \in twice
  <2>1. SUFFICES ASSUME d(w) = 2 PROVE t \in once \/ t \in twice
    OBVIOUS
  <2>2. PICK v \in once : d(v) + 1 <= d(w)
    BY <1>12, <2>1
  <2>3. CASE d(v) = 0
    BY <1>10, <2>2, <2>3
  <2>4. CASE d(v) # 0
    <3>1. PICK u \in OneEdit(v) : d(u) + 1 <= d(v)
      BY <1>13, <2>2, <2>4
    <3>2. u \in twice
      BY <1>14, <2>2
    <3>3. d(u) = 0
      BY <1>5, <2>1, <2>2, <3>1, <3>2
    <3>. QED
      BY <1>11, <3>2, <3>3
  <2>. QED
    BY <2>3, <2>4
<1>19. /\ Edits[w][1] = {w} /\ Edits[w][2] = once /\ Edits[w][3] = twice
  BY <1>1
<1>20. (\E i \in 0 .. k : t \in Edits[w][i + 1]) <=>
         t = w \/ (k >= 1 /\ t \in once) \/ (k = 2 /\ t \in twice)
  <2>1. k = 0 \/ k = 1 \/ k = 2
    OBVIOUS
  <2>2. ASSUME NEW i \in 0 .. k, t \in Edits[w][i + 1]
        PROVE  t = w \/ (k >= 1 /\ t \in once) \/ (k = 2 /\ t \in twice)
    <3>1. i = 0 \/ (i = 1 /\ k >= 1) \/ (i = 2 /\ k = 2)
      BY <2>1
    <3>2. i + 1 = 1 \/ (i + 1 = 2 /\ k >= 1) \/ (i + 1 = 3 /\ k = 2)
      BY <3>1
    <3>. QED
      BY <1>19, <2>2, <3>2
  <2>3. 0 + 1 = 1 /\ 1 + 1 = 2 /\ 2 + 1 = 3
    OBVIOUS
  <2>4. t = w => \E i \in 0 .. k : t \in Edits[w][i + 1]
    <3>1. 0 \in 0 .. k
      OBVIOUS
    <3>. QED
      BY <1>19, <2>3, <3>1
  <2>5. k >= 1 /\ t \in once => \E i \in 0 .. k : t \in Edits[w][i + 1]
    <3>1. k >= 1 => 1 \in 0 .. k
      OBVIOUS
    <3>. QED
      BY <1>19, <2>3, <3>1
  <2>6. k = 2 /\ t \in twice => \E i \in 0 .. k : t \in Edits[w][i + 1]
    <3>1. k = 2 => 2 \in 0 .. k
      OBVIOUS
    <3>. QED
      BY <1>19, <2>3, <3>1
  <2>. QED
    BY <2>2, <2>4, <2>5, <2>6
<1>21. t = w \/ (k >= 1 /\ t \in once) \/ (k = 2 /\ t \in twice) <=> d(w) <= k
  <2>1. d(w) \in Nat /\ (k = 0 \/ k = 1 \/ k = 2)
    BY <1>5
  <2>2. t = w => d(w) = 0
    BY <1>9
  <2>3. d(w) = 0 => t = w
    BY <1>9
  <2>4. t = w \/ (k >= 1 /\ t \in once) \/ (k = 2 /\ t \in twice) => d(w) <= k
    BY <1>15, <1>16, <2>1, <2>2
  <2>5. d(w) <= k => t = w \/ (k >= 1 /\ t \in once) \/ (k = 2 /\ t \in twice)
    <3>1. d(w) <= k => d(w) = 0 \/ (k >= 1 /\ d(w) = 1) \/ (k = 2 /\ d(w) = 2)
      BY <2>1
    <3>2. k = 2 => k >= 1
      OBVIOUS
    <3>. QED
      BY <1>17, <1>18, <2>3, <3>1, <3>2
  <2>. QED
    BY <2>4, <2>5
<1>22. (\E i \in 0 .. k : t \in Edits[w][i + 1]) <=> d(w) <= k
  BY <1>20, <1>21
<1>. QED
  BY <1>22 DEF d

\* What the lookup compares triggers by is the number of edits.
LEMMA DistancesAre ==
  ASSUME NEW w \in Typed, NEW t \in Spellings
  PROVE  /\ Distance[w][t] = Levenshtein(w, t) /\ Distance[w][t] \in Nat
         /\ Distance[w][t] = 0 <=> w = t
         /\ \A k \in 0 .. 2 : (\E i \in 0 .. k : t \in Edits[w][i + 1]) <=> Distance[w][t] <= k
<1>1. Distance[w][t] = Levenshtein(w, t)
  BY DEF Distance
<1>2. w \in Seq(AllMarks) /\ t \in Seq(AllMarks) /\ t \in Seq(Marks)
  BY TypedAreWords
<1>3. Levenshtein(w, t) \in Nat
  BY <1>2, DistanceFromEmpty
<1>4. Levenshtein(w, t) = 0 => w = t
  BY <1>2, OnlyItselfAtNoDistance
<1>5. w = t => Levenshtein(w, t) = 0
  BY <1>2, NoDistanceToItself
<1>6. \A k \in 0 .. 2 : (\E i \in 0 .. k : t \in Edits[w][i + 1]) <=> Levenshtein(w, t) <= k
  BY <1>2, DistanceCountsEdits
<1>. QED
  BY <1>1, <1>3, <1>4, <1>5, <1>6
-----------------------------------------------------------------------------
(* The registry                                                              *)

\* A lookup leads to the one enabled command that owns the spelling.
LEMMA IndexedIs ==
  ASSUME NEW table, NEW every, NEW spellings, NEW f, f = Indexed(table, every, spellings),
         \A c, d \in Commands : c # d => spellings[c] \cap spellings[d] = {}
  PROVE  /\ \A w \in DOMAIN f : /\ f[w] \in Commands /\ w \in spellings[f[w]]
                               /\ CommandEnabled(table, every, f[w])
         /\ \A c \in Commands : CommandEnabled(table, every, c) => spellings[c] \subseteq DOMAIN f
<1>. DEFINE here == {d \in Commands : CommandEnabled(table, every, d)}
<1>1. /\ DOMAIN f = UNION {spellings[c] : c \in here}
      /\ \A w \in DOMAIN f : f[w] = CHOOSE c \in Commands : w \in spellings[c]
  BY DEF Indexed
<1>2. ASSUME NEW w \in DOMAIN f
      PROVE  f[w] \in Commands /\ w \in spellings[f[w]] /\ CommandEnabled(table, every, f[w])
  <2>1. PICK c \in here : w \in spellings[c]
    BY <1>1
  <2>2. f[w] \in Commands /\ w \in spellings[f[w]]
    BY <1>1, <2>1
  <2>3. f[w] = c
    BY <2>1, <2>2
  <2>. QED
    BY <2>1, <2>2, <2>3
<1>. QED
  BY <1>1, <1>2

\* The lookups are what the registry says on this platform.
LookupsRight ==
  /\ commands \in Tables /\ full \in BOOLEAN
  /\ single = Indexed(commands, full, commands.own)
  /\ multi = Indexed(commands, full, commands.phrases)

LEMMA LookupsAre ==
  ASSUME LookupsRight
  PROVE  /\ \A w \in DOMAIN single :
              /\ single[w] \in Commands /\ CommandEnabled(commands, full, single[w])
              /\ w \in commands.own[single[w]] /\ w \in Spellings
         /\ \A p \in DOMAIN multi :
              /\ multi[p] \in Commands /\ CommandEnabled(commands, full, multi[p])
              /\ IsSequence(p) /\ Len(p) > 1
         /\ \A c \in Commands : CommandEnabled(commands, full, c) =>
              commands.own[c] \subseteq DOMAIN single
<1>1. \A c, d \in Commands : c # d => /\ commands.own[c] \cap commands.own[d] = {}
                                      /\ commands.phrases[c] \cap commands.phrases[d] = {}
  BY DispatchConstants DEF LookupsRight
<1>2. /\ \A w \in DOMAIN single : /\ single[w] \in Commands /\ w \in commands.own[single[w]]
                                  /\ CommandEnabled(commands, full, single[w])
      /\ \A c \in Commands : CommandEnabled(commands, full, c) =>
           commands.own[c] \subseteq DOMAIN single
  BY <1>1, IndexedIs DEF LookupsRight
<1>3. \A p \in DOMAIN multi : /\ multi[p] \in Commands /\ p \in commands.phrases[multi[p]]
                              /\ CommandEnabled(commands, full, multi[p])
  BY <1>1, IndexedIs DEF LookupsRight
<1>4. \A c \in Commands : commands.own[c] \subseteq Spellings
  BY DEF LookupsRight, Spellings, TriggersOf
<1>5. \A c \in Commands : \A p \in commands.phrases[c] : IsSequence(p) /\ Len(p) > 1
  BY DispatchConstants DEF LookupsRight
<1>. QED
  BY <1>2, <1>3, <1>4, <1>5

LEMMA TriggersAreFinite ==
  ASSUME LookupsRight
  PROVE  IsFiniteSet(DOMAIN single)
<1>. DEFINE own == commands.own
            here == {d \in Commands : CommandEnabled(commands, full, d)}
            sets == {own[c] : c \in here}
<1>1. DOMAIN single = UNION sets
  BY DEF LookupsRight, Indexed
<1>2. IsFiniteSet(here)
  <2>1. here \subseteq Commands
    OBVIOUS
  <2>. HIDE DEF here
  <2>. QED
    BY <2>1, DispatchConstants, FS_Subset
<1>3. \A s \in sets : IsFiniteSet(s)
  BY DispatchConstants DEF LookupsRight
<1>. HIDE DEF own, here
<1>4. IsFiniteSet(sets)
  BY <1>2, ImageIsFinite
<1>. HIDE DEF sets
<1>5. IsFiniteSet(UNION sets)
  BY <1>3, <1>4, FS_UNION
<1>. QED
  BY <1>1, <1>5

-----------------------------------------------------------------------------
(* The nearest of the triggers walked over                                   *)

LEMMA ReachIs == ASSUME NEW n PROVE FuzzyMaxDistance(n) \in 0 .. 2
BY DEF FuzzyMaxDistance

\* A walk over a set meets every member of it.
LEMMA WalkMeetsAll ==
  ASSUME NEW T, IsFiniteSet(T), NEW walk \in SetToSeqs(T)
  PROVE  /\ Len(walk) \in Nat /\ walk \in [1 .. Len(walk) -> T]
         /\ \A t \in T : \E i \in 1 .. Len(walk) : walk[i] = t
<1>. DEFINE n == Cardinality(T)
<1>1. n \in Nat
  BY FS_CardinalityType
<1>2. walk \in [1 .. n -> T] /\ \A i, j \in 1 .. n : i # j => walk[i] # walk[j]
  BY DEF SetToSeqs
<1>3. Len(walk) = n
  <2>1. walk \in Seq(T)
    <3>. HIDE DEF n
    <3>. QED
      BY <1>1, <1>2, SeqDef
  <2>2. Len(walk) \in Nat /\ DOMAIN walk = 1 .. Len(walk)
    BY <2>1
  <2>3. 1 .. n = 1 .. Len(walk)
    BY <1>2, <2>2
  <2>. DEFINE l == Len(walk)
  <2>4. l \in Nat /\ 1 .. n = 1 .. l
    BY <2>2, <2>3
  <2>. HIDE DEF n, l
  <2>5. ~ (n < l)
    <3>1. n < l => l \in 1 .. l /\ l \notin 1 .. n
      BY <1>1, <2>4
    <3>. QED
      BY <2>4, <3>1
  <2>6. ~ (l < n)
    <3>1. l < n => n \in 1 .. n /\ n \notin 1 .. l
      BY <1>1, <2>4
    <3>. QED
      BY <2>4, <3>1
  <2>7. l = n
    BY <1>1, <2>4, <2>5, <2>6
  <2>. QED
    BY <2>7 DEF l
<1>4. Cardinality(1 .. n) = n
  <2>. HIDE DEF n
  <2>1. 1 \in Int /\ n \in Int
    BY <1>1
  <2>2. Cardinality(1 .. n) = IF 1 > n THEN 0 ELSE n - 1 + 1
    BY <2>1, FS_Interval
  <2>. QED
    BY <1>1, <2>2
<1>5. walk \in Injection(1 .. n, T)
  BY <1>2 DEF Injection, IsInjective
<1>6. walk \in Surjection(1 .. n, T)
  BY <1>4, <1>5, FS_Injection
<1>7. \A t \in T : \E i \in 1 .. n : walk[i] = t
  BY <1>6 DEF Surjection
<1>. HIDE DEF n
<1>. QED
  BY <1>1, <1>2, <1>3, <1>7

\* The best of the names up to i, at distances within reach.
Bests == [name : Commands \cup {NoCommand}, dist : Nat, ambiguous : BOOLEAN]
BestOf(b, names, dists, i, reach) ==
  /\ b \in Bests
  /\ \A j \in 1 .. i : b.dist <= dists[j]
  /\ i # 0 => \E j \in 1 .. i : names[j] = b.name /\ dists[j] = b.dist
  /\ i = 0 => b.name = NoCommand /\ b.dist = reach + 1 /\ b.ambiguous = FALSE
  /\ b.ambiguous = TRUE => \E j \in 1 .. i : names[j] # b.name /\ dists[j] = b.dist
  /\ b.ambiguous = FALSE => \A j \in 1 .. i : dists[j] = b.dist => names[j] = b.name

IsCloser(c, b, name, dist) ==
  /\ c \in Bests
  /\ dist < b.dist => c.name = name /\ c.dist = dist /\ c.ambiguous = FALSE
  /\ ~ (dist < b.dist) => c.name = b.name /\ c.dist = b.dist
  /\ dist = b.dist /\ name # b.name => c.ambiguous = TRUE
  /\ ~ (dist < b.dist) /\ ~ (dist = b.dist /\ name # b.name) => c.ambiguous = b.ambiguous

LEMMA CloserIs ==
  ASSUME NEW b \in Bests, NEW name \in Commands, NEW dist \in Nat, NEW c,
         c = Closer(b, name, dist)
  PROVE  IsCloser(c, b, name, dist)
<1>1. b.dist \in Nat
  BY DEF Bests
<1>2. CASE dist < b.dist
  <2>1. c = [name |-> name, dist |-> dist, ambiguous |-> FALSE]
    BY <1>2 DEF Closer
  <2>2. c.name = name /\ c.dist = dist /\ c.ambiguous = FALSE
    BY <2>1
  <2>3. c \in Bests
    BY <2>1 DEF Bests
  <2>4. ~ (dist = b.dist)
    BY <1>1, <1>2
  <2>. QED
    BY <1>2, <2>2, <2>3, <2>4 DEF IsCloser
<1>3. CASE ~ (dist < b.dist)
  <2>1. c = [b EXCEPT !.ambiguous = b.ambiguous \/ (dist = b.dist /\ name # b.name)]
    BY <1>3 DEF Closer
  <2>2. /\ b.name \in Commands \cup {NoCommand} /\ b.ambiguous \in BOOLEAN
        /\ b = [name |-> b.name, dist |-> b.dist, ambiguous |-> b.ambiguous]
    BY DEF Bests
  <2>3. CASE dist = b.dist /\ name # b.name
    <3>1. (b.ambiguous \/ (dist = b.dist /\ name # b.name)) = TRUE
      BY <2>2, <2>3
    <3>2. c = [b EXCEPT !.ambiguous = TRUE]
      BY <2>1, <3>1
    <3>3. c = [name |-> b.name, dist |-> b.dist, ambiguous |-> TRUE]
      BY <2>2, <3>2
    <3>4. c \in Bests
      <4>1. TRUE \in BOOLEAN
        OBVIOUS
      <4>. QED
        BY <1>1, <2>2, <3>3, <4>1 DEF Bests
    <3>5. c.name = b.name /\ c.dist = b.dist /\ c.ambiguous = TRUE
      BY <3>3
    <3>. QED
      BY <1>3, <2>3, <3>4, <3>5 DEF IsCloser
  <2>4. CASE ~ (dist = b.dist /\ name # b.name)
    <3>1. (b.ambiguous \/ (dist = b.dist /\ name # b.name)) = b.ambiguous
      BY <2>2, <2>4
    <3>2. c = [b EXCEPT !.ambiguous = b.ambiguous]
      BY <2>1, <3>1
    <3>3. c = b
      BY <2>2, <3>2
    <3>. QED
      BY <1>3, <2>4, <3>3 DEF IsCloser
  <2>. QED
    BY <2>3, <2>4
<1>. QED
  BY <1>2, <1>3 DEF IsCloser

\* One more trigger is looked at.
LEMMA OneMoreLook ==
  ASSUME NEW N \in Nat, NEW names \in [1 .. N -> Commands], NEW reach \in Nat,
         NEW dists \in [1 .. N -> 0 .. reach], NEW i \in 1 .. N, NEW b,
         BestOf(b, names, dists, i - 1, reach)
  PROVE  BestOf(Closer(b, names[i], dists[i]), names, dists, i, reach)
<1>. DEFINE name == names[i]
            dist == dists[i]
            c == Closer(b, name, dist)
<1>1. b \in Bests /\ name \in Commands /\ dist \in 0 .. reach /\ dist \in Nat /\ dist <= reach
  BY DEF BestOf
<1>2. /\ c \in Bests
      /\ dist < b.dist => c.name = name /\ c.dist = dist /\ c.ambiguous = FALSE
      /\ ~ (dist < b.dist) => c.name = b.name /\ c.dist = b.dist
      /\ dist = b.dist /\ name # b.name => c.ambiguous = TRUE
      /\ ~ (dist < b.dist) /\ ~ (dist = b.dist /\ name # b.name) => c.ambiguous = b.ambiguous
  <2>1. c = Closer(b, name, dist)
    OBVIOUS
  <2>. HIDE DEF name, dist, c
  <2>2. IsCloser(c, b, name, dist)
    BY <1>1, <2>1, CloserIs
  <2>. QED
    BY <2>2 DEF IsCloser
<1>. SUFFICES BestOf(c, names, dists, i, reach)
  OBVIOUS
<1>. HIDE DEF c
<1>3. b.dist \in Nat /\ b.ambiguous \in BOOLEAN /\ c.ambiguous \in BOOLEAN
  BY <1>1, <1>2 DEF Bests
<1>4. \A j \in 1 .. i : j \in 1 .. i - 1 \/ j = i
  OBVIOUS
<1>5. \A j \in 1 .. i - 1 : j \in 1 .. i /\ dists[j] \in Nat
  OBVIOUS
<1>6. i \in 1 .. i
  OBVIOUS
<1>7. /\ \A j \in 1 .. i - 1 : b.dist <= dists[j]
      /\ i - 1 # 0 => \E j \in 1 .. i - 1 : names[j] = b.name /\ dists[j] = b.dist
      /\ i - 1 = 0 => b.name = NoCommand /\ b.dist = reach + 1 /\ b.ambiguous = FALSE
      /\ b.ambiguous = TRUE => \E j \in 1 .. i - 1 : names[j] # b.name /\ dists[j] = b.dist
      /\ b.ambiguous = FALSE => \A j \in 1 .. i - 1 : dists[j] = b.dist => names[j] = b.name
  BY DEF BestOf
<1>8. i # 0
  OBVIOUS
<1>9. CASE dist < b.dist
  <2>1. \A j \in 1 .. i - 1 : dist < dists[j]
    BY <1>1, <1>3, <1>5, <1>7, <1>9
  <2>2. \A j \in 1 .. i : dist <= dists[j]
    BY <1>1, <1>4, <1>5, <2>1
  <2>3. \A j \in 1 .. i : dists[j] = dist => names[j] = name
    BY <1>1, <1>4, <1>5, <2>1
  <2>4. \E j \in 1 .. i : names[j] = name /\ dists[j] = dist
    BY <1>6
  <2>5. c \in Bests /\ c.name = name /\ c.dist = dist /\ c.ambiguous = FALSE
    BY <1>2, <1>9
  <2>. HIDE DEF name, dist
  <2>. QED
    BY <1>8, <2>2, <2>3, <2>4, <2>5 DEF BestOf
<1>10. CASE ~ (dist < b.dist)
  <2>1. c.name = b.name /\ c.dist = b.dist
    BY <1>2, <1>10
  <2>2. b.dist <= dist
    BY <1>1, <1>3, <1>10
  <2>3. \A j \in 1 .. i : b.dist <= dists[j]
    BY <1>4, <1>7, <2>2
  <2>4. i - 1 # 0
    BY <1>1, <1>7, <2>2
  <2>5. \E j \in 1 .. i : names[j] = b.name /\ dists[j] = b.dist
    BY <1>5, <1>7, <2>4
  <2>6. c.ambiguous = TRUE => \E j \in 1 .. i : names[j] # b.name /\ dists[j] = b.dist
    <3>1. CASE dist = b.dist /\ name # b.name
      BY <1>6, <3>1
    <3>2. CASE ~ (dist = b.dist /\ name # b.name)
      <4>1. c.ambiguous = b.ambiguous
        BY <1>2, <1>10, <3>2
      <4>. QED
        BY <1>5, <1>7, <4>1
    <3>. QED
      BY <3>1, <3>2
  <2>7. c.ambiguous = FALSE => \A j \in 1 .. i : dists[j] = b.dist => names[j] = b.name
    <3>1. CASE dist = b.dist /\ name # b.name
      BY <1>2, <3>1
    <3>2. CASE ~ (dist = b.dist /\ name # b.name)
      <4>1. c.ambiguous = b.ambiguous
        BY <1>2, <1>10, <3>2
      <4>. QED
        BY <1>4, <1>7, <3>2, <4>1
    <3>. QED
      BY <3>1, <3>2
  <2>8. /\ \A j \in 1 .. i : c.dist <= dists[j]
        /\ \E j \in 1 .. i : names[j] = c.name /\ dists[j] = c.dist
        /\ c.ambiguous = TRUE => \E j \in 1 .. i : names[j] # c.name /\ dists[j] = c.dist
        /\ c.ambiguous = FALSE => \A j \in 1 .. i : dists[j] = c.dist => names[j] = c.name
    BY <2>1, <2>3, <2>5, <2>6, <2>7
  <2>. QED
    BY <1>2, <1>8, <2>8 DEF BestOf
<1>. QED
  BY <1>9, <1>10

LEMMA LooksEnd ==
  ASSUME NEW N \in Nat, NEW names \in [1 .. N -> Commands], NEW reach \in Nat,
         NEW dists \in [1 .. N -> 0 .. reach], NEW best,
         best[0] = [name |-> NoCommand, dist |-> reach + 1, ambiguous |-> FALSE],
         \A i \in 1 .. N : best[i] = Closer(best[i - 1], names[i], dists[i])
  PROVE  BestOf(best[N], names, dists, N, reach)
<1>. DEFINE g == [i \in 0 .. N |-> i]
            GoodAt == {i \in 0 .. N : BestOf(best[i], names, dists, i, reach)}
<1>1. BestOf(best[0], names, dists, 0, reach)
  BY DEF BestOf, Bests
<1>2. ASSUME NEW i \in 1 .. N, BestOf(best[i - 1], names, dists, i - 1, reach)
      PROVE  BestOf(best[i], names, dists, i, reach)
  <2>1. BestOf(Closer(best[i - 1], names[i], dists[i]), names, dists, i, reach)
    BY <1>2, OneMoreLook
  <2>. QED
    BY <2>1
<1>3. g[0] \in GoodAt
  BY <1>1
<1>4. \A i \in 1 .. N : g[i - 1] \in GoodAt => g[i] \in GoodAt
  <2>1. \A i \in 1 .. N : i \in 0 .. N /\ i - 1 \in 0 .. N
    OBVIOUS
  <2>. QED
    BY <1>2, <2>1
<1>5. \A i \in 0 .. N : g[i] \in GoodAt
  <2>. HIDE DEF g, GoodAt
  <2>. QED
    BY <1>3, <1>4, StepsStay
<1>6. N \in 0 .. N
  OBVIOUS
<1>. QED
  BY <1>5, <1>6

\* Nothing is named, or the only nearest; or none is near, or two are.
NearestIs(c, w) ==
  /\ c # NoCommand =>
       \E t \in Near(w) : /\ single[t] = c /\ FuzzyMaxDistance(Len(w)) # 0
                          /\ \A u \in Near(w) : Distance[w][t] <= Distance[w][u]
                          /\ \A u \in Near(w) : Distance[w][u] = Distance[w][t] => single[u] = c
  /\ c = NoCommand =>
       \/ FuzzyMaxDistance(Len(w)) = 0 \/ Near(w) = {}
       \/ \E t, u \in Near(w) : /\ single[t] # single[u] /\ Distance[w][t] = Distance[w][u]
                                /\ \A v \in Near(w) : Distance[w][t] <= Distance[w][v]

LEMMA NearAre ==
  ASSUME LookupsRight, NEW w \in Typed, NEW t \in Near(w)
  PROVE  /\ t \in DOMAIN single /\ Bangs(t) /\ single[t] \in Commands /\ t \in Spellings
         /\ Distance[w][t] \in 0 .. FuzzyMaxDistance(Len(w))
<1>1. t \in DOMAIN single /\ Bangs(t) /\ Distance[w][t] <= FuzzyMaxDistance(Len(w))
  BY DEF Near
<1>2. t \in Spellings /\ single[t] \in Commands
  BY <1>1, LookupsAre
<1>3. Distance[w][t] \in Nat /\ FuzzyMaxDistance(Len(w)) \in Nat
  BY <1>2, DistancesAre, ReachIs
<1>. QED
  BY <1>1, <1>2, <1>3

\* Whatever order the triggers are walked in, the lookup finds the only nearest.
LEMMA LookupFindsTheNearest ==
  ASSUME LookupsRight, NEW w \in Typed, NEW walk \in SetToSeqs(Near(w))
  PROVE  NearestIs(FuzzyLookup(w, walk), w)
<1>. DEFINE N == Len(walk)
            reach == FuzzyMaxDistance(Len(w))
            names == [i \in 1 .. N |-> single[walk[i]]]
            dists == [i \in 1 .. N |-> Distance[w][walk[i]]]
            first == [name |-> NoCommand, dist |-> reach + 1, ambiguous |-> FALSE]
            Look(best, i) == IF i = 0 THEN first
                             ELSE Closer(best[i - 1], single[walk[i]], Distance[w][walk[i]])
            Walks(best) == best = [i \in 0 .. N |-> Look(best, i)]
            F == [i \in 1 .. N |-> [b \in Bests |-> Closer(b, names[i], dists[i])]]
            best == CHOOSE b : Walks(b)
            last == best[N]
<1>1. FuzzyLookup(w, walk) = IF reach = 0 \/ last.ambiguous THEN NoCommand ELSE last.name
  BY DEF FuzzyLookup
<1>2. reach \in Nat
  BY ReachIs
<1>3. /\ N \in Nat /\ walk \in [1 .. N -> Near(w)]
      /\ \A t \in Near(w) : \E i \in 1 .. N : walk[i] = t
  <2>1. IsFiniteSet(Near(w))
    <3>1. Near(w) \subseteq DOMAIN single
      BY DEF Near
    <3>. QED
      BY <3>1, TriggersAreFinite, FS_Subset
  <2>. QED
    BY <2>1, WalkMeetsAll
<1>. HIDE DEF N, reach
<1>4. \A i \in 1 .. N : single[walk[i]] \in Commands /\ Distance[w][walk[i]] \in 0 .. reach
  <2>. SUFFICES ASSUME NEW i \in 1 .. N
                PROVE  single[walk[i]] \in Commands /\ Distance[w][walk[i]] \in 0 .. reach
    OBVIOUS
  <2>1. walk[i] \in Near(w)
    BY <1>3
  <2>2. \A t \in Near(w) : single[t] \in Commands /\ Distance[w][t] \in 0 .. reach
    BY NearAre DEF reach
  <2>. QED
    BY <2>1, <2>2
<1>5. names \in [1 .. N -> Commands] /\ dists \in [1 .. N -> 0 .. reach]
  BY <1>4
<1>6. \A i \in 1 .. N : names[i] = single[walk[i]] /\ dists[i] = Distance[w][walk[i]]
  OBVIOUS
<1>7. first \in Bests
  BY <1>2 DEF Bests
<1>. HIDE DEF names, dists
<1>8. \E b : Walks(b)
  <2>1. \A i \in 1 .. N, b \in Bests : Closer(b, names[i], dists[i]) \in Bests
    <3>1. \A b \in Bests, name \in Commands, dist \in Nat : Closer(b, name, dist) \in Bests
      BY CloserIs DEF IsCloser
    <3>2. \A i \in 1 .. N : names[i] \in Commands /\ dists[i] \in Nat
      BY <1>2, <1>5
    <3>. QED
      BY <3>1, <3>2
  <2>2. F \in [1 .. N -> [Bests -> Bests]]
    BY <2>1
  <2>3. PICK g \in [0 .. N -> Bests] : StepByStep(g, N, first, F)
    <3>. HIDE DEF F, first
    <3>. QED
      BY <1>3, <1>7, <2>2, StepsExist
  <2>4. ASSUME NEW i \in 0 .. N PROVE g[i] = Look(g, i)
    <3>. HIDE DEF first
    <3>1. CASE i = 0
      BY <2>3, <3>1 DEF StepByStep
    <3>2. CASE i # 0
      <4>1. i \in 1 .. N /\ i - 1 \in 0 .. N
        BY <1>3, <3>2
      <4>2. g[i - 1] \in Bests
        BY <4>1
      <4>3. g[i] = F[i][g[i - 1]]
        <5>. HIDE DEF F
        <5>. QED
          BY <2>3, <4>1 DEF StepByStep
      <4>4. g[i] = Closer(g[i - 1], names[i], dists[i])
        BY <4>1, <4>2, <4>3
      <4>. QED
        BY <1>6, <3>2, <4>1, <4>4
    <3>. QED
      BY <3>1, <3>2
  <2>5. Walks(g)
    <3>. HIDE DEF Look
    <3>. QED
      BY <2>4
  <2>. QED
    BY <2>5
<1>9. Walks(best)
  <2>. HIDE DEF Walks
  <2>. QED
    BY <1>8
<1>10. /\ best[0] = first
       /\ \A i \in 1 .. N : best[i] = Closer(best[i - 1], names[i], dists[i])
  <2>. HIDE DEF best, first
  <2>1. best[0] = first
    BY <1>3, <1>9
  <2>2. \A i \in 1 .. N : best[i] = Closer(best[i - 1], single[walk[i]], Distance[w][walk[i]])
    BY <1>3, <1>9
  <2>. QED
    BY <1>6, <2>1, <2>2
<1>11. BestOf(last, names, dists, N, reach)
  <2>. HIDE DEF best
  <2>. QED
    BY <1>2, <1>3, <1>5, <1>10, LooksEnd
<1>. HIDE DEF best, last, first
<1>12. /\ last.ambiguous \in BOOLEAN /\ last.name \in Commands \cup {NoCommand} /\ last.dist \in Nat
       /\ \A j \in 1 .. N : last.dist <= dists[j]
       /\ N # 0 => \E j \in 1 .. N : names[j] = last.name /\ dists[j] = last.dist
       /\ N = 0 => last.name = NoCommand
       /\ last.ambiguous = TRUE => \E j \in 1 .. N : names[j] # last.name /\ dists[j] = last.dist
       /\ last.ambiguous = FALSE => \A j \in 1 .. N : dists[j] = last.dist => names[j] = last.name
  BY <1>11 DEF BestOf, Bests
<1>13. \A t \in Near(w) : \E i \in 1 .. N : /\ walk[i] = t /\ names[i] = single[t]
                                           /\ dists[i] = Distance[w][t]
  BY <1>3, <1>6
<1>14. \A i \in 1 .. N : /\ walk[i] \in Near(w) /\ names[i] = single[walk[i]]
                         /\ dists[i] = Distance[w][walk[i]] /\ names[i] \in Commands
  BY <1>3, <1>5, <1>6
<1>15. CASE reach # 0 /\ last.ambiguous = FALSE /\ N # 0
  <2>1. FuzzyLookup(w, walk) = last.name
    BY <1>1, <1>15
  <2>2. PICK j \in 1 .. N : names[j] = last.name /\ dists[j] = last.dist
    BY <1>12, <1>15
  <2>3. last.name # NoCommand
    BY <1>14, <2>2, DispatchConstants
  <2>4. /\ walk[j] \in Near(w) /\ single[walk[j]] = last.name /\ Distance[w][walk[j]] = last.dist
    BY <1>14, <2>2
  <2>5. \A u \in Near(w) : last.dist <= Distance[w][u]
    BY <1>12, <1>13
  <2>6. \A u \in Near(w) : Distance[w][u] = last.dist => single[u] = last.name
    BY <1>12, <1>13, <1>15
  <2>. QED
    BY <1>15, <2>1, <2>3, <2>4, <2>5, <2>6 DEF NearestIs, reach
<1>16. CASE N = 0
  <2>1. FuzzyLookup(w, walk) = NoCommand
    BY <1>1, <1>12, <1>16
  <2>2. Near(w) = {}
    BY <1>13, <1>16
  <2>. QED
    BY <2>1, <2>2 DEF NearestIs
<1>17. CASE reach = 0
  <2>1. FuzzyLookup(w, walk) = NoCommand
    BY <1>1, <1>17
  <2>. QED
    BY <1>17, <2>1 DEF NearestIs, reach
<1>18. CASE last.ambiguous = TRUE /\ N # 0
  <2>1. FuzzyLookup(w, walk) = NoCommand
    BY <1>1, <1>18
  <2>2. PICK i \in 1 .. N : names[i] = last.name /\ dists[i] = last.dist
    BY <1>12, <1>18
  <2>3. PICK j \in 1 .. N : names[j] # last.name /\ dists[j] = last.dist
    BY <1>12, <1>18
  <2>4. /\ walk[i] \in Near(w) /\ single[walk[i]] = last.name /\ Distance[w][walk[i]] = last.dist
        /\ walk[j] \in Near(w) /\ single[walk[j]] # last.name /\ Distance[w][walk[j]] = last.dist
    BY <1>14, <2>2, <2>3
  <2>5. \A u \in Near(w) : last.dist <= Distance[w][u]
    BY <1>12, <1>13
  <2>. QED
    BY <2>1, <2>4, <2>5 DEF NearestIs
<1>. QED
  BY <1>12, <1>15, <1>16, <1>17, <1>18

\* Counting edits reaches the commands within that distance.
LEMMA ReachedIs ==
  ASSUME LookupsRight, NEW w \in Typed, NEW k \in 0 .. FuzzyMaxDistance(Len(w)), NEW c
  PROVE  c \in Reached(w, k) <=> \E t \in Near(w) : single[t] = c /\ Distance[w][t] <= k
<1>. DEFINE reach == FuzzyMaxDistance(Len(w))
<1>1. reach \in 0 .. 2
  BY ReachIs
<1>. HIDE DEF reach
<1>2. k \in 0 .. reach
  BY DEF reach
<1>3. k \in 0 .. 2 /\ k <= reach
  BY <1>1, <1>2
<1>4. \A t \in DOMAIN single :
        /\ (\E i \in 0 .. k : t \in Edits[w][i + 1]) <=> Distance[w][t] <= k
        /\ Distance[w][t] \in Nat
  BY <1>3, LookupsAre, DistancesAre
<1>5. \A t \in DOMAIN single : Distance[w][t] <= k => Distance[w][t] <= reach
  BY <1>1, <1>3, <1>4
<1>6. c \in Reached(w, k) <=>
        \E t \in DOMAIN single : /\ Bangs(t) /\ \E i \in 0 .. k : t \in Edits[w][i + 1]
                                 /\ single[t] = c
  BY DEF Reached
<1>. QED
  BY <1>4, <1>5, <1>6 DEF Near, reach

\* What the lookup finds is what counting edits finds.
LEMMA NearestIsSole ==
  ASSUME LookupsRight, NEW w \in Typed, NEW c, NearestIs(c, w)
  PROVE  /\ c # NoCommand /\ w \notin DOMAIN single => Sole(w) = {c}
         /\ c = NoCommand => Sole(w) = {}
<1>. DEFINE reach == FuzzyMaxDistance(Len(w))
<1>1. reach \in Nat
  BY ReachIs
<1>2. \A k \in 0 .. reach : \A x : x \in Reached(w, k) <=>
        \E t \in Near(w) : single[t] = x /\ Distance[w][t] <= k
  BY ReachedIs
<1>3. \A t \in Near(w) : /\ Distance[w][t] \in 0 .. reach /\ single[t] \in Commands
                         /\ t \in DOMAIN single /\ t \in Spellings
  BY NearAre
<1>4. \A x : x \in Sole(w) <=> /\ x \in Commands
                               /\ \E k \in 1 .. reach : Reached(w, k) = {x} /\ Reached(w, k - 1) = {}
  BY DEF Sole
<1>. HIDE DEF reach
<1>5. \A k \in 1 .. reach : k \in 0 .. reach /\ k - 1 \in 0 .. reach /\ k \in Nat
  BY <1>1
<1>6. ASSUME NEW t \in Near(w), \A u \in Near(w) : Distance[w][t] <= Distance[w][u],
             NEW x \in Sole(w)
      PROVE  single[t] = x
  <2>. DEFINE d == Distance[w][t]
  <2>1. PICK k \in 1 .. reach : Reached(w, k) = {x}
    BY <1>4, <1>6
  <2>2. PICK u \in Near(w) : single[u] = x /\ Distance[w][u] <= k
    BY <1>2, <1>5, <2>1
  <2>3. d \in Nat /\ Distance[w][u] \in Nat /\ k \in Nat /\ d <= Distance[w][u]
    BY <1>1, <1>3, <1>5, <1>6
  <2>4. d <= k
    BY <2>2, <2>3
  <2>5. single[t] \in Reached(w, k)
    BY <1>2, <1>5, <2>4
  <2>. QED
    BY <2>1, <2>5
<1>7. ASSUME c # NoCommand, w \notin DOMAIN single
      PROVE  Sole(w) = {c}
  <2>1. PICK t \in Near(w) : /\ single[t] = c
                             /\ \A u \in Near(w) : Distance[w][t] <= Distance[w][u]
                             /\ \A u \in Near(w) : Distance[w][u] = Distance[w][t] => single[u] = c
    BY <1>7 DEF NearestIs
  <2>. DEFINE d == Distance[w][t]
  <2>2. d \in 0 .. reach /\ c \in Commands /\ t \in DOMAIN single /\ t \in Spellings
    BY <1>3, <2>1
  <2>3. d # 0
    BY <1>7, <2>2, DistancesAre
  <2>. HIDE DEF d
  <2>4. d \in 1 .. reach /\ d - 1 \in 0 .. reach /\ d \in 0 .. reach /\ d \in Nat
    BY <1>1, <2>2, <2>3
  <2>5. \A u \in Near(w) : Distance[w][u] \in Nat /\ d <= Distance[w][u]
    BY <1>1, <1>3, <2>1 DEF d
  <2>6. \A u \in Near(w) : ~ (Distance[w][u] <= d - 1)
    BY <2>4, <2>5
  <2>7. \A u \in Near(w) : Distance[w][u] <= d => single[u] = c
    <3>1. \A u \in Near(w) : Distance[w][u] <= d => Distance[w][u] = d
      BY <2>4, <2>5
    <3>. QED
      BY <2>1, <3>1 DEF d
  <2>8. Distance[w][t] <= d
    BY <2>4 DEF d
  <2>9. Reached(w, d) = {c}
    <3>1. c \in Reached(w, d)
      BY <1>2, <2>1, <2>4, <2>8
    <3>2. \A x \in Reached(w, d) : x = c
      BY <1>2, <2>4, <2>7
    <3>. QED
      BY <3>1, <3>2
  <2>10. Reached(w, d - 1) = {}
    <3>. DEFINE e == d - 1
    <3>1. e \in 0 .. reach /\ \A u \in Near(w) : ~ (Distance[w][u] <= e)
      BY <2>4, <2>6
    <3>. HIDE DEF e
    <3>2. Reached(w, e) = {}
      BY <1>2, <3>1
    <3>. QED
      BY <3>2 DEF e
  <2>11. c \in Sole(w)
    BY <1>4, <2>2, <2>4, <2>9, <2>10
  <2>12. \A x \in Sole(w) : x = c
    BY <1>6, <2>1
  <2>. QED
    BY <2>11, <2>12
<1>8. ASSUME c = NoCommand
      PROVE  Sole(w) = {}
  <2>1. SUFFICES ASSUME NEW x \in Sole(w) PROVE FALSE
    OBVIOUS
  <2>2. PICK k \in 1 .. reach : Reached(w, k) = {x}
    BY <1>4, <2>1
  <2>3. x \in Reached(w, k)
    BY <2>2
  <2>4. Near(w) # {}
    BY <1>2, <1>5, <2>3
  <2>5. reach # 0
    BY <1>1
  <2>6. PICK t, u \in Near(w) : /\ single[t] # single[u] /\ Distance[w][t] = Distance[w][u]
                                /\ \A v \in Near(w) : Distance[w][t] <= Distance[w][v]
    BY <1>8, <2>4, <2>5 DEF NearestIs, reach
  <2>7. \A v \in Near(w) : Distance[w][u] <= Distance[w][v]
    BY <2>6
  <2>8. single[t] = x /\ single[u] = x
    BY <1>6, <2>1, <2>6, <2>7
  <2>. QED
    BY <2>6, <2>8
<1>. QED
  BY <1>7, <1>8

-----------------------------------------------------------------------------
(* Reading a line                                                            *)

\* Nothing walked over, nothing found.
LEMMA NothingToFind ==
  ASSUME NEW w, NEW walk \in SetToSeqs({})
  PROVE  FuzzyLookup(w, walk) = NoCommand
<1>. DEFINE reach == FuzzyMaxDistance(Len(w))
            first == [name |-> NoCommand, dist |-> reach + 1, ambiguous |-> FALSE]
            Look(best, i) == IF i = 0 THEN first
                             ELSE Closer(best[i - 1], single[walk[i]], Distance[w][walk[i]])
            Walks(best) == best = [i \in 0 .. Len(walk) |-> Look(best, i)]
            best == CHOOSE b : Walks(b)
<1>1. FuzzyLookup(w, walk) = IF reach = 0 \/ best[Len(walk)].ambiguous
                             THEN NoCommand ELSE best[Len(walk)].name
  BY DEF FuzzyLookup
<1>2. Len(walk) = 0
  <2>1. IsFiniteSet({})
    BY FS_EmptySet
  <2>2. Len(walk) \in Nat /\ walk \in [1 .. Len(walk) -> {}]
    BY <2>1, WalkMeetsAll
  <2>. DEFINE n == Len(walk)
  <2>3. n \in Nat /\ \A i \in 1 .. n : walk[i] \in {}
    BY <2>2
  <2>. HIDE DEF n
  <2>4. n = 0
    <3>1. n # 0 => 1 \in 1 .. n
      BY <2>3
    <3>. QED
      BY <2>3, <3>1
  <2>. QED
    BY <2>4 DEF n
<1>. HIDE DEF first, reach
<1>3. \E b : Walks(b)
  <2>. DEFINE b == [i \in 0 .. Len(walk) |-> first]
  <2>1. \A i \in 0 .. Len(walk) : b[i] = Look(b, i)
    BY <1>2
  <2>2. Walks(b)
    <3>. HIDE DEF Look
    <3>. QED
      BY <2>1
  <2>. QED
    BY <2>2
<1>4. Walks(best)
  <2>. HIDE DEF Walks
  <2>. QED
    BY <1>3
<1>5. best[Len(walk)] = first
  <2>. HIDE DEF best
  <2>. QED
    BY <1>2, <1>4
<1>. HIDE DEF best
<1>6. best[Len(walk)].name = NoCommand
  BY <1>5 DEF first
<1>. QED
  BY <1>1, <1>6

\* Words are sequences, of anything.
Worded(W) == \A w \in W : \E T : w \in Seq(T)

LEMMA BangedBangs == ASSUME NEW T, NEW p \in Seq(T) PROVE Bangs(Banged(p))
<1>. DEFINE S == T \cup {Bang}
<1>1. p \in Seq(S) /\ <<Bang>> \in Seq(S)
  BY SeqMonotonic
<1>. HIDE DEF S
<1>2. Len(<<Bang>> \o p) # 0 /\ (<<Bang>> \o p)[1] = Bang /\ <<Bang>> \o p \in Seq(S)
  BY <1>1
<1>. QED
  BY <1>2 DEF Bangs, Banged

LEMMA UnghostedIs ==
  ASSUME NEW W, NEW params \in Seq(W)
  PROVE  Unghosted(params) \in Seq(W) /\ (params = <<>> => Unghosted(params) = <<>>)
<1>1. params # <<>> => Front(params) \in Seq(W)
  BY DEF Front
<1>. QED
  BY <1>1 DEF Unghosted

\* What opens a line, and what it is said to be when nothing answers to it.
LEMMA OpeningIs ==
  ASSUME NEW W, Worded(W), NEW split \in Seq(W), split # <<>>
  PROVE  /\ Len(split) = 1 => Opening(split).command = split[1]
         /\ NotFound(split) # "talk" => Bangs(Opening(split).command)
<1>. DEFINE params == Unghosted(Tail(split))
<1>1. /\ Tail(split) \in Seq(W) /\ (Len(split) = 1 => Tail(split) = <<>>)
      /\ Len(split) \in Nat /\ Len(split) >= 1
  BY EmptySeq
<1>2. params \in Seq(W) /\ (Len(split) = 1 => params = <<>>)
  BY <1>1, UnghostedIs
<1>. HIDE DEF params
<1>3. Opening(split) = IF split[1] = <<Bang>> /\ params # <<>>
                       THEN [command |-> Banged(params[1]), params |-> Tail(params)]
                       ELSE [command |-> split[1], params |-> params]
  BY DEF Opening, params
<1>4. CASE split[1] = <<Bang>> /\ params # <<>>
  <2>1. params[1] \in W
    BY <1>2, <1>4
  <2>2. PICK T : params[1] \in Seq(T)
    BY <2>1 DEF Worded
  <2>3. Opening(split).command = Banged(params[1])
    BY <1>3, <1>4
  <2>4. Bangs(Banged(params[1]))
    BY <2>2, BangedBangs
  <2>. QED
    BY <1>2, <1>4, <2>3, <2>4
<1>5. CASE ~ (split[1] = <<Bang>> /\ params # <<>>)
  <2>1. Opening(split).command = split[1]
    BY <1>3, <1>5
  <2>2. split[1] = <<Bang>> => Bangs(split[1])
    BY DEF Bangs
  <2>3. NotFound(split) # "talk" => split[1] = <<Bang>> \/ Bangs(split[1])
    BY DEF NotFound
  <2>. QED
    BY <2>1, <2>2, <2>3
<1>. QED
  BY <1>4, <1>5

\* A line keeps its words, but for the way its bang was typed.
LEMMA SplitIs ==
  ASSUME NEW line \in Lines
  PROVE  /\ \E W : Worded(W) /\ Split(line) \in Seq(W)
         /\ Split(line) # <<>> /\ Len(Split(line)) = Len(line)
         /\ Split(line)[1] = NormalizeCommandPrefix(line[1])
         /\ line[1] \in Seq(Range(line[1])) /\ line[1] # <<>>
<1>. DEFINE word == NormalizeCommandPrefix(line[1])
            W == Range(line) \cup {word}
<1>1. line \in Seq(Range(line)) /\ line # <<>> /\ line[1] # <<>>
  BY DispatchConstants DEF IsSequence
<1>2. \A i \in DOMAIN line : line[i] \in Seq(Range(line[i]))
  BY DispatchConstants DEF IsSequence
<1>3. Range(line) = {line[i] : i \in DOMAIN line}
  BY DEF Range
<1>4. 1 \in DOMAIN line
  <2>. DEFINE R == Range(line)
  <2>1. line \in Seq(R)
    BY <1>1
  <2>. HIDE DEF R
  <2>2. 1 \in DOMAIN line
    BY <1>1, <2>1
  <2>. QED
    BY <2>2
<1>5. \A w \in Range(line) : \E T : w \in Seq(T)
  BY <1>2, <1>3
<1>6. \E T : word \in Seq(T)
  <2>. DEFINE R == Range(line[1])
              S == R \cup {Bang}
              first == line[1]
  <2>1. first \in Seq(R) /\ first # <<>>
    BY <1>1, <1>2, <1>4
  <2>. HIDE DEF first, R
  <2>2. Tail(first) \in Seq(R)
    BY <2>1
  <2>3. Tail(first) \in Seq(S) /\ <<Bang>> \in Seq(S)
    BY <2>2, SeqMonotonic
  <2>. HIDE DEF S
  <2>4. <<Bang>> \o Tail(first) \in Seq(S)
    BY <2>3
  <2>5. word = first \/ word = <<Bang>> \o Tail(first)
    BY DEF NormalizeCommandPrefix, Banged, first
  <2>. HIDE DEF word
  <2>. QED
    BY <2>1, <2>4, <2>5
<1>7. Worded(W)
  <2>. HIDE DEF word
  <2>. QED
    BY <1>5, <1>6 DEF Worded
<1>8. line \in Seq(W) /\ <<word>> \in Seq(W)
  <2>1. Range(line) \subseteq W /\ word \in W
    OBVIOUS
  <2>. HIDE DEF W, word
  <2>. QED
    BY <1>1, <2>1, SeqMonotonic
<1>9. Split(line) = <<word>> \o Tail(line)
  BY DEF Split
<1>. HIDE DEF W, word
<1>10. Tail(line) \in Seq(W) /\ Len(Tail(line)) = Len(line) - 1 /\ Len(line) \in Nat
  BY <1>1, <1>8
<1>11. /\ <<word>> \o Tail(line) \in Seq(W) /\ Len(<<word>> \o Tail(line)) = Len(line)
       /\ (<<word>> \o Tail(line))[1] = word /\ Len(line) # 0
  BY <1>1, <1>8, <1>10
<1>12. Split(line) \in Seq(W) /\ Len(Split(line)) = Len(line) /\ Split(line)[1] = word
  BY <1>9, <1>11
<1>13. Split(line) # <<>>
  BY <1>11, <1>12
<1>. QED
  BY <1>1, <1>2, <1>4, <1>7, <1>12, <1>13 DEF word

-----------------------------------------------------------------------------
(* The ways of taking it                                                     *)

LEMMA WaysAre ==
  ASSUME NEW split, NEW walk, NEW o, o = Opening(split), NEW ways, ways = Ways(split, walk)
  PROVE  /\ ways[1] = ByPhrase(split) /\ ways[2] = ByWord(o) /\ ways[3] = ByBareWord(o)
         /\ Bangs(o.command) => /\ ways[4] = ByState(o) /\ ways[5] = ByTypo(o, walk)
                                /\ ways[6] = ByGluedState(o)
         /\ ~ Bangs(o.command) => ways[4] = {} /\ ways[5] = {} /\ ways[6] = {}
BY DEF Ways

\* A run is one of the ways', and none of the ways before it has any.
LEMMA RunIsOfAWay ==
  ASSUME NEW split, NEW walk, NEW ways, ways = Ways(split, walk)
  PROVE  /\ \A run \in FindCommand(split, walk) :
              \E i \in 1 .. 6 : run \in ways[i] /\ \A h \in 1 .. i - 1 : ways[h] = {}
         /\ \A i \in 1 .. 6 : (\A h \in 1 .. i - 1 : ways[h] = {}) =>
              ways[i] \subseteq FindCommand(split, walk)
BY DEF FindCommand

LEMMA NoWayAtAll ==
  ASSUME NEW split, NEW walk, NEW ways, ways = Ways(split, walk),
         FindCommand(split, walk) = {}
  PROVE  \A i \in 1 .. 6 : ways[i] = {}
<1>1. \A i \in 1 .. 6 : (\A h \in 1 .. i - 1 : ways[h] = {}) => ways[i] = {}
  BY RunIsOfAWay
<1>2. ways[1] = {}
  BY <1>1
<1>3. ways[2] = {}
  <2>1. \A h \in 1 .. 2 - 1 : h = 1
    OBVIOUS
  <2>. QED
    BY <1>1, <1>2, <2>1
<1>4. ways[3] = {}
  <2>1. \A h \in 1 .. 3 - 1 : h = 1 \/ h = 2
    OBVIOUS
  <2>. QED
    BY <1>1, <1>2, <1>3, <2>1
<1>5. ways[4] = {}
  <2>1. \A h \in 1 .. 4 - 1 : h = 1 \/ h = 2 \/ h = 3
    OBVIOUS
  <2>. QED
    BY <1>1, <1>2, <1>3, <1>4, <2>1
<1>6. ways[5] = {}
  <2>1. \A h \in 1 .. 5 - 1 : h = 1 \/ h = 2 \/ h = 3 \/ h = 4
    OBVIOUS
  <2>. QED
    BY <1>1, <1>2, <1>3, <1>4, <1>5, <2>1
<1>7. ways[6] = {}
  <2>1. \A h \in 1 .. 6 - 1 : h = 1 \/ h = 2 \/ h = 3 \/ h = 4 \/ h = 5
    OBVIOUS
  <2>. QED
    BY <1>1, <1>2, <1>3, <1>4, <1>5, <1>6, <2>1
<1>8. \A i \in 1 .. 6 : i = 1 \/ i = 2 \/ i = 3 \/ i = 4 \/ i = 5 \/ i = 6
  OBVIOUS
<1>. QED
  BY <1>2, <1>3, <1>4, <1>5, <1>6, <1>7, <1>8

\* The triggers the lookup for a word walks over.
WalkFor(w) == SetToSeqs(IF w \in Typed THEN Near(w) ELSE {})

LEMMA TypoIs ==
  ASSUME LookupsRight, NEW o, NEW walk \in WalkFor(o.command)
  PROVE  /\ o.command \in Typed => NearestIs(FuzzyLookup(o.command, walk), o.command)
         /\ o.command \notin Typed => FuzzyLookup(o.command, walk) = NoCommand
<1>1. CASE o.command \in Typed
  <2>1. walk \in SetToSeqs(Near(o.command))
    BY <1>1 DEF WalkFor
  <2>. QED
    BY <1>1, <2>1, LookupFindsTheNearest
<1>2. CASE o.command \notin Typed
  <2>1. walk \in SetToSeqs({})
    BY <1>2 DEF WalkFor
  <2>. QED
    BY <1>2, <2>1, NothingToFind
<1>. QED
  BY <1>1, <1>2

\* Each way says how, and runs only what runs here.
EnabledHere(c) == c \in Commands /\ CommandEnabled(commands, full, c)
WayRuns(way, how) == \A run \in way : run.how = how /\ EnabledHere(run.cmd)

LEMMA RunsAreEnabled ==
  ASSUME LookupsRight, NEW split, NEW o, NEW walk \in WalkFor(o.command)
  PROVE  /\ WayRuns(ByPhrase(split), "phrase") /\ WayRuns(ByWord(o), "word")
         /\ WayRuns(ByBareWord(o), "bare") /\ WayRuns(ByState(o), "state")
         /\ WayRuns(ByTypo(o, walk), "typo") /\ WayRuns(ByGluedState(o), "glued")
<1>1. /\ \A t \in DOMAIN single : EnabledHere(single[t])
      /\ \A p \in DOMAIN multi : EnabledHere(multi[p])
  BY LookupsAre DEF EnabledHere
<1>2. \A how, c, params : /\ Ran(how, c, params).how = how /\ Ran(how, c, params).cmd = c
  BY DEF Ran
<1>3. WayRuns(ByPhrase(split), "phrase")
  BY <1>1, <1>2 DEF WayRuns, ByPhrase
<1>4. WayRuns(ByWord(o), "word")
  BY <1>1, <1>2 DEF WayRuns, ByWord
<1>5. WayRuns(ByBareWord(o), "bare")
  BY <1>1, <1>2 DEF WayRuns, ByBareWord
<1>6. WayRuns(ByState(o), "state")
  <2>. SUFFICES ASSUME NEW run \in ByState(o)
                PROVE  run.how = "state" /\ EnabledHere(run.cmd)
    BY DEF WayRuns
  <2>. DEFINE state == StateGuessParams(Tail(o.command), o.params)
  <2>1. PICK s \in {state} \ IF GuessCmd \in Indexes THEN {<<>>} ELSE {state} :
          run = Ran("state", GuessCmd, s)
    BY DEF ByState
  <2>2. GuessCmd \in Indexes
    BY <2>1
  <2>3. EnabledHere(GuessCmd)
    BY <1>1, <2>2 DEF Indexes
  <2>. QED
    BY <1>2, <2>1, <2>3
<1>7. WayRuns(ByTypo(o, walk), "typo")
  <2>. SUFFICES ASSUME NEW run \in ByTypo(o, walk)
                PROVE  run.how = "typo" /\ EnabledHere(run.cmd)
    BY DEF WayRuns
  <2>. DEFINE c == FuzzyLookup(o.command, walk)
  <2>1. run = Ran("typo", c, o.params) /\ c # NoCommand
    BY DEF ByTypo
  <2>2. o.command \in Typed /\ NearestIs(c, o.command)
    BY <2>1, TypoIs
  <2>. HIDE DEF c
  <2>3. PICK t \in Near(o.command) : single[t] = c
    BY <2>1, <2>2 DEF NearestIs
  <2>4. t \in DOMAIN single
    BY <2>3 DEF Near
  <2>. QED
    BY <1>1, <1>2, <2>1, <2>3, <2>4
<1>8. WayRuns(ByGluedState(o), "glued")
  <2>. SUFFICES ASSUME NEW run \in ByGluedState(o)
                PROVE  run.how = "glued" /\ EnabledHere(run.cmd)
    BY DEF WayRuns
  <2>1. PICK s \in SplitSpaceless(o.command) : run = Ran("glued", s.cmd, <<s.rest>> \o o.params)
    BY DEF ByGluedState
  <2>2. PICK t \in DOMAIN single :
          s = [cmd |-> single[t], rest |-> SubSeq(o.command, Len(t) + 1, Len(o.command))]
    BY <2>1 DEF SplitSpaceless
  <2>3. s.cmd = single[t]
    BY <2>2
  <2>. QED
    BY <1>1, <1>2, <2>1, <2>3
<1>. QED
  BY <1>3, <1>4, <1>5, <1>6, <1>7, <1>8

\* A trigger is run by its own name.
LEMMA TriggersRun ==
  ASSUME LookupsRight, NEW w \in DOMAIN single
  PROVE  \E run \in FindCommand(<<w>>, <<>>) :
           run.how = "word" /\ CommandEnabled(commands, full, run.cmd)
<1>. DEFINE split == <<w>>
            o == Opening(split)
            ways == Ways(split, <<>>)
            run == Ran("word", single[w], o.params)
<1>1. o.command = w
  <2>1. w \in Seq(Marks)
    BY LookupsAre, TypedAreWords
  <2>2. Worded({w}) /\ split \in Seq({w}) /\ split # <<>> /\ Len(split) = 1 /\ split[1] = w
    BY <2>1 DEF Worded
  <2>. HIDE DEF split
  <2>. QED
    BY <2>2, OpeningIs
<1>2. ByPhrase(split) = {}
  <2>1. SUFFICES ASSUME NEW p \in DOMAIN multi, IsPrefix(p, split) PROVE FALSE
    BY DEF ByPhrase
  <2>2. p \in Seq(Range(p)) /\ Len(p) > 1
    BY LookupsAre DEF IsSequence
  <2>3. Len(p) <= Len(split)
    BY <2>1, <2>2 DEF IsPrefix
  <2>4. Len(split) = 1
    OBVIOUS
  <2>. QED
    BY <2>2, <2>3, <2>4
<1>3. run \in ByWord(o)
  BY <1>1 DEF ByWord
<1>4. run.how = "word" /\ run.cmd = single[w]
  BY DEF Ran
<1>. HIDE DEF o, run, split
<1>5. ways[1] = {} /\ ways[2] = ByWord(o)
  BY <1>2, WaysAre DEF o
<1>. HIDE DEF ways
<1>6. ways[2] \subseteq FindCommand(split, <<>>)
  <2>1. 2 \in 1 .. 6 /\ \A h \in 1 .. 2 - 1 : h = 1
    OBVIOUS
  <2>2. \A h \in 1 .. 2 - 1 : ways[h] = {}
    BY <1>5, <2>1
  <2>. QED
    BY <2>1, <2>2, RunIsOfAWay DEF ways
<1>7. run \in FindCommand(split, <<>>)
  BY <1>3, <1>5, <1>6
<1>8. CommandEnabled(commands, full, single[w])
  BY LookupsAre
<1>. QED
  BY <1>4, <1>7, <1>8 DEF split

-----------------------------------------------------------------------------
(* The help lines                                                            *)

\* The help lines as a function of the lookups.
SaidHere(line, triggers) == Bangs(line[1]) => line[1] \in triggers
KeptOf(help, triggers) ==
  LET kept[i \in 0 .. Len(help)] ==
        IF i = 0 THEN <<>>
        ELSE IF SaidHere(help[i], triggers) THEN Append(kept[i - 1], help[i])
        ELSE kept[i - 1]
  IN kept[Len(help)]

LEMMA KeptAre ==
  ASSUME NEW R, NEW help \in Seq(R), NEW triggers, NEW lines, lines = KeptOf(help, triggers)
  PROVE  /\ lines \in Seq({line \in R : SaidHere(line, triggers)}) /\ Len(lines) \in Nat
         /\ \A i \in 1 .. Len(lines) : SaidHere(lines[i], triggers)
<1>. DEFINE N == Len(help)
            Fit == {line \in R : SaidHere(line, triggers)}
            Also(s, i) == IF SaidHere(help[i], triggers) THEN Append(s, help[i]) ELSE s
            Next1(kept, i) == IF i = 0 THEN <<>>
                              ELSE IF SaidHere(help[i], triggers) THEN Append(kept[i - 1], help[i])
                              ELSE kept[i - 1]
            Walks(kept) == kept = [i \in 0 .. N |-> Next1(kept, i)]
            kept == CHOOSE k : Walks(k)
            F == [i \in 1 .. N |-> [s \in Seq(Fit) |-> Also(s, i)]]
<1>1. lines = kept[N]
  BY DEF KeptOf
<1>2. N \in Nat /\ \A i \in 1 .. N : help[i] \in R
  OBVIOUS
<1>3. \A i \in 1 .. N, s \in Seq(Fit) : Also(s, i) \in Seq(Fit)
  <2>. SUFFICES ASSUME NEW i \in 1 .. N, NEW s \in Seq(Fit)
                PROVE  Also(s, i) \in Seq(Fit)
    OBVIOUS
  <2>1. help[i] \in R
    BY <1>2
  <2>2. SaidHere(help[i], triggers) => help[i] \in Fit
    BY <2>1
  <2>. HIDE DEF Fit
  <2>. QED
    BY <2>2
<1>4. <<>> \in Seq(Fit)
  OBVIOUS
<1>. HIDE DEF N, Fit
<1>5. \E k : Walks(k)
  <2>1. F \in [1 .. N -> [Seq(Fit) -> Seq(Fit)]]
    <3>. HIDE DEF Also
    <3>. QED
      BY <1>3
  <2>2. PICK g \in [0 .. N -> Seq(Fit)] : StepByStep(g, N, <<>>, F)
    <3>. HIDE DEF F
    <3>. QED
      BY <1>2, <1>4, <2>1, StepsExist
  <2>3. ASSUME NEW i \in 0 .. N PROVE g[i] = Next1(g, i)
    <3>1. CASE i = 0
      BY <2>2, <3>1 DEF StepByStep
    <3>2. CASE i # 0
      <4>1. i \in 1 .. N /\ i - 1 \in 0 .. N
        BY <1>2, <3>2
      <4>2. g[i - 1] \in Seq(Fit)
        BY <4>1
      <4>3. g[i] = F[i][g[i - 1]]
        <5>. HIDE DEF F
        <5>. QED
          BY <2>2, <4>1 DEF StepByStep
      <4>4. g[i] = Also(g[i - 1], i)
        <5>. HIDE DEF Also
        <5>. QED
          BY <4>1, <4>2, <4>3
      <4>. QED
        BY <3>2, <4>4
    <3>. QED
      BY <3>1, <3>2
  <2>4. Walks(g)
    <3>. HIDE DEF Next1
    <3>. QED
      BY <2>3
  <2>. QED
    BY <2>4
<1>6. Walks(kept)
  <2>. HIDE DEF Walks
  <2>. QED
    BY <1>5
<1>7. kept[0] = <<>> /\ \A i \in 1 .. N : kept[i] = Also(kept[i - 1], i)
  <2>. HIDE DEF kept
  <2>1. kept[0] = <<>>
    BY <1>2, <1>6
  <2>2. ASSUME NEW i \in 1 .. N PROVE kept[i] = Also(kept[i - 1], i)
    <3>1. i \in 0 .. N /\ i # 0
      BY <1>2
    <3>2. kept[i] = Next1(kept, i)
      <4>. HIDE DEF Next1
      <4>. QED
        BY <1>6, <3>1
    <3>. QED
      BY <3>1, <3>2
  <2>. QED
    BY <2>1, <2>2
<1>. HIDE DEF kept, Also
<1>8. \A n \in 0 .. N : kept[n] \in Seq(Fit)
  <2>1. \A n \in 1 .. N : kept[n - 1] \in Seq(Fit) => kept[n] \in Seq(Fit)
    BY <1>3, <1>7
  <2>. QED
    BY <1>2, <1>4, <1>7, <2>1, StepsStay
<1>9. lines \in Seq(Fit)
  BY <1>1, <1>2, <1>8
<1>10. Len(lines) \in Nat /\ \A i \in 1 .. Len(lines) : lines[i] \in Fit
  BY <1>9
<1>. QED
  BY <1>9, <1>10 DEF Fit

LEMMA HelpIs == HelpMessages = KeptOf(commands.help, DOMAIN single)
BY DEF HelpMessages, Sayable, KeptOf, SaidHere

\* What the bot offers in its help lines runs here.
LEMMA HelpRuns ==
  ASSUME commands \in Tables
  PROVE  /\ Len(HelpMessages) \in Nat /\ (HelpMessages # <<>> => Len(HelpMessages) # 0)
         /\ \A i \in 1 .. Len(HelpMessages) :
              Bangs(HelpMessages[i][1]) => HelpMessages[i][1] \in DOMAIN single
<1>1. commands.help \in Seq(Range(commands.help))
  BY DispatchConstants DEF IsSequence
<1>. DEFINE lines == HelpMessages
            R == Range(commands.help)
<1>2. lines = KeptOf(commands.help, DOMAIN single)
  BY HelpIs
<1>. HIDE DEF lines, R
<1>3. /\ lines \in Seq({line \in R : SaidHere(line, DOMAIN single)}) /\ Len(lines) \in Nat
      /\ \A i \in 1 .. Len(lines) : SaidHere(lines[i], DOMAIN single)
  BY <1>1, <1>2, KeptAre DEF R
<1>4. lines # <<>> => Len(lines) # 0
  BY <1>3
<1>. QED
  BY <1>3, <1>4 DEF lines, SaidHere

-----------------------------------------------------------------------------
(* Lines are understood                                                      *)

\* The values of the variables, apart from their names: a step that leaves the
\* lookups alone leaves alone what is read from them.
ReachedIn(triggers, w, k) ==
  {triggers[t] : t \in {u \in DOMAIN triggers : Bangs(u) /\ \E i \in 0 .. k : u \in Edits[w][i + 1]}}
SoleIn(triggers, w) ==
  {c \in Commands : \E k \in 1 .. FuzzyMaxDistance(Len(w)) :
     ReachedIn(triggers, w, k) = {c} /\ ReachedIn(triggers, w, k - 1) = {}}
OffIn(table, every, w) == {c \in Commands : w \in table.own[c] /\ ~CommandEnabled(table, every, c)}
WordOf(line) == IF line = <<>> THEN <<>> ELSE Opening(Split(line)).command

\* A line was taken for what it was meant to be.
TakenRight(triggers, h) ==
  /\ h.how = "typo" => SoleIn(triggers, WordOf(h.line)) = {h.cmd}
  /\ h.how \in {"glued", "unknown", "wrong_platform"} /\ WordOf(h.line) \in Typed =>
       SoleIn(triggers, WordOf(h.line)) = {}
\* What came of it runs here.
RunsHere(table, every, triggers, h) ==
  /\ h.cmd # NoCommand => CommandEnabled(table, every, h.cmd)
  /\ h.how = "unknown" /\ Len(h.line) = 1 => OffIn(table, every, h.line[1]) = {}
  /\ h.offers \subseteq DOMAIN triggers
\* The next help line is one there is.
InHelp(table, triggers, i) ==
  KeptOf(table.help, DOMAIN triggers) # <<>> => i \in 1 .. Len(KeptOf(table.help, DOMAIN triggers))

\* The invariant: the lookups follow the registry, and with them all that was
\* said.
DispatchInv ==
  /\ LookupsRight
  /\ TakenRight(single, heard) /\ RunsHere(commands, full, single, heard)
  /\ InHelp(commands, single, helpIndex)

LEMMA SoleIs == \A w : Sole(w) = SoleIn(single, w)
BY DEF Sole, SoleIn, Reached, ReachedIn

LEMMA OffIs == \A w : UnindexedCommand(w) = OffIn(commands, full, w)
BY DEF UnindexedCommand, OffIn

LEMMA DispatchStarts == ASSUME DispatchInit PROVE DispatchInv
<1>1. LookupsRight
  BY DEF DispatchInit, LookupsRight
<1>2. heard = Silence
  BY DEF DispatchInit
<1>3. TakenRight(single, heard)
  BY <1>2 DEF TakenRight, Silence
<1>4. RunsHere(commands, full, single, heard)
  BY <1>2 DEF RunsHere, Silence
<1>5. InHelp(commands, single, helpIndex)
  <2>. DEFINE lines == KeptOf(commands.help, DOMAIN single)
  <2>1. helpIndex \in 1 .. Len(lines) \cup {x \in {1} : lines = <<>>}
    BY HelpIs DEF DispatchInit
  <2>. QED
    BY <2>1 DEF InHelp
<1>. QED
  BY <1>1, <1>3, <1>4, <1>5 DEF DispatchInv

\* What was offered runs when it is typed: the rest the invariant says itself.
LEMMA DispatchInvIsEnough == ASSUME DispatchInv PROVE LinesAreUnderstood
<1>1. TypoRunsTheNearest
  <2>. DEFINE w == WordOf(heard.line)
  <2>1. /\ heard.how = "typo" => Sole(w) = {heard.cmd}
        /\ heard.how \in {"glued", "unknown", "wrong_platform"} /\ w \in Typed => Sole(w) = {}
    BY SoleIs DEF DispatchInv, TakenRight
  <2>. QED
    BY <2>1 DEF TypoRunsTheNearest, WordOf
<1>2. OnlyWhatRunsHere
  <2>1. \A w \in heard.offers : w \in DOMAIN single
    BY DEF DispatchInv, RunsHere
  <2>2. \A w \in heard.offers : \E run \in FindCommand(<<w>>, <<>>) :
          run.how = "word" /\ CommandEnabled(commands, full, run.cmd)
    BY <2>1, TriggersRun DEF DispatchInv
  <2>3. heard.cmd # NoCommand => CommandEnabled(commands, full, heard.cmd)
    BY DEF DispatchInv, RunsHere
  <2>4. heard.how = "unknown" /\ Len(heard.line) = 1 => UnindexedCommand(heard.line[1]) = {}
    BY OffIs DEF DispatchInv, RunsHere
  <2>. QED
    BY <2>2, <2>3, <2>4 DEF OnlyWhatRunsHere
<1>. QED
  BY <1>1, <1>2 DEF LinesAreUnderstood

\* A step that leaves the registry and the lookups alone.
LEMMA LookupsStay ==
  ASSUME DispatchInv, UNCHANGED <<commands, full, single, multi>>,
         TakenRight(single, heard'), RunsHere(commands, full, single, heard'),
         InHelp(commands, single, helpIndex')
  PROVE  DispatchInv'
<1>1. LookupsRight'
  BY DEF DispatchInv, LookupsRight
<1>. QED
  BY <1>1 DEF DispatchInv

LEMMA ChatterKeeps == ASSUME DispatchInv, Chatter PROVE DispatchInv'
<1>. DEFINE lines == HelpMessages
            word == lines[helpIndex][1]
<1>1. LookupsRight /\ commands \in Tables /\ HelpMessages # <<>>
  BY DEF DispatchInv, LookupsRight, Chatter
<1>2. helpIndex \in 1 .. Len(lines)
  BY <1>1, HelpIs DEF DispatchInv, InHelp
<1>3. Bangs(word) => word \in DOMAIN single
  BY <1>1, <1>2, HelpRuns
<1>4. /\ heard' = [Silence EXCEPT !.how = "offer", !.offers = {w \in {word} : Bangs(w)}]
      /\ helpIndex' = (helpIndex % Len(lines)) + 1
      /\ UNCHANGED <<commands, full, single, multi>>
  BY DEF Chatter
<1>5. Len(lines) \in Nat /\ Len(lines) # 0
  BY <1>1, HelpRuns
<1>. HIDE DEF word
<1>6. heard'.how = "offer" /\ heard'.cmd = NoCommand /\ heard'.offers = {w \in {word} : Bangs(w)}
  BY <1>4 DEF Silence
<1>7. TakenRight(single, heard')
  BY <1>6 DEF TakenRight
<1>8. RunsHere(commands, full, single, heard')
  BY <1>3, <1>6 DEF RunsHere
<1>9. InHelp(commands, single, helpIndex')
  <2>1. lines = KeptOf(commands.help, DOMAIN single)
    BY HelpIs
  <2>. DEFINE n == Len(lines)
  <2>2. helpIndex' \in 1 .. n
    <3>1. n \in Nat /\ n # 0 /\ helpIndex \in Nat /\ helpIndex' = (helpIndex % n) + 1
      BY <1>2, <1>4, <1>5
    <3>. HIDE DEF n
    <3>2. helpIndex % n \in 0 .. n - 1
      BY <3>1
    <3>. QED
      BY <3>1, <3>2
  <2>. HIDE DEF lines
  <2>. QED
    BY <2>1, <2>2 DEF InHelp
<1>. QED
  BY <1>4, <1>7, <1>8, <1>9, LookupsStay

LEMMA HandledKeeps == ASSUME DispatchInv, Handled PROVE DispatchInv'
<1>1. heard' = Silence /\ UNCHANGED <<commands, full, single, multi, helpIndex>>
  BY DEF Handled
<1>2. TakenRight(single, heard')
  BY <1>1 DEF TakenRight, Silence
<1>3. RunsHere(commands, full, single, heard')
  BY <1>1 DEF RunsHere, Silence
<1>4. InHelp(commands, single, helpIndex')
  BY <1>1 DEF DispatchInv
<1>. QED
  BY <1>1, <1>2, <1>3, <1>4, LookupsStay

\* What is offered runs here.
LEMMA OffersRun == ASSUME NEW params PROVE CommandsOffers(params) \subseteq DOMAIN single
BY DEF CommandsOffers

\* A command that is off is not hidden by the way its bang was typed.
LEMMA OffIsSaid ==
  ASSUME LookupsRight, NEW line \in Lines, Len(line) = 1, NotFound(Split(line)) = "unknown"
  PROVE  UnindexedCommand(line[1]) = {}
<1>. DEFINE first == line[1]
            split == Split(line)
<1>1. /\ split[1] = NormalizeCommandPrefix(first) /\ Len(split) = 1
      /\ first \in Seq(Range(first)) /\ first # <<>>
  BY SplitIs
<1>. HIDE DEF split
<1>2. UnindexedCommand(split[1]) = {}
  <2>1. ~ (Len(split) > 1)
    BY <1>1
  <2>2. NotFound(split) = "unknown"
    BY DEF split
  <2>. QED
    BY <2>1, <2>2 DEF NotFound
<1>3. CASE NormalizeCommandPrefix(first) = first
  BY <1>1, <1>2, <1>3
<1>4. CASE NormalizeCommandPrefix(first) # first
  <2>1. first[1] \in {Inverted, One}
    BY <1>4 DEF NormalizeCommandPrefix
  <2>2. first[1] \notin Marks
    BY <2>1, DispatchConstants DEF Marks
  <2>3. \A c \in Commands : commands.own[c] \subseteq Seq(Marks) \ {<<>>}
    BY DispatchConstants DEF LookupsRight
  <2>. HIDE DEF first
  <2>4. first \notin Seq(Marks)
    <3>1. SUFFICES ASSUME first \in Seq(Marks) PROVE FALSE
      OBVIOUS
    <3>2. first[1] \in Marks
      BY <1>1, <3>1
    <3>. QED
      BY <2>2, <3>2
  <2>5. UnindexedCommand(first) = {}
    BY <2>3, <2>4 DEF UnindexedCommand
  <2>. QED
    BY <2>5 DEF first
<1>. QED
  BY <1>3, <1>4

\* What a run says of the word it was run for.
LEMMA RunIsRight ==
  ASSUME LookupsRight, NEW split, NEW o, o = Opening(split), NEW walk \in WalkFor(o.command),
         NEW run \in FindCommand(split, walk)
  PROVE  /\ EnabledHere(run.cmd) /\ run.how \notin {"unknown", "wrong_platform"}
         /\ run.how = "typo" => Sole(o.command) = {run.cmd}
         /\ run.how = "glued" /\ o.command \in Typed => Sole(o.command) = {}
<1>. DEFINE ways == Ways(split, walk)
            w == o.command
<1>1. /\ ways[1] = ByPhrase(split) /\ ways[2] = ByWord(o) /\ ways[3] = ByBareWord(o)
      /\ Bangs(w) => /\ ways[4] = ByState(o) /\ ways[5] = ByTypo(o, walk)
                     /\ ways[6] = ByGluedState(o)
      /\ ~ Bangs(w) => ways[4] = {} /\ ways[5] = {} /\ ways[6] = {}
  <2>1. ways = Ways(split, walk)
    OBVIOUS
  <2>. HIDE DEF ways
  <2>. QED
    BY <2>1, WaysAre
<1>2. PICK i \in 1 .. 6 : run \in ways[i] /\ \A h \in 1 .. i - 1 : ways[h] = {}
  BY RunIsOfAWay
<1>. HIDE DEF ways
<1>3. /\ WayRuns(ByPhrase(split), "phrase") /\ WayRuns(ByWord(o), "word")
      /\ WayRuns(ByBareWord(o), "bare") /\ WayRuns(ByState(o), "state")
      /\ WayRuns(ByTypo(o, walk), "typo") /\ WayRuns(ByGluedState(o), "glued")
  BY RunsAreEnabled
<1>4. i = 1 \/ i = 2 \/ i = 3 \/ i = 4 \/ i = 5 \/ i = 6
  OBVIOUS
<1>5. CASE i = 1
  BY <1>1, <1>2, <1>3, <1>5 DEF WayRuns
<1>6. CASE i = 2
  BY <1>1, <1>2, <1>3, <1>6 DEF WayRuns
<1>7. CASE i = 3
  BY <1>1, <1>2, <1>3, <1>7 DEF WayRuns
<1>8. CASE i = 4
  <2>1. run \in ByState(o)
    BY <1>1, <1>2, <1>8
  <2>. QED
    BY <1>3, <2>1 DEF WayRuns
<1>9. CASE i = 5
  <2>1. run \in ByTypo(o, walk)
    BY <1>1, <1>2, <1>9
  <2>2. run.how = "typo" /\ EnabledHere(run.cmd)
    BY <1>3, <2>1 DEF WayRuns
  <2>. DEFINE c == FuzzyLookup(w, walk)
  <2>3. run.cmd = c /\ c # NoCommand
    BY <2>1 DEF ByTypo, Ran
  <2>4. w \in Typed /\ NearestIs(c, w)
    BY <2>3, TypoIs
  <2>5. w \notin DOMAIN single
    <3>1. 2 \in 1 .. i - 1
      BY <1>9
    <3>2. ByWord(o) = {}
      BY <1>1, <1>2, <3>1
    <3>. QED
      BY <3>2 DEF ByWord
  <2>. HIDE DEF c, w
  <2>6. Sole(w) = {c}
    BY <2>3, <2>4, <2>5, NearestIsSole
  <2>. QED
    BY <2>2, <2>3, <2>6 DEF w
<1>10. CASE i = 6
  <2>1. Bangs(w) /\ run \in ByGluedState(o)
    BY <1>1, <1>2, <1>10
  <2>2. run.how = "glued" /\ EnabledHere(run.cmd)
    BY <1>3, <2>1 DEF WayRuns
  <2>. DEFINE c == FuzzyLookup(w, walk)
  <2>3. c = NoCommand
    <3>1. 5 \in 1 .. i - 1
      BY <1>10
    <3>2. ByTypo(o, walk) = {}
      BY <1>1, <1>2, <2>1, <3>1
    <3>. QED
      BY <3>2 DEF ByTypo
  <2>4. w \in Typed => NearestIs(c, w)
    BY TypoIs
  <2>. HIDE DEF c, w
  <2>5. w \in Typed => Sole(w) = {}
    BY <2>3, <2>4, NearestIsSole
  <2>. QED
    BY <2>2, <2>5 DEF w
<1>. QED
  BY <1>4, <1>5, <1>6, <1>7, <1>8, <1>9, <1>10

\* Nothing is near a word that no way takes.
LEMMA NothingNear ==
  ASSUME LookupsRight, NEW split, NEW o, o = Opening(split), NEW walk \in WalkFor(o.command),
         FindCommand(split, walk) = {}, Bangs(o.command), o.command \in Typed
  PROVE  Sole(o.command) = {}
<1>. DEFINE ways == Ways(split, walk)
            w == o.command
            c == FuzzyLookup(w, walk)
<1>1. ways = Ways(split, walk)
  OBVIOUS
<1>. HIDE DEF ways
<1>2. ways[5] = {} /\ ways[5] = ByTypo(o, walk)
  BY <1>1, WaysAre, NoWayAtAll
<1>3. c = NoCommand
  BY <1>2 DEF ByTypo
<1>4. NearestIs(c, w)
  BY TypoIs
<1>. HIDE DEF c, w
<1>5. w \in Typed
  BY DEF w
<1>6. Sole(w) = {}
  BY <1>3, <1>4, <1>5, NearestIsSole
<1>. QED
  BY <1>6 DEF w

LEMMA RunCommandKeeps ==
  ASSUME DispatchInv, NEW line \in Lines, RunCommand(line)
  PROVE  DispatchInv'
<1>. DEFINE split == Split(line)
            o == Opening(split)
<1>1. LookupsRight
  BY DEF DispatchInv
<1>2. UNCHANGED <<commands, full, single, multi, helpIndex>>
  BY DEF RunCommand
<1>3. line # <<>> /\ WordOf(line) = o.command
  BY DispatchConstants DEF WordOf
<1>4. InHelp(commands, single, helpIndex')
  BY <1>2 DEF DispatchInv
<1>5. PICK walk \in WalkFor(o.command) :
        \/ \E run \in FindCommand(split, walk) :
             heard' = [line |-> line, how |-> run.how, cmd |-> run.cmd,
                       params |-> Handler(run.cmd, run.params),
                       offers |-> IF run.cmd = CommandsCmd THEN CommandsOffers(run.params) ELSE {}]
        \/ /\ FindCommand(split, walk) = {}
           /\ heard' = [Silence EXCEPT !.line = line, !.how = NotFound(split)]
  BY DEF RunCommand, WalkFor
<1>6. CASE \E run \in FindCommand(split, walk) :
             heard' = [line |-> line, how |-> run.how, cmd |-> run.cmd,
                       params |-> Handler(run.cmd, run.params),
                       offers |-> IF run.cmd = CommandsCmd THEN CommandsOffers(run.params) ELSE {}]
  <2>1. PICK run \in FindCommand(split, walk) :
          /\ heard'.line = line /\ heard'.how = run.how /\ heard'.cmd = run.cmd
          /\ heard'.offers = {} \/ heard'.offers = CommandsOffers(run.params)
    BY <1>6
  <2>. HIDE DEF split
  <2>2. o = Opening(split)
    OBVIOUS
  <2>. HIDE DEF o
  <2>3. /\ EnabledHere(run.cmd) /\ run.how \notin {"unknown", "wrong_platform"}
        /\ run.how = "typo" => Sole(o.command) = {run.cmd}
        /\ run.how = "glued" /\ o.command \in Typed => Sole(o.command) = {}
    BY <1>1, <2>2, RunIsRight
  <2>4. TakenRight(single, heard')
    BY <1>3, <2>1, <2>3, SoleIs DEF TakenRight
  <2>5. RunsHere(commands, full, single, heard')
    BY <2>1, <2>3, OffersRun DEF RunsHere, EnabledHere
  <2>. QED
    BY <1>2, <1>4, <2>4, <2>5, LookupsStay
<1>7. CASE /\ FindCommand(split, walk) = {}
           /\ heard' = [Silence EXCEPT !.line = line, !.how = NotFound(split)]
  <2>1. /\ heard'.line = line /\ heard'.how = NotFound(split) /\ heard'.cmd = NoCommand
        /\ heard'.offers = {}
    BY <1>7 DEF Silence
  <2>2. NotFound(split) \in {"talk", "wrong_platform", "unknown"}
    BY DEF NotFound
  <2>3. NotFound(split) # "talk" => Bangs(o.command)
    <3>1. split # <<>> /\ \E W : Worded(W) /\ split \in Seq(W)
      BY SplitIs
    <3>. HIDE DEF split
    <3>. QED
      BY <3>1, OpeningIs
  <2>4. NotFound(split) = "unknown" /\ Len(line) = 1 => OffIn(commands, full, line[1]) = {}
    BY <1>1, OffIsSaid, OffIs
  <2>. HIDE DEF split
  <2>5. o = Opening(split)
    OBVIOUS
  <2>. HIDE DEF o
  <2>6. Bangs(o.command) /\ o.command \in Typed => Sole(o.command) = {}
    BY <1>1, <1>7, <2>5, NothingNear
  <2>7. TakenRight(single, heard')
    BY <1>3, <2>1, <2>2, <2>3, <2>6, SoleIs DEF TakenRight
  <2>8. RunsHere(commands, full, single, heard')
    BY <2>1, <2>4 DEF RunsHere
  <2>. QED
    BY <1>2, <1>4, <2>7, <2>8, LookupsStay
<1>. QED
  BY <1>5, <1>6, <1>7

\* A misspelled command runs the one command fewest edits away, in whatever
\* order the lookup is walked, and nothing is left unknown that has one; a
\* command that is off here is run by no spelling of it, and whatever the bot
\* offers to be typed, typed, runs (findCommand, fuzzyLookup, levenshtein,
\* indexCommands).
THEOREM LinesAreAlwaysUnderstood == DispatchSpec => []LinesAreUnderstood
<1>1. DispatchInit => DispatchInv
  BY DispatchStarts
<1>2. DispatchInv /\ [DispatchNext]_dispatchVars => DispatchInv'
  <2>1. SUFFICES ASSUME DispatchInv, [DispatchNext]_dispatchVars PROVE DispatchInv'
    OBVIOUS
  <2>2. CASE UNCHANGED dispatchVars
    <3>1. /\ UNCHANGED <<commands, full, single, multi>> /\ helpIndex' = helpIndex
          /\ heard' = heard
      BY <2>2 DEF dispatchVars
    <3>2. /\ TakenRight(single, heard') /\ RunsHere(commands, full, single, heard')
          /\ InHelp(commands, single, helpIndex')
      BY <2>1, <3>1 DEF DispatchInv
    <3>. QED
      BY <2>1, <3>1, <3>2, LookupsStay
  <2>. QED
    BY <2>1, <2>2, ChatterKeeps, HandledKeeps, RunCommandKeeps DEF DispatchNext
<1>3. DispatchInv => LinesAreUnderstood
  BY DispatchInvIsEnough
<1>. QED
  BY <1>1, <1>2, <1>3, PTL DEF DispatchSpec
=============================================================================
