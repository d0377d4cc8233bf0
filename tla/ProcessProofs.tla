---------------------------- MODULE ProcessProofs ----------------------------
(***************************************************************************)
(* What holds of the process around tripbot's services whatever the event  *)
(* types, the platform, the number of pods, their versions and the bounds: *)
(* theorems about EventSub, Egress and Rollout, the casts of MCProcess.    *)
(***************************************************************************)
EXTENDS EventSub, Egress, Rollout,
        FiniteSetTheorems, WellFoundedInduction, TLAPS

(***************************************************************************)
(* EventSub: a round belongs to one session, and says nothing of the next. *)
(*                                                                         *)
(* The gauge can only be wrong if a round writes it outside its session,   *)
(* and the loop can only misread a session's end if it reads the answers   *)
(* of a round that is not over. The invariant ties the round to the phase  *)
(* of the loop, and the answers to the round.                              *)
(***************************************************************************)
Troubled == {"hangups", "faults", "grants", "revocations", "stops"}
Phases == {"dial", "open", "closed", "rest", "stopped"}
Answered == {"none", "refusedToken", "refusedScope", "subscribed", "failed"}

GrantTyped ==
  /\ good \in Nat /\ full \in BOOLEAN /\ arriving \subseteq Events
  /\ row \in Nat /\ token \in Nat /\ presented \in Nat

LoopTyped ==
  /\ phase \in Phases /\ round \in {"none", "pending", "running", "over"}
  /\ known \in BOOLEAN /\ long \in BOOLEAN /\ late \in BOOLEAN
  /\ missing \in BOOLEAN /\ cancelled \in BOOLEAN

CountsTyped ==
  /\ answer \in [Events -> Answered]
  /\ gauge \in [held : Int, denied : Nat, up : BOOLEAN]
  /\ budget \in [Troubled -> Nat] /\ budget.grants <= Outside.grants

EventSubTypeOK == GrantTyped /\ LoopTyped /\ CountsTyped

InSession == phase \in {"open", "closed"}

\* A round is the session's: there is one from the dial to the end, and none between.
RoundIsSessions ==
  /\ InSession <=> round # "none"
  /\ round = "pending" => answer = Unasked
  /\ round = "over" => \A e \in Events : answer[e] # "none"

\* Twitch delivers on an open socket, the types it said yes to.
OnlyOpenDelivers ==
  \A e \in arriving : phase = "open" /\ answer[e] = "subscribed"

LoopInv ==
  EventSubTypeOK /\ RoundIsSessions /\ OnlyOpenDelivers /\ GaugeFallsWithTheSession

\* Answers are counted out of a finite set.
LEMMA CountIsNatural ==
  ASSUME NEW A
  PROVE  Count(A) \in Nat /\ Count(A) <= Cardinality(Events)
<1>1. {e \in Events : answer[e] \in A} \subseteq Events /\ IsFiniteSet(Events)
  BY EventSubConstants
<1>2. QED
  BY <1>1, FS_Subset, FS_CardinalityType DEF Count

\* A count of none is nobody, and a count of all is everybody.
LEMMA CountIsExact ==
  ASSUME NEW A
  PROVE  /\ Count(A) = 0 => \A e \in Events : answer[e] \notin A
         /\ Count(A) = Cardinality(Events) => \A e \in Events : answer[e] \in A
<1> DEFINE S == {e \in Events : answer[e] \in A}
<1>1. IsFiniteSet(Events) /\ S \subseteq Events
  BY EventSubConstants
<1>2. IsFiniteSet(S) /\ (Cardinality(S) = Cardinality(Events) => S = Events)
  BY <1>1, FS_Subset
<1>3. Cardinality(S) = 0 => S = {}
  BY <1>2, FS_EmptySet
<1>4. QED
  BY <1>2, <1>3 DEF Count

LEMMA AllWereRefused ==
  ASSUME round = "over", \A e \in Events : answer[e] # "none", TokenRejected
  PROVE  \A e \in Events : answer[e] = "refusedToken"
<1>1. {e \in Events : answer[e] \in {"none"}} = {}
  OBVIOUS
<1>2. Count({"none"}) = 0
  BY <1>1, FS_EmptySet DEF Count
<1>3. Cardinality(Events) \in Nat
  BY EventSubConstants, FS_CardinalityType
<1>4. Count({"refusedToken"}) = Cardinality(Events)
  BY <1>2, <1>3 DEF TokenRejected, Attempted
<1>5. QED
  BY <1>4, CountIsExact

LEMMA LoopInitially == Init => LoopInv
<1> SUFFICES ASSUME Init PROVE LoopInv
  OBVIOUS
<1> USE EventSubConstants
<1>1. GrantTyped
  BY DEF Init, GrantTyped, NoToken
<1>2. LoopTyped
  BY DEF Init, LoopTyped, Phases
<1>3. CountsTyped
  <2>1. answer \in [Events -> Answered]
    BY DEF Init, Unasked, Answered
  <2>2. QED
    BY <2>1 DEF Init, CountsTyped, Troubled
<1>4. QED
  BY <1>1, <1>2, <1>3 DEF Init, LoopInv, EventSubTypeOK, RoundIsSessions, InSession,
     OnlyOpenDelivers, GaugeFallsWithTheSession

LEMMA BudgetFalls ==
  ASSUME CountsTyped, budget' = budget \/ \E k \in Troubled : Spend(k)
  PROVE  budget' \in [Troubled -> Nat] /\ budget'.grants <= Outside.grants
<1> USE EventSubConstants DEF Troubled
<1>1. budget \in [Troubled -> Nat] /\ budget.grants <= Outside.grants /\ Outside.grants \in Nat
  BY DEF CountsTyped
<1>2. CASE budget' = budget
  BY <1>1, <1>2
<1>3. CASE \E k \in Troubled : Spend(k)
  <2>1. PICK k \in Troubled : Spend(k)
    BY <1>3
  <2>2. budget[k] - 1 \in Nat
    BY <1>1, <2>1 DEF Spend
  <2>3. budget' = [budget EXCEPT ![k] = budget[k] - 1]
    BY <2>1 DEF Spend
  <2>4. budget' \in [Troubled -> Nat]
    BY <1>1, <2>2, <2>3
  <2>5. budget'.grants <= budget.grants
    BY <1>1, <2>2, <2>3
  <2>6. QED
    BY <1>1, <2>4, <2>5
<1>4. QED
  BY <1>2, <1>3

\* The grant's owner, the gateway and the jobs: they move tokens, not sessions.
LEMMA GrantKeepsLoopInv ==
  ASSUME LoopInv, Grant \/ StoreGrant \/ Revoke \/ ReloadTokens \/ Cancel
  PROVE  LoopInv'
<1> USE EventSubConstants
<1>1. EventSubTypeOK /\ UNCHANGED <<session, gauge, missing, known>>
  BY DEF LoopInv, Grant, StoreGrant, Revoke, ReloadTokens, Cancel
<1>2. Granted \in Nat
  BY <1>1 DEF EventSubTypeOK, CountsTyped, Granted, Troubled
<1>3. GrantTyped'
  <2>1. good' \in Nat
    <3>1. CASE Grant
      <4>1. good' = Granted + 1
        BY <3>1, Zenon DEF Grant
      <4>2. QED
        BY <1>2, <4>1
    <3>2. CASE StoreGrant \/ Revoke \/ ReloadTokens \/ Cancel
      BY <1>1, <3>2 DEF EventSubTypeOK, GrantTyped, StoreGrant, Revoke, ReloadTokens, Cancel,
         twitch, NoToken
    <3>3. QED
      BY <3>1, <3>2
  <2>2. full' \in {full, TRUE}
    <3>1. CASE Grant
      BY <3>1, Zenon DEF Grant
    <3>2. CASE StoreGrant \/ Revoke \/ ReloadTokens \/ Cancel
      <4>1. full' = full
        BY <3>2 DEF StoreGrant, Revoke, ReloadTokens, Cancel, twitch
      <4>2. QED
        BY <4>1, Zenon
    <3>3. QED
      BY <3>1, <3>2
  <2>3. row' \in Nat /\ token' \in Nat /\ presented' \in Nat
    BY <1>1 DEF EventSubTypeOK, GrantTyped, Grant, StoreGrant, Revoke, ReloadTokens, Cancel,
       session
  <2>4. arriving' \subseteq Events
    BY <1>1 DEF EventSubTypeOK, GrantTyped, Grant, StoreGrant, Revoke, ReloadTokens, Cancel, twitch
  <2>5. QED
    BY <1>1, <2>1, <2>2, <2>3, <2>4 DEF EventSubTypeOK, GrantTyped
<1>4. LoopTyped'
  BY <1>1 DEF EventSubTypeOK, LoopTyped, Grant, StoreGrant, Revoke, ReloadTokens, Cancel, session
<1>5. budget' \in [Troubled -> Nat] /\ budget'.grants <= Outside.grants
  BY <1>1, BudgetFalls DEF EventSubTypeOK, Troubled, Grant, StoreGrant, Revoke, ReloadTokens,
     Cancel
<1>6. CountsTyped'
  BY <1>1, <1>5 DEF EventSubTypeOK, CountsTyped, session
<1>7. RoundIsSessions' /\ GaugeFallsWithTheSession'
  BY <1>1 DEF LoopInv, RoundIsSessions, InSession, Unasked, GaugeFallsWithTheSession, session
<1>8. arriving' \subseteq arriving
  BY DEF Grant, StoreGrant, Revoke, ReloadTokens, Cancel, twitch
<1>9. OnlyOpenDelivers'
  BY <1>1, <1>8 DEF LoopInv, OnlyOpenDelivers, session
<1>10. QED
  BY <1>3, <1>4, <1>6, <1>7, <1>9 DEF LoopInv, EventSubTypeOK

\* The loop between two sessions.
LEMMA AttemptKeepsLoopInv ==
  ASSUME LoopInv, Attempt \/ Wake \/ NoMoreDials
  PROVE  LoopInv'
<1> USE EventSubConstants
<1>1. EventSubTypeOK /\ RoundIsSessions /\ OnlyOpenDelivers /\ GaugeFallsWithTheSession
  BY DEF LoopInv
<1>2. /\ phase \in {"dial", "rest"} /\ phase' \in Phases \ {"closed"}
      /\ UNCHANGED <<twitch, row, token, late, missing, cancelled>>
      /\ long' \in BOOLEAN /\ known' \in BOOLEAN
      /\ presented' \in {token, presented}
  BY <1>1 DEF Attempt, Wake, NoMoreDials, NotLoaded, Unresolved, NoSocket, Connect, Dials,
     TokenInMemory, Rest, Phases, EventSubTypeOK, LoopTyped
<1>3. \/ phase' \notin {"open", "closed"} /\ round' = round /\ answer' = answer
      \/ phase' = "open" /\ round' = "pending" /\ answer' = Unasked
  BY DEF Attempt, Wake, NoMoreDials, NotLoaded, Unresolved, NoSocket, Connect, Rest
<1>4. gauge' = gauge \/ gauge' = Ended(0)
  BY DEF Attempt, Wake, NoMoreDials, NotLoaded, Unresolved, NoSocket, Connect
<1>5. GrantTyped' /\ LoopTyped'
  BY <1>1, <1>2, <1>3 DEF EventSubTypeOK, GrantTyped, LoopTyped, twitch
<1>6. budget' \in [Troubled -> Nat] /\ budget'.grants <= Outside.grants
  BY <1>1, BudgetFalls DEF EventSubTypeOK, Troubled, Attempt, Wake, NoMoreDials, NotLoaded,
     Unresolved, NoSocket, Connect
<1>7. CountsTyped'
  <2>1. answer' \in [Events -> Answered]
    BY <1>1, <1>3 DEF EventSubTypeOK, CountsTyped, Unasked, Answered
  <2>2. gauge' \in [held : Int, denied : Nat, up : BOOLEAN]
    <3>1. Ended(0) \in [held : Int, denied : Nat, up : BOOLEAN]
      BY DEF Ended
    <3>2. QED
      BY <1>1, <1>4, <3>1 DEF EventSubTypeOK, CountsTyped
  <2>3. QED
    BY <1>6, <2>1, <2>2 DEF CountsTyped
<1>8. arriving = {} /\ arriving' = {}
  BY <1>1, <1>2 DEF OnlyOpenDelivers, twitch
<1>9. RoundIsSessions' /\ OnlyOpenDelivers'
  BY <1>1, <1>2, <1>3, <1>8 DEF RoundIsSessions, InSession, OnlyOpenDelivers
<1>10. GaugeFallsWithTheSession'
  BY <1>1, <1>2, <1>4 DEF GaugeFallsWithTheSession, Ended
<1>11. QED
  BY <1>1, <1>5, <1>7, <1>9, <1>10 DEF LoopInv, EventSubTypeOK

\* The round, on time or late.
LEMMA RoundKeepsLoopInv ==
  ASSUME LoopInv, Welcome \/ Ask \/ RoundOver \/ LateRound
  PROVE  LoopInv'
<1> USE EventSubConstants
<1>1. EventSubTypeOK /\ RoundIsSessions /\ OnlyOpenDelivers /\ GaugeFallsWithTheSession
  BY DEF LoopInv
<1>2. UNCHANGED <<good, full, row, token, known, phase, long, presented, cancelled>>
  BY DEF Welcome, Ask, RoundOver, LateRound, Subscribe, SubscribeFails, Answers, twitch
<1>3. CASE Welcome
  <2>1. EventSubTypeOK'
    BY <1>1, <1>3 DEF Welcome, EventSubTypeOK, GrantTyped, LoopTyped, CountsTyped, twitch
  <2>2. QED
    BY <1>1, <1>3, <2>1 DEF Welcome, LoopInv, RoundIsSessions, InSession, OnlyOpenDelivers,
       GaugeFallsWithTheSession, twitch
<1>4. CASE Ask
  <2>1. PICK e \in Events : Subscribe(e) \/ SubscribeFails(e)
    BY <1>4 DEF Ask
  <2>2. PICK a \in Answered \ {"none"} : Answers(e, a) /\ (a = "subscribed" => phase = "open")
    BY <2>1 DEF Subscribe, SubscribeFails, Verdict, Answered
  <2>3. budget' \in [Troubled -> Nat] /\ budget'.grants <= Outside.grants
    BY <1>1, <2>1, BudgetFalls DEF EventSubTypeOK, Troubled, Subscribe, SubscribeFails
  <2>4. answer' \in [Events -> Answered] /\ arriving' \subseteq Events
    BY <1>1, <2>2 DEF EventSubTypeOK, CountsTyped, GrantTyped, Answers
  <2>5. EventSubTypeOK'
    BY <1>1, <1>2, <2>2, <2>3, <2>4 DEF EventSubTypeOK, GrantTyped, LoopTyped, CountsTyped, Answers
  <2>6. \A d \in Events \ {e} : answer'[d] = answer[d]
    BY <1>1, <2>2 DEF Answers, EventSubTypeOK, CountsTyped
  <2>7. answer[e] = "none" /\ answer'[e] = a
    BY <1>1, <2>2 DEF Answers, EventSubTypeOK, CountsTyped
  <2>8. OnlyOpenDelivers'
    BY <1>1, <1>2, <2>2, <2>6, <2>7 DEF OnlyOpenDelivers, Answers, EventSubTypeOK, GrantTyped
  <2>9. RoundIsSessions' /\ GaugeFallsWithTheSession'
    BY <1>1, <1>2, <2>2 DEF RoundIsSessions, InSession, GaugeFallsWithTheSession, Answers
  <2>10. QED
    BY <2>5, <2>8, <2>9 DEF LoopInv
<1>5. CASE RoundOver
  <2>1. Denied \in Nat /\ Attempted \in Int
    BY CountIsNatural, FS_CardinalityType DEF Denied, Attempted
  <2>2. gauge' \in [held : Int, denied : Nat, up : BOOLEAN]
    BY <1>5, <2>1 DEF RoundOver
  <2>3. EventSubTypeOK'
    BY <1>1, <1>5, <2>2 DEF RoundOver, EventSubTypeOK, GrantTyped, LoopTyped, CountsTyped, twitch
  <2>4. \A e \in Events : answer[e] # "none"
    BY <1>5, CountIsExact DEF RoundOver
  <2>5. QED
    BY <1>1, <1>5, <2>3, <2>4 DEF RoundOver, LoopInv, RoundIsSessions, InSession,
       OnlyOpenDelivers, GaugeFallsWithTheSession, twitch
<1>6. CASE LateRound
  <2>1. EventSubTypeOK'
    BY <1>1, <1>6 DEF LateRound, SkipsLate, EventSubTypeOK, GrantTyped, LoopTyped, CountsTyped, twitch
  <2>2. QED
    BY <1>1, <1>6, <2>1 DEF LateRound, SkipsLate, LoopInv, RoundIsSessions, InSession, OnlyOpenDelivers,
       GaugeFallsWithTheSession, twitch
<1>7. QED
  BY <1>3, <1>4, <1>5, <1>6

\* The end of a session.
LEMMA EndKeepsLoopInv ==
  ASSUME LoopInv, HangUp \/ HangUpUnused \/ CloseOnCancel \/ EndSession
  PROVE  LoopInv'
<1> USE EventSubConstants
<1>1. EventSubTypeOK /\ RoundIsSessions /\ OnlyOpenDelivers /\ GaugeFallsWithTheSession
  BY DEF LoopInv
<1>2. CASE HangUp \/ HangUpUnused \/ CloseOnCancel
  <2>1. Closes
    BY <1>2 DEF HangUp, HangUpUnused, CloseOnCancel
  <2>2. budget' \in [Troubled -> Nat] /\ budget'.grants <= Outside.grants
    BY <1>1, <1>2, BudgetFalls DEF EventSubTypeOK, Troubled, HangUp, HangUpUnused, CloseOnCancel
  <2>3. EventSubTypeOK'
    BY <1>1, <2>1, <2>2 DEF Closes, EventSubTypeOK, GrantTyped, LoopTyped, CountsTyped, Phases
  <2>4. QED
    BY <1>1, <2>1, <2>3 DEF Closes, LoopInv, RoundIsSessions, InSession, OnlyOpenDelivers,
       GaugeFallsWithTheSession
<1>3. CASE EndSession
  <2>1. Denied \in Nat
    BY CountIsNatural DEF Denied
  <2>2. TokenRejected \in BOOLEAN
    BY DEF TokenRejected
  <2>3. GrantTyped' /\ CountsTyped'
    BY <1>1, <1>3, <2>1 DEF EndSession, Ended, EventSubTypeOK, GrantTyped, CountsTyped, twitch
  <2>4. LoopTyped'
    BY <1>1, <1>3, <2>2 DEF EndSession, EventSubTypeOK, LoopTyped, Phases
  <2>5. arriving = {} /\ arriving' = {}
    BY <1>1, <1>3 DEF EndSession, OnlyOpenDelivers, twitch
  <2>6. QED
    BY <1>3, <2>3, <2>4, <2>5 DEF EndSession, Ended, LoopInv, EventSubTypeOK, RoundIsSessions,
       InSession, OnlyOpenDelivers, GaugeFallsWithTheSession
<1>4. QED
  BY <1>2, <1>3

LEMMA LoopInductive == LoopInv /\ [Next]_vars => LoopInv'
<1> SUFFICES ASSUME LoopInv, [Next]_vars PROVE LoopInv'
  OBVIOUS
<1>1. CASE Next
  BY <1>1, GrantKeepsLoopInv, AttemptKeepsLoopInv, RoundKeepsLoopInv, EndKeepsLoopInv DEF Next
<1>2. CASE UNCHANGED vars
  BY <1>2 DEF vars, twitch, session, LoopInv, EventSubTypeOK, GrantTyped, LoopTyped, CountsTyped,
     RoundIsSessions, InSession, Unasked, OnlyOpenDelivers, GaugeFallsWithTheSession
<1>3. QED
  BY <1>1, <1>2

LEMMA LoopInvAlways == Spec => []LoopInv
BY LoopInitially, LoopInductive, PTL DEF Spec

\* Every variable of the EventSub loop keeps its type, for any event types and
\* any number of drops, faults, grants and revocations.
THEOREM EventSubTypeCorrect == Spec => []EventSubTypeOK
<1>1. LoopInv => EventSubTypeOK
  BY DEF LoopInv
<1>2. QED
  BY <1>1, LoopInvAlways, PTL

\* Twitch pushes events of a type only while the loop holds the session open and
\* its call for that type was answered with a yes (handleWelcome, Run).
THEOREM OnlyOpenSessionsDeliver == Spec => []OnlyOpenDelivers
<1>1. LoopInv => OnlyOpenDelivers
  BY DEF LoopInv
<1>2. QED
  BY <1>1, LoopInvAlways, PTL

\* The gauge says that no subscription is held and nothing is up whenever the
\* loop has no session, however late a round runs (Run, handleWelcome).
THEOREM GaugeAlwaysFalls == Spec => []GaugeFallsWithTheSession
<1>1. LoopInv => GaugeFallsWithTheSession
  BY DEF LoopInv
<1>2. QED
  BY <1>1, LoopInvAlways, PTL

\* The loop waits for a reload of the tokens only if it had none, or Twitch
\* refused the one it had for every type (runEventSubLoop, ErrTokenRejected).
THEOREM RestsOnlyForTheToken == Spec => NoNeedlessRest
<1>1. LoopInv /\ [Next]_vars =>
        [phase' = "rest" /\ phase # "rest" /\ long' =>
           presented' = NoToken \/ \A e \in Events : answer[e] = "refusedToken"]_vars
  <2> SUFFICES ASSUME LoopInv, Next, phase' = "rest", phase # "rest", long'
               PROVE  presented' = NoToken \/ \A e \in Events : answer[e] = "refusedToken"
    BY DEF vars
  <2>1. NotLoaded \/ EndSession
    BY DEF Next, Grant, StoreGrant, Revoke, ReloadTokens, Cancel, Attempt, Unresolved, NoSocket,
       Connect, Rest, Welcome, Ask, Subscribe, SubscribeFails, Answers, RoundOver, LateRound,
       HangUp, HangUpUnused, CloseOnCancel, Closes, Wake, NoMoreDials, session
  <2>2. CASE NotLoaded
    BY <2>2 DEF NotLoaded
  <2>3. CASE EndSession
    <3>1. TokenRejected /\ phase = "closed" /\ round # "running"
      BY <2>3 DEF EndSession, WaitsForRound
    <3>2. round \in {"pending", "over"}
      BY <3>1 DEF LoopInv, EventSubTypeOK, LoopTyped, RoundIsSessions, InSession
    <3>3. round # "pending"
      <4> SUFFICES ASSUME round = "pending" PROVE FALSE
        OBVIOUS
      <4>1. {e \in Events : answer[e] \in {"none"}} = Events
        BY DEF LoopInv, RoundIsSessions, Unasked
      <4>2. Attempted = 0
        BY <4>1, EventSubConstants, FS_CardinalityType, SMTT(30) DEF Attempted, Count
      <4>3. QED
        BY <4>2, <3>1 DEF TokenRejected
    <3>4. QED
      BY <3>1, <3>2, <3>3, AllWereRefused DEF LoopInv, RoundIsSessions
  <2>4. QED
    BY <2>1, <2>2, <2>3
<1>2. QED
  BY <1>1, LoopInvAlways, PTL DEF Spec, NoNeedlessRest

(***************************************************************************)
(* Egress: what a live answer and a reported success are worth.            *)
(*                                                                         *)
(* A retained snapshot that shows the channel live was true when it was    *)
(* taken, so the channel was live no earlier than its stamp says, give or  *)
(* take the clocks. A recovery is trusted only once its last step is done, *)
(* and then nothing binds a broadcast before the next one begins.          *)
(***************************************************************************)
EgressStepTyped == step \in {"idle", "stop", "gap", "start", "close", "open"}

\* The steps of YouTube's recovery do not close a room or wait for it.
StepIsOfTheLeg == leg = "youtube" => step \notin {"stop", "gap"}

SnapshotWasTrue ==
  /\ lastLive <= time /\ (Live => lastLive = time)
  /\ retained.live => retained.at - Skew <= lastLive

TrustedIsIdle == trusted => step = "idle"

EgressPlatformTyped ==
  /\ leg \in Legs /\ time \in 0..MaxClock
  /\ room \in {"gone", "pending", "on"} /\ binds \in Nat /\ push \in 0..binds
  /\ lastLive \in -MaxClock..MaxClock
EgressGatewayTyped == gateway \in BOOLEAN /\ retained \in [live : BOOLEAN, at : Int]
EgressCheckTyped == verdict \in {"none", "live", "dark", "unknown"} /\ asking \in BOOLEAN
EgressRecoverTyped ==
  EgressStepTyped /\ failed \in BOOLEAN /\ trusted \in BOOLEAN /\ faults \in 0..MaxFaults

EgressTyped ==
  EgressPlatformTyped /\ EgressGatewayTyped /\ EgressCheckTyped /\ EgressRecoverTyped

EgressInv ==
  EgressTyped /\ StepIsOfTheLeg /\ SnapshotWasTrue /\ TrustedIsIdle /\ RecoveredRoomIsFed

LEMMA EgressTypedInParts == EgressTyped => EgressTypeOK
BY DEF EgressTypeOK, EgressTyped, EgressPlatformTyped, EgressGatewayTyped, EgressCheckTyped,
   EgressRecoverTyped, EgressStepTyped

\* Where each step leads. The step that opens the output is the last one.
NextStep(s) ==
  CASE s = "stop" -> "gap" [] s = "gap" -> "start" [] s = "start" -> "close"
    [] s = "close" -> "open" [] OTHER -> "idle"

LEMMA PlanInOrder ==
  ASSUME EgressTypeOK, StepIsOfTheLeg, step # "idle", NEW err \in BOOLEAN, Proceed(err)
  PROVE  /\ step' = NextStep(step)
         /\ failed' \in BOOLEAN
         /\ trusted' = (step = "open" /\ ~failed')
         /\ verdict' \in {"none", verdict}
<1> DEFINE i == CHOOSE k \in DOMAIN Plan : Plan[k] = step
<1>1. i \in DOMAIN Plan /\ Plan[i] = step
  <2>1. CASE leg = "tiktok"
    <3>1. Plan = <<"stop", "gap", "start", "close", "open">>
      BY <2>1 DEF Plan
    <3>2. \E k \in DOMAIN Plan : Plan[k] = step
      BY <3>1 DEF EgressTypeOK
    <3>3. QED
      BY <3>2
  <2>2. CASE leg = "youtube"
    <3>1. Plan = <<"start", "close", "open">>
      BY <2>2 DEF Plan
    <3>2. \E k \in DOMAIN Plan : Plan[k] = step
      BY <2>2, <3>1 DEF EgressTypeOK, StepIsOfTheLeg
    <3>3. QED
      BY <3>2
  <2>3. QED
    BY <2>1, <2>2, EgressConstants DEF EgressTypeOK
<1>2. /\ step' = IF i = Len(Plan) THEN "idle" ELSE Plan[i + 1]
      /\ failed' = (failed \/ err)
      /\ trusted' = (i = Len(Plan) /\ ~failed')
      /\ verdict' = IF i = Len(Plan) THEN "none" ELSE verdict
  BY DEF Proceed
<1>3. /\ (IF i = Len(Plan) THEN "idle" ELSE Plan[i + 1]) = NextStep(step)
      /\ i = Len(Plan) <=> step = "open"
  <2>1. CASE leg = "tiktok"
    <3>1. Plan = <<"stop", "gap", "start", "close", "open">> /\ Len(Plan) = 5
      BY <2>1 DEF Plan
    <3>2. QED
      BY <1>1, <3>1 DEF NextStep
  <2>2. CASE leg = "youtube"
    <3>1. Plan = <<"start", "close", "open">> /\ Len(Plan) = 3
      BY <2>2 DEF Plan
    <3>2. QED
      BY <1>1, <3>1 DEF NextStep
  <2>3. QED
    BY <2>1, <2>2, EgressConstants DEF EgressTypeOK
<1>4. QED
  BY <1>2, <1>3, Zenon DEF EgressTypeOK

\* What happens around the loop: the platform, the gateway, the operator.
LEMMA WorldKeepsEgressInv ==
  ASSUME EgressInv,
         EgressTick \/ Reap \/ Recognise \/ Forget \/ Publish \/ GatewayGoes
           \/ GatewayReturns \/ Operator
  PROVE  EgressInv'
<1> USE EgressConstants
<1>1. /\ EgressPlatformTyped /\ EgressGatewayTyped /\ EgressCheckTyped /\ EgressRecoverTyped
      /\ StepIsOfTheLeg /\ SnapshotWasTrue /\ TrustedIsIdle /\ RecoveredRoomIsFed
  BY DEF EgressInv, EgressTyped
<1>2. UNCHANGED <<leg, step, failed, verdict, asking>> /\ (trusted' = trusted \/ trusted' = FALSE)
  BY DEF EgressTick, Reap, Recognise, Forget, Publish, GatewayGoes, GatewayReturns, Operator,
     checkVars, recoverVars
<1>3. EgressCheckTyped' /\ StepIsOfTheLeg' /\ TrustedIsIdle'
  BY <1>1, <1>2 DEF EgressCheckTyped, StepIsOfTheLeg, TrustedIsIdle
<1>4. EgressRecoverTyped'
  <2>1. trusted' \in BOOLEAN
    BY <1>1, <1>2 DEF EgressRecoverTyped
  <2>2. faults' \in 0..MaxFaults
    <3>1. \/ faults' = faults
          \/ Fault
      BY DEF EgressTick, Reap, Recognise, Forget, Publish, GatewayGoes, GatewayReturns, Operator
    <3>2. QED
      BY <1>1, <3>1 DEF EgressRecoverTyped, Fault
  <2>3. QED
    BY <1>1, <1>2, <2>1, <2>2 DEF EgressRecoverTyped, EgressStepTyped
<1>5. EgressPlatformTyped'
  <2>1. CASE EgressTick
    BY <1>1, <2>1 DEF EgressTick, EgressPlatformTyped
  <2>2. CASE Publish \/ GatewayGoes \/ GatewayReturns
    BY <1>1, <2>2 DEF Publish, GatewayGoes, GatewayReturns, platformVars, EgressPlatformTyped
  <2>3. CASE Reap \/ Recognise \/ Forget \/ Operator
    BY <1>1, <2>3 DEF Reap, Recognise, Forget, Operator, EgressPlatformTyped, SnapshotWasTrue
  <2>4. QED
    BY <2>1, <2>2, <2>3
<1>6. CASE Publish
  <2>1. PICK off \in -Skew..Skew : retained' = [live |-> Live, at |-> time + off]
    BY <1>6 DEF Publish
  <2>2. UNCHANGED <<platformVars, gateway, time, trusted>>
    BY <1>6 DEF Publish, recoverVars
  <2>3. Live \in BOOLEAN /\ time \in Int /\ lastLive \in Int
    BY <1>1 DEF Live, EgressPlatformTyped
  <2>4. EgressGatewayTyped'
    BY <1>1, <2>1, <2>2, <2>3 DEF EgressGatewayTyped
  <2>5. retained'.live = Live /\ retained'.at - Skew <= time
    BY <2>1, <2>3
  <2>6. SnapshotWasTrue'
    BY <1>1, <2>2, <2>5 DEF SnapshotWasTrue, Live, platformVars
  <2>7. RecoveredRoomIsFed'
    BY <1>1, <2>2 DEF RecoveredRoomIsFed, platformVars
  <2>8. QED
    BY <1>3, <1>4, <1>5, <2>4, <2>6, <2>7 DEF EgressInv, EgressTyped
<1>7. CASE EgressTick \/ Reap \/ Recognise \/ Forget \/ GatewayGoes \/ GatewayReturns \/ Operator
  <2>1. UNCHANGED <<binds, retained>> /\ (gateway' = gateway \/ gateway' = TRUE \/ gateway' = FALSE)
    BY <1>7 DEF EgressTick, Reap, Recognise, Forget, GatewayGoes, GatewayReturns, Operator,
       platformVars, gatewayVars
  <2>2. EgressGatewayTyped'
    BY <1>1, <2>1 DEF EgressGatewayTyped
  <2>3. SnapshotWasTrue'
    <3>1. time \in Int /\ lastLive \in Int /\ retained.at \in Int /\ Skew \in Int
      BY <1>1 DEF EgressPlatformTyped, EgressGatewayTyped
    <3>2. lastLive <= lastLive' /\ lastLive' <= time' /\ (room' = "on" => lastLive' = time')
      BY <1>1, <1>7, <3>1 DEF EgressTick, Reap, Recognise, Forget, GatewayGoes, GatewayReturns,
         Operator, SnapshotWasTrue, Live, platformVars
    <3>3. lastLive' \in Int
      BY <1>5 DEF EgressPlatformTyped
    <3>4. retained'.live => retained'.at - Skew <= lastLive'
      BY <1>1, <2>1, <3>1, <3>2, <3>3 DEF SnapshotWasTrue
    <3>5. QED
      BY <3>2, <3>4 DEF SnapshotWasTrue, Live
  <2>4. trusted' => trusted /\ push' = push
    BY <1>7 DEF EgressTick, Reap, Recognise, Forget, GatewayGoes, GatewayReturns, Operator,
       platformVars, recoverVars
  <2>5. RecoveredRoomIsFed'
    BY <1>1, <2>1, <2>4 DEF RecoveredRoomIsFed
  <2>6. QED
    BY <1>3, <1>4, <1>5, <2>2, <2>3, <2>5 DEF EgressInv, EgressTyped
<1>8. QED
  BY <1>6, <1>7

\* The live-check writes nothing but its own answer.
LEMMA CheckKeepsEgressInv ==
  ASSUME EgressInv, Check \/ Poll
  PROVE  EgressInv'
<1> USE EgressConstants
<1>1. /\ EgressPlatformTyped /\ EgressGatewayTyped /\ EgressCheckTyped /\ EgressRecoverTyped
      /\ StepIsOfTheLeg /\ SnapshotWasTrue /\ TrustedIsIdle /\ RecoveredRoomIsFed
  BY DEF EgressInv, EgressTyped
<1>2. UNCHANGED <<leg, time, platformVars, gatewayVars, recoverVars>>
  BY DEF Check, Poll
<1>3. verdict' \in {verdict, "live", "dark", "unknown"} /\ asking' \in {asking, TRUE, FALSE}
  BY DEF Check, Poll
<1>4. \/ faults' = faults
      \/ faults' = faults + 1 /\ faults < MaxFaults
  BY DEF Check, Poll, Fault
<1>5. EgressPlatformTyped' /\ EgressGatewayTyped'
  BY <1>1, <1>2 DEF EgressPlatformTyped, EgressGatewayTyped, platformVars, gatewayVars
<1>6. EgressCheckTyped'
  BY <1>1, <1>3 DEF EgressCheckTyped
<1>7. EgressRecoverTyped'
  <2>1. faults' \in 0..MaxFaults
    BY <1>1, <1>4 DEF EgressRecoverTyped
  <2>2. QED
    BY <1>1, <1>2, <2>1 DEF EgressRecoverTyped, EgressStepTyped, recoverVars
<1>8. QED
  BY <1>1, <1>2, <1>5, <1>6, <1>7 DEF EgressInv, EgressTyped, StepIsOfTheLeg, SnapshotWasTrue,
     Live, TrustedIsIdle, RecoveredRoomIsFed, platformVars, gatewayVars, recoverVars

\* A step of the recovery takes the loop to the next one, or ends it.
LEMMA RecoverKeepsEgressInv ==
  ASSUME EgressInv,
         Declare \/ StopEgress \/ Gap \/ StartEgress \/ CloseOutput \/ OpenOutput
  PROVE  EgressInv'
<1> USE EgressConstants
<1>1. /\ EgressPlatformTyped /\ EgressGatewayTyped /\ EgressCheckTyped /\ EgressRecoverTyped
      /\ StepIsOfTheLeg /\ SnapshotWasTrue /\ TrustedIsIdle /\ RecoveredRoomIsFed
  BY DEF EgressInv, EgressTyped
<1>2. EgressTypeOK
  BY EgressTypedInParts DEF EgressInv
<1>3. UNCHANGED <<leg, time, gatewayVars, asking>>
  BY DEF Declare, StopEgress, Gap, StartEgress, CloseOutput, OpenOutput, checkVars
<1>4. faults' \in 0..MaxFaults
  <2>1. \/ faults' = faults
        \/ Fault
    BY DEF Declare, StopEgress, Gap, StartEgress, CloseOutput, OpenOutput
  <2>2. QED
    BY <1>1, <2>1 DEF EgressRecoverTyped, Fault
<1>5. \/ Declare
      \/ Abort /\ step # "idle"
      \/ \E err \in BOOLEAN : Proceed(err) /\ step # "idle"
  BY DEF StopEgress, Gap, StartEgress, CloseOutput, OpenOutput, Refused
<1>6. /\ EgressStepTyped' /\ StepIsOfTheLeg'
      /\ failed' \in BOOLEAN /\ trusted' \in BOOLEAN
      /\ verdict' \in {"none", verdict}
      /\ trusted' => step = "open" /\ step' = "idle" /\ ~Abort
  <2>1. CASE Declare
    <3>1. step' = IF leg = "tiktok" THEN "stop" ELSE "start"
      BY <2>1 DEF Declare, Plan
    <3>2. QED
      BY <1>3, <2>1, <3>1 DEF Declare, EgressStepTyped, StepIsOfTheLeg, checkVars
  <2>2. CASE Abort
    <3>1. step' = "idle" /\ failed' = TRUE /\ trusted' = FALSE /\ verdict' = "none"
      BY <2>2 DEF Abort
    <3>2. QED
      BY <3>1 DEF EgressStepTyped, StepIsOfTheLeg
  <2>3. CASE \E err \in BOOLEAN : Proceed(err) /\ step # "idle"
    <3>1. PICK err \in BOOLEAN : Proceed(err) /\ step # "idle"
      BY <2>3
    <3>2. /\ step' = NextStep(step) /\ failed' \in BOOLEAN
          /\ trusted' = (step = "open" /\ ~failed') /\ verdict' \in {"none", verdict}
      BY <1>1, <1>2, <3>1, PlanInOrder
    <3>3. step' \in {"gap", "start", "close", "open", "idle"} /\ (step' = "gap" => step = "stop")
      BY <3>2 DEF NextStep
    <3>4. step = "open" => step' = "idle"
      BY <3>2 DEF NextStep
    <3>5. EgressStepTyped' /\ StepIsOfTheLeg'
      BY <1>1, <1>3, <3>3 DEF EgressStepTyped, StepIsOfTheLeg
    <3>6. trusted' \in BOOLEAN /\ (trusted' => step = "open" /\ step' = "idle")
      BY <3>2, <3>4, Zenon
    <3>7. trusted' => ~Abort
      BY DEF Abort
    <3>8. QED
      BY <3>2, <3>5, <3>6, <3>7
  <2>4. QED
    BY <1>5, <2>1, <2>2, <2>3
<1>7. \/ UNCHANGED <<room, binds, lastLive>>
      \/ UNCHANGED <<binds, lastLive>> /\ room' = "gone"
      \/ Mint /\ step = "start"
  BY DEF Declare, StopEgress, Gap, StartEgress, CloseOutput, OpenOutput, NoMint, platformVars
<1>8. push' = push \/ push' = 0 \/ push' = binds
  BY DEF Declare, StopEgress, Gap, StartEgress, CloseOutput, OpenOutput, platformVars
<1>9. EgressPlatformTyped' /\ SnapshotWasTrue'
  BY <1>1, <1>3, <1>7, <1>8 DEF EgressPlatformTyped, EgressGatewayTyped, SnapshotWasTrue, Live,
     Mint, gatewayVars
<1>10. EgressGatewayTyped' /\ EgressCheckTyped' /\ EgressRecoverTyped'
  BY <1>1, <1>3, <1>4, <1>6 DEF EgressGatewayTyped, EgressCheckTyped, EgressRecoverTyped, gatewayVars
<1>11. RecoveredRoomIsFed' /\ TrustedIsIdle'
  <2>1. trusted' => OpenOutput
    BY <1>6 DEF Declare, StopEgress, Gap, StartEgress, CloseOutput
  <2>2. trusted' => push' = binds /\ binds' = binds
    BY <1>6, <2>1 DEF OpenOutput
  <2>3. QED
    BY <1>6, <2>2 DEF RecoveredRoomIsFed, TrustedIsIdle
<1>12. QED
  BY <1>6, <1>9, <1>10, <1>11 DEF EgressInv, EgressTyped

LEMMA EgressInitially == EgressInit => EgressInv
<1> SUFFICES ASSUME EgressInit PROVE EgressInv
  OBVIOUS
<1> USE EgressConstants DEF EgressInit
<1>1. EgressPlatformTyped /\ EgressCheckTyped /\ EgressRecoverTyped
  <2>1. EgressPlatformTyped
    <3>1. 0 \in 0..MaxClock /\ 0 \in -MaxClock..MaxClock /\ 1 \in 0..1
      OBVIOUS
    <3>2. QED
      BY <3>1 DEF EgressPlatformTyped
  <2>2. EgressCheckTyped /\ EgressRecoverTyped
    <3>1. 0 \in 0..MaxFaults
      OBVIOUS
    <3>2. QED
      BY <3>1 DEF EgressCheckTyped, EgressRecoverTyped, EgressStepTyped
  <2>3. QED
    BY <2>1, <2>2
<1>2. EgressGatewayTyped /\ ~retained.live
  <2>1. -1000 \in Int
    OBVIOUS
  <2>2. QED
    BY <2>1 DEF EgressGatewayTyped, Unpublished
<1>3. QED
  BY <1>1, <1>2 DEF EgressInv, EgressTyped, StepIsOfTheLeg, SnapshotWasTrue, Live, TrustedIsIdle,
     RecoveredRoomIsFed

LEMMA EgressInductive == EgressInv /\ [EgressNext]_egressVars => EgressInv'
<1> SUFFICES ASSUME EgressInv, [EgressNext]_egressVars PROVE EgressInv'
  OBVIOUS
<1>1. CASE EgressNext
  BY <1>1, WorldKeepsEgressInv, CheckKeepsEgressInv, RecoverKeepsEgressInv DEF EgressNext
<1>2. CASE UNCHANGED egressVars
  <2>1. EgressTyped'
    BY <1>2 DEF egressVars, platformVars, gatewayVars, checkVars, recoverVars, EgressInv,
       EgressTyped, EgressPlatformTyped, EgressGatewayTyped, EgressCheckTyped, EgressRecoverTyped,
       EgressStepTyped
  <2>2. QED
    BY <1>2, <2>1 DEF egressVars, platformVars, gatewayVars, checkVars, recoverVars, EgressInv,
       StepIsOfTheLeg, SnapshotWasTrue, Live, TrustedIsIdle, RecoveredRoomIsFed
<1>3. QED
  BY <1>1, <1>2

LEMMA EgressInvAlways == EgressSpec => []EgressInv
BY EgressInitially, EgressInductive, PTL DEF EgressSpec

\* Every variable of the egress leg keeps its type, for either platform and any
\* bounds.
THEOREM EgressTypeCorrect == EgressSpec => []EgressTypeOK
<1>1. EgressInv => EgressTypeOK
  BY EgressTypedInParts DEF EgressInv
<1>2. QED
  BY <1>1, EgressInvAlways, PTL

\* A recovery that returned no error, and that nothing befell since, left OBS's
\* session on the broadcast that stands (remintTikTokEgress, restartYouTubeOutput).
THEOREM RecoveredRoomIsAlwaysFed == EgressSpec => []RecoveredRoomIsFed
<1>1. EgressInv => RecoveredRoomIsFed
  BY DEF EgressInv
<1>2. QED
  BY <1>1, EgressInvAlways, PTL

\* A check that takes the channel for live is no staler than the snapshot's age
\* limit and the difference of the two clocks, for any limit, any difference and
\* a snapshot of any age in the broker (snapshotThenPoll, egress_snapshot.go).
THEOREM LiveAnswersAreFresh == EgressSpec => LiveAnswerIsFresh
<1>1. EgressInv /\ [EgressNext]_egressVars =>
        [(Check \/ Poll) /\ ~asking' /\ verdict' = "live" =>
            time - lastLive <= MaxAge + Skew]_egressVars
  <2> SUFFICES ASSUME EgressInv, Check \/ Poll, ~asking', verdict' = "live"
               PROVE  time - lastLive <= MaxAge + Skew
    OBVIOUS
  <2>1. /\ time \in Int /\ lastLive \in Int /\ retained.at \in Int
        /\ MaxAge \in Nat /\ Skew \in Nat
    BY EgressConstants DEF EgressInv, EgressTyped, EgressPlatformTyped, EgressGatewayTyped
  <2>2. CASE Check
    <3>1. Fresh(retained.at) /\ retained.live
      BY <2>2 DEF Check
    <3>2. retained.at - Skew <= lastLive /\ time - retained.at <= MaxAge
      BY <3>1 DEF Fresh, EgressInv, SnapshotWasTrue
    <3>3. QED
      BY <2>1, <3>2
  <2>3. CASE Poll
    <3>1. Live
      BY <2>3 DEF Poll
    <3>2. lastLive = time
      BY <3>1 DEF EgressInv, SnapshotWasTrue
    <3>3. QED
      BY <2>1, <3>2
  <2>4. QED
    BY <2>2, <2>3
<1>2. QED
  BY <1>1, EgressInvAlways, PTL DEF EgressSpec, LiveAnswerIsFresh

-----------------------------------------------------------------------------
(***************************************************************************)
(* Rollout: a change of pods is accounted for.                             *)
(*                                                                         *)
(* Four invariants, each inductive given the ones before it: the order of  *)
(* the pods and their times, the deploy rows, the orphaned sessions, and   *)
(* the miles.                                                              *)
(***************************************************************************)

(***************************************************************************)
(* Pods start in order, and one at a time.                                 *)
(*                                                                         *)
(* Everything rests on OneBoots: a pod that is alive and has not reached   *)
(* the end of Run is the newest.                                           *)
(***************************************************************************)
PodRecords ==
  [st : {"none", "up", "stopping", "closing", "gone", "dead"},
   done : 0..Len(Run), build : Versions \cup {Unread}, own : Nat,
   ready : 0..LastTick, born : 0..LastTick, told : 0..LastTick,
   seen : Versions \cup {Unread, ""}, on : BOOLEAN, miles : Nat,
   since : Nat, count : SUBSET Nat]

PodsTyped == pod \in [Pods -> PodRecords]
RowsTyped ==
  /\ stored \in Nat /\ watched \in Nat
  /\ opened \in Seq(Pods) /\ paired \subseteq DOMAIN opened
  /\ deploys \in Seq(Versions)
ClockTyped == clock \in 0..LastTick /\ mishaps \in 0..MaxDeaths /\ blind \in BOOLEAN

LEMMA PodsAreNaturals ==
  /\ Cardinality(Pods) \in Nat /\ \A p \in Pods : p \in Nat /\ p >= 1
  /\ \A p \in Pods : \A q \in Nat : q >= 1 /\ q <= p => q \in Pods
<1>1. Cardinality(Pods) \in Nat /\ Pods = 1..Cardinality(Pods)
  BY RolloutConstants, FS_CardinalityType
<1>2. QED
  BY <1>1

LEMMA LowestExists ==
  ASSUME NEW T, T \subseteq Nat, T # {}
  PROVE  \E x \in T : \A y \in T : ~ (y < x)
<1>1. PICK x \in T : \A y \in T : ~ (<<y, x>> \in OpToRel(<, Nat))
  BY NatLessThanWellFounded, WFMin
<1>2. \A y \in T : y < x => <<y, x>> \in OpToRel(<, Nat)
  BY DEF OpToRel
<1>3. QED
  BY <1>1, <1>2

\* The steps of Run by their numbers.
LEMMA RunInOrder ==
  ASSUME PodsTyped, NEW p \in Pods
  PROVE  /\ Len(Run) = 5 /\ pod[p].done \in 0..5
         /\ Has(p, "serve")   <=> pod[p].done >= 1
         /\ Has(p, "orphans") <=> pod[p].done >= 3
         /\ Has(p, "cron")    <=> pod[p].done = 5
         /\ Next1(p, "serve")    <=> pod[p].done = 0
         /\ Next1(p, "deploy")   <=> pod[p].done = 1
         /\ Next1(p, "orphans")  <=> pod[p].done = 2
         /\ Next1(p, "presence") <=> pod[p].done = 3
         /\ Next1(p, "cron")     <=> pod[p].done = 4
<1>1. /\ Run = <<"serve", "deploy", "orphans", "presence", "cron">> /\ Len(Run) = 5
      /\ Run[1] = "serve" /\ Run[2] = "deploy" /\ Run[3] = "orphans"
      /\ Run[4] = "presence" /\ Run[5] = "cron"
  BY DEF Run
<1>2. pod[p].done \in 0..5
  BY <1>1 DEF PodsTyped, PodRecords
<1>3. \A k \in 1..pod[p].done : k \in {1, 2, 3, 4, 5}
  BY <1>2
<1>4. /\ Has(p, "serve")   <=> pod[p].done >= 1
      /\ Has(p, "orphans") <=> pod[p].done >= 3
      /\ Has(p, "cron")    <=> pod[p].done = 5
  BY <1>1, <1>2, <1>3 DEF Has
<1>5. QED
  BY <1>1, <1>2, <1>4 DEF Next1

-----------------------------------------------------------------------------
(* What each action does to the pods *)

Others(p) == \A q \in Pods \ {p} : pod'[q] = pod[q]

LEMMA ClockTicksDoes ==
  ASSUME PodsTyped, ClockTicks
  PROVE  /\ PodsTyped'
         /\ \A p \in Pods :
              /\ pod'[p].st = pod[p].st /\ pod'[p].done = pod[p].done
              /\ pod'[p].build = pod[p].build /\ pod'[p].own = pod[p].own
              /\ pod'[p].ready = pod[p].ready /\ pod'[p].born = pod[p].born
              /\ pod'[p].told = pod[p].told /\ pod'[p].seen = pod[p].seen
              /\ pod'[p].on = pod[p].on /\ pod'[p].miles = pod[p].miles
              /\ pod'[p].count = pod[p].count
              /\ pod'[p].since = IF p \in Alive /\ pod[p].on THEN pod[p].since + 1 ELSE pod[p].since
<1> DEFINE Older(p) == [pod[p] EXCEPT !.since = @ + 1]
<1>1. pod' = [p \in Pods |-> IF p \in Alive /\ pod[p].on THEN Older(p) ELSE pod[p]]
  BY DEF ClockTicks
<1>2. ASSUME NEW p \in Pods
      PROVE  /\ Older(p) \in PodRecords
             /\ Older(p).st = pod[p].st /\ Older(p).done = pod[p].done
             /\ Older(p).build = pod[p].build /\ Older(p).own = pod[p].own
             /\ Older(p).ready = pod[p].ready /\ Older(p).born = pod[p].born
             /\ Older(p).told = pod[p].told /\ Older(p).seen = pod[p].seen
             /\ Older(p).on = pod[p].on /\ Older(p).miles = pod[p].miles
             /\ Older(p).count = pod[p].count /\ Older(p).since = pod[p].since + 1
  <2>1. pod[p] \in PodRecords /\ pod[p].since \in Nat
    BY DEF PodsTyped, PodRecords
  <2>2. pod[p].since + 1 \in Nat
    BY <2>1
  <2>3. QED
    BY <2>1, <2>2 DEF PodRecords
<1>3. QED
  BY <1>1, <1>2 DEF PodsTyped

LEMMA UnbornIsTyped ==
  /\ Unborn \in PodRecords
  /\ Unborn.st = "none" /\ Unborn.done = 0 /\ Unborn.own = 0 /\ Unborn.seen = Unread
  /\ Unborn.on = FALSE /\ Unborn.since = 0 /\ Unborn.count = NotYet
BY RolloutConstants DEF Unborn, PodRecords, NotYet, Run

LEMMA LaunchDoes ==
  ASSUME PodsTyped, NEW p \in Pods, Launch(p)
  PROVE  /\ PodsTyped' /\ Others(p)
         /\ pod[p].st = "none" /\ pod'[p].st = "up" /\ pod'[p].done = 0 /\ pod'[p].own = 0
         /\ pod'[p].seen = Unread /\ pod'[p].on = FALSE /\ pod'[p].since = 0
         /\ pod'[p].count = NotYet /\ pod'[p].build \in Versions
<1>1. PICK v \in Versions : pod' = [pod EXCEPT ![p] = [Unborn EXCEPT !.st = "up", !.build = v]]
  BY DEF Launch, Set
<1>2. DEFINE new == [Unborn EXCEPT !.st = "up", !.build = v]
<1>3. /\ new \in PodRecords
      /\ new.st = "up" /\ new.done = 0 /\ new.own = 0 /\ new.seen = Unread /\ new.on = FALSE
      /\ new.since = 0 /\ new.count = NotYet /\ new.build = v
  BY UnbornIsTyped DEF PodRecords
<1>4. QED
  BY <1>1, <1>3 DEF PodsTyped, Others, Launch

LEMMA OverDoes ==
  ASSUME PodsTyped, NEW p \in Pods, NEW how \in {"gone", "dead"}, Set(p, Over(p, how))
  PROVE  /\ PodsTyped' /\ Others(p)
         /\ pod'[p].st = how /\ pod'[p].done = 0 /\ pod'[p].own = pod[p].own
         /\ pod'[p].on = FALSE /\ pod'[p].since = 0 /\ pod'[p].count = pod[p].count
<1>1. pod[p] \in PodRecords
  BY DEF PodsTyped
<1>2. /\ Over(p, how) \in PodRecords
      /\ Over(p, how).st = how /\ Over(p, how).done = 0 /\ Over(p, how).own = pod[p].own
      /\ Over(p, how).on = FALSE /\ Over(p, how).since = 0 /\ Over(p, how).count = pod[p].count
  BY <1>1, UnbornIsTyped DEF Over, PodRecords
<1>3. QED
  BY <1>2 DEF Set, PodsTyped, Others

\* A step of Run, with what it notes down.
LEMMA TookDoes ==
  ASSUME PodsTyped, NEW p \in Pods, pod[p].done < 5
  PROVE  /\ Took(p) \in PodRecords /\ Took(p).done = pod[p].done + 1
         /\ Took(p).st = pod[p].st /\ Took(p).own = pod[p].own /\ Took(p).ready = pod[p].ready
         /\ Took(p).born = pod[p].born /\ Took(p).told = pod[p].told /\ Took(p).seen = pod[p].seen
         /\ Took(p).build = pod[p].build /\ Took(p).on = pod[p].on /\ Took(p).miles = pod[p].miles
         /\ Took(p).since = pod[p].since /\ Took(p).count = pod[p].count
<1>1. pod[p] \in PodRecords /\ pod[p].done + 1 \in 0..5 /\ Len(Run) = 5
  BY RunInOrder DEF PodsTyped
<1>2. QED
  BY <1>1 DEF Took, PodRecords

LEMMA TellDoes ==
  ASSUME PodsTyped, clock \in 0..LastTick, NEW p \in Pods, Tell(p)
  PROVE  /\ PodsTyped' /\ Others(p) /\ pod[p].st = "up"
         /\ pod'[p].st = "stopping" /\ pod'[p].told = clock
         /\ pod'[p].done = pod[p].done /\ pod'[p].own = pod[p].own /\ pod'[p].ready = pod[p].ready
         /\ pod'[p].born = pod[p].born /\ pod'[p].seen = pod[p].seen /\ pod'[p].on = pod[p].on
         /\ pod'[p].miles = pod[p].miles /\ pod'[p].since = pod[p].since
         /\ pod'[p].count = pod[p].count /\ pod'[p].build = pod[p].build
<1>1. pod[p] \in PodRecords
  BY DEF PodsTyped
<1>2. DEFINE new == [pod[p] EXCEPT !.st = "stopping", !.told = clock]
<1>3. /\ new \in PodRecords /\ new.st = "stopping" /\ new.told = clock
      /\ new.done = pod[p].done /\ new.own = pod[p].own /\ new.ready = pod[p].ready
      /\ new.born = pod[p].born /\ new.seen = pod[p].seen /\ new.on = pod[p].on
      /\ new.miles = pod[p].miles /\ new.since = pod[p].since /\ new.count = pod[p].count
      /\ new.build = pod[p].build
  BY <1>1 DEF PodRecords
<1>4. pod' = [pod EXCEPT ![p] = new] /\ pod[p].st = "up"
  BY DEF Tell, Set
<1>5. QED
  BY <1>3, <1>4 DEF PodsTyped, Others

\* The steps of Run: what each changes besides the count of steps.
LEMMA BootDoes ==
  ASSUME PodsTyped, RowsTyped, clock \in 0..LastTick, NEW p \in Pods,
         \/ Serve(p) \/ RecordDeploy(p) \/ StartOrphanWatch(p) \/ SeeWhoIsThere(p) \/ StartCron(p)
  PROVE  /\ PodsTyped' /\ Others(p) /\ p \in Alive /\ pod'[p].st = pod[p].st
         /\ pod[p].done < 5 /\ pod'[p].done = pod[p].done + 1
         /\ pod'[p].told = pod[p].told /\ pod'[p].count = pod[p].count
         /\ pod'[p].build = pod[p].build /\ pod'[p].seen = pod[p].seen
         /\ Serve(p) <=> pod[p].done = 0
         /\ RecordDeploy(p) <=> pod[p].done = 1
         /\ StartOrphanWatch(p) <=> pod[p].done = 2
         /\ SeeWhoIsThere(p) <=> pod[p].done = 3
         /\ pod'[p].ready = IF pod[p].done = 0 THEN clock ELSE pod[p].ready
         /\ pod'[p].born = IF pod[p].done = 2 THEN clock ELSE pod[p].born
         /\ pod'[p].own = IF pod[p].done = 2 THEN Len(opened) + 1 ELSE pod[p].own
         /\ pod'[p].on = IF pod[p].done = 3 THEN TRUE ELSE pod[p].on
         /\ pod'[p].miles = IF pod[p].done = 3 THEN stored ELSE pod[p].miles
         /\ pod'[p].since = IF pod[p].done = 3 THEN 0 ELSE pod[p].since
<1>1. /\ p \in Alive /\ pod[p].done \in 0..5
      /\ Serve(p) => pod[p].done = 0
      /\ RecordDeploy(p) => pod[p].done = 1
      /\ StartOrphanWatch(p) => pod[p].done = 2
      /\ SeeWhoIsThere(p) => pod[p].done = 3
      /\ StartCron(p) => pod[p].done = 4
  BY RunInOrder DEF Serve, RecordDeploy, StartOrphanWatch, SeeWhoIsThere, StartCron
<1>2. pod[p].done < 5
  BY <1>1
<1> DEFINE t == Took(p)
<1>3. /\ t \in PodRecords /\ t.done = pod[p].done + 1
      /\ t.st = pod[p].st /\ t.own = pod[p].own /\ t.ready = pod[p].ready
      /\ t.born = pod[p].born /\ t.told = pod[p].told /\ t.seen = pod[p].seen
      /\ t.build = pod[p].build /\ t.on = pod[p].on /\ t.miles = pod[p].miles
      /\ t.since = pod[p].since /\ t.count = pod[p].count
  BY <1>2, TookDoes
<1> HIDE DEF t
<1>4. PICK n \in PodRecords :
        /\ Set(p, n)
        /\ n.st = t.st /\ n.done = t.done /\ n.told = t.told /\ n.count = t.count
        /\ n.build = t.build /\ n.seen = t.seen
        /\ n.ready = IF Serve(p) THEN clock ELSE t.ready
        /\ n.born = IF StartOrphanWatch(p) THEN clock ELSE t.born
        /\ n.own = IF StartOrphanWatch(p) THEN Len(opened) + 1 ELSE t.own
        /\ n.on = IF SeeWhoIsThere(p) THEN TRUE ELSE t.on
        /\ n.miles = IF SeeWhoIsThere(p) THEN stored ELSE t.miles
        /\ n.since = IF SeeWhoIsThere(p) THEN 0 ELSE t.since
  <2>1. CASE Serve(p)
    <3> DEFINE n1 == [t EXCEPT !.ready = clock]
    <3>1. Set(p, [t EXCEPT !.ready = clock]) /\ ~StartOrphanWatch(p) /\ ~SeeWhoIsThere(p)
      BY <1>1, <2>1 DEF Serve, t
    <3>2. /\ n1 \in PodRecords /\ n1.st = t.st /\ n1.done = t.done /\ n1.told = t.told
          /\ n1.count = t.count /\ n1.build = t.build /\ n1.seen = t.seen
          /\ n1.ready = clock /\ n1.born = t.born /\ n1.own = t.own
          /\ n1.on = t.on /\ n1.miles = t.miles /\ n1.since = t.since
      BY <1>3 DEF PodRecords
    <3>3. QED
      BY <2>1, <3>1, <3>2, Zenon
  <2>2. CASE RecordDeploy(p) \/ StartCron(p)
    <3>1. Set(p, t) /\ ~Serve(p) /\ ~StartOrphanWatch(p) /\ ~SeeWhoIsThere(p)
      BY <1>1, <2>2 DEF RecordDeploy, StartCron, t
    <3>2. QED
      BY <1>3, <3>1
  <2>3. CASE StartOrphanWatch(p)
    <3> DEFINE n1 == [t EXCEPT !.born = clock, !.own = Len(opened) + 1]
    <3>1. Set(p, [t EXCEPT !.born = clock, !.own = Len(opened) + 1]) /\ ~Serve(p)
            /\ ~SeeWhoIsThere(p)
      BY <1>1, <2>3 DEF StartOrphanWatch, t
    <3>2. Len(opened) + 1 \in Nat
      BY DEF RowsTyped
    <3>3. /\ n1 \in PodRecords /\ n1.st = t.st /\ n1.done = t.done /\ n1.told = t.told
          /\ n1.count = t.count /\ n1.build = t.build /\ n1.seen = t.seen
          /\ n1.ready = t.ready /\ n1.born = clock /\ n1.own = Len(opened) + 1
          /\ n1.on = t.on /\ n1.miles = t.miles /\ n1.since = t.since
      BY <1>3, <3>2 DEF PodRecords
    <3>4. QED
      BY <2>3, <3>1, <3>3, Zenon
  <2>4. CASE SeeWhoIsThere(p)
    <3> DEFINE n1 == [t EXCEPT !.on = TRUE, !.miles = stored, !.since = 0]
    <3>1. Set(p, [t EXCEPT !.on = TRUE, !.miles = stored, !.since = 0]) /\ ~Serve(p)
            /\ ~StartOrphanWatch(p)
      BY <1>1, <2>4 DEF SeeWhoIsThere, LogIn, t
    <3>2. stored \in Nat
      BY DEF RowsTyped
    <3>3. /\ n1 \in PodRecords /\ n1.st = t.st /\ n1.done = t.done /\ n1.told = t.told
          /\ n1.count = t.count /\ n1.build = t.build /\ n1.seen = t.seen
          /\ n1.ready = t.ready /\ n1.born = t.born /\ n1.own = t.own
          /\ n1.on = TRUE /\ n1.miles = stored /\ n1.since = 0
      BY <1>3, <3>2 DEF PodRecords
    <3>4. QED
      BY <2>4, <3>1, <3>3, Zenon
  <2>5. QED
    BY <2>1, <2>2, <2>3, <2>4
<1>5. pod'[p] = n /\ Others(p) /\ PodsTyped'
  BY <1>4 DEF Set, PodsTyped, Others
<1>6. /\ Serve(p) <=> pod[p].done = 0
      /\ RecordDeploy(p) <=> pod[p].done = 1
      /\ StartOrphanWatch(p) <=> pod[p].done = 2
      /\ SeeWhoIsThere(p) <=> pod[p].done = 3
  BY <1>1
<1>7. QED
  BY <1>1, <1>2, <1>3, <1>4, <1>5, <1>6

\* What Deploy reads as the last deployed version.
LastDeploy == IF deploys = <<>> THEN "" ELSE deploys[Len(deploys)]

LEMMA LastDeployIsVersion ==
  ASSUME RowsTyped
  PROVE  LastDeploy \in Versions \cup {""}
<1>1. CASE deploys = <<>>
  BY <1>1 DEF LastDeploy
<1>2. CASE deploys # <<>>
  <2>1. Len(deploys) \in 1..Len(deploys)
    BY <1>2 DEF RowsTyped
  <2>2. deploys[Len(deploys)] \in Versions
    BY <2>1 DEF RowsTyped
  <2>3. QED
    BY <1>2, <2>2 DEF LastDeploy
<1>3. QED
  BY <1>1, <1>2

LEMMA ReadDoes ==
  ASSUME PodsTyped, RowsTyped, NEW p \in Pods, ReadLastDeploy(p)
  PROVE  /\ PodsTyped' /\ Others(p)
         /\ p \in Alive /\ pod[p].done = 1 /\ pod[p].seen = Unread
         /\ pod'[p].seen = LastDeploy \/ blind'
         /\ pod'[p].st = pod[p].st /\ pod'[p].done = pod[p].done /\ pod'[p].build = pod[p].build
         /\ pod'[p].own = pod[p].own /\ pod'[p].ready = pod[p].ready /\ pod'[p].born = pod[p].born
         /\ pod'[p].told = pod[p].told /\ pod'[p].on = pod[p].on /\ pod'[p].miles = pod[p].miles
         /\ pod'[p].since = pod[p].since /\ pod'[p].count = pod[p].count
<1>1. PICK v \in Versions \cup {""} : Set(p, [pod[p] EXCEPT !.seen = v]) /\ (v = LastDeploy \/ blind')
  BY LastDeployIsVersion DEF ReadLastDeploy, LastDeploy
<1> DEFINE new == [pod[p] EXCEPT !.seen = v]
<1>2. pod[p] \in PodRecords
  BY DEF PodsTyped
<1>3. /\ new \in PodRecords /\ new.seen = v
      /\ new.st = pod[p].st /\ new.done = pod[p].done /\ new.build = pod[p].build
      /\ new.own = pod[p].own /\ new.ready = pod[p].ready /\ new.born = pod[p].born
      /\ new.told = pod[p].told /\ new.on = pod[p].on /\ new.miles = pod[p].miles
      /\ new.since = pod[p].since /\ new.count = pod[p].count
  BY <1>2 DEF PodRecords
<1>4. p \in Alive /\ pod[p].done = 1 /\ pod[p].seen = Unread
  BY RunInOrder DEF ReadLastDeploy
<1>5. QED
  BY <1>1, <1>3, <1>4 DEF Set, PodsTyped, Others

LEMMA CountDoes ==
  ASSUME PodsTyped, RowsTyped, NEW p \in Pods, CountOrphans(p)
  PROVE  /\ PodsTyped' /\ Others(p)
         /\ pod[p].st = "up" /\ pod[p].done >= 3 /\ pod[p].count = NotYet
         /\ pod'[p].count = {n \in DOMAIN opened : n < pod[p].own /\ n \notin paired}
         /\ pod'[p].st = pod[p].st /\ pod'[p].done = pod[p].done /\ pod'[p].build = pod[p].build
         /\ pod'[p].own = pod[p].own /\ pod'[p].ready = pod[p].ready /\ pod'[p].born = pod[p].born
         /\ pod'[p].told = pod[p].told /\ pod'[p].seen = pod[p].seen /\ pod'[p].on = pod[p].on
         /\ pod'[p].miles = pod[p].miles /\ pod'[p].since = pod[p].since
<1> DEFINE new == [pod[p] EXCEPT !.count = {n \in DOMAIN opened : n < pod[p].own /\ n \notin paired}]
<1>1. pod[p] \in PodRecords /\ {n \in DOMAIN opened : n < pod[p].own /\ n \notin paired} \subseteq Nat
  BY DEF PodsTyped, RowsTyped
<1>2. /\ new \in PodRecords
      /\ new.count = {n \in DOMAIN opened : n < pod[p].own /\ n \notin paired}
      /\ new.st = pod[p].st /\ new.done = pod[p].done /\ new.build = pod[p].build
      /\ new.own = pod[p].own /\ new.ready = pod[p].ready /\ new.born = pod[p].born
      /\ new.told = pod[p].told /\ new.seen = pod[p].seen /\ new.on = pod[p].on
      /\ new.miles = pod[p].miles /\ new.since = pod[p].since
  BY <1>1 DEF PodRecords
<1>3. pod' = [pod EXCEPT ![p] = new]
  BY DEF Set, CountOrphans
<1>4. QED
  BY <1>2, <1>3, RunInOrder DEF PodsTyped, Others, CountOrphans

LEMMA CheckpointDoes ==
  ASSUME PodsTyped, NEW p \in Pods, Checkpoint(p)
  PROVE  /\ PodsTyped' /\ Others(p)
         /\ p \in Alive /\ pod[p].on
         /\ pod'[p].miles = pod[p].miles + pod[p].since
         /\ pod'[p].since = 0
         /\ pod'[p].st = pod[p].st /\ pod'[p].done = pod[p].done /\ pod'[p].build = pod[p].build
         /\ pod'[p].own = pod[p].own /\ pod'[p].ready = pod[p].ready /\ pod'[p].born = pod[p].born
         /\ pod'[p].told = pod[p].told /\ pod'[p].seen = pod[p].seen /\ pod'[p].on = pod[p].on
         /\ pod'[p].count = pod[p].count
<1> DEFINE new == [pod[p] EXCEPT !.miles = @ + pod[p].since, !.since = 0]
<1>1. pod[p] \in PodRecords /\ pod[p].miles + pod[p].since \in Nat
  <2>1. pod[p] \in PodRecords
    BY DEF PodsTyped
  <2>2. pod[p].miles \in Nat /\ pod[p].since \in Nat
    BY <2>1 DEF PodRecords
  <2>3. QED
    BY <2>1, <2>2
<1>2. /\ new \in PodRecords
      /\ new.miles = pod[p].miles + pod[p].since
      /\ new.since = 0
      /\ new.st = pod[p].st /\ new.done = pod[p].done /\ new.build = pod[p].build
      /\ new.own = pod[p].own /\ new.ready = pod[p].ready /\ new.born = pod[p].born
      /\ new.told = pod[p].told /\ new.seen = pod[p].seen /\ new.on = pod[p].on
      /\ new.count = pod[p].count
  BY <1>1 DEF PodRecords
<1>3. pod' = [pod EXCEPT ![p] = new]
  BY DEF Set, Checkpoint
<1>4. QED
  BY <1>2, <1>3 DEF PodsTyped, Others, Checkpoint

LEMMA FlushDoes ==
  ASSUME PodsTyped, NEW p \in Pods, Flush(p)
  PROVE  /\ PodsTyped' /\ Others(p)
         /\ pod[p].st = "stopping" /\ pod[p].done = 5 /\ pod[p].on
         /\ pod'[p].st = "closing"
         /\ pod'[p].on = FALSE
         /\ pod'[p].since = 0
         /\ pod'[p].done = pod[p].done /\ pod'[p].build = pod[p].build /\ pod'[p].own = pod[p].own
         /\ pod'[p].ready = pod[p].ready /\ pod'[p].born = pod[p].born
         /\ pod'[p].told = pod[p].told /\ pod'[p].seen = pod[p].seen
         /\ pod'[p].miles = pod[p].miles /\ pod'[p].count = pod[p].count
<1> DEFINE new == [pod[p] EXCEPT !.st = "closing", !.on = FALSE, !.since = 0]
<1>1. pod[p] \in PodRecords
  BY DEF PodsTyped
<1>2. /\ new \in PodRecords
      /\ new.st = "closing"
      /\ new.on = FALSE
      /\ new.since = 0
      /\ new.done = pod[p].done /\ new.build = pod[p].build /\ new.own = pod[p].own
      /\ new.ready = pod[p].ready /\ new.born = pod[p].born /\ new.told = pod[p].told
      /\ new.seen = pod[p].seen /\ new.miles = pod[p].miles /\ new.count = pod[p].count
  BY <1>1 DEF PodRecords
<1>3. pod' = [pod EXCEPT ![p] = new]
  BY DEF Set, Flush
<1>4. QED
  BY <1>2, <1>3, RunInOrder DEF PodsTyped, Others, Flush
-----------------------------------------------------------------------------
(* The invariant *)

\* A pod that has yet to reach the end of Run is the newest there is.
OneBoots ==
  \A p, q \in Pods : p < q /\ pod[q].st # "none" =>
    pod[p].st # "none" /\ (p \in Alive => pod[p].done = 5)

\* The viewer's session lasts from the presence step to the flush.
SessionIsOn ==
  \A p \in Pods :
    /\ pod[p].on <=> pod[p].st \in {"up", "stopping"} /\ pod[p].done >= 4
    /\ pod[p].st = "closing" => pod[p].done = 5

BuildIsKnown == \A p \in Alive : pod[p].build \in Versions

\* Nobody records a deploy between a pod's reading the last one and its own row.
ReadIsLast ==
  \A p \in Alive :
    /\ pod[p].done = 0 => pod[p].seen = Unread
    /\ pod[p].done = 1 /\ pod[p].seen # Unread /\ ~blind => pod[p].seen = LastDeploy

\* The old pod is told, and is killed, in time: by the new one's clock.
HandsOver(p, q) ==
  IF pod[p].st = "up" THEN clock <= pod[q].ready + Handover
                      ELSE pod[p].told <= pod[q].ready + Handover
EndsInTime ==
  \A p \in Alive :
    /\ pod[p].done >= 1 => pod[p].ready <= clock
    /\ pod[p].done >= 3 => pod[p].ready <= pod[p].born
    /\ pod[p].st # "up" => pod[p].told <= clock /\ clock <= pod[p].told + Grace
    /\ \A q \in Alive : q > p /\ pod[q].done >= 1 => HandsOver(p, q)

\* A login row is of a pod that got that far; a graceful exit has paired its rows.
RowsHaveOwners ==
  \A n \in DOMAIN opened :
    /\ pod[opened[n]].st # "none"
    /\ opened[n] \in Alive => pod[opened[n]].done >= 4
    /\ pod[opened[n]].st = "gone" => n \in paired

\* The rows before a pod's own are of older pods.
OwnComesAfter ==
  \A p \in Pods : \A n \in DOMAIN opened : n < pod[p].own => opened[n] < p
OwnIsNext ==
  /\ \A p \in Pods : pod[p].own \in Nat /\ pod[p].own <= Len(opened) + 1
  /\ \A p \in Alive : pod[p].done < 3 => pod[p].count = NotYet

\* What a pod counted stays as it was: those rows' pods have ended.
CountedHaveEnded ==
  \A p \in Pods : pod[p].count # NotYet =>
    \A n \in DOMAIN opened : n < pod[p].own => pod[opened[n]].st \in {"gone", "dead"}

\* The bill of n pods, and the newest pod.
Bill(n) == n * (Interval + Grace)
Newest(n) == \A q \in Pods : pod[q].st # "none" <=> q <= n
Trail == watched - stored

\* Each pod's session trails by the pods before it; the row trails by as much as it
\* was written by, and by what the sessions have not banked since.
SessionsTrail ==
  \A p \in Pods : pod[p].on => watched - (pod[p].miles + pod[p].since) <= Bill(p - 1)
SinceIsBounded ==
  \A p \in Pods : pod[p].on =>
    pod[p].since <= Interval + IF pod[p].st = "up" THEN 0 ELSE clock - pod[p].told
RowTrails ==
  \A n \in 0..Cardinality(Pods) : Newest(n) =>
    /\ Trail <= Bill(n)
    /\ \A p \in Pods : pod[p].on => Trail <= Bill(n - 1) + pod[p].since
RowIsReadInTime ==
  \A p \in Alive : pod[p].done < 4 => Trail <= Bill(p - 1)
OneIsNewest == \E n \in 0..Cardinality(Pods) : Newest(n)

\* Order and time: all that the orphans and the deploys rest on.
OrderInv ==
  /\ PodsTyped /\ RowsTyped /\ ClockTyped
  /\ OneBoots /\ SessionIsOn /\ BuildIsKnown /\ EndsInTime

LEMMA AliveIs ==
  ASSUME PodsTyped
  PROVE  \A p \in Pods : p \in Alive <=> pod[p].st \in {"up", "stopping", "closing"}
BY DEF Alive

\* A pod that is alive, and one that has started after it.
LEMMA OneBootsOf ==
  ASSUME OrderInv, NEW p \in Pods, p \in Alive, pod[p].done < 5
  PROVE  /\ \A q \in Pods : q > p => pod[q].st = "none"
         /\ \A q \in Pods : q < p => pod[q].st # "none"
         /\ \A q \in Alive : q # p => q < p /\ pod[q].done = 5
<1>1. \A q \in Pods : q \in Nat
  BY PodsAreNaturals
<1>2. p \in Nat /\ pod[p].st # "none" /\ pod[p].done \in 0..5
  BY <1>1, RunInOrder DEF OrderInv, Alive
<1>3. \A q \in Pods : q > p => pod[q].st = "none"
  BY <1>1, <1>2 DEF OrderInv, OneBoots
<1>4. \A q \in Pods : q < p => pod[q].st # "none"
  BY <1>1, <1>2 DEF OrderInv, OneBoots
<1>5. \A q \in Alive : q # p => q < p /\ pod[q].done = 5
  BY <1>1, <1>2, <1>3 DEF OrderInv, OneBoots, Alive
<1>6. QED
  BY <1>3, <1>4, <1>5

LEMMA LaunchIsNext ==
  ASSUME OrderInv, NEW p \in Pods, Launch(p)
  PROVE  /\ \A q \in Pods : q < p <=> pod[q].st # "none"
         /\ \A q \in Alive : q < p /\ pod[q].st = "up" /\ pod[q].done = 5 /\ Has(q, "cron")
<1>1. \A q \in Pods : q \in Nat
  BY PodsAreNaturals
<1>2. /\ pod[p].st = "none"
      /\ \A q \in Pods : q < p => pod[q].st # "none"
      /\ \A q \in Alive : pod[q].st = "up" /\ Has(q, "cron")
  BY DEF Launch
<1>3. \A q \in Pods : q >= p => pod[q].st = "none"
  BY <1>1, <1>2 DEF OrderInv, OneBoots
<1>4. \A q \in Pods : q < p <=> pod[q].st # "none"
  BY <1>1, <1>2, <1>3
<1>5. \A q \in Alive : q \in Pods /\ pod[q].st # "none"
  BY DEF Alive
<1>6. \A q \in Alive : pod[q].done = 5
  BY <1>2, <1>5, RunInOrder DEF OrderInv
<1>7. QED
  BY <1>2, <1>4, <1>5, <1>6

-----------------------------------------------------------------------------
(* Order and time *)

LEMMA RowsStayTyped ==
  ASSUME PodsTyped, RowsTyped, ClockTyped, BuildIsKnown, RolloutNext
  PROVE  RowsTyped' /\ ClockTyped'
<1> USE DEF RowsTyped
<1>1. ClockTyped'
  <2>1. \/ clock' = clock
        \/ clock' = clock + 1 /\ clock < LastTick
    <3>1. ASSUME NEW p \in Pods,
                 \/ Launch(p) \/ Tell(p) \/ Die(p) \/ Serve(p) \/ ReadLastDeploy(p)
                 \/ RecordDeploy(p) \/ StartOrphanWatch(p) \/ SeeWhoIsThere(p) \/ StartCron(p)
                 \/ Checkpoint(p) \/ CountOrphans(p) \/ Flush(p) \/ Exit(p)
          PROVE  clock' = clock
      BY <3>1 DEF Launch, Tell, Die, Serve, ReadLastDeploy, RecordDeploy, StartOrphanWatch,
         SeeWhoIsThere, StartCron, Checkpoint, CountOrphans, Flush, Exit
    <3>2. ClockTicks => clock' = clock + 1 /\ clock < LastTick
      BY DEF ClockTicks
    <3>3. QED
      BY <3>1, <3>2, Zenon DEF RolloutNext
  <2>2. mishaps' = mishaps \/ Mishap
    <3>1. ASSUME NEW p \in Pods, Die(p) \/ ReadLastDeploy(p)
          PROVE  mishaps' = mishaps \/ Mishap
      BY <3>1, Zenon DEF Die, ReadLastDeploy
    <3>2. ASSUME NEW p \in Pods,
                 \/ Launch(p) \/ Tell(p) \/ Serve(p) \/ RecordDeploy(p) \/ StartOrphanWatch(p)
                 \/ SeeWhoIsThere(p) \/ StartCron(p) \/ Checkpoint(p) \/ CountOrphans(p)
                 \/ Flush(p) \/ Exit(p)
          PROVE  mishaps' = mishaps
      BY <3>2 DEF Launch, Tell, Serve, RecordDeploy, StartOrphanWatch, SeeWhoIsThere, StartCron,
         Checkpoint, CountOrphans, Flush, Exit
    <3>3. ClockTicks => mishaps' = mishaps
      BY DEF ClockTicks
    <3>4. QED
      BY <3>1, <3>2, <3>3, Zenon DEF RolloutNext
  <2>3. blind' = blind \/ blind' = TRUE
    BY DEF RolloutNext, ClockTicks, Launch, Tell, Die, Serve, ReadLastDeploy, RecordDeploy,
       StartOrphanWatch, SeeWhoIsThere, StartCron, Checkpoint, CountOrphans, Flush, Exit
  <2>4. clock' \in 0..LastTick
    BY <2>1, RolloutConstants DEF ClockTyped
  <2>5. mishaps' \in 0..MaxDeaths
    BY <2>2, RolloutConstants DEF ClockTyped, Mishap
  <2>6. QED
    BY <2>3, <2>4, <2>5 DEF ClockTyped
<1>2. watched' \in Nat
  <2>1. watched' = watched \/ watched' = watched + 1 \/ watched' = watched + 0
    BY DEF RolloutNext, ClockTicks, Launch, Tell, Die, Serve, ReadLastDeploy, RecordDeploy,
       StartOrphanWatch, SeeWhoIsThere, StartCron, Checkpoint, CountOrphans, Flush, Exit
  <2>2. QED
    BY <2>1
<1>3. stored' \in Nat
  <2>1. stored' = stored \/ \E p \in Pods : stored' = WritesWhole(p)
    BY DEF RolloutNext, ClockTicks, Launch, Tell, Die, Serve, ReadLastDeploy, RecordDeploy,
       StartOrphanWatch, SeeWhoIsThere, LogIn, StartCron, Checkpoint, CountOrphans, Flush, Exit, dbRows
  <2>2. \A p \in Pods : pod[p] \in PodRecords
    BY DEF PodsTyped
  <2>3. \A p \in Pods : pod[p].miles \in Nat /\ pod[p].since \in Nat
    BY <2>2 DEF PodRecords
  <2>4. \A p \in Pods : WritesWhole(p) \in Nat
    BY <2>3 DEF WritesWhole
  <2>5. QED
    BY <2>1, <2>4
<1>4. opened' \in Seq(Pods) /\ Len(opened') >= Len(opened)
  <2>1. opened' = opened \/ \E p \in Pods : opened' = Append(opened, p)
    BY DEF RolloutNext, ClockTicks, Launch, Tell, Die, Serve, ReadLastDeploy, RecordDeploy,
       StartOrphanWatch, SeeWhoIsThere, LogIn, StartCron, Checkpoint, CountOrphans, Flush, Exit, dbRows
  <2>2. QED
    BY <2>1
<1>5. paired' \subseteq DOMAIN opened'
  <2>1. paired' \subseteq DOMAIN opened
    BY DEF RolloutNext, ClockTicks, Launch, Tell, Die, Serve, ReadLastDeploy, RecordDeploy,
       StartOrphanWatch, SeeWhoIsThere, LogIn, StartCron, Checkpoint, CountOrphans, Flush, Exit, dbRows
  <2>2. DOMAIN opened \subseteq DOMAIN opened'
    BY <1>4
  <2>3. QED
    BY <2>1, <2>2
<1>6. deploys' \in Seq(Versions)
  <2>1. deploys' = deploys \/ \E p \in Alive : deploys' = Append(deploys, pod[p].build)
    BY DEF RolloutNext, ClockTicks, Launch, Tell, Die, Serve, ReadLastDeploy, RecordDeploy,
       StartOrphanWatch, SeeWhoIsThere, LogIn, StartCron, Checkpoint, CountOrphans, Flush, Exit, dbRows
  <2>2. QED
    BY <2>1 DEF BuildIsKnown
<1>7. QED
  BY <1>1, <1>2, <1>3, <1>4, <1>5, <1>6

LEMMA OrderInitially == RolloutInit => OrderInv
<1> SUFFICES ASSUME RolloutInit PROVE OrderInv
  OBVIOUS
<1> USE DEF RolloutInit
<1>1. PodsTyped /\ \A p \in Pods : pod[p].st = "none" /\ pod[p].on = FALSE
  BY UnbornIsTyped DEF PodsTyped
<1>2. RowsTyped /\ ClockTyped
  <2>1. <<>> \in Seq(Pods) /\ <<>> \in Seq(Versions) /\ {} \subseteq DOMAIN opened
    OBVIOUS
  <2>2. 0 \in 0..LastTick /\ 0 \in 0..MaxDeaths /\ 0 \in Nat
    BY RolloutConstants
  <2>3. QED
    BY <2>1, <2>2 DEF RowsTyped, ClockTyped
<1>3. Alive = {}
  BY <1>1 DEF Alive
<1>4. QED
  BY <1>1, <1>2, <1>3 DEF OrderInv, OneBoots, SessionIsOn, BuildIsKnown, EndsInTime

\* Which pods are alive after a step of one of them.
LEMMA AliveAfter ==
  ASSUME PodsTyped, PodsTyped', NEW p \in Pods, Others(p)
  PROVE  /\ \A q \in Pods \ {p} : q \in Alive' <=> q \in Alive
         /\ p \in Alive' <=> pod'[p].st \in {"up", "stopping", "closing"}
BY DEF Alive, Others

\* A step that leaves the pods' lives and the times of p as they are.
LEMMA OrderOfOne ==
  ASSUME OrderInv, PodsTyped', RowsTyped', ClockTyped', NEW p \in Pods, Others(p),
         clock' = clock, p \in Alive, pod'[p].st = pod[p].st, pod'[p].done = pod[p].done,
         pod'[p].build = pod[p].build, pod'[p].ready = pod[p].ready, pod'[p].born = pod[p].born,
         pod'[p].told = pod[p].told, pod'[p].on = pod[p].on
  PROVE  OrderInv'
<1>1. \A q \in Pods : /\ pod'[q].st = pod[q].st /\ pod'[q].done = pod[q].done
                      /\ pod'[q].ready = pod[q].ready /\ pod'[q].born = pod[q].born
                      /\ pod'[q].told = pod[q].told /\ pod'[q].on = pod[q].on
                      /\ pod'[q].build = pod[q].build
  BY DEF Others
<1>2. Alive' = Alive
  BY <1>1 DEF Alive
<1>3. Alive \subseteq Pods
  BY DEF Alive
<1>4. OneBoots' /\ SessionIsOn'
  BY <1>1, <1>2 DEF OrderInv, OneBoots, SessionIsOn
<1>5. EndsInTime' /\ BuildIsKnown'
  BY <1>1, <1>2, <1>3 DEF OrderInv, EndsInTime, HandsOver, BuildIsKnown
<1>6. QED
  BY <1>4, <1>5 DEF OrderInv

\* The facts about one pod that the arithmetic of the times needs.
LEMMA TimesAreNaturals ==
  ASSUME PodsTyped, ClockTyped
  PROVE  /\ clock \in Nat /\ Handover \in Nat /\ Grace \in Nat /\ Interval \in Nat
         /\ \A q \in Pods :
              /\ q \in Nat /\ pod[q].done \in 0..5 /\ pod[q].ready \in Nat /\ pod[q].born \in Nat
              /\ pod[q].told \in Nat /\ pod[q].on \in BOOLEAN
              /\ pod[q].st \in {"none", "up", "stopping", "closing", "gone", "dead"}
<1>1. \A q \in Pods : pod[q] \in PodRecords /\ q \in Nat /\ pod[q].done \in 0..5
  BY PodsAreNaturals, RunInOrder DEF PodsTyped
<1>2. 0..LastTick \subseteq Nat /\ clock \in Nat
  BY RolloutConstants DEF ClockTyped
<1>3. \A q \in Pods : pod[q].ready \in 0..LastTick /\ pod[q].born \in 0..LastTick
                        /\ pod[q].told \in 0..LastTick /\ pod[q].on \in BOOLEAN
                        /\ pod[q].st \in {"none", "up", "stopping", "closing", "gone", "dead"}
  BY <1>1 DEF PodRecords
<1>4. QED
  BY <1>1, <1>2, <1>3, RolloutConstants

LEMMA TickKeepsOrder ==
  ASSUME OrderInv, ClockTicks, RowsTyped', ClockTyped'
  PROVE  OrderInv'
<1>1. /\ PodsTyped'
      /\ \A q \in Pods : /\ pod'[q].st = pod[q].st /\ pod'[q].done = pod[q].done
                         /\ pod'[q].ready = pod[q].ready /\ pod'[q].born = pod[q].born
                         /\ pod'[q].told = pod[q].told /\ pod'[q].on = pod[q].on
                         /\ pod'[q].build = pod[q].build
  BY ClockTicksDoes DEF OrderInv
<1>2. Alive' = Alive /\ Alive \subseteq Pods /\ clock' = clock + 1
  BY <1>1 DEF Alive, ClockTicks
<1>3. OneBoots' /\ SessionIsOn' /\ BuildIsKnown'
  BY <1>1, <1>2 DEF OrderInv, OneBoots, SessionIsOn, BuildIsKnown
<1>4. EndsInTime'
  <2> SUFFICES ASSUME NEW p \in Alive
               PROVE  /\ pod[p].done >= 1 => pod[p].ready <= clock + 1
                      /\ pod[p].done >= 3 => pod[p].ready <= pod[p].born
                      /\ pod[p].st # "up" => pod[p].told <= clock + 1
                                               /\ clock + 1 <= pod[p].told + Grace
                      /\ \A q \in Alive : q > p /\ pod[q].done >= 1 =>
                           IF pod[p].st = "up" THEN clock + 1 <= pod[q].ready + Handover
                                               ELSE pod[p].told <= pod[q].ready + Handover
    BY <1>1, <1>2 DEF EndsInTime, HandsOver
  <2>1. /\ clock \in Nat /\ Handover \in Nat /\ Grace \in Nat
        /\ \A q \in Alive : q \in Pods /\ pod[q].ready \in Nat /\ pod[q].told \in Nat
                              /\ pod[q].born \in Nat
    BY TimesAreNaturals DEF OrderInv, Alive
  <2>2. \A q \in Alive : Has(q, "serve") <=> pod[q].done >= 1
    BY <2>1, RunInOrder DEF OrderInv
  <2>3. /\ pod[p].done >= 1 => pod[p].ready <= clock
        /\ pod[p].done >= 3 => pod[p].ready <= pod[p].born
        /\ pod[p].st # "up" => pod[p].told <= clock
        /\ \A q \in Alive : q > p /\ pod[q].done >= 1 => HandsOver(p, q)
    BY DEF OrderInv, EndsInTime
  <2>4. /\ pod[p].st # "up" => clock < pod[p].told + Grace
        /\ \A q \in Alive : q > p /\ pod[q].done >= 1 /\ pod[p].st = "up" =>
             clock < pod[q].ready + Handover
    BY <2>2 DEF ClockTicks, OnTime
  <2>5. QED
    BY <2>1, <2>3, <2>4 DEF HandsOver
<1>5. QED
  BY <1>1, <1>3, <1>4 DEF OrderInv

LEMMA LaunchKeepsOrder ==
  ASSUME OrderInv, RowsTyped', ClockTyped', NEW p \in Pods, Launch(p)
  PROVE  OrderInv'
<1>1. /\ PodsTyped' /\ Others(p) /\ pod'[p].st = "up" /\ pod'[p].done = 0 /\ pod'[p].on = FALSE
      /\ pod[p].st = "none" /\ pod'[p].build \in Versions
  BY LaunchDoes DEF OrderInv
<1>2. /\ \A q \in Pods : q < p <=> pod[q].st # "none"
      /\ \A q \in Alive : q < p /\ pod[q].st = "up" /\ pod[q].done = 5
  BY LaunchIsNext
<1>3. clock' = clock
  BY DEF Launch
<1>4. \A q \in Pods : q \in Alive' <=> q = p \/ q \in Alive
  BY <1>1, AliveAfter DEF OrderInv
<1>5. \A q \in Pods : q \in Nat
  BY PodsAreNaturals
<1>6. OneBoots' /\ SessionIsOn' /\ BuildIsKnown'
  BY <1>1, <1>2, <1>4, <1>5 DEF OrderInv, OneBoots, SessionIsOn, BuildIsKnown, Others, Alive
<1>7. EndsInTime'
  BY <1>1, <1>2, <1>3, <1>4, <1>5 DEF OrderInv, EndsInTime, HandsOver, Others, Alive
<1>8. QED
  BY <1>1, <1>6, <1>7 DEF OrderInv

LEMMA TellKeepsOrder ==
  ASSUME OrderInv, RowsTyped', ClockTyped', NEW p \in Pods, Tell(p)
  PROVE  OrderInv'
<1>1. /\ PodsTyped' /\ Others(p) /\ pod[p].st = "up" /\ pod'[p].st = "stopping"
      /\ pod'[p].done = pod[p].done /\ pod'[p].on = pod[p].on /\ pod'[p].told = clock
      /\ pod'[p].ready = pod[p].ready /\ pod'[p].born = pod[p].born /\ clock' = clock
      /\ pod'[p].build = pod[p].build
  BY TellDoes DEF OrderInv, ClockTyped, Tell
<1>2. \A q \in Pods : q \in Alive' <=> q \in Alive
  BY <1>1, AliveAfter DEF OrderInv, Alive
<1>3. OneBoots' /\ SessionIsOn' /\ BuildIsKnown'
  BY <1>1, <1>2 DEF OrderInv, OneBoots, SessionIsOn, BuildIsKnown, Others, Alive
<1>4. EndsInTime'
  <2>1. \A x \in Pods : pod'[x].ready = pod[x].ready /\ pod'[x].born = pod[x].born
                          /\ pod'[x].done = pod[x].done
    BY <1>1 DEF Others
  <2>2. \A x \in Pods \ {p} : pod'[x].st = pod[x].st /\ pod'[x].told = pod[x].told
    BY <1>1 DEF Others
  <2>3. clock \in Nat /\ Grace \in Nat
    BY TimesAreNaturals DEF OrderInv
  <2>4. \A x \in Alive : x \in Pods
    BY DEF Alive
  <2>5. \A x \in Alive' : x \in Alive
    BY <1>2 DEF Alive
  <2>6. QED
    BY <1>1, <2>1, <2>2, <2>3, <2>4, <2>5 DEF OrderInv, EndsInTime, HandsOver
<1>5. QED
  BY <1>1, <1>3, <1>4 DEF OrderInv

\* A pod that ends troubles nobody.
LEMMA OverKeepsOrder ==
  ASSUME OrderInv, RowsTyped', ClockTyped', NEW p \in Pods, NEW how \in {"gone", "dead"},
         p \in Alive, Set(p, Over(p, how)), clock' = clock
  PROVE  OrderInv'
<1>1. PodsTyped' /\ Others(p) /\ pod'[p].st = how /\ pod'[p].on = FALSE
  BY OverDoes DEF OrderInv
<1>2. \A q \in Pods : q \in Alive' <=> q \in Alive /\ q # p
  BY <1>1, AliveAfter DEF OrderInv
<1>3. OneBoots' /\ SessionIsOn' /\ BuildIsKnown'
  BY <1>1, <1>2 DEF OrderInv, OneBoots, SessionIsOn, BuildIsKnown, Others, Alive
<1>4. \A x \in Alive' : x \in Alive /\ x # p /\ pod'[x] = pod[x]
  BY <1>1, <1>2 DEF Others, Alive
<1>5. EndsInTime'
  BY <1>4 DEF OrderInv, EndsInTime, HandsOver
<1>6. QED
  BY <1>1, <1>3, <1>5 DEF OrderInv

LEMMA BootKeepsOrder ==
  ASSUME OrderInv, RowsTyped', ClockTyped', NEW p \in Pods,
         \/ Serve(p) \/ RecordDeploy(p) \/ StartOrphanWatch(p) \/ SeeWhoIsThere(p) \/ StartCron(p)
  PROVE  OrderInv'
<1>1. clock \in 0..LastTick /\ clock' = clock
  BY DEF OrderInv, ClockTyped, Serve, RecordDeploy, StartOrphanWatch, SeeWhoIsThere, StartCron
<1>2. /\ PodsTyped' /\ Others(p) /\ p \in Alive /\ pod'[p].st = pod[p].st
      /\ pod[p].done < 5 /\ pod'[p].done = pod[p].done + 1 /\ pod'[p].told = pod[p].told
      /\ pod'[p].ready = IF pod[p].done = 0 THEN clock ELSE pod[p].ready
      /\ pod'[p].born = IF pod[p].done = 2 THEN clock ELSE pod[p].born
      /\ pod'[p].on = IF pod[p].done = 3 THEN TRUE ELSE pod[p].on
      /\ pod'[p].build = pod[p].build
  BY <1>1, BootDoes DEF OrderInv
<1>3. /\ \A q \in Pods : q > p => pod[q].st = "none"
      /\ \A q \in Pods : q < p => pod[q].st # "none"
      /\ \A q \in Alive : q # p => q < p /\ pod[q].done = 5
  BY <1>2, OneBootsOf
<1>4. \A q \in Pods : q \in Alive' <=> q \in Alive
  BY <1>2, AliveAfter DEF OrderInv, Alive
<1>5. /\ clock \in Nat /\ Handover \in Nat /\ Grace \in Nat
      /\ \A q \in Pods : q \in Nat /\ pod[q].done \in 0..5 /\ pod[q].ready \in Nat
                           /\ pod[q].told \in Nat /\ pod[q].on \in BOOLEAN
  BY TimesAreNaturals DEF OrderInv
<1>6. pod[p].st # "closing"
  BY <1>2 DEF OrderInv, SessionIsOn
<1>7. OneBoots'
  BY <1>2, <1>3, <1>4, <1>5 DEF OrderInv, OneBoots, Others, Alive
<1>8. SessionIsOn' /\ BuildIsKnown'
  <2>1. \A q \in Pods \ {p} : pod'[q] = pod[q]
    BY <1>2 DEF Others
  <2>2. pod[p].on <=> pod[p].st \in {"up", "stopping"} /\ pod[p].done >= 4
    BY DEF OrderInv, SessionIsOn
  <2>3. pod[p].st \in {"up", "stopping"}
    BY <1>2, <1>6 DEF Alive
  <2>4. pod'[p].on <=> pod'[p].done >= 4
    BY <1>2, <1>5, <2>2, <2>3
  <2>5. SessionIsOn'
    BY <1>2, <2>1, <2>3, <2>4, ZenonT(60) DEF OrderInv, SessionIsOn
  <2>6. BuildIsKnown'
    BY <1>2, <1>4, <2>1 DEF OrderInv, BuildIsKnown, Alive
  <2>7. QED
    BY <2>5, <2>6
<1>9. EndsInTime'
  <2>1. \A x \in Alive' : x \in Alive /\ x \in Pods
    BY <1>4 DEF Alive
  <2>2. \A x \in Alive : x # p => pod'[x] = pod[x]
    BY <1>2 DEF Others, Alive
  <2>3. /\ pod'[p].done >= 1 => pod'[p].ready <= clock
        /\ pod'[p].done >= 3 => pod'[p].ready <= pod'[p].born
        /\ pod'[p].st # "up" => pod'[p].told <= clock /\ clock <= pod'[p].told + Grace
    BY <1>2, <1>5 DEF OrderInv, EndsInTime
  <2>4. \A x \in Alive : x # p => HandsOver(x, p)'
    <3> SUFFICES ASSUME NEW x \in Alive, x # p
                 PROVE  HandsOver(x, p)'
      OBVIOUS
    <3>1. x < p /\ pod'[x] = pod[x] /\ x \in Pods
      BY <1>3, <2>2 DEF Alive
    <3>2. pod[p].done >= 1 => HandsOver(x, p)
      BY <1>2, <3>1 DEF OrderInv, EndsInTime
    <3>3. pod[x].st # "up" => pod[x].told <= clock
      BY DEF OrderInv, EndsInTime
    <3>4. QED
      BY <1>1, <1>2, <1>5, <3>1, <3>2, <3>3 DEF HandsOver
  <2>5. \A x \in Alive : x # p =>
          /\ pod'[x].done >= 1 => pod'[x].ready <= clock
          /\ pod'[x].done >= 3 => pod'[x].ready <= pod'[x].born
          /\ pod'[x].st # "up" => pod'[x].told <= clock /\ clock <= pod'[x].told + Grace
          /\ \A q \in Alive : q # p /\ q > x /\ pod'[q].done >= 1 => HandsOver(x, q)'
    BY <1>1, <2>2 DEF OrderInv, EndsInTime, HandsOver
  <2>6. \A q \in Alive : ~(q > p)
    BY <1>3, <1>5 DEF Alive
  <2>7. QED
    BY <1>1, <2>1, <2>3, <2>4, <2>5, <2>6 DEF EndsInTime
<1>10. QED
  BY <1>2, <1>7, <1>8, <1>9 DEF OrderInv

LEMMA FlushKeepsOrder ==
  ASSUME OrderInv, RowsTyped', ClockTyped', NEW p \in Pods, Flush(p)
  PROVE  OrderInv'
<1>1. /\ PodsTyped' /\ Others(p) /\ pod[p].st = "stopping" /\ pod[p].done = 5
      /\ pod'[p].st = "closing" /\ pod'[p].on = FALSE /\ pod'[p].done = pod[p].done
      /\ pod'[p].ready = pod[p].ready /\ pod'[p].born = pod[p].born
      /\ pod'[p].told = pod[p].told /\ pod'[p].build = pod[p].build /\ clock' = clock
  BY FlushDoes DEF OrderInv, Flush
<1>2. \A q \in Pods : q \in Alive' <=> q \in Alive
  BY <1>1, AliveAfter DEF OrderInv, Alive
<1>3. OneBoots' /\ SessionIsOn' /\ BuildIsKnown'
  BY <1>1, <1>2 DEF OrderInv, OneBoots, SessionIsOn, BuildIsKnown, Others, Alive
<1>4. EndsInTime'
  <2>1. \A x \in Pods : /\ pod'[x].ready = pod[x].ready /\ pod'[x].born = pod[x].born
                        /\ pod'[x].done = pod[x].done /\ pod'[x].told = pod[x].told
                        /\ pod'[x].st = "up" <=> pod[x].st = "up"
    BY <1>1 DEF Others
  <2>2. \A x \in Alive' : x \in Alive /\ x \in Pods
    BY <1>2 DEF Alive
  <2>3. QED
    BY <1>1, <2>1, <2>2 DEF OrderInv, EndsInTime, HandsOver
<1>5. QED
  BY <1>1, <1>3, <1>4 DEF OrderInv

LEMMA OrderInductive == OrderInv /\ [RolloutNext]_rolloutVars => OrderInv'
<1> SUFFICES ASSUME OrderInv, [RolloutNext]_rolloutVars PROVE OrderInv'
  OBVIOUS
<1>1. CASE UNCHANGED rolloutVars
  BY <1>1 DEF rolloutVars, dbRows, OrderInv, PodsTyped, RowsTyped, ClockTyped, OneBoots, SessionIsOn,
     BuildIsKnown, EndsInTime, HandsOver, Alive
<1>2. CASE RolloutNext
  <2>1. RowsTyped' /\ ClockTyped'
    BY <1>2, RowsStayTyped DEF OrderInv
  <2>2. CASE ClockTicks
    BY <2>1, <2>2, TickKeepsOrder
  <2>3. CASE ~ClockTicks
    <3>1. PICK p \in Pods :
            \/ Launch(p) \/ Tell(p) \/ Die(p) \/ Serve(p) \/ ReadLastDeploy(p) \/ RecordDeploy(p)
            \/ StartOrphanWatch(p) \/ SeeWhoIsThere(p) \/ StartCron(p) \/ Checkpoint(p)
            \/ CountOrphans(p) \/ Flush(p) \/ Exit(p)
      BY <1>2, <2>3 DEF RolloutNext
    <3>2. CASE Launch(p)
      BY <2>1, <3>2, LaunchKeepsOrder
    <3>3. CASE Tell(p)
      BY <2>1, <3>3, TellKeepsOrder
    <3>4. CASE Die(p) \/ Exit(p)
      <4>1. PICK how \in {"gone", "dead"} : Set(p, Over(p, how))
        BY <3>4 DEF Die, Exit
      <4>2. p \in Alive /\ clock' = clock
        BY <3>4 DEF Die, Exit, Alive
      <4>3. QED
        BY <2>1, <4>1, <4>2, OverKeepsOrder
    <3>5. CASE Serve(p) \/ RecordDeploy(p) \/ StartOrphanWatch(p) \/ SeeWhoIsThere(p) \/ StartCron(p)
      BY <2>1, <3>5, BootKeepsOrder
    <3>6. CASE ReadLastDeploy(p)
      <4>1. clock' = clock
        BY <3>6 DEF ReadLastDeploy
      <4>2. QED
        BY <2>1, <3>6, <4>1, ReadDoes, OrderOfOne DEF OrderInv
    <3>7. CASE Checkpoint(p)
      <4>1. clock' = clock
        BY <3>7 DEF Checkpoint
      <4>2. QED
        BY <2>1, <3>7, <4>1, CheckpointDoes, OrderOfOne DEF OrderInv
    <3>8. CASE CountOrphans(p)
      <4>1. clock' = clock /\ p \in Alive
        BY <3>8 DEF CountOrphans, Alive
      <4>2. QED
        BY <2>1, <3>8, <4>1, CountDoes, OrderOfOne DEF OrderInv
    <3>9. CASE Flush(p)
      BY <2>1, <3>9, FlushKeepsOrder
    <3>10. QED
      BY <3>1, <3>2, <3>3, <3>4, <3>5, <3>6, <3>7, <3>8, <3>9
  <2>4. QED
    BY <2>2, <2>3
<1>3. QED
  BY <1>1, <1>2

LEMMA OrderAlways == RolloutSpec => []OrderInv
BY OrderInitially, OrderInductive, PTL DEF RolloutSpec

-----------------------------------------------------------------------------
(* Deploy rows *)

DeployInv == ReadIsLast /\ DeployRowsTurn

LEMMA DeployInductive ==
  ASSUME OrderInv, OrderInv', DeployInv, [RolloutNext]_rolloutVars
  PROVE  DeployInv'
<1>1. CASE UNCHANGED rolloutVars
  BY <1>1 DEF rolloutVars, dbRows, DeployInv, ReadIsLast, LastDeploy, DeployRowsTurn, Alive
<1>2. CASE ClockTicks
  <2>1. UNCHANGED <<deploys, blind>>
    BY <1>2 DEF ClockTicks, dbRows
  <2>2. \A q \in Pods : pod'[q].st = pod[q].st /\ pod'[q].done = pod[q].done
                          /\ pod'[q].seen = pod[q].seen
    BY <1>2, ClockTicksDoes DEF OrderInv
  <2>3. QED
    BY <2>1, <2>2 DEF DeployInv, ReadIsLast, LastDeploy, DeployRowsTurn, Alive
<1>3. ASSUME NEW p \in Pods, RecordDeploy(p)
      PROVE  DeployInv'
  <2>1. /\ Others(p) /\ p \in Alive /\ pod[p].done = 1 /\ pod'[p].done = 2
    <3>1. pod[p].done = 1
      BY <1>3, RunInOrder DEF OrderInv, RecordDeploy
    <3>2. Others(p) /\ p \in Alive /\ pod'[p].done = pod[p].done + 1
      BY <1>3, BootDoes DEF OrderInv, ClockTyped
    <3>3. QED
      BY <3>1, <3>2
  <2>2. /\ pod[p].seen # Unread /\ blind' = blind
        /\ deploys' = IF pod[p].seen # pod[p].build THEN Append(deploys, pod[p].build) ELSE deploys
    BY <1>3 DEF RecordDeploy, IsNews
  <2>3. \A q \in Alive : q # p => pod'[q] = pod[q] /\ pod[q].done = 5
    BY <2>1, OneBootsOf DEF Others, Alive
  <2>4. \A q \in Alive' : q = p \/ q \in Alive
    BY <2>1 DEF Others, Alive
  <2>5. ReadIsLast'
    BY <2>1, <2>3, <2>4 DEF ReadIsLast
  <2>6. ~blind => pod[p].seen = LastDeploy
    BY <2>1, <2>2 DEF DeployInv, ReadIsLast
  <2>7. deploys \in Seq(Versions) /\ pod[p].build \in Versions
    BY <2>1 DEF OrderInv, RowsTyped, BuildIsKnown
  <2>8. DeployRowsTurn'
    <3> SUFFICES ASSUME ~blind, NEW i \in 1..Len(deploys') - 1
                 PROVE  deploys'[i] # deploys'[i + 1]
      BY <2>2 DEF DeployRowsTurn
    <3>1. CASE deploys' = deploys
      BY <3>1 DEF DeployInv, DeployRowsTurn
    <3>2. CASE deploys' = Append(deploys, pod[p].build) /\ pod[p].seen # pod[p].build
      <4>1. Len(deploys') = Len(deploys) + 1 /\ Len(deploys) \in Nat
        BY <2>7, <3>2
      <4>2. CASE i < Len(deploys)
        <5>1. deploys'[i] = deploys[i] /\ deploys'[i + 1] = deploys[i + 1]
          BY <2>7, <3>2, <4>1, <4>2
        <5>2. i \in 1..Len(deploys) - 1
          BY <4>1, <4>2
        <5>3. QED
          BY <5>1, <5>2 DEF DeployInv, DeployRowsTurn
      <4>3. CASE i = Len(deploys)
        <5>1. deploys'[i] = deploys[Len(deploys)] /\ deploys'[i + 1] = pod[p].build
          BY <2>7, <3>2, <4>1, <4>3
        <5>2. LastDeploy = deploys[Len(deploys)]
          <6>1. deploys # <<>>
            BY <4>1, <4>3
          <6>2. QED
            BY <6>1 DEF LastDeploy
        <5>3. QED
          BY <2>6, <3>2, <5>1, <5>2
      <4>4. QED
        BY <4>1, <4>2, <4>3
    <3>3. QED
      BY <2>2, <3>1, <3>2
  <2>9. QED
    BY <2>5, <2>8 DEF DeployInv
<1>4. ASSUME NEW p \in Pods, ReadLastDeploy(p)
      PROVE  DeployInv'
  <2>1. /\ Others(p) /\ p \in Alive /\ pod[p].done = 1 /\ pod'[p].done = 1
        /\ pod'[p].seen = LastDeploy \/ blind'
    BY <1>4, ReadDoes DEF OrderInv
  <2>2. deploys' = deploys /\ (blind' = blind \/ blind' = TRUE)
    BY <1>4 DEF ReadLastDeploy, dbRows
  <2>3. \A q \in Alive : q # p => pod'[q] = pod[q] /\ pod[q].done = 5
    BY <2>1, OneBootsOf DEF Others, Alive
  <2>4. \A q \in Alive' : q = p \/ q \in Alive
    BY <2>1 DEF Others, Alive
  <2>5. LastDeploy' = LastDeploy
    BY <2>2 DEF LastDeploy
  <2>6. ReadIsLast'
    BY <2>1, <2>3, <2>4, <2>5 DEF ReadIsLast
  <2>7. DeployRowsTurn'
    BY <2>2 DEF DeployInv, DeployRowsTurn
  <2>8. QED
    BY <2>6, <2>7 DEF DeployInv
<1>5. ASSUME NEW p \in Pods, Launch(p)
      PROVE  DeployInv'
  <2>1. Others(p) /\ pod'[p].done = 0 /\ pod'[p].seen = Unread
    BY <1>5, LaunchDoes DEF OrderInv
  <2>2. UNCHANGED <<deploys, blind>>
    BY <1>5 DEF Launch, dbRows
  <2>3. QED
    BY <2>1, <2>2, ZenonT(60) DEF DeployInv, ReadIsLast, LastDeploy, DeployRowsTurn, Others, Alive
<1>6. ASSUME NEW p \in Pods, Die(p) \/ Exit(p)
      PROVE  DeployInv'
  <2>1. PICK how \in {"gone", "dead"} : Set(p, Over(p, how))
    BY <1>6 DEF Die, Exit
  <2>2. Others(p) /\ pod'[p].st \in {"gone", "dead"}
    BY <2>1, OverDoes DEF OrderInv
  <2>3. UNCHANGED <<deploys, blind>>
    BY <1>6 DEF Die, Exit, dbRows
  <2>4. QED
    BY <2>2, <2>3 DEF DeployInv, ReadIsLast, LastDeploy, DeployRowsTurn, Others, Alive
<1>7. ASSUME NEW p \in Pods,
             Serve(p) \/ StartOrphanWatch(p) \/ SeeWhoIsThere(p) \/ StartCron(p)
      PROVE  DeployInv'
  <2>1. /\ Others(p) /\ p \in Alive /\ pod'[p].seen = pod[p].seen
        /\ pod'[p].done = pod[p].done + 1 /\ pod[p].done \in {0, 2, 3, 4}
    <3>1. /\ Others(p) /\ p \in Alive /\ pod'[p].seen = pod[p].seen
          /\ pod'[p].done = pod[p].done + 1
      BY <1>7, BootDoes DEF OrderInv, ClockTyped
    <3>2. pod[p].done \in {0, 2, 3, 4}
      BY <1>7, RunInOrder DEF OrderInv, Serve, StartOrphanWatch, SeeWhoIsThere, StartCron
    <3>3. QED
      BY <3>1, <3>2
  <2>2. UNCHANGED <<deploys, blind>>
    BY <1>7 DEF Serve, StartOrphanWatch, SeeWhoIsThere, StartCron, LogIn, dbRows
  <2>3. \A q \in Alive' : q = p \/ (q \in Alive /\ pod'[q] = pod[q])
    BY <2>1 DEF Others, Alive
  <2>4. pod'[p].done # 0 /\ (pod'[p].done = 1 => pod'[p].seen = Unread)
    BY <2>1 DEF DeployInv, ReadIsLast
  <2>5. LastDeploy' = LastDeploy /\ DeployRowsTurn'
    BY <2>2 DEF DeployInv, LastDeploy, DeployRowsTurn
  <2>6. QED
    BY <2>2, <2>3, <2>4, <2>5 DEF DeployInv, ReadIsLast
<1>8. ASSUME NEW p \in Pods, Tell(p) \/ Checkpoint(p) \/ CountOrphans(p) \/ Flush(p)
      PROVE  DeployInv'
  <2>1. /\ Others(p) /\ p \in Alive /\ pod'[p].seen = pod[p].seen /\ pod'[p].done = pod[p].done
    BY <1>8, TellDoes, CheckpointDoes, CountDoes, FlushDoes DEF OrderInv, ClockTyped, Alive
  <2>2. UNCHANGED <<deploys, blind>>
    BY <1>8 DEF Tell, Checkpoint, CountOrphans, Flush, dbRows
  <2>3. \A q \in Alive' : q = p \/ (q \in Alive /\ pod'[q] = pod[q])
    BY <2>1 DEF Others, Alive
  <2>4. QED
    BY <2>1, <2>2, <2>3, ZenonT(60) DEF DeployInv, ReadIsLast, LastDeploy, DeployRowsTurn
<1>9. QED
  BY <1>1, <1>2, <1>3, <1>4, <1>5, <1>6, <1>7, <1>8 DEF RolloutNext

LEMMA DeployAlways == RolloutSpec => []DeployInv
<1>1. RolloutInit => DeployInv
  BY UnbornIsTyped DEF RolloutInit, DeployInv, ReadIsLast, DeployRowsTurn, Alive
<1>2. QED
  BY <1>1, DeployInductive, OrderAlways, PTL DEF RolloutSpec

-----------------------------------------------------------------------------
(* Orphaned sessions *)

OrphanInv ==
  RowsHaveOwners /\ OwnComesAfter /\ OwnIsNext /\ CountedHaveEnded /\ OrphansAreLost

LEMMA RowsAreNumbered ==
  ASSUME RowsTyped
  PROVE  /\ DOMAIN opened = 1..Len(opened) /\ Len(opened) \in Nat
         /\ \A n \in DOMAIN opened : n \in Nat /\ opened[n] \in Pods
BY DEF RowsTyped

\* A step that pairs and opens no row, and ends no pod.
LEMMA OrphansUnmoved ==
  ASSUME OrderInv, OrphanInv, UNCHANGED <<opened, paired>>,
         \A q \in Pods :
           /\ pod'[q].own = pod[q].own /\ pod'[q].count = pod[q].count
           /\ \/ pod'[q].st = pod[q].st
              \/ q \in Alive /\ pod'[q].st \in {"up", "stopping", "closing"}
           /\ pod'[q].done \in Nat /\ pod'[q].done >= pod[q].done
  PROVE  OrphanInv'
<1>1. /\ \A n \in DOMAIN opened : opened[n] \in Pods
      /\ \A q \in Pods : pod[q].done \in 0..5
  BY RowsAreNumbered, RunInOrder DEF OrderInv
<1>2. \A q \in Pods : /\ q \in Alive' <=> q \in Alive
                      /\ pod'[q].st = "none" <=> pod[q].st = "none"
                      /\ pod'[q].st = "gone" <=> pod[q].st = "gone"
                      /\ pod'[q].st = "dead" <=> pod[q].st = "dead"
  BY DEF Alive
<1>3. Alive \subseteq Pods /\ Alive' \subseteq Pods
  BY DEF Alive
<1>4. \A q \in Alive : pod'[q].done < 3 => pod[q].done < 3
  BY <1>1, <1>3
<1>5. \A q \in Alive : pod[q].done >= 4 => pod'[q].done >= 4
  BY <1>1, <1>3
<1>6. RowsHaveOwners' /\ OwnComesAfter'
  BY <1>1, <1>2, <1>5 DEF OrphanInv, RowsHaveOwners, OwnComesAfter
<1>7. OwnIsNext'
  BY <1>2, <1>3, <1>4 DEF OrphanInv, OwnIsNext
<1>8. CountedHaveEnded' /\ OrphansAreLost'
  BY <1>1, <1>2 DEF OrphanInv, CountedHaveEnded, OrphansAreLost
<1>9. QED
  BY <1>6, <1>7, <1>8 DEF OrphanInv

\* The count comes late enough: whoever wrote a row before the pod's own has ended.
LEMMA WaitedLongEnough ==
  ASSUME OrderInv, OrphanInv, NEW p \in Pods, CountOrphans(p)
  PROVE  \A n \in DOMAIN opened : n < pod[p].own => pod[opened[n]].st \in {"gone", "dead"}
<1> SUFFICES ASSUME NEW n \in DOMAIN opened, n < pod[p].own,
                    pod[opened[n]].st \notin {"gone", "dead"}
             PROVE  FALSE
  OBVIOUS
<1> DEFINE q == opened[n]
<1>1. q \in Pods /\ q < p /\ pod[q].st # "none"
  BY RowsAreNumbered DEF OrderInv, OrphanInv, OwnComesAfter, RowsHaveOwners
<1>2. /\ clock \in Nat /\ Handover \in Nat /\ Grace \in Nat /\ p \in Nat /\ q \in Nat
      /\ pod[p].ready \in Nat /\ pod[p].born \in Nat /\ pod[q].told \in Nat
      /\ pod[q].st \in {"none", "up", "stopping", "closing", "gone", "dead"}
      /\ OrphanDelay \in Nat /\ Handover + Grace < OrphanDelay
  BY <1>1, TimesAreNaturals, RolloutConstants DEF OrderInv
<1>3. q \in Alive
  BY <1>1, <1>2 DEF Alive
<1>4. p \in Alive /\ pod[p].done >= 3 /\ clock >= pod[p].born + OrphanDelay
  BY CountDoes DEF OrderInv, Alive, CountOrphans, Waited
<1>5. pod[p].ready <= pod[p].born /\ pod[p].done >= 1
  BY <1>4, TimesAreNaturals DEF OrderInv, EndsInTime
<1>6. HandsOver(q, p)
  BY <1>1, <1>2, <1>3, <1>4, <1>5 DEF OrderInv, EndsInTime
<1>7. pod[q].st # "up" => clock <= pod[q].told + Grace
  BY <1>3 DEF OrderInv, EndsInTime
<1>8. QED
  BY <1>2, <1>4, <1>5, <1>6, <1>7 DEF HandsOver

LEMMA OrphanInductive ==
  ASSUME OrderInv, OrderInv', OrphanInv, [RolloutNext]_rolloutVars
  PROVE  OrphanInv'
<1>1. CASE UNCHANGED rolloutVars
  BY <1>1 DEF rolloutVars, dbRows, OrphanInv, RowsHaveOwners, OwnComesAfter, OwnIsNext,
     CountedHaveEnded, OrphansAreLost, Alive
<1>2. \A q \in Pods : pod[q].done \in 0..5 /\ q \in Nat
  BY TimesAreNaturals DEF OrderInv
<1>3. CASE ClockTicks
  <2>1. UNCHANGED <<opened, paired>>
    BY <1>3 DEF ClockTicks, dbRows
  <2>2. \A q \in Pods : /\ pod'[q].own = pod[q].own /\ pod'[q].count = pod[q].count
                        /\ pod'[q].st = pod[q].st /\ pod'[q].done = pod[q].done
    BY <1>3, ClockTicksDoes DEF OrderInv
  <2>3. QED
    BY <1>2, <2>1, <2>2, OrphansUnmoved
<1>4. ASSUME NEW p \in Pods,
             \/ Tell(p) \/ Serve(p) \/ ReadLastDeploy(p) \/ RecordDeploy(p) \/ StartCron(p)
             \/ Checkpoint(p) \/ Flush(p)
      PROVE  OrphanInv'
  <2>1. UNCHANGED <<opened, paired>>
    BY <1>4 DEF Tell, Serve, ReadLastDeploy, RecordDeploy, StartCron, Checkpoint, Flush, dbRows
  <2>2. CASE Serve(p) \/ RecordDeploy(p) \/ StartCron(p)
    <3>1. /\ Others(p) /\ pod'[p].st = pod[p].st /\ pod'[p].done = pod[p].done + 1
          /\ pod'[p].count = pod[p].count
          /\ pod'[p].own = IF pod[p].done = 2 THEN Len(opened) + 1 ELSE pod[p].own
      BY <2>2, BootDoes DEF OrderInv, ClockTyped
    <3>2. pod[p].done # 2
      BY <2>2, RunInOrder DEF OrderInv, Serve, RecordDeploy, StartCron
    <3>3. QED
      BY <1>2, <2>1, <3>1, <3>2, OrphansUnmoved DEF Others
  <2>3. CASE Tell(p) \/ ReadLastDeploy(p) \/ Checkpoint(p) \/ Flush(p)
    <3>1. /\ Others(p) /\ pod'[p].own = pod[p].own /\ pod'[p].done = pod[p].done
          /\ pod'[p].count = pod[p].count /\ p \in Alive
      BY <2>3, TellDoes, ReadDoes, CheckpointDoes, FlushDoes DEF OrderInv, ClockTyped, Alive
    <3>2. pod'[p].st \in {"up", "stopping", "closing"}
      BY <2>3, <3>1, TellDoes, ReadDoes, CheckpointDoes, FlushDoes DEF OrderInv, ClockTyped, Alive
    <3>3. QED
      BY <1>2, <2>1, <3>1, <3>2, OrphansUnmoved DEF Others
  <2>4. QED
    BY <1>4, <2>2, <2>3
<1>5. ASSUME NEW p \in Pods, Launch(p)
      PROVE  OrphanInv'
  <2>1. /\ Others(p) /\ pod[p].st = "none" /\ pod'[p].st = "up" /\ pod'[p].own = 0
        /\ pod'[p].count = NotYet
    BY <1>5, LaunchDoes DEF OrderInv
  <2>2. UNCHANGED <<opened, paired>>
    BY <1>5 DEF Launch, dbRows
  <2>3. \A n \in DOMAIN opened : opened[n] \in Pods /\ opened[n] # p /\ ~(n < 0)
    BY <2>1, RowsAreNumbered DEF OrderInv, OrphanInv, RowsHaveOwners
  <2>4. \A q \in Pods \ {p} : pod'[q] = pod[q] /\ (q \in Alive' <=> q \in Alive)
    BY <2>1 DEF Others, Alive
  <2>5. RowsHaveOwners' /\ OwnComesAfter'
    BY <2>1, <2>2, <2>3, <2>4 DEF OrphanInv, RowsHaveOwners, OwnComesAfter
  <2>6. OwnIsNext'
    <3>1. Len(opened) \in Nat /\ Alive' \subseteq Pods
      BY RowsAreNumbered DEF OrderInv, Alive
    <3>2. QED
      BY <2>1, <2>2, <2>4, <3>1 DEF OrphanInv, OwnIsNext
  <2>7. CountedHaveEnded' /\ OrphansAreLost'
    BY <2>1, <2>2, <2>3, <2>4 DEF OrphanInv, CountedHaveEnded, OrphansAreLost
  <2>8. QED
    BY <2>5, <2>6, <2>7 DEF OrphanInv
<1>6. ASSUME NEW p \in Pods, Die(p) \/ Exit(p)
      PROVE  OrphanInv'
  <2>1. PICK how \in {"gone", "dead"} :
          /\ Set(p, Over(p, how))
          /\ opened' = opened
          /\ paired' = IF how = "gone" THEN paired \cup {n \in DOMAIN opened : opened[n] = p}
                                       ELSE paired
    BY <1>6 DEF Die, Exit, dbRows
  <2>2. /\ Others(p) /\ pod'[p].st = how /\ pod'[p].own = pod[p].own /\ pod'[p].count = pod[p].count
    BY <2>1, OverDoes DEF OrderInv
  <2>3. p \in Alive
    BY <1>6 DEF Die, Exit, Alive
  <2>4. \A q \in Pods \ {p} : pod'[q] = pod[q] /\ (q \in Alive' <=> q \in Alive)
    BY <2>2 DEF Others, Alive
  <2>5. p \notin Alive' /\ Alive' \subseteq Alive
    BY <2>2, <2>4 DEF Alive
  <2>6. \A n \in DOMAIN opened : opened[n] \in Pods
    BY RowsAreNumbered DEF OrderInv
  <2>7. RowsHaveOwners'
    BY <2>1, <2>2, <2>4, <2>5, <2>6 DEF OrphanInv, RowsHaveOwners
  <2>14. \A x \in Pods : pod'[x].count = pod[x].count /\ pod'[x].own = pod[x].own
    BY <2>2, <2>4
  <2>15. \A x \in Alive' : x \in Alive /\ pod'[x] = pod[x]
    BY <2>4, <2>5 DEF Alive
  <2>8. OwnComesAfter' /\ OwnIsNext'
    BY <2>1, <2>14, <2>15 DEF OrphanInv, OwnComesAfter, OwnIsNext
  <2>9. ASSUME NEW x \in Pods, pod[x].count # NotYet, NEW n \in DOMAIN opened, n < pod[x].own
        PROVE  /\ opened[n] # p /\ pod'[opened[n]].st = pod[opened[n]].st
               /\ n \in paired' <=> n \in paired
    <3>1. pod[opened[n]].st \in {"gone", "dead"}
      BY <2>9 DEF OrphanInv, CountedHaveEnded
    <3>2. opened[n] # p
      BY <2>3, <3>1 DEF Alive
    <3>3. QED
      BY <2>1, <2>4, <2>6, <3>2
  <2>11. CountedHaveEnded'
    BY <2>1, <2>9, <2>14 DEF OrphanInv, CountedHaveEnded
  <2>12. OrphansAreLost'
    <3> SUFFICES ASSUME NEW x \in Pods, pod[x].count # NotYet
                 PROVE  pod[x].count = {n \in DOMAIN opened :
                          n < pod[x].own /\ n \notin paired' /\ pod'[opened[n]].st = "dead"}
      BY <2>1, <2>14 DEF OrphansAreLost
    <3>1. pod[x].count = {n \in DOMAIN opened :
            n < pod[x].own /\ n \notin paired /\ pod[opened[n]].st = "dead"}
      BY DEF OrphanInv, OrphansAreLost
    <3>2. QED
      BY <2>9, <3>1
  <2>13. QED
    BY <2>7, <2>8, <2>11, <2>12 DEF OrphanInv
<1>7. ASSUME NEW p \in Pods, StartOrphanWatch(p)
      PROVE  OrphanInv'
  <2>1. pod[p].done = 2
    BY <1>7, RunInOrder DEF OrderInv, StartOrphanWatch
  <2>2. /\ Others(p) /\ p \in Alive /\ pod'[p].st = pod[p].st /\ pod'[p].done = 3
        /\ pod'[p].count = pod[p].count /\ pod'[p].own = Len(opened) + 1
    <3>1. /\ Others(p) /\ p \in Alive /\ pod'[p].st = pod[p].st /\ pod'[p].done = pod[p].done + 1
          /\ pod'[p].count = pod[p].count
          /\ pod'[p].own = IF pod[p].done = 2 THEN Len(opened) + 1 ELSE pod[p].own
      BY <1>7, BootDoes DEF OrderInv, ClockTyped
    <3>2. QED
      BY <2>1, <3>1
  <2>3. UNCHANGED <<opened, paired>>
    BY <1>7 DEF StartOrphanWatch, dbRows
  <2>4. \A q \in Pods \ {p} : pod'[q] = pod[q]
    BY <2>2 DEF Others
  <2>5. \A q \in Pods : q \in Alive' <=> q \in Alive
    BY <2>2, <2>4 DEF Alive
  <2>6. pod[p].count = NotYet
    BY <2>1, <2>2 DEF OrphanInv, OwnIsNext
  <2>7. \A n \in DOMAIN opened : opened[n] \in Pods /\ opened[n] # p /\ opened[n] < p
    <3> SUFFICES ASSUME NEW n \in DOMAIN opened
                 PROVE  opened[n] \in Pods /\ opened[n] # p /\ opened[n] < p
      OBVIOUS
    <3>1. opened[n] \in Pods /\ pod[opened[n]].st # "none"
      BY RowsAreNumbered DEF OrderInv, OrphanInv, RowsHaveOwners
    <3>2. opened[n] # p
      BY <2>1, <2>2 DEF OrphanInv, RowsHaveOwners
    <3>3. ~(opened[n] > p)
      BY <2>1, <2>2, <3>1, OneBootsOf
    <3>4. QED
      BY <1>2, <3>1, <3>2, <3>3
  <2>8. RowsHaveOwners' /\ OwnComesAfter'
    BY <2>2, <2>3, <2>4, <2>5, <2>7 DEF OrphanInv, RowsHaveOwners, OwnComesAfter
  <2>9. OwnIsNext'
    <3>1. Len(opened) \in Nat /\ Alive' \subseteq Pods
      BY RowsAreNumbered DEF OrderInv, Alive
    <3>2. QED
      BY <2>2, <2>3, <2>4, <2>5, <3>1 DEF OrphanInv, OwnIsNext
  <2>10. CountedHaveEnded' /\ OrphansAreLost'
    BY <2>2, <2>3, <2>4, <2>6, <2>7 DEF OrphanInv, CountedHaveEnded, OrphansAreLost
  <2>11. QED
    BY <2>8, <2>9, <2>10 DEF OrphanInv
<1>8. ASSUME NEW p \in Pods, SeeWhoIsThere(p)
      PROVE  OrphanInv'
  <2>1. pod[p].done = 3
    BY <1>8, RunInOrder DEF OrderInv, SeeWhoIsThere
  <2>2. /\ Others(p) /\ p \in Alive /\ pod'[p].st = pod[p].st /\ pod'[p].done = 4
        /\ pod'[p].count = pod[p].count /\ pod'[p].own = pod[p].own
    <3>1. /\ Others(p) /\ p \in Alive /\ pod'[p].st = pod[p].st /\ pod'[p].done = pod[p].done + 1
          /\ pod'[p].count = pod[p].count
          /\ pod'[p].own = IF pod[p].done = 2 THEN Len(opened) + 1 ELSE pod[p].own
      BY <1>8, BootDoes DEF OrderInv, ClockTyped
    <3>2. QED
      BY <2>1, <3>1
  <2>3. opened' = Append(opened, p) /\ paired' = paired
    BY <1>8 DEF SeeWhoIsThere, LogIn
  <2>4. \A q \in Pods \ {p} : pod'[q] = pod[q]
    BY <2>2 DEF Others
  <2>5. \A q \in Pods : q \in Alive' <=> q \in Alive
    BY <2>2, <2>4 DEF Alive
  <2>6. /\ DOMAIN opened = 1..Len(opened) /\ Len(opened) \in Nat
        /\ DOMAIN opened' = 1..Len(opened) + 1 /\ Len(opened') = Len(opened) + 1
        /\ \A n \in DOMAIN opened : opened'[n] = opened[n] /\ opened[n] \in Pods
        /\ opened'[Len(opened) + 1] = p
    BY <2>3 DEF OrderInv, RowsTyped
  <2>7. \A n \in DOMAIN opened' : n \in DOMAIN opened \/ n = Len(opened) + 1
    BY <2>6
  <2>8. p \in Alive' /\ pod'[p].st # "none" /\ pod'[p].st # "gone"
    BY <2>2, <2>5 DEF Alive
  <2>9. RowsHaveOwners'
    BY <2>1, <2>2, <2>3, <2>4, <2>5, <2>6, <2>7, <2>8 DEF OrphanInv, RowsHaveOwners
  <2>10. \A x \in Pods : pod'[x].own = pod[x].own /\ pod'[x].count = pod[x].count
                           /\ pod'[x].st = pod[x].st
    BY <2>2, <2>4
  <2>11. \A x \in Pods : \A n \in DOMAIN opened' : n < pod[x].own => n \in DOMAIN opened
    BY <2>6, <2>7 DEF OrphanInv, OwnIsNext
  <2>12. OwnComesAfter'
    BY <2>6, <2>10, <2>11 DEF OrphanInv, OwnComesAfter
  <2>13. OwnIsNext'
    <3>1. Alive' \subseteq Pods
      BY DEF Alive
    <3>2. \A x \in Pods : pod[x].own <= Len(opened') + 1
      BY <2>6 DEF OrphanInv, OwnIsNext
    <3>3. QED
      BY <2>1, <2>2, <2>4, <2>5, <2>10, <3>1, <3>2 DEF OrphanInv, OwnIsNext
  <2>14. CountedHaveEnded'
    BY <2>6, <2>10, <2>11 DEF OrphanInv, CountedHaveEnded
  <2>15. OrphansAreLost'
    <3> SUFFICES ASSUME NEW x \in Pods, pod[x].count # NotYet
                 PROVE  pod[x].count = {n \in DOMAIN opened' :
                          n < pod[x].own /\ n \notin paired /\ pod'[opened'[n]].st = "dead"}
      BY <2>3, <2>10 DEF OrphansAreLost
    <3>1. pod[x].count = {n \in DOMAIN opened :
            n < pod[x].own /\ n \notin paired /\ pod[opened[n]].st = "dead"}
      BY DEF OrphanInv, OrphansAreLost
    <3>2. \A n \in DOMAIN opened : n \in DOMAIN opened' /\ pod'[opened'[n]].st = pod[opened[n]].st
      BY <2>6, <2>10
    <3>3. QED
      BY <2>11, <3>1, <3>2
  <2>16. QED
    BY <2>9, <2>12, <2>13, <2>14, <2>15 DEF OrphanInv
<1>9. ASSUME NEW p \in Pods, CountOrphans(p)
      PROVE  OrphanInv'
  <2>1. /\ Others(p) /\ p \in Alive /\ pod[p].done >= 3
        /\ pod'[p].st = pod[p].st /\ pod'[p].done = pod[p].done /\ pod'[p].own = pod[p].own
        /\ pod'[p].count = {n \in DOMAIN opened : n < pod[p].own /\ n \notin paired}
    BY <1>9, CountDoes DEF OrderInv, Alive
  <2>2. UNCHANGED <<opened, paired>>
    BY <1>9 DEF CountOrphans, dbRows
  <2>3. \A q \in Pods \ {p} : pod'[q] = pod[q]
    BY <2>1 DEF Others
  <2>4. \A q \in Pods : (q \in Alive' <=> q \in Alive) /\ pod'[q].st = pod[q].st
    BY <2>1, <2>3 DEF Alive
  <2>5. \A n \in DOMAIN opened : n < pod[p].own => pod[opened[n]].st \in {"gone", "dead"}
    BY <1>9, WaitedLongEnough
  <2>6. \A n \in DOMAIN opened : opened[n] \in Pods
    BY RowsAreNumbered DEF OrderInv
  <2>7. RowsHaveOwners' /\ OwnComesAfter'
    BY <2>1, <2>2, <2>3, <2>4, <2>6 DEF OrphanInv, RowsHaveOwners, OwnComesAfter
  <2>8. OwnIsNext'
    <3>1. Alive' \subseteq Pods
      BY DEF Alive
    <3>2. ~(pod[p].done < 3)
      BY <1>2, <2>1
    <3>3. QED
      BY <2>1, <2>2, <2>3, <2>4, <3>1, <3>2 DEF OrphanInv, OwnIsNext
  <2>9. CountedHaveEnded'
    BY <2>1, <2>2, <2>3, <2>4, <2>5, <2>6 DEF OrphanInv, CountedHaveEnded
  <2>10. \A n \in DOMAIN opened : n < pod[p].own /\ n \notin paired => pod[opened[n]].st = "dead"
    BY <2>5 DEF OrphanInv, RowsHaveOwners
  <2>11. OrphansAreLost'
    <3> SUFFICES ASSUME NEW x \in Pods, pod'[x].count # NotYet
                 PROVE  pod'[x].count = {n \in DOMAIN opened :
                          n < pod[x].own /\ n \notin paired /\ pod[opened[n]].st = "dead"}
      BY <2>1, <2>2, <2>3, <2>4, <2>6 DEF OrphansAreLost
    <3>1. CASE x = p
      BY <2>1, <2>10, <3>1
    <3>2. CASE x # p
      BY <2>3, <3>2 DEF OrphanInv, OrphansAreLost
    <3>3. QED
      BY <3>1, <3>2
  <2>12. QED
    BY <2>7, <2>8, <2>9, <2>11 DEF OrphanInv
<1>10. QED
  BY <1>1, <1>3, <1>4, <1>5, <1>6, <1>7, <1>8, <1>9 DEF RolloutNext

LEMMA OrphanAlways == RolloutSpec => []OrphanInv
<1>1. RolloutInit => OrphanInv
  <2> SUFFICES ASSUME RolloutInit PROVE OrphanInv
    OBVIOUS
  <2>1. /\ DOMAIN opened = {} /\ Len(opened) = 0
        /\ \A p \in Pods : pod[p].own = 0 /\ pod[p].count = NotYet
    BY UnbornIsTyped DEF RolloutInit
  <2>2. QED
    BY <2>1 DEF OrphanInv, RowsHaveOwners, OwnComesAfter, OwnIsNext, CountedHaveEnded,
       OrphansAreLost, Alive
<1>2. QED
  BY <1>1, OrphanInductive, OrderAlways, PTL DEF RolloutSpec
-----------------------------------------------------------------------------
(* The viewer's miles *)

MilesInv == SessionsTrail /\ SinceIsBounded /\ RowTrails /\ RowIsReadInTime /\ OneIsNewest

LEMMA BillsAddUp ==
  /\ \A n \in Nat : Bill(n) \in Nat /\ Bill(n + 1) = Bill(n) + Interval + Grace
  /\ \A m, n \in Nat : m <= n => Bill(m) <= Bill(n)
<1> DEFINE c == Interval + Grace
<1>1. c \in Nat
  BY RolloutConstants
<1>2. \A n \in Nat : Bill(n) = n * c
  BY DEF Bill
<1>3. c = Interval + Grace /\ Interval \in Nat /\ Grace \in Nat
  BY RolloutConstants
<1> HIDE DEF c
<1>4. \A n \in Nat : n * c \in Nat /\ (n + 1) * c = n * c + c
  BY <1>1
<1>5. \A m, d \in Nat : m * c <= (m + d) * c
  <2> TAKE m, d \in Nat
  <2>1. (m + d) * c = m * c + d * c /\ d * c \in Nat /\ m * c \in Nat
    BY <1>1
  <2>2. QED
    BY <2>1
<1>6. \A m, n \in Nat : m <= n => m * c <= n * c
  <2> SUFFICES ASSUME NEW m \in Nat, NEW n \in Nat, m <= n PROVE m * c <= n * c
    OBVIOUS
  <2>1. n - m \in Nat /\ m + (n - m) = n
    OBVIOUS
  <2>2. QED
    BY <1>5, <2>1
<1>7. QED
  BY <1>2, <1>3, <1>4, <1>6

\* What the arithmetic of the miles needs to know of the types.
LEMMA MilesAreNaturals ==
  ASSUME PodsTyped, RowsTyped, ClockTyped
  PROVE  /\ watched \in Nat /\ stored \in Nat /\ clock \in Nat /\ Interval \in Nat /\ Grace \in Nat
         /\ Cardinality(Pods) \in Nat
         /\ \A q \in Pods :
              /\ q \in Nat /\ q - 1 \in Nat /\ Bill(q) \in Nat /\ Bill(q - 1) \in Nat
              /\ Bill(q) = Bill(q - 1) + Interval + Grace
              /\ pod[q].miles \in Nat /\ pod[q].since \in Nat /\ pod[q].told \in Nat
              /\ pod[q].on \in BOOLEAN /\ pod[q].done \in 0..5
<1>1. /\ Cardinality(Pods) \in Nat
      /\ \A q \in Pods : q \in Nat /\ q >= 1
  BY PodsAreNaturals
<1>2. \A q \in Pods : q - 1 \in Nat /\ (q - 1) + 1 = q
  BY <1>1
<1>3. \A q \in Pods : Bill(q) \in Nat /\ Bill(q - 1) \in Nat
                        /\ Bill(q) = Bill(q - 1) + Interval + Grace
  BY <1>1, <1>2, BillsAddUp
<1>4. \A q \in Pods : pod[q] \in PodRecords
  BY DEF PodsTyped
<1>5. \A q \in Pods : pod[q].miles \in Nat /\ pod[q].since \in Nat
  BY <1>4 DEF PodRecords
<1>6. QED
  BY <1>1, <1>2, <1>3, <1>5, TimesAreNaturals DEF RowsTyped

LEMMA PodsAreNumbered ==
  /\ \A q \in Pods : q \in 0..Cardinality(Pods) /\ q - 1 \in 0..Cardinality(Pods)
  /\ \A q \in Pods : \A n \in 0..Cardinality(Pods) : q <= n => n \in Pods
<1>1. Cardinality(Pods) \in Nat /\ Pods = 1..Cardinality(Pods)
  BY RolloutConstants, PodsAreNaturals
<1>2. QED
  BY <1>1

LEMMA NewestIs ==
  ASSUME OrderInv, NEW p \in Pods, pod[p].st # "none",
         \A q \in Pods : q > p => pod[q].st = "none",
         NEW n \in 0..Cardinality(Pods), Newest(n)
  PROVE  n = p
<1>1. p \in Nat /\ n \in Nat
  BY PodsAreNaturals
<1>2. p <= n
  BY DEF Newest
<1>3. ~(n > p)
  <2> SUFFICES ASSUME n > p PROVE FALSE
    OBVIOUS
  <2>1. n \in Pods
    BY <1>1, <1>2, PodsAreNumbered
  <2>2. QED
    BY <1>1, <2>1 DEF Newest
<1>4. QED
  BY <1>1, <1>2, <1>3

\* A step that writes no miles and gives no pod a session.
LEMMA MilesUnmoved ==
  ASSUME MilesInv, UNCHANGED <<stored, watched, clock>>,
         \A q \in Pods :
           /\ pod'[q].st = "none" <=> pod[q].st = "none"
           /\ pod'[q].on => /\ pod[q].on
                            /\ pod'[q].miles = pod[q].miles /\ pod'[q].since = pod[q].since
                            /\ pod'[q].told = pod[q].told
                            /\ pod'[q].st = "up" <=> pod[q].st = "up"
           /\ q \in Alive' /\ pod'[q].done < 4 => q \in Alive /\ pod[q].done < 4
  PROVE  MilesInv'
<1>1. \A n \in 0..Cardinality(Pods) : Newest(n)' <=> Newest(n)
  BY DEF Newest
<1>2. Alive' \subseteq Pods
  BY DEF Alive
<1>3. SessionsTrail' /\ RowIsReadInTime' /\ OneIsNewest'
  BY <1>1, <1>2 DEF MilesInv, SessionsTrail, RowIsReadInTime, OneIsNewest, Trail
<1>4. SinceIsBounded'
  BY DEF MilesInv, SinceIsBounded
<1>5. RowTrails'
  BY <1>1 DEF MilesInv, RowTrails, Trail
<1>6. QED
  BY <1>3, <1>4, <1>5 DEF MilesInv

\* The row is written from w's session: no one needs it fresher.
LEMMA MilesBanked ==
  ASSUME OrderInv, OrderInv', MilesInv, UNCHANGED <<watched, clock>>,
         NEW w \in Pods, Others(w), pod[w].on, pod[w].done = 5,
         pod'[w].done = 5, pod'[w].st # "none", pod'[w].told = pod[w].told,
         stored' = pod[w].miles + pod[w].since, pod'[w].since = 0,
         pod'[w].on => pod'[w].miles = stored'
  PROVE  MilesInv'
<1>1. /\ watched \in Nat /\ stored \in Nat /\ stored' \in Nat /\ clock \in Nat
      /\ Interval \in Nat /\ Grace \in Nat
      /\ \A q \in Pods :
           /\ q \in Nat /\ q - 1 \in Nat /\ Bill(q) \in Nat /\ Bill(q - 1) \in Nat
           /\ pod[q].since \in Nat /\ pod[q].told \in Nat /\ pod[q].done \in 0..5
  BY MilesAreNaturals DEF OrderInv, RowsTyped
<1>2. /\ \A q \in Pods \ {w} : pod'[q] = pod[q] /\ (q \in Alive' <=> q \in Alive)
      /\ w \in Alive /\ pod[w].st # "none"
  BY DEF Others, Alive, OrderInv, SessionIsOn
<1>3. watched - stored' <= Bill(w - 1)
  BY DEF MilesInv, SessionsTrail
<1>4. SessionsTrail'
  BY <1>1, <1>2, <1>3 DEF MilesInv, SessionsTrail
<1>5. SinceIsBounded'
  <2>1. pod'[w].on => pod'[w].st = "up" \/ pod'[w].told <= clock
    BY DEF OrderInv, EndsInTime, SessionIsOn, Alive
  <2>2. QED
    BY <1>1, <1>2, <2>1 DEF MilesInv, SinceIsBounded
<1>6. RowTrails'
  <2> SUFFICES ASSUME NEW n \in 0..Cardinality(Pods), Newest(n)'
               PROVE  /\ watched - stored' <= Bill(n)
                      /\ \A p \in Pods : pod'[p].on =>
                           watched - stored' <= Bill(n - 1) + pod'[p].since
    BY DEF RowTrails, Trail
  <2>1. w <= n
    BY DEF Newest
  <2>2. n - 1 \in Nat /\ n \in Nat /\ w - 1 <= n - 1 /\ w - 1 <= n
    BY <1>1, <2>1, PodsAreNumbered
  <2>3. /\ Bill(w - 1) <= Bill(n) /\ Bill(w - 1) <= Bill(n - 1)
        /\ Bill(n) \in Nat /\ Bill(n - 1) \in Nat
    BY <1>1, <2>2, BillsAddUp
  <2>4. \A p \in Pods : pod'[p].since \in Nat
    BY <1>1, <1>2
  <2>5. QED
    BY <1>1, <1>3, <2>3, <2>4
<1>7. RowIsReadInTime'
  <2> SUFFICES ASSUME NEW r \in Pods, r \in Alive', pod'[r].done < 4
               PROVE  watched - stored' <= Bill(r - 1)
    BY DEF RowIsReadInTime, Trail, Alive
  <2>1. r # w /\ r \in Alive /\ pod[r].done < 5
    BY <1>1, <1>2
  <2>2. w < r
    BY <1>2, <2>1, OneBootsOf
  <2>3. w - 1 <= r - 1
    BY <1>1, <2>2
  <2>4. Bill(w - 1) <= Bill(r - 1)
    BY <1>1, <2>3, BillsAddUp
  <2>5. QED
    BY <1>1, <1>3, <2>4
<1>8. OneIsNewest'
  <2>1. \A n \in 0..Cardinality(Pods) : Newest(n)' <=> Newest(n)
    BY <1>2 DEF Newest
  <2>2. QED
    BY <2>1 DEF MilesInv, OneIsNewest
<1>9. QED
  BY <1>4, <1>5, <1>6, <1>7, <1>8 DEF MilesInv

LEMMA TickKeepsMiles ==
  ASSUME OrderInv, OrderInv', MilesInv, ClockTicks
  PROVE  MilesInv'
<1>1. /\ watched \in Nat /\ stored \in Nat /\ clock \in Nat /\ Interval \in Nat /\ Grace \in Nat
      /\ \A q \in Pods :
           /\ q \in Nat /\ q - 1 \in Nat /\ Bill(q) \in Nat /\ Bill(q - 1) \in Nat
           /\ Bill(q) = Bill(q - 1) + Interval + Grace
           /\ pod[q].miles \in Nat /\ pod[q].since \in Nat /\ pod[q].told \in Nat
           /\ pod[q].done \in 0..5
  BY MilesAreNaturals DEF OrderInv
<1>2. \A q \in Pods : /\ pod'[q].st = pod[q].st /\ pod'[q].done = pod[q].done
                      /\ pod'[q].told = pod[q].told /\ pod'[q].on = pod[q].on
                      /\ pod'[q].miles = pod[q].miles
                      /\ pod'[q].since = IF q \in Alive /\ pod[q].on THEN pod[q].since + 1
                                                                     ELSE pod[q].since
  BY ClockTicksDoes DEF OrderInv
<1>3. \A q \in Pods : pod[q].on => q \in Alive /\ pod[q].st \in {"up", "stopping"}
  BY DEF OrderInv, SessionIsOn, Alive
<1>4. \A q \in Pods : pod[q].on => pod'[q].since = pod[q].since + 1
  BY <1>2, <1>3
<1>5. /\ clock' = clock + 1 /\ stored' = stored
      /\ (\E q \in Pods : pod[q].on) => watched' = watched + 1
      /\ ~(\E q \in Pods : pod[q].on) => watched' = watched
  <2>1. (\E p \in Alive : pod[p].on) <=> (\E q \in Pods : pod[q].on)
    BY <1>3 DEF Alive
  <2>2. watched' = watched + IF \E p \in Alive : pod[p].on THEN 1 ELSE 0
    BY DEF ClockTicks
  <2>3. clock' = clock + 1 /\ stored' = stored
    BY DEF ClockTicks, dbRows
  <2>4. QED
    BY <1>1, <2>1, <2>2, <2>3
<1>6. SessionsTrail'
  <2> SUFFICES ASSUME NEW p \in Pods, pod[p].on
               PROVE  watched' - (pod'[p].miles + pod'[p].since) <= Bill(p - 1)
    BY <1>2 DEF SessionsTrail
  <2>1. watched - (pod[p].miles + pod[p].since) <= Bill(p - 1)
    BY DEF MilesInv, SessionsTrail
  <2>2. watched' = watched + 1 /\ pod'[p].miles = pod[p].miles /\ pod'[p].since = pod[p].since + 1
    BY <1>2, <1>4, <1>5
  <2>3. QED
    BY <1>1, <2>1, <2>2
<1>7. SinceIsBounded'
  <2> SUFFICES ASSUME NEW p \in Pods, pod'[p].on
               PROVE  pod'[p].since <= Interval + IF pod'[p].st = "up" THEN 0
                                                   ELSE clock' - pod'[p].told
    BY DEF SinceIsBounded
  <2>4. /\ pod[p].on /\ pod'[p].since = pod[p].since + 1 /\ pod'[p].st = pod[p].st
        /\ pod'[p].told = pod[p].told /\ clock' = clock + 1
    BY <1>2, <1>4, <1>5
  <2>1. pod[p].since <= Interval + IF pod[p].st = "up" THEN 0 ELSE clock - pod[p].told
    BY <2>4 DEF MilesInv, SinceIsBounded
  <2>2. pod[p].st = "up" => pod[p].since < Interval
    BY <1>3, <2>4 DEF ClockTicks, OnTime
  <2>3. QED
    BY <1>1, <2>1, <2>2, <2>4
<1>8. RowTrails'
  <2> SUFFICES ASSUME NEW n \in 0..Cardinality(Pods), Newest(n)'
               PROVE  /\ watched' - stored <= Bill(n)
                      /\ \A p \in Pods : pod[p].on =>
                           watched' - stored <= Bill(n - 1) + pod'[p].since
    BY <1>2, <1>5 DEF RowTrails, Trail
  <2>1. Newest(n)
    BY <1>2 DEF Newest
  <2>2. /\ watched - stored <= Bill(n)
        /\ \A p \in Pods : pod[p].on => watched - stored <= Bill(n - 1) + pod[p].since
    BY <2>1 DEF MilesInv, RowTrails, Trail
  <2>3. ASSUME NEW p \in Pods, pod[p].on
        PROVE  /\ watched' - stored <= Bill(n - 1) + pod'[p].since
               /\ watched' - stored <= Bill(n)
    <3>1. n \in Pods
      <4>1. p <= n
        BY <1>3, <2>1, <2>3 DEF Newest
      <4>2. QED
        BY <4>1, PodsAreNumbered
    <3>2. /\ watched' = watched + 1 /\ pod'[p].since = pod[p].since + 1
          /\ Bill(n) = Bill(n - 1) + Interval + Grace /\ Bill(n) \in Nat /\ Bill(n - 1) \in Nat
      BY <1>1, <1>4, <1>5, <2>3, <3>1
    <3>3. watched' - stored <= Bill(n - 1) + pod'[p].since
      BY <1>1, <2>2, <2>3, <3>2
    <3>4. pod'[p].since <= Interval + Grace
      <4>4. pod'[p].on /\ pod'[p].st = pod[p].st /\ pod'[p].told = pod[p].told /\ clock' = clock + 1
        BY <1>2, <1>5, <2>3
      <4>1. pod'[p].since <= Interval + IF pod'[p].st = "up" THEN 0 ELSE clock' - pod'[p].told
        BY <1>7, <4>4 DEF SinceIsBounded
      <4>2. pod[p].st # "up" => clock < pod[p].told + Grace
        BY <1>3, <2>3 DEF ClockTicks, OnTime
      <4>3. QED
        BY <1>1, <3>2, <4>1, <4>2, <4>4
    <3>5. QED
      BY <1>1, <3>2, <3>3, <3>4
  <2>4. CASE \E p \in Pods : pod[p].on
    BY <2>3, <2>4
  <2>5. CASE ~(\E p \in Pods : pod[p].on)
    BY <1>5, <2>2, <2>5
  <2>6. QED
    BY <2>4, <2>5
<1>9. RowIsReadInTime'
  <2>1. \A p \in Alive : pod[p].done = 5
    BY RunInOrder DEF ClockTicks, OnTime, OrderInv, Alive
  <2>2. \A p \in Alive' : pod'[p].done = 5
    BY <1>2, <2>1 DEF Alive
  <2>3. QED
    BY <2>2 DEF RowIsReadInTime
<1>10. OneIsNewest'
  BY <1>2 DEF MilesInv, OneIsNewest, Newest
<1>11. QED
  BY <1>6, <1>7, <1>8, <1>9, <1>10 DEF MilesInv

LEMMA LaunchKeepsMiles ==
  ASSUME OrderInv, OrderInv', MilesInv, NEW p \in Pods, Launch(p)
  PROVE  MilesInv'
<1>1. /\ watched \in Nat /\ stored \in Nat
      /\ Interval \in Nat /\ Grace \in Nat
      /\ \A q \in Pods :
           /\ q \in Nat /\ q - 1 \in Nat /\ Bill(q) \in Nat /\ Bill(q - 1) \in Nat
           /\ Bill(q) = Bill(q - 1) + Interval + Grace /\ pod[q].since \in Nat
  BY MilesAreNaturals DEF OrderInv
<1>2. /\ Others(p) /\ pod[p].st = "none" /\ pod'[p].st = "up" /\ pod'[p].on = FALSE
  BY LaunchDoes DEF OrderInv
<1>3. UNCHANGED <<stored, watched, clock>>
  BY DEF Launch, dbRows
<1>4. /\ \A q \in Pods : q < p <=> pod[q].st # "none"
      /\ \A q \in Alive : pod[q].done = 5
  BY LaunchIsNext
<1>5. \A q \in Pods \ {p} : pod'[q] = pod[q] /\ (q \in Alive' <=> q \in Alive)
  BY <1>2 DEF Others, Alive
<1>6. watched - stored <= Bill(p - 1)
  <2>1. p - 1 \in 0..Cardinality(Pods)
    BY PodsAreNumbered
  <2>2. \A q \in Pods : q <= p - 1 <=> q < p
    BY <1>1
  <2>3. Newest(p - 1)
    BY <1>4, <2>2 DEF Newest
  <2>4. QED
    BY <2>1, <2>3 DEF MilesInv, RowTrails, Trail
<1>7. SessionsTrail' /\ SinceIsBounded'
  BY <1>2, <1>3, <1>5 DEF MilesInv, SessionsTrail, SinceIsBounded
<1>8. RowIsReadInTime'
  <2>1. \A q \in Alive' : q = p \/ pod'[q].done = 5
    BY <1>4, <1>5 DEF Alive
  <2>2. QED
    BY <1>3, <1>6, <2>1 DEF RowIsReadInTime, Trail
<1>9. RowTrails'
  <2> SUFFICES ASSUME NEW n \in 0..Cardinality(Pods), Newest(n)'
               PROVE  /\ watched - stored <= Bill(n)
                      /\ \A q \in Pods : pod'[q].on =>
                           watched - stored <= Bill(n - 1) + pod'[q].since
    BY <1>3 DEF RowTrails, Trail
  <2>1. n = p
    <3>1. p <= n
      BY <1>2 DEF Newest
    <3>2. n \in Pods
      BY <3>1, PodsAreNumbered
    <3>3. pod'[n].st # "none"
      BY <1>1, <3>2 DEF Newest
    <3>4. n = p \/ n < p
      BY <1>4, <1>5, <3>2, <3>3
    <3>5. QED
      BY <1>1, <3>1, <3>4
  <2>2. \A q \in Pods : pod'[q].on => pod'[q].since \in Nat
    BY <1>1, <1>2, <1>5
  <2>3. QED
    BY <1>1, <1>6, <2>1, <2>2
<1>10. OneIsNewest'
  <2>1. p \in 0..Cardinality(Pods)
    BY PodsAreNumbered
  <2>2. \A q \in Pods : q <= p <=> (q = p \/ q < p)
    BY <1>1
  <2>3. Newest(p)'
    BY <1>2, <1>4, <1>5, <2>2 DEF Newest
  <2>4. QED
    BY <2>1, <2>3 DEF OneIsNewest
<1>11. QED
  BY <1>7, <1>8, <1>9, <1>10 DEF MilesInv

LEMMA LoginKeepsMiles ==
  ASSUME OrderInv, OrderInv', MilesInv, NEW p \in Pods, SeeWhoIsThere(p)
  PROVE  MilesInv'
<1>1. /\ watched \in Nat /\ stored \in Nat /\ clock \in Nat /\ Interval \in Nat /\ Grace \in Nat
      /\ \A q \in Pods :
           /\ q \in Nat /\ q - 1 \in Nat /\ Bill(q - 1) \in Nat /\ pod[q].told \in Nat
  BY MilesAreNaturals DEF OrderInv
<1>2. pod[p].done = 3
  BY RunInOrder DEF OrderInv, SeeWhoIsThere
<1>3. /\ Others(p) /\ p \in Alive /\ pod'[p].st = pod[p].st /\ pod'[p].done = 4
      /\ pod'[p].on = TRUE /\ pod'[p].miles = stored /\ pod'[p].since = 0
      /\ pod'[p].told = pod[p].told
  <2>1. /\ Others(p) /\ p \in Alive /\ pod'[p].st = pod[p].st /\ pod'[p].done = pod[p].done + 1
        /\ pod'[p].on = IF pod[p].done = 3 THEN TRUE ELSE pod[p].on
        /\ pod'[p].miles = IF pod[p].done = 3 THEN stored ELSE pod[p].miles
        /\ pod'[p].since = IF pod[p].done = 3 THEN 0 ELSE pod[p].since
        /\ pod'[p].told = pod[p].told
    BY BootDoes DEF OrderInv, ClockTyped
  <2>2. QED
    BY <1>2, <2>1
<1>4. UNCHANGED <<stored, watched, clock>>
  BY DEF SeeWhoIsThere, LogIn
<1>5. /\ \A q \in Pods : q > p => pod[q].st = "none"
      /\ \A q \in Alive : q # p => pod[q].done = 5
  BY <1>2, <1>3, OneBootsOf
<1>6. \A q \in Pods \ {p} : pod'[q] = pod[q] /\ (q \in Alive' <=> q \in Alive)
  BY <1>3 DEF Others, Alive
<1>7. watched - stored <= Bill(p - 1) /\ pod[p].st # "none"
  BY <1>2, <1>3 DEF MilesInv, RowIsReadInTime, Trail, Alive
<1>8. SessionsTrail'
  <2>1. watched - (stored + 0) <= Bill(p - 1)
    BY <1>1, <1>7
  <2>2. QED
    BY <1>3, <1>4, <1>6, <2>1 DEF MilesInv, SessionsTrail
<1>9. SinceIsBounded'
  <2>1. pod[p].st # "up" => pod[p].told <= clock
    BY <1>3 DEF OrderInv, EndsInTime
  <2>2. 0 <= Interval + IF pod[p].st = "up" THEN 0 ELSE clock - pod[p].told
    BY <1>1, <2>1
  <2>3. QED
    BY <1>3, <1>4, <1>6, <2>2 DEF MilesInv, SinceIsBounded
<1>10. \A n \in 0..Cardinality(Pods) : Newest(n)' <=> Newest(n)
  BY <1>3, <1>6 DEF Newest
<1>11. RowTrails'
  <2> SUFFICES ASSUME NEW n \in 0..Cardinality(Pods), Newest(n)
               PROVE  /\ watched - stored <= Bill(n)
                      /\ \A q \in Pods : pod'[q].on =>
                           watched - stored <= Bill(n - 1) + pod'[q].since
    BY <1>4, <1>10 DEF RowTrails, Trail
  <2>1. n = p
    BY <1>5, <1>7, NewestIs
  <2>2. /\ watched - stored <= Bill(n)
        /\ \A q \in Pods : pod[q].on => watched - stored <= Bill(n - 1) + pod[q].since
    BY DEF MilesInv, RowTrails, Trail
  <2>3. watched - stored <= Bill(p - 1) + 0
    BY <1>1, <1>7
  <2>4. QED
    BY <1>3, <1>6, <2>1, <2>2, <2>3
<1>12. RowIsReadInTime'
  BY <1>3, <1>5, <1>6 DEF RowIsReadInTime, Alive
<1>13. OneIsNewest'
  BY <1>10 DEF MilesInv, OneIsNewest
<1>14. QED
  BY <1>8, <1>9, <1>11, <1>12, <1>13 DEF MilesInv

LEMMA MilesInductive ==
  ASSUME OrderInv, OrderInv', MilesInv, [RolloutNext]_rolloutVars
  PROVE  MilesInv'
<1>1. CASE UNCHANGED rolloutVars
  BY <1>1, MilesUnmoved DEF rolloutVars, dbRows, Alive
<1>2. CASE ClockTicks
  BY <1>2, TickKeepsMiles
<1>3. ASSUME NEW p \in Pods, Launch(p)
      PROVE  MilesInv'
  BY <1>3, LaunchKeepsMiles
<1>4. ASSUME NEW p \in Pods, SeeWhoIsThere(p)
      PROVE  MilesInv'
  BY <1>4, LoginKeepsMiles
<1>5. ASSUME NEW p \in Pods, Checkpoint(p)
      PROVE  MilesInv'
  <2>1. /\ Others(p) /\ p \in Alive /\ pod[p].on /\ pod'[p].told = pod[p].told
        /\ pod'[p].miles = pod[p].miles + pod[p].since /\ pod'[p].since = 0
        /\ pod'[p].st = pod[p].st /\ pod'[p].done = pod[p].done
    BY <1>5, CheckpointDoes DEF OrderInv
  <2>2. pod[p].done = 5
    BY <1>5, RunInOrder DEF OrderInv, Checkpoint
  <2>3. /\ stored' = pod[p].miles + pod[p].since /\ UNCHANGED <<watched, clock>>
        /\ pod[p].st # "none"
    BY <1>5 DEF Checkpoint, WritesWhole, Alive
  <2>4. QED
    BY <2>1, <2>2, <2>3, MilesBanked
<1>6. ASSUME NEW p \in Pods, Flush(p)
      PROVE  MilesInv'
  <2>1. /\ Others(p) /\ pod[p].on /\ pod[p].done = 5 /\ pod'[p].told = pod[p].told
        /\ pod'[p].since = 0 /\ pod'[p].on = FALSE
        /\ pod'[p].st # "none" /\ pod'[p].done = pod[p].done
    BY <1>6, FlushDoes DEF OrderInv
  <2>2. stored' = pod[p].miles + pod[p].since /\ UNCHANGED <<watched, clock>>
    BY <1>6 DEF Flush, WritesWhole
  <2>3. QED
    BY <2>1, <2>2, MilesBanked
<1>7. ASSUME NEW p \in Pods, Tell(p)
      PROVE  MilesInv'
  <2>1. /\ Others(p) /\ pod[p].st = "up" /\ pod'[p].st = "stopping" /\ pod'[p].told = clock
        /\ pod'[p].on = pod[p].on /\ pod'[p].miles = pod[p].miles
        /\ pod'[p].since = pod[p].since /\ pod'[p].done = pod[p].done
    BY <1>7, TellDoes DEF OrderInv, ClockTyped
  <2>2. UNCHANGED <<stored, watched, clock>>
    BY <1>7 DEF Tell, dbRows
  <2>3. \A q \in Pods \ {p} : pod'[q] = pod[q]
    BY <2>1 DEF Others
  <2>4. /\ clock \in Nat /\ Interval \in Nat /\ pod[p].since \in Nat
    BY MilesAreNaturals DEF OrderInv
  <2>5. \A q \in Pods : (q \in Alive' <=> q \in Alive) /\ (pod'[q].st = "none" <=> pod[q].st = "none")
    BY <2>1, <2>3 DEF Alive
  <2>6. \A n \in 0..Cardinality(Pods) : Newest(n)' <=> Newest(n)
    BY <2>5 DEF Newest
  <2>7. SessionsTrail' /\ OneIsNewest'
    BY <2>1, <2>2, <2>3, <2>6 DEF MilesInv, SessionsTrail, OneIsNewest
  <2>8. RowTrails'
    BY <2>1, <2>2, <2>3, <2>6 DEF MilesInv, RowTrails, Trail
  <2>9. RowIsReadInTime'
    <3>1. Alive' \subseteq Pods
      BY DEF Alive
    <3>2. QED
      BY <2>1, <2>2, <2>3, <2>5, <3>1 DEF MilesInv, RowIsReadInTime, Trail
  <2>10. SinceIsBounded'
    <3>1. pod[p].on => pod[p].since <= Interval + 0
      BY <2>1 DEF MilesInv, SinceIsBounded
    <3>2. pod'[p].on => pod'[p].since <= Interval + IF pod'[p].st = "up" THEN 0 ELSE clock' - pod'[p].told
      BY <2>1, <2>2, <2>4, <3>1
    <3>3. QED
      BY <2>2, <2>3, <3>2 DEF MilesInv, SinceIsBounded
  <2>11. QED
    BY <2>7, <2>8, <2>9, <2>10 DEF MilesInv
<1>8. ASSUME NEW p \in Pods, Die(p) \/ Exit(p)
      PROVE  MilesInv'
  <2>1. PICK how \in {"gone", "dead"} : Set(p, Over(p, how))
    BY <1>8 DEF Die, Exit
  <2>2. Others(p) /\ pod'[p].st = how /\ pod'[p].on = FALSE
    BY <2>1, OverDoes DEF OrderInv
  <2>3. UNCHANGED <<stored, watched, clock>> /\ pod[p].st # "none" /\ p \notin Alive'
    BY <1>8, <2>2 DEF Die, Exit, dbRows, Alive
  <2>4. \A q \in Pods \ {p} : pod'[q] = pod[q] /\ (q \in Alive' <=> q \in Alive)
    BY <2>2 DEF Others, Alive
  <2>5. pod'[p].st # "none"
    BY <2>2
  <2>6. QED
    BY <2>2, <2>3, <2>4, <2>5, MilesUnmoved
<1>9. ASSUME NEW p \in Pods, Serve(p) \/ RecordDeploy(p) \/ StartOrphanWatch(p) \/ StartCron(p)
      PROVE  MilesInv'
  <2>1. /\ Others(p) /\ p \in Alive /\ pod'[p].st = pod[p].st
        /\ pod'[p].done = pod[p].done + 1 /\ pod'[p].told = pod[p].told
        /\ pod'[p].on = IF pod[p].done = 3 THEN TRUE ELSE pod[p].on
        /\ pod'[p].miles = IF pod[p].done = 3 THEN stored ELSE pod[p].miles
        /\ pod'[p].since = IF pod[p].done = 3 THEN 0 ELSE pod[p].since
    BY <1>9, BootDoes DEF OrderInv, ClockTyped
  <2>2. pod[p].done # 3 /\ pod[p].done \in 0..5
    BY <1>9, RunInOrder DEF OrderInv, Serve, RecordDeploy, StartOrphanWatch, StartCron
  <2>3. UNCHANGED <<stored, watched, clock>>
    BY <1>9 DEF Serve, RecordDeploy, StartOrphanWatch, StartCron, dbRows
  <2>4. \A q \in Pods \ {p} : pod'[q] = pod[q] /\ (q \in Alive' <=> q \in Alive)
    BY <2>1 DEF Others, Alive
  <2>5. pod'[p].done < 4 => pod[p].done < 4
    BY <2>1, <2>2
  <2>6. QED
    BY <2>1, <2>2, <2>3, <2>4, <2>5, MilesUnmoved
<1>10. ASSUME NEW p \in Pods, ReadLastDeploy(p) \/ CountOrphans(p)
      PROVE  MilesInv'
  <2>1. /\ Others(p) /\ pod'[p].st = pod[p].st /\ pod'[p].done = pod[p].done
        /\ pod'[p].told = pod[p].told /\ pod'[p].on = pod[p].on
        /\ pod'[p].miles = pod[p].miles /\ pod'[p].since = pod[p].since
    BY <1>10, ReadDoes, CountDoes DEF OrderInv
  <2>2. UNCHANGED <<stored, watched, clock>>
    BY <1>10 DEF ReadLastDeploy, CountOrphans, dbRows
  <2>3. \A q \in Pods \ {p} : pod'[q] = pod[q]
    BY <2>1 DEF Others
  <2>4. \A q \in Pods : q \in Alive' <=> q \in Alive
    BY <2>1, <2>3 DEF Alive
  <2>5. QED
    BY <2>1, <2>2, <2>3, <2>4, MilesUnmoved
<1>11. QED
  BY <1>1, <1>2, <1>3, <1>4, <1>5, <1>6, <1>7, <1>8, <1>9, <1>10 DEF RolloutNext

LEMMA MilesAlways == RolloutSpec => []MilesInv
<1>1. RolloutInit => MilesInv
  <2> SUFFICES ASSUME RolloutInit PROVE MilesInv
    OBVIOUS
  <2>1. \A p \in Pods : pod[p].on = FALSE /\ pod[p].st = "none"
    BY UnbornIsTyped DEF RolloutInit
  <2>2. Alive = {} /\ Trail = 0
    BY <2>1 DEF Alive, RolloutInit, Trail
  <2>3. \A n \in 0..Cardinality(Pods) : Bill(n) \in Nat
    BY BillsAddUp, PodsAreNaturals
  <2>4. Newest(0) /\ 0 \in 0..Cardinality(Pods)
    BY <2>1, PodsAreNaturals DEF Newest
  <2>5. RowTrails
    BY <2>1, <2>2, <2>3 DEF RowTrails
  <2>6. QED
    BY <2>1, <2>2, <2>4, <2>5 DEF MilesInv, SessionsTrail, SinceIsBounded, RowIsReadInTime,
       OneIsNewest
<1>2. QED
  BY <1>1, MilesInductive, OrderAlways, PTL DEF RolloutSpec

\* The first k pods have ended: at least k of them.
LEMMA EndedAreMany ==
  ASSUME NEW k \in 0..Cardinality(Pods), NEW E \in SUBSET Pods, \A q \in Pods : q <= k => q \in E
  PROVE  Bill(k) <= Cardinality(E) * (Interval + Grace) /\ Bill(k) \in Nat
           /\ Cardinality(E) * (Interval + Grace) \in Nat
<1>1. Cardinality(Pods) \in Nat /\ Pods = 1..Cardinality(Pods) /\ IsFiniteSet(Pods)
  BY RolloutConstants, FS_CardinalityType
<1>2. 1..k \subseteq E
  BY <1>1
<1>3. IsFiniteSet(E) /\ Cardinality(E) \in Nat
  BY <1>1, FS_Subset, FS_CardinalityType
<1>4. Cardinality(1..k) = k
  <2>1. k \in Int /\ 1 \in Int /\ k >= 0
    BY <1>1
  <2>2. Cardinality(1..k) = IF 1 > k THEN 0 ELSE k - 1 + 1
    BY <2>1, FS_Interval
  <2>3. QED
    BY <2>1, <2>2
<1>5. Cardinality(1..k) <= Cardinality(E)
  BY <1>2, <1>3, FS_Subset
<1>6. k \in Nat /\ k <= Cardinality(E)
  BY <1>1, <1>4, <1>5
<1>7. Bill(k) <= Bill(Cardinality(E)) /\ Bill(k) \in Nat /\ Bill(Cardinality(E)) \in Nat
  BY <1>3, <1>6, BillsAddUp
<1>8. QED
  BY <1>7 DEF Bill

\* Some session or the row has the miles; the pods before it have all ended.
LEMMA TheBillIsPaid == OrderInv /\ MilesInv => EndsCostAnInterval
<1> SUFFICES ASSUME OrderInv, MilesInv PROVE EndsCostAnInterval
  OBVIOUS
<1> DEFINE ended == {q \in Pods : pod[q].st \in {"closing", "gone", "dead"}}
<1>1. /\ watched \in Nat /\ stored \in Nat
      /\ \A q \in Pods :
           /\ q \in Nat /\ q - 1 \in Nat /\ Bill(q - 1) \in Nat
           /\ pod[q].miles \in Nat /\ pod[q].since \in Nat /\ pod[q].done \in 0..5
  BY MilesAreNaturals DEF OrderInv
<1>2. \A q \in Pods : pod[q].st \in {"none", "up", "stopping", "closing", "gone", "dead"}
  BY TimesAreNaturals DEF OrderInv
<1>3. \A q \in Pods : pod[q].st \in {"up", "stopping"} /\ pod[q].done = 5 => pod[q].on
  BY DEF OrderInv, SessionIsOn
<1>4. ASSUME NEW m \in Shown, NEW k \in 0..Cardinality(Pods),
             \A q \in Pods : q <= k => q \in ended, watched - m <= Bill(k), m \in Nat
      PROVE  EndsCostAnInterval
  <2>1. Bill(k) <= Cardinality(ended) * (Interval + Grace) /\ Bill(k) \in Nat
          /\ Cardinality(ended) * (Interval + Grace) \in Nat
    BY <1>4, EndedAreMany
  <2>2. watched - m <= Cardinality(ended) * (Interval + Grace)
    BY <1>1, <1>4, <2>1
  <2>3. QED
    BY <2>2 DEF EndsCostAnInterval
<1>5. CASE \E q \in Pods : pod[q].on
  <2> DEFINE On == {q \in Pods : pod[q].on}
  <2>1. On # {} /\ On \subseteq Nat
    BY <1>1, <1>5
  <2>2. PICK p \in On : \A y \in On : ~(y < p)
    BY <2>1, LowestExists
  <2>3. p \in Alive /\ p \in Pods /\ pod[p].on /\ pod[p].st # "none"
    BY <2>2 DEF OrderInv, SessionIsOn, Alive
  <2>4. ASSUME NEW q \in Pods, q <= p - 1 PROVE q \in ended
    <3>1. q < p
      BY <1>1, <2>3, <2>4
    <3>2. pod[q].st # "none" /\ (q \in Alive => pod[q].done = 5)
      BY <2>3, <3>1 DEF OrderInv, OneBoots
    <3>3. ~pod[q].on
      BY <2>2, <3>1
    <3>4. pod[q].st \notin {"up", "stopping"}
      BY <1>3, <3>2, <3>3 DEF Alive
    <3>5. QED
      BY <1>2, <3>2, <3>4
  <2>5. pod[p].miles + pod[p].since \in Shown /\ pod[p].miles + pod[p].since \in Nat
    BY <1>1, <2>3 DEF Shown
  <2>6. watched - (pod[p].miles + pod[p].since) <= Bill(p - 1)
    BY <2>3 DEF MilesInv, SessionsTrail
  <2>7. p - 1 \in 0..Cardinality(Pods)
    BY <2>3, PodsAreNumbered
  <2>8. QED
    BY <1>4, <2>4, <2>5, <2>6, <2>7
<1>6. CASE ~(\E q \in Pods : pod[q].on)
  <2>1. stored \in Shown
    BY DEF Shown
  <2>2. CASE \E r \in Pods : pod[r].st \in {"up", "stopping"}
    <3>1. PICK r \in Pods : pod[r].st \in {"up", "stopping"}
      BY <2>2
    <3>2. r \in Alive /\ pod[r].done < 4
      BY <1>1, <1>6, <3>1 DEF OrderInv, SessionIsOn, Alive
    <3>3. watched - stored <= Bill(r - 1)
      BY <3>2 DEF MilesInv, RowIsReadInTime, Trail
    <3>4. ASSUME NEW q \in Pods, q <= r - 1 PROVE q \in ended
      <4>1. q < r
        BY <1>1, <3>1, <3>4
      <4>2. pod[q].st # "none" /\ (q \in Alive => pod[q].done = 5)
        BY <3>1, <4>1 DEF OrderInv, OneBoots
      <4>3. pod[q].st \notin {"up", "stopping"}
        BY <1>3, <1>6, <4>2 DEF Alive
      <4>4. QED
        BY <1>2, <4>2, <4>3
    <3>5. r - 1 \in 0..Cardinality(Pods)
      BY PodsAreNumbered
    <3>6. QED
      BY <1>1, <1>4, <2>1, <3>3, <3>4, <3>5
  <2>3. CASE ~(\E r \in Pods : pod[r].st \in {"up", "stopping"})
    <3>1. PICK n \in 0..Cardinality(Pods) : Newest(n)
      BY DEF MilesInv, OneIsNewest
    <3>2. \A q \in Pods : q <= n => q \in ended
      BY <1>2, <2>3, <3>1 DEF Newest
    <3>3. watched - stored <= Bill(n)
      BY <3>1 DEF MilesInv, RowTrails, Trail
    <3>4. QED
      BY <1>1, <1>4, <2>1, <3>2, <3>3
  <2>4. QED
    BY <2>2, <2>3
<1>7. QED
  BY <1>5, <1>6

-----------------------------------------------------------------------------
(* What was to be shown *)

\* However many pods an instance runs through, every variable of the handover keeps
\* to its type.
THEOREM RolloutTypeCorrect == RolloutSpec => []RolloutTypeOK
<1>1. OrderInv => RolloutTypeOK
  <2> SUFFICES ASSUME OrderInv PROVE RolloutTypeOK
    OBVIOUS
  <2>1. pod \in [Pods -> PodRecords]
    BY DEF OrderInv, PodsTyped
  <2>2. QED
    BY <2>1 DEF OrderInv, RowsTyped, ClockTyped, PodRecords, RolloutTypeOK
<1>2. QED
  BY <1>1, OrderAlways, PTL

\* For every sequence of rollouts, deaths and restarts, of any number of pods and
\* any intervals that leave the orphan watch its margin: the orphans reported are
\* sessions nobody closed, the miles on show trail by an interval and a grace period
\* for each pod that ended at most, and consecutive deploy rows differ
\* (reportOrphanedSessions, shutdown, CheckpointMiles, Deploy).
THEOREM HandoversAlwaysAccounted == RolloutSpec => []HandoversAreAccounted
<1>1. OrderInv /\ MilesInv /\ OrphanInv /\ DeployInv => HandoversAreAccounted
  BY TheBillIsPaid DEF HandoversAreAccounted, OrphanInv, DeployInv
<1>2. QED
  BY <1>1, OrderAlways, MilesAlways, OrphanAlways, DeployAlways, PTL
==============================================================================
