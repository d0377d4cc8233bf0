------------------------------ MODULE EventSub ------------------------------
(***************************************************************************)
(* pkg/eventsub and the loop around it (runEventSubLoop in cmd/tripbot):   *)
(* the socket Twitch pushes follows, subscriptions and raids over.         *)
(*                                                                         *)
(* One goroutine dials, waits for the session to end, rests and dials      *)
(* again, with whatever broadcaster token is in memory by then.  The       *)
(* library handles the welcome on a goroutine of its own, which subscribes *)
(* to the event types one call after the other; the round mutex makes the  *)
(* loop wait for a round that has begun, and `ended` makes one that comes  *)
(* too late skip itself.  The token in memory is a copy of a database row  *)
(* (twitch.ReloadTokens), which the platform gateway writes when it        *)
(* rotates the grant; Twitch accepts the newest one only.                  *)
(***************************************************************************)
EXTENDS Integers, FiniteSets

CONSTANTS
  Events,   \* event types with a handler
  Scoped,   \* those that need a scope of the grant
  Outside   \* bound: how often, at most, the outside interferes

ASSUME EventSubConstants ==
  /\ IsFiniteSet(Events) /\ Scoped \subseteq Events /\ Events # Scoped
  /\ Outside \in [{"hangups", "faults", "grants", "revocations", "stops"} -> Nat]

NoToken == 0

VARIABLES
  good,      \* Twitch: the token it accepts, or NoToken
  full,      \* Twitch: does the grant hold every scope?
  arriving,  \* Twitch: the event types it delivers on the session
  row,       \* the broadcaster's oauth_tokens row
  token,     \* currentBroadcasterToken
  known,     \* has the channel id been resolved?
  phase,     \* the loop: "dial", "open", "closed", "rest" or "stopped"
  long,      \* does it rest for a token reload, or for a moment?
  presented, \* the token of this attempt
  round,     \* this session's round: "none", "pending", "running" or "over"
  answer,    \* answer[e]: what its call for e came to, or "none"
  late,      \* is a round pending whose session has ended?
  gauge,     \* what EventSubSubscriptions says
  missing,   \* does the auth card name missing scopes?
  cancelled,
  budget

twitch  == <<good, full, arriving>>
session == <<phase, long, presented, round, answer, late>>
vars == <<twitch, row, token, known, session, gauge, missing, cancelled, budget>>

Unasked == [e \in Events |-> "none"]

Init ==
  /\ good = 1 /\ full \in BOOLEAN /\ arriving = {}
  /\ row \in {NoToken, good} /\ token \in {NoToken, row}
  /\ known = FALSE
  /\ phase = "dial" /\ long = FALSE /\ presented = NoToken
  /\ round = "none" /\ answer = Unasked /\ late = FALSE
  /\ gauge = [held |-> 0, denied |-> 0, up |-> FALSE]
  /\ missing = FALSE /\ cancelled = FALSE
  /\ budget = Outside

Spend(what) == budget[what] > 0 /\ budget' = [budget EXCEPT ![what] = @ - 1]
Granted == Outside.grants - budget.grants + 1  \* tokens handed out so far

-----------------------------------------------------------------------------
(* The grant *)

\* The gateway refreshes the grant, or its owner consents anew, to all of it.
Grant ==
  /\ Spend("grants")
  /\ good' = Granted + 1
  /\ full' \in {full, TRUE}
  /\ UNCHANGED <<arriving, row, token, known, session, gauge, missing, cancelled>>

\* ... and its row is written a little later.
StoreGrant ==
  /\ good # NoToken /\ row' = good /\ row # good
  /\ UNCHANGED <<twitch, token, known, session, gauge, missing, cancelled, budget>>

\* The owner takes the grant back: OnRevoke logs it and changes nothing.
Revoke ==
  /\ Spend("revocations") /\ good # NoToken
  /\ good' = NoToken /\ arriving' = {}
  /\ UNCHANGED <<full, row, token, known, session, gauge, missing, cancelled>>

\* LoadFromDB keeps the token in memory when there is no row.
ReloadTokens ==
  /\ row # NoToken /\ token # row /\ ~cancelled
  /\ token' = row
  /\ UNCHANGED <<twitch, row, known, session, gauge, missing, cancelled, budget>>

Cancel ==
  /\ Spend("stops") /\ cancelled' = TRUE
  /\ UNCHANGED <<twitch, row, token, known, session, gauge, missing>>

-----------------------------------------------------------------------------
(* An attempt *)

TokenAtBoot == IF presented = NoToken THEN token ELSE presented
TokenInMemory == token

Rest(forReload) ==
  /\ phase' = "rest" /\ long' = forReload
  /\ UNCHANGED <<round, answer, late>>

\* The loop's turn, with a context that is still good.
Dials == phase = "dial" /\ ~cancelled /\ presented' = TokenInMemory

NotLoaded ==
  /\ Dials /\ presented' = NoToken
  /\ Rest(TRUE)
  /\ UNCHANGED <<twitch, row, token, known, gauge, missing, cancelled, budget>>

\* The gateway cannot be asked for the channel's id.
Unresolved ==
  /\ Dials /\ presented' # NoToken /\ ~known /\ Spend("faults")
  /\ Rest(FALSE)
  /\ UNCHANGED <<twitch, row, token, known, gauge, missing, cancelled>>

Ended(denied) == [held |-> 0, denied |-> denied, up |-> FALSE]

NoSocket ==
  /\ Dials /\ presented' # NoToken /\ Spend("faults")
  /\ known' = TRUE
  /\ Rest(FALSE)
  /\ gauge' = Ended(0)
  /\ UNCHANGED <<twitch, row, token, missing, cancelled>>

Connect ==
  /\ Dials /\ presented' # NoToken
  /\ known' = TRUE
  /\ phase' = "open" /\ round' = "pending" /\ answer' = Unasked
  /\ UNCHANGED <<twitch, row, token, long, late, gauge, missing, cancelled, budget>>

-----------------------------------------------------------------------------
(* The round *)

\* The loop may have the socket closed by now, as long as it has not ended.
Welcome ==
  /\ round = "pending" /\ phase \in {"open", "closed"}
  /\ round' = "running"
  /\ UNCHANGED <<twitch, row, token, known, phase, long, presented, answer, late,
                 gauge, missing, cancelled, budget>>

Verdict(e) ==
  IF presented # good THEN "refusedToken"
  ELSE IF e \in Scoped /\ ~full THEN "refusedScope" ELSE "subscribed"

Answers(e, a) ==
  /\ round = "running" /\ answer[e] = "none"
  /\ answer' = [answer EXCEPT ![e] = a]
  /\ arriving' = IF a = "subscribed" THEN arriving \cup {e} ELSE arriving
  /\ UNCHANGED <<good, full, row, token, known, phase, long, presented, round, late,
                 gauge, missing, cancelled>>

Subscribe(e) ==
  /\ phase = "open" \/ Verdict(e) # "subscribed"
  /\ Answers(e, Verdict(e)) /\ UNCHANGED budget

\* A timeout, a cancelled context, a session that is gone.
SubscribeFails(e) ==
  /\ IF phase = "closed" \/ cancelled THEN UNCHANGED budget ELSE Spend("faults")
  /\ Answers(e, "failed")

Count(answers) == Cardinality({e \in Events : answer[e] \in answers})
Attempted == Cardinality(Events) - Count({"none"})
Denied == Count({"refusedToken", "refusedScope"})

RoundOver ==
  /\ round = "running" /\ Count({"none"}) = 0
  /\ round' = "over"
  /\ gauge' = [held |-> Attempted - Denied, denied |-> Denied,
               up |-> Attempted > Denied]
  /\ missing' = (Count({"refusedScope"}) > 0)
  /\ UNCHANGED <<twitch, row, token, known, phase, long, presented, answer, late,
                 cancelled, budget>>

RunsLate == gauge' = [held |-> Cardinality(Events), denied |-> 0, up |-> TRUE]
SkipsLate == UNCHANGED gauge

\* It gets the mutex after Run has, and finds the session ended.
LateRound ==
  /\ late /\ late' = FALSE
  /\ SkipsLate
  /\ UNCHANGED <<twitch, row, token, known, phase, long, presented, round, answer,
                 missing, cancelled, budget>>

-----------------------------------------------------------------------------
(* The end of a session *)

Closes ==
  /\ phase = "open" /\ phase' = "closed" /\ arriving' = {}
  /\ UNCHANGED <<good, full, row, token, known, long, presented, round, answer, late,
                 gauge, missing, cancelled>>

\* Twitch closes the socket, as a restart of its servers or a lost link would.
HangUp == Closes /\ Spend("hangups")

\* ... and after 10 s without a subscription (code 4003).
HangUpUnused == round = "over" /\ arriving = {} /\ Closes /\ UNCHANGED budget

CloseOnCancel == cancelled /\ Closes /\ UNCHANGED budget

DoesNotWait == TRUE
WaitsForRound == round # "running"

\* Every call of the round was refused for the token.
TokenRejected == Attempted > 0 /\ Count({"refusedToken"}) = Attempted

\* Run returns, and the loop looks at what it returned.
EndSession ==
  /\ phase = "closed" /\ WaitsForRound
  /\ gauge' = Ended(Denied)
  /\ late' = (late \/ round = "pending")
  /\ phase' = IF cancelled THEN "stopped" ELSE "rest"
  /\ long' = TokenRejected
  /\ round' = "none"
  /\ UNCHANGED <<twitch, row, token, known, presented, answer, missing, cancelled, budget>>

Wake ==
  /\ phase = "rest"
  /\ phase' = IF cancelled THEN "stopped" ELSE "dial"
  /\ UNCHANGED <<twitch, row, token, known, long, presented, round, answer, late,
                 gauge, missing, cancelled, budget>>

NoMoreDials ==
  /\ phase = "dial" /\ cancelled /\ phase' = "stopped"
  /\ UNCHANGED <<twitch, row, token, known, long, presented, round, answer, late,
                 gauge, missing, cancelled, budget>>

-----------------------------------------------------------------------------
Attempt == NotLoaded \/ Unresolved \/ NoSocket \/ Connect
Ask == \E e \in Events : Subscribe(e) \/ SubscribeFails(e)

Next ==
  \/ Grant \/ StoreGrant \/ Revoke \/ ReloadTokens \/ Cancel
  \/ Attempt \/ Welcome \/ Ask \/ RoundOver \/ LateRound
  \/ HangUp \/ HangUpUnused \/ CloseOnCancel \/ EndSession \/ Wake \/ NoMoreDials

Spec == Init /\ [][Next]_vars

\* The loop and the round run, waits end, the jobs run and the gateway writes
\* its row; Twitch is as good as what the code says of it.
FairSpec ==
  /\ Spec
  /\ WF_vars(Attempt) /\ WF_vars(Welcome) /\ WF_vars(Ask) /\ WF_vars(RoundOver)
  /\ WF_vars(EndSession) /\ WF_vars(Wake) /\ WF_vars(HangUpUnused)
  /\ WF_vars(StoreGrant) /\ WF_vars(ReloadTokens)

-----------------------------------------------------------------------------
(* Properties *)

\* No events are said to arrive while there is no session, though rounds begin
\* late, overlap the socket's end and outlive the attempt they belong to.
GaugeFallsWithTheSession ==
  phase \notin {"open", "closed"} => gauge.held = 0 /\ ~gauge.up

\* The loop is deaf for a whole reload interval only when there was no token or
\* Twitch refused it for every event type: a rotation in the middle of a
\* round, a short grant and a lost socket cost a moment.
NoNeedlessRest ==
  [][phase' = "rest" /\ phase # "rest" /\ long' =>
       presented' = NoToken \/ \A e \in Events : answer[e] = "refusedToken"]_vars

\* However sockets drop, calls fail, tokens are rotated, revoked and granted
\* anew, and rows come late: with a grant that lasts, events arrive in the end.
EventsArriveInTheEnd ==
  <>[](good # NoToken /\ ~cancelled) => <>[](arriving # {})

=============================================================================
