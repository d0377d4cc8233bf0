----------------------------- MODULE MiddleText -----------------------------
(***************************************************************************)
(* The permanent middle text of onscreens-server: the show and hide        *)
(* commands that arrive over NATS, the timer a show may arm, the state it  *)
(* persists to JetStream after every change, and the restore a new process *)
(* makes from it.                                                          *)
(*                                                                         *)
(* Shows and hides are two subscriptions, so two goroutines that the NATS  *)
(* client feeds independently; both, and a timer's callback, run under     *)
(* middleExpiryMu, each in one step here.  The restore does not take that  *)
(* lock: its read and its SetState are two steps (OnscreensServer says     *)
(* when they run), and anything may be handled in between.                 *)
(***************************************************************************)
EXTENDS Bus, Sequences

CONSTANTS Texts, Blank,
          MaxTimers    \* bound: timers alive at once

ASSUME MiddleConstants ==
  /\ Blank \notin Texts /\ None \notin [text : Texts \cup {Blank}, showing : BOOLEAN]
  /\ MaxTimers \in Nat

Timers == 1 .. MaxTimers
NoTimer == 0

VARIABLES
  content, isShowing,  \* s.MiddleText
  middleExpiry,        \* the timer whose callback may hide the text
  armed,               \* timers that have yet to fire
  fired,               \* timers that fired and whose callback has yet to run
  shows, hides,        \* messages the two subscriptions hold
  recalled,            \* RestoreMiddleText has run in this process
  astray               \* history: why the kept state is not the one on screen

middle == <<content, isShowing, middleExpiry, armed, fired, shows, hides, recalled>>

State == [text |-> content, showing |-> isShowing]

(* New: newOnscreen and Show(""). *)
MiddleBoot ==
  /\ content = Blank /\ isShowing = TRUE
  /\ middleExpiry = NoTimer /\ armed = {} /\ fired = {}
  /\ shows = << >> /\ hides = 0 /\ recalled = FALSE

MiddleReboot ==
  /\ content' = Blank /\ isShowing' = TRUE
  /\ middleExpiry' = NoTimer /\ armed' = {} /\ fired' = {}
  /\ shows' = << >> /\ hides' = 0 /\ recalled' = FALSE

(* publishMiddleState.  A captured message is what the stream now keeps. *)
PublishMiddleState(s) ==
  /\ Publish("middle.state", s)
  /\ astray' = IF ~link["onscreens"] THEN astray
               ELSE IF "middle.state" \in declared THEN {} ELSE {"uncaptured"}

(* A timer is known by the least number no other live one has. *)
Free == Timers \ (armed \cup fired)

(* Mutant: the timer stopped is the one just made. *)
StopsTheNewTimer(timed) ==
  IF timed
  THEN \E t \in Free : (\A u \in Free : t <= u) /\ middleExpiry' = t /\ armed' = armed
  ELSE middleExpiry' = NoTimer /\ armed' = armed

(* armMiddleHide: Stop cannot recall a timer that fired. *)
ArmMiddleHide(timed) ==
  IF timed
  THEN \E t \in Free : (\A u \in Free : t <= u) /\
         middleExpiry' = t /\ armed' = (armed \ {middleExpiry}) \cup {t}
  ELSE middleExpiry' = NoTimer /\ armed' = armed \ {middleExpiry}

HandleMiddleShow ==
  /\ shows # << >>
  /\ content' = Head(shows).text /\ isShowing' = TRUE
  /\ PublishMiddleState([text |-> Head(shows).text, showing |-> TRUE])
  /\ ArmMiddleHide(Head(shows).timed)
  /\ shows' = Tail(shows)
  /\ UNCHANGED <<fired, hides, recalled>>

(* Mutant: the pending auto-hide is not cancelled. *)
HideKeepsTimer ==
  /\ isShowing' = FALSE
  /\ PublishMiddleState([text |-> content, showing |-> FALSE])
  /\ UNCHANGED <<content, shows, recalled, middleExpiry, armed>>

HideMiddle ==
  /\ ArmMiddleHide(FALSE)
  /\ isShowing' = FALSE
  /\ PublishMiddleState([text |-> content, showing |-> FALSE])
  /\ UNCHANGED <<content, shows, recalled>>

HandleMiddleHide == hides > 0 /\ hides' = hides - 1 /\ HideMiddle /\ UNCHANGED fired

TimerFires(t) ==
  /\ t \in armed
  /\ armed' = armed \ {t} /\ fired' = fired \cup {t}
  /\ UNCHANGED <<content, isShowing, middleExpiry, shows, hides, recalled, astray>>
  /\ UNCHANGED busVars

(* Mutant: the overlay's own sweep, which persists nothing. *)
ExpireInMemory(t) ==
  /\ t \in fired /\ fired' = fired \ {t} /\ UNCHANGED hides
  /\ IF middleExpiry = t THEN isShowing' = FALSE /\ middleExpiry' = NoTimer
     ELSE UNCHANGED <<isShowing, middleExpiry>>
  /\ UNCHANGED <<content, armed, shows, recalled, astray>> /\ UNCHANGED busVars

(* Mutant: the callback does not look whose text is up. *)
ExpireAnyText(t) ==
  t \in fired /\ fired' = fired \ {t} /\ UNCHANGED hides /\ HideMiddle

ExpireMiddle(t) ==
  /\ t \in fired /\ fired' = fired \ {t} /\ UNCHANGED hides
  /\ \/ middleExpiry # t
        /\ UNCHANGED <<content, isShowing, middleExpiry, armed, shows, recalled, astray>>
        /\ UNCHANGED busVars
     \/ middleExpiry = t /\ HideMiddle

(* middle.show and middle.hide; a disconnected subscriber misses them. *)
ShowArrives(text, timed) ==
  /\ link["onscreens"]
  /\ shows' = Append(shows, [text |-> text, timed |-> timed])
  /\ UNCHANGED <<content, isShowing, middleExpiry, armed, fired, hides, recalled, astray>>
  /\ UNCHANGED busVars

HideArrives ==
  /\ link["onscreens"] /\ hides' = hides + 1
  /\ UNCHANGED <<content, isShowing, middleExpiry, armed, fired, shows, recalled, astray>>
  /\ UNCHANGED busVars

(* readMiddleState, in RestoreMiddleText: what it read, None if nothing. *)
MiddleRead == IF link["onscreens"] THEN kept["middle.state"] ELSE None

(* The rest of RestoreMiddleText, with the state it read. *)
RestoreMiddleText(s) ==
  /\ recalled' = TRUE
  /\ IF s = None THEN UNCHANGED <<content, isShowing>>
     ELSE content' = s.text /\ isShowing' = s.showing
  /\ astray' = IF s # kept["middle.state"] \/ buffer["middle.state"] # None
               THEN astray \cup {"outdated"} ELSE astray
  /\ UNCHANGED <<middleExpiry, armed, fired, shows, hides>>
=============================================================================
