------------------------------ MODULE Overlay ------------------------------
(***************************************************************************)
(* What the permanent text overlay promises its operator, whatever carries *)
(* the commands and however the timers run: the screen changes only for a  *)
(* show or a hide somebody asked for, for the time of the very text on it  *)
(* running out, for a restart of the process, and for one recall of an     *)
(* earlier screen after each restart.  A text with a time on it goes away. *)
(* MiddleText implements it.                                               *)
(***************************************************************************)
EXTENDS Naturals, Sequences

CONSTANTS Texts, Blank

VARIABLES
  screen,    \* the text, and whether it is showing
  clock,     \* the time of the text on screen: "none", "running" or "over"
  shows,     \* the shows asked for, in order
  hides,     \* how many hides are asked for
  recalled   \* the recall of this process is spent

vars == <<screen, clock, shows, hides, recalled>>

Screens == [text : Texts \cup {Blank}, showing : BOOLEAN]
Boot    == [text |-> Blank, showing |-> TRUE]

Init == /\ screen = Boot /\ clock = "none"
        /\ shows = << >> /\ hides = 0 /\ recalled = FALSE

AskShow == /\ \E s \in [text : Texts, timed : BOOLEAN] : shows' = Append(shows, s)
           /\ UNCHANGED <<screen, clock, hides, recalled>>

AskHide == hides' = hides + 1 /\ UNCHANGED <<screen, clock, shows, recalled>>

Show == /\ shows # << >>
        /\ screen' = [text |-> Head(shows).text, showing |-> TRUE]
        /\ clock' = IF Head(shows).timed THEN "running" ELSE "none"
        /\ shows' = Tail(shows)
        /\ UNCHANGED <<hides, recalled>>

Hide == /\ hides > 0
        /\ screen' = [screen EXCEPT !.showing = FALSE]
        /\ clock' = "none"
        /\ hides' = hides - 1
        /\ UNCHANGED <<shows, recalled>>

TimeIsUp == clock = "running" /\ clock' = "over"
            /\ UNCHANGED <<screen, shows, hides, recalled>>

Expire == /\ clock = "over"
          /\ screen' = [screen EXCEPT !.showing = FALSE]
          /\ clock' = "none"
          /\ UNCHANGED <<shows, hides, recalled>>

(* What is waiting is lost with the process. *)
Restart == /\ screen' = Boot /\ clock' = "none"
           /\ shows' = << >> /\ hides' = 0 /\ recalled' = FALSE

Recall == /\ ~recalled /\ recalled' = TRUE
          /\ screen' \in Screens
          /\ UNCHANGED <<clock, shows, hides>>

Next == \/ AskShow \/ AskHide \/ Show \/ Hide
        \/ TimeIsUp \/ Expire \/ Restart \/ Recall

Spec == Init /\ [][Next]_vars
=============================================================================
