--------------------------- MODULE OnscreensServer ---------------------------
(***************************************************************************)
(* onscreens-server with its broker and tripbot's side of the rotator      *)
(* copy: the middle text and the rotators share the process, which may     *)
(* stop at any step and starts from nothing, and the on-connect callback,  *)
(* which declares the streams after every (re)connect and restores both    *)
(* overlays once, in the first run, whether or not the reads succeed.      *)
(***************************************************************************)
EXTENDS MiddleText, Rotators

CONSTANT Scenarios   \* bound: what the outside does, at most, in one behaviour

VARIABLES
  call,     \* onscreens-server's callback: its place and what it read
  budget    \* what the outside may still do

vars == <<busVars, middle, astray, rotators, call, budget>>

Waiting == [pc |-> "idle", read |-> None]

Spend(k) == budget[k] > 0 /\ budget' = [budget EXCEPT ![k] = @ - 1]

MiddleStep  == UNCHANGED <<rotators, call, budget>>
RotatorStep == UNCHANGED <<middle, astray, call, budget>>

Init ==
  /\ BusInit /\ MiddleBoot /\ RotatorBoot
  /\ astray = {} /\ strayed = {} /\ record = None
  /\ edits = [r \in Requests |-> None] /\ republish = Resting
  /\ call = Waiting /\ budget \in Scenarios

(***************************************************************************)
(* The on-connect callback (cmd/onscreens-server).                         *)
(***************************************************************************)
EnsureStreams ==
  /\ owed["onscreens"] > 0 /\ call.pc = "idle"
  /\ Declare("onscreens", Subjects)
  /\ call' = [call EXCEPT !.pc = IF recalled THEN "done" ELSE "readMiddle"]
  /\ UNCHANGED <<middle, astray, rotators, budget>>

ReadMiddle == /\ call.pc = "readMiddle"
              /\ call' = [pc |-> "setMiddle", read |-> MiddleRead]
              /\ UNCHANGED <<busVars, middle, astray, rotators, budget>>

SetMiddle == /\ call.pc = "setMiddle" /\ RestoreMiddleText(call.read)
             /\ call' = [pc |-> "readCopy", read |-> None]
             /\ UNCHANGED <<busVars, rotators, budget>>

ReadCopy == /\ call.pc = "readCopy"
            /\ call' = [pc |-> "setCopy", read |-> CopyRead]
            /\ UNCHANGED <<busVars, middle, astray, rotators, budget>>

SetCopy == /\ call.pc = "setCopy" /\ RestoreRotatorCopy(call.read)
           /\ call' = [pc |-> "done", read |-> None]
           /\ UNCHANGED <<busVars, middle, astray, budget>>

EndCall == /\ call.pc = "done" /\ CallbackEnds("onscreens") /\ call' = Waiting
           /\ UNCHANGED <<middle, astray, rotators, budget>>

Callback == EnsureStreams \/ ReadMiddle \/ SetMiddle \/ ReadCopy \/ SetCopy \/ EndCall

(***************************************************************************)
(* Links, the broker and the process.                                      *)
(***************************************************************************)
OnscreensReconnects ==
  /\ LinkReturns("onscreens")
  /\ astray' = IF buffer["middle.state"] = None THEN astray
               ELSE IF "middle.state" \in declared THEN astray \ {"uncaptured"}
               ELSE astray \cup {"uncaptured"}
  /\ UNCHANGED <<middle, rotators, call, budget>>

OnscreensDrops == Spend("drop") /\ LinkDrops("onscreens")
                  /\ UNCHANGED <<middle, astray, rotators, call>>

TripbotDrops == Spend("drop") /\ LinkDrops("tripbot")
                /\ UNCHANGED <<middle, astray, rotators, call>>

BrokerFails(wiped) ==
  /\ Spend("drop") /\ BrokerRestarts(wiped)
  /\ astray' = IF wiped THEN astray \cup {"uncaptured"} ELSE astray
  /\ UNCHANGED <<middle, rotators, call>>

(* The container is killed or deployed: a new process, and its memory. *)
OnscreensRestarts ==
  /\ Spend("restart") /\ ClientRestarts("onscreens")
  /\ MiddleReboot /\ RotatorReboot
  /\ call' = Waiting
  /\ astray' = {}
  /\ strayed' = strayed \ {"missed", "outdated"}
  /\ UNCHANGED tripbot

Link == \/ OnscreensReconnects \/ OnscreensDrops \/ TripbotDrops
        \/ \E wiped \in BOOLEAN : BrokerFails(wiped)
        \/ OnscreensRestarts
        \/ TripbotReconnects /\ UNCHANGED <<middle, astray, call, budget>>
        \/ TripbotRestarts /\ Spend("restart") /\ UNCHANGED <<middle, astray, call>>

(***************************************************************************)
(* Commands and edits from the console and from chat.                      *)
(***************************************************************************)
Outside ==
  \/ /\ Spend("show") /\ UNCHANGED <<rotators, call>>
     /\ \E text \in Texts, timed \in BOOLEAN : ShowArrives(text, timed)
  \/ Spend("hide") /\ HideArrives /\ UNCHANGED <<rotators, call>>
  \/ /\ Spend("edit") /\ UNCHANGED <<middle, astray, call>>
     /\ \E r \in Requests, row \in Copies \cup {None} : StoreEdit(r, row)
  \/ Spend("data") /\ DataChanges /\ UNCHANGED <<middle, astray, call>>
  \/ \E c \in Corners : Spend("turn") /\ PickLine(c) /\ UNCHANGED <<middle, astray, call>>

Middle == MiddleStep /\ ( \/ HandleMiddleShow \/ HandleMiddleHide
                          \/ \E t \in Timers : TimerFires(t) \/ ExpireMiddle(t) )

Rotator == RotatorStep /\ ( \/ \E r \in Requests : PublishEdit(r)
                            \/ DeclareCopyStream \/ ListPlatforms \/ ReadRecord
                            \/ Republish \/ Republished
                            \/ HandleRotatorConfig
                            \/ \E c \in Corners : ShowLine(c) )

Next == Callback \/ Link \/ Outside \/ Middle \/ Rotator

Spec == Init /\ [][Next]_vars

(***************************************************************************)
(* Every goroutine runs, timers fire, and the clients reconnect forever.   *)
(***************************************************************************)
FairSpec == /\ Spec
            /\ WF_vars(Callback) /\ WF_vars(MiddleStep /\ HandleMiddleShow)
            /\ WF_vars(MiddleStep /\ HandleMiddleHide)
            /\ WF_vars(MiddleStep /\ \E t \in Timers : TimerFires(t))
            /\ WF_vars(MiddleStep /\ \E t \in Timers : ExpireMiddle(t))
            /\ WF_vars(Rotator)
            /\ WF_vars(OnscreensReconnects)
            /\ WF_vars(TripbotReconnects /\ UNCHANGED <<middle, astray, call, budget>>)

(***************************************************************************)
(* Properties.                                                             *)
(***************************************************************************)
TypeOK ==
  /\ link \in [Clients -> BOOLEAN] /\ declared \subseteq Subjects /\ owed \in [Clients -> Nat]
  /\ State \in [text : Texts \cup {Blank}, showing : BOOLEAN]
  /\ {kept["middle.state"], buffer["middle.state"]} \subseteq
       [text : Texts \cup {Blank}, showing : BOOLEAN] \cup {None}
  /\ {kept["rotator.config"], buffer["rotator.config"], record} \subseteq Copies \cup {None}
  /\ middleExpiry \in armed \cup fired \cup {NoTimer} /\ armed \cap fired = {}
  /\ armed \cup fired \subseteq Timers
  /\ live \in Copies /\ edits \in [Requests -> Copies \cup {None}]

Quiet(c) == link[c] /\ owed[c] = 0
EditsDone == \A r \in Requests : edits[r] = None

(* What is kept of the middle text is what is on screen, showing or        *)
(* hidden, so that a restart brings it back: unless the broker was wiped   *)
(* or had no stream since, or the one restore lost to a newer command.     *)
MiddleIsDurable ==
  Quiet("onscreens") /\ recalled /\ astray = {} =>
    State = IF kept["middle.state"] = None THEN [text |-> Blank, showing |-> TRUE]
            ELSE kept["middle.state"]

(* A saved copy is what the stream keeps once tripbot is through, however  *)
(* often it or the broker stopped: unless two publishers crossed.          *)
SavedCopyIsKept ==
  Quiet("tripbot") /\ EditsDone /\ record # None /\ "stale" \notin strayed =>
    kept["rotator.config"] = record

(* Once both sides are through, the corners rotate through the record, or  *)
(* one of the named races happened since: a publish of an older copy, one  *)
(* lost with tripbot or missed by a disconnected onscreens-server, or a    *)
(* restore that a newer push overtook.                                     *)
LiveIsRecord ==
  /\ Quiet("tripbot") /\ Quiet("onscreens") /\ EditsDone /\ recalled
  /\ pushes = << >> /\ strayed = {}
  => live = OrDefault(record)

(* Both corners advertise one command only if their picks overlapped, the  *)
(* exclusion left nothing else to show, or the easter egg came up.         *)
NoTwins ==
  CommandsIn(line["left"].line) \cap CommandsIn(line["right"].line) # {} =>
    \E c \in Corners : line[c].how \in {"raced", "relaxed", "rare"}

(* The text on screen obeys the commands: Overlay's promise. *)
Promise == INSTANCE Overlay WITH
  screen <- State,
  clock <- IF middleExpiry = NoTimer THEN "none"
           ELSE IF middleExpiry \in fired THEN "over" ELSE "running"
PromiseKept == Promise!Spec

(* A text with a time on it goes away, and no later show's timer is lost. *)
TimedTextGoes == middleExpiry # NoTimer ~> middleExpiry = NoTimer

(* What is shown is what is kept, on both sides of the broker and after a  *)
(* restart of either: the middle text, the rotators' saved copy and the    *)
(* corners that rotate through it. *)
ShownIsKept == MiddleIsDurable /\ SavedCopyIsKept /\ LiveIsRecord /\ NoTwins
=============================================================================
