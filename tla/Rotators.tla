------------------------------ MODULE Rotators ------------------------------
(***************************************************************************)
(* The copy of the two corner rotators and the lines they show.  The       *)
(* record of truth is a row in Postgres, written by the console's PUT and  *)
(* DELETE on tripbot; each then publishes the copy, tripbot republishes    *)
(* the row on every (re)connect, and onscreens-server applies what arrives *)
(* and restores the kept message once per process.                         *)
(*                                                                         *)
(* A request, the republish and a corner's pick each read one thing and    *)
(* write another, in two steps.  Weights and the platform filter only pick *)
(* among the lines a corner may show; one platform is modelled, and its    *)
(* reads and writes of the row do not fail.                                *)
(***************************************************************************)
EXTENDS Bus, Sequences

CONSTANTS
  Lines, NoLine,    \* the lines, and the "" of an empty pool
  Commands,         \* Commands[l]: CommandsIn
  Templates,        \* the lines with $variables
  Copies, Default,  \* the documents the console saves, and the compiled-in one
  Messages,         \* Messages[copy][c]: the pool of a corner
  RareMessage,      \* RareMessage[copy]: its easter egg, or NoLine
  Requests          \* console requests at once

Corners == {"left", "right"}

ASSUME RotatorConstants ==
  /\ NoLine \notin Lines /\ Templates \subseteq Lines
  /\ Default \in Copies /\ None \notin Copies
  /\ Messages \in [Copies -> [Corners -> SUBSET Lines]]
  /\ RareMessage \in [Copies -> Lines \cup {NoLine}]

Sibling(c) == IF c = "left" THEN "right" ELSE "left"

VARIABLES
  record,     \* the row of onscreens_rotators, None if there is none
  edits,      \* edits[r]: the copy a request has stored and has yet to publish
  republish,  \* tripbot's on-connect callback: its place and what it read
  pushes,     \* rotator.config messages the subscription holds
  live,       \* the copy both corners rotate through
  fresh,      \* the clip data is recent
  line,       \* line[c]: what corner c shows, and how it was picked
  pick,       \* pick[c]: the line c is about to show
  strayed     \* history: why the kept or the live copy is not the record

tripbot  == <<record, edits, republish>>
corners  == <<line, pick>>
rotators == <<tripbot, pushes, live, fresh, corners, strayed>>

Resting == [pc |-> "idle", copy |-> None]
NoPick  == [line |-> NoLine, how |-> "none"]
OrDefault(copy) == IF copy = None THEN Default ELSE copy

(***************************************************************************)
(* The console's edits and tripbot's republish.                            *)
(***************************************************************************)
(* PublishRotatorConfig, and its delivery to the subscriber. *)
PublishCopy(copy) ==
  LET missed == IF link["tripbot"] /\ ~link["onscreens"] THEN {"missed"} ELSE {}
      right  == copy = OrDefault(record)
      kept1  == link["tripbot"] /\ "rotator.config" \in declared
  IN /\ Publish("rotator.config", copy)
     /\ pushes' = IF link["tripbot"] /\ link["onscreens"] THEN Append(pushes, copy) ELSE pushes
     /\ strayed' = missed \cup
          (IF ~right THEN strayed \cup {"stale"}
           ELSE IF kept1 THEN strayed \ {"stale", "lost"} ELSE strayed)
     /\ UNCHANGED <<live, fresh, corners>>

(* Mutant: a reset drops the row and tells nobody. *)
ResetIsSilent(r, row) ==
  /\ edits[r] = None
  /\ record' = row /\ edits' = [edits EXCEPT ![r] = row]
  /\ UNCHANGED <<republish, pushes, live, fresh, corners, strayed>> /\ UNCHANGED busVars

(* rotatorsPutHandler and rotatorsResetHandler: the row first ... *)
StoreEdit(r, row) ==
  /\ edits[r] = None
  /\ record' = row /\ edits' = [edits EXCEPT ![r] = OrDefault(row)]
  /\ UNCHANGED <<republish, pushes, live, fresh, corners, strayed>> /\ UNCHANGED busVars

(* ... and then the publish. *)
PublishEdit(r) ==
  /\ edits[r] # None /\ PublishCopy(edits[r])
  /\ edits' = [edits EXCEPT ![r] = None]
  /\ UNCHANGED <<record, republish>>

(* Mutant: the stream is taken to be there. *)
TrustsTheStream ==
  /\ owed["tripbot"] > 0 /\ republish.pc = "idle"
  /\ republish' = [republish EXCEPT !.pc = "list"]
  /\ UNCHANGED <<record, edits, pushes, live, fresh, corners, strayed>> /\ UNCHANGED busVars

(* ensureRotatorCopyPublished: declare the stream, list the stored         *)
(* platforms, read the copy of each, publish it.                           *)
DeclareCopyStream ==
  /\ owed["tripbot"] > 0 /\ republish.pc = "idle"
  /\ Declare("tripbot", {"rotator.config"})
  /\ republish' = [republish EXCEPT !.pc = "list"]
  /\ UNCHANGED <<record, edits, pushes, live, fresh, corners, strayed>>

ListPlatforms ==
  /\ republish.pc = "list"
  /\ IF record = None
     THEN republish' = Resting /\ CallbackEnds("tripbot")
     ELSE republish' = [republish EXCEPT !.pc = "read"] /\ UNCHANGED busVars
  /\ UNCHANGED <<record, edits, pushes, live, fresh, corners, strayed>>

ReadRecord ==
  /\ republish.pc = "read"
  /\ republish' = [pc |-> "publish", copy |-> OrDefault(record)]
  /\ UNCHANGED <<record, edits, pushes, live, fresh, corners, strayed>> /\ UNCHANGED busVars

Republish ==
  /\ republish.pc = "publish" /\ PublishCopy(republish.copy)
  /\ republish' = [republish EXCEPT !.pc = "published"]
  /\ UNCHANGED <<record, edits>>

Republished ==
  /\ republish.pc = "published" /\ republish' = Resting /\ CallbackEnds("tripbot")
  /\ UNCHANGED <<record, edits, pushes, live, fresh, corners, strayed>>

(* tripbot stops: requests and the client's buffer go with it. *)
TripbotRestarts ==
  /\ ClientRestarts("tripbot")
  /\ edits' = [r \in Requests |-> None] /\ republish' = Resting
  /\ strayed' = IF buffer["rotator.config"] # None \/ \E r \in Requests : edits[r] # None
                THEN strayed \cup {"lost"} ELSE strayed
  /\ UNCHANGED <<record, pushes, live, fresh, corners>>

TripbotReconnects ==
  /\ LinkReturns("tripbot")
  /\ LET copy == buffer["rotator.config"]
     IN IF copy = None THEN UNCHANGED <<pushes, strayed>>
        ELSE IF link["onscreens"] THEN pushes' = Append(pushes, copy) /\ UNCHANGED strayed
        ELSE strayed' = strayed \cup {"missed"} /\ UNCHANGED pushes
  /\ UNCHANGED <<tripbot, live, fresh, corners>>

(***************************************************************************)
(* onscreens-server's side.                                                *)
(***************************************************************************)
Forgiven(copy) == IF copy = OrDefault(record) /\ Len(pushes) = 1
                  THEN strayed \ {"missed", "outdated"} ELSE strayed

HandleRotatorConfig ==
  /\ pushes # << >>
  /\ live' = Head(pushes) /\ pushes' = Tail(pushes) /\ strayed' = Forgiven(Head(pushes))
  /\ UNCHANGED <<tripbot, fresh, corners>> /\ UNCHANGED busVars

CopyRead == IF link["onscreens"] THEN kept["rotator.config"] ELSE None

(* RestoreRotatorCopy, with the copy it read. *)
RestoreRotatorCopy(copy) ==
  /\ live' = IF copy = None THEN live ELSE copy
  /\ strayed' = IF copy # kept["rotator.config"] THEN strayed \cup {"outdated"} ELSE strayed
  /\ UNCHANGED <<tripbot, pushes, fresh, corners>>

(* handleLocationUpdate, and locationDataTTL running out. *)
DataChanges == /\ fresh' = ~fresh
               /\ UNCHANGED <<tripbot, pushes, live, corners, strayed>> /\ UNCHANGED busVars

(***************************************************************************)
(* Picking a line.                                                         *)
(***************************************************************************)
Resolvable(data) == IF data THEN Lines ELSE Lines \ Templates

CommandsIn(l) == IF l = NoLine THEN {} ELSE Commands[l]

(* rot.Pick: any eligible line; the exclusion is relaxed before a blank. *)
Pick(msgs, exclude, data) ==
  LET able == msgs \cap Resolvable(data)
      free == {l \in able : CommandsIn(l) \cap exclude = {}}
  IN IF free # {} THEN [line : free, how : {"picked"}]
     ELSE IF able # {} THEN [line : able, how : {"relaxed"}]
     ELSE [line : {NoLine}, how : {"blank"}]

(* content: the rare line is the left corner's alone. *)
Content(c, copy, exclude, data) ==
  Pick(Messages[copy][c], exclude, data) \cup
  (IF c = "left" THEN [line : {RareMessage[copy]} \cap Resolvable(data), how : {"rare"}] ELSE {})

(* Mutant: only the left corner looks at its sibling. *)
OneSidedLook(c) == IF c = "left" THEN CommandsIn(line["right"].line) ELSE {}

SiblingCommands(c) == CommandsIn(line[Sibling(c)].line)

(* loop: content reads the copy, the data and the sibling ... *)
PickLine(c) ==
  /\ pick[c] = NoPick
  /\ \E p \in Content(c, live, SiblingCommands(c), fresh) :
       pick' = [pick EXCEPT ![c] =
         IF pick[Sibling(c)] # NoPick THEN [p EXCEPT !.how = "raced"] ELSE p]
  /\ UNCHANGED <<tripbot, pushes, live, fresh, line, strayed>> /\ UNCHANGED busVars

(* ... and osc.Show puts the line up. *)
ShowLine(c) ==
  /\ pick[c] # NoPick
  /\ line' = [line EXCEPT ![c] = pick[c]] /\ pick' = [pick EXCEPT ![c] = NoPick]
  /\ UNCHANGED <<tripbot, pushes, live, fresh, strayed>> /\ UNCHANGED busVars

(* startRotators: left primes first, right against left's line. *)
PrimedLines ==
  UNION {[left : {l}, right : Content("right", Default, CommandsIn(l.line), FALSE)] :
           l \in Content("left", Default, {}, FALSE)}

RotatorBoot ==
  /\ live = Default /\ fresh = FALSE /\ pushes = << >>
  /\ line \in PrimedLines /\ pick = [c \in Corners |-> NoPick]

RotatorReboot ==
  /\ live' = Default /\ fresh' = FALSE /\ pushes' = << >>
  /\ line' \in PrimedLines /\ pick' = [c \in Corners |-> NoPick]
=============================================================================
