-------------------------------- MODULE Bus --------------------------------
(***************************************************************************)
(* The NATS broker as tripbot and onscreens-server use it: fire-and-forget *)
(* subjects, and JetStream streams that keep the last message of a subject *)
(* (MaxMsgsPerSubject = 1) once they are declared.  A publish reaches the  *)
(* stream only if the stream exists; while the publisher is disconnected   *)
(* it waits in the client's reconnect buffer, of which only the last       *)
(* message matters here.  Each client runs its on-connect callback on a    *)
(* goroutine of its own, one run at a time, after every (re)connect.       *)
(***************************************************************************)
EXTENDS Naturals

CONSTANT None   \* no message

Subjects == {"middle.state", "rotator.config"}
Clients  == {"onscreens", "tripbot"}
Publisher(s) == IF s = "middle.state" THEN "onscreens" ELSE "tripbot"

VARIABLES
  link,      \* link[c]: the client's connection is established
  declared,  \* the subjects a stream covers
  kept,      \* kept[s]: what the stream holds
  buffer,    \* buffer[s]: what the publisher's client holds back
  owed       \* owed[c]: runs of the callback still to come, the current one included

busVars == <<link, declared, kept, buffer, owed>>

BusInit == /\ link = [c \in Clients |-> FALSE] /\ declared = {}
           /\ kept = [s \in Subjects |-> None] /\ buffer = [s \in Subjects |-> None]
           /\ owed = [c \in Clients |-> 0]

(* conn.Publish.  The message also goes to the subscribers: Delivered. *)
Publish(s, m) ==
  /\ IF ~link[Publisher(s)]
     THEN buffer' = [buffer EXCEPT ![s] = m] /\ UNCHANGED kept
     ELSE /\ kept' = IF s \in declared THEN [kept EXCEPT ![s] = m] ELSE kept
          /\ UNCHANGED buffer
  /\ UNCHANGED <<link, declared, owed>>

(* Ensure..Stream: CreateOrUpdateStream needs the broker. *)
Declare(c, ss) ==
  /\ declared' = IF link[c] THEN declared \cup ss ELSE declared
  /\ UNCHANGED <<link, kept, buffer, owed>>

CallbackEnds(c) ==
  /\ owed' = [owed EXCEPT ![c] = @ - 1]
  /\ UNCHANGED <<link, declared, kept, buffer>>

(* What the client held back goes out before its callback runs. *)
LinkReturns(c) ==
  /\ ~link[c]
  /\ link' = [link EXCEPT ![c] = TRUE]
  /\ owed' = [owed EXCEPT ![c] = @ + 1]
  /\ LET flushed == {s \in Subjects : Publisher(s) = c /\ buffer[s] # None}
     IN /\ kept' = [s \in Subjects |->
                      IF s \in flushed \cap declared THEN buffer[s] ELSE kept[s]]
        /\ buffer' = [s \in Subjects |-> IF s \in flushed THEN None ELSE buffer[s]]
  /\ UNCHANGED declared

LinkDrops(c) ==
  /\ link[c] /\ link' = [link EXCEPT ![c] = FALSE]
  /\ UNCHANGED <<declared, kept, buffer, owed>>

(* The broker restarts, with its storage or without it. *)
BrokerRestarts(wiped) ==
  /\ link' = [c \in Clients |-> FALSE]
  /\ declared' = IF wiped THEN {} ELSE declared
  /\ kept' = IF wiped THEN [s \in Subjects |-> None] ELSE kept
  /\ UNCHANGED <<buffer, owed>>

(* A client's process ends, and the next one has yet to connect. *)
ClientRestarts(c) ==
  /\ link' = [link EXCEPT ![c] = FALSE]
  /\ buffer' = [s \in Subjects |-> IF Publisher(s) = c THEN None ELSE buffer[s]]
  /\ owed' = [owed EXCEPT ![c] = 0]
  /\ UNCHANGED <<declared, kept>>
=============================================================================
