---------------------------- MODULE FeatureFlags ----------------------------
(***************************************************************************)
(* pkg/feature, PostgresClient: one flag of a platform's feature_flags     *)
(* table, and the snapshot Bool answers from.                              *)
(*                                                                         *)
(* The snapshot is replaced by whoever refreshes it: the poll, and every   *)
(* console request that toggles the flag (SetEnabled, on the HTTP server's *)
(* goroutines).  A refresh reads the table outside the mutex and then      *)
(* installs what it read, so a slow one installs what has been overtaken.  *)
(* A module that extends this one says how often the outside does it.      *)
(***************************************************************************)
EXTENDS Integers

CONSTANTS
  Requests,  \* toggles the console may have in flight at once
  Preset     \* bound: how the flag may be set at the start

Poll == "poll"
Refreshers == Requests \cup {Poll}

ASSUME FlagConstants == Poll \notin Requests /\ Preset \subseteq BOOLEAN

VARIABLES
  enabled,   \* the table's column
  snapshot,  \* PostgresClient.flags
  refresh,   \* refresh[r]: what r is in the middle of, and what it has read;
             \* clean is history: nobody else refreshes while r does
  unsettled  \* history: since the last clean refresh two overlapped or one failed

flagVars == <<enabled, snapshot, refresh, unsettled>>

NotRefreshing == [phase |-> "idle", read |-> FALSE, clean |-> FALSE]
Refreshing(r) == refresh[r].phase # "idle"
Alone(r) == \A q \in Refreshers \ {r} : ~Refreshing(q)

\* NewPostgresClient loads the table before anybody asks.
FlagsInit ==
  /\ enabled \in Preset /\ snapshot = enabled
  /\ refresh = [r \in Refreshers |-> NotRefreshing]
  /\ unsettled = FALSE

FlagsReboot ==
  /\ snapshot' = enabled
  /\ refresh' = [r \in Refreshers |-> NotRefreshing]
  /\ unsettled' = FALSE
  /\ UNCHANGED enabled

\* r sets out to read the table.
Reads(r) ==
  /\ refresh' = [q \in Refreshers |->
       IF q = r THEN [phase |-> "load", read |-> FALSE, clean |-> Alone(r)]
       ELSE [refresh[q] EXCEPT !.clean = FALSE]]
  /\ unsettled' = (unsettled \/ ~Alone(r))

StartPoll == ~Refreshing(Poll) /\ Reads(Poll) /\ UNCHANGED <<enabled, snapshot>>

ToggleOnly(r) ==
  /\ r \in Requests /\ ~Refreshing(r)
  /\ enabled' = ~enabled
  /\ UNCHANGED <<snapshot, refresh, unsettled>>

\* SetEnabled: the write went through, and a refresh follows.
Toggle(r) ==
  /\ r \in Requests /\ ~Refreshing(r)
  /\ enabled' = ~enabled
  /\ Reads(r)
  /\ UNCHANGED snapshot

Load(r) ==
  /\ refresh[r].phase = "load"
  /\ refresh' = [refresh EXCEPT ![r].phase = "install", ![r].read = enabled]
  /\ UNCHANGED <<enabled, snapshot, unsettled>>

\* The snapshot that was there stays, and the toggle stands.
LoadFails(r) ==
  /\ refresh[r].phase = "load"
  /\ refresh' = [refresh EXCEPT ![r] = NotRefreshing]
  /\ unsettled' = TRUE
  /\ UNCHANGED <<enabled, snapshot>>

Install(r) ==
  /\ refresh[r].phase = "install"
  /\ snapshot' = refresh[r].read
  /\ refresh' = [refresh EXCEPT ![r] = NotRefreshing]
  /\ unsettled' = (unsettled /\ ~refresh[r].clean)
  /\ UNCHANGED enabled

\* No refresh under way, and nothing since the last good one to upset it.
Settled == ~unsettled /\ \A r \in Refreshers : ~Refreshing(r)

FlagTypeOK ==
  /\ enabled \in BOOLEAN /\ snapshot \in BOOLEAN /\ unsettled \in BOOLEAN
  /\ refresh \in [Refreshers -> [phase : {"idle", "load", "install"}, read : BOOLEAN, clean : BOOLEAN]]
=============================================================================
