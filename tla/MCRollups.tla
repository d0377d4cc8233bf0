----------------------------- MODULE MCRollups -----------------------------
(***************************************************************************)
(* A short month and a longer one, and scenarios for TLC: events over      *)
(* time, events with a credit at the month's end, and overlapping ticks    *)
(* with a fault.                                                           *)
(***************************************************************************)
EXTENDS Rollups

MCMonthLength == <<1, 2>>

Counts(e, h, c, d, f, o) ==
  [event |-> e, hour |-> h, credit |-> c, day |-> d, fault |-> f, overlap |-> o]

MCScenarios == { Counts(3, 2, 0, 0, 0, 0), Counts(1, 0, 1, 2, 0, 0),
                 Counts(0, 0, 2, 2, 0, 1), Counts(2, 0, 0, 0, 1, 1) }
=============================================================================
