---------------------------- MODULE MCOnscreens ----------------------------
(***************************************************************************)
(* Lines, copies and scenarios for TLC.  Each scenario gives the outside   *)
(* enough events for one group of behaviours, not for all at once.         *)
(***************************************************************************)
EXTENDS OnscreensServer

MCLines == {"guess", "miles", "where", "egg"}
MCCommands == [guess |-> {"guess"}, miles |-> {"miles"}, where |-> {"miles"}, egg |-> {"guess"}]
MCTemplates == {"where"}
MCMessages == [dft |-> [left |-> {"guess"}, right |-> {"miles", "where"}],
               own |-> [left |-> {"guess", "miles"}, right |-> {"guess", "where"}]]
MCRare == [dft |-> "", own |-> "egg"]
MCCopies == {"dft", "own"}

Counts(s, h, d, r, e, a, t) ==
  [show |-> s, hide |-> h, drop |-> d, restart |-> r, edit |-> e, data |-> a, turn |-> t]

MCScenarios == { Counts(2, 1, 0, 0, 0, 0, 0),
                 Counts(1, 1, 1, 1, 0, 0, 0),
                 Counts(0, 0, 1, 1, 1, 0, 0),
                 Counts(0, 0, 0, 1, 2, 0, 0),
                 Counts(0, 0, 0, 0, 1, 1, 2) }
=============================================================================
