----------------------------- MODULE MCProcess ------------------------------
(* Bounds for checking with TLC what cmd/tripbot's process does around its  *)
(* services: the EventSub loop, the egress legs of the watchdog, and the    *)
(* overlap of two pods. One of the three casts plays in a behaviour: they   *)
(* share no state.                                                          *)
EXTENDS EventSub, Egress, Rollout

CONSTANTS follow, raid, Casts
VARIABLE cast

\* Two of each of what may go wrong with a session, and of new grants.
Troubles ==
  [hangups |-> 2, faults |-> 2, grants |-> 2, revocations |-> 1, stops |-> 1]

Plays(c, Step, others) == cast = c /\ Step /\ UNCHANGED <<others, cast>>
Loop(Step)  == Plays("eventsub", Step, <<egressVars, rolloutVars>>)
Watch(Step) == Plays("egress", Step, <<vars, rolloutVars>>)
Roll(Step)  == Plays("rollout", Step, <<vars, egressVars>>)
allVars == <<vars, egressVars, rolloutVars, cast>>

\* The casts that do not play stay as one of their initial states.
ProcessInit ==
  /\ cast \in Casts
  /\ full \in IF cast = "eventsub" THEN BOOLEAN ELSE {TRUE}
  /\ row \in IF cast = "eventsub" THEN {NoToken, 1} ELSE {1}
  /\ token \in IF cast = "eventsub" THEN {NoToken, row} ELSE {row}
  /\ leg \in IF cast = "egress" THEN Legs ELSE {CHOOSE l \in Legs : TRUE}
  /\ Init /\ EgressInit /\ RolloutInit

ProcessSpec ==
  ProcessInit /\ [][Loop(Next) \/ Watch(EgressNext) \/ Roll(RolloutNext)]_allVars

FairProcessSpec ==
  /\ ProcessSpec
  /\ WF_allVars(Loop(Attempt)) /\ WF_allVars(Loop(Welcome)) /\ WF_allVars(Loop(Ask))
  /\ WF_allVars(Loop(RoundOver)) /\ WF_allVars(Loop(EndSession)) /\ WF_allVars(Loop(Wake))
  /\ WF_allVars(Loop(HangUpUnused)) /\ WF_allVars(Loop(StoreGrant))
  /\ WF_allVars(Loop(ReloadTokens))

\* EventSub's promise, of the behaviours its cast plays in: with a grant that lasts,
\* events arrive in the end.
EventsArriveHere == cast = "eventsub" => EventsArriveInTheEnd
=============================================================================
