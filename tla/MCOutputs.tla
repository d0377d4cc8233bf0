------------------------------ MODULE MCOutputs -----------------------------
(* The two watchdogs of the stream's output: what the silent-disconnect loop    *)
(* decides, tick by tick, and what it and the broadcast cap do to the one       *)
(* output, call by call.  cast says which a behaviour is about.                 *)
EXTENDS SilentDisconnect, OutputRestart

VARIABLE cast

OutputsInit == cast \in {"loop", "output"} /\ Init /\ OutputInit

OutputsNext ==
  /\ UNCHANGED cast
  /\ \/ cast = "loop" /\ Next /\ UNCHANGED outputVars
     \/ cast = "output" /\ OutputNext /\ UNCHANGED vars

\* Each cast with the fairness of its own module.
OutputsSpec ==
  /\ OutputsInit /\ [][OutputsNext]_<<vars, outputVars, cast>>
  /\ WF_vars(cast = "loop" /\ Next)
  /\ WF_outputVars(cast = "output" /\ Teardown) /\ WF_outputVars(cast = "output" /\ Exit)
  /\ \A r \in Restarters : WF_outputVars(cast = "output" /\ RestartStep(r))
=============================================================================
