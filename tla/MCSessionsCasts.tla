--------------------------- MODULE MCSessionsCasts ---------------------------
(* Casts of goroutines on one viewer, each with bounds of its own: two        *)
(* disturbances are affordable where no checkpoint runs, a second tick where  *)
(* nobody chats, and chat is over when the shutdown begins.                   *)
EXTENDS MCSessions

VARIABLE cast

Routine     == [who |-> {t1, b1, c1}, budget |-> 1, time |-> 1]
LongStay    == [who |-> {t1, b1},     budget |-> 1, time |-> 2]
Corrections == [who |-> {t1, c1},     budget |-> 2, time |-> 1]
Shutdown    == [who |-> {t1, main},   budget |-> 2, time |-> 1]

CastInit == Init /\ cast \in {Routine, LongStay, Corrections, Shutdown}

\* The rest of the goroutines never get a turn.
CastNext ==
  /\ Next
  /\ UNCHANGED cast
  /\ spent' <= cast.budget /\ now' <= cast.time
  /\ \A p \in Procs \ cast.who :
       /\ UNCHANGED <<pc[p], outs[p], ins[p]>>
       /\ p \in Mains => UNCHANGED cancelled

CastSpec == CastInit /\ [][CastNext]_<<vars, cast>>
=============================================================================
