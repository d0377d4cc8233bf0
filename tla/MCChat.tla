------------------------------- MODULE MCChat -------------------------------
(* Bounds for checking with TLC what becomes of a line of chat: the command it  *)
(* is taken for (dispatch), what the commands that move the playhead do beside  *)
(* one another (chat), and the clips they pick (library).  One of the casts     *)
(* plays in a behaviour: they share no state.                                   *)
EXTENDS Chat, Dispatch, Library

CONSTANTS
  viewer, owner, c1, c2,
  a, b, bang, inv, one, ghost, space, guess, list, jump, quit,
  noClip, noId, noFix, noState, utah, nevada

VARIABLE cast

-----------------------------------------------------------------------------
(* chat                                                                        *)

V(kind) == [by |-> viewer, kind |-> kind]
Owner(kind) == [by |-> owner, kind |-> kind]

\* Every kind of line, and every kind of jump before and after every other.
Conversations ==
  { <<V("guess"), V("warp"), V("guess")>>,
    <<V("guess"), V("jump"), V("guess")>>,
    <<V("warp"), V("jump"), V("seek")>>,
    <<V("seek"), V("warp"), V("jump")>>,
    <<V("gift"), V("gift"), V("warp")>>,
    <<Owner("jump"), V("jump"), V("jump")>>,
    <<V("report"), V("report"), V("other")>>,
    <<V("where"), V("report"), V("guess")>> }

Quiet == [clips |-> 0, restarts |-> 0, offline |-> 0, lostRows |-> 0, finds |-> 0, faults |-> 0,
          polls |-> 0, toggles |-> 0]

\* One or two kinds of trouble meet the viewers' lines ...
Troubles ==
  { [Quiet EXCEPT !.finds = 1, !.faults = 1],
    [Quiet EXCEPT !.clips = 1, !.faults = 1],
    [Quiet EXCEPT !.restarts = 1, !.lostRows = 1],
    [Quiet EXCEPT !.offline = 1, !.lostRows = 1] }

\* ... or the console toggles gifts, beside the flags' poll.
Toggling == [Quiet EXCEPT !.polls = 1, !.toggles = 2, !.faults = 1]
Gifts == <<V("gift"), V("gift")>>

Silent == << <<>>, Quiet >>
Everything == (Conversations \X Troubles) \cup {<<Gifts, Toggling>>, Silent}

-----------------------------------------------------------------------------
(* dispatch: an alphabet of two letters, and registries whose triggers are      *)
(* one, two and three letters apart                                            *)

Dict(n) == UNION {[1 .. k -> {a, b}] : k \in 1 .. n}
W(w) == <<bang>> \o w
Triggers == {<<a, a, b, b>>, <<a, b, a, b>>, <<a, a, b, a, b, b>>, <<b, a, a, b, b, b>>,
             <<a, a, a, b, b, b>>, <<b, b>>}
SomeTables ==
  {[own |-> [c \in {guess, list, jump, quit} |->
       CASE c = guess -> {W(t[1]), <<a, a, b>>}
         [] c = list -> {W(t[2]), W(<<a>>), W(<<b, b, b, b, b, b>>)}
         [] c = jump -> {W(t[3]), W(<<b, b, a>>)}
         [] c = quit -> {W(<<b, a>>)}],
    phrases |-> [c \in {guess, list, jump, quit} |-> IF c = jump THEN {<<<<a>>, <<b>>>>} ELSE {}],
    shared |-> {list, jump}, admin |-> {quit},
    help |-> <<<<W(t[1]), <<a>>>>, <<W(<<b, b, a>>)>>, <<<<a>>>>>>] :
      t \in {SetToSeq(x) : x \in kSubset(3, Triggers)}}
TwoStates == {<<<<b, b, a, a>>>>, <<<<b, a>>, <<a>>>>}
GhostWord == <<ghost>>
Bares == {<<a>>}
Listed == {W(<<b, b, a>>), W(<<b, b, b, b, b, b>>)}
TypedWords == {W(w) : w \in Dict(4) \cup {<<a, a>> \o v \o <<b>> : v \in [1 .. 3 -> {a, b}]}}
\* A word alone, with another, with a keyboard's "!" and after a lone "!".
Spoken == {<<w>> : w \in TypedWords}
     \cup {<<W(w), v>> : w \in Dict(3), v \in {<<a>>, <<ghost>>, <<a, a>>}}
     \cup {<<p \o w>> \o v : p \in {<<inv>>, <<one>>, <<>>},
             w \in {<<a>>, <<a, a, b>>, <<b, b, a>>, <<b, a>>, <<a, a, b, b>>},
             v \in {<<>>, <<<<b>>>>, <<<<ghost>>>>, <<<<a>>>>}}
     \cup {<<<<bang>>, v>> : v \in {<<b, b, a>>, <<a, a, b>>}}

-----------------------------------------------------------------------------
(* library                                                                     *)

Piece(o, at, shape, day) == [original |-> o, offset |-> at, shape |-> shape, day |-> day]
p0 == Piece(1, 0, "s1", 1)
p1 == Piece(2, 0, "s2", 1)
p2 == Piece(2, 1, "s2", 1)
p3 == Piece(3, 0, "s2", 2)
p4 == Piece(4, 0, "s2", 2)
Pieces == {p0, p1, p2, p3, p4, Piece(9, 0, "other", 0)}

Plain == [state |-> utah, spot |-> 1, flagged |-> FALSE, corpus |-> "s1", filmed |-> 34, zone |-> 7,
          next |-> noClip, speed |-> 1]
\* Every chain of three clips, flagged or not.
Chains ==
  { [c \in {p1, p2, p3} |-> [Plain EXCEPT !.next = link[c], !.flagged = c \in bad,
        !.state = IF c = p3 THEN noState ELSE utah]] :
    link \in [{p1, p2, p3} -> {p1, p2, p3, noClip, noId}], bad \in SUBSET {p1, p2, p3} }

\* A morning, an evening and a night, with a fix or flagged, and what comes after
\* them: the next day's dark and light, there or a zone further west.
Later(f, l) == [Plain EXCEPT !.filmed = f, !.state = l[1], !.zone = l[2]]
Night(e, x, y) == [c \in {p1, p2, p3} |-> CASE c = p1 -> e [] c = p2 -> x [] c = p3 -> y]
Nights ==
  { Night([Plain EXCEPT !.flagged = g, !.spot = IF g THEN noFix ELSE 1, !.filmed = f, !.speed = 6],
          x, y) :
      g \in BOOLEAN, f \in {24 + 8, 24 + 17, 24 + 23},
      x \in {Later(f, l) : f \in {24 + 17, 24 + 23, 48 + 6, 48 + 8},
                           l \in {<<utah, 7>>, <<nevada, 8>>}},
      y \in { Later(48 + 8, <<utah, 7>>), Later(48 + 20, <<nevada, 8>>),
              [Later(48 + 9, <<nevada, 8>>) EXCEPT !.corpus = "parked"],
              [Later(48 + 9, <<utah, 7>>) EXCEPT !.flagged = TRUE, !.spot = noFix] } }

\* A piece past midnight is dated a day after its original.
Ingested ==
  [s \in Pieces |-> [Plain EXCEPT !.filmed = 24 * s.day + IF s = p2 THEN 24 ELSE 20]]

SomeFilms == Chains \cup Nights
F(clip, sec, distance) == [clip |-> clip, sec |-> sec, distance |-> distance, model |-> "m"]
SomeFrames ==
  { F(p3, 1, 0), F(p3, 2, 1), F(p3, 4, 1), F(p1, 2, 2), F(p1, 1, 3), F(p2, 5, 3), F(p2, 7, 4),
    [F(p2, 1, 0) EXCEPT !.model = "old"] }
SomeShelves == {Pieces, Pieces \ {p1}, Pieces \ {p2, p3}, {p1, p2}}

-----------------------------------------------------------------------------
\* The casts that do not play stay as one of their initial states.
ChatInit ==
  /\ cast \in {"chat", "dispatch", "library"}
  /\ Init /\ (cast = "chat" <=> <<chat, budget>> # Silent)
  /\ commands \in IF cast = "dispatch" THEN Tables ELSE {CHOOSE t \in Tables : TRUE}
  /\ full \in IF cast = "dispatch" THEN BOOLEAN ELSE {TRUE}
  /\ DispatchInit /\ (cast # "dispatch" => helpIndex = 1)
  /\ IF cast = "library" THEN LibraryInit
     ELSE videos = [s \in {} |-> Plain] /\ cuts = videos /\ asked = Nothing /\ changes = 0

ChatNext ==
  /\ UNCHANGED cast
  /\ \/ cast = "chat" /\ Next /\ UNCHANGED <<dispatchVars, libraryVars>>
     \/ cast = "dispatch" /\ DispatchNext /\ UNCHANGED <<all, libraryVars>>
     \/ cast = "library" /\ LibraryNext /\ UNCHANGED <<all, dispatchVars>>

ChatSpec == ChatInit /\ [][ChatNext]_<<all, dispatchVars, libraryVars, cast>>
=============================================================================
