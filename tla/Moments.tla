------------------------------- MODULE Moments -------------------------------
(* Marks on moments of a clip and answers about them: both are asked in seconds *)
(* of the clip as it airs, kept in seconds of the recording it was cut from, and *)
(* the cut can change between the two.                                         *)
EXTENDS Integers, FiniteSets, FiniteSetsExt

CONSTANTS
  Seconds,        \* of the recording
  Cuts,           \* where the clip may start in it
  Tracks,         \* the rows video_coords may hold for it: second, read or not
  Fans, Operators, Console,
  CoordWindow, OcrWindow, Lookback,
  Recuts, Marked  \* bounds: re-trims, marks and removals begun

ASSUME MomentsConstants ==
  /\ Seconds \subseteq Nat /\ Cuts \subseteq Seconds
  /\ Console \notin Fans /\ Fans \cap Operators = {}
  /\ {CoordWindow, OcrWindow, Lookback, Recuts, Marked} \subseteq Nat
  /\ OcrWindow <= CoordWindow /\ 0 < Lookback /\ CoordWindow - OcrWindow <= Lookback
  /\ \A t \in Tracks : t \subseteq [sec : Seconds, ocr : BOOLEAN]

VARIABLES
  cut,            \* where the rows say the clip starts
  aired,          \* where the file playout holds starts
  coords,         \* video_coords of the clip
  marks,          \* video_moments of the clip
  asking,         \* what the handler of each viewer or operator is at
  recuts, begun   \* bounds

momentVars == <<cut, aired, coords, marks, asking, recuts, begun>>

Setters == Fans \cup Operators
Asleep == [at |-> -1]
\* A viewer may star or report a trim, the console star or doubt a fix.
MarkKinds(p) == IF p \in Fans THEN {"star", "trim"} ELSE {"star", "bad_coord"}
Author(p) == IF p \in Fans THEN p ELSE Console

MomentsInit ==
  /\ cut \in Cuts /\ aired = cut /\ coords \in Tracks /\ marks = {}
  /\ asking = [p \in Setters |-> Asleep] /\ recuts = 0 /\ begun = 0

-----------------------------------------------------------------------------
(* Marks: SetMark and RemoveMark. *)

InClip(r) == r.sec >= cut

\* Mutant: a mark is kept in the clip's own seconds.
Untrimmed == 0

\* A clip none of whose rows air is taken as untrimmed.
ClipOffset == IF \E r \in coords : InClip(r) THEN cut ELSE 0

\* A handler reads the playhead, or a page the clip's marks, and with it what
\* second the person means.  moved says the handler cannot tell that second any
\* more: playout airs an older cut, no row gives the clip's start, or (Recut) the
\* clip is re-trimmed before the handler reads its start.
Sees(p, kind, at, remove) ==
  /\ asking[p] = Asleep /\ begun < Marked /\ begun' = begun + 1
  /\ asking' = [asking EXCEPT ![p] =
       [at |-> at, kind |-> kind, remove |-> remove, off |-> -1,
        saw |-> at + IF p \in Fans THEN aired ELSE cut,
        moved |-> (p \in Fans /\ aired # cut) \/ \A r \in coords : ~InClip(r)]]
  /\ UNCHANGED <<cut, aired, coords, marks, recuts>>

\* markMoment, and a click on the clip page.
MarksMoment(p) == \E kind \in MarkKinds(p), at \in Seconds : Sees(p, kind, at, FALSE)

\* Only a mark the page lists can be taken off; its second is the page's.
PicksMark(p) ==
  \E m \in marks :
    /\ p \in Operators /\ m.kind \in MarkKinds(p) /\ m.src >= ClipOffset
    /\ Sees(p, m.kind, m.src - ClipOffset, TRUE)

ReadOffset(p) ==
  /\ asking[p] # Asleep /\ asking[p].off = -1
  /\ asking' = [asking EXCEPT ![p].off = ClipOffset]
  /\ UNCHANGED <<cut, aired, coords, marks, recuts, begun>>

Mark(p) == [kind |-> asking[p].kind, src |-> asking[p].at + asking[p].off, by |-> Author(p)]

\* A viewer's earlier mark of the kind goes with the transaction that sets the
\* new one; the console's marks stand beside each other.
Earlier(p) == {m \in marks : p \in Fans /\ m.kind = asking[p].kind /\ m.by = p}

WriteMark(p) ==
  /\ asking[p] # Asleep /\ asking[p].off # -1 /\ ~asking[p].remove
  /\ marks' = (marks \ Earlier(p)) \cup {Mark(p)}
  /\ asking' = [asking EXCEPT ![p] = Asleep]
  /\ UNCHANGED <<cut, aired, coords, recuts, begun>>

\* Mutant: the delete stands when the insert fails.
Unwound(p) == marks \ Earlier(p)
RolledBack(p) == marks

WriteMarkFails(p) ==
  /\ asking[p] # Asleep /\ asking[p].off # -1 /\ ~asking[p].remove
  /\ marks' = RolledBack(p) /\ asking' = [asking EXCEPT ![p] = Asleep]
  /\ UNCHANGED <<cut, aired, coords, recuts, begun>>

\* The console's own mark of the second, viewers' left in place.
RemoveMark(p) ==
  /\ asking[p] # Asleep /\ asking[p].off # -1 /\ asking[p].remove
  /\ marks' = {m \in marks : m # Mark(p)}
  /\ asking' = [asking EXCEPT ![p] = Asleep]
  /\ UNCHANGED <<cut, aired, coords, recuts, begun>>

\* The pipeline re-trims the clip: its rows at once, the file when it is rendered.
Recut(c) ==
  /\ recuts < Recuts /\ recuts' = recuts + 1 /\ c # cut /\ cut' = c
  /\ asking' = [p \in Setters |->
       IF asking[p] # Asleep /\ asking[p].off = -1 THEN [asking[p] EXCEPT !.moved = TRUE] ELSE asking[p]]
  /\ UNCHANGED <<aired, coords, marks, begun>>
Rendered ==
  /\ aired # cut /\ aired' = cut
  /\ UNCHANGED <<cut, coords, marks, asking, recuts, begun>>

MomentsNext ==
  \/ \E p \in Setters : \/ MarksMoment(p) \/ PicksMark(p) \/ ReadOffset(p)
                        \/ WriteMark(p) \/ WriteMarkFails(p) \/ RemoveMark(p)
  \/ \E c \in Cuts : Recut(c)
  \/ Rendered

MomentsSpec == MomentsInit /\ [][MomentsNext]_momentVars

-----------------------------------------------------------------------------
(* Answers: CoordAt and VelocityAt, at a second of the clip. *)

Far(r, at) == IF r.sec - cut > at THEN r.sec - cut - at ELSE at - (r.sec - cut)
Covering(at) == {r \in coords : InClip(r) /\ Far(r, at) <= CoordWindow}

\* Mutant: a row read off the frame beats any other, however near.
MeasuredFirst(r, s, at) == IF r.ocr # s.ocr THEN r.ocr ELSE Far(r, at) <= Far(s, at)

\* The order of the query: inside the small window first, then read off the
\* frame, then near.
Sooner(r, s, at) ==
  LET out(t) == Far(t, at) > OcrWindow
  IN  IF out(r) # out(s) THEN out(s)
      ELSE IF r.ocr # s.ocr THEN r.ocr ELSE Far(r, at) <= Far(s, at)

CoordAt(at) == {r \in Covering(at) : \A s \in Covering(at) : Sooner(r, s, at)}

\* Where the baseline of a heading starts and ends: behind, or from the top.
Baseline(at) == IF at < Lookback THEN <<0, Lookback>> ELSE <<at - Lookback, at>>

-----------------------------------------------------------------------------
(* Properties. *)

MomentsTypeOK ==
  /\ cut \in Cuts /\ aired \in Cuts /\ coords \in Tracks
  /\ \A m \in marks : m.by \in Fans \cup {Console} /\ m.src \in Nat

\* A write in flight that no re-trim has crossed puts its mark on the second its
\* author saw, whatever is re-trimmed afterwards (moments.go, "keyed to the
\* original recording so a re-trim moves no mark").
MarkedWhereSeen ==
  \A p \in Setters : asking[p] # Asleep /\ asking[p].off # -1 /\ ~asking[p].moved
    => Mark(p).src = asking[p].saw

\* A viewer has at most one mark of a kind, and loses it only to the next one:
\* a failed write, another viewer and the console leave it alone (moments.go,
\* "one viewer holds at most one star and one trim per clip").
OneMarkEach ==
  [][\A f \in Fans : \A kind \in MarkKinds(f) :
       LET held(ms) == {m \in ms : m.by = f /\ m.kind = kind}
       IN  Cardinality(held(marks')) <= 1 /\ (held(marks) # {} => held(marks') # {})]_momentVars

\* An answer is about the stretch of road on screen: of the rows about the same
\* few meters a measured one if there is one, and never a far row while a near
\* one exists; and a heading never runs from the later row to the earlier.
AnswersFromTheRoad ==
  \A at \in {s - cut : s \in {t \in Seconds : t >= cut}} :
    /\ \A r \in CoordAt(at) :
         LET beside == {s \in Covering(at) : Far(s, at) <= OcrWindow}
         IN  /\ beside # {} => r \in beside
             /\ (\E s \in beside : s.ocr) => r.ocr
    /\ \A r \in CoordAt(Baseline(at)[1]), s \in CoordAt(Baseline(at)[2]) : r.sec <= s.sec

\* A moment is where it was seen, when it is marked and when it is asked for:
\* the offset of a re-trim moves no mark, and an answer reads the rows beside
\* the second on screen (ClipOffset, coordAt).
MomentsAreWhereSeen == MarkedWhereSeen /\ AnswersFromTheRoad
=============================================================================
