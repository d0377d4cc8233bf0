---------------------------- MODULE RollupsProofs ----------------------------
(***************************************************************************)
(* What TLAPS proves of Rollups, for any viewers, writers, ticks, calendar *)
(* and length of a session.                                                *)
(***************************************************************************)
EXTENDS Rollups, Sums, TLAPS

-----------------------------------------------------------------------------
(* What the statement computes *)

\* The rows that are a viewer's, and the parts Keyed and Legacy are built of.
His(v, rows)       == {e \in rows : e.viewer = v}
Ins(v, s, rows)    == {e.at : e \in {f \in Of(v, "login", rows) : f.session = s}}
Outs(v, s, rows)   == {e.at : e \in {f \in Of(v, "logout", rows) : f.session = s}}
Named(v, rows)     == {s \in {e.session : e \in rows} \ {NoSession} :
                         Ins(v, s, rows) # {} /\ Outs(v, s, rows) # {}}
Pair(v, s, rows)   == <<s, Min(Ins(v, s, rows)), Min(Outs(v, s, rows))>>
Old(v, kind, rows) == {e \in Of(v, kind, rows) : e.session = NoSession}
Rank(e, all)       == Cardinality({f \in all : f.at < e.at \/ (f.at = e.at /\ f.id <= e.id)})
InOrder(L, O)      == {<<-p[1].id, p[1].at, p[2].at>> :
                         p \in {q \in L \X O : Rank(q[1], L) = Rank(q[2], O)}}
Pairs(v, rows)     == Keyed(v, rows) \cup Legacy(v, rows)
Extras(v, rows)    == Of(v, "logout", rows) \cup Of(v, "correction", rows)
Length(S)          == [p \in S |-> p[3] - p[2]]
Extra(S)           == [e \in S |-> e.extra]

LEMMA KeyedIs ==
  ASSUME NEW v, NEW rows
  PROVE  Keyed(v, rows) = {Pair(v, s, rows) : s \in Named(v, rows)}
BY DEF Keyed, Pair, Named, Ins, Outs

LEMMA LegacyIs ==
  ASSUME NEW v, NEW rows
  PROVE  Legacy(v, rows) = InOrder(Old(v, "login", rows), Old(v, "logout", rows))
BY DEF Legacy, InOrder, Old, Rank

\* The two sums of the statement, as sums of functions.
LEMMA LengthsAddUp ==
  ASSUME NEW S, IsFiniteSet(S)
  PROVE  MapThenSumSet(LAMBDA p : p[3] - p[2], S) = SumOver(Length(S), S)
BY DEF SumOver, Length, MapThenSumSet, MapThenFoldSet

LEMMA ExtrasAddUp ==
  ASSUME NEW S, IsFiniteSet(S)
  PROVE  MapThenSumSet(LAMBDA e : e.extra, S) = SumOver(Extra(S), S)
BY DEF SumOver, Extra, MapThenSumSet, MapThenFoldSet

Hours(S) == MapThenSumSet(LAMBDA p : p[3] - p[2], Counted(S))
Given(S) == MapThenSumSet(LAMBDA e : e.extra, S)

LEMMA AggregateIs ==
  ASSUME NEW v, NEW rows
  PROVE  Aggregate(v, rows) = [miles    |-> Hours(Pairs(v, rows)),
                               sessions |-> Cardinality(Of(v, "login", rows)),
                               extra    |-> Given(Extras(v, rows))]
BY DEF Aggregate, Hours, Given, Pairs, Extras

LEMMA AggregateIsHis ==
  ASSUME NEW v, NEW A, NEW B, His(v, A) = His(v, B)
  PROVE  Aggregate(v, A) = Aggregate(v, B)
<1>1. \A kind : Of(v, kind, A) = Of(v, kind, B)
  BY DEF Of, His
<1>2. \A s : Ins(v, s, A) = Ins(v, s, B) /\ Outs(v, s, A) = Outs(v, s, B)
  BY <1>1 DEF Ins, Outs
<1>3. \A s : s \in Named(v, A) <=> s \in Named(v, B)
  <2>1. ASSUME NEW s, NEW X, Ins(v, s, X) # {}
        PROVE  s \in {e.session : e \in X}
    BY <2>1 DEF Ins, Of
  <2>. QED
    BY <1>2, <2>1 DEF Named
<1>4. Keyed(v, A) = Keyed(v, B)
  <2>1. Named(v, A) = Named(v, B)
    BY <1>3 DEF Named
  <2>2. \A s : Pair(v, s, A) = Pair(v, s, B)
    BY <1>2 DEF Pair
  <2>. QED
    BY <2>1, <2>2, KeyedIs
<1>5. \A kind : Old(v, kind, A) = Old(v, kind, B)
  BY <1>1 DEF Old
<1>6. Legacy(v, A) = Legacy(v, B)
  BY <1>5, LegacyIs
<1>. QED
  <2>1. Pairs(v, A) = Pairs(v, B) /\ Extras(v, A) = Extras(v, B)
    BY <1>1, <1>4, <1>6 DEF Pairs, Extras
  <2>2. Of(v, "login", A) = Of(v, "login", B)
    BY <1>1
  <2>. QED
    BY <2>1, <2>2, AggregateIs

\* The earliest of a set of hours.
LEMMA EarliestIsFirst ==
  ASSUME NEW T, T \subseteq Nat, T # {}
  PROVE  Min(T) \in T /\ \A h \in T : Min(T) <= h
<1>1. \E h \in T : \A k \in T : h <= k
  BY SmallestExists
<1>. QED
  BY <1>1 DEF Min

LEMMA EarliestStays ==
  ASSUME NEW T, T \subseteq Nat, T # {}, NEW h \in Nat, \A k \in T : k <= h
  PROVE  Min(T \cup {h}) = Min(T)
<1>. DEFINE U == T \cup {h}
<1>1. U \subseteq Nat /\ U # {}
  OBVIOUS
<1>2. /\ Min(T) \in T /\ \A k \in T : Min(T) <= k
      /\ Min(U) \in U /\ \A k \in U : Min(U) <= k
  BY <1>1, EarliestIsFirst
<1>. HIDE DEF U
<1>3. Min(U) <= Min(T) /\ Min(T) \in Nat /\ Min(U) \in Nat
  BY <1>1, <1>2 DEF U
<1>4. Min(T) <= Min(U)
  <2>1. CASE Min(U) \in T
    BY <1>2, <2>1
  <2>2. CASE Min(U) = h
    BY <1>2, <2>2
  <2>. QED
    BY <1>2, <2>1, <2>2 DEF U
<1>. QED
  BY <1>3, <1>4 DEF U

LEMMA EarliestOfOne ==
  ASSUME NEW h \in Nat
  PROVE  Min({h}) = h
BY EarliestIsFirst, {h} \subseteq Nat, {h} # {}

\* Sessions are counted in whole hours.
LEMMA PairsAreHours ==
  ASSUME NEW v, NEW rows, rows \subseteq RowSet, IsFiniteSet(rows)
  PROVE  /\ IsFiniteSet(Pairs(v, rows))
         /\ \A p \in Pairs(v, rows) : p = <<p[1], p[2], p[3]>>
         /\ \A p \in Pairs(v, rows) : p[1] \in Int /\ p[2] \in Nat /\ p[3] \in Nat
         /\ \A p \in Keyed(v, rows) : p[1] \in Nat
         /\ \A p \in Legacy(v, rows) : p[1] < 0
<1>1. \A s : Ins(v, s, rows) \subseteq Nat /\ Outs(v, s, rows) \subseteq Nat
  BY DEF Ins, Outs, Of, RowSet
<1>2. \A s \in Named(v, rows) : s \in Nat /\ Min(Ins(v, s, rows)) \in Nat /\ Min(Outs(v, s, rows)) \in Nat
  <2>1. \A s \in Named(v, rows) : s \in Nat /\ Ins(v, s, rows) # {} /\ Outs(v, s, rows) # {}
    BY DEF Named, RowSet
  <2>. QED
    BY <1>1, <2>1, EarliestIsFirst
<1>3. \A p \in Keyed(v, rows) : p = <<p[1], p[2], p[3]>> /\ p[1] \in Nat /\ p[2] \in Nat /\ p[3] \in Nat
  BY <1>2, KeyedIs DEF Pair
<1>. DEFINE L == Old(v, "login", rows)
            O == Old(v, "logout", rows)
            Q == {q \in L \X O : Rank(q[1], L) = Rank(q[2], O)}
            f == [p \in Q |-> <<-p[1].id, p[1].at, p[2].at>>]
<1>4. L \subseteq rows /\ O \subseteq rows
  BY DEF Old, Of
<1>5. \A p \in Q : p[1] \in rows /\ p[2] \in rows
  BY <1>4
<1>6. Legacy(v, rows) = {f[p] : p \in Q}
  BY LegacyIs DEF InOrder
<1>7. \A p \in Legacy(v, rows) : p = <<p[1], p[2], p[3]>> /\ p[1] \in Int /\ p[1] < 0 /\ p[2] \in Nat /\ p[3] \in Nat
  BY <1>5, <1>6 DEF RowSet
<1>8. IsFiniteSet(Legacy(v, rows))
  <2>1. IsFiniteSet(L) /\ IsFiniteSet(O)
    BY <1>4, FS_Subset
  <2>2. IsFiniteSet(L \X O)
    BY <2>1, FS_Product
  <2>3. Q \subseteq L \X O /\ IsFiniteSet(Q)
    BY <2>2, FS_Subset
  <2>4. IsFiniteSet({f[p] : p \in Q})
    <3>. HIDE DEF f, Q
    <3>. QED
      BY <2>3, ImageIsFinite
  <2>. QED
    BY <1>6, <2>4
<1>9. IsFiniteSet(Keyed(v, rows))
  <2>. DEFINE g == [e \in rows |-> e.session]
              h == [s \in Named(v, rows) |-> Pair(v, s, rows)]
  <2>1. IsFiniteSet({g[e] : e \in rows})
    <3>. HIDE DEF g
    <3>. QED
      BY ImageIsFinite
  <2>2. Named(v, rows) \subseteq {g[e] : e \in rows}
    BY DEF Named
  <2>3. IsFiniteSet(Named(v, rows))
    BY <2>1, <2>2, FS_Subset
  <2>4. IsFiniteSet({h[s] : s \in Named(v, rows)})
    <3>. HIDE DEF h
    <3>. QED
      BY <2>3, ImageIsFinite
  <2>5. Keyed(v, rows) = {h[s] : s \in Named(v, rows)}
    BY KeyedIs
  <2>. QED
    BY <2>4, <2>5
<1>10. IsFiniteSet(Pairs(v, rows))
  BY <1>8, <1>9, FS_Union DEF Pairs
<1>. QED
  BY <1>3, <1>7, <1>10 DEF Pairs

-----------------------------------------------------------------------------
(* What one more row changes *)

\* A login that nobody has logged out yet is one more session.
LEMMA LoginCounts ==
  ASSUME NEW rows, rows \subseteq RowSet, IsFiniteSet(rows),
         NEW n \in RowSet, n \notin rows, n.event = "login", n.session # NoSession,
         \A e \in rows : e.event = "logout" => e.session # n.session
  PROVE  Aggregate(n.viewer, rows \cup {n})
           = [Aggregate(n.viewer, rows) EXCEPT !.sessions = @ + 1]
<1>. DEFINE v == n.viewer
            more == rows \cup {n}
<1>1. /\ Of(v, "login", more) = Of(v, "login", rows) \cup {n}
      /\ Of(v, "logout", more) = Of(v, "logout", rows)
      /\ Of(v, "correction", more) = Of(v, "correction", rows)
  BY DEF Of
<1>2. Cardinality(Of(v, "login", more)) = Cardinality(Of(v, "login", rows)) + 1
  <2>1. IsFiniteSet(Of(v, "login", rows)) /\ n \notin Of(v, "login", rows)
    BY FS_Subset DEF Of
  <2>. QED
    BY <1>1, <2>1, FS_AddElement
<1>3. Outs(v, n.session, rows) = {}
  BY DEF Outs, Of
<1>4. \A s : Outs(v, s, more) = Outs(v, s, rows)
  BY <1>1 DEF Outs
<1>5. \A s : s # n.session => Ins(v, s, more) = Ins(v, s, rows)
  BY <1>1 DEF Ins
<1>6. Named(v, more) = Named(v, rows)
  <2>1. ASSUME NEW s
        PROVE  s \in Named(v, more) <=> s \in Named(v, rows)
    <3>1. CASE s = n.session
      BY <1>3, <1>4, <3>1 DEF Named
    <3>2. CASE s # n.session
      BY <1>4, <1>5, <3>2 DEF Named
    <3>. QED
      BY <3>1, <3>2
  <2>. QED
    BY <2>1 DEF Named
<1>7. Keyed(v, more) = Keyed(v, rows)
  <2>1. \A s \in Named(v, rows) : Pair(v, s, more) = Pair(v, s, rows)
    BY <1>3, <1>4, <1>5 DEF Pair, Named
  <2>. QED
    BY <1>6, <2>1, KeyedIs
<1>8. Legacy(v, more) = Legacy(v, rows)
  <2>1. \A kind \in {"login", "logout"} : Old(v, kind, more) = Old(v, kind, rows)
    BY <1>1 DEF Old
  <2>. QED
    BY <2>1, LegacyIs
<1>9. Pairs(v, more) = Pairs(v, rows) /\ Extras(v, more) = Extras(v, rows)
  BY <1>1, <1>7, <1>8 DEF Pairs, Extras
<1>. QED
  BY <1>2, <1>9, AggregateIs

\* What a row gives adds to what is given.
LEMMA GivenGrows ==
  ASSUME NEW S, S \subseteq RowSet, IsFiniteSet(S), NEW n \in RowSet, n \notin S
  PROVE  Given(S \cup {n}) = Given(S) + n.extra /\ Given(S) \in Int
<1>1. IsFiniteSet(S \cup {n})
  BY FS_AddElement
<1>2. Integral(Extra(S), S) /\ Integral(Extra(S \cup {n}), S \cup {n})
  BY DEF Integral, Extra, RowSet
<1>3. SumOver(Extra(S \cup {n}), S \cup {n}) = Extra(S \cup {n})[n] + SumOver(Extra(S \cup {n}), S)
  BY <1>2, SumWithOneMore
<1>4. SumOver(Extra(S \cup {n}), S) = SumOver(Extra(S), S)
  BY SumOfTheSame, \A e \in S : Extra(S \cup {n})[e] = Extra(S)[e] DEF Extra
<1>5. Extra(S \cup {n})[n] = n.extra /\ n.extra \in Int
  BY DEF Extra, RowSet
<1>6. SumOver(Extra(S), S) \in Int
  BY <1>2, SumIsInteger
<1>. QED
  BY <1>1, <1>3, <1>4, <1>5, <1>6, ExtrasAddUp DEF Given

LEMMA CorrectionCounts ==
  ASSUME NEW rows, rows \subseteq RowSet, IsFiniteSet(rows),
         NEW n \in RowSet, n \notin rows, n.event = "correction"
  PROVE  Aggregate(n.viewer, rows \cup {n})
           = [Aggregate(n.viewer, rows) EXCEPT !.extra = @ + n.extra]
<1>. DEFINE v == n.viewer
            more == rows \cup {n}
<1>1. /\ Of(v, "login", more) = Of(v, "login", rows)
      /\ Of(v, "logout", more) = Of(v, "logout", rows)
      /\ Of(v, "correction", more) = Of(v, "correction", rows) \cup {n}
  BY DEF Of
<1>2. Given(Extras(v, more)) = Given(Extras(v, rows)) + n.extra
  <2>1. Extras(v, more) = Extras(v, rows) \cup {n}
    BY <1>1 DEF Extras
  <2>2. Extras(v, rows) \subseteq rows
    BY DEF Extras, Of
  <2>3. IsFiniteSet(Extras(v, rows)) /\ Extras(v, rows) \subseteq RowSet /\ n \notin Extras(v, rows)
    BY <2>2, FS_Subset
  <2>. QED
    BY <2>1, <2>3, GivenGrows
<1>3. \A s : Ins(v, s, more) = Ins(v, s, rows) /\ Outs(v, s, more) = Outs(v, s, rows)
  BY <1>1 DEF Ins, Outs
<1>4. Keyed(v, more) = Keyed(v, rows)
  <2>1. ASSUME NEW s, NEW X, Ins(v, s, X) # {}
        PROVE  s \in {e.session : e \in X}
    BY <2>1 DEF Ins, Of
  <2>2. Named(v, more) = Named(v, rows)
    BY <1>3, <2>1 DEF Named
  <2>3. \A s : Pair(v, s, more) = Pair(v, s, rows)
    BY <1>3 DEF Pair
  <2>. QED
    BY <2>2, <2>3, KeyedIs
<1>5. Legacy(v, more) = Legacy(v, rows)
  <2>1. \A kind \in {"login", "logout"} : Old(v, kind, more) = Old(v, kind, rows)
    BY <1>1 DEF Old
  <2>. QED
    BY <2>1, LegacyIs
<1>6. Pairs(v, more) = Pairs(v, rows)
  BY <1>4, <1>5 DEF Pairs
<1>. QED
  BY <1>1, <1>2, <1>6, AggregateIs

\* A session more counts for its length, unless it is too short or too long.
LEMMA HoursGrow ==
  ASSUME NEW S, IsFiniteSet(S), \A p \in S : p[2] \in Nat /\ p[3] \in Nat,
         NEW s, NEW a \in Nat, NEW b \in Nat, <<s, a, b>> \notin S, a <= b
  PROVE  /\ Hours(S) \in Int
         /\ Hours(S \cup {<<s, a, b>>}) = IF b - a >= MaxSession THEN Hours(S) ELSE Hours(S) + (b - a)
<1>. DEFINE n == <<s, a, b>>
            C == Counted(S)
            D == Counted(S \cup {n})
<1>1. IsFiniteSet(C) /\ C \subseteq S
  BY FS_Subset DEF Counted
<1>2. Integral(Length(C), C)
  BY DEF Integral, Length, Counted
<1>3. Hours(S) = SumOver(Length(C), C) /\ SumOver(Length(C), C) \in Int
  BY <1>1, <1>2, LengthsAddUp, SumIsInteger DEF Hours
<1>0. MaxSession \in Nat /\ n[2] = a /\ n[3] = b
  BY RollupConstants
<1>4. CASE b > a /\ b - a < MaxSession
  <2>1. D = C \cup {n} /\ n \notin C
    BY <1>0, <1>4 DEF Counted
  <2>2. IsFiniteSet(D)
    BY <1>1, <2>1, FS_AddElement
  <2>3. Integral(Length(D), D)
    BY <1>0, <1>4, <2>1, <1>2 DEF Integral, Length, Counted
  <2>4. SumOver(Length(D), D) = Length(D)[n] + SumOver(Length(D), C)
    BY <1>1, <2>1, <2>3, SumWithOneMore
  <2>5. SumOver(Length(D), C) = SumOver(Length(C), C)
    <3>1. \A p \in C : Length(D)[p] = Length(C)[p]
      BY <2>1 DEF Length
    <3>. QED
      BY <1>1, <3>1, SumOfTheSame
  <2>6. Length(D)[n] = b - a
    BY <1>0, <2>1 DEF Length
  <2>7. Hours(S \cup {n}) = SumOver(Length(D), D)
    BY <2>2, LengthsAddUp DEF Hours
  <2>. QED
    BY <1>0, <1>3, <1>4, <2>4, <2>5, <2>6, <2>7
<1>5. CASE ~ (b > a /\ b - a < MaxSession)
  <2>1. D = C
    BY <1>0, <1>5 DEF Counted
  <2>2. Hours(S \cup {n}) = Hours(S)
    BY <2>1 DEF Hours
  <2>3. b - a >= MaxSession \/ b - a = 0
    BY <1>0, <1>5
  <2>. QED
    BY <1>3, <2>2, <2>3
<1>. QED
  BY <1>4, <1>5

\* The first session of all counts like any other.
LEMMA AloneCounts ==
  Hours({} \cup {<<-1, 0, 1>>}) = IF 1 - 0 >= MaxSession THEN Hours({}) ELSE Hours({}) + (1 - 0)
<1>. DEFINE Nothing == {}
            Same(t, a, b) == Hours(Nothing \cup {<<t, a, b>>})
                               = IF b - a >= MaxSession THEN Hours(Nothing) ELSE Hours(Nothing) + (b - a)
<1>1. ASSUME NEW t, NEW a \in Nat, NEW b \in Nat, a <= b
      PROVE  Same(t, a, b)
  <2>1. IsFiniteSet(Nothing) /\ (\A p \in Nothing : p[2] \in Nat /\ p[3] \in Nat) /\ <<t, a, b>> \notin Nothing
    BY FS_EmptySet
  <2>. HIDE DEF Nothing
  <2>. QED
    BY <1>1, <2>1, HoursGrow
<1>. HIDE DEF Same
<1>2. Same(-1, 0, 1)
  BY <1>1
<1>. QED
  BY <1>2 DEF Same

\* The first logout of a session gives it its length; another one does not.
LEMMA LogoutCounts ==
  ASSUME NEW rows, rows \subseteq RowSet, IsFiniteSet(rows),
         NEW n \in RowSet, n \notin rows, n.event = "logout", n.session # NoSession,
         NEW e \in rows, e.event = "login", e.session = n.session, e.viewer = n.viewer,
         \A f \in rows : f.event = "login" /\ f.session = n.session => f = e,
         \A f \in rows : f.event = "logout" /\ f.session = n.session => f.viewer = n.viewer,
         \A f \in rows : f.at <= n.at
  PROVE  LET first == ~ \E f \in rows : f.event = "logout" /\ f.session = n.session
             long  == n.at - e.at >= MaxSession
         IN Aggregate(n.viewer, rows \cup {n})
              = LET was == Aggregate(n.viewer, rows)
                IN [miles    |-> IF first /\ ~ long THEN was.miles + (n.at - e.at) ELSE was.miles,
                    sessions |-> was.sessions,
                    extra    |-> was.extra + n.extra]
<1>. DEFINE v == n.viewer
            s == n.session
            more == rows \cup {n}
            first == ~ \E f \in rows : f.event = "logout" /\ f.session = s
            long == n.at - e.at >= MaxSession
<1>1. /\ Of(v, "login", more) = Of(v, "login", rows)
      /\ Of(v, "logout", more) = Of(v, "logout", rows) \cup {n}
      /\ Of(v, "correction", more) = Of(v, "correction", rows)
  BY DEF Of
<1>2. Given(Extras(v, more)) = Given(Extras(v, rows)) + n.extra
  <2>1. Extras(v, more) = Extras(v, rows) \cup {n}
    BY <1>1 DEF Extras
  <2>2. Extras(v, rows) \subseteq rows
    BY DEF Extras, Of
  <2>3. IsFiniteSet(Extras(v, rows)) /\ Extras(v, rows) \subseteq RowSet /\ n \notin Extras(v, rows)
    BY <2>2, FS_Subset
  <2>. QED
    BY <2>1, <2>3, GivenGrows
<1>3. \A k : Ins(v, k, more) = Ins(v, k, rows)
  BY <1>1 DEF Ins
<1>4. \A k : k # s => Outs(v, k, more) = Outs(v, k, rows)
  BY <1>1 DEF Outs
<1>5. Outs(v, s, more) = Outs(v, s, rows) \cup {n.at}
  BY <1>1 DEF Outs
<1>6. Ins(v, s, rows) = {e.at}
  BY DEF Ins, Of
<1>7. \A k : k # s => (k \in Named(v, more) <=> k \in Named(v, rows))
  <2>1. \A k : k # s => (k \in {f.session : f \in more} <=> k \in {f.session : f \in rows})
    OBVIOUS
  <2>. QED
    BY <1>3, <1>4, <2>1 DEF Named
<1>8. s \in Named(v, more)
  BY <1>3, <1>5, <1>6 DEF Named
<1>9. \A k : k # s => Pair(v, k, more) = Pair(v, k, rows)
  BY <1>3, <1>4 DEF Pair
<1>10. n.at \in Nat /\ e.at \in Nat /\ s \in Nat /\ e.at <= n.at /\ n.extra \in Int
  BY DEF RowSet
<1>11. Outs(v, s, rows) \subseteq Nat /\ \A h \in Outs(v, s, rows) : h <= n.at
  BY DEF Outs, Of, RowSet
<1>12. Legacy(v, more) = Legacy(v, rows)
  <2>1. \A kind \in {"login", "logout"} : Old(v, kind, more) = Old(v, kind, rows)
    BY <1>1 DEF Old
  <2>. QED
    BY <2>1, LegacyIs
<1>13. Hours(Pairs(v, more)) = IF first /\ ~ long THEN Hours(Pairs(v, rows)) + (n.at - e.at)
                               ELSE Hours(Pairs(v, rows))
  <2>1. CASE first
    <3>1. Outs(v, s, rows) = {}
      BY <2>1 DEF Outs, Of
    <3>2. s \notin Named(v, rows)
      BY <3>1 DEF Named
    <3>3. Pair(v, s, more) = <<s, e.at, n.at>>
      <4>1. Ins(v, s, more) = {e.at} /\ Outs(v, s, more) = {n.at}
        BY <1>3, <1>5, <1>6, <3>1
      <4>. QED
        BY <1>10, <4>1, EarliestOfOne DEF Pair
    <3>4. Keyed(v, more) = Keyed(v, rows) \cup {<<s, e.at, n.at>>}
      <4>1. Named(v, more) = Named(v, rows) \cup {s}
        BY <1>7, <1>8, <3>2
      <4>2. \A k \in Named(v, rows) : Pair(v, k, more) = Pair(v, k, rows)
        BY <1>9, <3>2
      <4>. HIDE DEF s, v, more
      <4>3. {Pair(v, k, more) : k \in Named(v, rows) \cup {s}}
              = {Pair(v, k, rows) : k \in Named(v, rows)} \cup {Pair(v, s, more)}
        BY <4>2
      <4>. QED
        BY <3>3, <4>1, <4>3, KeyedIs
    <3>5. <<s, e.at, n.at>> \notin Pairs(v, rows)
      <4>1. SUFFICES ASSUME <<s, e.at, n.at>> \in Pairs(v, rows) PROVE FALSE
        OBVIOUS
      <4>2. <<s, e.at, n.at>> \notin Legacy(v, rows)
        <5>1. <<s, e.at, n.at>>[1] = s
          OBVIOUS
        <5>. QED
          BY <1>10, <5>1, PairsAreHours
      <4>3. <<s, e.at, n.at>> \in Keyed(v, rows)
        BY <4>1, <4>2 DEF Pairs
      <4>4. PICK k \in Named(v, rows) : <<s, e.at, n.at>> = Pair(v, k, rows)
        BY <4>3, KeyedIs
      <4>5. k = s
        BY <4>4 DEF Pair
      <4>. QED
        BY <3>2, <4>5
    <3>6. Pairs(v, more) = Pairs(v, rows) \cup {<<s, e.at, n.at>>}
      BY <1>12, <3>4 DEF Pairs
    <3>7. IsFiniteSet(Pairs(v, rows)) /\ \A p \in Pairs(v, rows) : p[2] \in Nat /\ p[3] \in Nat
      BY PairsAreHours
    <3>8. Hours(Pairs(v, rows) \cup {<<s, e.at, n.at>>})
            = IF long THEN Hours(Pairs(v, rows)) ELSE Hours(Pairs(v, rows)) + (n.at - e.at)
      <4>. DEFINE P == Pairs(v, rows)
                  a == e.at
                  b == n.at
      <4>1. a \in Nat /\ b \in Nat /\ a <= b /\ <<s, a, b>> \notin P
        BY <1>10, <3>5
      <4>2. IsFiniteSet(P) /\ \A p \in P : p[2] \in Nat /\ p[3] \in Nat
        BY <3>7
      <4>. HIDE DEF P, a, b, s
      <4>3. Hours(P \cup {<<s, a, b>>}) = IF b - a >= MaxSession THEN Hours(P) ELSE Hours(P) + (b - a)
        BY <4>1, <4>2, HoursGrow
      <4>. QED
        BY <4>3 DEF P, a, b
    <3>. QED
      BY <2>1, <3>6, <3>8
  <2>2. CASE ~ first
    <3>1. PICK f \in rows : f.event = "logout" /\ f.session = s
      BY <2>2
    <3>2. f.at \in Outs(v, s, rows)
      BY <3>1 DEF Outs, Of
    <3>3. s \in Named(v, rows)
      <4>1. s \in {g.session : g \in rows}
        OBVIOUS
      <4>. QED
        BY <1>6, <3>2, <4>1 DEF Named
    <3>4. Named(v, more) = Named(v, rows)
      BY <1>7, <1>8, <3>3 DEF Named
    <3>5. Min(Outs(v, s, more)) = Min(Outs(v, s, rows))
      BY <1>5, <1>10, <1>11, <3>2, EarliestStays
    <3>6. Pair(v, s, more) = Pair(v, s, rows)
      BY <1>3, <3>5 DEF Pair
    <3>7. Keyed(v, more) = Keyed(v, rows)
      <4>1. \A k : Pair(v, k, more) = Pair(v, k, rows)
        BY <1>9, <3>6
      <4>. QED
        BY <3>4, <4>1, KeyedIs
    <3>. QED
      BY <1>12, <2>2, <3>7 DEF Pairs
  <2>. QED
    BY <2>1, <2>2
<1>. HIDE DEF v, more, first, long
<1>14. Aggregate(v, more)
         = [miles    |-> IF first /\ ~ long THEN Hours(Pairs(v, rows)) + (n.at - e.at)
                         ELSE Hours(Pairs(v, rows)),
            sessions |-> Cardinality(Of(v, "login", rows)),
            extra    |-> Given(Extras(v, rows)) + n.extra]
  BY <1>1, <1>2, <1>13, AggregateIs
<1>15. /\ Aggregate(v, rows).miles = Hours(Pairs(v, rows))
       /\ Aggregate(v, rows).sessions = Cardinality(Of(v, "login", rows))
       /\ Aggregate(v, rows).extra = Given(Extras(v, rows))
  BY AggregateIs
<1>. QED
  BY <1>14, <1>15 DEF v, more, first, long

-----------------------------------------------------------------------------
(* The rows: ids are drawn once, a session is named by its login, and a    *)
(* logout has one                                                          *)

RowsInv ==
  /\ lastId \in Nat /\ hour \in Nat /\ watermark \in Nat
  /\ events \subseteq RowSet /\ inserted \in [Writers -> RowSet \cup {None}]
  /\ IsFiniteSet(Rows)
  /\ \A e \in Rows : e.id <= lastId /\ e.at <= hour
  /\ \A e, f \in Rows : e.id = f.id => e = f
  /\ \A e \in Rows : e.event = "login" /\ e.session # NoSession => e.session = e.id
  /\ \A e \in Rows : e.event = "logout" /\ e.session # NoSession =>
       \E f \in Rows : f.event = "login" /\ f.session = e.session /\ f.viewer = e.viewer

\* What Insert writes.
Written(v, kind, s, x) ==
  [id |-> lastId + 1, viewer |-> v, event |-> kind, session |-> s, at |-> hour, extra |-> x]

LEMMA NoneIsNoRow == None \notin RowSet /\ None \notin Ticks
BY RollupConstants

LEMMA RowsAreRows ==
  ASSUME events \subseteq RowSet, inserted \in [Writers -> RowSet \cup {None}]
  PROVE  Rows \subseteq RowSet /\ events \subseteq Rows
BY DEF Rows

LEMMA InsertWrites ==
  ASSUME RowsInv, NEW w \in Writers, NEW v, NEW kind, NEW s, NEW x,
         Insert(w, Row(v, kind, s, x))
  PROVE  inserted' = [inserted EXCEPT ![w] = Written(v, kind, s, x)]
<1>. DEFINE r == Row(v, kind, s, x)
            a == [r EXCEPT !.id = lastId + 1]
            b == [a EXCEPT !.at = hour]
<1>1. inserted' = [inserted EXCEPT ![w] = b]
  BY DEF Insert
<1>2. a = [id |-> lastId + 1, viewer |-> v, event |-> kind, session |-> s, at |-> 0, extra |-> x]
  BY DEF Row
<1>3. b = Written(v, kind, s, x)
  <2>. HIDE DEF a
  <2>. QED
    BY <1>2 DEF Written
<1>. QED
  BY <1>1, <1>3

\* An insert adds one row, with an id of its own.
LEMMA InsertAddsOne ==
  ASSUME RowsInv, NEW w \in Writers, NEW v \in Viewers,
         NEW kind \in {"login", "logout", "correction"}, NEW s \in Nat, NEW x \in Int,
         Insert(w, Row(v, kind, s, x))
  PROVE  LET n == Written(v, kind, s, x)
         IN /\ n \in RowSet /\ n \notin Rows /\ Rows' = Rows \cup {n}
            /\ inserted' \in [Writers -> RowSet \cup {None}]
            /\ lastId' = lastId + 1 /\ events' = events /\ hour' = hour
            /\ n.id = lastId + 1 /\ n.viewer = v /\ n.event = kind
            /\ n.session = s /\ n.at = hour /\ n.extra = x
<1>. DEFINE n == Written(v, kind, s, x)
<1>1. inserted' = [inserted EXCEPT ![w] = n]
  BY InsertWrites
<1>2. n \in RowSet
  BY DEF Written, RowSet, RowsInv
<1>3. /\ n.id = lastId + 1 /\ n.viewer = v /\ n.event = kind
      /\ n.session = s /\ n.at = hour /\ n.extra = x
  BY DEF Written
<1>4. /\ lastId' = lastId + 1 /\ events' = events /\ hour' = hour
      /\ inserted[w] = None
  BY DEF Insert, database
<1>5. n \notin Rows
  BY <1>3 DEF RowsInv
<1>. HIDE DEF n
<1>6. n # None
  BY <1>2, NoneIsNoRow
<1>7. inserted' \in [Writers -> RowSet \cup {None}]
  BY <1>1, <1>2 DEF RowsInv
<1>8. \A y \in Writers : inserted'[y] = IF y = w THEN n ELSE inserted[y]
  BY <1>1 DEF RowsInv
<1>9. Rows' = Rows \cup {n}
  BY <1>4, <1>6, <1>8 DEF Rows
<1>. QED
  BY <1>2, <1>3, <1>4, <1>5, <1>7, <1>9 DEF n

\* A commit shows a row that was there.
LEMMA CommitShowsOne ==
  ASSUME RowsInv, NEW w \in Writers, CommitRow(w)
  PROVE  /\ Rows' = Rows /\ inserted[w] \in Rows /\ inserted[w] \in RowSet
         /\ events' = events \cup {inserted[w]}
         /\ inserted' \in [Writers -> RowSet \cup {None}]
         /\ UNCHANGED <<lastId, hour, watermark>>
<1>1. /\ inserted[w] # None /\ events' = events \cup {inserted[w]}
      /\ inserted' = [inserted EXCEPT ![w] = None] /\ UNCHANGED <<lastId, hour, watermark>>
  BY DEF CommitRow
<1>2. inserted[w] \in RowSet
  BY <1>1 DEF RowsInv
<1>3. \A y \in Writers : inserted'[y] = IF y = w THEN None ELSE inserted[y]
  BY <1>1 DEF RowsInv
<1>4. Rows' = Rows
  BY <1>1, <1>3 DEF Rows
<1>5. inserted' \in [Writers -> RowSet \cup {None}]
  BY <1>1 DEF RowsInv
<1>6. inserted[w] \in Rows
  BY <1>1 DEF Rows
<1>. QED
  BY <1>1, <1>2, <1>4, <1>5, <1>6

\* The three kinds of row, with what each knows of the rows before it.
LEMMA WritersKeepRows ==
  ASSUME RowsInv, NEW w \in Writers, NEW v \in Viewers,
         NEW kind \in {"login", "logout", "correction"}, NEW s \in Nat, NEW x \in Int,
         Insert(w, Row(v, kind, s, x)),
         kind = "login" => s = lastId + 1,
         kind = "logout" => \E f \in Rows : f.event = "login" /\ f.session = s /\ f.viewer = v
  PROVE  RowsInv'
<1>. DEFINE n == Written(v, kind, s, x)
<1>1. /\ n \in RowSet /\ n \notin Rows /\ Rows' = Rows \cup {n}
      /\ inserted' \in [Writers -> RowSet \cup {None}]
      /\ lastId' = lastId + 1 /\ events' = events /\ hour' = hour
      /\ n.id = lastId + 1 /\ n.viewer = v /\ n.event = kind
      /\ n.session = s /\ n.at = hour /\ n.extra = x
  BY InsertAddsOne
<1>. HIDE DEF n
<1>2. watermark' = watermark
  BY DEF Insert, database
<1>3. IsFiniteSet(Rows')
  BY <1>1, FS_AddElement DEF RowsInv
<1>4. \A e \in Rows' : e.id <= lastId' /\ e.at <= hour'
  <2>1. \A e \in Rows : e.id \in Nat
    BY RowsAreRows DEF RowsInv, RowSet
  <2>. QED
    BY <1>1, <2>1 DEF RowsInv
<1>5. \A e, f \in Rows' : e.id = f.id => e = f
  <2>1. \A e \in Rows : e.id # n.id
    BY <1>1, RowsAreRows DEF RowsInv, RowSet
  <2>. QED
    BY <1>1, <2>1 DEF RowsInv
<1>6. \A e \in Rows' : e.event = "login" /\ e.session # NoSession => e.session = e.id
  BY <1>1 DEF RowsInv
<1>7. \A e \in Rows' : e.event = "logout" /\ e.session # NoSession =>
       \E f \in Rows' : f.event = "login" /\ f.session = e.session /\ f.viewer = e.viewer
  BY <1>1 DEF RowsInv
<1>8. lastId' \in Nat /\ hour' \in Nat /\ watermark' \in Nat /\ events' \subseteq RowSet
  BY <1>1, <1>2 DEF RowsInv
<1>. QED
  BY <1>1, <1>3, <1>4, <1>5, <1>6, <1>7, <1>8 DEF RowsInv

-----------------------------------------------------------------------------
(* The ticks' transactions *)

Shaped(t) == t = [pc |-> t.pc, freeze |-> t.freeze, board |-> t.board,
                  max |-> t.max, rows |-> t.rows, seen |-> t.seen]

LEMMA NoTickIsShaped ==
  Shaped(NoTick) /\ NoTick.pc = "idle" /\ NoTick.rows = None /\ NoTick.board = 0
BY DEF Shaped, NoTick

\* What each statement leaves in the transaction.
LEMMA Advanced ==
  ASSUME NEW t, Shaped(t), NEW pc
  PROVE  [t EXCEPT !.pc = pc] = [pc |-> pc, freeze |-> t.freeze, board |-> t.board,
                                 max |-> t.max, rows |-> t.rows, seen |-> t.seen]
BY DEF Shaped

LEMMA Begun ==
  ASSUME NEW b, NEW f
  PROVE  [NoTick EXCEPT !.pc = "lock", !.board = b, !.freeze = f]
           = [pc |-> "lock", freeze |-> f, board |-> b, max |-> 0, rows |-> None, seen |-> {}]
<1>. DEFINE t == [NoTick EXCEPT !.pc = "lock"]
            u == [t EXCEPT !.board = b]
<1>1. t = [pc |-> "lock", freeze |-> None, board |-> 0, max |-> 0, rows |-> None, seen |-> {}]
  BY DEF NoTick
<1>2. u = [pc |-> "lock", freeze |-> None, board |-> b, max |-> 0, rows |-> None, seen |-> {}]
  <2>. HIDE DEF t
  <2>. QED
    BY <1>1
<1>3. [u EXCEPT !.freeze = f]
        = [pc |-> "lock", freeze |-> f, board |-> b, max |-> 0, rows |-> None, seen |-> {}]
  <2>. HIDE DEF u
  <2>. QED
    BY <1>2
<1>. QED
  BY <1>3

LEMMA MaxIsRead ==
  ASSUME NEW t, Shaped(t), NEW top, NEW pc
  PROVE  [t EXCEPT !.max = top, !.pc = pc]
           = [pc |-> pc, freeze |-> t.freeze, board |-> t.board,
              max |-> top, rows |-> t.rows, seen |-> t.seen]
<1>. DEFINE u == [t EXCEPT !.max = top]
<1>1. u = [pc |-> t.pc, freeze |-> t.freeze, board |-> t.board,
           max |-> top, rows |-> t.rows, seen |-> t.seen]
  BY DEF Shaped
<1>2. [u EXCEPT !.pc = pc] = [pc |-> pc, freeze |-> t.freeze, board |-> t.board,
                              max |-> top, rows |-> t.rows, seen |-> t.seen]
  <2>. HIDE DEF u
  <2>. QED
    BY <1>1
<1>. QED
  BY <1>2

LEMMA IsRecomputed ==
  ASSUME NEW t, Shaped(t), NEW rows, NEW seen
  PROVE  [t EXCEPT !.pc = "commit", !.rows = rows, !.seen = seen]
           = [pc |-> "commit", freeze |-> t.freeze, board |-> t.board,
              max |-> t.max, rows |-> rows, seen |-> seen]
<1>. DEFINE u == [t EXCEPT !.pc = "commit"]
            x == [u EXCEPT !.rows = rows]
<1>1. u = [pc |-> "commit", freeze |-> t.freeze, board |-> t.board,
           max |-> t.max, rows |-> t.rows, seen |-> t.seen]
  BY DEF Shaped
<1>2. x = [pc |-> "commit", freeze |-> t.freeze, board |-> t.board,
           max |-> t.max, rows |-> rows, seen |-> t.seen]
  <2>. HIDE DEF u
  <2>. QED
    BY <1>1
<1>3. [x EXCEPT !.seen = seen]
        = [pc |-> "commit", freeze |-> t.freeze, board |-> t.board,
           max |-> t.max, rows |-> rows, seen |-> seen]
  <2>. HIDE DEF x
  <2>. QED
    BY <1>2
<1>. QED
  BY <1>3

\* A tick that has read the watermark holds its row; what it will write is the
\* totals of the viewers with a row between the watermark and the largest id.
Unread(p) == {e.viewer : e \in {f \in tick[p].seen : watermark < f.id /\ f.id <= tick[p].max}}
Told(p) ==
  /\ Shaped(tick[p])
  /\ tick[p].pc \in {"max", "agg", "commit"} => rowLock = p
  /\ tick[p].pc = "agg" => tick[p].max \in Nat /\ tick[p].max > watermark
  /\ tick[p].rows # None =>
       /\ tick[p].pc = "commit" /\ tick[p].max \in Nat /\ tick[p].max > watermark
       /\ tick[p].seen \subseteq events
       /\ tick[p].rows = [v \in Unread(p) |-> Aggregate(v, tick[p].seen)]

TickInv == DOMAIN tick = Ticks /\ \A p \in Ticks : Told(p)

\* Whatever else happens, more rows may be committed.
LEMMA OthersAreTold ==
  ASSUME TickInv, NEW q \in Ticks, tick'[q] = tick[q], rowLock' = rowLock,
         watermark' = watermark, events \subseteq events'
  PROVE  Told(q)'
<1>1. Told(q)
  BY DEF TickInv
<1>2. Unread(q)' = Unread(q)
  BY DEF Unread
<1>. QED
  BY <1>1, <1>2 DEF Told

\* A tick that does not hold the row has nothing to say about the watermark.
LEMMA WaitersAreTold ==
  ASSUME TickInv, NEW q \in Ticks, tick'[q] = tick[q], rowLock # q
  PROVE  Told(q)'
BY DEF TickInv, Told

LEMMA StepIs ==
  ASSUME DOMAIN tick = Ticks, NEW p \in Ticks, NEW t, Step(p, t)
  PROVE  /\ tick'[p] = t /\ DOMAIN tick' = Ticks
         /\ \A q \in Ticks \ {p} : tick'[q] = tick[q]
BY DEF Step

\* Nothing more is going to be frozen than before.
SameBoards ==
  \A q \in Ticks : \/ tick'[q].board = 0
                   \/ tick'[q].board = tick[q].board /\ tick'[q].freeze = tick[q].freeze

\* The largest id of the committed rows, or zero.
LEMMA TopIsRead ==
  ASSUME RowsInv
  PROVE  Max({e.id : e \in events} \cup {0}) \in Nat
<1>. DEFINE S == {e.id : e \in events} \cup {0}
            T == {lastId - i : i \in S}
<1>1. S \subseteq Nat /\ \A i \in S : i <= lastId
  BY RowsAreRows DEF RowsInv, RowSet
<1>2. T \subseteq Nat /\ T # {} /\ lastId \in Nat
  BY <1>1 DEF RowsInv
<1>3. PICK t \in T : \A u \in T : t <= u
  BY <1>2, SmallestExists
<1>4. PICK i \in S : t = lastId - i
  BY <1>3
<1>5. ASSUME NEW j \in S
      PROVE  i >= j
  <2>1. lastId - j \in T
    OBVIOUS
  <2>2. t <= lastId - j /\ i \in Nat /\ j \in Nat /\ lastId \in Nat
    BY <1>1, <1>2, <1>3, <2>1
  <2>. QED
    BY <1>4, <2>2
<1>. HIDE DEF S
<1>6. \E k \in S : \A j \in S : k >= j
  BY <1>5
<1>7. Max(S) \in S
  BY <1>6 DEF Max
<1>. QED
  BY <1>1, <1>7 DEF S

LEMMA FreezeKeepsTicks ==
  ASSUME RowsInv, TickInv, NEW p \in Ticks, Freeze(p)
  PROVE  /\ TickInv' /\ \A q \in Ticks \ {p} : tick'[q] = tick[q]
         /\ tick'[p].board # 0 => /\ tick'[p].board = PreviousMonth(date)
                                 /\ tick'[p].board \in Months
                                 /\ tick'[p].freeze = scores[tick'[p].board]
<1>. DEFINE board == PreviousMonth(date)
            due == board \in Months /\ frozen[board] = None /\ \E v \in Viewers : scores[board][v] > 0
            b == IF due THEN board ELSE 0
            f == IF due THEN scores[board] ELSE None
<1>1. Step(p, [NoTick EXCEPT !.pc = "lock", !.board = b, !.freeze = f])
      /\ UNCHANGED <<events, watermark, rowLock>>
  BY DEF Freeze, database
<1>0. b # 0 => b = board /\ board \in Months /\ f = scores[b]
  OBVIOUS
<1>. HIDE DEF b, f
<1>2. /\ tick'[p] = [pc |-> "lock", freeze |-> f, board |-> b, max |-> 0, rows |-> None, seen |-> {}]
      /\ DOMAIN tick' = Ticks /\ \A q \in Ticks \ {p} : tick'[q] = tick[q]
  <2>. DEFINE t == [NoTick EXCEPT !.pc = "lock", !.board = b, !.freeze = f]
  <2>1. t = [pc |-> "lock", freeze |-> f, board |-> b, max |-> 0, rows |-> None, seen |-> {}]
    BY Begun
  <2>2. Step(p, t)
    BY <1>1
  <2>. HIDE DEF t
  <2>. QED
    BY <2>1, <2>2, StepIs DEF TickInv
<1>3. Told(p)'
  BY <1>2 DEF Told, Shaped
<1>4. \A q \in Ticks \ {p} : Told(q)'
  BY <1>1, <1>2, OthersAreTold
<1>. QED
  BY <1>0, <1>2, <1>3, <1>4 DEF TickInv

LEMMA LockKeepsTicks ==
  ASSUME RowsInv, TickInv, NEW p \in Ticks, LockWatermark(p)
  PROVE  TickInv' /\ SameBoards
<1>1. /\ tick[p].pc = "lock" /\ rowLock = None /\ rowLock' = p
      /\ Step(p, [tick[p] EXCEPT !.pc = "max"]) /\ UNCHANGED <<events, watermark>>
  BY DEF LockWatermark, At, database
<1>2. Told(p)
  BY DEF TickInv
<1>3. /\ tick'[p] = [pc |-> "max", freeze |-> tick[p].freeze, board |-> tick[p].board,
                     max |-> tick[p].max, rows |-> tick[p].rows, seen |-> tick[p].seen]
      /\ DOMAIN tick' = Ticks /\ \A q \in Ticks \ {p} : tick'[q] = tick[q]
  BY <1>1, <1>2, Advanced, StepIs DEF TickInv, Told
<1>4. tick[p].rows = None
  BY <1>1, <1>2 DEF Told
<1>5. Told(p)'
  BY <1>1, <1>3, <1>4 DEF Told, Shaped
<1>6. \A q \in Ticks : rowLock # q
  BY <1>1, NoneIsNoRow
<1>7. \A q \in Ticks \ {p} : Told(q)'
  BY <1>3, <1>6, WaitersAreTold
<1>. QED
  BY <1>3, <1>5, <1>7 DEF TickInv, SameBoards

LEMMA ReadKeepsTicks ==
  ASSUME RowsInv, TickInv, NEW p \in Ticks, ReadMax(p)
  PROVE  TickInv' /\ SameBoards
<1>. DEFINE top == Max({e.id : e \in events} \cup {0})
            next == IF top <= watermark THEN "commit" ELSE "agg"
<1>1. /\ tick[p].pc = "max" /\ Step(p, [tick[p] EXCEPT !.max = top, !.pc = next])
      /\ UNCHANGED <<events, watermark, rowLock>>
  BY DEF ReadMax, At, database
<1>2. Told(p) /\ top \in Nat /\ watermark \in Nat
  BY TopIsRead DEF TickInv, RowsInv
<1>. HIDE DEF top
<1>3. next \in {"commit", "agg"} /\ (next = "agg" => top > watermark)
  BY <1>2
<1>. HIDE DEF next
<1>4. /\ tick'[p] = [pc |-> next, freeze |-> tick[p].freeze, board |-> tick[p].board,
                     max |-> top, rows |-> tick[p].rows, seen |-> tick[p].seen]
      /\ DOMAIN tick' = Ticks /\ \A q \in Ticks \ {p} : tick'[q] = tick[q]
  <2>. DEFINE t == [tick[p] EXCEPT !.max = top, !.pc = next]
  <2>0. Shaped(tick[p])
    BY <1>2 DEF Told
  <2>1. t = [pc |-> next, freeze |-> tick[p].freeze, board |-> tick[p].board,
             max |-> top, rows |-> tick[p].rows, seen |-> tick[p].seen]
    BY <2>0, MaxIsRead
  <2>2. Step(p, t)
    BY <1>1
  <2>. HIDE DEF t
  <2>. QED
    BY <2>1, <2>2, StepIs DEF TickInv
<1>5. tick[p].rows = None /\ rowLock = p
  BY <1>1, <1>2 DEF Told
<1>6. Told(p)'
  BY <1>1, <1>2, <1>3, <1>4, <1>5 DEF Told, Shaped
<1>7. \A q \in Ticks \ {p} : Told(q)'
  BY <1>1, <1>4, OthersAreTold
<1>. QED
  BY <1>4, <1>6, <1>7 DEF TickInv, SameBoards

LEMMA RecomputeKeepsTicks ==
  ASSUME RowsInv, TickInv, NEW p \in Ticks, Recompute(p)
  PROVE  TickInv' /\ SameBoards
<1>. DEFINE rows == [v \in Dirty(watermark, tick[p].max) |-> Aggregate(v, events)]
<1>1. /\ tick[p].pc = "agg"
      /\ Step(p, [tick[p] EXCEPT !.pc = "commit", !.rows = rows, !.seen = events])
      /\ UNCHANGED <<events, watermark, rowLock>>
  BY DEF Recompute, At, database
<1>2. Told(p)
  BY DEF TickInv
<1>3. rows = [v \in {e.viewer : e \in {f \in events : watermark < f.id /\ f.id <= tick[p].max}}
                |-> Aggregate(v, events)]
  BY DEF Dirty
<1>. HIDE DEF rows
<1>4. /\ tick'[p] = [pc |-> "commit", freeze |-> tick[p].freeze, board |-> tick[p].board,
                     max |-> tick[p].max, rows |-> rows, seen |-> events]
      /\ DOMAIN tick' = Ticks /\ \A q \in Ticks \ {p} : tick'[q] = tick[q]
  <2>. DEFINE t == [tick[p] EXCEPT !.pc = "commit", !.rows = rows, !.seen = events]
  <2>0. Shaped(tick[p])
    BY <1>2 DEF Told
  <2>1. t = [pc |-> "commit", freeze |-> tick[p].freeze, board |-> tick[p].board,
             max |-> tick[p].max, rows |-> rows, seen |-> events]
    BY <2>0, IsRecomputed
  <2>2. Step(p, t)
    BY <1>1
  <2>. HIDE DEF t
  <2>. QED
    BY <2>1, <2>2, StepIs DEF TickInv
<1>5. rowLock = p /\ tick[p].max \in Nat /\ tick[p].max > watermark
  BY <1>1, <1>2 DEF Told
<1>6. Unread(p)' = {e.viewer : e \in {f \in events : watermark < f.id /\ f.id <= tick[p].max}}
  BY <1>1, <1>4 DEF Unread
<1>7. tick'[p].rows = [v \in Unread(p)' |-> Aggregate(v, tick'[p].seen)]
  BY <1>3, <1>4, <1>6
<1>8. Told(p)'
  BY <1>1, <1>4, <1>5, <1>7 DEF Told, Shaped
<1>9. \A q \in Ticks \ {p} : Told(q)'
  BY <1>1, <1>4, OthersAreTold
<1>. QED
  BY <1>4, <1>8, <1>9 DEF TickInv, SameBoards

LEMMA EndKeepsTicks ==
  ASSUME RowsInv, TickInv, NEW p \in Ticks,
         Step(p, NoTick), rowLock' = IF rowLock = p THEN None ELSE rowLock, events' = events,
         watermark' # watermark => rowLock = p
  PROVE  TickInv' /\ SameBoards
<1>1. /\ tick'[p] = NoTick /\ DOMAIN tick' = Ticks
      /\ \A q \in Ticks \ {p} : tick'[q] = tick[q]
  BY StepIs DEF TickInv
<1>2. Told(p)'
  BY <1>1, NoTickIsShaped DEF Told
<1>3. ASSUME NEW q \in Ticks \ {p}
      PROVE  Told(q)'
  <2>1. CASE rowLock = p
    BY <1>1, <2>1, WaitersAreTold
  <2>2. CASE rowLock # p
    BY <1>1, <2>2, OthersAreTold
  <2>. QED
    BY <2>1, <2>2
<1>. QED
  BY <1>1, <1>2, <1>3, NoTickIsShaped DEF TickInv, SameBoards

\* The watermark moves when the tick that holds its row commits, and only up.
LEMMA CommitMovesOn ==
  ASSUME RowsInv, TickInv, NEW p \in Ticks, Commit(p)
  PROVE  /\ TickInv' /\ SameBoards /\ watermark' \in Nat /\ watermark' >= watermark
         /\ tick[p].rows # None => rowLock = p
<1>1. /\ tick[p].pc = "commit" /\ events' = events /\ Step(p, NoTick)
      /\ rowLock' = IF rowLock = p THEN None ELSE rowLock
      /\ watermark' = IF tick[p].rows = None THEN watermark ELSE tick[p].max
  BY DEF Commit, At
<1>2. Told(p)
  BY DEF TickInv
<1>3. tick[p].rows # None => rowLock = p /\ tick[p].max \in Nat /\ tick[p].max > watermark
  BY <1>2 DEF Told
<1>4. watermark' \in Nat /\ watermark' >= watermark /\ (watermark' # watermark => rowLock = p)
  BY <1>1, <1>3 DEF RowsInv
<1>. QED
  BY <1>1, <1>3, <1>4, EndKeepsTicks

LEMMA RollBackKeepsTicks ==
  ASSUME RowsInv, TickInv, NEW p \in Ticks, RollBack(p)
  PROVE  TickInv' /\ SameBoards
<1>1. /\ Step(p, NoTick) /\ rowLock' = IF rowLock = p THEN None ELSE rowLock
      /\ events' = events /\ watermark' = watermark
  BY DEF RollBack, database
<1>. QED
  BY <1>1, EndKeepsTicks

-----------------------------------------------------------------------------
(* The months' boards *)

BoardsInv ==
  /\ date.month \in Months /\ date = [month |-> date.month, day |-> date.day]
  /\ DOMAIN frozen = Months /\ DOMAIN scores = Months
  /\ credit # None => credit.board \in Months /\ credit.board <= date.month
  /\ \A m \in late : m \in Months /\ m < date.month
  /\ \A m \in Months : frozen[m] # None => m < date.month
  /\ \A p \in Ticks : tick[p].board # 0 =>
       /\ tick[p].board \in Months /\ tick[p].board < date.month
       /\ tick[p].board \notin late => tick[p].freeze = scores[tick[p].board]
  /\ FrozenIsFinal

LEMMA MonthsAreNumbers == \A m \in Months : m \in Nat \ {0}
BY RollupConstants

LEMMA SameBoardsStay ==
  ASSUME BoardsInv, SameBoards, UNCHANGED <<date, frozen, scores, credit, late>>
  PROVE  BoardsInv'
BY DEF BoardsInv, SameBoards, FrozenIsFinal

\* Nothing of the ticks or the boards changes when a row is written.
LEMMA UntouchedBoardsStay ==
  ASSUME BoardsInv, UNCHANGED <<date, frozen, scores, credit, late, tick>>
  PROVE  BoardsInv'
BY DEF BoardsInv, FrozenIsFinal

\* What is to be frozen is last month's board as it stands.
LEMMA FreezeKeepsBoards ==
  ASSUME BoardsInv, RowsInv, TickInv, NEW p \in Ticks, Freeze(p)
  PROVE  BoardsInv'
<1>1. UNCHANGED <<date, frozen, scores, credit, late>>
  BY DEF Freeze, Quietly, database, outside
<1>2. /\ \A q \in Ticks \ {p} : tick'[q] = tick[q]
      /\ tick'[p].board # 0 => /\ tick'[p].board = date.month - 1
                              /\ tick'[p].board \in Months
                              /\ tick'[p].freeze = scores[tick'[p].board]
  BY FreezeKeepsTicks DEF PreviousMonth
<1>3. date.month \in Nat
  BY MonthsAreNumbers DEF BoardsInv
<1>4. \A q \in Ticks : tick'[q].board # 0 =>
        /\ tick'[q].board \in Months /\ tick'[q].board < date.month
        /\ tick'[q].board \notin late => tick'[q].freeze = scores[tick'[q].board]
  BY <1>2, <1>3 DEF BoardsInv
<1>. QED
  BY <1>1, <1>4 DEF BoardsInv, FrozenIsFinal

\* A board is frozen once, as it stood when the tick began: only a credit that
\* named it in its month can have changed it since.
LEMMA CommitKeepsBoards ==
  ASSUME BoardsInv, RowsInv, TickInv, NEW p \in Ticks, Commit(p)
  PROVE  /\ BoardsInv'
         /\ \A m \in Months : frozen[m] # None => frozen'[m] = frozen[m]
<1>. DEFINE b == tick[p].board
<1>1. /\ b # 0 => frozen[b] = None
      /\ frozen' = IF b = 0 THEN frozen ELSE [frozen EXCEPT ![b] = tick[p].freeze]
      /\ UNCHANGED <<date, scores, credit, late>>
  BY DEF Commit, Quietly, outside
<1>2. SameBoards
  BY CommitMovesOn
<1>3. CASE b = 0
  BY <1>1, <1>2, <1>3, SameBoardsStay
<1>4. CASE b # 0
  <2>1. /\ b \in Months /\ b < date.month /\ frozen[b] = None
        /\ b \notin late => tick[p].freeze = scores[b]
    BY <1>1, <1>4 DEF BoardsInv
  <2>. HIDE DEF b
  <2>2. DOMAIN frozen' = Months /\ \A m \in Months : frozen'[m] = IF m = b THEN tick[p].freeze ELSE frozen[m]
    BY <1>1, <1>4, <2>1 DEF BoardsInv
  <2>3. \A m \in Months : frozen'[m] # None => m < date.month
    BY <2>1, <2>2 DEF BoardsInv
  <2>4. \A m \in Months : frozen'[m] # None /\ m \notin late => frozen'[m] = scores[m]
    BY <2>1, <2>2 DEF BoardsInv, FrozenIsFinal
  <2>5. \A m \in Months : frozen[m] # None => frozen'[m] = frozen[m]
    BY <2>1, <2>2
  <2>6. \A q \in Ticks : tick'[q].board # 0 =>
       /\ tick'[q].board \in Months /\ tick'[q].board < date.month
       /\ tick'[q].board \notin late => tick'[q].freeze = scores[tick'[q].board]
    BY <1>2 DEF BoardsInv, SameBoards
  <2>7. (/\ date.month \in Months /\ date = [month |-> date.month, day |-> date.day]
         /\ DOMAIN scores = Months
         /\ credit # None => credit.board \in Months /\ credit.board <= date.month
         /\ \A m \in late : m \in Months /\ m < date.month)'
    BY <1>1 DEF BoardsInv
  <2>. QED
    BY <1>1, <2>2, <2>3, <2>4, <2>5, <2>6, <2>7 DEF BoardsInv, FrozenIsFinal
<1>. QED
  BY <1>3, <1>4

\* A credit names this month's board.
LEMMA NamingKeepsBoards ==
  ASSUME BoardsInv, NEW v, NameBoard(v)
  PROVE  BoardsInv'
<1>1. /\ credit' = [board |-> date.month, viewer |-> v]
      /\ UNCHANGED <<date, frozen, scores, late, tick>>
  BY DEF NameBoard, CurrentBoard, database
<1>2. credit'.board = date.month /\ date.month \in Nat
  BY <1>1, MonthsAreNumbers DEF BoardsInv
<1>. QED
  BY <1>1, <1>2 DEF BoardsInv, FrozenIsFinal

\* A credit to another board than this month's makes that one late.
LEMMA CreditKeepsBoards ==
  ASSUME BoardsInv, AddToScoreByName
  PROVE  BoardsInv'
<1>. DEFINE b == credit.board
<1>1. /\ credit # None /\ credit' = None
      /\ scores' = [scores EXCEPT ![b][credit.viewer] = @ + 1]
      /\ late' = IF b # date.month THEN late \cup {b} ELSE late
      /\ UNCHANGED <<date, frozen, tick>>
  BY DEF AddToScoreByName, CurrentBoard
<1>2. b \in Months /\ b <= date.month /\ b \in Nat /\ date.month \in Nat
  BY <1>1, MonthsAreNumbers DEF BoardsInv
<1>. HIDE DEF b
<1>3. DOMAIN scores' = Months /\ \A m \in Months : m # b => scores'[m] = scores[m]
  BY <1>1 DEF BoardsInv
<1>4. late \subseteq late' /\ \A m \in late' : m \in Months /\ m < date.month
  BY <1>1, <1>2 DEF BoardsInv
<1>5. \A m \in Months : m < date.month /\ m \notin late' => scores'[m] = scores[m]
  BY <1>1, <1>2, <1>3
<1>6. \A p \in Ticks : tick[p].board # 0 =>
       /\ tick[p].board \in Months /\ tick[p].board < date.month
       /\ tick[p].board \notin late' => tick[p].freeze = scores'[tick[p].board]
  BY <1>4, <1>5 DEF BoardsInv
<1>7. \A m \in Months : frozen[m] # None /\ m \notin late' => frozen[m] = scores'[m]
  BY <1>4, <1>5 DEF BoardsInv, FrozenIsFinal
<1>. QED
  BY <1>1, <1>3, <1>4, <1>6, <1>7 DEF BoardsInv, FrozenIsFinal

\* Months end in order.
LEMMA DayKeepsBoards ==
  ASSUME BoardsInv, DayPasses
  PROVE  BoardsInv'
<1>1. /\ date' = IF date.day < MonthLength[date.month] THEN [date EXCEPT !.day = @ + 1]
                ELSE [month |-> date.month + 1, day |-> 1]
      /\ date.day < MonthLength[date.month] \/ date.month + 1 \in Months
      /\ UNCHANGED <<frozen, scores, credit, late, tick>>
  BY DEF DayPasses, database
<1>2. /\ date'.month \in Months /\ date'.month \in Nat /\ date.month \in Nat
      /\ date'.month >= date.month
      /\ date' = [month |-> date'.month, day |-> date'.day]
  BY <1>1, MonthsAreNumbers DEF BoardsInv
<1>3. \A m \in Months : m < date.month => m < date'.month
  BY <1>2, MonthsAreNumbers
<1>4. credit # None => credit.board \in Months /\ credit.board <= date'.month
  BY <1>2, MonthsAreNumbers DEF BoardsInv
<1>. QED
  BY <1>1, <1>2, <1>3, <1>4 DEF BoardsInv, FrozenIsFinal

-----------------------------------------------------------------------------
(* The totals *)

TotalsInv ==
  /\ DOMAIN truth = Viewers
  /\ \A v \in Viewers : truth[v] = Aggregate(v, Rows)
  /\ RollupIsCurrent

LEMMA SameTotalsStay ==
  ASSUME TotalsInv, UNCHANGED <<events, inserted, watermark, rollup, skipped, truth>>
  PROVE  TotalsInv'
<1>1. Rows' = Rows
  BY DEF Rows
<1>. QED
  BY <1>1 DEF TotalsInv, RollupIsCurrent

\* A row that is on its way leaves its viewer behind until it is read; nobody
\* else's totals know of it.
LEMMA RowKeepsTotals ==
  ASSUME TotalsInv, RowsInv, NEW w \in Writers, NEW v \in Viewers,
         NEW kind \in {"login", "logout", "correction"}, NEW s \in Nat, NEW x \in Int,
         Insert(w, Row(v, kind, s, x)),
         truth' = [truth EXCEPT ![v] = Aggregate(v, Rows \cup {Written(v, kind, s, x)})]
  PROVE  TotalsInv'
<1>. DEFINE n == Written(v, kind, s, x)
<1>1. /\ n \notin Rows /\ Rows' = Rows \cup {n} /\ events' = events /\ n.viewer = v
      /\ UNCHANGED <<watermark, rollup, skipped>>
  <2>1. UNCHANGED <<watermark, rollup, skipped>>
    BY DEF Insert, database
  <2>. QED
    BY <2>1, InsertAddsOne
<1>2. events \subseteq Rows
  BY DEF Rows
<1>. HIDE DEF n
<1>3. ASSUME NEW u \in Viewers
      PROVE  truth'[u] = Aggregate(u, Rows')
  <2>1. CASE u = v
    BY <1>1, <2>1 DEF TotalsInv, n
  <2>2. CASE u # v
    <3>1. His(u, Rows') = His(u, Rows)
      BY <1>1, <2>2 DEF His
    <3>2. Aggregate(u, Rows') = Aggregate(u, Rows)
      BY <3>1, AggregateIsHis
    <3>. QED
      BY <2>2, <3>2 DEF TotalsInv
  <2>. QED
    BY <2>1, <2>2
<1>4. ASSUME NEW u \in Viewers, u \notin skipped,
             \A e \in Rows' : e.viewer = u => e \in events /\ e.id <= watermark
      PROVE  rollup[u] = truth'[u]
  <2>1. u # v
    BY <1>1, <1>2, <1>4
  <2>2. \A e \in Rows : e.viewer = u => e \in events /\ e.id <= watermark
    BY <1>1, <1>4
  <2>3. rollup[u] = truth[u]
    BY <1>4, <2>2 DEF TotalsInv, RollupIsCurrent
  <2>. QED
    BY <2>1, <2>3 DEF TotalsInv
<1>5. RollupIsCurrent'
  BY <1>1, <1>4 DEF RollupIsCurrent
<1>6. DOMAIN truth' = Viewers
  BY DEF TotalsInv
<1>. QED
  BY <1>3, <1>5, <1>6 DEF TotalsInv

LEMMA LoginKeeps ==
  ASSUME TotalsInv, RowsInv, NEW w \in Writers, NEW v \in Viewers, Login(w, v)
  PROVE  TotalsInv' /\ RowsInv'
<1>. DEFINE s == lastId + 1
            n == Written(v, "login", s, 0)
<1>1. Insert(w, Row(v, "login", s, 0)) /\ truth' = [truth EXCEPT ![v].sessions = @ + 1]
  BY DEF Login
<1>2. s \in Nat /\ 0 \in Int /\ s # NoSession
  BY DEF RowsInv, NoSession
<1>3. /\ n \in RowSet /\ n \notin Rows /\ n.viewer = v /\ n.event = "login" /\ n.session = s
  BY <1>1, <1>2, InsertAddsOne
<1>4. \A e \in Rows : e.event = "logout" => e.session # s
  <2>1. SUFFICES ASSUME NEW e \in Rows, e.event = "logout", e.session = s PROVE FALSE
    OBVIOUS
  <2>2. PICK f \in Rows : f.event = "login" /\ f.session = s
    BY <1>2, <2>1 DEF RowsInv
  <2>3. f.id = s /\ f.id <= lastId /\ lastId \in Nat
    BY <1>2, <2>2 DEF RowsInv
  <2>. QED
    BY <2>3
<1>5. Rows \subseteq RowSet /\ IsFiniteSet(Rows)
  BY RowsAreRows DEF RowsInv
<1>. HIDE DEF n
<1>6. Aggregate(v, Rows \cup {n}) = [Aggregate(v, Rows) EXCEPT !.sessions = @ + 1]
  BY <1>2, <1>3, <1>4, <1>5, LoginCounts
<1>7. truth' = [truth EXCEPT ![v] = Aggregate(v, Rows \cup {n})]
  BY <1>1, <1>6 DEF TotalsInv
<1>8. TotalsInv'
  BY <1>1, <1>2, <1>7, RowKeepsTotals DEF n
<1>9. RowsInv'
  BY <1>1, <1>2, WritersKeepRows
<1>. QED
  BY <1>8, <1>9

LEMMA CorrectionKeeps ==
  ASSUME TotalsInv, RowsInv, NEW w \in Writers, NEW v \in Viewers, NEW x \in Int, Correction(w, v, x)
  PROVE  TotalsInv' /\ RowsInv'
<1>. DEFINE n == Written(v, "correction", NoSession, x)
<1>1. Insert(w, Row(v, "correction", NoSession, x)) /\ truth' = [truth EXCEPT ![v].extra = @ + x]
  BY DEF Correction
<1>2. NoSession \in Nat
  BY DEF NoSession
<1>3. /\ n \in RowSet /\ n \notin Rows /\ n.viewer = v /\ n.event = "correction" /\ n.extra = x
  BY <1>1, <1>2, InsertAddsOne
<1>5. Rows \subseteq RowSet /\ IsFiniteSet(Rows)
  BY RowsAreRows DEF RowsInv
<1>. HIDE DEF n
<1>6. Aggregate(v, Rows \cup {n}) = [Aggregate(v, Rows) EXCEPT !.extra = @ + x]
  BY <1>3, <1>5, CorrectionCounts
<1>7. truth' = [truth EXCEPT ![v] = Aggregate(v, Rows \cup {n})]
  BY <1>1, <1>6 DEF TotalsInv
<1>8. TotalsInv'
  BY <1>1, <1>2, <1>7, RowKeepsTotals DEF n
<1>9. RowsInv'
  BY <1>1, <1>2, WritersKeepRows
<1>. QED
  BY <1>8, <1>9

LEMMA LogoutKeeps ==
  ASSUME TotalsInv, RowsInv, NEW w \in Writers, NEW e \in events, NEW x \in Int, Logout(w, e, x)
  PROVE  TotalsInv' /\ RowsInv'
<1>. DEFINE v == e.viewer
            s == e.session
            n == Written(v, "logout", s, x)
            first == ~ \E f \in Rows : f.event = "logout" /\ f.session = s
            long == hour - e.at >= MaxSession
<1>1. /\ e.event = "login" /\ s # NoSession /\ Insert(w, Row(v, "logout", s, x))
      /\ truth' = [truth EXCEPT ![v] =
           [miles    |-> IF first /\ ~ long THEN truth[v].miles + (hour - e.at) ELSE truth[v].miles,
            sessions |-> truth[v].sessions,
            extra    |-> truth[v].extra + x]]
  BY DEF Logout
<1>2. Rows \subseteq RowSet /\ IsFiniteSet(Rows) /\ e \in Rows
  BY RowsAreRows DEF RowsInv
<1>3. v \in Viewers /\ s \in Nat
  BY <1>2 DEF RowSet
<1>4. /\ n \in RowSet /\ n \notin Rows /\ n.viewer = v /\ n.event = "logout"
      /\ n.session = s /\ n.at = hour /\ n.extra = x
  BY <1>1, <1>3, InsertAddsOne
<1>5. \A f \in Rows : f.event = "login" /\ f.session = s => f = e
  BY <1>1, <1>2 DEF RowsInv
<1>6. \A f \in Rows : f.event = "logout" /\ f.session = s => f.viewer = v
  BY <1>1, <1>5 DEF RowsInv
<1>7. \A f \in Rows : f.at <= hour
  BY DEF RowsInv
<1>. HIDE DEF n
<1>8. Aggregate(v, Rows \cup {n})
        = [miles    |-> IF first /\ ~ long THEN Aggregate(v, Rows).miles + (hour - e.at)
                        ELSE Aggregate(v, Rows).miles,
           sessions |-> Aggregate(v, Rows).sessions,
           extra    |-> Aggregate(v, Rows).extra + x]
  BY <1>1, <1>2, <1>4, <1>5, <1>6, <1>7, LogoutCounts
<1>9. truth' = [truth EXCEPT ![v] = Aggregate(v, Rows \cup {n})]
  BY <1>1, <1>3, <1>8 DEF TotalsInv
<1>10. TotalsInv'
  BY <1>1, <1>3, <1>9, RowKeepsTotals DEF n
<1>11. RowsInv'
  <2>1. \E f \in Rows : f.event = "login" /\ f.session = s /\ f.viewer = v
    BY <1>1, <1>2
  <2>. QED
    BY <1>1, <1>3, <2>1, WritersKeepRows
<1>. QED
  BY <1>10, <1>11

\* A row that the watermark has passed makes its viewer one of the skipped;
\* one that it has yet to reach leaves them behind.
LEMMA CommitRowKeeps ==
  ASSUME TotalsInv, RowsInv, NEW w \in Writers, CommitRow(w)
  PROVE  TotalsInv' /\ RowsInv'
<1>. DEFINE r == inserted[w]
<1>1. /\ Rows' = Rows /\ r \in Rows /\ r \in RowSet /\ events' = events \cup {r}
      /\ inserted' \in [Writers -> RowSet \cup {None}]
      /\ UNCHANGED <<lastId, hour, watermark>>
  BY CommitShowsOne
<1>2. /\ skipped' = IF r.id <= watermark THEN skipped \cup {r.viewer} ELSE skipped
      /\ UNCHANGED <<rollup, truth>>
  BY DEF CommitRow
<1>. HIDE DEF r
<1>3. RowsInv'
  BY <1>1 DEF RowsInv
<1>4. ASSUME NEW u \in Viewers, u \notin skipped',
             \A e \in Rows : e.viewer = u => e \in events' /\ e.id <= watermark
      PROVE  rollup[u] = truth[u]
  <2>1. u # r.viewer
    BY <1>1, <1>2, <1>4
  <2>2. \A e \in Rows : e.viewer = u => e \in events /\ e.id <= watermark
    BY <1>1, <1>4, <2>1
  <2>. QED
    BY <1>2, <1>4, <2>2 DEF TotalsInv, RollupIsCurrent
<1>5. RollupIsCurrent'
  BY <1>1, <1>2, <1>4 DEF RollupIsCurrent
<1>. QED
  BY <1>1, <1>2, <1>3, <1>5 DEF TotalsInv

\* The totals a tick lands are those of every row up to its watermark, unless
\* one of them was committed since it looked.
LEMMA CommitKeepsTotals ==
  ASSUME TotalsInv, RowsInv, TickInv, NEW p \in Ticks, Commit(p)
  PROVE  TotalsInv' /\ RowsInv'
<1>. DEFINE t == tick[p]
<1>1. /\ UNCHANGED <<events, inserted, lastId, hour, truth>>
      /\ t.rows = None => UNCHANGED <<watermark, rollup, skipped>>
      /\ t.rows # None =>
           /\ watermark' = t.max
           /\ rollup' = [v \in Viewers |-> IF v \in DOMAIN t.rows THEN t.rows[v] ELSE rollup[v]]
           /\ skipped' = (skipped \ DOMAIN t.rows)
                           \cup {e.viewer : e \in {f \in events \ t.seen : f.id <= t.max}}
  BY DEF Commit, Quietly, outside
<1>2. Rows' = Rows
  BY <1>1 DEF Rows
<1>3. RowsInv'
  BY <1>1, <1>2, CommitMovesOn DEF RowsInv
<1>4. CASE t.rows = None
  BY <1>1, <1>3, <1>4, SameTotalsStay
<1>5. CASE t.rows # None
  <2>1. /\ t.seen \subseteq events /\ t.max \in Nat
        /\ t.rows = [v \in Unread(p) |-> Aggregate(v, t.seen)]
    BY <1>5 DEF TickInv, Told
  <2>2. ASSUME NEW u \in Viewers, u \notin skipped',
               \A e \in Rows : e.viewer = u => e \in events /\ e.id <= t.max
        PROVE  rollup'[u] = truth[u]
    <3>1. \A e \in events : e.viewer = u /\ e.id <= t.max => e \in t.seen
      BY <1>1, <1>5, <2>2
    <3>2. His(u, t.seen) = His(u, Rows)
      <4>1. events \subseteq Rows
        BY DEF Rows
      <4>. QED
        BY <2>1, <2>2, <3>1, <4>1 DEF His
    <3>3. Aggregate(u, t.seen) = truth[u]
      BY <3>2, AggregateIsHis DEF TotalsInv
    <3>4. CASE u \in Unread(p)
      BY <1>1, <1>5, <2>1, <3>3, <3>4
    <3>5. CASE u \notin Unread(p)
      <4>1. u \notin skipped
        BY <1>1, <1>5, <2>1, <2>2, <3>5
      <4>2. \A e \in Rows : e.viewer = u => e \in events /\ e.id <= watermark
        <5>1. ASSUME NEW e \in Rows, e.viewer = u
              PROVE  e \in events /\ e.id <= watermark
          <6>1. e \in events /\ e \in t.seen /\ e.id <= t.max
            BY <2>2, <3>1, <5>1
          <6>2. ~ (watermark < e.id)
            BY <3>5, <5>1, <6>1 DEF Unread
          <6>3. e.id \in Nat /\ watermark \in Nat
            BY <5>1, RowsAreRows DEF RowsInv, RowSet
          <6>. QED
            BY <6>1, <6>2, <6>3
        <5>. QED
          BY <5>1
      <4>3. rollup[u] = truth[u]
        BY <4>1, <4>2 DEF TotalsInv, RollupIsCurrent
      <4>. QED
        BY <1>1, <1>5, <2>1, <3>5, <4>3
    <3>. QED
      BY <3>4, <3>5
  <2>3. RollupIsCurrent'
    BY <1>1, <1>2, <1>5, <2>2 DEF RollupIsCurrent
  <2>. QED
    BY <1>1, <1>2, <1>3, <2>3 DEF TotalsInv
<1>. QED
  BY <1>4, <1>5

-----------------------------------------------------------------------------
(* The inductive invariant *)

IInv == RowsInv /\ TickInv /\ BoardsInv /\ TotalsInv

\* An empty database, or the veteran's two rows: one hour.
LEMMA VeteranCounts ==
  ASSUME Init
  PROVE  TotalsInv /\ RowsInv
<1>1. /\ inserted = [w \in Writers |-> None] /\ lastId = 2 /\ hour = 1 /\ watermark = 0
      /\ rollup = [v \in Viewers |-> Zero]
      /\ events = IF Veteran = None THEN {} ELSE LegacyRows
      /\ truth = [v \in Viewers |->
           IF v = Veteran THEN [Zero EXCEPT !.miles = 1, !.sessions = 1] ELSE Zero]
  BY DEF Init
<1>2. Rows = events
  BY <1>1 DEF Rows
<1>. DEFINE l == [id |-> 1, viewer |-> Veteran, event |-> "login", session |-> 0, at |-> 0, extra |-> 0]
            o == [id |-> 2, viewer |-> Veteran, event |-> "logout", session |-> 0, at |-> 1, extra |-> 0]
<1>3. LegacyRows = {l, o}
  <2>. DEFINE a == [Row(Veteran, "logout", NoSession, 0) EXCEPT !.id = 2]
              b == [a EXCEPT !.at = 1]
  <2>1. [Row(Veteran, "login", NoSession, 0) EXCEPT !.id = 1] = l
    BY DEF Row, NoSession
  <2>2. a = [id |-> 2, viewer |-> Veteran, event |-> "logout", session |-> 0, at |-> 0, extra |-> 0]
    BY DEF Row, NoSession
  <2>3. b = o
    <3>. HIDE DEF a
    <3>. QED
      BY <2>2
  <2>. QED
    BY <2>1, <2>3 DEF LegacyRows
<1>4. Veteran # None => Veteran \in Viewers
  BY RollupConstants
<1>5. IsFiniteSet(events)
  <2>1. IsFiniteSet({l} \cup {o}) /\ IsFiniteSet({})
    <3>. HIDE DEF l, o
    <3>. QED
      BY FS_EmptySet, FS_Singleton, FS_AddElement
  <2>2. events = {} \/ events = {l} \cup {o}
    BY <1>1, <1>3
  <2>. HIDE DEF l, o
  <2>. QED
    BY <2>1, <2>2
<1>6. Veteran # None => l \in RowSet /\ o \in RowSet
  BY <1>4 DEF RowSet
<1>7. RowsInv
  <2>1. events \subseteq RowSet
    BY <1>1, <1>3, <1>6
  <2>2. inserted \in [Writers -> RowSet \cup {None}]
    BY <1>1
  <2>3. \A e \in Rows : e.id <= 2 /\ e.at <= 1 /\ e.session = 0
    BY <1>1, <1>2, <1>3
  <2>4. \A e, f \in Rows : e.id = f.id => e = f
    BY <1>1, <1>2, <1>3
  <2>. QED
    BY <1>1, <1>2, <1>5, <2>1, <2>2, <2>3, <2>4 DEF RowsInv, NoSession
<1>8. ASSUME NEW v \in Viewers, His(v, events) = {}
      PROVE  Aggregate(v, events) = Zero
  <2>1. Aggregate(v, events) = Aggregate(v, {})
    BY <1>8, AggregateIsHis DEF His
  <2>2. \A kind : Of(v, kind, {}) = {}
    BY DEF Of
  <2>3. Keyed(v, {}) = {}
    BY KeyedIs DEF Named
  <2>4. Legacy(v, {}) = {}
    BY <2>2, LegacyIs DEF Old, InOrder
  <2>5. Hours({}) = 0 /\ Given({}) = 0
    <3>1. Counted({}) = {}
      BY DEF Counted
    <3>. QED
      BY <3>1, FS_EmptySet, LengthsAddUp, ExtrasAddUp, SumOfNothing DEF Hours, Given
  <2>6. Pairs(v, {}) = {} /\ Extras(v, {}) = {} /\ Cardinality(Of(v, "login", {})) = 0
    BY <2>2, <2>3, <2>4, FS_EmptySet DEF Pairs, Extras
  <2>. QED
    BY <2>1, <2>5, <2>6, AggregateIs DEF Zero
<1>9. ASSUME Veteran # None
      PROVE  Aggregate(Veteran, events) = [miles |-> 1, sessions |-> 1, extra |-> 0]
  <2>. DEFINE v == Veteran
  <2>0. events = {l, o} /\ l # o
    BY <1>1, <1>3, <1>9
  <2>1. Of(v, "login", events) = {l} /\ Of(v, "logout", events) = {o} /\ Of(v, "correction", events) = {}
    BY <2>0 DEF Of
  <2>2. Keyed(v, events) = {}
    <3>1. Named(v, events) = {}
      BY <2>0 DEF Named, NoSession
    <3>. QED
      BY <3>1, KeyedIs
  <2>3. Legacy(v, events) = {<<-1, 0, 1>>}
    <3>1. Old(v, "login", events) = {l} /\ Old(v, "logout", events) = {o}
      BY <2>1 DEF Old, NoSession
    <3>2. Rank(l, {l}) = 1 /\ Rank(o, {o}) = 1
      <4>1. {f \in {l} : f.at < l.at \/ (f.at = l.at /\ f.id <= l.id)} = {l}
        OBVIOUS
      <4>2. {f \in {o} : f.at < o.at \/ (f.at = o.at /\ f.id <= o.id)} = {o}
        OBVIOUS
      <4>. HIDE DEF l, o
      <4>. QED
        BY <4>1, <4>2, FS_Singleton DEF Rank
    <3>3. InOrder({l}, {o}) = {<<-l.id, l.at, o.at>>}
      <4>. HIDE DEF l, o
      <4>1. {q \in {l} \X {o} : Rank(q[1], {l}) = Rank(q[2], {o})} = {<<l, o>>}
        BY <3>2
      <4>. QED
        BY <4>1 DEF InOrder
    <3>. QED
      BY <3>1, <3>3, LegacyIs
  <2>4. Pairs(v, events) = {} \cup {<<-1, 0, 1>>}
    BY <2>2, <2>3 DEF Pairs
  <2>5. Hours(Pairs(v, events)) = 1
    <3>1. Hours({}) = 0
      <4>1. Counted({}) = {}
        BY DEF Counted
      <4>. QED
        BY <4>1, FS_EmptySet, LengthsAddUp, SumOfNothing DEF Hours
    <3>2. Hours({} \cup {<<-1, 0, 1>>}) = IF 1 - 0 >= MaxSession THEN Hours({}) ELSE Hours({}) + (1 - 0)
      BY AloneCounts
    <3>. QED
      BY <2>4, <3>1, <3>2, RollupConstants
  <2>6. Given(Extras(v, events)) = 0
    <3>1. Extras(v, events) = {} \cup {o}
      BY <2>1 DEF Extras
    <3>2. Given({}) = 0
      BY FS_EmptySet, ExtrasAddUp, SumOfNothing DEF Given
    <3>3. Given({} \cup {o}) = Given({}) + o.extra
      <4>. HIDE DEF o
      <4>. QED
        BY <1>6, <1>9, GivenGrows, FS_EmptySet
    <3>. QED
      BY <3>1, <3>2, <3>3
  <2>7. Cardinality(Of(v, "login", events)) = 1
    BY <2>1, FS_Singleton
  <2>. QED
    BY <2>5, <2>6, <2>7, AggregateIs
<1>10. ASSUME NEW v \in Viewers
       PROVE  truth[v] = Aggregate(v, events)
  <2>1. CASE v = Veteran
    <3>1. v # None
      BY RollupConstants
    <3>2. truth[v] = [miles |-> 1, sessions |-> 1, extra |-> 0]
      <4>. DEFINE z == [Zero EXCEPT !.miles = 1]
                  y == [z EXCEPT !.sessions = 1]
      <4>1. truth[v] = y
        BY <1>1, <2>1
      <4>2. z = [miles |-> 1, sessions |-> 0, extra |-> 0]
        BY DEF Zero
      <4>3. y = [miles |-> 1, sessions |-> 1, extra |-> 0]
        <5>. HIDE DEF z
        <5>. QED
          BY <4>2
      <4>. QED
        BY <4>1, <4>3
    <3>. QED
      BY <1>9, <2>1, <3>1, <3>2
  <2>2. CASE v # Veteran
    <3>1. His(v, events) = {}
      BY <1>1, <1>3, <2>2 DEF His
    <3>. QED
      BY <1>1, <1>8, <2>2, <3>1
  <2>. QED
    BY <2>1, <2>2
<1>11. RollupIsCurrent
  <2>1. SUFFICES ASSUME NEW v \in Viewers, \A e \in Rows : e.viewer = v => e.id <= 0
                 PROVE  rollup[v] = truth[v]
    BY <1>1 DEF RollupIsCurrent
  <2>2. His(v, events) = {}
    BY <1>1, <1>2, <1>3, <2>1 DEF His
  <2>. QED
    BY <1>1, <1>8, <1>10, <2>2
<1>. QED
  BY <1>1, <1>2, <1>7, <1>10, <1>11 DEF TotalsInv

LEMMA InitIsFine == Init => IInv
<1>1. SUFFICES ASSUME Init PROVE IInv
  OBVIOUS
<1>2. tick = [p \in Ticks |-> NoTick]
  BY <1>1 DEF Init
<1>3. TickInv
  BY <1>2, NoTickIsShaped DEF TickInv, Told
<1>4. /\ date = [month |-> 1, day |-> 1] /\ credit = None /\ late = {}
      /\ scores = [m \in Months |-> [v \in Viewers |-> 0]] /\ frozen = [m \in Months |-> None]
  BY <1>1 DEF Init
<1>5. BoardsInv
  BY <1>2, <1>4, NoTickIsShaped, RollupConstants DEF BoardsInv, FrozenIsFinal
<1>. QED
  BY <1>1, <1>3, <1>5, VeteranCounts DEF IInv

\* A tick's statement before the last.
LEMMA StatementKeeps ==
  ASSUME IInv, NEW p \in Ticks,
         LockWatermark(p) \/ ReadMax(p) \/ Recompute(p) \/ RollBack(p) \/ Freeze(p)
  PROVE  /\ IInv'
         /\ UNCHANGED <<watermark, frozen>>
<1>0. RowsInv /\ TickInv /\ BoardsInv /\ TotalsInv
  BY DEF IInv
<1>1. /\ UNCHANGED <<events, inserted, lastId, hour, watermark, rollup, skipped, truth>>
      /\ UNCHANGED <<date, frozen, scores, credit, late>>
  BY DEF LockWatermark, ReadMax, Recompute, RollBack, Freeze, Quietly, database, outside
<1>2. RowsInv'
  <2>1. Rows' = Rows
    BY <1>1 DEF Rows
  <2>. QED
    BY <1>0, <1>1, <2>1 DEF RowsInv
<1>3. TotalsInv'
  BY <1>0, <1>1, SameTotalsStay
<1>4. TickInv' /\ BoardsInv'
  <2>1. CASE Freeze(p)
    BY <1>0, <2>1, FreezeKeepsTicks, FreezeKeepsBoards
  <2>2. CASE ~ Freeze(p)
    <3>1. TickInv' /\ SameBoards
      BY <1>0, <2>2, LockKeepsTicks, ReadKeepsTicks, RecomputeKeepsTicks, RollBackKeepsTicks
    <3>. QED
      BY <1>0, <1>1, <3>1, SameBoardsStay
  <2>. QED
    BY <2>1, <2>2
<1>. QED
  BY <1>1, <1>2, <1>3, <1>4 DEF IInv

LEMMA TicksKeep ==
  ASSUME IInv, NEW p \in Ticks, Tick(p)
  PROVE  /\ IInv' /\ watermark' >= watermark
         /\ \A m \in Months : frozen[m] # None => frozen'[m] = frozen[m]
<1>0. RowsInv /\ TickInv /\ BoardsInv /\ TotalsInv
  BY DEF IInv
<1>1. CASE Commit(p)
  BY <1>0, <1>1, CommitMovesOn, CommitKeepsBoards, CommitKeepsTotals DEF IInv
<1>2. CASE ~ Commit(p)
  <2>1. LockWatermark(p) \/ ReadMax(p) \/ Recompute(p) \/ RollBack(p) \/ Freeze(p)
    BY <1>2 DEF Tick
  <2>2. IInv' /\ UNCHANGED <<watermark, frozen>>
    BY <2>1, StatementKeeps
  <2>3. watermark \in Nat
    BY <1>0 DEF RowsInv
  <2>. QED
    BY <2>2, <2>3
<1>. QED
  BY <1>1, <1>2

\* Rows come from the writers alone.
LEMMA WritersKeep ==
  ASSUME IInv, Write
  PROVE  IInv' /\ UNCHANGED <<watermark, frozen>>
<1>0. RowsInv /\ TickInv /\ BoardsInv /\ TotalsInv
  BY DEF IInv
<1>1. PICK w \in Writers :
        \/ \E v \in Viewers : Login(w, v) \/ Correction(w, v, -1)
        \/ \E e \in events : Logout(w, e, 1)
        \/ CommitRow(w)
  BY DEF Write
<1>2. /\ UNCHANGED <<watermark, date, frozen, scores, credit, late, tick, rowLock>>
      /\ events \subseteq events'
  <2>1. CASE CommitRow(w)
    BY <2>1 DEF CommitRow
  <2>2. ASSUME NEW row, Insert(w, row)
        PROVE  UNCHANGED <<events, watermark, date, frozen, scores, credit, late, tick, rowLock>>
    BY <2>2 DEF Insert, database
  <2>. QED
    BY <1>1, <2>1, <2>2 DEF Login, Logout, Correction
<1>3. TotalsInv' /\ RowsInv'
  <2>1. -1 \in Int /\ 1 \in Int
    OBVIOUS
  <2>. QED
    BY <1>0, <1>1, <2>1, LoginKeeps, CorrectionKeeps, LogoutKeeps, CommitRowKeeps
<1>4. TickInv'
  <2>1. \A p \in Ticks : Told(p)'
    BY <1>0, <1>2, OthersAreTold
  <2>. QED
    BY <1>0, <1>2, <2>1 DEF TickInv
<1>5. BoardsInv'
  BY <1>0, <1>2, UntouchedBoardsStay
<1>. QED
  BY <1>2, <1>3, <1>4, <1>5 DEF IInv

\* Credits and the clock leave rows, ticks and totals alone.
LEMMA OutsideKeeps ==
  ASSUME IInv, (\E v \in Viewers : NameBoard(v)) \/ AddToScoreByName \/ HourPasses \/ DayPasses
  PROVE  IInv' /\ UNCHANGED <<watermark, frozen>>
<1>0. RowsInv /\ TickInv /\ BoardsInv /\ TotalsInv
  BY DEF IInv
<1>1. /\ UNCHANGED <<events, inserted, lastId, watermark, frozen, rollup, skipped, truth, tick, rowLock>>
      /\ hour' = hour \/ hour' = hour + 1
  BY DEF NameBoard, AddToScoreByName, HourPasses, DayPasses, database
<1>2. RowsInv'
  <2>1. Rows' = Rows
    BY <1>1 DEF Rows
  <2>2. hour' \in Nat /\ hour' >= hour
    BY <1>0, <1>1 DEF RowsInv
  <2>3. \A e \in Rows : e.at \in Nat
    BY <1>0, RowsAreRows DEF RowsInv, RowSet
  <2>4. \A e \in Rows : e.id <= lastId /\ e.at <= hour'
    BY <1>0, <2>2, <2>3 DEF RowsInv
  <2>. QED
    BY <1>0, <1>1, <2>1, <2>2, <2>4 DEF RowsInv
<1>3. TickInv'
  <2>1. \A p \in Ticks : Told(p)'
    BY <1>0, <1>1, OthersAreTold
  <2>. QED
    BY <1>0, <1>1, <2>1 DEF TickInv
<1>4. TotalsInv'
  BY <1>0, <1>1, SameTotalsStay
<1>5. BoardsInv'
  <2>1. CASE \E v \in Viewers : NameBoard(v)
    BY <1>0, <2>1, NamingKeepsBoards
  <2>2. CASE AddToScoreByName
    BY <1>0, <2>2, CreditKeepsBoards
  <2>3. CASE HourPasses
    BY <1>0, <2>3, UntouchedBoardsStay DEF HourPasses, database
  <2>4. CASE DayPasses
    BY <1>0, <2>4, DayKeepsBoards
  <2>. QED
    BY <2>1, <2>2, <2>3, <2>4
<1>. QED
  BY <1>1, <1>2, <1>3, <1>4, <1>5 DEF IInv

LEMMA NextKeeps ==
  ASSUME IInv, [Next]_vars
  PROVE  /\ IInv' /\ watermark' >= watermark
         /\ \A m \in Months : frozen[m] # None => frozen'[m] = frozen[m]
<1>0. watermark \in Nat
  BY DEF IInv, RowsInv
<1>1. CASE \E p \in Ticks : Tick(p)
  BY <1>1, TicksKeep
<1>2. CASE Write
  BY <1>0, <1>2, WritersKeep
<1>3. CASE (\E v \in Viewers : NameBoard(v)) \/ AddToScoreByName \/ HourPasses \/ DayPasses
  BY <1>0, <1>3, OutsideKeeps
<1>4. CASE UNCHANGED vars
  <2>1. /\ UNCHANGED <<events, inserted, lastId, hour, watermark, rollup, skipped, truth, tick, rowLock>>
        /\ UNCHANGED <<date, frozen, scores, credit, late>>
    BY <1>4 DEF vars, database, outside
  <2>2. RowsInv'
    <3>1. Rows' = Rows
      BY <2>1 DEF Rows
    <3>. QED
      BY <2>1, <3>1 DEF RowsInv, IInv
  <2>3. TickInv'
    <3>1. TickInv
      BY DEF IInv
    <3>2. \A p \in Ticks : Told(p)'
      BY <2>1, <3>1, OthersAreTold
    <3>. QED
      BY <2>1, <3>1, <3>2 DEF TickInv
  <2>4. TotalsInv' /\ BoardsInv'
    BY <2>1, SameTotalsStay, UntouchedBoardsStay DEF IInv
  <2>. QED
    BY <1>0, <2>1, <2>2, <2>3, <2>4 DEF IInv
<1>. QED
  BY <1>1, <1>2, <1>3, <1>4 DEF Next

LEMMA RollupsInvariant == Spec => []IInv
BY InitIsFine, NextKeeps, PTL DEF Spec

\* Whatever crashes, overlaps or is logged out twice, the totals of a viewer
\* whose rows the watermark has passed are what they really did, and a frozen
\* month is its final board (reconcileSQL, snapshotSQL).
THEOREM RollupsAlwaysAgree == Spec => []RollupsAgree
<1>1. IInv => RollupsAgree
  BY DEF IInv, TotalsInv, BoardsInv, RollupsAgree
<1>. QED
  BY <1>1, RollupsInvariant, PTL

\* A month is frozen once, and the watermark never falls back, whatever two
\* overlapping ticks do (Reconcile).
THEOREM WritesAlwaysStand == Spec => WritesStand
<1>1. IInv /\ [Next]_vars =>
        [/\ \A m \in Months : frozen[m] # None => frozen'[m] = frozen[m]
         /\ watermark' >= watermark]_vars
  BY NextKeeps
<1>. QED
  BY <1>1, RollupsInvariant, PTL DEF Spec, WritesStand
==============================================================================
