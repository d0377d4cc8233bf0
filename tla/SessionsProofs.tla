--------------------------- MODULE SessionsProofs ---------------------------
(***************************************************************************)
(* What TLAPS proves of Sessions, for any viewers, goroutines and miles,   *)
(* and of what Insights tells of the log they leave.                       *)
(***************************************************************************)
EXTENDS Sessions, Insights, Sums, TLAPS

-----------------------------------------------------------------------------
(* Type correctness *)

\* Which operation can be at which step; a login carries its new session id.
StepsOK ==
  \A p \in Procs :
    /\ pc[p] = "find" => op[p] \in {"login", "amend"}
    /\ pc[p] = "credit" => op[p] = "bank"
    /\ pc[p] = "publish" => op[p] = "login"
    /\ pc[p] = "persist" => op[p] # "none"
    /\ op[p] = "login" /\ pc[p] # "find" => copy[p].sid \in Sids

TypeInv == TypeOK /\ StepsOK

\* Miles arithmetic stays within the integers, and what is in flight is never
\* negative.
LEMMA MilesAreIntegers ==
  ASSUME TypeOK, NEW u \in Users, NEW e \in User
  PROVE  SessionMiles(e, u) \in Int /\ InFlight(e, u) \in Nat
<1>1. now - e.since \in Int
  BY DEF TypeOK, User
<1>2. MilesPerTick + (IF subscriber[u] THEN BonusPerTick ELSE 0) \in Int
  BY ConstantsOK
<1>3. SessionMiles(e, u) \in Int
  BY <1>1, <1>2 DEF SessionMiles
<1>4. e.banked \in Int
  BY DEF User
<1>. QED
  BY <1>3, <1>4 DEF InFlight, Larger

\* A clawback is an integer, and leaves no balance negative.
LEMMA ClampIsInteger ==
  ASSUME NEW b \in Int, NEW d \in Int
  PROVE  /\ ClampClawback(b, d) \in Int
         /\ b >= 0 => b + ClampClawback(b, d) >= 0
BY DEF ClampClawback, Larger

\* A save is followed by the publication of a login, or by the bookkeeping of
\* an operation that no longer works on the row.
LEMMA AfterSaveIsStep ==
  ASSUME TypeOK, NEW p \in Procs
  PROVE  /\ AfterSave(p) \in {"publish", "readscore", "score", "event"}
         /\ AfterSave(p) = "publish" <=> op[p] = "login"
BY DEF AfterSave, TypeOK, Ops

\* The entries the operations build: what is in them and what moved.
LEMMA BlankIsEntry ==
  Blank \in User /\ Blank.sid = NoSid /\ Blank.miles = 0
BY DEF Blank, User

LEMMA WithMilesIsEntry ==
  ASSUME NEW e \in User, NEW m \in Int
  PROVE  /\ WithMiles(e, m) \in User
         /\ WithMiles(e, m).miles = e.miles + m
         /\ WithMiles(e, m).sid = e.sid
         /\ WithMiles(e, m).banked = e.banked
BY DEF User, WithMiles

LEMMA CreditedIsEntry ==
  ASSUME NEW e \in User, NEW m \in Int
  PROVE  /\ Credited(e, m) \in User
         /\ Credited(e, m).miles = e.miles + m
         /\ Credited(e, m).sid = e.sid
         /\ Credited(e, m).banked = e.banked + m
<1>1. WithMiles(e, m) \in User
  BY WithMilesIsEntry
<1>2. /\ Credited(e, m) \in User
      /\ Credited(e, m).miles = WithMiles(e, m).miles
      /\ Credited(e, m).sid = WithMiles(e, m).sid
      /\ Credited(e, m).banked = WithMiles(e, m).banked + m
  BY <1>1 DEF User, Credited
<1>. QED
  BY <1>2, WithMilesIsEntry

LEMMA GiftedIsEntry ==
  ASSUME NEW e \in User
  PROVE  /\ Gifted(e) \in User
         /\ Gifted(e).miles = e.miles + Gift
         /\ Gifted(e).sid = e.sid
         /\ Gifted(e).banked = e.banked
<1>1. Gift \in Int
  BY ConstantsOK
<1>2. WithMiles(e, Gift) \in User
  BY <1>1, WithMilesIsEntry
<1>3. /\ Gifted(e) \in User
      /\ Gifted(e).miles = WithMiles(e, Gift).miles
      /\ Gifted(e).sid = WithMiles(e, Gift).sid
      /\ Gifted(e).banked = WithMiles(e, Gift).banked
  BY <1>1, <1>2 DEF User, Gifted
<1>. QED
  BY <1>1, <1>3, WithMilesIsEntry

LEMMA FreshSessionIsEntry ==
  ASSUME TypeOK, NEW u \in Users, NEW s \in Sids
  PROVE  /\ FreshSession(s, u) \in User
         /\ FreshSession(s, u).miles = row[u]
         /\ FreshSession(s, u).sid = s
         /\ FreshSession(s, u).banked = 0
BY DEF TypeOK, User, FreshSession

\* Whatever one goroutine or the world outside does, types are kept.
LEMMA TypeInvInductive ==
  TypeInv /\ [Next]_vars => TypeInv'
<1>. SUFFICES ASSUME TypeInv, [Next]_vars
              PROVE  TypeInv'
  OBVIOUS
<1>. USE DEF TypeInv, TypeOK, StepsOK, Steps, Ops
<1>1. CASE Clock
  BY <1>1 DEF Clock, memVars, dbVars, procVars, evVars, dueVars
<1>2. CASE Give
  <2>1. entry' \in [Users -> User] /\ earned' \in [Users -> Int]
    BY <1>2, GiftedIsEntry, ConstantsOK DEF Give
  <2>. QED
    BY <1>2, <2>1 DEF Give, memVars, dbVars, procVars, evVars
<1>3. CASE Crash
  <2>1. TypeOK'
    <3>1. /\ entry' \in [Users -> User] /\ copy' \in [Procs -> User]
          /\ earned' \in [Users -> Int] /\ boardDue' \in [Users -> Int]
          /\ tally' \in [Users -> Int] /\ amt' \in [Procs -> Int]
      BY <1>3, BlankIsEntry DEF Crash
    <3>2. /\ pc' \in [Procs -> Steps] /\ op' \in [Procs -> Ops]
          /\ outs' \in [Procs -> SUBSET Users]
          /\ ins' \in [Procs -> SUBSET Users]
      BY <1>3 DEF Crash
    <3>. QED
      <4>1. /\ now' \in Nat /\ subscriber' \in [Users -> BOOLEAN]
            /\ row' \in [Users -> Int] /\ score' \in [Users -> Int]
            /\ who' \in [Procs -> Users] /\ used' \subseteq Sids
            /\ logins' \subseteq Users \X Sids /\ logouts' \in [Sids -> Nat]
        BY <1>3 DEF Crash, dbVars, evVars
      <4>2. /\ online' \subseteq Users /\ cancelled' \in BOOLEAN
            /\ spent' \in Nat /\ faulted' \in BOOLEAN
            /\ disturbed' \subseteq Users
        <5>1. online' = {} /\ disturbed' = {} /\ ~cancelled' /\ faulted'
          BY <1>3 DEF Crash
        <5>2. spent' \in Nat
          BY <1>3 DEF Crash
        <5>3. cancelled' \in BOOLEAN /\ faulted' \in BOOLEAN
          BY <1>3 DEF Crash
        <5>. QED
          BY <5>1, <5>2, <5>3
      <4>. QED
        BY <3>1, <3>2, <4>1, <4>2
  <2>2. StepsOK'
    BY <1>3 DEF Crash
  <2>. QED
    BY <2>1, <2>2
<1>4. ASSUME NEW u \in Users, Subscription(u)
      PROVE  TypeInv'
  BY <1>4 DEF Subscription, memVars, dbVars, procVars, evVars, dueVars
<1>5. ASSUME NEW p \in Procs, Step(p)
      PROVE  TypeInv'
  <2>1. CASE StartTick(p)
    BY <2>1 DEF StartTick, memVars, dbVars, procVars, evVars, dueVars
  <2>2. CASE StartCheckpoint(p)
    BY <2>2 DEF StartCheckpoint, memVars, dbVars, procVars, evVars, dueVars
  <2>3. CASE CancelJobs(p)
    BY <2>3 DEF CancelJobs, memVars, dbVars, procVars, evVars, dueVars
  <2>4. CASE StartShutdown(p)
    BY <2>4 DEF StartShutdown, memVars, dbVars, procVars, evVars, dueVars
  <2>5. CASE LogoutNext(p)
    <3>1. PICK u \in outs[p] :
            /\ outs' = [outs EXCEPT ![p] = @ \ {u}]
            /\ ClaimNothing(p, u) \/ Claim(p, u)
      BY <2>5 DEF LogoutNext
    <3>2. u \in Users
      BY <3>1
    <3>3. CASE ClaimNothing(p, u)
      BY <2>5, <3>1, <3>3 DEF LogoutNext, ClaimNothing, memVars, dbVars,
         evVars, dueVars
    <3>4. CASE Claim(p, u)
      <4>. DEFINE m == InFlight(entry[u], u)
                  s == SessionMiles(entry[u], u)
      <4>1. m \in Nat /\ s \in Int
        BY <3>2, MilesAreIntegers
      <4>2. copy' = [copy EXCEPT ![p] = WithMiles(entry[u], m)]
        BY <3>4 DEF Claim
      <4>3. copy' \in [Procs -> User]
        BY <3>2, <4>1, <4>2, WithMilesIsEntry
      <4>4. earned' \in [Users -> Int] /\ boardDue' \in [Users -> Int]
            /\ amt' \in [Procs -> Int] /\ tally' \in [Users -> Int]
        BY <3>2, <3>4, <4>1 DEF Claim, Larger
      <4>5. entry' \in [Users -> User] /\ online' \subseteq Users
        BY <3>2, <3>4, BlankIsEntry DEF Claim, Evict
      <4>6. disturbed' \subseteq Users
        BY <3>2, <3>4 DEF Claim, Take
      <4>7. /\ pc' = [pc EXCEPT ![p] = "persist"]
            /\ op' = [op EXCEPT ![p] = "logout"]
            /\ who' = [who EXCEPT ![p] = u]
        BY <3>4 DEF Claim
      <4>. QED
        BY <2>5, <3>1, <3>2, <4>2, <4>3, <4>4, <4>5, <4>6, <4>7
           DEF LogoutNext, dbVars, evVars
    <3>. QED
      BY <3>1, <3>3, <3>4
  <2>6. CASE LoginNext(p)
    <3>1. disturbed' \subseteq Users /\ who' \in [Procs -> Users]
      BY <2>6 DEF LoginNext, BeginLogin, Take
    <3>2. TypeOK'
      BY <2>6, <3>1, ZenonT(30) DEF LoginNext, BeginLogin, memVars, dbVars, evVars, dueVars
    <3>3. StepsOK'
      BY <2>6 DEF LoginNext, BeginLogin
    <3>. QED
      BY <3>2, <3>3
  <2>7. CASE MeasureNext(p)
    <3>1. PICK u \in outs[p] :
            LET worth == Larger(tally[u], SessionMiles(entry[u], u)) IN
            /\ outs' = [outs EXCEPT ![p] = @ \ {u}]
            /\ \/ /\ u \in online /\ InFlight(entry[u], u) > 0
                  /\ amt' = [amt EXCEPT ![p] = InFlight(entry[u], u)]
                  /\ earned' = [earned EXCEPT ![u] = @ + worth - tally[u]]
                  /\ boardDue' = [boardDue EXCEPT ![u] = @ + worth - tally[u]]
                  /\ tally' = [tally EXCEPT ![u] = worth]
                  /\ pc' = [pc EXCEPT ![p] = "credit"]
                  /\ op' = [op EXCEPT ![p] = "bank"]
                  /\ who' = [who EXCEPT ![p] = u]
                  /\ Take(p, u)
               \/ /\ u \notin online \/ InFlight(entry[u], u) = 0
                  /\ UNCHANGED <<amt, dueVars, pc, op, who, disturbed>>
      BY <2>7 DEF MeasureNext
    <3>2. u \in Users
      BY <3>1
    <3>3. InFlight(entry[u], u) \in Nat /\ SessionMiles(entry[u], u) \in Int
      BY <3>2, MilesAreIntegers
    <3>4. Larger(tally[u], SessionMiles(entry[u], u)) \in Int
      BY <3>2, <3>3 DEF Larger
    <3>5. /\ disturbed' \subseteq Users /\ amt' \in [Procs -> Int]
          /\ earned' \in [Users -> Int] /\ boardDue' \in [Users -> Int]
          /\ tally' \in [Users -> Int]
      BY <3>1, <3>2, <3>3, <3>4 DEF Take, dueVars
    <3>6. /\ pc' \in [Procs -> Steps] /\ op' \in [Procs -> Ops]
          /\ who' \in [Procs -> Users]
      <4>1. CASE UNCHANGED <<pc, op, who>>
        BY <4>1
      <4>2. CASE /\ pc' = [pc EXCEPT ![p] = "credit"]
                 /\ op' = [op EXCEPT ![p] = "bank"]
                 /\ who' = [who EXCEPT ![p] = u]
        BY <3>2, <4>2
      <4>. QED
        BY <3>1, <4>1, <4>2
    <3>7. outs' \in [Procs -> SUBSET Users]
      BY <3>1
    <3>8. TypeOK'
      BY <2>7, <3>5, <3>6, <3>7 DEF MeasureNext, memVars, dbVars, evVars
    <3>9. StepsOK'
      BY <2>7, <3>1 DEF MeasureNext
    <3>. QED
      BY <3>8, <3>9
  <2>8. CASE \E u \in Users : ChatLogin(p, u)
    BY <2>8
       DEF ChatLogin, BeginLogin, Take, memVars, dbVars, procVars, evVars,
           dueVars
  <2>9. CASE \E u \in Users, d \in Deltas : CorrectMiles(p, u, d)
    <3>1. PICK u \in Users, d \in Deltas : CorrectMiles(p, u, d)
      BY <2>9
    <3>. DEFINE delta == ClampClawback(entry[u].miles, d)
    <3>2. d \in Int /\ entry[u] \in User /\ entry[u].miles \in Int
      BY ConstantsOK DEF User
    <3>3. delta \in Int
      BY <3>2, ClampIsInteger
    <3>4. WithMiles(entry[u], delta) \in User
      BY <3>2, <3>3, WithMilesIsEntry
    <3>. HIDE DEF delta
    <3>5. /\ pc' \in [Procs -> Steps] /\ op' \in [Procs -> Ops]
          /\ who' \in [Procs -> Users] /\ spent' \in Nat
          /\ disturbed' \subseteq Users
      <4>1. /\ pc' = [pc EXCEPT ![p] = "persist"] \/ pc' = [pc EXCEPT ![p] = "find"]
            /\ op' = [op EXCEPT ![p] = "correct"] \/ op' = [op EXCEPT ![p] = "amend"]
        BY <3>1 DEF CorrectMiles, CorrectLive, CorrectOffline
      <4>2. pc' \in [Procs -> Steps] /\ op' \in [Procs -> Ops]
        BY <4>1
      <4>3. who' \in [Procs -> Users] /\ spent' \in Nat
        BY <3>1 DEF CorrectMiles
      <4>4. disturbed' \subseteq Users
        BY <3>1 DEF CorrectMiles, Take
      <4>. QED
        BY <4>2, <4>3, <4>4
    <3>6. CASE CorrectLive(p, u, d)
      <4>1. /\ entry' = [entry EXCEPT ![u] = WithMiles(entry[u], delta)]
            /\ copy' = [copy EXCEPT ![p] = WithMiles(entry[u], delta)]
            /\ amt' = [amt EXCEPT ![p] = delta]
            /\ earned' = [earned EXCEPT ![u] = @ + delta]
        BY <3>6 DEF CorrectLive, delta
      <4>2. /\ entry' \in [Users -> User] /\ copy' \in [Procs -> User]
            /\ amt' \in [Procs -> Int] /\ earned' \in [Users -> Int]
        BY <3>3, <3>4, <4>1
      <4>3. TypeOK'
        BY <3>1, <3>5, <4>2 DEF CorrectMiles, dbVars, evVars
      <4>4. StepsOK'
        BY <3>1, <3>6, <4>1 DEF CorrectMiles, CorrectLive
      <4>. QED
        BY <4>3, <4>4
    <3>7. CASE CorrectOffline(p, u, d)
      BY <3>1, <3>2, <3>5, <3>7
         DEF CorrectMiles, CorrectOffline, dbVars, evVars
    <3>. QED
      BY <3>1, <3>6, <3>7 DEF CorrectMiles
  <2>10. CASE FindForLogin(p)
    <3>1. PICK s \in FreshSids :
            /\ used' = used \cup {s}
            /\ copy' = [copy EXCEPT ![p] = FreshSession(s, who[p])]
      BY <2>10 DEF FindForLogin
    <3>2. s \in Sids
      BY <3>1 DEF FreshSids
    <3>3. FreshSession(s, who[p]) \in User /\ FreshSession(s, who[p]).sid = s
      BY <3>2, FreshSessionIsEntry
    <3>. QED
      BY <2>10, <3>1, <3>2, <3>3 DEF FindForLogin, memVars, dbVars, dueVars
  <2>11. CASE FindForAmend(p)
    <3>. DEFINE d == ClampClawback(row[who[p]], amt[p])
    <3>1. d \in Int /\ row[who[p]] \in Int
      BY ClampIsInteger
    <3>2. /\ copy' = [copy EXCEPT ![p] = WithMiles(Blank, row[who[p]] + d)]
          /\ amt' = [amt EXCEPT ![p] = d]
      BY <2>11 DEF FindForAmend
    <3>4. WithMiles(Blank, row[who[p]] + d) \in User
      BY <3>1, BlankIsEntry, WithMilesIsEntry
    <3>. HIDE DEF d
    <3>3. copy' \in [Procs -> User] /\ amt' \in [Procs -> Int]
      BY <3>1, <3>2, <3>4
    <3>. QED
      BY <2>11, <3>2, <3>3 DEF FindForAmend, memVars, dbVars, evVars, dueVars
  <2>12. CASE FindFails(p)
    BY <2>12, BlankIsEntry
       DEF FindFails, Finish, memVars, dbVars, procVars, evVars, dueVars
  <2>13. CASE Publish(p)
    BY <2>13 DEF Publish, memVars, dbVars, procVars, evVars, dueVars
  <2>14. CASE Credit(p)
    <3>1. Credited(entry[who[p]], amt[p]) \in User
      BY CreditedIsEntry
    <3>. QED
      BY <2>14, <3>1, BlankIsEntry, SMTT(30)
         DEF Credit, Finish, dbVars, evVars, dueVars
  <2>15. CASE Save(p)
    <3>1. copy[p].miles \in Int
      BY DEF User
    <3>. QED
      BY <2>15, <3>1, AfterSaveIsStep, SMTT(30) DEF Save, memVars, evVars
  <2>16. CASE SaveFails(p)
    BY <2>16, AfterSaveIsStep
       DEF SaveFails, Fault, memVars, dbVars, procVars, evVars, dueVars
  <2>17. CASE ReadScore(p)
    BY <2>17 DEF ReadScore, Larger, memVars, dbVars, procVars, evVars, dueVars
  <2>18. CASE ReadScoreFails(p)
    BY <2>18
       DEF ReadScoreFails, Fault, memVars, dbVars, procVars, evVars, dueVars
  <2>19. CASE AddScore(p)
    <3>1. /\ score' \in [Users -> Int] /\ boardDue' \in [Users -> Int]
          /\ pc' \in [Procs -> Steps] /\ op' \in [Procs -> Ops]
          /\ copy' \in [Procs -> User] /\ amt' \in [Procs -> Int]
      <4>1. score' \in [Users -> Int] /\ boardDue' \in [Users -> Int]
        BY <2>19 DEF AddScore
      <4>2. /\ pc' \in [Procs -> Steps] /\ op' \in [Procs -> Ops]
            /\ copy' \in [Procs -> User] /\ amt' \in [Procs -> Int]
        BY <2>19, BlankIsEntry, SMTT(30) DEF AddScore, Scored, Finish
      <4>. QED
        BY <4>1, <4>2
    <3>2. TypeOK'
      BY <2>19, <3>1 DEF AddScore, memVars, evVars
    <3>3. StepsOK'
      BY <2>19 DEF AddScore, Scored, Finish
    <3>. QED
      BY <3>2, <3>3
  <2>20. CASE AddScoreFails(p)
    BY <2>20, BlankIsEntry, SMTT(30)
       DEF AddScoreFails, Scored, Finish, Fault, memVars, dbVars, procVars,
           evVars, dueVars
  <2>21. CASE Record(p)
    <3>1. op[p] = "login" => copy[p].sid \in Sids
      BY <2>21 DEF Record
    <3>2. logins' \subseteq Users \X Sids /\ logouts' \in [Sids -> Nat]
      <4>1. logins' \subseteq Users \X Sids
        BY <2>21, <3>1 DEF Record
      <4>2. logouts' \in [Sids -> Nat]
        <5>1. CASE op[p] = "logout"
          <6>1. logouts' = [logouts EXCEPT ![copy[p].sid] = @ + 1]
            BY <2>21, <5>1 DEF Record
          <6>2. CASE copy[p].sid \in Sids
            BY <6>1, <6>2
          <6>3. CASE copy[p].sid \notin Sids
            BY <6>1, <6>3
          <6>. QED
            BY <6>2, <6>3
        <5>2. CASE op[p] # "logout"
          BY <2>21, <5>2 DEF Record
        <5>. QED
          BY <5>1, <5>2
      <4>. QED
        BY <4>1, <4>2
    <3>3. TypeOK'
      BY <2>21, <3>2, BlankIsEntry DEF Record, Finish, memVars, dbVars, dueVars
    <3>4. StepsOK'
      BY <2>21 DEF Record, Finish
    <3>. QED
      BY <3>3, <3>4
  <2>22. CASE RecordFails(p)
    BY <2>22, BlankIsEntry
       DEF RecordFails, Finish, Fault, memVars, dbVars, procVars, evVars,
           dueVars
  <2>. QED
    BY <1>5, <2>1, <2>2, <2>3, <2>4, <2>5, <2>6, <2>7, <2>8, <2>9, <2>10,
       <2>11, <2>12, <2>13, <2>14, <2>15, <2>16, <2>17, <2>18, <2>19, <2>20,
       <2>21, <2>22 DEF Step
<1>6. CASE UNCHANGED vars
  BY <1>6 DEF vars, memVars, dbVars, procVars, evVars, dueVars
<1>. QED
  BY <1>1, <1>2, <1>3, <1>4, <1>5, <1>6 DEF Next

LEMMA TypeInvInitially == Init => TypeInv
<1>. SUFFICES ASSUME Init
              PROVE  TypeInv
  OBVIOUS
<1>1. row \in [Users -> Int] /\ score \in [Users -> Int]
  BY ConstantsOK DEF Init
<1>2. earned \in [Users -> Int] /\ boardDue \in [Users -> Int]
  BY <1>1 DEF Init
<1>3. entry \in [Users -> User] /\ copy \in [Procs -> User]
  BY BlankIsEntry DEF Init
<1>4. who \in [Procs -> Users] /\ subscriber \in [Users -> BOOLEAN]
  BY DEF Init
<1>5. TypeOK
  BY <1>1, <1>2, <1>3, <1>4 DEF Init, TypeOK, Steps, Ops
<1>6. StepsOK
  BY DEF Init, StepsOK
<1>. QED
  BY <1>5, <1>6 DEF TypeInv

LEMMA TypeInvAlways == Spec => []TypeInv
BY TypeInvInitially, TypeInvInductive, PTL DEF Spec

\* Type correctness: every variable keeps its type in every behaviour, for any
\* sets of viewers and goroutines and any rates.
THEOREM TypeCorrect == Spec => []TypeOK
BY TypeInvAlways, PTL DEF TypeInv

-----------------------------------------------------------------------------
(* Lifetime miles *)

\* Only one operation works on u's row.
OneHolder(u) ==
  \A p, q \in Procs : Holds(p, u) /\ Holds(q, u) => p = q

\* A checkpoint of u has measured amt[p] miles and not credited them yet.
Crediting(p, u) == who[p] = u /\ pc[p] = "credit"

\* The open session: all that was measured of it is banked, and the entry has
\* the miles u is due, but for those a checkpoint is about to credit.
SessionAccounted(u) ==
  u \in online =>
    /\ (\A p \in Procs : ~Crediting(p, u)) =>
         tally[u] = entry[u].banked /\ earned[u] = entry[u].miles
    /\ \A p \in Procs : Crediting(p, u) =>
         /\ tally[u] = entry[u].banked + amt[p]
         /\ earned[u] = entry[u].miles + amt[p]

\* No session, nothing on its way: the row has the miles.
RowAccounted(u) ==
  u \notin online /\ (\A p \in Procs : ~Holds(p, u)) => row[u] = earned[u]

\* What p is about to write, when p is the one that works on u's row.
CopyAccounted(p, u) ==
  Holds(p, u) =>
    /\ u \in online <=> op[p] \in {"bank", "correct"}
    /\ op[p] \in {"login", "amend"} => row[u] = earned[u]
    /\ op[p] = "login" /\ pc[p] # "find" =>
         copy[p].miles = earned[u] /\ copy[p].banked = 0
    /\ op[p] = "logout" => copy[p].miles = earned[u]
    /\ op[p] = "amend" /\ pc[p] # "find" => copy[p].miles = earned[u] + amt[p]

Accounted(u) ==
  /\ OneHolder(u)
  /\ SessionAccounted(u)
  /\ RowAccounted(u)
  /\ \A p \in Procs : CopyAccounted(p, u)

MilesInv == \A u \in Users \ disturbed : Accounted(u)

\* A step of p leaves the other goroutines where they are, and disturbs
\* viewers without ever calming one.
OthersStay(p) ==
  /\ \A q \in Procs \ {p} :
       /\ pc'[q] = pc[q] /\ op'[q] = op[q] /\ who'[q] = who[q]
       /\ copy'[q] = copy[q] /\ amt'[q] = amt[q]
  /\ disturbed \subseteq disturbed'

LEMMA OthersStayPut ==
  ASSUME TypeInv, NEW p \in Procs, Step(p)
  PROVE  OthersStay(p)
<1>. USE DEF TypeInv, TypeOK, OthersStay
<1>1. CASE StartTick(p)
  BY <1>1 DEF StartTick, procVars
<1>2. CASE StartCheckpoint(p)
  BY <1>2 DEF StartCheckpoint, procVars
<1>3. CASE CancelJobs(p)
  BY <1>3 DEF CancelJobs, procVars
<1>4. CASE StartShutdown(p)
  BY <1>4 DEF StartShutdown, procVars
<1>5. CASE LogoutNext(p)
  BY <1>5 DEF LogoutNext, ClaimNothing, Claim, Take, procVars
<1>6. CASE LoginNext(p)
  BY <1>6 DEF LoginNext, BeginLogin, Take, procVars
<1>7. CASE MeasureNext(p)
  BY <1>7 DEF MeasureNext, Take, procVars
<1>8. CASE \E v \in Users : ChatLogin(p, v)
  BY <1>8 DEF ChatLogin, BeginLogin, Take, procVars
<1>9. CASE \E v \in Users, d \in Deltas : CorrectMiles(p, v, d)
  BY <1>9 DEF CorrectMiles, CorrectLive, CorrectOffline, Take, procVars
<1>10. CASE FindForLogin(p)
  BY <1>10 DEF FindForLogin, procVars
<1>11. CASE FindForAmend(p)
  BY <1>11 DEF FindForAmend, procVars
<1>12. CASE FindFails(p)
  BY <1>12 DEF FindFails, Finish, procVars
<1>13. CASE Publish(p)
  BY <1>13 DEF Publish, procVars
<1>14. CASE Credit(p)
  BY <1>14 DEF Credit, Finish, procVars
<1>15. CASE Save(p)
  BY <1>15 DEF Save, procVars
<1>16. CASE SaveFails(p)
  BY <1>16 DEF SaveFails, procVars
<1>17. CASE ReadScore(p)
  BY <1>17 DEF ReadScore, procVars
<1>18. CASE ReadScoreFails(p)
  BY <1>18 DEF ReadScoreFails, procVars
<1>19. CASE AddScore(p)
  BY <1>19 DEF AddScore, Scored, Finish, procVars
<1>20. CASE AddScoreFails(p)
  BY <1>20 DEF AddScoreFails, Scored, Finish, procVars
<1>21. CASE Record(p)
  BY <1>21 DEF Record, Finish, procVars
<1>22. CASE RecordFails(p)
  BY <1>22 DEF RecordFails, Finish, procVars
<1>. QED
  BY <1>1, <1>2, <1>3, <1>4, <1>5, <1>6, <1>7, <1>8, <1>9, <1>10, <1>11,
     <1>12, <1>13, <1>14, <1>15, <1>16, <1>17, <1>18, <1>19, <1>20, <1>21,
     <1>22 DEF Step

\* The miles of u are untouched.
SameMiles(u) ==
  /\ row'[u] = row[u] /\ entry'[u] = entry[u]
  /\ tally'[u] = tally[u] /\ earned'[u] = earned[u]
  /\ u \in online' <=> u \in online

\* A step that touches neither the miles of u nor an operation on u.
LEMMA ElsewhereKeeps ==
  ASSUME NEW u \in Users, NEW p \in Procs, Accounted(u), OthersStay(p),
         SameMiles(u), ~Holds(p, u), ~Holds(p, u)'
  PROVE  Accounted(u)'
<1>1. \A q \in Procs : Holds(q, u)' <=> Holds(q, u)
  BY DEF OthersStay, Holds
<1>2. \A q \in Procs : Crediting(q, u)' <=> Crediting(q, u)
  BY DEF OthersStay, Holds, Crediting
<1>3. \A q \in Procs : Crediting(q, u) => amt'[q] = amt[q]
  BY DEF OthersStay, Holds, Crediting
<1>4. OneHolder(u)'
  BY <1>1 DEF Accounted, OneHolder
<1>5. SessionAccounted(u)'
  BY <1>2, <1>3 DEF Accounted, SessionAccounted, SameMiles
<1>6. RowAccounted(u)'
  BY <1>1 DEF Accounted, RowAccounted, SameMiles
<1>7. ASSUME NEW q \in Procs
      PROVE  CopyAccounted(q, u)'
  BY <1>1 DEF Accounted, CopyAccounted, SameMiles, OthersStay, Holds
<1>. QED
  BY <1>4, <1>5, <1>6, <1>7 DEF Accounted

\* Where p is alone with u, u is accounted for if p's account is right.
AccountOf(p, u) ==
  /\ CopyAccounted(p, u)
  /\ u \in online /\ Crediting(p, u) =>
       /\ tally[u] = entry[u].banked + amt[p]
       /\ earned[u] = entry[u].miles + amt[p]
  /\ u \in online /\ ~Crediting(p, u) =>
       tally[u] = entry[u].banked /\ earned[u] = entry[u].miles
  /\ u \notin online /\ ~Holds(p, u) => row[u] = earned[u]

LEMMA AloneWith ==
  ASSUME NEW u \in Users, NEW p \in Procs, OthersStay(p),
         \A q \in Procs \ {p} : ~Holds(q, u), AccountOf(p, u)'
  PROVE  Accounted(u)'
<1>1. \A q \in Procs \ {p} : ~Holds(q, u)'
  BY DEF OthersStay, Holds
<1>2. \A q \in Procs \ {p} : ~Crediting(q, u)'
  BY <1>1 DEF Holds, Crediting
<1>3. OneHolder(u)'
  BY <1>1 DEF OneHolder
<1>4. SessionAccounted(u)'
  BY <1>2 DEF SessionAccounted, AccountOf
<1>5. RowAccounted(u)'
  BY DEF RowAccounted, AccountOf
<1>6. \A q \in Procs : CopyAccounted(q, u)'
  BY <1>1 DEF CopyAccounted, AccountOf
<1>. QED
  BY <1>3, <1>4, <1>5, <1>6 DEF Accounted

\* An operation that starts on u, and leaves u undisturbed, found u at rest.
LEMMA TakenAtRest ==
  ASSUME TypeInv, NEW u \in Users, NEW p \in Procs, Accounted(u), Take(p, u),
         u \notin disturbed', pc[p] = "idle"
  PROVE  /\ \A q \in Procs : ~Holds(q, u)
         /\ u \notin online => row[u] = earned[u]
         /\ u \in online =>
              tally[u] = entry[u].banked /\ earned[u] = entry[u].miles
<1>1. \A q \in Procs : ~Holds(q, u)
  BY DEF Take, Holds
<1>2. \A q \in Procs : ~Crediting(q, u)
  BY <1>1 DEF Holds, Crediting
<1>. QED
  BY <1>1, <1>2 DEF Accounted, RowAccounted, SessionAccounted

\* Every step of a goroutine keeps the account of an undisturbed viewer.
LEMMA StepKeepsAccounts ==
  ASSUME TypeInv, TypeInv', NEW p \in Procs, Step(p),
         NEW u \in Users, u \notin disturbed', Accounted(u)
  PROVE  Accounted(u)'
<1>. USE DEF TypeInv, TypeOK
<1>1. OthersStay(p)
  BY OthersStayPut
<1>2. SameMiles(u) /\ ~Holds(p, u) /\ ~Holds(p, u)' => Accounted(u)'
  BY <1>1, ElsewhereKeeps
<1>3. (\A q \in Procs \ {p} : ~Holds(q, u)) /\ AccountOf(p, u)' => Accounted(u)'
  BY <1>1, AloneWith
<1>4. Holds(p, u) => \A q \in Procs \ {p} : ~Holds(q, u)
  BY DEF Accounted, OneHolder
<1>5. CASE StartTick(p)
  <2>1. SameMiles(u) /\ (Holds(p, u)' <=> Holds(p, u))
    BY <1>5 DEF StartTick, SameMiles, Holds, memVars, dbVars, procVars, dueVars
  <2>2. op' = op /\ pc' = pc /\ who' = who /\ copy' = copy /\ amt' = amt
    BY <1>5 DEF StartTick, procVars
  <2>. QED
    BY <2>1, <2>2 DEF Accounted, OneHolder, SessionAccounted, RowAccounted,
       CopyAccounted, SameMiles, Holds, Crediting
<1>6. CASE StartCheckpoint(p)
  <2>1. SameMiles(u) /\ (Holds(p, u)' <=> Holds(p, u))
    BY <1>6
       DEF StartCheckpoint, SameMiles, Holds, memVars, dbVars, procVars, dueVars
  <2>2. op' = op /\ pc' = pc /\ who' = who /\ copy' = copy /\ amt' = amt
    BY <1>6 DEF StartCheckpoint, procVars
  <2>. QED
    BY <2>1, <2>2 DEF Accounted, OneHolder, SessionAccounted, RowAccounted,
       CopyAccounted, SameMiles, Holds, Crediting
<1>7. CASE CancelJobs(p)
  <2>1. SameMiles(u) /\ (Holds(p, u)' <=> Holds(p, u))
    BY <1>7 DEF CancelJobs, SameMiles, Holds, memVars, dbVars, procVars, dueVars
  <2>2. op' = op /\ pc' = pc /\ who' = who /\ copy' = copy /\ amt' = amt
    BY <1>7 DEF CancelJobs, procVars
  <2>. QED
    BY <2>1, <2>2 DEF Accounted, OneHolder, SessionAccounted, RowAccounted,
       CopyAccounted, SameMiles, Holds, Crediting
<1>8. CASE StartShutdown(p)
  <2>1. SameMiles(u) /\ (Holds(p, u)' <=> Holds(p, u))
    BY <1>8
       DEF StartShutdown, SameMiles, Holds, memVars, dbVars, procVars, dueVars
  <2>2. op' = op /\ pc' = pc /\ who' = who /\ copy' = copy /\ amt' = amt
    BY <1>8 DEF StartShutdown, procVars
  <2>. QED
    BY <2>1, <2>2 DEF Accounted, OneHolder, SessionAccounted, RowAccounted,
       CopyAccounted, SameMiles, Holds, Crediting
<1>9. CASE LogoutNext(p)
  <2>1. PICK v \in outs[p] : ClaimNothing(p, v) \/ Claim(p, v)
    BY <1>9 DEF LogoutNext
  <2>2. pc[p] = "idle" /\ v \in Users
    BY <1>9, <2>1 DEF LogoutNext
  <2>3. CASE ClaimNothing(p, v)
    <3>1. SameMiles(u) /\ ~Holds(p, u) /\ ~Holds(p, u)'
      BY <1>9, <2>2, <2>3
         DEF LogoutNext, ClaimNothing, SameMiles, Holds, memVars, dbVars,
             dueVars
    <3>. QED
      BY <1>2, <3>1
  <2>4. CASE Claim(p, v) /\ v # u
    <3>1. SameMiles(u) /\ ~Holds(p, u) /\ ~Holds(p, u)'
      BY <1>9, <2>2, <2>4
         DEF LogoutNext, Claim, Evict, SameMiles, Holds, dbVars
    <3>. QED
      BY <1>2, <3>1
  <2>5. CASE Claim(p, v) /\ v = u
    <3>. DEFINE m == InFlight(entry[u], u)
                worth == SessionMiles(entry[u], u)
    <3>1. m \in Nat /\ worth \in Int
      BY MilesAreIntegers
    <3>2. u \in online /\ Take(p, u)
      BY <2>5 DEF Claim
    <3>3. /\ \A q \in Procs : ~Holds(q, u)
          /\ tally[u] = entry[u].banked /\ earned[u] = entry[u].miles
      BY <2>2, <3>2, TakenAtRest
    <3>4. m = Larger(tally[u], worth) - tally[u]
      BY <3>1, <3>3 DEF InFlight, Larger, User
    <3>5. /\ copy'[p] = WithMiles(entry[u], m)
          /\ earned'[u] = earned[u] + Larger(tally[u], worth) - tally[u]
          /\ pc'[p] = "persist" /\ op'[p] = "logout" /\ who'[p] = u
          /\ u \notin online'
      BY <2>5 DEF Claim, Evict
    <3>6. WithMiles(entry[u], m).miles = entry[u].miles + m
      <4>1. entry[u] \in User /\ m \in Int
        BY <3>1
      <4>. HIDE DEF m
      <4>. QED
        BY <4>1, WithMilesIsEntry
    <3>7. Larger(tally[u], worth) \in Int /\ entry[u].miles \in Int
      BY <3>1 DEF Larger, User
    <3>8. copy'[p].miles = earned'[u]
      BY <3>3, <3>4, <3>5, <3>6, <3>7
    <3>9. AccountOf(p, u)'
      BY <3>5, <3>8 DEF AccountOf, CopyAccounted, Holds, Crediting
    <3>. QED
      BY <1>3, <3>3, <3>9
  <2>. QED
    BY <2>1, <2>3, <2>4, <2>5
<1>10. CASE LoginNext(p)
  <2>1. CASE ~\E v \in ins[p] : v = u /\ BeginLogin(p, v)
    <3>1. SameMiles(u) /\ ~Holds(p, u) /\ ~Holds(p, u)'
      BY <1>10, <2>1
         DEF LoginNext, BeginLogin, SameMiles, Holds, memVars, dbVars,
         dueVars
    <3>. QED
      BY <1>2, <3>1
  <2>2. CASE BeginLogin(p, u)
    <3>1. /\ u \notin online /\ Take(p, u) /\ pc[p] = "idle"
          /\ pc'[p] = "find" /\ op'[p] = "login" /\ who'[p] = u
      BY <1>10, <2>2 DEF LoginNext, BeginLogin, Absent
    <3>2. (\A q \in Procs : ~Holds(q, u)) /\ row[u] = earned[u]
      BY <3>1, TakenAtRest
    <3>3. SameMiles(u)
      BY <1>10 DEF LoginNext, SameMiles, memVars, dbVars, dueVars
    <3>4. AccountOf(p, u)'
      BY <3>1, <3>2, <3>3
         DEF AccountOf, CopyAccounted, Holds, Crediting, SameMiles
    <3>. QED
      BY <1>3, <3>2, <3>4
  <2>. QED
    BY <2>1, <2>2
<1>11. CASE MeasureNext(p)
  <2>. DEFINE m == InFlight(entry[u], u)
              worth == Larger(tally[u], SessionMiles(entry[u], u))
  <2>1. CASE ~(who'[p] = u /\ pc'[p] = "credit")
    <3>1. SameMiles(u) /\ ~Holds(p, u) /\ ~Holds(p, u)'
      BY <1>11, <2>1
         DEF MeasureNext, SameMiles, Holds, memVars, dbVars, dueVars
    <3>. QED
      BY <1>2, <3>1
  <2>2. CASE who'[p] = u /\ pc'[p] = "credit"
    <3>1. /\ u \in online /\ Take(p, u) /\ pc[p] = "idle" /\ op'[p] = "bank"
          /\ amt'[p] = m /\ earned'[u] = earned[u] + worth - tally[u]
          /\ tally'[u] = worth
      BY <1>11, <2>2 DEF MeasureNext
    <3>2. /\ \A q \in Procs : ~Holds(q, u)
          /\ tally[u] = entry[u].banked /\ earned[u] = entry[u].miles
      BY <3>1, TakenAtRest
    <3>3. m \in Nat /\ SessionMiles(entry[u], u) \in Int
      BY MilesAreIntegers
    <3>4. worth = entry[u].banked + m
      <4>1. entry[u].banked \in Int
        BY DEF User
      <4>2. m = worth - tally[u]
        BY <3>2, <3>3 DEF InFlight, Larger, User
      <4>3. worth \in Int
        BY <3>3 DEF Larger
      <4>. HIDE DEF worth, m
      <4>. QED
        BY <3>2, <3>3, <4>1, <4>2, <4>3
    <3>5. earned'[u] = entry[u].miles + m
      <4>1. entry[u].miles \in Int /\ entry[u].banked \in Int
        BY DEF User
      <4>. QED
        BY <3>1, <3>2, <3>3, <3>4, <4>1
    <3>6. entry' = entry /\ online' = online
      BY <1>11 DEF MeasureNext, memVars
    <3>7. AccountOf(p, u)'
      BY <2>2, <3>1, <3>4, <3>5, <3>6
         DEF AccountOf, CopyAccounted, Holds, Crediting
    <3>. QED
      BY <1>3, <3>2, <3>7
  <2>. QED
    BY <2>1, <2>2
<1>12. CASE \E v \in Users : ChatLogin(p, v)
  <2>1. CASE ~\E v \in Users : v = u /\ BeginLogin(p, v)
    <3>1. SameMiles(u) /\ ~Holds(p, u) /\ ~Holds(p, u)'
      BY <1>12, <2>1
         DEF ChatLogin, BeginLogin, SameMiles, Holds, memVars, dbVars,
         dueVars
    <3>. QED
      BY <1>2, <3>1
  <2>2. CASE BeginLogin(p, u)
    <3>1. /\ u \notin online /\ Take(p, u) /\ pc[p] = "idle"
          /\ pc'[p] = "find" /\ op'[p] = "login" /\ who'[p] = u
      BY <1>12, <2>2 DEF ChatLogin, BeginLogin, Absent
    <3>2. (\A q \in Procs : ~Holds(q, u)) /\ row[u] = earned[u]
      BY <3>1, TakenAtRest
    <3>3. SameMiles(u)
      BY <1>12 DEF ChatLogin, SameMiles, memVars, dbVars, dueVars
    <3>4. AccountOf(p, u)'
      BY <3>1, <3>2, <3>3
         DEF AccountOf, CopyAccounted, Holds, Crediting, SameMiles
    <3>. QED
      BY <1>3, <3>2, <3>4
  <2>. QED
    BY <2>1, <2>2
<1>13. CASE \E v \in Users, d \in Deltas : CorrectMiles(p, v, d)
  <2>1. PICK v \in Users, d \in Deltas : CorrectMiles(p, v, d)
    BY <1>13
  <2>2. CASE v # u
    <3>1. SameMiles(u) /\ ~Holds(p, u) /\ ~Holds(p, u)'
      BY <2>1, <2>2 DEF CorrectMiles, CorrectLive, CorrectOffline, SameMiles,
         Holds, dbVars
    <3>. QED
      BY <1>2, <3>1
  <2>3. CASE v = u
    <3>1. /\ Take(p, u) /\ pc[p] = "idle" /\ who'[p] = u
          /\ CorrectLive(p, u, d) \/ CorrectOffline(p, u, d)
          /\ online' = online /\ tally' = tally /\ row' = row
      BY <2>1, <2>3 DEF CorrectMiles, dbVars
    <3>2. \A q \in Procs : ~Holds(q, u)
      BY <3>1, TakenAtRest
    <3>3. CASE CorrectLive(p, u, d)
      <4>. DEFINE delta == ClampClawback(entry[u].miles, d)
      <4>1. d \in Int /\ entry[u] \in User /\ entry[u].miles \in Int
        BY ConstantsOK DEF User
      <4>2. delta \in Int
        BY <4>1, ClampIsInteger
      <4>3. /\ u \in online /\ entry'[u] = WithMiles(entry[u], delta)
            /\ earned'[u] = earned[u] + delta
            /\ pc'[p] = "persist" /\ op'[p] = "correct"
        BY <3>3 DEF CorrectLive
      <4>4. /\ WithMiles(entry[u], delta).miles = entry[u].miles + delta
            /\ WithMiles(entry[u], delta).banked = entry[u].banked
        BY <4>1, <4>2, WithMilesIsEntry
      <4>5. tally[u] = entry[u].banked /\ earned[u] = entry[u].miles
        BY <3>1, <4>3, TakenAtRest
      <4>6. AccountOf(p, u)'
        BY <3>1, <4>3, <4>4, <4>5
           DEF AccountOf, CopyAccounted, Holds, Crediting
      <4>. QED
        BY <1>3, <3>2, <4>6
    <3>4. CASE CorrectOffline(p, u, d)
      <4>1. /\ u \notin online /\ pc'[p] = "find" /\ op'[p] = "amend"
            /\ earned' = earned
        BY <3>4 DEF CorrectOffline
      <4>2. row[u] = earned[u]
        BY <3>1, <4>1, TakenAtRest
      <4>3. AccountOf(p, u)'
        BY <3>1, <4>1, <4>2 DEF AccountOf, CopyAccounted, Holds, Crediting
      <4>. QED
        BY <1>3, <3>2, <4>3
    <3>. QED
      BY <3>1, <3>3, <3>4
  <2>. QED
    BY <2>2, <2>3
<1>14. CASE FindForLogin(p)
  <2>1. CASE who[p] # u
    <3>1. SameMiles(u) /\ ~Holds(p, u) /\ ~Holds(p, u)'
      BY <1>14, <2>1
         DEF FindForLogin, SameMiles, Holds, memVars, dbVars, dueVars
    <3>. QED
      BY <1>2, <3>1
  <2>2. CASE who[p] = u
    <3>1. PICK s \in FreshSids : copy'[p] = FreshSession(s, u)
      BY <1>14, <2>2 DEF FindForLogin
    <3>2. FreshSession(s, u).miles = row[u] /\ FreshSession(s, u).banked = 0
      BY <3>1, FreshSessionIsEntry DEF FreshSids
    <3>3. /\ Holds(p, u) /\ SameMiles(u) /\ op[p] = "login" /\ op'[p] = "login"
          /\ pc'[p] = "persist" /\ who'[p] = u
      BY <1>14, <2>2
         DEF FindForLogin, Holds, SameMiles, memVars, dbVars, dueVars
    <3>4. u \notin online /\ row[u] = earned[u]
      BY <3>3 DEF Accounted, CopyAccounted
    <3>5. AccountOf(p, u)'
      BY <3>1, <3>2, <3>3, <3>4
         DEF AccountOf, CopyAccounted, Holds, Crediting, SameMiles
    <3>. QED
      BY <1>3, <1>4, <3>3, <3>5
  <2>. QED
    BY <2>1, <2>2
<1>15. CASE FindForAmend(p)
  <2>1. CASE who[p] # u
    <3>1. SameMiles(u) /\ ~Holds(p, u) /\ ~Holds(p, u)'
      BY <1>15, <2>1
         DEF FindForAmend, SameMiles, Holds, memVars, dbVars, dueVars
    <3>. QED
      BY <1>2, <3>1
  <2>2. CASE who[p] = u
    <3>. DEFINE d == ClampClawback(row[u], amt[p])
    <3>1. d \in Int /\ row[u] \in Int
      BY ClampIsInteger
    <3>2. copy'[p] = WithMiles(Blank, row[u] + d) /\ amt'[p] = d
      BY <1>15, <2>2 DEF FindForAmend
    <3>3. copy'[p].miles = row[u] + d
      <4>1. row[u] + d \in Int
        BY <3>1
      <4>2. WithMiles(Blank, row[u] + d).miles = 0 + (row[u] + d)
        BY <4>1, BlankIsEntry, WithMilesIsEntry
      <4>. QED
        BY <3>2, <4>1, <4>2
    <3>4. /\ Holds(p, u) /\ SameMiles(u) /\ op[p] = "amend" /\ op'[p] = "amend"
          /\ pc'[p] = "persist" /\ who'[p] = u
      BY <1>15, <2>2
         DEF FindForAmend, Holds, SameMiles, memVars, dbVars, dueVars
    <3>5. u \notin online /\ row[u] = earned[u]
      BY <3>4 DEF Accounted, CopyAccounted
    <3>6. AccountOf(p, u)'
      BY <3>2, <3>3, <3>4, <3>5
         DEF AccountOf, CopyAccounted, Holds, Crediting, SameMiles
    <3>. QED
      BY <1>3, <1>4, <3>4, <3>6
  <2>. QED
    BY <2>1, <2>2
<1>16. CASE FindFails(p)
  <2>1. CASE who[p] # u
    <3>1. SameMiles(u) /\ ~Holds(p, u) /\ ~Holds(p, u)'
      BY <1>16, <2>1
         DEF FindFails, SameMiles, Holds, Finish, memVars, dbVars, dueVars
    <3>. QED
      BY <1>2, <3>1
  <2>2. CASE who[p] = u
    <3>1. Holds(p, u) /\ SameMiles(u) /\ ~Holds(p, u)' /\ ~Crediting(p, u)'
      BY <1>16, <2>2
         DEF FindFails, Finish, Holds, Crediting, SameMiles, memVars,
         dbVars, dueVars
    <3>2. u \notin online /\ row[u] = earned[u]
      BY <1>16, <3>1 DEF FindFails, StepsOK, Accounted, CopyAccounted
    <3>3. AccountOf(p, u)'
      BY <3>1, <3>2 DEF AccountOf, CopyAccounted, SameMiles
    <3>. QED
      BY <1>3, <1>4, <3>1, <3>3
  <2>. QED
    BY <2>1, <2>2
<1>17. CASE Publish(p)
  <2>1. CASE who[p] # u
    <3>1. SameMiles(u) /\ ~Holds(p, u) /\ ~Holds(p, u)'
      BY <1>17, <2>1 DEF Publish, SameMiles, Holds, dbVars
    <3>. QED
      BY <1>2, <3>1
  <2>2. CASE who[p] = u
    <3>1. Holds(p, u) /\ ~Holds(p, u)' /\ ~Crediting(p, u)' /\ op[p] = "login"
      BY <1>17, <2>2 DEF Publish, Holds, Crediting, StepsOK
    <3>2. copy[p].miles = earned[u] /\ copy[p].banked = 0
      BY <1>17, <3>1 DEF Publish, Accounted, CopyAccounted
    <3>3. /\ u \in online' /\ entry'[u] = copy[p] /\ tally'[u] = 0
          /\ earned'[u] = earned[u]
      BY <1>17, <2>2 DEF Publish
    <3>4. AccountOf(p, u)'
      BY <3>1, <3>2, <3>3 DEF AccountOf, CopyAccounted
    <3>. QED
      BY <1>3, <1>4, <3>1, <3>4
  <2>. QED
    BY <2>1, <2>2
<1>18. CASE Credit(p)
  <2>1. CASE who[p] # u
    <3>1. SameMiles(u) /\ ~Holds(p, u) /\ ~Holds(p, u)'
      BY <1>18, <2>1 DEF Credit, SameMiles, Holds, Finish, dbVars, dueVars
    <3>. QED
      BY <1>2, <3>1
  <2>2. CASE who[p] = u
    <3>1. Holds(p, u) /\ Crediting(p, u) /\ op[p] = "bank"
      BY <1>18, <2>2 DEF Credit, Holds, Crediting, StepsOK
    <3>2. /\ u \in online
          /\ tally[u] = entry[u].banked + amt[p]
          /\ earned[u] = entry[u].miles + amt[p]
      BY <3>1 DEF Accounted, CopyAccounted, SessionAccounted
    <3>3. /\ entry'[u] = Credited(entry[u], amt[p]) /\ online' = online
          /\ pc'[p] = "persist" /\ op'[p] = "bank" /\ who'[p] = u
          /\ tally' = tally /\ earned' = earned
      BY <1>18, <2>2, <3>1, <3>2 DEF Credit, dueVars
    <3>4. /\ Credited(entry[u], amt[p]).miles = entry[u].miles + amt[p]
          /\ Credited(entry[u], amt[p]).banked = entry[u].banked + amt[p]
      BY CreditedIsEntry
    <3>5. AccountOf(p, u)'
      BY <3>2, <3>3, <3>4 DEF AccountOf, CopyAccounted, Holds, Crediting
    <3>. QED
      BY <1>3, <1>4, <3>1, <3>5
  <2>. QED
    BY <2>1, <2>2
<1>19. CASE Save(p)
  <2>1. CASE who[p] # u
    <3>1. SameMiles(u) /\ ~Holds(p, u) /\ ~Holds(p, u)'
      BY <1>19, <2>1 DEF Save, SameMiles, Holds, memVars
    <3>. QED
      BY <1>2, <3>1
  <2>2. CASE who[p] = u
    <3>1. /\ Holds(p, u) /\ who'[p] = u /\ op' = op /\ copy' = copy
          /\ amt' = amt /\ pc'[p] = AfterSave(p) /\ row'[u] = copy[p].miles
          /\ online' = online /\ entry' = entry /\ tally' = tally
          /\ earned'[u] = IF op[p] = "amend" THEN earned[u] + amt[p]
                          ELSE earned[u]
      BY <1>19, <2>2 DEF Save, Holds, memVars
    <3>2. /\ pc'[p] \in {"publish", "readscore", "score", "event"}
          /\ pc'[p] = "publish" <=> op[p] = "login"
      BY <3>1, AfterSaveIsStep
    <3>3. ~Crediting(p, u)' /\ ~Crediting(p, u)
      BY <1>19, <3>2 DEF Save, Crediting
    <3>4. pc[p] = "persist" /\ CopyAccounted(p, u)
      BY <1>19 DEF Save, Accounted
    <3>5. u \notin online => copy[p].miles = earned'[u]
      BY <3>1, <3>4 DEF CopyAccounted, StepsOK, Ops
    <3>6. u \in online =>
           tally[u] = entry[u].banked /\ earned[u] = entry[u].miles
      <4>1. \A q \in Procs : ~Crediting(q, u)
        BY <1>4, <3>1, <3>3 DEF Holds, Crediting
      <4>. QED
        BY <4>1 DEF Accounted, SessionAccounted
    <3>7. u \in online => op[p] # "amend"
      BY <3>1, <3>4 DEF CopyAccounted
    <3>8. CopyAccounted(p, u)'
      BY <3>1, <3>2, <3>4, <3>5 DEF CopyAccounted, Holds
    <3>9. AccountOf(p, u)'
      BY <3>1, <3>3, <3>5, <3>6, <3>7, <3>8 DEF AccountOf
    <3>. QED
      BY <1>3, <1>4, <3>1, <3>9
  <2>. QED
    BY <2>1, <2>2
<1>20. CASE SaveFails(p)
  <2>1. CASE who[p] # u
    <3>1. SameMiles(u) /\ ~Holds(p, u) /\ ~Holds(p, u)'
      BY <1>20, <2>1 DEF SaveFails, SameMiles, Holds, memVars, dbVars, dueVars
    <3>. QED
      BY <1>2, <3>1
  <2>2. CASE who[p] = u
    <3>1. /\ Holds(p, u) /\ who'[p] = u /\ op' = op /\ copy' = copy
          /\ amt' = amt /\ pc'[p] = AfterSave(p) /\ SameMiles(u)
          /\ op[p] # "logout"
      BY <1>20, <2>2 DEF SaveFails, Holds, SameMiles, memVars, dbVars, dueVars
    <3>2. /\ pc'[p] \in {"publish", "readscore", "score", "event"}
          /\ pc'[p] = "publish" <=> op[p] = "login"
      BY <3>1, AfterSaveIsStep
    <3>3. ~Crediting(p, u)' /\ ~Crediting(p, u)
      BY <1>20, <3>2 DEF SaveFails, Crediting
    <3>4. pc[p] = "persist" /\ CopyAccounted(p, u)
      BY <1>20 DEF SaveFails, Accounted
    <3>5. u \notin online => row[u] = earned[u]
      BY <3>1, <3>4 DEF CopyAccounted, StepsOK, Ops
    <3>6. u \in online =>
           tally[u] = entry[u].banked /\ earned[u] = entry[u].miles
      <4>1. \A q \in Procs : ~Crediting(q, u)
        BY <1>4, <3>1, <3>3 DEF Holds, Crediting
      <4>. QED
        BY <4>1 DEF Accounted, SessionAccounted
    <3>7. CopyAccounted(p, u)'
      BY <3>1, <3>2, <3>4, <3>5 DEF CopyAccounted, Holds, SameMiles
    <3>8. AccountOf(p, u)'
      BY <3>1, <3>3, <3>5, <3>6, <3>7 DEF AccountOf, SameMiles
    <3>. QED
      BY <1>3, <1>4, <3>1, <3>8
  <2>. QED
    BY <2>1, <2>2
<1>21. CASE ReadScore(p)
  <2>1. SameMiles(u) /\ ~Holds(p, u) /\ ~Holds(p, u)'
    BY <1>21 DEF ReadScore, SameMiles, Holds, memVars, dbVars, dueVars
  <2>. QED
    BY <1>2, <2>1
<1>22. CASE ReadScoreFails(p)
  <2>1. SameMiles(u) /\ ~Holds(p, u) /\ ~Holds(p, u)'
    BY <1>22 DEF ReadScoreFails, SameMiles, Holds, memVars, dbVars, dueVars
  <2>. QED
    BY <1>2, <2>1
<1>23. CASE AddScore(p)
  <2>1. SameMiles(u) /\ ~Holds(p, u) /\ ~Holds(p, u)'
    BY <1>23
       DEF AddScore, Scored, Finish, SameMiles, Holds, memVars, dbVars, dueVars
  <2>. QED
    BY <1>2, <2>1
<1>24. CASE AddScoreFails(p)
  <2>1. SameMiles(u) /\ ~Holds(p, u) /\ ~Holds(p, u)'
    BY <1>24
       DEF AddScoreFails, Scored, Finish, SameMiles, Holds, memVars, dbVars,
           dueVars
  <2>. QED
    BY <1>2, <2>1
<1>25. CASE Record(p)
  <2>1. SameMiles(u) /\ ~Holds(p, u) /\ ~Holds(p, u)'
    BY <1>25 DEF Record, Finish, SameMiles, Holds, memVars, dbVars, dueVars
  <2>. QED
    BY <1>2, <2>1
<1>26. CASE RecordFails(p)
  <2>1. SameMiles(u) /\ ~Holds(p, u) /\ ~Holds(p, u)'
    BY <1>26 DEF RecordFails, Finish, SameMiles, Holds, memVars, dbVars, dueVars
  <2>. QED
    BY <1>2, <2>1
<1>. QED
  BY <1>5, <1>6, <1>7, <1>8, <1>9, <1>10, <1>11, <1>12, <1>13, <1>14, <1>15,
     <1>16, <1>17, <1>18, <1>19, <1>20, <1>21, <1>22, <1>23, <1>24, <1>25,
     <1>26 DEF Step

LEMMA MilesInvInductive ==
  TypeInv /\ MilesInv /\ [Next]_vars => MilesInv'
<1>. SUFFICES ASSUME TypeInv, MilesInv, [Next]_vars,
                     NEW u \in Users \ disturbed'
              PROVE  Accounted(u)'
  BY DEF MilesInv
<1>1. TypeInv'
  BY TypeInvInductive
<1>. USE DEF TypeInv, TypeOK
<1>2. CASE Clock \/ (\E v \in Users : Subscription(v)) \/ UNCHANGED vars
  <2>1. /\ Accounted(u) /\ SameMiles(u)
        /\ pc' = pc /\ op' = op /\ who' = who /\ copy' = copy /\ amt' = amt
    BY <1>2 DEF Clock, Subscription, vars, memVars, dbVars, procVars, dueVars,
       SameMiles, MilesInv
  <2>. QED
    BY <2>1 DEF Accounted, OneHolder, SessionAccounted, RowAccounted,
       CopyAccounted, SameMiles, Holds, Crediting
<1>3. CASE Give
  <2>1. /\ Accounted(u) /\ row' = row /\ online' = online /\ tally' = tally
        /\ pc' = pc /\ op' = op /\ who' = who /\ copy' = copy /\ amt' = amt
    BY <1>3 DEF Give, dbVars, procVars, MilesInv
  <2>2. u \in online => /\ entry'[u] = Gifted(entry[u])
                        /\ earned'[u] = earned[u] + Gift
    BY <1>3 DEF Give
  <2>3. u \notin online => earned'[u] = earned[u]
    BY <1>3 DEF Give
  <2>4. /\ Gifted(entry[u]).miles = entry[u].miles + Gift
        /\ Gifted(entry[u]).banked = entry[u].banked
    BY GiftedIsEntry
  <2>5. entry[u].miles \in Int /\ Gift \in Int
    BY ConstantsOK DEF User
  <2>6. OneHolder(u)' /\ RowAccounted(u)'
    BY <2>1, <2>3 DEF Accounted, OneHolder, RowAccounted, Holds
  <2>7. SessionAccounted(u)'
    <3>1. SessionAccounted(u)
      BY <2>1 DEF Accounted
    <3>2. \A p \in Procs : amt[p] \in Int
      OBVIOUS
    <3>. QED
      BY <2>1, <2>2, <2>4, <2>5, <3>1, <3>2 DEF SessionAccounted, Crediting
  <2>8. \A p \in Procs : CopyAccounted(p, u)'
    BY <2>1, <2>3 DEF Accounted, CopyAccounted, Holds, StepsOK, Ops
  <2>. QED
    BY <2>6, <2>7, <2>8 DEF Accounted
<1>4. CASE Crash
  <2>1. /\ \A p \in Procs : pc'[p] = "idle"
        /\ online' = {} /\ earned'[u] = row[u] /\ row' = row
    BY <1>4 DEF Crash, dbVars
  <2>. QED
    BY <2>1 DEF Accounted, OneHolder, SessionAccounted, RowAccounted,
       CopyAccounted, Holds, Crediting
<1>5. ASSUME NEW p \in Procs, Step(p)
      PROVE  Accounted(u)'
  <2>1. u \notin disturbed
    BY <1>5, OthersStayPut DEF OthersStay
  <2>. QED
    BY <1>1, <1>5, <2>1, StepKeepsAccounts DEF MilesInv
<1>. QED
  BY <1>2, <1>3, <1>4, <1>5 DEF Next

LEMMA MilesInvInitially == Init => MilesInv
BY DEF Init, MilesInv, Accounted, OneHolder, SessionAccounted, RowAccounted,
   CopyAccounted, Holds, Crediting

LEMMA MilesInvImplies == MilesInv => LifetimeMilesKept
BY DEF MilesInv, Accounted, SessionAccounted, RowAccounted, LifetimeMilesKept,
   Crediting

\* Lifetime miles, for any number of viewers and goroutines, any rates, gifts
\* and corrections: logout, login, checkpoint, correction and gift keep every
\* mile of a viewer whose row no two operations worked on at once.
THEOREM MilesKept == Spec => []LifetimeMilesKept
<1>1. Spec => []MilesInv
  BY TypeInvAlways, MilesInvInitially, MilesInvInductive, PTL DEF Spec
<1>. QED
  BY <1>1, MilesInvImplies, PTL

-----------------------------------------------------------------------------
(* The books: no balance is ever negative *)

\* What p is about to write leaves no balance below zero. Only chat corrects
\* miles, so between reading a score and adding to it nobody else lowers it.
Balanced(p) ==
  /\ op[p] \in {"correct", "amend"} => p \in Chats
  /\ pc[p] \in {"persist", "publish"} => copy[p].miles >= 0
  /\ op[p] \in {"bank", "logout"} => amt[p] >= 0
  /\ pc[p] = "readscore" => op[p] \in {"correct", "amend"}
  /\ pc[p] = "score" =>
       /\ op[p] \in {"bank", "logout", "correct", "amend"}
       /\ op[p] \in {"correct", "amend"} => score[who[p]] + amt[p] >= 0

NotNegative(u) == row[u] >= 0 /\ score[u] >= 0 /\ entry[u].miles >= 0

BalancesInv ==
  /\ \A u \in Users : NotNegative(u)
  /\ \A p \in Procs : Balanced(p)

\* What p does to its own operation and to the balances settles the rest: no
\* other goroutine stands between reading a score and clawing it back.
LEMMA BalancedTogether ==
  ASSUME TypeInv, BalancesInv, NEW p \in Procs, OthersStay(p),
         \A u \in Users : NotNegative(u)', Balanced(p)',
         p \in Chats \/ \A u \in Users : score'[u] >= score[u], TypeInv'
  PROVE  BalancesInv'
<1>. USE DEF TypeInv, TypeOK
<1>1. ASSUME NEW q \in Procs \ {p}
      PROVE  Balanced(q)'
  <2>1. /\ pc'[q] = pc[q] /\ op'[q] = op[q] /\ who'[q] = who[q]
        /\ copy'[q] = copy[q] /\ amt'[q] = amt[q]
    BY DEF OthersStay
  <2>2. Balanced(q)
    BY DEF BalancesInv
  <2>3. op[q] \in {"correct", "amend"} => score'[who[q]] >= score[who[q]]
    BY <2>2, ConstantsOK DEF Balanced
  <2>4. /\ score[who[q]] \in Int /\ score'[who[q]] \in Int /\ amt[q] \in Int
    BY <2>1
  <2>5. pc[q] = "score" /\ op[q] \in {"correct", "amend"}
          => score'[who[q]] + amt[q] >= 0
    BY <2>2, <2>3, <2>4 DEF Balanced
  <2>. QED
    BY <2>1, <2>2, <2>5 DEF Balanced
<1>. QED
  BY <1>1 DEF BalancesInv

\* A step that leaves the balances alone.
LEMMA BalancesUntouched ==
  ASSUME TypeInv, BalancesInv, NEW p \in Procs, OthersStay(p), TypeInv',
         row' = row, score' = score, entry' = entry, Balanced(p)'
  PROVE  BalancesInv'
<1>1. \A u \in Users : NotNegative(u)'
  BY DEF BalancesInv, NotNegative
<1>2. \A u \in Users : score'[u] >= score[u]
  BY DEF TypeInv, TypeOK
<1>. QED
  BY <1>1, <1>2, BalancedTogether

LEMMA StepKeepsBalances ==
  ASSUME TypeInv, TypeInv', BalancesInv, NEW p \in Procs, Step(p)
  PROVE  BalancesInv'
<1>. USE DEF TypeInv, TypeOK
<1>1. OthersStay(p)
  BY OthersStayPut
<1>2. row' = row /\ score' = score /\ entry' = entry /\ Balanced(p)'
        => BalancesInv'
  BY <1>1, BalancesUntouched
<1>3. ASSUME \A u \in Users : NotNegative(u)', Balanced(p)',
             p \in Chats \/ \A u \in Users : score'[u] >= score[u]
      PROVE  BalancesInv'
  BY <1>1, <1>3, BalancedTogether
<1>4. Balanced(p) /\ \A u \in Users : NotNegative(u)
  BY DEF BalancesInv
<1>5. \A u \in Users : score[u] >= score[u]
  OBVIOUS
<1>6. CASE StartTick(p) \/ StartCheckpoint(p) \/ CancelJobs(p) \/ StartShutdown(p)
  BY <1>2, <1>4, <1>6
     DEF StartTick, StartCheckpoint, CancelJobs, StartShutdown, memVars,
         dbVars, procVars, Balanced
<1>9. CASE LogoutNext(p)
  <2>1. PICK v \in outs[p] : ClaimNothing(p, v) \/ Claim(p, v)
    BY <1>9 DEF LogoutNext
  <2>2. v \in Users /\ row' = row /\ score' = score
    BY <1>9 DEF LogoutNext, dbVars
  <2>3. CASE ClaimNothing(p, v)
    BY <1>2, <1>4, <2>2, <2>3 DEF ClaimNothing, memVars, Balanced
  <2>4. CASE Claim(p, v)
    <3>. DEFINE m == InFlight(entry[v], v)
    <3>1. m \in Nat
      BY <2>2, MilesAreIntegers
    <3>2. /\ copy'[p] = WithMiles(entry[v], m) /\ amt'[p] = m
          /\ pc'[p] = "persist" /\ op'[p] = "logout"
          /\ entry' = [entry EXCEPT ![v] = Blank]
      BY <2>4 DEF Claim, Evict
    <3>3. entry[v] \in User /\ entry[v].miles \in Int /\ entry[v].miles >= 0
      BY <1>4, <2>2 DEF User, NotNegative
    <3>. HIDE DEF m
    <3>4. copy'[p].miles = entry[v].miles + m
      <4>1. entry[v] \in User /\ m \in Int
        BY <3>1, <3>3
      <4>2. WithMiles(entry[v], m).miles = entry[v].miles + m
        BY <4>1, WithMilesIsEntry
      <4>. QED
        BY <3>2, <4>2
    <3>5. Balanced(p)'
      BY <3>1, <3>2, <3>3, <3>4 DEF Balanced
    <3>6. \A u \in Users : NotNegative(u)'
      BY <1>4, <2>2, <3>2, BlankIsEntry DEF NotNegative
    <3>. QED
      BY <1>3, <1>5, <2>2, <3>5, <3>6
  <2>. QED
    BY <2>1, <2>3, <2>4
<1>10. CASE LoginNext(p)
  BY <1>2, <1>4, <1>10
     DEF LoginNext, BeginLogin, memVars, dbVars, Balanced
<1>11. CASE MeasureNext(p)
  <2>1. PICK u \in outs[p] :
          \/ /\ amt' = [amt EXCEPT ![p] = InFlight(entry[u], u)]
             /\ pc' = [pc EXCEPT ![p] = "credit"]
             /\ op' = [op EXCEPT ![p] = "bank"]
          \/ UNCHANGED <<amt, pc, op, who>>
    BY <1>11 DEF MeasureNext
  <2>2. /\ u \in Users /\ row' = row /\ score' = score /\ entry' = entry
        /\ copy' = copy
    BY <1>11 DEF MeasureNext, dbVars, memVars
  <2>3. InFlight(entry[u], u) \in Nat
    BY <2>2, MilesAreIntegers
  <2>4. Balanced(p)'
    <3>1. CASE UNCHANGED <<amt, pc, op, who>>
      BY <1>4, <2>2, <3>1 DEF Balanced
    <3>2. CASE /\ amt' = [amt EXCEPT ![p] = InFlight(entry[u], u)]
               /\ pc' = [pc EXCEPT ![p] = "credit"]
               /\ op' = [op EXCEPT ![p] = "bank"]
      BY <2>3, <3>2 DEF Balanced
    <3>. QED
      BY <2>1, <3>1, <3>2
  <2>. QED
    BY <1>2, <2>2, <2>4
<1>12. CASE \E v \in Users : ChatLogin(p, v)
  BY <1>2, <1>4, <1>12
     DEF ChatLogin, BeginLogin, memVars, dbVars, Balanced
<1>13. CASE \E v \in Users, d \in Deltas : CorrectMiles(p, v, d)
  <2>1. PICK v \in Users, d \in Deltas : CorrectMiles(p, v, d)
    BY <1>13
  <2>2. row' = row /\ score' = score /\ p \in Chats
    BY <2>1 DEF CorrectMiles, dbVars
  <2>3. CASE CorrectLive(p, v, d)
    <3>. DEFINE delta == ClampClawback(entry[v].miles, d)
    <3>1. d \in Int /\ entry[v] \in User /\ entry[v].miles \in Int
      BY ConstantsOK DEF User
    <3>2. delta \in Int /\ entry[v].miles + delta >= 0
      BY <1>4, <3>1, ClampIsInteger DEF NotNegative
    <3>3. /\ entry' = [entry EXCEPT ![v] = WithMiles(entry[v], delta)]
          /\ copy'[p] = WithMiles(entry[v], delta)
          /\ pc'[p] = "persist" /\ op'[p] = "correct"
      BY <2>3 DEF CorrectLive
    <3>. HIDE DEF delta
    <3>4. WithMiles(entry[v], delta).miles >= 0
      BY <3>1, <3>2, WithMilesIsEntry
    <3>5. Balanced(p)'
      BY <2>2, <3>3, <3>4 DEF Balanced
    <3>6. \A u \in Users : NotNegative(u)'
      BY <1>4, <2>2, <3>3, <3>4 DEF NotNegative
    <3>. QED
      BY <1>3, <1>5, <2>2, <3>5, <3>6
  <2>4. CASE CorrectOffline(p, v, d)
    BY <1>2, <2>2, <2>4 DEF CorrectOffline, Balanced
  <2>. QED
    BY <2>1, <2>3, <2>4 DEF CorrectMiles
<1>14. CASE FindForLogin(p)
  <2>1. PICK s \in FreshSids : copy'[p] = FreshSession(s, who[p])
    BY <1>14 DEF FindForLogin
  <2>2. copy'[p].miles = row[who[p]]
    BY <2>1, FreshSessionIsEntry DEF FreshSids
  <2>3. Balanced(p)'
    BY <1>4, <1>14, <2>2 DEF FindForLogin, Balanced, NotNegative
  <2>. QED
    BY <1>2, <1>14, <2>3 DEF FindForLogin, memVars, dbVars
<1>15. CASE FindForAmend(p)
  <2>. DEFINE d == ClampClawback(row[who[p]], amt[p])
  <2>1. d \in Int /\ row[who[p]] \in Int /\ row[who[p]] + d >= 0
    BY <1>4, ClampIsInteger DEF NotNegative
  <2>2. copy'[p] = WithMiles(Blank, row[who[p]] + d)
    BY <1>15 DEF FindForAmend
  <2>. HIDE DEF d
  <2>3. copy'[p].miles = 0 + (row[who[p]] + d)
    <3>1. Blank \in User /\ row[who[p]] + d \in Int
      BY <2>1, BlankIsEntry
    <3>. QED
      BY <2>2, <3>1, BlankIsEntry, WithMilesIsEntry
  <2>4. copy'[p].miles >= 0
    BY <2>1, <2>3
  <2>5. Balanced(p)'
    BY <1>4, <1>15, <2>4 DEF FindForAmend, Balanced
  <2>. QED
    BY <1>2, <1>15, <2>5 DEF FindForAmend, memVars, dbVars
<1>16. CASE FindFails(p)
  BY <1>2, <1>16 DEF FindFails, Finish, memVars, dbVars, Balanced
<1>17. CASE Publish(p)
  <2>1. /\ copy[p].miles >= 0 /\ op[p] = "login" /\ op' = op
        /\ pc'[p] = "event" /\ row' = row /\ score' = score
        /\ entry' = [entry EXCEPT ![who[p]] = copy[p]]
    BY <1>4, <1>17 DEF Publish, Balanced, StepsOK, dbVars
  <2>2. \A u \in Users : NotNegative(u)'
    BY <1>4, <2>1 DEF NotNegative
  <2>3. Balanced(p)'
    BY <2>1 DEF Balanced
  <2>. QED
    BY <1>3, <1>5, <2>1, <2>2, <2>3
<1>18. CASE Credit(p)
  <2>1. op[p] = "bank" /\ amt[p] >= 0 /\ row' = row /\ score' = score
    BY <1>4, <1>18 DEF Credit, StepsOK, Balanced, dbVars
  <2>2. CASE who[p] \in online
    <3>1. /\ entry' = [entry EXCEPT ![who[p]] = Credited(entry[who[p]], amt[p])]
          /\ copy'[p] = Credited(entry[who[p]], amt[p])
          /\ pc'[p] = "persist" /\ op' = op /\ amt' = amt
      BY <1>18, <2>2 DEF Credit
    <3>2. Credited(entry[who[p]], amt[p]).miles = entry[who[p]].miles + amt[p]
      BY CreditedIsEntry
    <3>3. entry[who[p]].miles \in Int /\ entry[who[p]].miles >= 0
      BY <1>4 DEF User, NotNegative
    <3>4. Credited(entry[who[p]], amt[p]).miles >= 0
      BY <2>1, <3>2, <3>3
    <3>5. Balanced(p)'
      BY <2>1, <3>1, <3>4 DEF Balanced
    <3>6. \A u \in Users : NotNegative(u)'
      BY <1>4, <2>1, <3>1, <3>4 DEF NotNegative
    <3>. QED
      BY <1>3, <1>5, <2>1, <3>5, <3>6
  <2>3. CASE who[p] \notin online
    BY <1>2, <1>18, <2>1, <2>3 DEF Credit, Finish, Balanced
  <2>. QED
    BY <2>2, <2>3
<1>19. CASE Save(p)
  <2>1. /\ copy[p].miles >= 0 /\ op' = op /\ amt' = amt /\ who' = who
        /\ copy' = copy
        /\ pc'[p] = AfterSave(p) /\ score' = score /\ entry' = entry
        /\ row' = [row EXCEPT ![who[p]] = copy[p].miles]
    BY <1>4, <1>19 DEF Save, Balanced, memVars
  <2>2. \A u \in Users : NotNegative(u)'
    BY <1>4, <2>1 DEF NotNegative
  <2>3. Balanced(p)'
    BY <1>4, <1>19, <2>1 DEF Save, Balanced, AfterSave, StepsOK, Ops, NotNegative
  <2>. QED
    BY <1>3, <1>5, <2>1, <2>2, <2>3
<1>20. CASE SaveFails(p)
  <2>1. /\ copy[p].miles >= 0 /\ op' = op /\ amt' = amt /\ who' = who
        /\ copy' = copy
        /\ pc'[p] = AfterSave(p) /\ score' = score /\ entry' = entry
        /\ row' = row
    BY <1>4, <1>20 DEF SaveFails, Balanced, memVars, dbVars
  <2>2. Balanced(p)'
    BY <1>4, <1>20, <2>1
       DEF SaveFails, Balanced, AfterSave, StepsOK, Ops, NotNegative
  <2>. QED
    BY <1>2, <2>1, <2>2
<1>21. CASE ReadScore(p)
  BY <1>2, <1>4, <1>21
     DEF ReadScore, Larger, memVars, dbVars, Balanced, NotNegative
<1>22. CASE ReadScoreFails(p)
  BY <1>2, <1>4, <1>22 DEF ReadScoreFails, memVars, dbVars, Balanced
<1>23. CASE AddScore(p)
  <2>1. /\ score' = [score EXCEPT ![who[p]] = @ + amt[p]]
        /\ row' = row /\ entry' = entry /\ pc[p] = "score" /\ Scored(p)
        /\ who' = who
    BY <1>23 DEF AddScore, memVars
  <2>2. score[who[p]] + amt[p] >= 0 /\ (p \in Chats \/ amt[p] >= 0)
    BY <1>4, <2>1 DEF Balanced, NotNegative
  <2>3. \A u \in Users : NotNegative(u)'
    BY <1>4, <2>1, <2>2 DEF NotNegative
  <2>4. p \in Chats \/ \A u \in Users : score'[u] >= score[u]
    BY <2>1, <2>2
  <2>5. Balanced(p)'
    BY <1>4, <2>1 DEF Balanced, Scored, Finish
  <2>. QED
    BY <1>3, <2>3, <2>4, <2>5
<1>24. CASE AddScoreFails(p)
  BY <1>2, <1>4, <1>24
     DEF AddScoreFails, Scored, Finish, memVars, dbVars, Balanced
<1>25. CASE Record(p) \/ RecordFails(p)
  BY <1>2, <1>4, <1>25
     DEF Record, RecordFails, Finish, memVars, dbVars, Balanced
<1>. QED
  BY <1>6, <1>9, <1>10, <1>11, <1>12, <1>13, <1>14, <1>15, <1>16, <1>17,
     <1>18, <1>19, <1>20, <1>21, <1>22, <1>23, <1>24, <1>25 DEF Step

LEMMA BalancesInvInductive ==
  TypeInv /\ BalancesInv /\ [Next]_vars => BalancesInv'
<1>. SUFFICES ASSUME TypeInv, BalancesInv, [Next]_vars
              PROVE  BalancesInv'
  OBVIOUS
<1>1. TypeInv'
  BY TypeInvInductive
<1>. USE DEF TypeInv, TypeOK
<1>2. CASE Clock \/ (\E v \in Users : Subscription(v)) \/ UNCHANGED vars
  BY <1>2 DEF Clock, Subscription, vars, memVars, dbVars, procVars,
     BalancesInv, Balanced, NotNegative
<1>3. CASE Give
  <2>1. /\ row' = row /\ score' = score
        /\ pc' = pc /\ op' = op /\ who' = who /\ copy' = copy /\ amt' = amt
    BY <1>3 DEF Give, dbVars, procVars
  <2>2. ASSUME NEW u \in Users
        PROVE  NotNegative(u)'
    <3>1. Gift \in Nat /\ entry[u].miles \in Int /\ NotNegative(u)
      BY ConstantsOK DEF User, BalancesInv
    <3>2. Gifted(entry[u]).miles = entry[u].miles + Gift
      BY GiftedIsEntry
    <3>3. entry'[u] = entry[u] \/ entry'[u] = Gifted(entry[u])
      BY <1>3 DEF Give
    <3>. QED
      BY <2>1, <3>1, <3>2, <3>3 DEF NotNegative
  <2>. QED
    BY <2>1, <2>2 DEF BalancesInv, Balanced
<1>4. CASE Crash
  <2>1. /\ row' = row /\ score' = score
        /\ \A u \in Users : entry'[u] = Blank
        /\ \A p \in Procs : pc'[p] = "idle" /\ op'[p] = "none"
    BY <1>4 DEF Crash, dbVars
  <2>. QED
    BY <2>1, BlankIsEntry DEF BalancesInv, Balanced, NotNegative
<1>5. CASE \E p \in Procs : Step(p)
  BY <1>1, <1>5, StepKeepsBalances
<1>. QED
  BY <1>2, <1>3, <1>4, <1>5 DEF Next

LEMMA BalancesInvInitially == Init => BalancesInv
<1>. SUFFICES ASSUME Init
              PROVE  BalancesInv
  OBVIOUS
<1>1. Lifetime \in Nat /\ Blank.miles = 0
  BY ConstantsOK, BlankIsEntry
<1>2. \A u \in Users : row[u] = Lifetime /\ score[u] = 0 /\ entry[u] = Blank
  BY DEF Init
<1>3. \A p \in Procs : pc[p] = "idle" /\ op[p] = "none"
  BY DEF Init
<1>. QED
  BY <1>1, <1>2, <1>3 DEF BalancesInv, NotNegative, Balanced

LEMMA BalancesInvAlways == Spec => []BalancesInv
BY TypeInvAlways, BalancesInvInitially, BalancesInvInductive, PTL DEF Spec

-----------------------------------------------------------------------------
(* The books: a session id is in one place at a time *)

\* p carries session s outside the map: it logs s out, or will publish it.
Bears(p, s) ==
  /\ copy[p].sid = s
  /\ op[p] = "logout" \/ (op[p] = "login" /\ pc[p] \in {"persist", "publish"})

Open(u, s) == u \in online /\ entry[u].sid = s

Borne(s) == (\E u \in Users : Open(u, s)) \/ (\E p \in Procs : Bears(p, s))

\* s is one viewer's session, or one goroutine carries it, and never both.
OneBearer(s) ==
  /\ \A u, v \in Users : Open(u, s) /\ Open(v, s) => u = v
  /\ \A p, q \in Procs : Bears(p, s) /\ Bears(q, s) => p = q
  /\ \A u \in Users, p \in Procs : ~(Open(u, s) /\ Bears(p, s))

SidInv ==
  \A s \in Sids :
    /\ OneBearer(s)
    /\ Borne(s) => s \in used /\ logouts[s] = 0
    /\ logouts[s] <= (IF s \in used THEN 1 ELSE 0)

\* A step by which no session id appears anywhere it was not.
LEMMA NoNewBearer ==
  ASSUME SidInv, logouts' = logouts, used' = used,
         \A s \in Sids : \A u \in Users : Open(u, s)' => Open(u, s),
         \A s \in Sids : \A q \in Procs : Bears(q, s)' => Bears(q, s)
  PROVE  SidInv'
BY DEF SidInv, OneBearer, Borne

LEMMA OthersBear ==
  ASSUME NEW p \in Procs, OthersStay(p), NEW q \in Procs \ {p}, NEW s \in Sids
  PROVE  Bears(q, s)' <=> Bears(q, s)
BY DEF OthersStay, Bears

LEMMA StepKeepsSids ==
  ASSUME TypeInv, TypeInv', SidInv, NEW p \in Procs, Step(p)
  PROVE  SidInv'
<1>. USE DEF TypeInv, TypeOK
<1>1. OthersStay(p)
  BY OthersStayPut
<1>2. ASSUME logouts' = logouts, used' = used,
             \A s \in Sids : \A u \in Users : Open(u, s)' => Open(u, s),
             \A s \in Sids : Bears(p, s)' => Bears(p, s)
      PROVE  SidInv'
  BY <1>1, <1>2, OthersBear, NoNewBearer
<1>3. UNCHANGED memVars => \A s \in Sids : \A u \in Users : Open(u, s)' => Open(u, s)
  BY DEF memVars, Open
<1>4. UNCHANGED evVars => logouts' = logouts /\ used' = used
  BY DEF evVars
<1>5. NoSid \notin Sids
  BY ConstantsOK
<1>6. CASE StartTick(p) \/ StartCheckpoint(p) \/ CancelJobs(p) \/ StartShutdown(p)
  BY <1>2, <1>3, <1>4, <1>6
     DEF StartTick, StartCheckpoint, CancelJobs, StartShutdown, procVars, Bears
<1>9. CASE LogoutNext(p)
  <2>1. PICK v \in outs[p] : ClaimNothing(p, v) \/ Claim(p, v)
    BY <1>9 DEF LogoutNext
  <2>2. v \in Users /\ logouts' = logouts /\ used' = used
    BY <1>9 DEF LogoutNext, evVars
  <2>3. CASE ClaimNothing(p, v)
    BY <1>2, <1>3, <2>2, <2>3 DEF ClaimNothing, Bears
  <2>4. CASE Claim(p, v)
    <3>. DEFINE m == InFlight(entry[v], v)
    <3>1. m \in Int /\ entry[v] \in User
      BY <2>2, MilesAreIntegers
    <3>2. /\ copy'[p] = WithMiles(entry[v], m)
          /\ v \in online /\ v \notin online'
          /\ \A u \in Users \ {v} : u \in online' => u \in online
          /\ \A u \in Users \ {v} : entry'[u] = entry[u]
      BY <2>4 DEF Claim, Evict
    <3>. HIDE DEF m
    <3>3. WithMiles(entry[v], m).sid = entry[v].sid
      BY <3>1, WithMilesIsEntry
    <3>4. copy'[p].sid = entry[v].sid
      BY <3>2, <3>3
    <3>5. \A s \in Sids : \A u \in Users : Open(u, s)' => Open(u, s) /\ u # v
      BY <3>2 DEF Open
    <3>6. \A s \in Sids : Bears(p, s)' => Open(v, s)
      BY <3>2, <3>4 DEF Bears, Open
    <3>7. \A s \in Sids : \A q \in Procs \ {p} : Bears(q, s)' => Bears(q, s)
      BY <1>1, OthersBear
    <3>. QED
      BY <2>2, <3>5, <3>6, <3>7 DEF SidInv, OneBearer, Borne
  <2>. QED
    BY <2>1, <2>3, <2>4
<1>10. CASE LoginNext(p)
  <2>1. UNCHANGED memVars /\ UNCHANGED evVars
    BY <1>10 DEF LoginNext
  <2>2. \A s \in Sids : Bears(p, s)' => Bears(p, s)
    BY <1>10 DEF LoginNext, BeginLogin, Bears
  <2>. QED
    BY <1>2, <1>3, <1>4, <2>1, <2>2
<1>11. CASE MeasureNext(p)
  <2>1. UNCHANGED memVars /\ UNCHANGED evVars
    BY <1>11 DEF MeasureNext
  <2>2. \A s \in Sids : Bears(p, s)' => Bears(p, s)
    BY <1>11 DEF MeasureNext, Bears
  <2>. QED
    BY <1>2, <1>3, <1>4, <2>1, <2>2
<1>12. CASE \E v \in Users : ChatLogin(p, v)
  <2>1. UNCHANGED memVars /\ UNCHANGED evVars
    BY <1>12 DEF ChatLogin
  <2>2. \A s \in Sids : Bears(p, s)' => Bears(p, s)
    BY <1>12 DEF ChatLogin, BeginLogin, Bears
  <2>. QED
    BY <1>2, <1>3, <1>4, <2>1, <2>2
<1>13. CASE \E v \in Users, d \in Deltas : CorrectMiles(p, v, d)
  <2>1. PICK v \in Users, d \in Deltas : CorrectMiles(p, v, d)
    BY <1>13
  <2>2. UNCHANGED evVars /\ online' = online
    BY <2>1 DEF CorrectMiles
  <2>3. \A s \in Sids : Bears(p, s)' => Bears(p, s)
    BY <2>1 DEF CorrectMiles, CorrectLive, CorrectOffline, Bears
  <2>4. entry' = entry \/ \A u \in Users : entry'[u].sid = entry[u].sid
    <3>. DEFINE delta == ClampClawback(entry[v].miles, d)
    <3>1. d \in Int /\ entry[v] \in User /\ entry[v].miles \in Int
      BY ConstantsOK DEF User
    <3>2. delta \in Int
      BY <3>1, ClampIsInteger
    <3>3. entry' = [entry EXCEPT ![v] = WithMiles(entry[v], delta)] \/ entry' = entry
      BY <2>1 DEF CorrectMiles, CorrectLive, CorrectOffline
    <3>. HIDE DEF delta
    <3>4. WithMiles(entry[v], delta).sid = entry[v].sid
      BY <3>1, <3>2, WithMilesIsEntry
    <3>. QED
      BY <3>3, <3>4
  <2>5. \A s \in Sids : \A u \in Users : Open(u, s)' => Open(u, s)
    BY <2>2, <2>4 DEF Open
  <2>. QED
    BY <1>2, <1>4, <2>2, <2>3, <2>5
<1>14. CASE FindForLogin(p)
  <2>1. PICK s \in FreshSids : /\ copy'[p] = FreshSession(s, who[p])
                               /\ used' = used \cup {s}
    BY <1>14 DEF FindForLogin
  <2>2. s \in Sids /\ s \notin used /\ copy'[p].sid = s
    BY <2>1, FreshSessionIsEntry DEF FreshSids
  <2>3. UNCHANGED memVars /\ logouts' = logouts
    BY <1>14 DEF FindForLogin
  <2>4. \A t \in Sids : \A u \in Users : Open(u, t)' => Open(u, t)
    BY <1>3, <2>3
  <2>5. \A t \in Sids : Bears(p, t)' => t = s
    BY <2>2 DEF Bears
  <2>6. \A t \in Sids : \A q \in Procs \ {p} : Bears(q, t)' => Bears(q, t)
    BY <1>1, OthersBear
  <2>7. logouts[s] = 0 /\ ~Borne(s)
    BY <2>2 DEF SidInv
  <2>8. ASSUME NEW t \in Sids
        PROVE  /\ OneBearer(t)'
               /\ Borne(t)' => t \in used' /\ logouts'[t] = 0
               /\ logouts'[t] <= (IF t \in used' THEN 1 ELSE 0)
    <3>1. /\ \A u \in Users : Open(u, t)' => Open(u, t)
          /\ \A q \in Procs \ {p} : Bears(q, t)' => Bears(q, t)
      BY <2>4, <2>6
    <3>2. OneBearer(t)
      BY DEF SidInv
    <3>5. Borne(t) => t \in used /\ logouts[t] = 0
      BY DEF SidInv
    <3>6. logouts[t] <= (IF t \in used THEN 1 ELSE 0)
      BY DEF SidInv
    <3>3. CASE t = s
      <4>1. OneBearer(t)'
        BY <2>7, <3>1, <3>3 DEF OneBearer, Borne
      <4>. QED
        BY <2>1, <2>3, <2>7, <3>3, <4>1
    <3>4. CASE t # s
      <4>1. \A q \in Procs : Bears(q, t)' => Bears(q, t)
        BY <2>5, <3>1, <3>4
      <4>2. OneBearer(t)'
        BY <3>1, <3>2, <4>1 DEF OneBearer
      <4>3. Borne(t)' => Borne(t)
        BY <3>1, <4>1 DEF Borne
      <4>4. logouts'[t] <= (IF t \in used' THEN 1 ELSE 0)
        BY <2>1, <2>3, <3>4, <3>6
      <4>. QED
        BY <2>1, <2>3, <3>5, <4>2, <4>3, <4>4
    <3>. QED
      BY <3>3, <3>4
  <2>. QED
    BY <2>8 DEF SidInv
<1>15. CASE FindForAmend(p)
  BY <1>2, <1>3, <1>15 DEF FindForAmend, Bears, evVars
<1>16. CASE FindFails(p)
  BY <1>2, <1>3, <1>4, <1>16 DEF FindFails, Finish, Bears
<1>17. CASE Publish(p)
  <2>1. /\ pc[p] = "publish" /\ op[p] = "login" /\ op' = op /\ copy' = copy
        /\ pc'[p] = "event" /\ UNCHANGED evVars /\ who' = who
        /\ \A u \in Users \ {who[p]} : u \in online' => u \in online
        /\ \A u \in Users \ {who[p]} : entry'[u] = entry[u]
        /\ entry'[who[p]] = copy[p]
    BY <1>17 DEF Publish, StepsOK
  <2>2. \A s \in Sids : ~Bears(p, s)'
    BY <2>1 DEF Bears
  <2>3. \A s \in Sids : Open(who[p], s)' => Bears(p, s)
    BY <2>1 DEF Open, Bears
  <2>4. \A s \in Sids : \A u \in Users \ {who[p]} : Open(u, s)' => Open(u, s)
    BY <2>1 DEF Open
  <2>5. \A s \in Sids : \A q \in Procs \ {p} : Bears(q, s)' => Bears(q, s)
    BY <1>1, OthersBear
  <2>6. ASSUME NEW s \in Sids
        PROVE  OneBearer(s)' /\ (Borne(s)' => Borne(s))
    <3>1. /\ \A u \in Users : Open(u, s)' => Open(u, s) \/ (u = who[p] /\ Bears(p, s))
          /\ \A q \in Procs : Bears(q, s)' => Bears(q, s) /\ q # p
      BY <2>1, <2>2, <2>3, <2>4, <2>5
    <3>2. OneBearer(s)
      BY DEF SidInv
    <3>3. Borne(s)' => Borne(s)
      BY <3>1 DEF Borne
    <3>4. OneBearer(s)'
      BY <3>1, <3>2 DEF OneBearer
    <3>. QED
      BY <3>3, <3>4
  <2>. QED
    BY <1>4, <2>1, <2>6 DEF SidInv
<1>18. CASE Credit(p)
  <2>1. op[p] = "bank" /\ UNCHANGED evVars /\ online' = online
    BY <1>18 DEF Credit, StepsOK
  <2>2. \A s \in Sids : ~Bears(p, s)'
    BY <1>18, <2>1 DEF Credit, Finish, Bears
  <2>3. Credited(entry[who[p]], amt[p]).sid = entry[who[p]].sid
    BY CreditedIsEntry
  <2>4. \A u \in Users : entry'[u].sid = entry[u].sid
    BY <1>18, <2>3 DEF Credit
  <2>5. \A s \in Sids : \A u \in Users : Open(u, s)' => Open(u, s)
    BY <2>1, <2>4 DEF Open
  <2>. QED
    BY <1>2, <1>4, <2>1, <2>2, <2>5
<1>19. CASE Save(p) \/ SaveFails(p)
  <2>1. /\ UNCHANGED memVars /\ UNCHANGED evVars /\ op' = op /\ copy' = copy
        /\ pc[p] = "persist"
    BY <1>19 DEF Save, SaveFails
  <2>2. \A s \in Sids : Bears(p, s)' => Bears(p, s)
    BY <2>1 DEF Bears
  <2>. QED
    BY <1>2, <1>3, <1>4, <2>1, <2>2
<1>21. CASE ReadScore(p) \/ ReadScoreFails(p)
  <2>1. /\ UNCHANGED memVars /\ UNCHANGED evVars /\ op' = op /\ copy' = copy
        /\ pc'[p] \in {"event", "score"}
    BY <1>21 DEF ReadScore, ReadScoreFails
  <2>2. \A s \in Sids : Bears(p, s)' => Bears(p, s)
    BY <2>1 DEF Bears
  <2>. QED
    BY <1>2, <1>3, <1>4, <2>1, <2>2
<1>23. CASE AddScore(p) \/ AddScoreFails(p)
  <2>1. UNCHANGED memVars /\ UNCHANGED evVars /\ Scored(p)
    BY <1>23 DEF AddScore, AddScoreFails
  <2>2. \A s \in Sids : Bears(p, s)' => Bears(p, s)
    BY <2>1 DEF Bears, Scored, Finish
  <2>. QED
    BY <1>2, <1>3, <1>4, <2>1, <2>2
<1>25. CASE Record(p)
  <2>1. /\ UNCHANGED memVars /\ used' = used /\ op'[p] = "none"
    BY <1>25 DEF Record, Finish
  <2>2. CASE op[p] # "logout"
    <3>1. logouts' = logouts /\ \A s \in Sids : ~Bears(p, s)'
      BY <1>25, <2>1, <2>2 DEF Record, Bears
    <3>. QED
      BY <1>2, <1>3, <2>1, <3>1
  <2>3. CASE op[p] = "logout"
    <3>1. \A s \in Sids : logouts'[s] = IF s = copy[p].sid THEN logouts[s] + 1
                                        ELSE logouts[s]
      BY <1>25, <2>3 DEF Record
    <3>2. \A s \in Sids : s = copy[p].sid <=> Bears(p, s)
      BY <2>3 DEF Bears
    <3>3. \A s \in Sids : ~Bears(p, s)'
      BY <2>1 DEF Bears
    <3>4. \A s \in Sids : \A u \in Users : Open(u, s)' => Open(u, s)
      BY <1>3, <2>1
    <3>5. \A s \in Sids : \A q \in Procs \ {p} : Bears(q, s)' => Bears(q, s)
      BY <1>1, OthersBear
    <3>6. ASSUME NEW s \in Sids
          PROVE  /\ OneBearer(s)'
                 /\ Borne(s)' => s \in used' /\ logouts'[s] = 0
                 /\ logouts'[s] <= (IF s \in used' THEN 1 ELSE 0)
      <4>0. OneBearer(s)
        BY DEF SidInv
      <4>1. /\ Borne(s) => s \in used /\ logouts[s] = 0
            /\ logouts[s] <= (IF s \in used THEN 1 ELSE 0)
        BY DEF SidInv
      <4>2. /\ \A u \in Users : Open(u, s)' => Open(u, s)
            /\ \A q \in Procs : Bears(q, s)' => Bears(q, s) /\ q # p
        BY <3>3, <3>4, <3>5
      <4>3. OneBearer(s)'
        BY <4>0, <4>2 DEF OneBearer
      <4>4. CASE Bears(p, s)
        <5>1. Borne(s)
          BY <4>4 DEF Borne
        <5>2. s \in used /\ logouts[s] = 0
          BY <4>1, <5>1
        <5>4. s = copy[p].sid
          BY <3>2, <4>4
        <5>5. logouts'[s] = 1
          BY <3>1, <5>2, <5>4
        <5>3. ~Borne(s)'
          BY <4>0, <4>2, <4>4 DEF OneBearer, Borne
        <5>. QED
          BY <2>1, <4>3, <5>2, <5>3, <5>5
      <4>5. CASE ~Bears(p, s)
        <5>1. logouts'[s] = logouts[s]
          BY <3>1, <3>2, <4>5
        <5>2. Borne(s)' => Borne(s)
          BY <4>2 DEF Borne
        <5>. QED
          BY <2>1, <4>1, <4>3, <5>1, <5>2
      <4>. QED
        BY <4>4, <4>5
    <3>. QED
      BY <3>6 DEF SidInv
  <2>. QED
    BY <2>2, <2>3
<1>26. CASE RecordFails(p)
  BY <1>2, <1>3, <1>4, <1>26 DEF RecordFails, Finish, Bears
<1>. QED
  BY <1>6, <1>9, <1>10, <1>11, <1>12, <1>13, <1>14, <1>15, <1>16, <1>17,
     <1>18, <1>19, <1>21, <1>23, <1>25, <1>26 DEF Step

LEMMA SidInvInductive ==
  TypeInv /\ SidInv /\ [Next]_vars => SidInv'
<1>. SUFFICES ASSUME TypeInv, SidInv, [Next]_vars
              PROVE  SidInv'
  OBVIOUS
<1>1. TypeInv'
  BY TypeInvInductive
<1>. USE DEF TypeInv, TypeOK
<1>2. CASE Clock \/ (\E v \in Users : Subscription(v)) \/ UNCHANGED vars
  <2>1. UNCHANGED memVars /\ UNCHANGED evVars /\ UNCHANGED procVars
    BY <1>2 DEF Clock, Subscription, vars, procVars, memVars, evVars
  <2>. QED
    BY <2>1, NoNewBearer DEF memVars, procVars, evVars, Open, Bears
<1>3. CASE Give
  <2>1. online' = online /\ UNCHANGED evVars /\ UNCHANGED procVars
    BY <1>3 DEF Give
  <2>2. \A u \in Users : entry'[u] = entry[u] \/ entry'[u] = Gifted(entry[u])
    BY <1>3 DEF Give
  <2>3. \A u \in Users : entry'[u].sid = entry[u].sid
    BY <2>2, GiftedIsEntry
  <2>4. \A s \in Sids : \A u \in Users : Open(u, s)' => Open(u, s)
    BY <2>1, <2>3 DEF Open
  <2>5. \A s \in Sids : \A q \in Procs : Bears(q, s)' => Bears(q, s)
    BY <2>1 DEF Bears, procVars
  <2>. QED
    BY <2>1, <2>4, <2>5, NoNewBearer DEF evVars
<1>4. CASE Crash
  <2>1. /\ online' = {} /\ UNCHANGED evVars
        /\ \A p \in Procs : op'[p] = "none"
    BY <1>4 DEF Crash
  <2>. QED
    BY <2>1, NoNewBearer DEF evVars, Open, Bears
<1>5. CASE \E p \in Procs : Step(p)
  BY <1>1, <1>5, StepKeepsSids
<1>. QED
  BY <1>2, <1>3, <1>4, <1>5 DEF Next

LEMMA SidInvInitially == Init => SidInv
<1>. SUFFICES ASSUME Init
              PROVE  SidInv
  OBVIOUS
<1>1. /\ online = {} /\ \A p \in Procs : op[p] = "none"
      /\ \A s \in Sids : logouts[s] = 0
  BY DEF Init
<1>. QED
  BY <1>1 DEF SidInv, OneBearer, Borne, Open, Bears

LEMMA SidInvAlways == Spec => []SidInv
BY TypeInvAlways, SidInvInitially, SidInvInductive, PTL DEF Spec

-----------------------------------------------------------------------------
(* The books: logins and logouts pair up *)

\* Between operations a goroutine is in none.
Resting(p) == pc[p] = "idle" <=> op[p] = "none"

RestInv == \A p \in Procs : Resting(p)

LEMMA StepRests ==
  ASSUME TypeInv, RestInv, NEW p \in Procs, Step(p)
  PROVE  RestInv'
<1>. USE DEF TypeInv, TypeOK
<1>1. \A q \in Procs \ {p} : Resting(q)'
  BY OthersStayPut DEF OthersStay, RestInv, Resting
<1>2. Resting(p)
  BY DEF RestInv
<1>3. Resting(p)'
  <2>1. CASE StartTick(p) \/ StartCheckpoint(p) \/ CancelJobs(p) \/ StartShutdown(p)
    BY <1>2, <2>1
       DEF StartTick, StartCheckpoint, CancelJobs, StartShutdown, procVars,
           Resting
  <2>2. CASE LogoutNext(p)
    BY <1>2, <2>2 DEF LogoutNext, ClaimNothing, Claim, Resting
  <2>3. CASE LoginNext(p)
    BY <1>2, <2>3 DEF LoginNext, BeginLogin, Resting
  <2>4. CASE MeasureNext(p)
    BY <1>2, <2>4 DEF MeasureNext, Resting
  <2>5. CASE \E v \in Users : ChatLogin(p, v)
    BY <1>2, <2>5 DEF ChatLogin, BeginLogin, Resting
  <2>6. CASE \E v \in Users, d \in Deltas : CorrectMiles(p, v, d)
    BY <1>2, <2>6 DEF CorrectMiles, CorrectLive, CorrectOffline, Resting
  <2>7. CASE FindForLogin(p) \/ FindForAmend(p)
    BY <1>2, <2>7 DEF FindForLogin, FindForAmend, Resting
  <2>8. CASE FindFails(p) \/ Record(p) \/ RecordFails(p)
    BY <2>8 DEF FindFails, Record, RecordFails, Finish, Resting
  <2>9. CASE Publish(p)
    BY <1>2, <2>9 DEF Publish, Resting
  <2>10. CASE Credit(p)
    BY <1>2, <2>10 DEF Credit, Finish, Resting
  <2>11. CASE Save(p) \/ SaveFails(p)
    BY <1>2, <2>11, AfterSaveIsStep DEF Save, SaveFails, Resting
  <2>12. CASE ReadScore(p) \/ ReadScoreFails(p)
    BY <1>2, <2>12 DEF ReadScore, ReadScoreFails, Resting
  <2>13. CASE AddScore(p) \/ AddScoreFails(p)
    BY <1>2, <2>13 DEF AddScore, AddScoreFails, Scored, Finish, Resting
  <2>. QED
    BY <2>1, <2>2, <2>3, <2>4, <2>5, <2>6, <2>7, <2>8, <2>9, <2>10, <2>11,
       <2>12, <2>13 DEF Step
<1>. QED
  BY <1>1, <1>3 DEF RestInv

LEMMA RestInvInductive == TypeInv /\ RestInv /\ [Next]_vars => RestInv'
<1>. SUFFICES ASSUME TypeInv, RestInv, [Next]_vars
              PROVE  RestInv'
  OBVIOUS
<1>1. CASE Clock \/ (\E v \in Users : Subscription(v)) \/ Give \/ UNCHANGED vars
  BY <1>1 DEF Clock, Subscription, Give, vars, procVars, RestInv, Resting
<1>2. CASE Crash
  BY <1>2 DEF Crash, RestInv, Resting
<1>3. CASE \E p \in Procs : Step(p)
  BY <1>3, StepRests
<1>. QED
  BY <1>1, <1>2, <1>3 DEF Next

LEMMA RestInvAlways == Spec => []RestInv
<1>1. Init => RestInv
  BY DEF Init, RestInv, Resting
<1>. QED
  BY <1>1, TypeInvAlways, RestInvInductive, PTL DEF Spec

\* The events table has u's session s open, or will when p has logged it.
Opened(u, s) ==
  \/ <<u, s>> \in logins
  \/ \E p \in Procs : /\ op[p] = "login" /\ pc[p] = "event"
                      /\ who[p] = u /\ copy[p].sid = s

\* p is about to log that u's session s is over.
Closes(p, u, s) == op[p] = "logout" /\ who[p] = u /\ copy[p].sid = s

\* A session that was opened and is not closed is the live one, or on its way
\* to the events table.
Paired(u, s) ==
  Opened(u, s) /\ logouts[s] = 0 =>
    Open(u, s) \/ \E p \in Procs : Closes(p, u, s)

PairsInv ==
  ~faulted => \A u \in Users \ disturbed : \A s \in Sids : Paired(u, s)

\* A step that opens no session of u, and closes none.
LEMMA PairKept ==
  ASSUME NEW p \in Procs, OthersStay(p), NEW u \in Users, NEW s \in Sids,
         Paired(u, s), Opened(u, s)' => Opened(u, s),
         logouts'[s] = 0 => logouts[s] = 0,
         Open(u, s) => Open(u, s)' \/ Closes(p, u, s)',
         Closes(p, u, s) => Closes(p, u, s)' \/ logouts'[s] # 0
  PROVE  Paired(u, s)'
<1>1. \A q \in Procs \ {p} : Closes(q, u, s) => Closes(q, u, s)'
  BY DEF OthersStay, Closes
<1>. QED
  BY <1>1 DEF Paired

LEMMA OpenedElsewhere ==
  ASSUME NEW p \in Procs, OthersStay(p), NEW u \in Users, NEW s \in Sids,
         <<u, s>> \in logins' => Opened(u, s),
         (op'[p] = "login" /\ pc'[p] = "event"
          /\ who'[p] = u /\ copy'[p].sid = s) => Opened(u, s)
  PROVE  Opened(u, s)' => Opened(u, s)
<1>1. ASSUME NEW q \in Procs \ {p}, op'[q] = "login", pc'[q] = "event",
             who'[q] = u, copy'[q].sid = s
      PROVE  Opened(u, s)
  BY <1>1 DEF OthersStay, Opened
<1>. QED
  BY <1>1 DEF Opened

LEMMA StepPairs ==
  ASSUME TypeInv, TypeInv', RestInv, BalancesInv, NEW p \in Procs, Step(p),
         ~faulted',
         NEW u \in Users, u \notin disturbed', Accounted(u),
         NEW s \in Sids, Paired(u, s)
  PROVE  Paired(u, s)'
<1>. USE DEF TypeInv, TypeOK
<1>1. OthersStay(p)
  BY OthersStayPut
<1>. DEFINE Quiet == ~(op'[p] = "login" /\ pc'[p] = "event")
<1>2. ASSUME logins' = logins, logouts' = logouts, Quiet, op[p] # "logout",
             Open(u, s) => Open(u, s)' \/ Closes(p, u, s)'
      PROVE  Paired(u, s)'
  <2>1. Opened(u, s)' => Opened(u, s)
    <3>1. <<u, s>> \in logins' => Opened(u, s)
      BY <1>2 DEF Opened
    <3>. QED
      BY <1>1, <1>2, <3>1, OpenedElsewhere
  <2>. QED
    BY <1>1, <1>2, <2>1, PairKept DEF Closes
<1>3. UNCHANGED memVars => (Open(u, s) => Open(u, s)')
  BY DEF memVars, Open
<1>4. UNCHANGED evVars => logins' = logins /\ logouts' = logouts
  BY DEF evVars
<1>5. pc[p] = "idle" => op[p] = "none"
  BY DEF RestInv, Resting
<1>6. CASE StartTick(p) \/ StartCheckpoint(p) \/ StartShutdown(p)
  <2>1. /\ UNCHANGED memVars /\ UNCHANGED evVars /\ pc' = pc /\ op' = op
        /\ pc[p] = "idle"
    BY <1>6 DEF StartTick, StartCheckpoint, StartShutdown, AtRest
  <2>. QED
    BY <1>2, <1>3, <1>4, <1>5, <2>1
<1>7. CASE CancelJobs(p)
  BY <1>7 DEF CancelJobs
<1>9. CASE LogoutNext(p)
  <2>1. PICK v \in outs[p] : ClaimNothing(p, v) \/ Claim(p, v)
    BY <1>9 DEF LogoutNext
  <2>2. /\ v \in Users /\ UNCHANGED evVars /\ op[p] = "none" /\ pc[p] = "idle"
    BY <1>5, <1>9 DEF LogoutNext
  <2>3. CASE ClaimNothing(p, v)
    <3>1. UNCHANGED memVars /\ Quiet
      BY <2>2, <2>3 DEF ClaimNothing
    <3>. QED
      BY <1>2, <1>3, <1>4, <2>2, <3>1
  <2>4. CASE Claim(p, v)
    <3>. DEFINE m == InFlight(entry[v], v)
    <3>1. m \in Int /\ entry[v] \in User
      BY <2>2, MilesAreIntegers
    <3>2. /\ copy'[p] = WithMiles(entry[v], m)
          /\ op'[p] = "logout" /\ who'[p] = v
          /\ online' = online \ {v} /\ entry' = [entry EXCEPT ![v] = Blank]
      BY <2>4 DEF Claim, Evict
    <3>. HIDE DEF m
    <3>3. WithMiles(entry[v], m).sid = entry[v].sid
      BY <3>1, WithMilesIsEntry
    <3>4. Open(u, s) => Open(u, s)' \/ Closes(p, u, s)'
      BY <2>2, <3>2, <3>3 DEF Open, Closes
    <3>5. Quiet
      BY <3>2
    <3>. QED
      BY <1>2, <1>4, <2>2, <3>4, <3>5
  <2>. QED
    BY <2>1, <2>3, <2>4
<1>10. CASE LoginNext(p)
  <2>1. /\ UNCHANGED memVars /\ UNCHANGED evVars /\ pc[p] = "idle"
        /\ pc'[p] \in {"idle", "find"}
    BY <1>10 DEF LoginNext, BeginLogin
  <2>. QED
    BY <1>2, <1>3, <1>4, <1>5, <2>1
<1>11. CASE MeasureNext(p)
  <2>1. /\ UNCHANGED memVars /\ UNCHANGED evVars /\ pc[p] = "idle"
        /\ pc'[p] \in {"idle", "credit"}
    BY <1>11 DEF MeasureNext
  <2>. QED
    BY <1>2, <1>3, <1>4, <1>5, <2>1
<1>12. CASE \E v \in Users : ChatLogin(p, v)
  <2>1. /\ UNCHANGED memVars /\ UNCHANGED evVars /\ pc[p] = "idle"
        /\ pc'[p] = "find"
    BY <1>12 DEF ChatLogin, BeginLogin
  <2>. QED
    BY <1>2, <1>3, <1>4, <1>5, <2>1
<1>13. CASE \E v \in Users, d \in Deltas : CorrectMiles(p, v, d)
  <2>1. PICK v \in Users, d \in Deltas : CorrectMiles(p, v, d)
    BY <1>13
  <2>2. /\ UNCHANGED evVars /\ online' = online /\ pc[p] = "idle"
        /\ pc'[p] \in {"persist", "find"}
    BY <2>1 DEF CorrectMiles, CorrectLive, CorrectOffline
  <2>3. entry'[u].sid = entry[u].sid
    <3>. DEFINE delta == ClampClawback(entry[v].miles, d)
    <3>1. d \in Int /\ entry[v] \in User /\ entry[v].miles \in Int
      BY ConstantsOK DEF User
    <3>2. delta \in Int
      BY <3>1, ClampIsInteger
    <3>3. entry' = [entry EXCEPT ![v] = WithMiles(entry[v], delta)] \/ entry' = entry
      BY <2>1 DEF CorrectMiles, CorrectLive, CorrectOffline
    <3>. HIDE DEF delta
    <3>4. WithMiles(entry[v], delta).sid = entry[v].sid
      BY <3>1, <3>2, WithMilesIsEntry
    <3>. QED
      BY <3>3, <3>4
  <2>4. Open(u, s) => Open(u, s)'
    BY <2>2, <2>3 DEF Open
  <2>. QED
    BY <1>2, <1>4, <1>5, <2>2, <2>4
<1>14. CASE FindForLogin(p) \/ FindForAmend(p)
  <2>1. /\ UNCHANGED memVars /\ logins' = logins /\ logouts' = logouts
        /\ op[p] # "logout" /\ pc'[p] = "persist"
    BY <1>14 DEF FindForLogin, FindForAmend, evVars
  <2>. QED
    BY <1>2, <1>3, <2>1
<1>16. CASE FindFails(p)
  <2>1. /\ UNCHANGED memVars /\ UNCHANGED evVars /\ op[p] # "logout"
        /\ pc'[p] = "idle"
    BY <1>16 DEF FindFails, Finish, StepsOK
  <2>. QED
    BY <1>2, <1>3, <1>4, <2>1
<1>17. CASE Publish(p)
  <2>1. /\ pc[p] = "publish" /\ op[p] = "login" /\ op' = op /\ copy' = copy
        /\ who' = who /\ UNCHANGED evVars /\ pc'[p] = "event"
        /\ online' = online \cup {who[p]}
        /\ entry' = [entry EXCEPT ![who[p]] = copy[p]]
    BY <1>17 DEF Publish, StepsOK
  <2>2. CASE who[p] # u
    <3>1. Open(u, s) => Open(u, s)'
      BY <2>1, <2>2 DEF Open
    <3>2. logins' = logins /\ logouts' = logouts
      BY <1>4, <2>1
    <3>3. Opened(u, s)' => Opened(u, s)
      <4>1. <<u, s>> \in logins' => Opened(u, s)
        BY <3>2 DEF Opened
      <4>2. who'[p] # u
        BY <2>1, <2>2
      <4>. QED
        BY <1>1, <4>1, <4>2, OpenedElsewhere
    <3>. QED
      BY <1>1, <2>1, <3>1, <3>2, <3>3, PairKept DEF Closes
  <2>3. CASE who[p] = u
    <3>1. u \notin online
      BY <2>1, <2>3 DEF Accounted, CopyAccounted, Holds
    <3>2. CASE copy[p].sid = s
      BY <2>1, <2>3, <3>2 DEF Open, Paired
    <3>3. CASE copy[p].sid # s
      <4>1. logins' = logins /\ logouts' = logouts /\ ~Open(u, s)
        BY <1>4, <2>1, <3>1 DEF Open
      <4>2. Opened(u, s)' => Opened(u, s)
        <5>1. <<u, s>> \in logins' => Opened(u, s)
          BY <4>1 DEF Opened
        <5>2. copy'[p].sid # s
          BY <2>1, <3>3
        <5>. QED
          BY <1>1, <5>1, <5>2, OpenedElsewhere
      <4>. QED
        BY <1>1, <2>1, <4>1, <4>2, PairKept DEF Closes
    <3>. QED
      BY <3>2, <3>3
  <2>. QED
    BY <2>2, <2>3
<1>18. CASE Credit(p)
  <2>1. op[p] = "bank" /\ UNCHANGED evVars /\ online' = online
        /\ pc'[p] \in {"persist", "idle"}
    BY <1>18 DEF Credit, StepsOK, Finish
  <2>2. Credited(entry[who[p]], amt[p]).sid = entry[who[p]].sid
    BY CreditedIsEntry
  <2>3. entry'[u].sid = entry[u].sid
    BY <1>18, <2>2 DEF Credit
  <2>4. Open(u, s) => Open(u, s)'
    BY <2>1, <2>3 DEF Open
  <2>. QED
    BY <1>2, <1>4, <2>1, <2>4
<1>19. CASE Save(p) \/ ReadScore(p)
  <2>1. /\ UNCHANGED memVars /\ logins' = logins /\ logouts' = logouts
        /\ op' = op /\ copy' = copy /\ who' = who
    BY <1>19 DEF Save, ReadScore, evVars
  <2>2. Quiet
    BY <1>1, <1>19, AfterSaveIsStep
       DEF Save, ReadScore, BalancesInv, Balanced
  <2>3. Opened(u, s)' => Opened(u, s)
    <3>1. <<u, s>> \in logins' => Opened(u, s)
      BY <2>1 DEF Opened
    <3>. QED
      BY <1>1, <2>2, <3>1, OpenedElsewhere
  <2>. QED
    BY <1>1, <1>3, <2>1, <2>3, PairKept DEF Closes
<1>20. CASE SaveFails(p) \/ ReadScoreFails(p) \/ AddScoreFails(p) \/ RecordFails(p)
  BY <1>20 DEF SaveFails, ReadScoreFails, AddScoreFails, RecordFails, Fault
<1>23. CASE AddScore(p)
  <2>1. /\ UNCHANGED memVars /\ logins' = logins /\ logouts' = logouts
        /\ who' = who /\ op[p] # "login" /\ Scored(p)
    BY <1>23 DEF AddScore, BalancesInv, Balanced, evVars
  <2>2. CASE op[p] = "bank"
    <3>1. Quiet
      BY <2>1, <2>2 DEF Scored, Finish
    <3>. QED
      BY <1>2, <1>3, <2>1, <2>2, <3>1
  <2>3. CASE op[p] # "bank"
    <3>1. op' = op /\ copy' = copy
      BY <2>1, <2>3 DEF Scored
    <3>2. Opened(u, s)' => Opened(u, s)
      <4>1. op'[p] # "login"
        BY <2>1, <3>1
      <4>2. <<u, s>> \in logins' => Opened(u, s)
        BY <2>1 DEF Opened
      <4>. QED
        BY <1>1, <4>1, <4>2, OpenedElsewhere
    <3>. QED
      BY <1>1, <1>3, <2>1, <3>1, <3>2, PairKept DEF Closes
  <2>. QED
    BY <2>2, <2>3
<1>25. CASE Record(p)
  <2>1. /\ UNCHANGED memVars /\ op'[p] = "none" /\ pc[p] = "event"
    BY <1>25 DEF Record, Finish
  <2>2. <<u, s>> \in logins' => Opened(u, s)
    BY <1>25, <2>1 DEF Record, Opened
  <2>3. Opened(u, s)' => Opened(u, s)
    BY <1>1, <2>1, <2>2, OpenedElsewhere
  <2>4. logouts'[s] = IF op[p] = "logout" /\ copy[p].sid = s
                      THEN logouts[s] + 1 ELSE logouts[s]
    BY <1>25 DEF Record
  <2>5. logouts[s] \in Nat
    OBVIOUS
  <2>6. logouts'[s] = 0 => logouts[s] = 0
    BY <2>4, <2>5
  <2>7. Closes(p, u, s) => logouts'[s] # 0
    BY <2>4, <2>5 DEF Closes
  <2>. QED
    BY <1>1, <1>3, <2>1, <2>3, <2>6, <2>7, PairKept
<1>. QED
  BY <1>6, <1>7, <1>9, <1>10, <1>11, <1>12, <1>13, <1>14, <1>16, <1>17,
     <1>18, <1>19, <1>20, <1>23, <1>25 DEF Step

\* faulted is never taken back.
LEMMA FaultedStays ==
  ASSUME NEW p \in Procs, Step(p)
  PROVE  faulted => faulted'
BY DEF Step, StartTick, StartCheckpoint, CancelJobs, StartShutdown, LogoutNext,
   LoginNext, MeasureNext, ChatLogin, CorrectMiles, FindForLogin, FindForAmend,
   FindFails, Publish, Credit, Save, SaveFails, ReadScore, ReadScoreFails,
   AddScore, AddScoreFails, Record, RecordFails, Fault

LEMMA PairsInvInductive ==
  TypeInv /\ BalancesInv /\ RestInv /\ MilesInv /\ PairsInv /\ [Next]_vars
    => PairsInv'
<1>. SUFFICES ASSUME TypeInv, BalancesInv, RestInv, MilesInv, PairsInv,
                     [Next]_vars, ~faulted',
                     NEW u \in Users, u \notin disturbed', NEW s \in Sids
              PROVE  Paired(u, s)'
  BY DEF PairsInv
<1>1. TypeInv'
  BY TypeInvInductive
<1>. USE DEF TypeInv, TypeOK
<1>2. CASE Clock \/ (\E v \in Users : Subscription(v)) \/ UNCHANGED vars
  <2>1. /\ UNCHANGED memVars /\ UNCHANGED evVars /\ UNCHANGED procVars
        /\ faulted' = faulted /\ disturbed' = disturbed
    BY <1>2 DEF Clock, Subscription, vars
  <2>2. Paired(u, s)
    BY <2>1 DEF PairsInv
  <2>. QED
    BY <2>1, <2>2 DEF memVars, procVars, evVars, Paired, Opened, Open, Closes
<1>3. CASE Give
  <2>1. /\ online' = online /\ UNCHANGED evVars /\ UNCHANGED procVars
        /\ faulted' = faulted /\ disturbed' = disturbed
        /\ entry'[u] = entry[u] \/ entry'[u] = Gifted(entry[u])
    BY <1>3 DEF Give
  <2>2. entry'[u].sid = entry[u].sid
    BY <2>1, GiftedIsEntry
  <2>3. Paired(u, s)
    BY <2>1 DEF PairsInv
  <2>. QED
    BY <2>1, <2>2, <2>3 DEF procVars, evVars, Paired, Opened, Open, Closes
<1>4. CASE Crash
  BY <1>4 DEF Crash
<1>5. ASSUME NEW p \in Procs, Step(p)
      PROVE  Paired(u, s)'
  <2>1. ~faulted /\ u \notin disturbed
    BY <1>5, FaultedStays, OthersStayPut DEF OthersStay
  <2>2. Accounted(u) /\ Paired(u, s)
    BY <2>1 DEF MilesInv, PairsInv
  <2>. QED
    BY <1>1, <1>5, <2>2, StepPairs
<1>. QED
  BY <1>2, <1>3, <1>4, <1>5 DEF Next

LEMMA MilesInvAlways == Spec => []MilesInv
BY TypeInvAlways, MilesInvInitially, MilesInvInductive, PTL DEF Spec

LEMMA PairsInvAlways == Spec => []PairsInv
<1>1. Init => PairsInv
  BY DEF Init, PairsInv, Paired, Opened
<1>. QED
  BY <1>1, TypeInvAlways, BalancesInvAlways, RestInvAlways, MilesInvAlways,
     PairsInvInductive, PTL DEF Spec

-----------------------------------------------------------------------------
(* The books: what the row lacks *)

\* How gifts are remembered in the entries the operations build.
LEMMA ExtraOfEntries ==
  ASSUME TypeOK, NEW u \in Users, NEW e \in User, NEW m \in Int, NEW s \in Sids
  PROVE  /\ WithMiles(e, m).extra = e.extra
         /\ Credited(e, m).extra = e.extra
         /\ Gifted(e).extra = e.extra + Gift
         /\ FreshSession(s, u).extra = 0
<1>1. Gift \in Int
  BY ConstantsOK
<1>2. WithMiles(e, m) \in User /\ WithMiles(e, Gift) \in User
  BY <1>1, WithMilesIsEntry
<1>3. WithMiles(e, m).extra = e.extra /\ WithMiles(e, Gift).extra = e.extra
  BY <1>1 DEF User, WithMiles
<1>4. Credited(e, m).extra = e.extra
  BY <1>2, <1>3 DEF User, Credited
<1>5. Gifted(e).extra = e.extra + Gift
  BY <1>1, <1>2, <1>3 DEF User, Gifted
<1>. QED
  BY <1>3, <1>4, <1>5 DEF FreshSession

\* A figure of m miles lacks gifts of u's session, and nothing else.
Lacks(m, u) == entry[u].miles - m \in 0 .. entry[u].extra

\* What the operation p knows of the gifts, when p works on u's row.
GiftsHeld(p, u) ==
  Holds(p, u) =>
    /\ pc[p] = "credit" => Lacks(row[u], u)
    /\ op[p] \in {"bank", "correct"} /\ pc[p] = "persist"
         => Lacks(copy[p].miles, u)
    /\ op[p] = "login" /\ pc[p] # "find" => copy[p].extra = 0

GiftsOf(u) ==
  /\ u \in online /\ (\A p \in Procs : ~Holds(p, u)) => Lacks(row[u], u)
  /\ \A p \in Procs : GiftsHeld(p, u)

GiftsInv == ~faulted => \A u \in Users \ disturbed : GiftsOf(u)

\* A step that is not about u.
LEMMA GiftsElsewhere ==
  ASSUME NEW u \in Users, NEW p \in Procs, GiftsOf(u), OthersStay(p),
         SameMiles(u), ~Holds(p, u), ~Holds(p, u)'
  PROVE  GiftsOf(u)'
<1>1. \A q \in Procs : Holds(q, u)' <=> Holds(q, u)
  BY DEF OthersStay, Holds
<1>2. \A m : Lacks(m, u)' <=> Lacks(m, u)
  BY DEF Lacks, SameMiles
<1>3. ASSUME NEW q \in Procs
      PROVE  GiftsHeld(q, u)'
  <2>1. CASE Holds(q, u)'
    <3>1. /\ Holds(q, u) /\ q # p /\ pc'[q] = pc[q] /\ op'[q] = op[q]
          /\ copy'[q] = copy[q] /\ row'[u] = row[u] /\ entry'[u] = entry[u]
      BY <1>1, <2>1 DEF OthersStay, SameMiles
    <3>2. GiftsHeld(q, u)
      BY DEF GiftsOf
    <3>. QED
      BY <3>1, <3>2 DEF GiftsHeld, Lacks
  <2>2. CASE ~Holds(q, u)'
    BY <2>2 DEF GiftsHeld
  <2>. QED
    BY <2>1, <2>2
<1>4. u \in online' /\ (\A q \in Procs : ~Holds(q, u)') => Lacks(row[u], u)'
  BY <1>1 DEF GiftsOf, SameMiles, Lacks
<1>. QED
  BY <1>3, <1>4 DEF GiftsOf

\* A step of the only operation on u.
LEMMA GiftsAlone ==
  ASSUME NEW u \in Users, NEW p \in Procs, OthersStay(p),
         \A q \in Procs \ {p} : ~Holds(q, u), GiftsHeld(p, u)',
         u \in online' /\ ~Holds(p, u)' => Lacks(row[u], u)'
  PROVE  GiftsOf(u)'
<1>1. \A q \in Procs \ {p} : ~Holds(q, u)'
  BY DEF OthersStay, Holds
<1>. QED
  BY <1>1 DEF GiftsOf, GiftsHeld

LEMMA StepKeepsGifts ==
  ASSUME TypeInv, TypeInv', NEW p \in Procs, Step(p), ~faulted',
         NEW u \in Users, u \notin disturbed', Accounted(u), GiftsOf(u)
  PROVE  GiftsOf(u)'
<1>. USE DEF TypeInv, TypeOK
<1>1. OthersStay(p)
  BY OthersStayPut
<1>2. SameMiles(u) /\ ~Holds(p, u) /\ ~Holds(p, u)' => GiftsOf(u)'
  BY <1>1, GiftsElsewhere
<1>3. ASSUME \A q \in Procs \ {p} : ~Holds(q, u), GiftsHeld(p, u)',
             u \in online' /\ ~Holds(p, u)' => Lacks(row[u], u)'
      PROVE  GiftsOf(u)'
  BY <1>1, <1>3, GiftsAlone
<1>4. Holds(p, u) => \A q \in Procs \ {p} : ~Holds(q, u)
  BY DEF Accounted, OneHolder
<1>5. /\ entry[u] \in User /\ entry[u].miles \in Int /\ entry[u].extra \in Int
      /\ row[u] \in Int
  BY DEF User
<1>6. CASE StartTick(p) \/ StartCheckpoint(p) \/ CancelJobs(p) \/ StartShutdown(p)
  <2>1. /\ UNCHANGED memVars /\ UNCHANGED dbVars /\ pc' = pc /\ op' = op
        /\ who' = who /\ copy' = copy
    BY <1>6 DEF StartTick, StartCheckpoint, CancelJobs, StartShutdown, procVars
  <2>. QED
    BY <2>1 DEF GiftsOf, GiftsHeld, Lacks, Holds, memVars, dbVars
<1>9. CASE LogoutNext(p)
  <2>1. PICK v \in outs[p] : ClaimNothing(p, v) \/ Claim(p, v)
    BY <1>9 DEF LogoutNext
  <2>2. pc[p] = "idle" /\ v \in Users
    BY <1>9, <2>1 DEF LogoutNext
  <2>3. CASE ClaimNothing(p, v)
    <3>1. SameMiles(u) /\ ~Holds(p, u) /\ ~Holds(p, u)'
      BY <1>9, <2>2, <2>3
         DEF LogoutNext, ClaimNothing, SameMiles, Holds, memVars, dbVars,
             dueVars
    <3>. QED
      BY <1>2, <3>1
  <2>4. CASE Claim(p, v) /\ v # u
    <3>1. SameMiles(u) /\ ~Holds(p, u) /\ ~Holds(p, u)'
      BY <1>9, <2>2, <2>4
         DEF LogoutNext, Claim, Evict, SameMiles, Holds, dbVars
    <3>. QED
      BY <1>2, <3>1
  <2>5. CASE Claim(p, v) /\ v = u
    <3>1. /\ Take(p, u) /\ u \notin online'
          /\ pc'[p] = "persist" /\ op'[p] = "logout"
      BY <2>5 DEF Claim, Evict
    <3>2. \A q \in Procs : ~Holds(q, u)
      BY <2>2, <3>1, TakenAtRest
    <3>3. GiftsHeld(p, u)'
      BY <3>1 DEF GiftsHeld
    <3>. QED
      BY <1>3, <3>1, <3>2, <3>3
  <2>. QED
    BY <2>1, <2>3, <2>4, <2>5
<1>10. CASE LoginNext(p) \/ \E v \in Users : ChatLogin(p, v)
  <2>0. pc[p] = "idle" /\ SameMiles(u)
    BY <1>10
       DEF LoginNext, ChatLogin, SameMiles, memVars, dbVars, dueVars
  <2>1. CASE ~BeginLogin(p, u)
    <3>1. ~Holds(p, u) /\ ~Holds(p, u)'
      BY <1>10, <2>0, <2>1 DEF LoginNext, ChatLogin, BeginLogin, Holds
    <3>. QED
      BY <1>2, <2>0, <3>1
  <2>2. CASE BeginLogin(p, u)
    <3>1. /\ u \notin online /\ Take(p, u) /\ pc'[p] = "find" /\ op'[p] = "login"
      BY <2>2 DEF BeginLogin, Absent
    <3>2. \A q \in Procs : ~Holds(q, u)
      BY <2>0, <3>1, TakenAtRest
    <3>3. GiftsHeld(p, u)' /\ u \notin online'
      BY <2>0, <3>1 DEF GiftsHeld, SameMiles
    <3>. QED
      BY <1>3, <3>2, <3>3
  <2>. QED
    BY <2>1, <2>2
<1>11. CASE MeasureNext(p)
  <2>1. CASE ~(who'[p] = u /\ pc'[p] = "credit")
    <3>1. SameMiles(u) /\ ~Holds(p, u) /\ ~Holds(p, u)'
      BY <1>11, <2>1
         DEF MeasureNext, SameMiles, Holds, memVars, dbVars, dueVars
    <3>. QED
      BY <1>2, <3>1
  <2>2. CASE who'[p] = u /\ pc'[p] = "credit"
    <3>1. u \in online /\ Take(p, u) /\ pc[p] = "idle" /\ op'[p] = "bank"
      BY <1>11, <2>2 DEF MeasureNext
    <3>2. \A q \in Procs : ~Holds(q, u)
      BY <3>1, TakenAtRest
    <3>3. Lacks(row[u], u)
      BY <3>1, <3>2 DEF GiftsOf
    <3>4. Lacks(row[u], u)'
      BY <1>11, <3>3 DEF MeasureNext, memVars, dbVars, Lacks
    <3>5. GiftsHeld(p, u)'
      BY <2>2, <3>1, <3>4 DEF GiftsHeld
    <3>. QED
      BY <1>3, <3>2, <3>4, <3>5
  <2>. QED
    BY <2>1, <2>2
<1>13. CASE \E v \in Users, d \in Deltas : CorrectMiles(p, v, d)
  <2>1. PICK v \in Users, d \in Deltas : CorrectMiles(p, v, d)
    BY <1>13
  <2>2. CASE v # u
    <3>1. SameMiles(u) /\ ~Holds(p, u) /\ ~Holds(p, u)'
      BY <2>1, <2>2 DEF CorrectMiles, CorrectLive, CorrectOffline, SameMiles,
         Holds, dbVars
    <3>. QED
      BY <1>2, <3>1
  <2>3. CASE v = u
    <3>1. /\ Take(p, u) /\ pc[p] = "idle" /\ who'[p] = u
          /\ CorrectLive(p, u, d) \/ CorrectOffline(p, u, d)
          /\ online' = online /\ row' = row
      BY <2>1, <2>3 DEF CorrectMiles, dbVars
    <3>2. \A q \in Procs : ~Holds(q, u)
      BY <3>1, TakenAtRest
    <3>3. CASE CorrectLive(p, u, d)
      <4>. DEFINE delta == ClampClawback(entry[u].miles, d)
      <4>1. d \in Int
        BY ConstantsOK
      <4>2. delta \in Int
        BY <1>5, <4>1, ClampIsInteger
      <4>3. /\ u \in online /\ entry'[u] = WithMiles(entry[u], delta)
            /\ copy'[p] = WithMiles(entry[u], delta)
            /\ pc'[p] = "persist" /\ op'[p] = "correct"
        BY <3>3 DEF CorrectLive
      <4>. HIDE DEF delta
      <4>4. /\ WithMiles(entry[u], delta).miles = entry[u].miles + delta
            /\ WithMiles(entry[u], delta).extra = entry[u].extra
        BY <1>5, <4>2, WithMilesIsEntry, ExtraOfEntries DEF WithMiles
      <4>5. Lacks(row[u], u)
        BY <3>2, <4>3 DEF GiftsOf
      <4>6. entry[u].extra >= 0
        BY <1>5, <4>5 DEF Lacks
      <4>7. entry'[u].miles = copy'[p].miles /\ entry'[u].extra >= 0
            /\ entry'[u].miles \in Int
        BY <1>5, <4>2, <4>3, <4>4, <4>6
      <4>8. entry'[u].miles - copy'[p].miles \in 0 .. entry'[u].extra
        BY <4>7 DEF User
      <4>9. GiftsHeld(p, u)' /\ Holds(p, u)'
        BY <3>1, <4>3, <4>8 DEF GiftsHeld, Holds, Lacks
      <4>. QED
        BY <1>3, <3>2, <4>9
    <3>4. CASE CorrectOffline(p, u, d)
      <4>1. u \notin online' /\ pc'[p] = "find" /\ op'[p] = "amend"
        BY <3>1, <3>4 DEF CorrectOffline
      <4>2. GiftsHeld(p, u)'
        BY <4>1 DEF GiftsHeld
      <4>. QED
        BY <1>3, <3>2, <4>1, <4>2
    <3>. QED
      BY <3>1, <3>3, <3>4
  <2>. QED
    BY <2>2, <2>3
<1>14. CASE FindForLogin(p)
  <2>1. CASE who[p] # u
    <3>1. SameMiles(u) /\ ~Holds(p, u) /\ ~Holds(p, u)'
      BY <1>14, <2>1
         DEF FindForLogin, SameMiles, Holds, memVars, dbVars, dueVars
    <3>. QED
      BY <1>2, <3>1
  <2>2. CASE who[p] = u
    <3>1. PICK s \in FreshSids : copy'[p] = FreshSession(s, u)
      BY <1>14, <2>2 DEF FindForLogin
    <3>2. copy'[p].extra = 0
      BY <3>1 DEF FreshSession
    <3>3. /\ Holds(p, u) /\ SameMiles(u) /\ op[p] = "login" /\ op'[p] = "login"
          /\ pc'[p] = "persist"
      BY <1>14, <2>2
         DEF FindForLogin, Holds, SameMiles, memVars, dbVars, dueVars
    <3>4. u \notin online'
      BY <3>3 DEF Accounted, CopyAccounted, SameMiles
    <3>5. GiftsHeld(p, u)'
      BY <3>2, <3>3 DEF GiftsHeld
    <3>. QED
      BY <1>3, <1>4, <3>3, <3>4, <3>5
  <2>. QED
    BY <2>1, <2>2
<1>15. CASE FindForAmend(p)
  <2>1. CASE who[p] # u
    <3>1. SameMiles(u) /\ ~Holds(p, u) /\ ~Holds(p, u)'
      BY <1>15, <2>1
         DEF FindForAmend, SameMiles, Holds, memVars, dbVars, dueVars
    <3>. QED
      BY <1>2, <3>1
  <2>2. CASE who[p] = u
    <3>1. /\ Holds(p, u) /\ SameMiles(u) /\ op[p] = "amend" /\ op'[p] = "amend"
          /\ pc'[p] = "persist"
      BY <1>15, <2>2
         DEF FindForAmend, Holds, SameMiles, memVars, dbVars, dueVars
    <3>2. u \notin online' /\ GiftsHeld(p, u)'
      BY <3>1 DEF Accounted, CopyAccounted, GiftsHeld, SameMiles
    <3>. QED
      BY <1>3, <1>4, <3>1, <3>2
  <2>. QED
    BY <2>1, <2>2
<1>16. CASE FindFails(p)
  <2>1. SameMiles(u) /\ ~Holds(p, u)'
    BY <1>16
       DEF FindFails, SameMiles, Holds, Finish, memVars, dbVars, dueVars
  <2>2. CASE Holds(p, u)
    <3>1. u \notin online'
      BY <1>16, <2>1, <2>2
         DEF FindFails, StepsOK, Accounted, CopyAccounted, SameMiles
    <3>. QED
      BY <1>3, <1>4, <2>1, <2>2, <3>1 DEF GiftsHeld
  <2>. QED
    BY <1>2, <2>1, <2>2
<1>17. CASE Publish(p)
  <2>1. CASE who[p] # u
    <3>1. SameMiles(u) /\ ~Holds(p, u) /\ ~Holds(p, u)'
      BY <1>17, <2>1 DEF Publish, SameMiles, Holds, dbVars
    <3>. QED
      BY <1>2, <3>1
  <2>2. CASE who[p] = u
    <3>1. Holds(p, u) /\ ~Holds(p, u)' /\ op[p] = "login" /\ pc[p] = "publish"
      BY <1>17, <2>2 DEF Publish, Holds, StepsOK
    <3>2. row[u] = earned[u] /\ copy[p].miles = earned[u] /\ copy[p].extra = 0
      BY <3>1 DEF Accounted, CopyAccounted, GiftsOf, GiftsHeld
    <3>3. entry'[u] = copy[p] /\ row' = row
      BY <1>17, <2>2 DEF Publish, dbVars
    <3>4. Lacks(row[u], u)'
      BY <1>5, <3>2, <3>3 DEF Lacks
    <3>. QED
      BY <1>3, <1>4, <3>1, <3>4 DEF GiftsHeld
  <2>. QED
    BY <2>1, <2>2
<1>18. CASE Credit(p)
  <2>1. CASE who[p] # u
    <3>1. SameMiles(u) /\ ~Holds(p, u) /\ ~Holds(p, u)'
      BY <1>18, <2>1 DEF Credit, SameMiles, Holds, Finish, dbVars, dueVars
    <3>. QED
      BY <1>2, <3>1
  <2>2. CASE who[p] = u
    <3>1. Holds(p, u) /\ op[p] = "bank" /\ pc[p] = "credit"
      BY <1>18, <2>2 DEF Credit, Holds, StepsOK
    <3>2. u \in online /\ Lacks(row[u], u)
      BY <3>1 DEF Accounted, CopyAccounted, GiftsOf, GiftsHeld
    <3>3. /\ entry'[u] = Credited(entry[u], amt[p])
          /\ copy'[p] = Credited(entry[u], amt[p])
          /\ pc'[p] = "persist" /\ op'[p] = "bank" /\ who'[p] = u
      BY <1>18, <2>2, <3>1, <3>2 DEF Credit
    <3>4. Credited(entry[u], amt[p]).extra = entry[u].extra
      BY <1>5 DEF Credited, WithMiles, User
    <3>5. entry[u].extra >= 0
      BY <1>5, <3>2 DEF Lacks
    <3>6. entry'[u].miles = copy'[p].miles /\ entry'[u].extra >= 0
      BY <3>3, <3>4, <3>5
    <3>7. entry'[u].miles - copy'[p].miles \in 0 .. entry'[u].extra
      BY <3>6 DEF User
    <3>8. GiftsHeld(p, u)' /\ Holds(p, u)'
      BY <3>3, <3>7 DEF GiftsHeld, Holds, Lacks
    <3>. QED
      BY <1>3, <1>4, <3>1, <3>8
  <2>. QED
    BY <2>1, <2>2
<1>19. CASE Save(p)
  <2>1. CASE who[p] # u
    <3>1. SameMiles(u) /\ ~Holds(p, u) /\ ~Holds(p, u)'
      BY <1>19, <2>1 DEF Save, SameMiles, Holds, memVars
    <3>. QED
      BY <1>2, <3>1
  <2>2. CASE who[p] = u
    <3>1. /\ Holds(p, u) /\ who'[p] = u /\ op' = op /\ copy' = copy
          /\ pc[p] = "persist"
          /\ pc'[p] = AfterSave(p) /\ row'[u] = copy[p].miles
          /\ online' = online /\ entry' = entry
      BY <1>19, <2>2 DEF Save, Holds, memVars
    <3>2. /\ pc'[p] \in {"publish", "readscore", "score", "event"}
          /\ pc'[p] = "publish" <=> op[p] = "login"
      BY <3>1, AfterSaveIsStep
    <3>3. GiftsHeld(p, u) /\ (u \in online <=> op[p] \in {"bank", "correct"})
      BY <3>1 DEF GiftsOf, Accounted, CopyAccounted
    <3>4. GiftsHeld(p, u)'
      BY <3>1, <3>2, <3>3 DEF GiftsHeld
    <3>5. u \in online' => Lacks(row[u], u)'
      BY <3>1, <3>3 DEF GiftsHeld, Lacks
    <3>. QED
      BY <1>3, <1>4, <3>1, <3>4, <3>5
  <2>. QED
    BY <2>1, <2>2
<1>20. CASE SaveFails(p) \/ ReadScoreFails(p) \/ AddScoreFails(p) \/ RecordFails(p)
  BY <1>20 DEF SaveFails, ReadScoreFails, AddScoreFails, RecordFails, Fault
<1>21. CASE ReadScore(p)
  <2>1. SameMiles(u) /\ ~Holds(p, u) /\ ~Holds(p, u)'
    BY <1>21 DEF ReadScore, SameMiles, Holds, memVars, dbVars, dueVars
  <2>. QED
    BY <1>2, <2>1
<1>23. CASE AddScore(p)
  <2>1. SameMiles(u) /\ ~Holds(p, u) /\ ~Holds(p, u)'
    BY <1>23
       DEF AddScore, Scored, Finish, SameMiles, Holds, memVars, dbVars, dueVars
  <2>. QED
    BY <1>2, <2>1
<1>25. CASE Record(p)
  <2>1. SameMiles(u) /\ ~Holds(p, u) /\ ~Holds(p, u)'
    BY <1>25 DEF Record, Finish, SameMiles, Holds, memVars, dbVars, dueVars
  <2>. QED
    BY <1>2, <2>1
<1>. QED
  BY <1>6, <1>9, <1>10, <1>11, <1>13, <1>14, <1>15, <1>16, <1>17, <1>18,
     <1>19, <1>20, <1>21, <1>23, <1>25 DEF Step

LEMMA GiftsInvInductive ==
  TypeInv /\ MilesInv /\ GiftsInv /\ [Next]_vars => GiftsInv'
<1>. SUFFICES ASSUME TypeInv, MilesInv, GiftsInv, [Next]_vars, ~faulted',
                     NEW u \in Users, u \notin disturbed'
              PROVE  GiftsOf(u)'
  BY DEF GiftsInv
<1>1. TypeInv'
  BY TypeInvInductive
<1>. USE DEF TypeInv, TypeOK
<1>2. CASE Clock \/ (\E v \in Users : Subscription(v)) \/ UNCHANGED vars
  <2>1. /\ UNCHANGED memVars /\ UNCHANGED dbVars /\ UNCHANGED procVars
        /\ faulted' = faulted /\ disturbed' = disturbed
    BY <1>2 DEF Clock, Subscription, vars
  <2>2. GiftsOf(u)
    BY <2>1 DEF GiftsInv
  <2>. QED
    BY <2>1, <2>2 DEF memVars, dbVars, procVars, GiftsOf, GiftsHeld, Lacks, Holds
<1>3. CASE Give
  <2>1. /\ row' = row /\ online' = online
        /\ pc' = pc /\ op' = op /\ who' = who /\ copy' = copy
        /\ entry'[u] = IF u \in online THEN Gifted(entry[u]) ELSE entry[u]
        /\ faulted' = faulted /\ disturbed' = disturbed
    BY <1>3 DEF Give, dbVars, procVars
  <2>2. /\ entry[u] \in User /\ entry[u].miles \in Int /\ entry[u].extra \in Int
        /\ row[u] \in Int /\ Gift \in Nat
    BY ConstantsOK DEF User
  <2>3. Gifted(entry[u]).miles = entry[u].miles + Gift
    BY GiftedIsEntry
  <2>4. Gifted(entry[u]).extra = entry[u].extra + Gift
    BY <2>2 DEF Gifted, WithMiles, User
  <2>5. /\ u \in online => entry'[u].miles = entry[u].miles + Gift
                           /\ entry'[u].extra = entry[u].extra + Gift
        /\ u \notin online => entry'[u] = entry[u]
    BY <2>1, <2>3, <2>4
  <2>6. ASSUME NEW m \in Int, Lacks(m, u)
        PROVE  entry'[u].miles - m \in 0 .. entry'[u].extra
    BY <2>2, <2>5, <2>6 DEF Lacks
  <2>7. GiftsOf(u) /\ \A q \in Procs : copy[q].miles \in Int
    BY <2>1 DEF GiftsInv, User
  <2>8. \A q \in Procs : GiftsHeld(q, u)'
    BY <2>1, <2>2, <2>6, <2>7 DEF GiftsOf, GiftsHeld, Holds, Lacks
  <2>9. u \in online' /\ (\A q \in Procs : ~Holds(q, u)') => Lacks(row[u], u)'
    BY <2>1, <2>2, <2>6, <2>7 DEF GiftsOf, Holds, Lacks
  <2>. QED
    BY <2>8, <2>9 DEF GiftsOf
<1>4. CASE Crash
  BY <1>4 DEF Crash
<1>5. ASSUME NEW p \in Procs, Step(p)
      PROVE  GiftsOf(u)'
  <2>1. ~faulted /\ u \notin disturbed
    BY <1>5, FaultedStays, OthersStayPut DEF OthersStay
  <2>2. Accounted(u) /\ GiftsOf(u)
    BY <2>1 DEF MilesInv, GiftsInv
  <2>. QED
    BY <1>1, <1>5, <2>2, StepKeepsGifts
<1>. QED
  BY <1>2, <1>3, <1>4, <1>5 DEF Next

LEMMA GiftsInvAlways == Spec => []GiftsInv
<1>1. Init => GiftsInv
  BY DEF Init, GiftsInv, GiftsOf, GiftsHeld, Holds
<1>. QED
  BY <1>1, TypeInvAlways, MilesInvAlways, GiftsInvInductive, PTL DEF Spec

-----------------------------------------------------------------------------
(* The books: the monthly board *)

\* The operations that carry miles of u to the board.
Way(u) == {p \in Procs : /\ who[p] = u /\ op[p] \in {"bank", "logout"}
                         /\ pc[p] \in {"credit", "persist", "score"}}

WayAddsUp == \A u \in Users : OnItsWay(u) = SumOver(amt, Way(u))

LEMMA WayAddsUpAlways == WayAddsUp
BY DEF WayAddsUp, OnItsWay, SumOver, Way

LEMMA OnItsWayIsSum ==
  ASSUME TypeOK, NEW u \in Users
  PROVE  /\ OnItsWay(u) = SumOver(amt, Way(u)) /\ OnItsWay(u) \in Int
         /\ IsFiniteSet(Way(u)) /\ Integral(amt, Way(u))
<1>1. OnItsWay(u) = SumOver(amt, Way(u))
  BY WayAddsUpAlways DEF WayAddsUp
<1>2. IsFiniteSet(Way(u))
  BY ConstantsOK, FS_Subset DEF Way
<1>3. Integral(amt, Way(u))
  BY DEF Integral, Way, TypeOK
<1>. QED
  BY <1>1, <1>2, <1>3, SumIsInteger

LEMMA OnItsWayIsSumNext ==
  ASSUME TypeOK', NEW u \in Users
  PROVE  /\ OnItsWay(u)' = SumOver(amt', Way(u)') /\ OnItsWay(u)' \in Int
         /\ IsFiniteSet(Way(u)') /\ Integral(amt', Way(u)')
<1>0. WayAddsUp'
  BY WayAddsUpAlways, PTL
<1>1. OnItsWay(u)' = SumOver(amt', Way(u)')
  BY <1>0 DEF WayAddsUp
<1>2. IsFiniteSet(Way(u)')
  BY ConstantsOK, FS_Subset DEF Way
<1>3. Integral(amt', Way(u)')
  BY DEF Integral, Way, TypeOK
<1>. QED
  BY <1>1, <1>2, <1>3, SumIsInteger

LEMMA OthersOnTheWay ==
  ASSUME NEW p \in Procs, OthersStay(p), NEW u \in Users
  PROVE  /\ Way(u)' \ {p} = Way(u) \ {p}
         /\ \A q \in Way(u) \ {p} : amt'[q] = amt[q]
BY DEF OthersStay, Way

\* No operation starts to carry miles of u, or is done carrying them.
LEMMA WayStays ==
  ASSUME TypeOK, TypeOK', NEW p \in Procs, OthersStay(p), NEW u \in Users,
         p \in Way(u)' <=> p \in Way(u), p \in Way(u) => amt'[p] = amt[p]
  PROVE  OnItsWay(u)' = OnItsWay(u)
<1>1. Way(u)' = Way(u) /\ \A q \in Way(u) : amt'[q] = amt[q]
  BY OthersOnTheWay
<1>2. SumOver(amt', Way(u)) = SumOver(amt, Way(u))
  BY <1>1, OnItsWayIsSum, SumOfTheSame
<1>. QED
  BY <1>1, <1>2, OnItsWayIsSum, OnItsWayIsSumNext

LEMMA WayJoined ==
  ASSUME TypeOK, TypeOK', NEW p \in Procs, OthersStay(p), NEW u \in Users,
         p \notin Way(u), p \in Way(u)'
  PROVE  OnItsWay(u)' = OnItsWay(u) + amt'[p]
<1>1. Way(u)' = Way(u) \cup {p} /\ \A q \in Way(u) : amt'[q] = amt[q]
  BY OthersOnTheWay
<1>2. SumOver(amt', Way(u)) = SumOver(amt, Way(u))
  BY <1>1, OnItsWayIsSum, SumOfTheSame
<1>3. SumOver(amt', Way(u) \cup {p}) = amt'[p] + SumOver(amt', Way(u))
  BY <1>1, OnItsWayIsSum, OnItsWayIsSumNext, SumWithOneMore
<1>4. amt'[p] \in Int
  BY DEF TypeOK
<1>5. OnItsWay(u)' = SumOver(amt', Way(u) \cup {p})
  BY <1>1, OnItsWayIsSumNext
<1>. QED
  BY <1>2, <1>3, <1>4, <1>5, OnItsWayIsSum

LEMMA WayLeft ==
  ASSUME TypeOK, TypeOK', NEW p \in Procs, OthersStay(p), NEW u \in Users,
         p \in Way(u), p \notin Way(u)'
  PROVE  OnItsWay(u)' = OnItsWay(u) - amt[p]
<1>1. Way(u)' = Way(u) \ {p} /\ \A q \in Way(u)' : amt'[q] = amt[q]
  BY OthersOnTheWay
<1>2. SumOver(amt', Way(u)') = SumOver(amt, Way(u)')
  BY <1>1, OnItsWayIsSumNext, SumOfTheSame
<1>3. SumOver(amt, Way(u)) = amt[p] + SumOver(amt, Way(u) \ {p})
  BY OnItsWayIsSum, SumOfTheRest
<1>4. amt[p] \in Int
  BY DEF TypeOK
<1>. QED
  BY <1>1, <1>2, <1>3, <1>4, OnItsWayIsSum, OnItsWayIsSumNext

BoardOf(u) == score[u] + OnItsWay(u) = boardDue[u]

BoardInv == ~faulted => \A u \in Users \ disturbed : BoardOf(u)

LEMMA StepKeepsBoard ==
  ASSUME TypeInv, TypeInv', BalancesInv, NEW p \in Procs, Step(p), ~faulted',
         NEW u \in Users, u \notin disturbed', Accounted(u), BoardOf(u)
  PROVE  BoardOf(u)'
<1>. USE DEF TypeInv
<1>1. OthersStay(p)
  BY OthersStayPut DEF TypeOK
<1>2. ASSUME score'[u] = score[u], boardDue'[u] = boardDue[u],
             p \in Way(u)' <=> p \in Way(u), p \in Way(u) => amt'[p] = amt[p]
      PROVE  BoardOf(u)'
  BY <1>1, <1>2, WayStays DEF BoardOf
<1>3. ASSUME score'[u] = score[u], boardDue'[u] = boardDue[u] + amt'[p],
             p \notin Way(u), p \in Way(u)'
      PROVE  BoardOf(u)'
  <2>1. OnItsWay(u)' = OnItsWay(u) + amt'[p]
    BY <1>1, <1>3, WayJoined
  <2>2. score[u] \in Int /\ amt'[p] \in Int /\ OnItsWay(u) \in Int
    BY OnItsWayIsSum DEF TypeOK
  <2>. QED
    BY <1>3, <2>1, <2>2 DEF BoardOf
<1>. USE DEF TypeOK
<1>4. UNCHANGED dbVars => score'[u] = score[u]
  BY DEF dbVars
<1>5. UNCHANGED dueVars => boardDue'[u] = boardDue[u]
  BY DEF dueVars
<1>6. CASE StartTick(p) \/ StartCheckpoint(p) \/ CancelJobs(p) \/ StartShutdown(p)
  <2>1. /\ UNCHANGED dueVars /\ UNCHANGED dbVars /\ pc' = pc /\ op' = op
        /\ who' = who /\ amt' = amt
    BY <1>6 DEF StartTick, StartCheckpoint, CancelJobs, StartShutdown, procVars
  <2>. QED
    BY <1>2, <1>4, <1>5, <2>1 DEF Way
<1>9. CASE LogoutNext(p)
  <2>1. PICK v \in outs[p] : ClaimNothing(p, v) \/ Claim(p, v)
    BY <1>9 DEF LogoutNext
  <2>2. pc[p] = "idle" /\ v \in Users /\ UNCHANGED dbVars
    BY <1>9, <2>1 DEF LogoutNext
  <2>3. CASE ClaimNothing(p, v)
    <3>1. UNCHANGED dueVars /\ p \notin Way(u) /\ p \notin Way(u)'
      BY <2>2, <2>3 DEF ClaimNothing, Way
    <3>. QED
      BY <1>2, <1>4, <1>5, <2>2, <3>1
  <2>4. CASE Claim(p, v) /\ v # u
    <3>1. /\ boardDue'[u] = boardDue[u] /\ p \notin Way(u) /\ p \notin Way(u)'
      BY <2>2, <2>4 DEF Claim, Way
    <3>. QED
      BY <1>2, <1>4, <2>2, <3>1
  <2>5. CASE Claim(p, v) /\ v = u
    <3>. DEFINE m == InFlight(entry[u], u)
                worth == SessionMiles(entry[u], u)
    <3>1. m \in Nat /\ worth \in Int
      BY MilesAreIntegers
    <3>2. u \in online /\ Take(p, u)
      BY <2>5 DEF Claim
    <3>3. tally[u] = entry[u].banked
      BY <2>2, <3>2, TakenAtRest
    <3>4. m = Larger(tally[u], worth) - tally[u]
      BY <3>1, <3>3 DEF InFlight, Larger, User
    <3>5. /\ amt'[p] = m
          /\ boardDue'[u] = boardDue[u] + Larger(tally[u], worth) - tally[u]
          /\ pc'[p] = "persist" /\ op'[p] = "logout" /\ who'[p] = u
      BY <2>5 DEF Claim
    <3>6. Larger(tally[u], worth) \in Int /\ tally[u] \in Int /\ boardDue[u] \in Int
      BY <3>1 DEF Larger
    <3>7. boardDue'[u] = boardDue[u] + amt'[p]
      <4>. HIDE DEF m, worth
      <4>. QED
        BY <3>4, <3>5, <3>6
    <3>8. p \notin Way(u) /\ p \in Way(u)'
      BY <2>2, <3>5 DEF Way
    <3>. QED
      BY <1>3, <1>4, <2>2, <3>7, <3>8
  <2>. QED
    BY <2>1, <2>3, <2>4, <2>5
<1>10. CASE LoginNext(p) \/ \E v \in Users : ChatLogin(p, v)
  <2>1. /\ UNCHANGED dueVars /\ UNCHANGED dbVars /\ pc[p] = "idle"
        /\ pc'[p] \in {"idle", "find"}
    BY <1>10 DEF LoginNext, ChatLogin, BeginLogin
  <2>2. p \notin Way(u) /\ p \notin Way(u)'
    BY <2>1 DEF Way
  <2>. QED
    BY <1>2, <1>4, <1>5, <2>1, <2>2
<1>11. CASE MeasureNext(p)
  <2>. DEFINE m == InFlight(entry[u], u)
              worth == Larger(tally[u], SessionMiles(entry[u], u))
  <2>0. UNCHANGED dbVars /\ pc[p] = "idle" /\ p \notin Way(u)
    BY <1>11 DEF MeasureNext, Way
  <2>1. CASE ~(who'[p] = u /\ pc'[p] = "credit")
    <3>1. boardDue'[u] = boardDue[u] /\ p \notin Way(u)'
      BY <1>11, <2>1 DEF MeasureNext, Way, dueVars
    <3>. QED
      BY <1>2, <1>4, <2>0, <3>1
  <2>2. CASE who'[p] = u /\ pc'[p] = "credit"
    <3>1. /\ u \in online /\ Take(p, u) /\ op'[p] = "bank"
          /\ amt'[p] = m /\ boardDue'[u] = boardDue[u] + worth - tally[u]
      BY <1>11, <2>0, <2>2 DEF MeasureNext
    <3>2. tally[u] = entry[u].banked
      BY <2>0, <3>1, TakenAtRest
    <3>3. m \in Nat /\ SessionMiles(entry[u], u) \in Int
      BY MilesAreIntegers
    <3>4. m = worth - tally[u]
      BY <3>2, <3>3 DEF InFlight, Larger, User
    <3>5. worth \in Int /\ tally[u] \in Int /\ boardDue[u] \in Int
      BY <3>3 DEF Larger
    <3>6. boardDue'[u] = boardDue[u] + amt'[p]
      <4>. HIDE DEF m, worth
      <4>. QED
        BY <3>1, <3>4, <3>5
    <3>7. p \in Way(u)'
      BY <2>2, <3>1 DEF Way
    <3>. QED
      BY <1>3, <1>4, <2>0, <3>6, <3>7
  <2>. QED
    BY <2>1, <2>2
<1>13. CASE \E v \in Users, d \in Deltas : CorrectMiles(p, v, d)
  <2>1. /\ boardDue' = boardDue /\ UNCHANGED dbVars /\ pc[p] = "idle"
        /\ op'[p] \in {"correct", "amend"}
    BY <1>13 DEF CorrectMiles, CorrectLive, CorrectOffline
  <2>2. p \notin Way(u) /\ p \notin Way(u)'
    BY <2>1 DEF Way
  <2>. QED
    BY <1>2, <1>4, <2>1, <2>2
<1>14. CASE FindForLogin(p) \/ FindForAmend(p) \/ FindFails(p) \/ Publish(p)
  <2>1. /\ UNCHANGED dueVars \/ boardDue' = boardDue
        /\ UNCHANGED dbVars /\ op[p] \in {"login", "amend"}
        /\ op'[p] \in {"login", "amend", "none"}
    BY <1>14 DEF FindForLogin, FindForAmend, FindFails, Finish, Publish, StepsOK
  <2>2. p \notin Way(u) /\ p \notin Way(u)'
    BY <2>1 DEF Way
  <2>. QED
    BY <1>2, <1>4, <1>5, <2>1, <2>2
<1>18. CASE Credit(p)
  <2>1. UNCHANGED dueVars /\ UNCHANGED dbVars /\ who' = who
    BY <1>18 DEF Credit
  <2>2. CASE who[p] # u
    <3>1. p \notin Way(u) /\ p \notin Way(u)'
      BY <2>1, <2>2 DEF Way
    <3>. QED
      BY <1>2, <1>4, <1>5, <2>1, <3>1
  <2>3. CASE who[p] = u
    <3>1. Holds(p, u) /\ op[p] = "bank" /\ pc[p] = "credit"
      BY <1>18, <2>3 DEF Credit, Holds, StepsOK
    <3>2. u \in online
      BY <3>1 DEF Accounted, CopyAccounted
    <3>3. op' = op /\ amt' = amt /\ pc'[p] = "persist"
      BY <1>18, <2>3, <3>2 DEF Credit
    <3>4. p \in Way(u) /\ p \in Way(u)'
      BY <2>1, <2>3, <3>1, <3>3 DEF Way
    <3>. QED
      BY <1>2, <1>4, <1>5, <2>1, <3>3, <3>4
  <2>. QED
    BY <2>2, <2>3
<1>19. CASE Save(p)
  <2>1. /\ score' = score /\ boardDue' = boardDue /\ who' = who /\ op' = op
        /\ amt' = amt /\ pc[p] = "persist" /\ pc'[p] = AfterSave(p)
    BY <1>19 DEF Save
  <2>2. op[p] \in {"bank", "logout"} => pc'[p] = "score"
    BY <2>1 DEF AfterSave
  <2>3. p \in Way(u)' <=> p \in Way(u)
    BY <2>1, <2>2 DEF Way
  <2>. QED
    BY <1>2, <2>1, <2>3
<1>20. CASE SaveFails(p) \/ ReadScoreFails(p) \/ AddScoreFails(p) \/ RecordFails(p)
  BY <1>20 DEF SaveFails, ReadScoreFails, AddScoreFails, RecordFails, Fault
<1>21. CASE ReadScore(p)
  <2>1. /\ UNCHANGED dueVars /\ UNCHANGED dbVars /\ op' = op
        /\ op[p] \in {"correct", "amend"}
    BY <1>21 DEF ReadScore, BalancesInv, Balanced
  <2>2. p \notin Way(u) /\ p \notin Way(u)'
    BY <2>1 DEF Way
  <2>. QED
    BY <1>2, <1>4, <1>5, <2>1, <2>2
<1>23. CASE AddScore(p)
  <2>1. /\ op[p] \in {"bank", "logout", "correct", "amend"} /\ who' = who
        /\ score' = [score EXCEPT ![who[p]] = @ + amt[p]]
        /\ boardDue' = IF op[p] \in {"correct", "amend"}
                       THEN [boardDue EXCEPT ![who[p]] = @ + amt[p]] ELSE boardDue
        /\ pc[p] = "score" /\ Scored(p)
    BY <1>23 DEF AddScore, BalancesInv, Balanced
  <2>2. p \notin Way(u)'
    BY <2>1 DEF Scored, Finish, Way
  <2>3. CASE who[p] # u
    <3>1. p \notin Way(u) /\ score'[u] = score[u] /\ boardDue'[u] = boardDue[u]
      BY <2>1, <2>3 DEF Way
    <3>. QED
      BY <1>2, <2>2, <3>1
  <2>4. CASE who[p] = u /\ op[p] \in {"bank", "logout"}
    <3>1. p \in Way(u)
      BY <2>1, <2>4 DEF Way
    <3>2. OnItsWay(u)' = OnItsWay(u) - amt[p]
      BY <1>1, <2>2, <3>1, WayLeft
    <3>3. score'[u] = score[u] + amt[p] /\ boardDue' = boardDue
      BY <2>1, <2>4
    <3>4. score[u] \in Int /\ amt[p] \in Int /\ OnItsWay(u) \in Int
      BY OnItsWayIsSum
    <3>. QED
      BY <3>2, <3>3, <3>4 DEF BoardOf
  <2>5. CASE who[p] = u /\ op[p] \in {"correct", "amend"}
    <3>1. p \notin Way(u)
      BY <2>5 DEF Way
    <3>2. OnItsWay(u)' = OnItsWay(u)
      BY <1>1, <2>2, <3>1, WayStays
    <3>3. score'[u] = score[u] + amt[p] /\ boardDue'[u] = boardDue[u] + amt[p]
      BY <2>1, <2>5
    <3>4. score[u] \in Int /\ amt[p] \in Int /\ OnItsWay(u) \in Int
      BY OnItsWayIsSum
    <3>. QED
      BY <3>2, <3>3, <3>4 DEF BoardOf
  <2>. QED
    BY <2>1, <2>3, <2>4, <2>5
<1>25. CASE Record(p)
  <2>1. UNCHANGED dueVars /\ UNCHANGED dbVars /\ pc[p] = "event" /\ pc'[p] = "idle"
    BY <1>25 DEF Record, Finish
  <2>2. p \notin Way(u) /\ p \notin Way(u)'
    BY <2>1 DEF Way
  <2>. QED
    BY <1>2, <1>4, <1>5, <2>1, <2>2
<1>. QED
  BY <1>6, <1>9, <1>10, <1>11, <1>13, <1>14, <1>18, <1>19, <1>20, <1>21,
     <1>23, <1>25 DEF Step

LEMMA BoardInvInductive ==
  TypeInv /\ BalancesInv /\ MilesInv /\ BoardInv /\ [Next]_vars => BoardInv'
<1>. SUFFICES ASSUME TypeInv, BalancesInv, MilesInv, BoardInv, [Next]_vars,
                     ~faulted', NEW u \in Users, u \notin disturbed'
              PROVE  BoardOf(u)'
  BY DEF BoardInv
<1>1. TypeInv'
  BY TypeInvInductive
<1>2. CASE Clock \/ (\E v \in Users : Subscription(v)) \/ Give \/ UNCHANGED vars
  <2>1. /\ UNCHANGED dbVars /\ UNCHANGED procVars /\ boardDue' = boardDue
        /\ faulted' = faulted /\ disturbed' = disturbed
    BY <1>2 DEF Clock, Subscription, Give, vars, dueVars
  <2>2. BoardOf(u)
    BY <2>1 DEF BoardInv
  <2>3. OnItsWay(u)' = OnItsWay(u)
    <3>1. amt' = amt /\ Way(u)' = Way(u)
      BY <2>1 DEF procVars, Way
    <3>. QED
      BY <1>1, <3>1, OnItsWayIsSum, OnItsWayIsSumNext DEF TypeInv
  <2>. QED
    BY <2>1, <2>2, <2>3 DEF BoardOf, dbVars
<1>4. CASE Crash
  BY <1>4 DEF Crash
<1>5. ASSUME NEW p \in Procs, Step(p)
      PROVE  BoardOf(u)'
  <2>1. ~faulted /\ u \notin disturbed
    BY <1>5, FaultedStays, OthersStayPut DEF OthersStay
  <2>2. Accounted(u) /\ BoardOf(u)
    BY <2>1 DEF MilesInv, BoardInv
  <2>. QED
    BY <1>1, <1>5, <2>2, StepKeepsBoard
<1>. QED
  BY <1>2, <1>4, <1>5 DEF Next

LEMMA BoardInvInitially == Init => BoardInv
<1>. SUFFICES ASSUME Init, NEW u \in Users
              PROVE  BoardOf(u)
  BY DEF BoardInv
<1>1. TypeOK
  BY TypeInvInitially DEF TypeInv
<1>2. Way(u) = {} /\ score[u] = 0 /\ boardDue[u] = 0
  BY DEF Init, Way
<1>. QED
  BY <1>1, <1>2, OnItsWayIsSum, SumOfNothing DEF BoardOf

LEMMA BoardInvAlways == Spec => []BoardInv
BY TypeInvAlways, BalancesInvAlways, MilesInvAlways, BoardInvInitially,
   BoardInvInductive, PTL DEF Spec

-----------------------------------------------------------------------------
(* The books *)

LEMMA BooksFollow ==
  TypeInv /\ BalancesInv /\ SidInv /\ PairsInv /\ GiftsInv /\ BoardInv
    => BooksBalance
<1>. SUFFICES ASSUME TypeInv, BalancesInv, SidInv, PairsInv, GiftsInv, BoardInv
              PROVE  BooksBalance
  OBVIOUS
<1>1. UnsavedIsOnlyGifts
  BY DEF GiftsInv, GiftsOf, Lacks, UnsavedIsOnlyGifts, TypeInv, TypeOK
<1>2. BoardCountsEachMileOnce
  BY DEF BoardInv, BoardOf, BoardCountsEachMileOnce
<1>3. BalancesNeverNegative
  BY DEF BalancesInv, NotNegative, BalancesNeverNegative
<1>4. OpenSessionsAreLive
  <2>1. ASSUME ~faulted, NEW u \in Users \ disturbed, NEW s \in Sids,
               <<u, s>> \in logins, logouts[s] = 0
        PROVE  \/ u \in online /\ entry[u].sid = s
               \/ \E p \in Procs : who[p] = u /\ op[p] # "none"
    BY <2>1 DEF PairsInv, Paired, Opened, Open, Closes
  <2>. QED
    BY <2>1 DEF OpenSessionsAreLive
<1>5. ClosedAtMostOnce
  BY DEF SidInv, ClosedAtMostOnce
<1>. QED
  BY <1>1, <1>2, <1>3, <1>4, <1>5 DEF BooksBalance

\* The books balance, for any number of viewers, ticks and checkpoints, one
\* chat goroutine and any rates: the row of an undisturbed viewer lacks gifts
\* at most, the monthly board has every mile once, no clawback drives a balance
\* below zero, an open login is live or being logged out, and no session is
\* logged out twice.
THEOREM BooksAlwaysBalance == Spec => []BooksBalance
BY TypeInvAlways, BalancesInvAlways, SidInvAlways, PairsInvAlways,
   GiftsInvAlways, BoardInvAlways, BooksFollow, PTL

-----------------------------------------------------------------------------
(* The console's insights *)

Kinds == {"login", "logout", "run", "refused", "guess"}
EventRow == [kind : Kinds, who : People, at : Nat, session : Nat \cup {Null},
             command : Cmds \cup {Null}, reason : {Unknown, "cooldown", Null},
             correct : BOOLEAN, region : Regions \cup {Null}]
Sample == [platform : Platforms, region : Regions, at : Nat, live : BOOLEAN \cup {Null}, chat : {1}]
Play == [platform : Platforms, region : Regions, started : Nat, ended : Nat \cup {Null}, open : BOOLEAN]

RowsTyped ==
  /\ log \in Seq(EventRow) /\ samples \in Seq(Sample) /\ plays \in Seq(Play)
  /\ bots \subseteq People /\ here \in [People -> Nat \cup {Null}]
  /\ tick \in Nat /\ written \in Nat

\* The log is in the order of its times.
LogInOrder ==
  /\ \A i \in DOMAIN log : log[i].at <= tick
  /\ \A i, j \in DOMAIN log : i < j => log[i].at <= log[j].at

\* Nobody logs in twice from i to j.
NoLogin(p, i, j) == \A k \in DOMAIN log : i < k /\ k < j => ~ (log[k].kind = "login" /\ log[k].who = p)

\* A session's id is of one login, and of one logout at most; who is here has
\* not logged in since, and who left had not in between.
SessionIds ==
  /\ \A i \in DOMAIN log : log[i].kind = "login" \/ log[i].kind = "logout" => log[i].session \in Nat /\ log[i].session < written
  /\ \A i, j \in DOMAIN log : log[i].kind = "login" /\ log[j].kind = "login" /\ log[i].session = log[j].session => i = j
  /\ \A i, j \in DOMAIN log : log[i].kind = "logout" /\ log[j].kind = "logout" /\ log[i].session = log[j].session => i = j
  /\ \A j \in DOMAIN log, p \in People : log[j].kind = "logout" => log[j].session # here[p]
OpenVisits ==
  \A p \in People : here[p] # Null =>
    \E i \in DOMAIN log : /\ log[i].kind = "login" /\ log[i].session = here[p] /\ log[i].who = p
                          /\ NoLogin(p, i, Len(log) + 1)
ClosedVisits ==
  \A j \in DOMAIN log : log[j].kind = "logout" =>
    \E i \in DOMAIN log : /\ i < j /\ log[i].kind = "login" /\ log[i].session = log[j].session
                          /\ log[i].who = log[j].who /\ NoLogin(log[j].who, i, j)

Visiting == LogInOrder /\ SessionIds /\ OpenVisits /\ ClosedVisits

\* A platform plays one thing at a time.
PlayTimes ==
  \A i \in DOMAIN plays :
    /\ plays[i].started <= tick
    /\ plays[i].ended # Null => /\ plays[i].started <= plays[i].ended /\ plays[i].ended <= tick
                                /\ ~ plays[i].open
PlaysInTurn ==
  \A i, j \in DOMAIN plays : i < j /\ plays[i].platform = plays[j].platform =>
    ~ plays[i].open /\ (plays[i].ended # Null => plays[i].ended <= plays[j].started)

Playing == PlayTimes /\ PlaysInTurn

LEMMA Appended ==
  ASSUME NEW S, NEW s \in Seq(S), NEW e \in S
  PROVE  /\ Append(s, e) \in Seq(S) /\ Len(Append(s, e)) = Len(s) + 1 /\ Len(s) \in Nat
         /\ DOMAIN s = 1 .. Len(s) /\ DOMAIN Append(s, e) = 1 .. Len(s) + 1
         /\ Append(s, e)[Len(s) + 1] = e /\ \A i \in DOMAIN s : Append(s, e)[i] = s[i]
OBVIOUS

LEMMA RowsKept ==
  ASSUME RowsTyped, UNCHANGED <<log, samples, plays, bots, here, tick, written>>
  PROVE  RowsTyped'
BY DEF RowsTyped

\* A row more, and what it leaves.
LogGrows(e) ==
  /\ e \in EventRow /\ e.at = tick /\ log' = Append(log, e) /\ written' = written + 1 /\ tick' = tick

LEMMA Longer ==
  ASSUME RowsTyped, NEW e, LogGrows(e)
  PROVE  /\ log' \in Seq(EventRow) /\ Len(log') = Len(log) + 1 /\ Len(log) \in Nat
         /\ DOMAIN log = 1 .. Len(log) /\ DOMAIN log' = 1 .. Len(log) + 1
         /\ log'[Len(log) + 1] = e /\ \A i \in DOMAIN log : log'[i] = log[i]
         /\ DOMAIN log' = DOMAIN log \cup {Len(log) + 1} /\ Len(log) + 1 \notin DOMAIN log
         /\ e \in EventRow
BY Appended DEF RowsTyped, LogGrows

LEMMA Positions ==
  ASSUME RowsTyped
  PROVE  Len(log) \in Nat /\ DOMAIN log = 1 .. Len(log)
         /\ \A i \in DOMAIN log : i \in Nat /\ i < Len(log) + 1
<1>1. Len(log) \in Nat /\ DOMAIN log = 1 .. Len(log)
  BY DEF RowsTyped
<1>. QED
  BY <1>1

LEMMA OrderKept ==
  ASSUME RowsTyped, LogInOrder, NEW e, LogGrows(e)
  PROVE  LogInOrder'
<1>1. \A i \in DOMAIN log : log'[i].at = log[i].at /\ log[i].at \in Nat
  <2>1. \A i \in DOMAIN log : log'[i] = log[i] /\ log[i] \in EventRow
    BY Longer DEF RowsTyped
  <2>. QED
    BY <2>1 DEF EventRow
<1>2. log'[Len(log) + 1].at = tick /\ tick' = tick /\ tick \in Nat
  <2>1. log'[Len(log) + 1] = e
    BY Longer
  <2>2. e.at = tick /\ tick' = tick /\ tick \in Nat
    BY DEF LogGrows, RowsTyped
  <2>. QED
    BY <2>1, <2>2
<1>3. DOMAIN log' = DOMAIN log \cup {Len(log) + 1} /\ \A i \in DOMAIN log : i \in Nat /\ i < Len(log) + 1
  <2>1. DOMAIN log' = DOMAIN log \cup {Len(log) + 1}
    BY Longer
  <2>. QED
    BY <2>1, Positions
<1>. QED
  BY <1>1, <1>2, <1>3 DEF LogInOrder

\* A row that is no login, and closes no visit.
LEMMA OtherRows ==
  ASSUME RowsTyped, Visiting, NEW e, LogGrows(e), e.kind \notin {"login", "logout"}, here' = here
  PROVE  Visiting'
<1>1. LogInOrder'
  BY OrderKept DEF Visiting
<1>2. \A i \in DOMAIN log' : (log'[i].kind = "login" => i \in DOMAIN log /\ log[i].kind = "login")
                           /\ (log'[i].kind = "logout" => i \in DOMAIN log /\ log[i].kind = "logout")
  BY Longer
<1>3. \A i \in DOMAIN log : log'[i] = log[i] /\ i \in DOMAIN log'
                            /\ i \in Nat /\ i < Len(log) + 1
  BY Longer, Positions
<1>4. SessionIds'
  BY <1>2, <1>3 DEF Visiting, SessionIds, LogGrows, RowsTyped
<1>5. \A p, i : i \in Nat /\ NoLogin(p, i, Len(log) + 1) => NoLogin(p, i, Len(log) + 1)'
  BY <1>2, <1>3, Longer DEF NoLogin
<1>6. \A p, i, j : NoLogin(p, i, j) => NoLogin(p, i, j)'
  BY <1>2, <1>3 DEF NoLogin
<1>7. OpenVisits'
  <2>1. SUFFICES ASSUME NEW p \in People, here[p] # Null
                 PROVE  \E i \in DOMAIN log' : /\ log'[i].kind = "login" /\ log'[i].session = here[p] /\ log'[i].who = p
                                               /\ NoLogin(p, i, Len(log) + 1)'
    BY DEF OpenVisits
  <2>2. PICK i \in DOMAIN log : /\ log[i].kind = "login" /\ log[i].session = here[p] /\ log[i].who = p
                                /\ NoLogin(p, i, Len(log) + 1)
    BY <2>1 DEF Visiting, OpenVisits
  <2>. QED
    BY <2>2, <1>3, <1>5
<1>8. ClosedVisits'
  <2>1. SUFFICES ASSUME NEW j \in DOMAIN log', log'[j].kind = "logout"
                 PROVE  \E i \in DOMAIN log' : /\ i < j /\ log'[i].kind = "login" /\ log'[i].session = log'[j].session
                                               /\ log'[i].who = log'[j].who /\ NoLogin(log[j].who, i, j)'
    BY DEF ClosedVisits
  <2>2. PICK i \in DOMAIN log : /\ i < j /\ log[i].kind = "login" /\ log[i].session = log[j].session
                                /\ log[i].who = log[j].who /\ NoLogin(log[j].who, i, j)
    BY <2>1, <1>2 DEF Visiting, ClosedVisits
  <2>. QED
    BY <2>1, <2>2, <1>2, <1>3, <1>6
<1>. QED
  BY <1>1, <1>4, <1>7, <1>8 DEF Visiting
\* A login opens a visit of somebody who had none open.
LEMMA LoginRow ==
  ASSUME RowsTyped, Visiting, NEW e, LogGrows(e), NEW p \in People, here[p] = Null,
         e.kind = "login", e.who = p, e.session = written, here' = [here EXCEPT ![p] = written]
  PROVE  Visiting'
<1>n. PICK n \in Nat : n = Len(log) + 1
  BY Positions
<1>0. /\ written \in Nat /\ written' = written + 1 /\ here \in [People -> Nat \cup {Null}]
      /\ written # Null
  BY InsightsConstants DEF LogGrows, RowsTyped
<1>1. LogInOrder'
  BY OrderKept DEF Visiting
<1>2. \A i \in DOMAIN log : log'[i] = log[i] /\ i \in DOMAIN log'
                            /\ i \in Nat /\ i < n
  <2>1. \A i \in DOMAIN log : log'[i] = log[i] /\ i \in DOMAIN log'
    BY Longer
  <2>2. \A i \in DOMAIN log : i \in Nat /\ i < n
    BY <1>n, Positions
  <2>. QED
    BY <2>1, <2>2
<1>3. log'[n] = e /\ log'[n].kind = "login" /\ ~ log'[n].kind = "logout" /\ DOMAIN log' = DOMAIN log \cup {n} /\ n \in Nat
  <2>1. log'[n] = e /\ DOMAIN log' = DOMAIN log \cup {n}
    BY <1>n, Longer
  <2>2. n \in Nat
    OBVIOUS
  <2>. QED
    BY <2>1, <2>2
<1>4. \A q \in People : here'[q] = IF q = p THEN written ELSE here[q]
  BY <1>0
<1>45. \A i \in DOMAIN log' : i = n \/ i \in DOMAIN log
  BY <1>3
<1>5. SessionIds'
  <2>1. \A i \in DOMAIN log' : log'[i].kind = "login" \/ log'[i].kind = "logout" =>
          log'[i].session \in Nat /\ log'[i].session < written'
    BY <1>0, <1>2, <1>3 DEF Visiting, SessionIds
  <2>2. \A i, j \in DOMAIN log' : log'[i].kind = "login" /\ log'[j].kind = "login" /\ log'[i].session = log'[j].session => i = j
    BY <1>0, <1>2, <1>3 DEF Visiting, SessionIds
  <2>3. \A i, j \in DOMAIN log' : log'[i].kind = "logout" /\ log'[j].kind = "logout" /\ log'[i].session = log'[j].session => i = j
    BY <1>2, <1>3 DEF Visiting, SessionIds
  <2>4. \A j \in DOMAIN log', q \in People : log'[j].kind = "logout" => log'[j].session # here'[q]
    BY <1>0, <1>2, <1>3, <1>4 DEF Visiting, SessionIds
  <2>. QED
    BY <2>1, <2>2, <2>3, <2>4 DEF SessionIds
<1>6. OpenVisits'
  <2>0. Len(log') = n
    BY <1>n, Longer
  <2>1. SUFFICES ASSUME NEW q \in People, here'[q] # Null
                 PROVE  \E i \in DOMAIN log' : /\ log'[i].kind = "login" /\ log'[i].session = here'[q] /\ log'[i].who = q
                                               /\ NoLogin(q, i, Len(log) + 1)'
    BY DEF OpenVisits
  <2>2. CASE q = p
    <3>1. NoLogin(q, n, Len(log) + 1)'
      BY <2>0, <1>2, <1>3 DEF NoLogin
    <3>. QED
      BY <1>3, <1>4, <2>2, <3>1
  <2>3. CASE q # p
    <3>1. PICK i \in DOMAIN log : /\ log[i].kind = "login" /\ log[i].session = here[q] /\ log[i].who = q
                                  /\ NoLogin(q, i, Len(log) + 1)
      BY <2>1, <2>3, <1>4 DEF Visiting, OpenVisits
    <3>2. NoLogin(q, i, Len(log) + 1)'
      BY <2>0, <2>3, <3>1, <1>2, <1>3, <1>n DEF NoLogin
    <3>. QED
      BY <1>2, <1>4, <2>3, <3>1, <3>2
  <2>. QED
    BY <2>2, <2>3
<1>7. ClosedVisits'
  <2>1. SUFFICES ASSUME NEW j \in DOMAIN log', log'[j].kind = "logout"
                 PROVE  \E i \in DOMAIN log' : /\ i < j /\ log'[i].kind = "login" /\ log'[i].session = log'[j].session
                                               /\ log'[i].who = log'[j].who /\ NoLogin(log[j].who, i, j)'
    BY DEF ClosedVisits
  <2>2. j \in DOMAIN log /\ log[j].kind = "logout"
    BY <2>1, <1>2, <1>3
  <2>3. PICK i \in DOMAIN log : /\ i < j /\ log[i].kind = "login" /\ log[i].session = log[j].session
                                /\ log[i].who = log[j].who /\ NoLogin(log[j].who, i, j)
    BY <2>2 DEF Visiting, ClosedVisits
  <2>4. NoLogin(log[j].who, i, j)'
    BY <2>2, <2>3, <1>2, <1>3 DEF NoLogin
  <2>. QED
    BY <2>2, <2>3, <2>4, <1>2
<1>. QED
  BY <1>1, <1>5, <1>6, <1>7 DEF Visiting

\* A logout closes the visit its session is of.
LEMMA LogoutRow ==
  ASSUME RowsTyped, Visiting, NEW e, LogGrows(e), NEW p \in People, here[p] # Null,
         e.kind = "logout", e.who = p, e.session = here[p], here' = [here EXCEPT ![p] = Null]
  PROVE  Visiting'
<1>n. PICK n \in Nat : n = Len(log) + 1
  BY Positions
<1>0. /\ written \in Nat /\ written' = written + 1 /\ here \in [People -> Nat \cup {Null}]
  BY DEF LogGrows, RowsTyped
<1>1. LogInOrder'
  BY OrderKept DEF Visiting
<1>2. \A i \in DOMAIN log : log'[i] = log[i] /\ i \in DOMAIN log'
                            /\ i \in Nat /\ i < n
  <2>1. \A i \in DOMAIN log : log'[i] = log[i] /\ i \in DOMAIN log'
    BY Longer
  <2>2. \A i \in DOMAIN log : i \in Nat /\ i < n
    BY <1>n, Positions
  <2>. QED
    BY <2>1, <2>2
<1>3. log'[n] = e /\ ~ log'[n].kind = "login" /\ log'[n].kind = "logout" /\ DOMAIN log' = DOMAIN log \cup {n} /\ n \in Nat
  <2>1. log'[n] = e /\ DOMAIN log' = DOMAIN log \cup {n}
    BY <1>n, Longer
  <2>2. n \in Nat
    OBVIOUS
  <2>. QED
    BY <2>1, <2>2
<1>4. \A q \in People : here'[q] = IF q = p THEN Null ELSE here[q]
  BY <1>0
<1>5. PICK o \in DOMAIN log : /\ log[o].kind = "login" /\ log[o].session = here[p] /\ log[o].who = p
                              /\ NoLogin(p, o, n)
  BY <1>n DEF Visiting, OpenVisits
<1>6. here[p] \in Nat /\ here[p] < written /\ here[p] # Null
  BY <1>5 DEF Visiting, SessionIds
<1>7. \A q \in People : q # p => here[q] # here[p]
  <2>1. SUFFICES ASSUME NEW q \in People, q # p, here[q] = here[p] PROVE FALSE
    OBVIOUS
  <2>2. PICK i \in DOMAIN log : log[i].kind = "login" /\ log[i].session = here[q] /\ log[i].who = q
    BY <2>1 DEF Visiting, OpenVisits
  <2>. QED
    BY <1>5, <2>1, <2>2 DEF Visiting, SessionIds
<1>8. SessionIds'
  <2>1. \A i \in DOMAIN log' : log'[i].kind = "login" \/ log'[i].kind = "logout" =>
          log'[i].session \in Nat /\ log'[i].session < written'
    BY <1>0, <1>2, <1>3, <1>6 DEF Visiting, SessionIds
  <2>2. \A i, j \in DOMAIN log' : log'[i].kind = "login" /\ log'[j].kind = "login" /\ log'[i].session = log'[j].session => i = j
    BY <1>2, <1>3 DEF Visiting, SessionIds
  <2>3. \A i, j \in DOMAIN log' : log'[i].kind = "logout" /\ log'[j].kind = "logout" /\ log'[i].session = log'[j].session => i = j
    BY <1>2, <1>3 DEF Visiting, SessionIds
  <2>4. \A j \in DOMAIN log', q \in People : log'[j].kind = "logout" => log'[j].session # here'[q]
    <3>1. SUFFICES ASSUME NEW j \in DOMAIN log', NEW q \in People, log'[j].kind = "logout" PROVE log'[j].session # here'[q]
      OBVIOUS
    <3>2. log'[j].session \in Nat /\ Null \notin Nat
      BY <2>1, <3>1, InsightsConstants
    <3>3. CASE q = p
      BY <1>4, <3>2, <3>3
    <3>4. CASE q # p
      BY <1>2, <1>3, <1>4, <1>7, <3>1, <3>4 DEF Visiting, SessionIds
    <3>. QED
      BY <3>3, <3>4
  <2>. QED
    BY <2>1, <2>2, <2>3, <2>4 DEF SessionIds
<1>9. Len(log') = n
  BY <1>n, Longer
<1>10. OpenVisits'
  <2>1. SUFFICES ASSUME NEW q \in People, here'[q] # Null
                 PROVE  \E i \in DOMAIN log' : /\ log'[i].kind = "login" /\ log'[i].session = here'[q] /\ log'[i].who = q
                                               /\ NoLogin(q, i, Len(log) + 1)'
    BY DEF OpenVisits
  <2>2. q # p /\ here'[q] = here[q]
    BY <1>4, <2>1
  <2>3. PICK i \in DOMAIN log : /\ log[i].kind = "login" /\ log[i].session = here[q] /\ log[i].who = q
                                /\ NoLogin(q, i, Len(log) + 1)
    BY <2>1, <2>2 DEF Visiting, OpenVisits
  <2>4. NoLogin(q, i, Len(log) + 1)'
    BY <1>9, <2>3, <1>2, <1>3, <1>n DEF NoLogin
  <2>. QED
    BY <1>2, <2>2, <2>3, <2>4
<1>11. ClosedVisits'
  <2>1. SUFFICES ASSUME NEW j \in DOMAIN log', log'[j].kind = "logout"
                 PROVE  \E i \in DOMAIN log' : /\ i < j /\ log'[i].kind = "login" /\ log'[i].session = log'[j].session
                                               /\ log'[i].who = log'[j].who /\ NoLogin(log[j].who, i, j)'
    BY DEF ClosedVisits
  <2>2. CASE j = n
    <3>1. NoLogin(log[j].who, o, j)'
      BY <2>2, <1>2, <1>3, <1>5 DEF NoLogin
    <3>. QED
      BY <1>2, <1>3, <1>5, <2>2, <3>1
  <2>3. CASE j # n
    <3>1. j \in DOMAIN log /\ log[j].kind = "logout"
      BY <2>1, <2>3, <1>2, <1>3
    <3>2. PICK i \in DOMAIN log : /\ i < j /\ log[i].kind = "login" /\ log[i].session = log[j].session
                                  /\ log[i].who = log[j].who /\ NoLogin(log[j].who, i, j)
      BY <3>1 DEF Visiting, ClosedVisits
    <3>3. NoLogin(log[j].who, i, j)'
      BY <3>1, <3>2, <1>2, <1>3 DEF NoLogin
    <3>. QED
      BY <3>1, <3>2, <3>3, <1>2
  <2>. QED
    BY <2>2, <2>3
<1>. QED
  BY <1>1, <1>8, <1>10, <1>11 DEF Visiting

\* Nothing is logged, and nobody comes.
LEMMA NobodyComes ==
  ASSUME RowsTyped, Visiting, log' = log, tick' >= tick, tick' \in Nat, written' >= written, written' \in Nat,
         \A p \in People : here'[p] \in {here[p], Null}
  PROVE  Visiting'
<1>0. \A i \in DOMAIN log : log[i] \in EventRow /\ log[i].at \in Nat
  <2>1. \A i \in DOMAIN log : log[i] \in EventRow
    BY DEF RowsTyped
  <2>. QED
    BY <2>1 DEF EventRow
<1>1. LogInOrder'
  BY <1>0 DEF Visiting, LogInOrder, RowsTyped
<1>3. \A p, i, j : NoLogin(p, i, j)' <=> NoLogin(p, i, j)
  BY DEF NoLogin
<1>4. SessionIds'
  <2>1. \A i \in DOMAIN log : log[i].kind = "login" \/ log[i].kind = "logout" => log[i].session \in Nat /\ log[i].session < written'
    BY DEF Visiting, SessionIds, RowsTyped
  <2>2. \A j \in DOMAIN log, q \in People : log[j].kind = "logout" => log[j].session # here'[q]
    BY <2>1, InsightsConstants DEF Visiting, SessionIds
  <2>. QED
    BY <2>1, <2>2 DEF Visiting, SessionIds
<1>5. OpenVisits'
  <2>1. SUFFICES ASSUME NEW p \in People, here'[p] # Null
                 PROVE  \E i \in DOMAIN log' : /\ log'[i].kind = "login" /\ log'[i].session = here'[p] /\ log'[i].who = p
                                               /\ NoLogin(p, i, Len(log) + 1)'
    BY DEF OpenVisits
  <2>2. here'[p] = here[p]
    BY <2>1
  <2>3. PICK i \in DOMAIN log : /\ log[i].kind = "login" /\ log[i].session = here[p] /\ log[i].who = p
                                /\ NoLogin(p, i, Len(log) + 1)
    BY <2>1, <2>2 DEF Visiting, OpenVisits
  <2>4. NoLogin(p, i, Len(log) + 1)'
    BY <2>3, <1>3
  <2>. QED
    BY <2>2, <2>3, <2>4
<1>6. ClosedVisits'
  BY <1>3 DEF Visiting, ClosedVisits
<1>. QED
  BY <1>1, <1>4, <1>5, <1>6 DEF Visiting
-----------------------------------------------------------------------------
(* Plays *)

LEMMA PlayIs ==
  ASSUME NEW x \in Play
  PROVE  /\ x.platform \in Platforms /\ x.region \in Regions /\ x.started \in Nat
         /\ x.ended \in Nat \cup {Null} /\ x.open \in BOOLEAN
BY DEF Play

\* A play over, at its end or not.
LEMMA PlayCloses ==
  ASSUME NEW x \in Play, NEW t \in Nat
  PROVE  /\ [x EXCEPT !.ended = t, !.open = FALSE] \in Play
         /\ [x EXCEPT !.ended = t, !.open = FALSE].platform = x.platform
         /\ [x EXCEPT !.ended = t, !.open = FALSE].started = x.started
         /\ [x EXCEPT !.ended = t, !.open = FALSE].ended = t
         /\ [x EXCEPT !.ended = t, !.open = FALSE].open = FALSE
<1>1. [x EXCEPT !.ended = t, !.open = FALSE] \in Play
  BY ZenonT(30) DEF Play
<1>2. [x EXCEPT !.ended = t, !.open = FALSE].platform = x.platform
  BY DEF Play
<1>3. [x EXCEPT !.ended = t, !.open = FALSE].started = x.started
  BY DEF Play
<1>4. [x EXCEPT !.ended = t, !.open = FALSE].ended = t
  BY DEF Play
<1>5. [x EXCEPT !.ended = t, !.open = FALSE].open = FALSE
  BY DEF Play
<1>. QED
  BY <1>1, <1>2, <1>3, <1>4, <1>5

LEMMA PlayStops ==
  ASSUME NEW x \in Play
  PROVE  /\ [x EXCEPT !.open = FALSE] \in Play
         /\ [x EXCEPT !.open = FALSE].platform = x.platform
         /\ [x EXCEPT !.open = FALSE].started = x.started
         /\ [x EXCEPT !.open = FALSE].ended = x.ended
         /\ [x EXCEPT !.open = FALSE].open = FALSE
<1>1. [x EXCEPT !.open = FALSE] \in Play
  BY ZenonT(30) DEF Play
<1>2. [x EXCEPT !.open = FALSE].platform = x.platform
  BY DEF Play
<1>3. [x EXCEPT !.open = FALSE].started = x.started
  BY DEF Play
<1>4. [x EXCEPT !.open = FALSE].ended = x.ended
  BY DEF Play
<1>5. [x EXCEPT !.open = FALSE].open = FALSE
  BY DEF Play
<1>. QED
  BY <1>1, <1>2, <1>3, <1>4, <1>5

\* One play ends as the next begins.
LEMMA SwitchKept ==
  ASSUME RowsTyped, Playing, NEW q \in Platforms, NEW v \in Regions, Switches(q, v), tick' = tick
  PROVE  plays' \in Seq(Play) /\ Playing'
<1>. DEFINE Closed(x) == IF x.open /\ x.platform = q THEN [x EXCEPT !.ended = tick, !.open = FALSE] ELSE x
            new == [platform |-> q, region |-> v, started |-> tick, ended |-> Null, open |-> TRUE]
            old == [i \in DOMAIN plays |-> Closed(plays[i])]
<1>0. tick \in Nat /\ plays \in Seq(Play) /\ DOMAIN plays = 1 .. Len(plays) /\ Len(plays) \in Nat
  BY DEF RowsTyped
<1>01. DOMAIN plays = 1 .. Len(plays) /\ Len(plays) \in Nat
  BY <1>0
<1>1. new \in Play /\ new.platform = q /\ new.started = tick /\ new.ended = Null /\ new.open = TRUE
  BY <1>0 DEF Play
<1>2. \A i \in DOMAIN plays : plays[i] \in Play
  BY <1>0
<1>3. \A x \in Play : /\ Closed(x) \in Play /\ Closed(x).platform = x.platform
                      /\ Closed(x).started = x.started
                      /\ (~ x.open \/ x.platform = q => ~ Closed(x).open)
                      /\ Closed(x).ended = IF x.open /\ x.platform = q THEN tick ELSE x.ended
  <2>1. SUFFICES ASSUME NEW x \in Play
                 PROVE  /\ Closed(x) \in Play /\ Closed(x).platform = x.platform
                        /\ Closed(x).started = x.started
                        /\ (~ x.open \/ x.platform = q => ~ Closed(x).open)
                        /\ Closed(x).ended = IF x.open /\ x.platform = q THEN tick ELSE x.ended
    OBVIOUS
  <2>2. CASE x.open /\ x.platform = q
    <3>. DEFINE y == [x EXCEPT !.ended = tick, !.open = FALSE]
    <3>1. Closed(x) = y
      BY <2>2
    <3>2. /\ y \in Play /\ y.platform = x.platform /\ y.started = x.started /\ y.ended = tick
          /\ y.open = FALSE
      BY <1>0, PlayCloses
    <3>. HIDE DEF y, Closed
    <3>. QED
      BY <2>2, <3>1, <3>2
  <2>3. CASE ~ (x.open /\ x.platform = q)
    <3>1. Closed(x) = x
      BY <2>3
    <3>2. x.open \in BOOLEAN
      BY PlayIs
    <3>. HIDE DEF Closed
    <3>. QED
      BY <2>3, <3>1, <3>2
  <2>. QED
    BY <2>2, <2>3
<1>4. old \in Seq(Play) /\ Len(old) = Len(plays) /\ DOMAIN old = DOMAIN plays
  <2>1. \A i \in DOMAIN plays : Closed(plays[i]) \in Play
    BY <1>2, <1>3
  <2>. HIDE DEF Closed
  <2>. QED
    BY <1>0, <2>1
<1>5. plays' = Append(old, new)
  BY DEF Switches
<1>6. PICK n \in Nat : n = Len(plays) + 1
  BY <1>01
<1>7. /\ plays' \in Seq(Play) /\ DOMAIN plays' = DOMAIN plays \cup {n} /\ plays'[n] = new
      /\ \A i \in DOMAIN plays : plays'[i] = old[i]
  <2>. HIDE DEF old, new
  <2>. QED
    <3>1. /\ Append(old, new) \in Seq(Play) /\ Len(old) \in Nat /\ DOMAIN old = 1 .. Len(old)
          /\ DOMAIN Append(old, new) = 1 .. Len(old) + 1 /\ Append(old, new)[Len(old) + 1] = new
          /\ \A i \in DOMAIN old : Append(old, new)[i] = old[i]
      BY <1>1, <1>4, Appended
    <3>2. 1 .. Len(old) + 1 = (1 .. Len(old)) \cup {Len(old) + 1}
      BY <3>1
    <3>3. DOMAIN plays' = DOMAIN plays \cup {n}
      <4>1. DOMAIN plays' = 1 .. Len(old) + 1
        BY <1>5, <3>1
      <4>2. DOMAIN plays = 1 .. Len(old)
        BY <1>4, <3>1
      <4>. QED
        BY <1>4, <1>6, <3>2, <4>1, <4>2
    <3>4. plays'[n] = new
      BY <1>4, <1>5, <1>6, <3>1
    <3>. QED
      BY <1>4, <1>5, <3>1, <3>3, <3>4
<1>8. \A i \in DOMAIN plays : plays'[i] = Closed(plays[i])
  BY <1>7
<1>. HIDE DEF old, new, Closed
<1>9. \A i \in DOMAIN plays :
        /\ plays'[i].platform = plays[i].platform /\ plays'[i].started = plays[i].started
        /\ (~ plays[i].open \/ plays[i].platform = q => ~ plays'[i].open)
        /\ plays'[i].ended = IF plays[i].open /\ plays[i].platform = q THEN tick ELSE plays[i].ended
        /\ plays[i].started \in Nat /\ plays[i].ended \in Nat \cup {Null} /\ plays[i].open \in BOOLEAN
  <2>1. SUFFICES ASSUME NEW i \in DOMAIN plays
                 PROVE  /\ plays'[i].platform = plays[i].platform /\ plays'[i].started = plays[i].started
                        /\ (~ plays[i].open \/ plays[i].platform = q => ~ plays'[i].open)
                        /\ plays'[i].ended = IF plays[i].open /\ plays[i].platform = q THEN tick ELSE plays[i].ended
                        /\ plays[i].started \in Nat /\ plays[i].ended \in Nat \cup {Null}
                        /\ plays[i].open \in BOOLEAN
    OBVIOUS
  <2>2. PICK x \in Play : x = plays[i]
    BY <1>2
  <2>3. plays'[i] = Closed(x)
    BY <1>8, <2>2
  <2>4. /\ Closed(x).platform = x.platform /\ Closed(x).started = x.started
        /\ (~ x.open \/ x.platform = q => ~ Closed(x).open)
        /\ Closed(x).ended = IF x.open /\ x.platform = q THEN tick ELSE x.ended
    BY <1>3
  <2>5. x.started \in Nat /\ x.ended \in Nat \cup {Null} /\ x.open \in BOOLEAN
    BY PlayIs
  <2>. QED
    BY <2>2, <2>3, <2>4, <2>5
<1>95. \A i \in DOMAIN plays : i \in Nat /\ i < n
  BY <1>01, <1>6
<1>10. PlayTimes'
  <2>1. SUFFICES ASSUME NEW i \in DOMAIN plays'
                 PROVE  /\ plays'[i].started <= tick'
                        /\ plays'[i].ended # Null => /\ plays'[i].started <= plays'[i].ended
                                                     /\ plays'[i].ended <= tick' /\ ~ plays'[i].open
    BY DEF PlayTimes
  <2>2. tick \in Nat /\ tick' = tick
    BY <1>0
  <2>3. CASE i = n
    BY <1>1, <1>7, <2>2, <2>3
  <2>4. CASE i # n
    <3>1. i \in DOMAIN plays
      BY <1>7, <2>1, <2>4
    <3>2. /\ plays[i].started <= tick
          /\ plays[i].ended # Null => /\ plays[i].started <= plays[i].ended
                                      /\ plays[i].ended <= tick /\ ~ plays[i].open
      BY <3>1 DEF Playing, PlayTimes
    <3>. QED
      BY <1>9, <2>2, <3>1, <3>2
  <2>. QED
    BY <2>3, <2>4
<1>11. PlaysInTurn'
  <2>1. SUFFICES ASSUME NEW i \in DOMAIN plays', NEW j \in DOMAIN plays', i < j,
                        plays'[i].platform = plays'[j].platform
                 PROVE  /\ ~ plays'[i].open
                        /\ plays'[i].ended # Null => plays'[i].ended <= plays'[j].started
    BY DEF PlaysInTurn
  <2>2. i \in DOMAIN plays
    <3>1. i = n \/ i \in DOMAIN plays
      BY <1>7, <2>1
    <3>2. j = n \/ j \in DOMAIN plays
      BY <1>7, <2>1
    <3>3. n \in Nat /\ (j = n \/ (j \in Nat /\ j < n)) /\ i < j
      BY <1>95, <2>1, <3>2
    <3>4. i # n
      BY <3>3
    <3>. QED
      BY <3>1, <3>4
  <2>3. CASE j = n
    <3>1. /\ plays[i].started <= tick
          /\ plays[i].ended # Null => plays[i].ended <= tick /\ ~ plays[i].open
      BY <2>2 DEF Playing, PlayTimes
    <3>2. plays'[j].started = tick /\ plays'[j].platform = q
      BY <1>1, <1>7, <2>3
    <3>3. tick \in Nat
      BY <1>0
    <3>. QED
      BY <1>9, <2>1, <2>2, <3>1, <3>2, <3>3
  <2>4. CASE j # n
    BY <1>7, <1>9, <2>1, <2>2, <2>4 DEF Playing, PlaysInTurn
  <2>. QED
    BY <2>3, <2>4
<1>. QED
  BY <1>7, <1>10, <1>11 DEF Playing

\* Every play stops, and none is told to have ended.
LEMMA CrashKept ==
  ASSUME RowsTyped, Playing, Crashes
  PROVE  plays' \in Seq(Play) /\ Playing'
<1>0. /\ tick \in Nat /\ tick' = tick /\ plays \in Seq(Play) /\ DOMAIN plays = 1 .. Len(plays)
      /\ Len(plays) \in Nat /\ plays' = [i \in DOMAIN plays |-> [plays[i] EXCEPT !.open = FALSE]]
  BY DEF RowsTyped, Crashes
<1>1. \A i \in DOMAIN plays : plays[i] \in Play
  BY <1>0
<1>2. DOMAIN plays' = DOMAIN plays
  BY <1>0
<1>3. \A i \in DOMAIN plays :
        /\ plays'[i] \in Play /\ plays'[i].platform = plays[i].platform
        /\ plays'[i].started = plays[i].started /\ plays'[i].ended = plays[i].ended
        /\ plays'[i].open = FALSE
  <2>1. \A i \in DOMAIN plays : plays'[i] = [plays[i] EXCEPT !.open = FALSE]
    BY <1>0
  <2>2. SUFFICES ASSUME NEW i \in DOMAIN plays
                 PROVE  /\ plays'[i] \in Play /\ plays'[i].platform = plays[i].platform
                        /\ plays'[i].started = plays[i].started /\ plays'[i].ended = plays[i].ended
                        /\ plays'[i].open = FALSE
    OBVIOUS
  <2>3. PICK x \in Play : x = plays[i]
    BY <1>1
  <2>. DEFINE y == [x EXCEPT !.open = FALSE]
  <2>4. plays'[i] = y
    BY <2>1, <2>3
  <2>5. y \in Play /\ y.platform = x.platform /\ y.started = x.started /\ y.ended = x.ended /\ y.open = FALSE
    BY PlayStops
  <2>. HIDE DEF y
  <2>. QED
    BY <2>3, <2>4, <2>5
<1>4. plays' \in Seq(Play)
  <2>. QED
    BY <1>0, <1>2, <1>3
<1>5. PlayTimes'
  BY <1>0, <1>2, <1>3 DEF Playing, PlayTimes
<1>6. PlaysInTurn'
  BY <1>2, <1>3 DEF Playing, PlaysInTurn
<1>. QED
  BY <1>4, <1>5, <1>6 DEF Playing

LEMMA NothingPlays ==
  ASSUME RowsTyped, Playing, plays' = plays, tick' \in Nat, tick' >= tick
  PROVE  Playing'
<1>1. \A i \in DOMAIN plays : plays[i].started \in Nat /\ plays[i].ended \in Nat \cup {Null}
  <2>1. \A i \in DOMAIN plays : plays[i] \in Play
    BY DEF RowsTyped
  <2>. QED
    <3>1. \A x \in Play : x.started \in Nat /\ x.ended \in Nat \cup {Null}
      BY DEF Play
    <3>. QED
      BY <2>1, <3>1
<1>2. PlayTimes'
  <2>1. SUFFICES ASSUME NEW i \in DOMAIN plays
                 PROVE  /\ plays[i].started <= tick'
                        /\ plays[i].ended # Null => /\ plays[i].started <= plays[i].ended
                                                    /\ plays[i].ended <= tick' /\ ~ plays[i].open
    BY DEF PlayTimes
  <2>2. tick \in Nat
    BY DEF RowsTyped
  <2>3. /\ plays[i].started <= tick
        /\ plays[i].ended # Null => /\ plays[i].started <= plays[i].ended
                                    /\ plays[i].ended <= tick /\ ~ plays[i].open
    BY DEF Playing, PlayTimes
  <2>. QED
    BY <1>1, <2>2, <2>3
<1>3. PlaysInTurn'
  BY DEF Playing, PlaysInTurn
<1>. QED
  BY <1>2, <1>3 DEF Playing
-----------------------------------------------------------------------------
(* Counting rows *)

LEMMA LogIsFinite ==
  ASSUME RowsTyped
  PROVE  IsFiniteSet(DOMAIN log) /\ Cardinality(DOMAIN log) = Len(log)
<1>1. Len(log) \in Nat /\ DOMAIN log = 1 .. Len(log)
  BY Positions
<1>2. IsFiniteSet(1 .. Len(log)) /\ Cardinality(1 .. Len(log)) = IF 1 > Len(log) THEN 0 ELSE Len(log) - 1 + 1
  BY <1>1, FS_Interval
<1>. QED
  BY <1>1, <1>2

LEMMA RowsAreFinite ==
  ASSUME RowsTyped, NEW kind, NEW since
  PROVE  IsFiniteSet(Rows(kind, since)) /\ Rows(kind, since) \subseteq DOMAIN log
<1>1. Rows(kind, since) \in SUBSET DOMAIN log
  BY DEF Rows
<1>. QED
  BY <1>1, LogIsFinite, FS_Subset

\* Fewer are counted of a part.
LEMMA PartCounts ==
  ASSUME NEW T, IsFiniteSet(T), NEW S, S \subseteq T
  PROVE  Cardinality(S) \in Nat /\ Cardinality(T) \in Nat /\ Cardinality(S) <= Cardinality(T)
BY FS_Subset, FS_CardinalityType

TallyOf(S, key) == [k \in {key[x] : x \in S} |-> Cardinality({x \in S : key[x] = k})]

LEMMA TallyTotal ==
  ASSUME NEW S, IsFiniteSet(S), NEW key
  PROVE  Total(TallyOf(S, key)) = Cardinality(S) /\ Total(TallyOf(S, key)) \in Nat
<1>. DEFINE K == {key[x] : x \in S}
            f == TallyOf(S, key)
<1>1. IsFiniteSet(K)
  BY ImageIsFinite
<1>2. DOMAIN f = K /\ (\A k \in K : f[k] = Cardinality({x \in S : key[x] = k})) /\ \A x \in S : key[x] \in K
  BY DEF TallyOf
<1>3. Total(f) = SumOver(f, K)
  BY <1>2 DEF Total, SumOver
<1>. HIDE DEF K, f
<1>4. SumOver(f, K) = Cardinality(S)
  BY <1>1, <1>2, SumOfTally
<1>. QED
  BY <1>3, <1>4, FS_CardinalityType DEF f

Regional == [i \in DOMAIN log |-> log[i].region]
Reasoned == [i \in DOMAIN log |-> log[i].reason]
Commanded == [i \in DOMAIN log |-> log[i].command]
Kinded == [i \in DOMAIN log |-> log[i].kind]

LEMMA TalliesAre ==
  ASSUME NEW S, S \subseteq DOMAIN log
  PROVE  /\ Tally(S, LAMBDA i : log[i].region) = TallyOf(S, Regional)
         /\ Tally(S, LAMBDA i : log[i].reason) = TallyOf(S, Reasoned)
         /\ Tally(S, LAMBDA i : log[i].command) = TallyOf(S, Commanded)
         /\ Tally(S, LAMBDA i : log[i].kind) = TallyOf(S, Kinded)
<1>1. Tally(S, LAMBDA i : log[i].region) = TallyOf(S, Regional)
  BY DEF Tally, TallyOf, Regional
<1>2. Tally(S, LAMBDA i : log[i].reason) = TallyOf(S, Reasoned)
  BY DEF Tally, TallyOf, Reasoned
<1>3. Tally(S, LAMBDA i : log[i].command) = TallyOf(S, Commanded)
  BY DEF Tally, TallyOf, Commanded
<1>4. Tally(S, LAMBDA i : log[i].kind) = TallyOf(S, Kinded)
  BY DEF Tally, TallyOf, Kinded
<1>. QED
  BY <1>1, <1>2, <1>3, <1>4

Refusals == Rows("refused", 0)
Unknowns == {i \in Refusals : log[i].reason = Unknown}
RightGuesses(since) == {i \in Rows("guess", since) : log[i].correct}
RefusedIn(usage) == MapThenSumSet(LAMBDA c : usage[c].refusals, DOMAIN usage)

LEMMA RefusedIs ==
  ASSUME NEW usage
  PROVE  RefusedIn(usage) = SumOver([c \in DOMAIN usage |-> usage[c].refusals], DOMAIN usage)
BY DEF RefusedIn, SumOver, MapThenSumSet, MapThenFoldSet

\* The refusals of every command are all the refusals.
LEMMA RefusalsAddUp ==
  ASSUME RowsTyped
  PROVE  RefusedIn(CommandUsage(0)) = Cardinality(Refusals) /\ RefusedIn(CommandUsage(0)) \in Nat
<1>. DEFINE R == Rows("run", 0) \cup Rows("refused", 0)
            K == {log[i].command : i \in R}
            u == CommandUsage(0)
            f == [c \in K |-> u[c].refusals]
<1>1. DOMAIN u = K /\ \A c \in K : u[c].refusals = Cardinality({i \in Refusals : log[i].command = c})
  BY DEF CommandUsage, Refusals
<1>2. IsFiniteSet(R) /\ R \subseteq DOMAIN log
  BY RowsAreFinite, FS_Union
<1>3. IsFiniteSet(K)
  <2>1. K = {Commanded[i] : i \in R}
    BY <1>2 DEF Commanded
  <2>. HIDE DEF K, R
  <2>. QED
    BY <1>2, <2>1, ImageIsFinite
<1>4. IsFiniteSet(Refusals) /\ Refusals \subseteq DOMAIN log /\ Refusals \subseteq R
  BY RowsAreFinite DEF Refusals
<1>5. RefusedIn(u) = SumOver(f, K)
  BY <1>1, RefusedIs
<1>6. \A i \in Refusals : Commanded[i] = log[i].command
  BY <1>4 DEF Commanded
<1>61. \A i \in Refusals : Commanded[i] \in K
  BY <1>4, <1>6
<1>7. \A c \in K : f[c] = Cardinality({i \in Refusals : Commanded[i] = c})
  <2>1. \A c : {i \in Refusals : Commanded[i] = c} = {i \in Refusals : log[i].command = c}
    BY <1>6
  <2>. QED
    BY <1>1, <2>1
<1>. HIDE DEF K, f, R
<1>8. SumOver(f, K) = Cardinality(Refusals)
  BY <1>3, <1>4, <1>61, <1>7, SumOfTally
<1>. QED
  BY <1>4, <1>5, <1>8, FS_CardinalityType DEF u

\* Rows stay.
RowsStay == \A i \in DOMAIN log : i \in DOMAIN log' /\ log'[i] = log[i]

LEMMA CountsGrow ==
  ASSUME RowsTyped, RowsTyped', RowsStay, bots' = bots, NEW kind, NEW since
  PROVE  /\ Cardinality(Rows(kind, since)) <= Cardinality(Rows(kind, since)')
         /\ Cardinality(Rows(kind, since)) \in Nat /\ Cardinality(Rows(kind, since)') \in Nat
         /\ Rows(kind, since) \subseteq Rows(kind, since)' /\ IsFiniteSet(Rows(kind, since)')
<1>1. Rows(kind, since) \subseteq Rows(kind, since)'
  BY DEF Rows, RowsStay, Human
<1>2. IsFiniteSet(Rows(kind, since)')
  <2>1. Len(log') \in Nat /\ DOMAIN log' = 1 .. Len(log')
    BY DEF RowsTyped
  <2>2. IsFiniteSet(DOMAIN log')
    BY <2>1, FS_Interval
  <2>3. Rows(kind, since)' \in SUBSET DOMAIN log'
    BY DEF Rows
  <2>. QED
    BY <2>2, <2>3, FS_Subset
<1>. QED
  BY <1>1, <1>2, PartCounts
-----------------------------------------------------------------------------
(* What a handler has read so far *)

ReasonsCover(q) == Total(q.reasons) >= RefusedIn(q.usage)

GuessesSoFar(q) ==
  q.step = "guess states" =>
    /\ q.bots \subseteq bots
    /\ q.bots = bots => /\ q.total \in Nat /\ q.total <= Cardinality(Rows("guess", q.since))
                        /\ q.correct \in Nat /\ q.correct <= Cardinality(RightGuesses(q.since))
RefusalsSoFar(q) ==
  q.step = "refusal reasons" =>
    /\ q.bots \subseteq bots
    /\ q.days = 0 /\ q.bots = bots =>
         RefusedIn(q.usage) \in Nat /\ RefusedIn(q.usage) <= Cardinality(Refusals)
ReasonsSoFar(q) ==
  q.step = "unknown commands" =>
    /\ q.bots \subseteq bots
    /\ q.days = 0 /\ q.bots = bots =>
         /\ ReasonsCover(q)
         /\ Unknown \in DOMAIN q.reasons =>
              q.reasons[Unknown] \in Nat /\ q.reasons[Unknown] <= Cardinality(Unknowns)
FootageSoFar(q) == q.step = "platforms" /\ q.days = 0 /\ DOMAIN q.clips # {} => samples # <<>>

\* Only the handler that holds the mutex gathers, and nobody is told more meanwhile.
LifetimeSoFar(r, q) ==
  /\ q.step \in {"census", "lifetime"} => cache.holder = r
  /\ q.step = "lifetime" => q.total \in Nat /\ q.total >= told /\ q.total <= Len(log)

AnswerFits(q) ==
  q.step = "answered" =>
    /\ q.to = "guesses" /\ q.kept => Total(q.states) >= q.total /\ q.right >= q.correct
    /\ q.to = "commands" /\ q.kept =>
         ReasonsCover(q) /\ (Unknown \in DOMAIN q.reasons => Total(q.typed) >= q.reasons[Unknown])
    /\ q.to = "footage" /\ q.kept /\ DOMAIN q.clips # {} => q.platforms # {}
    /\ q.to = "lifetime" => q.total >= q.floor

RequestFine(r, q) ==
  /\ GuessesSoFar(q) /\ RefusalsSoFar(q) /\ ReasonsSoFar(q) /\ FootageSoFar(q)
  /\ LifetimeSoFar(r, q) /\ AnswerFits(q)
RequestsFine == DOMAIN request = Requests /\ \A r \in Requests : RequestFine(r, request[r])

CacheFine ==
  /\ cache \in [total : Nat, built : Nat \cup {Null}, holder : Requests \cup {Null}]
  /\ told \in Nat /\ told <= Len(log) /\ (cache.built # Null => cache.total = told)

\* Rows land, and what was read still fits.
LEMMA ReadsKept ==
  ASSUME RowsTyped, RowsTyped', RowsStay, bots \subseteq bots', samples # <<>> => samples' # <<>>,
         NEW r, NEW q, RequestFine(r, q), LifetimeSoFar(r, q)'
  PROVE  RequestFine(r, q)'
<1>1. q.bots \subseteq bots => q.bots \subseteq bots' /\ (q.bots = bots' => q.bots = bots /\ bots' = bots)
  OBVIOUS
<1>2. ASSUME bots' = bots, NEW kind, NEW since
      PROVE  /\ Cardinality(Rows(kind, since)) <= Cardinality(Rows(kind, since)')
             /\ Cardinality(Rows(kind, since)) \in Nat /\ Cardinality(Rows(kind, since)') \in Nat
             /\ Rows(kind, since) \subseteq Rows(kind, since)' /\ IsFiniteSet(Rows(kind, since)')
  BY <1>2, CountsGrow
<1>3. GuessesSoFar(q)'
  <2>1. SUFFICES ASSUME q.step = "guess states" PROVE GuessesSoFar(q)'
    BY DEF GuessesSoFar
  <2>2. q.bots \subseteq bots /\ (q.bots = bots =>
           /\ q.total \in Nat /\ q.total <= Cardinality(Rows("guess", q.since))
           /\ q.correct \in Nat /\ q.correct <= Cardinality(RightGuesses(q.since)))
    BY <2>1 DEF RequestFine, GuessesSoFar
  <2>3. ASSUME q.bots = bots'
        PROVE  /\ q.total \in Nat /\ q.total <= Cardinality(Rows("guess", q.since)')
               /\ q.correct \in Nat /\ q.correct <= Cardinality(RightGuesses(q.since)')
    <3>1. bots' = bots /\ q.bots = bots
      BY <1>1, <2>2, <2>3
    <3>2. /\ Cardinality(Rows("guess", q.since)) <= Cardinality(Rows("guess", q.since)')
          /\ Cardinality(Rows("guess", q.since)) \in Nat /\ Cardinality(Rows("guess", q.since)') \in Nat
      BY <1>2, <3>1
    <3>3. RightGuesses(q.since) \subseteq RightGuesses(q.since)'
      <4>1. Rows("guess", q.since) \subseteq Rows("guess", q.since)'
        BY <1>2, <3>1
      <4>2. \A i \in Rows("guess", q.since) : log'[i] = log[i]
        BY DEF Rows, RowsStay
      <4>. QED
        BY <4>1, <4>2 DEF RightGuesses
    <3>4. IsFiniteSet(RightGuesses(q.since)')
      <4>1. RightGuesses(q.since)' \in SUBSET (Rows("guess", q.since)')
        BY DEF RightGuesses
      <4>2. IsFiniteSet(Rows("guess", q.since)')
        BY <1>2, <3>1
      <4>. QED
        BY <4>1, <4>2, FS_Subset
    <3>5. /\ Cardinality(RightGuesses(q.since)) <= Cardinality(RightGuesses(q.since)')
          /\ Cardinality(RightGuesses(q.since)) \in Nat /\ Cardinality(RightGuesses(q.since)') \in Nat
      BY <3>3, <3>4, PartCounts
    <3>. QED
      BY <2>2, <3>1, <3>2, <3>5
  <2>. QED
    BY <1>1, <2>2, <2>3 DEF GuessesSoFar
<1>4. ASSUME bots' = bots
      PROVE  /\ Cardinality(Refusals) <= Cardinality(Refusals')
             /\ Cardinality(Refusals) \in Nat /\ Cardinality(Refusals') \in Nat
             /\ Cardinality(Unknowns) <= Cardinality(Unknowns')
             /\ Cardinality(Unknowns) \in Nat /\ Cardinality(Unknowns') \in Nat
  <2>1. /\ Cardinality(Refusals) <= Cardinality(Refusals')
        /\ Cardinality(Refusals) \in Nat /\ Cardinality(Refusals') \in Nat
    BY <1>2, <1>4 DEF Refusals
  <2>2. Refusals \subseteq Refusals' /\ IsFiniteSet(Refusals')
    BY <1>2, <1>4 DEF Refusals
  <2>3. Unknowns \subseteq Unknowns'
    <3>1. \A i \in Refusals : log'[i] = log[i]
      BY DEF Refusals, Rows, RowsStay
    <3>. QED
      BY <2>2, <3>1 DEF Unknowns
  <2>4. IsFiniteSet(Unknowns')
    <3>1. Unknowns' \in SUBSET Refusals'
      BY DEF Unknowns
    <3>. QED
      BY <2>2, <3>1, FS_Subset
  <2>5. /\ Cardinality(Unknowns) <= Cardinality(Unknowns')
        /\ Cardinality(Unknowns) \in Nat /\ Cardinality(Unknowns') \in Nat
    BY <2>3, <2>4, PartCounts
  <2>. QED
    BY <2>1, <2>5
<1>5. RefusalsSoFar(q)'
  <2>1. SUFFICES ASSUME q.step = "refusal reasons" PROVE RefusalsSoFar(q)'
    BY DEF RefusalsSoFar
  <2>2. q.bots \subseteq bots /\ (q.days = 0 /\ q.bots = bots =>
           RefusedIn(q.usage) \in Nat /\ RefusedIn(q.usage) <= Cardinality(Refusals))
    BY <2>1 DEF RequestFine, RefusalsSoFar
  <2>3. ASSUME q.days = 0, q.bots = bots'
        PROVE  RefusedIn(q.usage) \in Nat /\ RefusedIn(q.usage) <= Cardinality(Refusals')
    <3>1. bots' = bots /\ q.bots = bots
      BY <1>1, <2>2, <2>3
    <3>. QED
      BY <1>4, <2>2, <2>3, <3>1
  <2>. QED
    BY <1>1, <2>2, <2>3 DEF RefusalsSoFar
<1>6. ReasonsSoFar(q)'
  <2>1. SUFFICES ASSUME q.step = "unknown commands" PROVE ReasonsSoFar(q)'
    BY DEF ReasonsSoFar
  <2>2. q.bots \subseteq bots /\ (q.days = 0 /\ q.bots = bots =>
           /\ ReasonsCover(q)
           /\ Unknown \in DOMAIN q.reasons =>
                q.reasons[Unknown] \in Nat /\ q.reasons[Unknown] <= Cardinality(Unknowns))
    BY <2>1 DEF RequestFine, ReasonsSoFar
  <2>3. ASSUME q.days = 0, q.bots = bots'
        PROVE  /\ ReasonsCover(q)
               /\ Unknown \in DOMAIN q.reasons =>
                    q.reasons[Unknown] \in Nat /\ q.reasons[Unknown] <= Cardinality(Unknowns')
    <3>1. bots' = bots /\ q.bots = bots
      BY <1>1, <2>2, <2>3
    <3>. QED
      BY <1>4, <2>2, <2>3, <3>1
  <2>. QED
    BY <1>1, <2>2, <2>3 DEF ReasonsSoFar, ReasonsCover
<1>7. FootageSoFar(q)'
  BY DEF RequestFine, FootageSoFar
<1>8. AnswerFits(q)'
  BY DEF RequestFine, AnswerFits, ReasonsCover
<1>. QED
  BY <1>3, <1>5, <1>6, <1>7, <1>8 DEF RequestFine
-----------------------------------------------------------------------------
(* Every step *)

InsightsInv == RowsTyped /\ Visiting /\ Playing /\ RequestsFine /\ CacheFine

\* What landed or happened that no handler did.
LEMMA RowsStayed ==
  ASSUME InsightsInv, RowsTyped', RowsStay, bots \subseteq bots', samples # <<>> => samples' # <<>>,
         request' = request, cache' = cache, told' = told, Len(log') >= Len(log)
  PROVE  RequestsFine' /\ CacheFine'
<1>0. Len(log) \in Nat /\ Len(log') \in Nat /\ Len(log') >= Len(log) /\ told \in Nat /\ told <= Len(log)
  BY DEF InsightsInv, RowsTyped, CacheFine
<1>1. ASSUME NEW r \in Requests
      PROVE  RequestFine(r, request[r])'
  <2>1. PICK q : q = request[r]
    OBVIOUS
  <2>2. RequestFine(r, q) /\ request'[r] = q
    BY <2>1 DEF InsightsInv, RequestsFine
  <2>3. LifetimeSoFar(r, q)
    BY <2>2 DEF RequestFine
  <2>4. LifetimeSoFar(r, q)'
    BY <1>0, <2>3 DEF LifetimeSoFar
  <2>5. RequestFine(r, q)'
    BY <2>2, <2>4, ReadsKept DEF InsightsInv
  <2>. QED
    BY <2>2, <2>5
<1>2. RequestsFine'
  BY <1>1 DEF InsightsInv, RequestsFine
<1>3. CacheFine'
  BY <1>0 DEF InsightsInv, CacheFine
<1>. QED
  BY <1>2, <1>3

LEMMA RowLands ==
  ASSUME InsightsInv, NEW e \in EventRow, e.at = tick, Logged(e), Aside,
         samples' = samples, plays' = plays, bots' = bots, here' \in [People -> Nat \cup {Null}]
  PROVE  /\ LogGrows(e) /\ RowsTyped' /\ Playing' /\ RequestsFine' /\ CacheFine'
<1>1. LogGrows(e)
  BY DEF LogGrows, Logged, Aside
<1>2. RowsTyped
  BY DEF InsightsInv
<1>3. /\ log' \in Seq(EventRow) /\ Len(log') = Len(log) + 1 /\ Len(log) \in Nat
      /\ DOMAIN log' = DOMAIN log \cup {Len(log) + 1} /\ \A i \in DOMAIN log : log'[i] = log[i]
  BY <1>1, <1>2, Longer
<1>4. tick' = tick /\ written' = written + 1 /\ request' = request /\ cache' = cache /\ told' = told
  BY DEF Logged, Aside
<1>5. RowsTyped'
  BY <1>2, <1>3, <1>4 DEF RowsTyped
<1>6. Playing'
  <2>1. tick' \in Nat /\ tick' >= tick
    BY <1>2, <1>4 DEF RowsTyped
  <2>. QED
    BY <1>2, <2>1, NothingPlays DEF InsightsInv
<1>7. RowsStay /\ Len(log') >= Len(log)
  BY <1>3 DEF RowsStay
<1>8. RequestsFine' /\ CacheFine'
  BY <1>4, <1>5, <1>7, RowsStayed
<1>. QED
  BY <1>1, <1>5, <1>6, <1>8

LEMMA EventIs ==
  ASSUME RowsTyped, NEW p \in People, NEW k \in Kinds
  PROVE  Event(k, p) \in EventRow /\ Event(k, p).kind = k /\ Event(k, p).who = p /\ Event(k, p).at = tick
BY DEF Event, EventRow, RowsTyped

\* What a row says besides its kind, its person and its time.
VisitOf(x, s, v) == [x EXCEPT !.session = s, !.region = v]

LEMMA VisitRow ==
  ASSUME NEW x \in EventRow, NEW s \in Nat \cup {Null}, NEW v \in Regions \cup {Null}
  PROVE  /\ VisitOf(x, s, v) \in EventRow
         /\ VisitOf(x, s, v).kind = x.kind
         /\ VisitOf(x, s, v).who = x.who
         /\ VisitOf(x, s, v).at = x.at
         /\ VisitOf(x, s, v).session = s
<1>1. VisitOf(x, s, v) \in EventRow
  BY ZenonT(30) DEF EventRow, VisitOf
<1>2. VisitOf(x, s, v).kind = x.kind
  BY DEF EventRow, VisitOf
<1>3. VisitOf(x, s, v).who = x.who
  BY DEF EventRow, VisitOf
<1>4. VisitOf(x, s, v).at = x.at
  BY DEF EventRow, VisitOf
<1>5. VisitOf(x, s, v).session = s
  BY DEF EventRow, VisitOf
<1>. QED
  BY <1>1, <1>2, <1>3, <1>4, <1>5

LEMMA RunRow ==
  ASSUME NEW x \in EventRow, NEW c \in Cmds \cup {Null}
  PROVE  /\ [x EXCEPT !.command = c] \in EventRow
         /\ [x EXCEPT !.command = c].kind = x.kind
         /\ [x EXCEPT !.command = c].who = x.who
         /\ [x EXCEPT !.command = c].at = x.at
<1>1. [x EXCEPT !.command = c] \in EventRow
  BY ZenonT(30) DEF EventRow
<1>2. [x EXCEPT !.command = c].kind = x.kind
  BY DEF EventRow
<1>3. [x EXCEPT !.command = c].who = x.who
  BY DEF EventRow
<1>4. [x EXCEPT !.command = c].at = x.at
  BY DEF EventRow
<1>. QED
  BY <1>1, <1>2, <1>3, <1>4

RefusalOf(x, c, why) == [x EXCEPT !.command = c, !.reason = why]

LEMMA RefusalRow ==
  ASSUME NEW x \in EventRow, NEW c \in Cmds \cup {Null}, NEW why \in {Unknown, "cooldown", Null}
  PROVE  /\ RefusalOf(x, c, why) \in EventRow
         /\ RefusalOf(x, c, why).kind = x.kind
         /\ RefusalOf(x, c, why).who = x.who
         /\ RefusalOf(x, c, why).at = x.at
<1>1. RefusalOf(x, c, why) \in EventRow
  BY ZenonT(30) DEF EventRow, RefusalOf
<1>2. RefusalOf(x, c, why).kind = x.kind
  BY DEF EventRow, RefusalOf
<1>3. RefusalOf(x, c, why).who = x.who
  BY DEF EventRow, RefusalOf
<1>4. RefusalOf(x, c, why).at = x.at
  BY DEF EventRow, RefusalOf
<1>. QED
  BY <1>1, <1>2, <1>3, <1>4

LEMMA GuessRow ==
  ASSUME NEW x \in EventRow, NEW v \in Regions \cup {Null}, NEW right \in BOOLEAN
  PROVE  /\ [x EXCEPT !.region = v, !.correct = right] \in EventRow
         /\ [x EXCEPT !.region = v, !.correct = right].kind = x.kind
         /\ [x EXCEPT !.region = v, !.correct = right].who = x.who
         /\ [x EXCEPT !.region = v, !.correct = right].at = x.at
<1>1. [x EXCEPT !.region = v, !.correct = right] \in EventRow
  BY ZenonT(30) DEF EventRow
<1>2. [x EXCEPT !.region = v, !.correct = right].kind = x.kind
  BY DEF EventRow
<1>3. [x EXCEPT !.region = v, !.correct = right].who = x.who
  BY DEF EventRow
<1>4. [x EXCEPT !.region = v, !.correct = right].at = x.at
  BY DEF EventRow
<1>. QED
  BY <1>1, <1>2, <1>3, <1>4

LEMMA ArrivesKeeps ==
  ASSUME InsightsInv, NEW p \in People, NEW v \in Regions, Arrives(p, v)
  PROVE  InsightsInv'
<1>. DEFINE e == [Event("login", p) EXCEPT !.session = written, !.region = v]
<1>0. RowsTyped /\ Visiting /\ written \in Nat /\ here \in [People -> Nat \cup {Null}]
  BY DEF InsightsInv, RowsTyped
<1>1. Event("login", p) \in EventRow /\ Event("login", p).kind = "login" /\ Event("login", p).who = p
      /\ Event("login", p).at = tick
  BY <1>0, EventIs DEF Kinds
<1>2. e \in EventRow /\ e.at = tick /\ e.kind = "login" /\ e.who = p /\ e.session = written
  <2>1. PICK x \in EventRow : x = Event("login", p)
    BY <1>1
  <2>. DEFINE y == VisitOf(x, written, v)
  <2>2. y \in EventRow /\ y.kind = x.kind /\ y.who = x.who /\ y.at = x.at /\ y.session = written
    BY <1>0, VisitRow
  <2>3. e = y
    BY <2>1 DEF VisitOf
  <2>. HIDE DEF e, y
  <2>. QED
    BY <1>1, <2>1, <2>2, <2>3
<1>3. /\ Logged(e) /\ Aside /\ samples' = samples /\ plays' = plays /\ bots' = bots
      /\ here' = [here EXCEPT ![p] = written] /\ here[p] = Null
  BY DEF Arrives
<1>. HIDE DEF e
<1>4. here' \in [People -> Nat \cup {Null}]
  BY <1>0, <1>3
<1>5. /\ LogGrows(e) /\ RowsTyped' /\ Playing' /\ RequestsFine' /\ CacheFine'
  BY <1>2, <1>3, <1>4, RowLands
<1>6. Visiting'
  BY <1>0, <1>2, <1>3, <1>5, LoginRow
<1>. QED
  BY <1>5, <1>6 DEF InsightsInv

LEMMA LeavesKeeps ==
  ASSUME InsightsInv, NEW p \in People, NEW v \in Regions, Leaves(p, v)
  PROVE  InsightsInv'
<1>. DEFINE e == [Event("logout", p) EXCEPT !.session = here[p], !.region = v]
<1>0. RowsTyped /\ Visiting /\ here[p] \in Nat \cup {Null} /\ here \in [People -> Nat \cup {Null}]
  BY DEF InsightsInv, RowsTyped
<1>1. Event("logout", p) \in EventRow /\ Event("logout", p).kind = "logout" /\ Event("logout", p).who = p
      /\ Event("logout", p).at = tick
  BY <1>0, EventIs DEF Kinds
<1>2. e \in EventRow /\ e.at = tick /\ e.kind = "logout" /\ e.who = p /\ e.session = here[p]
  <2>1. PICK x \in EventRow : x = Event("logout", p)
    BY <1>1
  <2>. DEFINE y == VisitOf(x, here[p], v)
  <2>2. y \in EventRow /\ y.kind = x.kind /\ y.who = x.who /\ y.at = x.at /\ y.session = here[p]
    <3>1. here[p] \in Nat \cup {Null} /\ v \in Regions \cup {Null}
      BY <1>0
    <3>. QED
      BY <3>1, VisitRow
  <2>3. e = y
    BY <2>1 DEF VisitOf
  <2>. HIDE DEF e, y
  <2>. QED
    BY <1>1, <2>1, <2>2, <2>3
<1>3. /\ Logged(e) /\ Aside /\ samples' = samples /\ plays' = plays /\ bots' = bots
      /\ here' = [here EXCEPT ![p] = Null] /\ here[p] # Null
  BY DEF Leaves
<1>. HIDE DEF e
<1>4. here' \in [People -> Nat \cup {Null}]
  BY <1>0, <1>3
<1>5. /\ LogGrows(e) /\ RowsTyped' /\ Playing' /\ RequestsFine' /\ CacheFine'
  BY <1>2, <1>3, <1>4, RowLands
<1>6. Visiting'
  BY <1>0, <1>2, <1>3, <1>5, LogoutRow
<1>. QED
  BY <1>5, <1>6 DEF InsightsInv

\* Other rows than visits.
LEMMA OtherKeeps ==
  ASSUME InsightsInv, NEW e \in EventRow, e.at = tick, e.kind \notin {"login", "logout"},
         Logged(e), Aside, samples' = samples, plays' = plays, bots' = bots, here' = here
  PROVE  InsightsInv'
<1>1. RowsTyped /\ Visiting /\ here' \in [People -> Nat \cup {Null}]
  BY DEF InsightsInv, RowsTyped
<1>2. /\ LogGrows(e) /\ RowsTyped' /\ Playing' /\ RequestsFine' /\ CacheFine'
  BY <1>1, RowLands
<1>3. Visiting'
  BY <1>1, <1>2, OtherRows
<1>. QED
  BY <1>2, <1>3 DEF InsightsInv

LEMMA CommandsKeep ==
  ASSUME InsightsInv, NEW p \in People, NEW c \in Cmds, NEW why \in {Unknown, "cooldown"},
         RunsCommand(p, c) \/ IsRefused(p, c, why)
  PROVE  InsightsInv'
<1>0. RowsTyped
  BY DEF InsightsInv
<1>1. CASE RunsCommand(p, c)
  <2>. DEFINE e == [Event("run", p) EXCEPT !.command = c]
  <2>1. Event("run", p) \in EventRow /\ Event("run", p).kind = "run" /\ Event("run", p).who = p
        /\ Event("run", p).at = tick
    BY <1>0, EventIs DEF Kinds
  <2>2. e \in EventRow /\ e.at = tick /\ e.kind \notin {"login", "logout"}
    BY <1>0, <2>1, RunRow
  <2>3. Logged(e) /\ Aside /\ samples' = samples /\ plays' = plays /\ bots' = bots /\ here' = here
    BY <1>1 DEF RunsCommand
  <2>. HIDE DEF e
  <2>. QED
    BY <2>2, <2>3, OtherKeeps
<1>2. CASE IsRefused(p, c, why)
  <2>. DEFINE e == [Event("refused", p) EXCEPT !.command = c, !.reason = why]
  <2>1. Event("refused", p) \in EventRow /\ Event("refused", p).kind = "refused" /\ Event("refused", p).who = p
        /\ Event("refused", p).at = tick
    BY <1>0, EventIs DEF Kinds
  <2>2. e \in EventRow /\ e.at = tick /\ e.kind \notin {"login", "logout"}
    <3>1. PICK x \in EventRow : x = Event("refused", p)
      BY <2>1
    <3>. DEFINE y == RefusalOf(x, c, why)
    <3>2. y \in EventRow /\ y.kind = x.kind /\ y.who = x.who /\ y.at = x.at
      BY <1>0, RefusalRow
    <3>3. e = y
      BY <3>1 DEF RefusalOf
    <3>. HIDE DEF e, y
    <3>. QED
      BY <2>1, <3>1, <3>2, <3>3
  <2>3. Logged(e) /\ Aside /\ samples' = samples /\ plays' = plays /\ bots' = bots /\ here' = here
    BY <1>2 DEF IsRefused
  <2>. HIDE DEF e
  <2>. QED
    BY <2>2, <2>3, OtherKeeps
<1>. QED
  BY <1>1, <1>2

LEMMA GuessesKeep ==
  ASSUME InsightsInv, NEW p \in People, NEW v \in Regions, NEW right \in BOOLEAN, Guesses(p, v, right)
  PROVE  InsightsInv'
<1>0. RowsTyped
  BY DEF InsightsInv
<1>. DEFINE e == [Event("guess", p) EXCEPT !.region = v, !.correct = right]
<1>1. Event("guess", p) \in EventRow /\ Event("guess", p).kind = "guess" /\ Event("guess", p).who = p
      /\ Event("guess", p).at = tick
  BY <1>0, EventIs DEF Kinds
<1>2. e \in EventRow /\ e.at = tick /\ e.kind \notin {"login", "logout"}
  BY <1>0, <1>1, GuessRow
<1>3. Logged(e) /\ Aside /\ samples' = samples /\ plays' = plays /\ bots' = bots /\ here' = here
  BY DEF Guesses
<1>. HIDE DEF e
<1>. QED
  BY <1>2, <1>3, OtherKeeps
\* A sample, a switch, a crash, a flag and the clock.
LEMMA SampledKeeps ==
  ASSUME InsightsInv, NEW q \in Platforms, NEW v \in Regions, NEW live \in BOOLEAN \cup {Null},
         Sampled(q, v, live)
  PROVE  InsightsInv'
<1>. DEFINE s == [platform |-> q, region |-> v, at |-> tick, live |-> live, chat |-> 1]
<1>0. RowsTyped /\ Visiting /\ tick \in Nat /\ written \in Nat /\ samples \in Seq(Sample)
  BY DEF InsightsInv, RowsTyped
<1>1. s \in Sample
  BY <1>0 DEF Sample
<1>2. /\ log' = log /\ plays' = plays /\ bots' = bots /\ here' = here /\ tick' = tick
      /\ written' = written + 1 /\ request' = request /\ cache' = cache /\ told' = told
      /\ samples' = Append(samples, s)
  BY DEF Sampled, Aside
<1>. HIDE DEF s
<1>3. samples' \in Seq(Sample) /\ samples' # <<>>
  BY <1>0, <1>1, <1>2
<1>4. RowsTyped'
  BY <1>0, <1>2, <1>3 DEF RowsTyped
<1>5. Visiting'
  <2>1. written' >= written /\ written' \in Nat /\ tick' >= tick /\ tick' \in Nat
    BY <1>0, <1>2
  <2>. QED
    BY <1>0, <1>2, <2>1, NobodyComes
<1>6. Playing'
  <2>1. tick' >= tick /\ tick' \in Nat
    BY <1>0, <1>2
  <2>. QED
    BY <1>0, <1>2, <2>1, NothingPlays DEF InsightsInv
<1>7. RowsStay /\ Len(log') >= Len(log)
  <2>1. Len(log) \in Nat
    BY <1>0 DEF RowsTyped
  <2>. QED
    BY <1>2, <2>1 DEF RowsStay
<1>8. RequestsFine' /\ CacheFine'
  BY <1>2, <1>3, <1>4, <1>7, RowsStayed
<1>. QED
  BY <1>4, <1>5, <1>6, <1>8 DEF InsightsInv

LEMMA SwitchKeeps ==
  ASSUME InsightsInv, NEW q \in Platforms, NEW v \in Regions, Switches(q, v)
  PROVE  InsightsInv'
<1>0. RowsTyped /\ Visiting /\ tick \in Nat /\ written \in Nat /\ Playing
  BY DEF InsightsInv, RowsTyped
<1>2. /\ log' = log /\ samples' = samples /\ bots' = bots /\ here' = here /\ tick' = tick
      /\ written' = written + 1 /\ request' = request /\ cache' = cache /\ told' = told
  BY DEF Switches, Aside
<1>3. plays' \in Seq(Play) /\ Playing'
  BY <1>0, <1>2, SwitchKept
<1>4. RowsTyped'
  BY <1>0, <1>2, <1>3 DEF RowsTyped
<1>5. Visiting'
  <2>1. written' >= written /\ written' \in Nat /\ tick' >= tick /\ tick' \in Nat
    BY <1>0, <1>2
  <2>. QED
    BY <1>0, <1>2, <2>1, NobodyComes
<1>7. RowsStay /\ Len(log') >= Len(log)
  <2>1. Len(log) \in Nat
    BY <1>0 DEF RowsTyped
  <2>. QED
    BY <1>2, <2>1 DEF RowsStay
<1>8. RequestsFine' /\ CacheFine'
  BY <1>2, <1>4, <1>7, RowsStayed
<1>. QED
  BY <1>3, <1>4, <1>5, <1>8 DEF InsightsInv

LEMMA FlagKeeps ==
  ASSUME InsightsInv, NEW p \in People, FlagsBot(p)
  PROVE  InsightsInv'
<1>0. RowsTyped /\ Visiting /\ tick \in Nat /\ written \in Nat /\ Playing
  BY DEF InsightsInv, RowsTyped
<1>2. /\ log' = log /\ samples' = samples /\ plays' = plays /\ bots' = bots \cup {p} /\ here' = here
      /\ tick' = tick /\ written' = written /\ request' = request /\ cache' = cache /\ told' = told
  BY DEF FlagsBot, Aside
<1>4. RowsTyped'
  BY <1>0, <1>2 DEF RowsTyped
<1>5. Visiting' /\ Playing'
  <2>1. written' >= written /\ written' \in Nat /\ tick' >= tick /\ tick' \in Nat
    BY <1>0, <1>2
  <2>. QED
    BY <1>0, <1>2, <2>1, NobodyComes, NothingPlays
<1>7. RowsStay /\ Len(log') >= Len(log)
  <2>1. Len(log) \in Nat
    BY <1>0 DEF RowsTyped
  <2>. QED
    BY <1>2, <2>1 DEF RowsStay
<1>8. RequestsFine' /\ CacheFine'
  <2>1. bots \subseteq bots'
    BY <1>2
  <2>. QED
    BY <1>2, <1>4, <1>7, <2>1, RowsStayed
<1>. QED
  BY <1>4, <1>5, <1>8 DEF InsightsInv

LEMMA TickKeeps ==
  ASSUME InsightsInv, InsightsTick
  PROVE  InsightsInv'
<1>0. RowsTyped /\ Visiting /\ tick \in Nat /\ written \in Nat /\ Playing
  BY DEF InsightsInv, RowsTyped
<1>2. /\ log' = log /\ samples' = samples /\ plays' = plays /\ bots' = bots /\ here' = here
      /\ tick' = tick + 1 /\ written' = written /\ request' = request /\ cache' = cache /\ told' = told
  BY DEF InsightsTick, logVars
<1>4. RowsTyped'
  BY <1>0, <1>2 DEF RowsTyped
<1>5. Visiting' /\ Playing'
  <2>1. written' >= written /\ written' \in Nat /\ tick' >= tick /\ tick' \in Nat
    BY <1>0, <1>2
  <2>. QED
    BY <1>0, <1>2, <2>1, NobodyComes, NothingPlays
<1>7. RowsStay /\ Len(log') >= Len(log)
  <2>1. Len(log) \in Nat
    BY <1>0 DEF RowsTyped
  <2>. QED
    BY <1>2, <2>1 DEF RowsStay
<1>8. RequestsFine' /\ CacheFine'
  BY <1>2, <1>4, <1>7, RowsStayed
<1>. QED
  BY <1>4, <1>5, <1>8 DEF InsightsInv

LEMMA CrashKeeps ==
  ASSUME InsightsInv, Crashes
  PROVE  InsightsInv'
<1>0. RowsTyped /\ Visiting /\ tick \in Nat /\ written \in Nat /\ Playing /\ CacheFine
  BY DEF InsightsInv, RowsTyped
<1>2. /\ log' = log /\ samples' = samples /\ bots' = bots /\ here' = [p \in People |-> Null]
      /\ tick' = tick /\ written' = written /\ told' = told /\ cache' = Cold
      /\ request' = [r \in Requests |-> Unasked]
  BY DEF Crashes
<1>3. plays' \in Seq(Play) /\ Playing'
  BY <1>0, CrashKept
<1>4. RowsTyped'
  BY <1>0, <1>2, <1>3 DEF RowsTyped
<1>5. Visiting'
  <2>1. written' >= written /\ written' \in Nat /\ tick' >= tick /\ tick' \in Nat
    BY <1>0, <1>2
  <2>2. \A p \in People : here'[p] \in {here[p], Null}
    BY <1>2
  <2>. QED
    BY <1>0, <1>2, <2>1, <2>2, NobodyComes
<1>6. RequestsFine'
  <2>1. \A r \in Requests : RequestFine(r, Unasked)'
    BY DEF RequestFine, Unasked, GuessesSoFar, RefusalsSoFar, ReasonsSoFar, FootageSoFar,
           LifetimeSoFar, AnswerFits
  <2>2. \A r \in Requests : request'[r] = Unasked
    BY <1>2
  <2>. QED
    BY <1>2, <2>1, <2>2 DEF RequestsFine
<1>7. CacheFine'
  BY <1>0, <1>2 DEF CacheFine, Cold
<1>. QED
  BY <1>3, <1>4, <1>5, <1>6, <1>7 DEF InsightsInv
-----------------------------------------------------------------------------
(* The handlers *)

\* A handler goes on, and the others are where they were.
LEMMA HandlerMoves ==
  ASSUME InsightsInv, NoRow, NEW r \in Requests, NEW q, Reads(r, q), RequestFine(r, q)', CacheFine',
         \/ cache'.holder = cache.holder /\ told' = told
         \/ cache.holder \in {r, Null}
  PROVE  InsightsInv'
<1>0. /\ log' = log /\ samples' = samples /\ plays' = plays /\ bots' = bots /\ here' = here
      /\ tick' = tick /\ written' = written /\ request' = [request EXCEPT ![r] = q]
  BY DEF NoRow, Reads, logVars
<1>1. RowsTyped /\ Visiting /\ Playing /\ tick \in Nat /\ written \in Nat /\ DOMAIN request = Requests
  BY DEF InsightsInv, RowsTyped, RequestsFine
<1>2. RowsTyped'
  BY <1>0, <1>1 DEF RowsTyped
<1>3. Visiting' /\ Playing'
  <2>1. written' >= written /\ written' \in Nat /\ tick' >= tick /\ tick' \in Nat
    BY <1>0, <1>1
  <2>. QED
    BY <1>0, <1>1, <2>1, NobodyComes, NothingPlays
<1>4. ASSUME NEW x \in Requests
      PROVE  RequestFine(x, request[x])'
  <2>1. CASE x = r
    <3>1. request'[x] = q
      BY <1>0, <1>1, <2>1
    <3>. QED
      BY <2>1, <3>1
  <2>2. CASE x # r
    <3>1. PICK y : y = request[x]
      OBVIOUS
    <3>2. request'[x] = y
      BY <1>0, <1>1, <2>2, <3>1
    <3>3. RequestFine(x, y)
      BY <3>1 DEF InsightsInv, RequestsFine
    <3>4. LifetimeSoFar(x, y)
      BY <3>3 DEF RequestFine
    <3>5. LifetimeSoFar(x, y)'
      BY <1>0, <2>2, <3>4, InsightsConstants DEF LifetimeSoFar
    <3>6. RowsStay
      BY <1>0 DEF RowsStay
    <3>7. RequestFine(x, y)'
      BY <1>0, <1>1, <1>2, <3>3, <3>5, <3>6, ReadsKept
    <3>. QED
      BY <3>2, <3>7
  <2>. QED
    BY <2>1, <2>2
<1>5. RequestsFine'
  BY <1>0, <1>1, <1>4 DEF RequestsFine
<1>. QED
  BY <1>2, <1>3, <1>5 DEF InsightsInv

\* What is read fits now, and goes on to.
LEMMA FineAgain ==
  ASSUME NoRow, NEW r, NEW q, GuessesSoFar(q), RefusalsSoFar(q), ReasonsSoFar(q), FootageSoFar(q),
         AnswerFits(q), LifetimeSoFar(r, q)'
  PROVE  RequestFine(r, q)'
<1>0. log' = log /\ samples' = samples /\ bots' = bots
  BY DEF NoRow, logVars
<1>1. \A kind, since : Rows(kind, since)' = Rows(kind, since)
  BY <1>0 DEF Rows, Human
<1>2. Refusals' = Refusals /\ Unknowns' = Unknowns /\ \A since : RightGuesses(since)' = RightGuesses(since)
  BY <1>0, <1>1 DEF Refusals, Unknowns, RightGuesses
<1>3. GuessesSoFar(q)'
  BY <1>0, <1>1, <1>2 DEF GuessesSoFar
<1>4. RefusalsSoFar(q)'
  BY <1>0, <1>2 DEF RefusalsSoFar
<1>5. ReasonsSoFar(q)'
  BY <1>0, <1>2 DEF ReasonsSoFar, ReasonsCover
<1>6. FootageSoFar(q)'
  BY <1>0 DEF FootageSoFar
<1>7. AnswerFits(q)'
  BY DEF AnswerFits, ReasonsCover
<1>. QED
  BY <1>3, <1>4, <1>5, <1>6, <1>7 DEF RequestFine

\* A step that leaves the cache alone.
LEMMA ServedMoves ==
  ASSUME InsightsInv, Served, NEW r \in Requests, NEW q, Reads(r, q), q.step \notin {"census", "lifetime"},
         GuessesSoFar(q), RefusalsSoFar(q), ReasonsSoFar(q), FootageSoFar(q), AnswerFits(q)
  PROVE  InsightsInv'
<1>1. NoRow /\ cache' = cache /\ told' = told /\ log' = log
  BY DEF Served, NoRow, logVars
<1>2. LifetimeSoFar(r, q)'
  BY DEF LifetimeSoFar
<1>3. RequestFine(r, q)'
  BY <1>1, <1>2, FineAgain
<1>4. CacheFine'
  BY <1>1 DEF InsightsInv, CacheFine
<1>. QED
  BY <1>1, <1>3, <1>4, HandlerMoves

LEMMA RestIsFine ==
  ASSUME NEW q, q.step = "idle"
  PROVE  /\ GuessesSoFar(q) /\ RefusalsSoFar(q) /\ ReasonsSoFar(q) /\ FootageSoFar(q) /\ AnswerFits(q)
         /\ q.step \notin {"census", "lifetime"}
BY DEF GuessesSoFar, RefusalsSoFar, ReasonsSoFar, FootageSoFar, AnswerFits

LEMMA FinishKeeps ==
  ASSUME InsightsInv, NEW r \in Requests, Replies(r)
  PROVE  InsightsInv'
<1>1. Served /\ Reads(r, Unasked) /\ Unasked.step = "idle"
  BY DEF Replies, Unasked
<1>. QED
  BY <1>1, RestIsFine, ServedMoves

LEMMA FailKeeps ==
  ASSUME InsightsInv, NEW r \in Requests, QueryFails(r)
  PROVE  InsightsInv'
<1>1. /\ NoRow /\ told' = told /\ Reads(r, Unasked) /\ Unasked.step = "idle" /\ log' = log
      /\ cache' = IF cache.holder = r THEN [cache EXCEPT !.holder = Null] ELSE cache
  BY DEF QueryFails, Unasked, NoRow, logVars
<1>2. cache \in [total : Nat, built : Nat \cup {Null}, holder : Requests \cup {Null}]
  BY DEF InsightsInv, CacheFine
<1>3. CacheFine'
  <2>1. CASE cache.holder = r
    <3>1. cache' = [cache EXCEPT !.holder = Null]
      BY <1>1, <2>1
    <3>2. cache' \in [total : Nat, built : Nat \cup {Null}, holder : Requests \cup {Null}]
      BY <1>2, <3>1, ZenonT(30)
    <3>3. cache'.total = cache.total /\ cache'.built = cache.built
      BY <1>2, <3>1
    <3>. QED
      BY <1>1, <3>2, <3>3 DEF InsightsInv, CacheFine
  <2>2. CASE cache.holder # r
    BY <1>1, <2>2 DEF InsightsInv, CacheFine
  <2>. QED
    BY <2>1, <2>2
<1>4. LifetimeSoFar(r, Unasked)'
  BY DEF LifetimeSoFar, Unasked
<1>5. RequestFine(r, Unasked)'
  BY <1>1, <1>4, RestIsFine, FineAgain
<1>6. (cache'.holder = cache.holder /\ told' = told) \/ cache.holder \in {r, Null}
  BY <1>1
<1>. QED
  BY <1>1, <1>3, <1>5, <1>6, HandlerMoves

LEMMA GuessesAsked ==
  ASSUME InsightsInv, NEW r \in Requests, NEW days \in Windows, AskGuesses(r, days)
  PROVE  InsightsInv'
<1>1. PICK q : q = [step |-> "guess states", days |-> days, since |-> Since(days), bots |-> bots,
                    total |-> Cardinality(Rows("guess", Since(days))),
                    correct |-> Cardinality({i \in Rows("guess", Since(days)) : log[i].correct})]
  OBVIOUS
<1>2. Served /\ Reads(r, q)
  BY <1>1 DEF AskGuesses
<1>3. /\ q.step = "guess states" /\ q.bots = bots /\ q.total = Cardinality(Rows("guess", q.since))
      /\ q.correct = Cardinality(RightGuesses(q.since))
  BY <1>1 DEF RightGuesses
<1>4. q.total \in Nat /\ q.correct \in Nat
  <2>1. IsFiniteSet(Rows("guess", q.since))
    BY RowsAreFinite DEF InsightsInv
  <2>2. RightGuesses(q.since) \subseteq Rows("guess", q.since)
    BY DEF RightGuesses
  <2>. QED
    BY <1>3, <2>1, <2>2, PartCounts
<1>5. GuessesSoFar(q)
  <2>1. q.total <= q.total /\ q.correct <= q.correct
    BY <1>4
  <2>2. q.total <= Cardinality(Rows("guess", q.since)) /\ q.correct <= Cardinality(RightGuesses(q.since))
    BY <1>3, <2>1, Zenon
  <2>3. q.bots \subseteq bots
    BY <1>3
  <2>. QED
    BY <1>4, <2>2, <2>3 DEF GuessesSoFar
<1>6. RefusalsSoFar(q) /\ ReasonsSoFar(q) /\ FootageSoFar(q) /\ AnswerFits(q)
  BY <1>3 DEF RefusalsSoFar, ReasonsSoFar, FootageSoFar, AnswerFits
<1>. QED
  BY <1>2, <1>3, <1>5, <1>6, ServedMoves

LEMMA GuessesTold ==
  ASSUME InsightsInv, NEW r \in Requests, GuessStates(r)
  PROVE  InsightsInv'
<1>0. PICK p : p = request[r]
  OBVIOUS
<1>. DEFINE S == Rows("guess", p.since)
<1>1. PICK q : q = [step |-> "answered", to |-> "guesses", total |-> p.total, correct |-> p.correct,
                    states |-> Tally(S, LAMBDA i : log[i].region),
                    right |-> Cardinality({i \in S : log[i].correct}), kept |-> bots = p.bots]
  OBVIOUS
<1>2. p.step = "guess states" /\ Served /\ Reads(r, q)
  BY <1>0, <1>1 DEF GuessStates, SinceOnce
<1>3. GuessesSoFar(p)
  BY <1>0 DEF InsightsInv, RequestsFine, RequestFine
<1>4. IsFiniteSet(S) /\ S \subseteq DOMAIN log
  BY RowsAreFinite DEF InsightsInv
<1>5. Total(q.states) = Cardinality(S) /\ q.right = Cardinality(RightGuesses(p.since))
  <2>1. q.states = TallyOf(S, Regional)
    BY <1>1, <1>4, TalliesAre
  <2>. QED
    BY <1>1, <1>4, <2>1, TallyTotal DEF RightGuesses
<1>6. q.step = "answered" /\ q.to = "guesses" /\ q.total = p.total /\ q.correct = p.correct
  BY <1>1
<1>7. q.kept => Total(q.states) >= q.total /\ q.right >= q.correct
  <2>1. SUFFICES ASSUME q.kept PROVE Total(q.states) >= q.total /\ q.right >= q.correct
    OBVIOUS
  <2>2. bots = p.bots
    BY <1>1, <2>1
  <2>3. /\ p.total \in Nat /\ p.total <= Cardinality(S)
        /\ p.correct \in Nat /\ p.correct <= Cardinality(RightGuesses(p.since))
    BY <1>2, <1>3, <2>2 DEF GuessesSoFar
  <2>4. RightGuesses(p.since) \subseteq S
    BY DEF RightGuesses
  <2>5. Cardinality(S) \in Nat /\ Cardinality(RightGuesses(p.since)) \in Nat
    BY <1>4, <2>4, PartCounts
  <2>. HIDE DEF S
  <2>. QED
    BY <1>5, <1>6, <2>3, <2>5
<1>8. AnswerFits(q)
  BY <1>6, <1>7 DEF AnswerFits
<1>9. GuessesSoFar(q) /\ RefusalsSoFar(q) /\ ReasonsSoFar(q) /\ FootageSoFar(q)
  BY <1>6 DEF GuessesSoFar, RefusalsSoFar, ReasonsSoFar, FootageSoFar
<1>. QED
  BY <1>2, <1>6, <1>8, <1>9, ServedMoves
LEMMA CommandsAsked ==
  ASSUME InsightsInv, NEW r \in Requests, NEW days \in Windows, AskCommands(r, days)
  PROVE  InsightsInv'
<1>1. PICK q : q = [step |-> "refusal reasons", days |-> days, bots |-> bots,
                    usage |-> CommandUsage(Since(days))]
  OBVIOUS
<1>2. Served /\ Reads(r, q)
  BY <1>1 DEF AskCommands
<1>3. q.step = "refusal reasons" /\ q.bots = bots /\ q.days = days /\ q.usage = CommandUsage(Since(days))
  BY <1>1
<1>4. q.days = 0 => RefusedIn(q.usage) \in Nat /\ RefusedIn(q.usage) <= Cardinality(Refusals)
  <2>1. SUFFICES ASSUME q.days = 0
                 PROVE  RefusedIn(q.usage) \in Nat /\ RefusedIn(q.usage) <= Cardinality(Refusals)
    OBVIOUS
  <2>2. q.usage = CommandUsage(0)
    BY <1>3, <2>1 DEF Since
  <2>3. RefusedIn(CommandUsage(0)) = Cardinality(Refusals) /\ RefusedIn(CommandUsage(0)) \in Nat
    BY RefusalsAddUp DEF InsightsInv
  <2>. QED
    BY <2>2, <2>3
<1>5. RefusalsSoFar(q)
  <2>1. q.bots \subseteq bots
    BY <1>3
  <2>. QED
    BY <1>4, <2>1 DEF RefusalsSoFar
<1>6. GuessesSoFar(q) /\ ReasonsSoFar(q) /\ FootageSoFar(q) /\ AnswerFits(q)
  BY <1>3 DEF GuessesSoFar, ReasonsSoFar, FootageSoFar, AnswerFits
<1>. QED
  BY <1>2, <1>3, <1>5, <1>6, ServedMoves

LEMMA ReasonsTold ==
  ASSUME InsightsInv, NEW r \in Requests, RefusalReasons(r)
  PROVE  InsightsInv'
<1>0. PICK p : p = request[r]
  OBVIOUS
<1>. DEFINE S == Rows("refused", Since(p.days))
<1>1. PICK q : q = [step |-> "unknown commands", days |-> p.days, bots |-> p.bots, usage |-> p.usage,
                    reasons |-> Tally(S, LAMBDA i : log[i].reason)]
  OBVIOUS
<1>2. p.step = "refusal reasons" /\ Served /\ Reads(r, q)
  BY <1>0, <1>1 DEF RefusalReasons, SinceAgain
<1>3. RefusalsSoFar(p)
  BY <1>0 DEF InsightsInv, RequestsFine, RequestFine
<1>4. IsFiniteSet(S) /\ S \subseteq DOMAIN log
  BY RowsAreFinite DEF InsightsInv
<1>5. /\ q.step = "unknown commands" /\ q.days = p.days /\ q.bots = p.bots /\ q.usage = p.usage
      /\ q.reasons = Tally(S, LAMBDA i : log[i].reason)
  BY <1>1
<1>6. q.reasons = TallyOf(S, Reasoned)
  BY <1>4, <1>5, TalliesAre
<1>7. Total(q.reasons) = Cardinality(S) /\ Total(q.reasons) \in Nat
  BY <1>4, <1>6, TallyTotal
<1>8. p.days = 0 => S = Refusals
  BY DEF Since, Refusals
<1>9. ASSUME q.days = 0, q.bots = bots
      PROVE  /\ ReasonsCover(q)
             /\ Unknown \in DOMAIN q.reasons =>
                  q.reasons[Unknown] \in Nat /\ q.reasons[Unknown] <= Cardinality(Unknowns)
  <2>1. RefusedIn(p.usage) \in Nat /\ RefusedIn(p.usage) <= Cardinality(Refusals)
    BY <1>2, <1>3, <1>5, <1>9 DEF RefusalsSoFar
  <2>2. S = Refusals
    BY <1>5, <1>8, <1>9
  <2>. HIDE DEF S
  <2>3. ReasonsCover(q)
    <3>1. RefusedIn(q.usage) = RefusedIn(p.usage)
      BY <1>5
    <3>. QED
      BY <1>7, <2>1, <2>2, <3>1 DEF ReasonsCover
  <2>4. ASSUME Unknown \in DOMAIN q.reasons
        PROVE  q.reasons[Unknown] \in Nat /\ q.reasons[Unknown] <= Cardinality(Unknowns)
    <3>1. q.reasons[Unknown] = Cardinality({x \in S : Reasoned[x] = Unknown})
      BY <1>6, <2>4 DEF TallyOf
    <3>2. {x \in S : Reasoned[x] = Unknown} = Unknowns
      BY <1>4, <2>2 DEF Unknowns, Reasoned
    <3>3. Cardinality(Unknowns) \in Nat
      <4>1. Unknowns \subseteq S
        BY <3>2
      <4>. QED
        BY <1>4, <4>1, PartCounts
    <3>. QED
      BY <3>1, <3>2, <3>3
  <2>. QED
    BY <2>3, <2>4
<1>10. ReasonsSoFar(q)
  <2>1. q.bots \subseteq bots
    BY <1>2, <1>3, <1>5 DEF RefusalsSoFar
  <2>. QED
    BY <1>9, <2>1 DEF ReasonsSoFar
<1>11. GuessesSoFar(q) /\ RefusalsSoFar(q) /\ FootageSoFar(q) /\ AnswerFits(q)
  BY <1>5 DEF GuessesSoFar, RefusalsSoFar, FootageSoFar, AnswerFits
<1>. QED
  BY <1>2, <1>5, <1>10, <1>11, ServedMoves

LEMMA UnknownTold ==
  ASSUME InsightsInv, NEW r \in Requests, UnknownCommands(r)
  PROVE  InsightsInv'
<1>0. PICK p : p = request[r]
  OBVIOUS
<1>. DEFINE S == {i \in Rows("refused", Since(p.days)) : log[i].reason = Unknown}
<1>1. PICK q : q = [step |-> "answered", to |-> "commands", usage |-> p.usage, reasons |-> p.reasons,
                    typed |-> Tally(S, LAMBDA i : log[i].command), kept |-> bots = p.bots /\ p.days = 0]
  OBVIOUS
<1>2. p.step = "unknown commands" /\ Served /\ Reads(r, q)
  BY <1>0, <1>1 DEF UnknownCommands, SinceAgain
<1>3. ReasonsSoFar(p)
  BY <1>0 DEF InsightsInv, RequestsFine, RequestFine
<1>4. IsFiniteSet(S) /\ S \subseteq DOMAIN log
  <2>1. IsFiniteSet(Rows("refused", Since(p.days))) /\ Rows("refused", Since(p.days)) \subseteq DOMAIN log
    BY RowsAreFinite DEF InsightsInv
  <2>. QED
    BY <2>1, FS_Subset
<1>5. /\ q.step = "answered" /\ q.to = "commands" /\ q.usage = p.usage /\ q.reasons = p.reasons
      /\ q.typed = Tally(S, LAMBDA i : log[i].command) /\ (q.kept => bots = p.bots /\ p.days = 0)
  BY <1>1
<1>6. Total(q.typed) = Cardinality(S) /\ Cardinality(S) \in Nat
  <2>1. q.typed = TallyOf(S, Commanded)
    BY <1>4, <1>5, TalliesAre
  <2>. QED
    BY <1>4, <2>1, TallyTotal
<1>7. ASSUME q.kept
      PROVE  ReasonsCover(q) /\ (Unknown \in DOMAIN q.reasons => Total(q.typed) >= q.reasons[Unknown])
  <2>1. /\ ReasonsCover(p)
        /\ Unknown \in DOMAIN p.reasons =>
             p.reasons[Unknown] \in Nat /\ p.reasons[Unknown] <= Cardinality(Unknowns)
    BY <1>2, <1>3, <1>5, <1>7 DEF ReasonsSoFar
  <2>2. S = Unknowns
    <3>1. p.days = 0
      BY <1>5, <1>7
    <3>. QED
      BY <3>1 DEF Unknowns, Refusals, Since
  <2>3. ReasonsCover(q)
    BY <1>5, <2>1 DEF ReasonsCover
  <2>. HIDE DEF S
  <2>. QED
    BY <1>5, <1>6, <2>1, <2>2, <2>3
<1>8. AnswerFits(q)
  BY <1>5, <1>7 DEF AnswerFits
<1>9. GuessesSoFar(q) /\ RefusalsSoFar(q) /\ ReasonsSoFar(q) /\ FootageSoFar(q)
  BY <1>5 DEF GuessesSoFar, RefusalsSoFar, ReasonsSoFar, FootageSoFar
<1>. QED
  BY <1>2, <1>5, <1>8, <1>9, ServedMoves

LEMMA FootageAsked ==
  ASSUME InsightsInv, NEW r \in Requests, NEW days \in Windows, AskFootage(r, days)
  PROVE  InsightsInv'
<1>1. PICK clips \in {FootageInsights(Since(days)), RegionInsights(Since(days))} :
        Reads(r, [step |-> "platforms", days |-> days, clips |-> clips])
  BY DEF AskFootage
<1>2. PICK q : q = [step |-> "platforms", days |-> days, clips |-> clips]
  OBVIOUS
<1>3. Served /\ Reads(r, q) /\ q.step = "platforms" /\ q.days = days /\ q.clips = clips
  BY <1>1, <1>2 DEF AskFootage
<1>4. DOMAIN clips = Seen(Since(days))
  BY <1>1 DEF FootageInsights, RegionInsights
<1>5. samples = <<>> => Seen(Since(days)) = {}
  <2>1. SUFFICES ASSUME samples = <<>>, NEW v \in Seen(Since(days)) PROVE FALSE
    OBVIOUS
  <2>2. SamplesOf(v, Since(days)) = {}
    BY <2>1 DEF SamplesOf
  <2>3. Cardinality(SamplesOf(v, Since(days))) >= MinSamples
    BY DEF Seen
  <2>4. Cardinality({}) = 0 /\ MinSamples \in Nat \ {0}
    BY FS_EmptySet, InsightsConstants
  <2>. QED
    BY <2>2, <2>3, <2>4
<1>6. FootageSoFar(q)
  BY <1>3, <1>4, <1>5 DEF FootageSoFar
<1>7. GuessesSoFar(q) /\ RefusalsSoFar(q) /\ ReasonsSoFar(q) /\ AnswerFits(q)
  BY <1>3 DEF GuessesSoFar, RefusalsSoFar, ReasonsSoFar, AnswerFits
<1>. QED
  BY <1>3, <1>6, <1>7, ServedMoves

LEMMA PlatformsTold ==
  ASSUME InsightsInv, NEW r \in Requests, Sampling(r)
  PROVE  InsightsInv'
<1>0. PICK p : p = request[r]
  OBVIOUS
<1>1. PICK q : q = [step |-> "answered", to |-> "footage", clips |-> p.clips,
                    platforms |-> SampledPlatforms(Since(p.days)), kept |-> p.days = 0]
  OBVIOUS
<1>2. p.step = "platforms" /\ Served /\ Reads(r, q)
  BY <1>0, <1>1 DEF Sampling, SinceAgain
<1>3. FootageSoFar(p)
  BY <1>0 DEF InsightsInv, RequestsFine, RequestFine
<1>4. /\ q.step = "answered" /\ q.to = "footage" /\ q.clips = p.clips /\ (q.kept => p.days = 0)
      /\ q.platforms = SampledPlatforms(Since(p.days))
  BY <1>1
<1>5. ASSUME q.kept, DOMAIN q.clips # {}
      PROVE  q.platforms # {}
  <2>1. p.days = 0 /\ samples # <<>>
    BY <1>2, <1>3, <1>4, <1>5 DEF FootageSoFar
  <2>2. 1 \in DOMAIN samples /\ samples[1] \in Sample
    BY <2>1 DEF InsightsInv, RowsTyped
  <2>3. samples[1].region \in Regions /\ samples[1].at >= 0
    BY <2>2 DEF Sample
  <2>4. 1 \in SamplesOf(samples[1].region, 0)
    BY <2>2, <2>3 DEF SamplesOf
  <2>5. samples[1].platform \in SampledPlatforms(0)
    BY <2>3, <2>4 DEF SampledPlatforms
  <2>. QED
    BY <1>4, <2>1, <2>5 DEF Since
<1>6. AnswerFits(q)
  BY <1>4, <1>5 DEF AnswerFits
<1>7. GuessesSoFar(q) /\ RefusalsSoFar(q) /\ ReasonsSoFar(q) /\ FootageSoFar(q)
  BY <1>4 DEF GuessesSoFar, RefusalsSoFar, ReasonsSoFar, FootageSoFar
<1>. QED
  BY <1>2, <1>4, <1>6, <1>7, ServedMoves
-----------------------------------------------------------------------------
(* The lifetime figures *)

LEMMA LargerOfTwo ==
  ASSUME NEW m \in Nat, NEW n \in Nat
  PROVE  Max({m, n}) \in {m, n} /\ Max({m, n}) >= m /\ Max({m, n}) >= n
<1>1. \E x \in {m, n} : \A y \in {m, n} : x >= y
  OBVIOUS
<1>. QED
  BY <1>1 DEF Max

CacheRow == [total : Nat, built : Nat \cup {Null}, holder : Requests \cup {Null}]

\* Whoever tells a total tells one that no total told is larger than.
LEMMA TotalTold ==
  ASSUME InsightsInv, NoRow, NEW r \in Requests, NEW total \in Nat, total >= told, total <= Len(log),
         Told(r, total), cache' \in CacheRow, cache'.total = total, cache.holder \in {r, Null}
  PROVE  InsightsInv'
<1>0. log' = log /\ told \in Nat
  BY DEF NoRow, logVars, InsightsInv, CacheFine
<1>1. PICK q : q = [step |-> "answered", to |-> "lifetime", total |-> total, floor |-> told]
  OBVIOUS
<1>2. Reads(r, q) /\ told' = Max({told, total})
  BY <1>1 DEF Told
<1>3. told' = total
  BY <1>0, <1>2, LargerOfTwo
<1>4. q.step = "answered" /\ q.to = "lifetime" /\ q.total = total /\ q.floor = told
  BY <1>1
<1>5. AnswerFits(q)
  <2>1. q.total >= q.floor
    BY <1>4
  <2>. QED
    BY <1>4, <2>1 DEF AnswerFits
<1>6. GuessesSoFar(q) /\ RefusalsSoFar(q) /\ ReasonsSoFar(q) /\ FootageSoFar(q) /\ LifetimeSoFar(r, q)'
  BY <1>4 DEF GuessesSoFar, RefusalsSoFar, ReasonsSoFar, FootageSoFar, LifetimeSoFar
<1>7. RequestFine(r, q)'
  BY <1>5, <1>6, FineAgain
<1>8. CacheFine'
  BY <1>0, <1>3 DEF CacheFine, CacheRow
<1>. QED
  BY <1>2, <1>7, <1>8, HandlerMoves

LEMMA LifetimeAsked ==
  ASSUME InsightsInv, NEW r \in Requests, AskLifetime(r)
  PROVE  InsightsInv'
<1>0. /\ NoRow /\ cache.holder = Null /\ cache \in CacheRow /\ log' = log
      /\ told \in Nat /\ told <= Len(log) /\ (cache.built # Null => cache.total = told)
  BY DEF AskLifetime, LifetimeLock, InsightsInv, CacheFine, CacheRow, NoRow, logVars
<1>1. CASE Fresh /\ Told(r, cache.total) /\ UNCHANGED cache
  <2>1. cache.total = told /\ cache' = cache
    BY <1>0, <1>1 DEF Fresh
  <2>2. Told(r, told)
    BY <1>1, <2>1
  <2>3. told >= told
    BY <1>0
  <2>. QED
    BY <1>0, <2>1, <2>2, <2>3, TotalTold
<1>2. CASE /\ Reads(r, [step |-> "census"]) /\ UNCHANGED told
           /\ cache' = [cache EXCEPT !.holder = r]
  <2>1. PICK q : q = [step |-> "census"]
    OBVIOUS
  <2>2. Reads(r, q) /\ q.step = "census"
    BY <1>2, <2>1
  <2>3. cache' \in CacheRow
    BY <1>0, <1>2, ZenonT(30) DEF CacheRow
  <2>4. cache'.holder = r /\ cache'.total = cache.total /\ cache'.built = cache.built
    BY <1>0, <1>2 DEF CacheRow
  <2>5. CacheFine'
    BY <1>0, <1>2, <2>3, <2>4 DEF CacheFine, CacheRow
  <2>6. GuessesSoFar(q) /\ RefusalsSoFar(q) /\ ReasonsSoFar(q) /\ FootageSoFar(q) /\ AnswerFits(q)
        /\ LifetimeSoFar(r, q)'
    BY <2>2, <2>4 DEF GuessesSoFar, RefusalsSoFar, ReasonsSoFar, FootageSoFar, LifetimeSoFar, AnswerFits
  <2>7. RequestFine(r, q)'
    BY <1>0, <2>6, FineAgain
  <2>. QED
    BY <1>0, <2>2, <2>5, <2>7, HandlerMoves
<1>. QED
  BY <1>1, <1>2 DEF AskLifetime

LEMMA KindsCounted ==
  ASSUME InsightsInv, NEW r \in Requests, EventKinds(r)
  PROVE  InsightsInv'
<1>1. PICK q : q = [step |-> "lifetime", total |-> Total(Tally(DOMAIN log, LAMBDA i : log[i].kind))]
  OBVIOUS
<1>2. Served /\ Reads(r, q) /\ request[r].step = "census"
  BY <1>1 DEF EventKinds
<1>3. NoRow /\ cache' = cache /\ told' = told /\ log' = log
  BY <1>2 DEF Served, NoRow, logVars
<1>4. q.step = "lifetime" /\ q.total = Total(Tally(DOMAIN log, LAMBDA i : log[i].kind))
  BY <1>1
<1>5. q.total = Len(log) /\ Len(log) \in Nat
  <2>1. IsFiniteSet(DOMAIN log) /\ Cardinality(DOMAIN log) = Len(log) /\ Len(log) \in Nat
    BY LogIsFinite, Positions DEF InsightsInv
  <2>2. Tally(DOMAIN log, LAMBDA i : log[i].kind) = TallyOf(DOMAIN log, Kinded)
    BY TalliesAre
  <2>3. Total(TallyOf(DOMAIN log, Kinded)) = Cardinality(DOMAIN log)
    BY <2>1, TallyTotal
  <2>. QED
    BY <1>4, <2>1, <2>2, <2>3
<1>6. cache.holder = r
  BY <1>2 DEF InsightsInv, RequestsFine, RequestFine, LifetimeSoFar
<1>7. LifetimeSoFar(r, q)'
  <2>1. told \in Nat /\ told <= Len(log)
    BY DEF InsightsInv, CacheFine
  <2>2. q.total \in Nat /\ q.total >= told /\ q.total <= Len(log)
    BY <1>5, <2>1
  <2>. QED
    BY <1>3, <1>4, <1>6, <2>2 DEF LifetimeSoFar
<1>8. GuessesSoFar(q) /\ RefusalsSoFar(q) /\ ReasonsSoFar(q) /\ FootageSoFar(q) /\ AnswerFits(q)
  BY <1>4 DEF GuessesSoFar, RefusalsSoFar, ReasonsSoFar, FootageSoFar, AnswerFits
<1>9. RequestFine(r, q)'
  BY <1>3, <1>7, <1>8, FineAgain
<1>10. CacheFine'
  BY <1>3 DEF InsightsInv, CacheFine
<1>. QED
  BY <1>2, <1>3, <1>9, <1>10, HandlerMoves

LEMMA LifetimeKept ==
  ASSUME InsightsInv, NEW r \in Requests, KeepLifetime(r)
  PROVE  InsightsInv'
<1>1. PICK q : q = request[r]
  OBVIOUS
<1>2. /\ q.step = "lifetime" /\ Told(r, q.total) /\ NoRow
      /\ cache' = [total |-> q.total, built |-> tick, holder |-> Null]
  BY <1>1 DEF KeepLifetime
<1>3. cache.holder = r /\ q.total \in Nat /\ q.total >= told /\ q.total <= Len(log)
  BY <1>1, <1>2 DEF InsightsInv, RequestsFine, RequestFine, LifetimeSoFar
<1>4. cache' \in CacheRow /\ cache'.total = q.total
  BY <1>2, <1>3 DEF CacheRow, InsightsInv, RowsTyped
<1>. QED
  BY <1>2, <1>3, <1>4, TotalTold

-----------------------------------------------------------------------------
LEMMA InsightsInitially ==
  ASSUME InsightsInit
  PROVE  InsightsInv
<1>1. RowsTyped
  BY DEF InsightsInit, RowsTyped
<1>2. Visiting
  BY DEF InsightsInit, Visiting, LogInOrder, SessionIds, OpenVisits, ClosedVisits
<1>3. Playing
  BY DEF InsightsInit, Playing, PlayTimes, PlaysInTurn
<1>4. RequestsFine
  <2>1. \A r \in Requests : RequestFine(r, Unasked)
    BY DEF RequestFine, Unasked, GuessesSoFar, RefusalsSoFar, ReasonsSoFar, FootageSoFar,
           LifetimeSoFar, AnswerFits
  <2>2. DOMAIN request = Requests /\ \A r \in Requests : request[r] = Unasked
    BY DEF InsightsInit
  <2>. QED
    BY <2>1, <2>2 DEF RequestsFine
<1>5. CacheFine
  <2>1. Len(log) = 0
    BY DEF InsightsInit
  <2>. QED
    BY <2>1 DEF InsightsInit, CacheFine, Cold
<1>. QED
  BY <1>1, <1>2, <1>3, <1>4, <1>5 DEF InsightsInv

LEMMA NothingKeeps ==
  ASSUME InsightsInv, UNCHANGED insightsVars
  PROVE  InsightsInv'
<1>0. RowsTyped /\ Visiting /\ Playing /\ tick \in Nat /\ written \in Nat
  BY DEF InsightsInv, RowsTyped
<1>1. /\ log' = log /\ samples' = samples /\ plays' = plays /\ bots' = bots /\ here' = here
      /\ request' = request /\ cache' = cache /\ told' = told /\ tick' = tick /\ written' = written
  BY DEF insightsVars, logVars
<1>2. RowsTyped'
  BY <1>0, <1>1 DEF RowsTyped
<1>3. Visiting' /\ Playing'
  <2>1. written' >= written /\ written' \in Nat /\ tick' >= tick /\ tick' \in Nat
    BY <1>0, <1>1
  <2>. QED
    BY <1>0, <1>1, <2>1, NobodyComes, NothingPlays
<1>4. RowsStay /\ Len(log') >= Len(log)
  <2>1. Len(log) \in Nat
    BY <1>0 DEF RowsTyped
  <2>. QED
    BY <1>1, <2>1 DEF RowsStay
<1>5. RequestsFine' /\ CacheFine'
  BY <1>1, <1>2, <1>4, RowsStayed
<1>. QED
  BY <1>2, <1>3, <1>5 DEF InsightsInv

\* The rows, the requests and the cache stand after every step.
LEMMA InsightsStep ==
  ASSUME InsightsInv, [InsightsNext]_insightsVars
  PROVE  InsightsInv'
<1>1. CASE InsightsTick
  BY <1>1, TickKeeps
<1>2. CASE VisitRows
  BY <1>2, ArrivesKeeps, LeavesKeeps, CrashKeeps DEF VisitRows
<1>3. CASE CommandRows
  <2>1. PICK p \in People, c \in Cmds : RunsCommand(p, c) \/ \E why \in {Unknown, "cooldown"} : IsRefused(p, c, why)
    BY <1>3 DEF CommandRows
  <2>2. \E why \in {Unknown, "cooldown"} : RunsCommand(p, c) \/ IsRefused(p, c, why)
    BY <2>1
  <2>. QED
    BY <2>2, CommandsKeep
<1>4. CASE GuessRows
  BY <1>4, GuessesKeep DEF GuessRows
<1>5. CASE AudienceRows
  BY <1>5, SwitchKeeps, SampledKeeps DEF AudienceRows
<1>6. CASE BotRows
  BY <1>6, FlagKeeps DEF BotRows
<1>7. ASSUME NEW r \in Requests, GuessRequest(r) \/ CommandRequest(r)
      PROVE  InsightsInv'
  BY <1>7, GuessesAsked, GuessesTold, CommandsAsked, ReasonsTold, UnknownTold DEF GuessRequest, CommandRequest
<1>8. ASSUME NEW r \in Requests, FootageRequest(r) \/ LifetimeRequest(r)
      PROVE  InsightsInv'
  BY <1>8, FootageAsked, PlatformsTold, LifetimeAsked, KindsCounted, LifetimeKept
     DEF FootageRequest, LifetimeRequest
<1>9. ASSUME NEW r \in Requests, QueryFails(r) \/ Replies(r)
      PROVE  InsightsInv'
  BY <1>9, FailKeeps, FinishKeeps
<1>10. CASE UNCHANGED insightsVars
  BY <1>10, NothingKeeps
<1>. QED
  BY <1>1, <1>2, <1>3, <1>4, <1>5, <1>6, <1>7, <1>8, <1>9, <1>10 DEF InsightsNext

\* What is told was read of rows in order and a cache one handler fills.
THEOREM InsightsStand == InsightsSpec => []InsightsInv
<1>1. InsightsInit => InsightsInv
  BY InsightsInitially
<1>2. InsightsInv /\ [InsightsNext]_insightsVars => InsightsInv'
  BY InsightsStep
<1>. QED
  BY <1>1, <1>2, PTL DEF InsightsSpec
-----------------------------------------------------------------------------
(* No more time than there was *)

LEMMA LaterOfTwo ==
  ASSUME NEW m \in Int, NEW n \in Int
  PROVE  Max({m, n}) \in {m, n} /\ Max({m, n}) >= m /\ Max({m, n}) >= n
<1>1. \E x \in {m, n} : \A y \in {m, n} : x >= y
  OBVIOUS
<1>. QED
  BY <1>1 DEF Max

\* The visits of presence, a logout with its login, and the ticks one counts.
PairsOf(p, start) ==
  {v \in (DOMAIN log) \X (DOMAIN log) :
     LET o == log[v[1]] l == log[v[2]] IN
     /\ o.kind = "logout" /\ o.who = p /\ o.at >= start
     /\ l.kind = "login" /\ l.session = o.session
     /\ l.at >= start - LookbackDays * DayLen /\ o.at >= l.at}
Lasted(start, S) == [v \in S |-> log[v[1]].at - FromStart(log[v[2]], start)]
TicksThere(start) ==
  [v \in (DOMAIN log) \X (DOMAIN log) |-> FromStart(log[v[2]], start) .. log[v[1]].at - 1]

LEMMA LastedAddUp ==
  ASSUME NEW S, NEW start
  PROVE  MapThenSumSet(LAMBDA v : log[v[1]].at - FromStart(log[v[2]], start), S) = SumOver(Lasted(start, S), S)
BY DEF SumOver, Lasted, MapThenSumSet, MapThenFoldSet

LEMMA LoggedRow ==
  ASSUME InsightsInv, NEW i \in DOMAIN log
  PROVE  log[i].at \in Nat /\ log[i].at <= tick /\ i \in Nat /\ tick \in Nat
<1>1. log[i] \in EventRow /\ tick \in Nat /\ i \in Nat
  BY DEF InsightsInv, RowsTyped
<1>2. \A x \in EventRow : x.at \in Nat
  BY DEF EventRow
<1>3. log[i].at <= tick
  BY DEF InsightsInv, Visiting, LogInOrder
<1>. QED
  BY <1>1, <1>2, <1>3

\* A visit's login is the last its person made before they left.
LEMMA LastLogin ==
  ASSUME InsightsInv, NEW p \in People, NEW j \in DOMAIN log, NEW i \in DOMAIN log,
         log[j].kind = "logout", log[j].who = p, log[i].kind = "login", log[i].session = log[j].session
  PROVE  i < j /\ log[i].who = p /\ NoLogin(p, i, j)
<1>1. PICK k \in DOMAIN log : /\ k < j /\ log[k].kind = "login" /\ log[k].session = log[j].session
                              /\ log[k].who = log[j].who /\ NoLogin(log[j].who, k, j)
  BY DEF InsightsInv, Visiting, ClosedVisits
<1>2. k = i
  BY <1>1 DEF InsightsInv, Visiting, SessionIds
<1>. QED
  BY <1>1, <1>2

\* Who left has to come again before they can leave again.
LEMMA OneAtATime ==
  ASSUME InsightsInv, NEW p \in People, NEW start \in Int,
         NEW v \in PairsOf(p, start), NEW w \in PairsOf(p, start), v[1] < w[1]
  PROVE  log[v[1]].at <= log[w[2]].at
<1>. DEFINE j == v[1]  i == v[2]  k == w[1]  h == w[2]
<1>1. /\ j \in DOMAIN log /\ i \in DOMAIN log /\ k \in DOMAIN log /\ h \in DOMAIN log
      /\ log[j].kind = "logout" /\ log[j].who = p /\ log[i].kind = "login" /\ log[i].session = log[j].session
      /\ log[k].kind = "logout" /\ log[k].who = p /\ log[h].kind = "login" /\ log[h].session = log[k].session
  BY DEF PairsOf
<1>. HIDE DEF j, i, k, h
<1>2. /\ i < j /\ log[i].who = p /\ h < k /\ log[h].who = p /\ NoLogin(p, i, j) /\ NoLogin(p, h, k)
  BY <1>1, LastLogin
<1>3. i \in Nat /\ j \in Nat /\ h \in Nat /\ k \in Nat /\ j < k
  BY <1>1, LoggedRow DEF j, k
<1>4. i # h
  BY <1>1, <1>3 DEF InsightsInv, Visiting, SessionIds
<1>5. ~ (h < i)
  BY <1>1, <1>2, <1>3 DEF NoLogin
<1>6. ~ (i < h /\ h < j)
  BY <1>1, <1>2 DEF NoLogin
<1>7. h # j
  BY <1>1
<1>8. j < h
  BY <1>3, <1>4, <1>5, <1>6, <1>7
<1>9. log[j].at <= log[h].at
  BY <1>1, <1>8 DEF InsightsInv, Visiting, LogInOrder
<1>. QED
  BY <1>9 DEF j, h

LEMMA PresenceFits ==
  ASSUME InsightsInv, NEW p \in People
  PROVE  PresenceHours(p, WindowDays) <= WindowDays * DayLen
<1>. DEFINE width == WindowDays * DayLen
            start == Since(WindowDays)
            S == PairsOf(p, start)
            T == start .. tick - 1
<1>0. width \in Nat /\ tick \in Nat /\ WindowDays # 0 /\ DayLen \in Nat
  <2>1. WindowDays \in Nat \ {0} /\ DayLen \in Nat \ {0}
    BY InsightsConstants
  <2>2. \A a, b \in Nat : a * b \in Nat
    OBVIOUS
  <2>. QED
    BY <2>1, <2>2 DEF InsightsInv, RowsTyped
<1>1. start \in Int /\ start = tick - width
  BY <1>0 DEF Since
<1>2. PresenceHours(p, WindowDays) = SumOver(Lasted(start, S), S)
  <2>1. PresenceHours(p, WindowDays) = MapThenSumSet(LAMBDA v : log[v[1]].at - FromStart(log[v[2]], start), S)
    BY DEF PresenceHours, PairsOf
  <2>. HIDE DEF start, S
  <2>. QED
    BY <2>1, LastedAddUp
<1>. HIDE DEF start, width
<1>3. \A v \in S : /\ v \in (DOMAIN log) \X (DOMAIN log) /\ v[1] \in DOMAIN log /\ v[2] \in DOMAIN log
                   /\ log[v[1]].at \in Nat /\ log[v[1]].at <= tick /\ log[v[1]].at >= start
                   /\ FromStart(log[v[2]], start) \in Int /\ FromStart(log[v[2]], start) >= start
                   /\ FromStart(log[v[2]], start) >= log[v[2]].at
                   /\ FromStart(log[v[2]], start) <= log[v[1]].at /\ log[v[2]].at \in Nat
  <2>1. SUFFICES ASSUME NEW v \in S
                 PROVE  /\ v \in (DOMAIN log) \X (DOMAIN log) /\ v[1] \in DOMAIN log /\ v[2] \in DOMAIN log
                        /\ log[v[1]].at \in Nat /\ log[v[1]].at <= tick /\ log[v[1]].at >= start
                        /\ FromStart(log[v[2]], start) \in Int /\ FromStart(log[v[2]], start) >= start
                        /\ FromStart(log[v[2]], start) >= log[v[2]].at
                        /\ FromStart(log[v[2]], start) <= log[v[1]].at /\ log[v[2]].at \in Nat
    OBVIOUS
  <2>2. /\ v \in (DOMAIN log) \X (DOMAIN log) /\ v[1] \in DOMAIN log /\ v[2] \in DOMAIN log
        /\ log[v[1]].at >= start /\ log[v[1]].at >= log[v[2]].at
    BY DEF PairsOf
  <2>3. log[v[1]].at \in Nat /\ log[v[1]].at <= tick /\ log[v[2]].at \in Nat
    BY <2>2, LoggedRow
  <2>4. PICK m : m = FromStart(log[v[2]], start)
    OBVIOUS
  <2>5. m \in {log[v[2]].at, start} /\ m >= log[v[2]].at /\ m >= start
    <3>1. PICK a \in Int : a = log[v[2]].at
      BY <2>3
    <3>2. m = Max({a, start})
      BY <2>4, <3>1 DEF FromStart
    <3>3. Max({a, start}) \in {a, start} /\ Max({a, start}) >= a /\ Max({a, start}) >= start
      BY <1>1, LaterOfTwo
    <3>. QED
      BY <3>1, <3>2, <3>3
  <2>. QED
    BY <1>1, <2>2, <2>3, <2>4, <2>5
<1>. DEFINE A == TicksThere(start)
            f == Lasted(start, S)
<1>4. \A v \in S : A[v] = FromStart(log[v[2]], start) .. log[v[1]].at - 1
                   /\ f[v] = log[v[1]].at - FromStart(log[v[2]], start)
  BY <1>3 DEF TicksThere, Lasted
<1>. HIDE DEF A, f
<1>5. \A v \in S : A[v] \subseteq T /\ f[v] = Cardinality(A[v])
  <2>1. SUFFICES ASSUME NEW v \in S PROVE A[v] \subseteq T /\ f[v] = Cardinality(A[v])
    OBVIOUS
  <2>2. PICK m \in Int, n \in Int : m = FromStart(log[v[2]], start) /\ n = log[v[1]].at
    BY <1>3
  <2>3. m <= n /\ n <= tick /\ m >= start
    BY <1>3, <2>2
  <2>4. A[v] = m .. n - 1 /\ f[v] = n - m
    BY <1>4, <2>2
  <2>5. Cardinality(m .. n - 1) = IF m > n - 1 THEN 0 ELSE (n - 1) - m + 1
    BY FS_Interval
  <2>. QED
    BY <1>0, <1>1, <2>3, <2>4, <2>5
<1>6. \A v, w \in S : v[1] < w[1] => A[v] \cap A[w] = {}
  <2>1. SUFFICES ASSUME NEW v \in S, NEW w \in S, v[1] < w[1], NEW t \in A[v], t \in A[w] PROVE FALSE
    OBVIOUS
  <2>2. log[v[1]].at <= log[w[2]].at
    BY <1>1, <2>1, OneAtATime
  <2>3. t \in Int /\ t <= log[v[1]].at - 1 /\ t >= FromStart(log[w[2]], start)
    BY <1>3, <1>4, <2>1
  <2>4. FromStart(log[w[2]], start) >= log[w[2]].at /\ FromStart(log[w[2]], start) \in Int
        /\ log[w[2]].at \in Nat /\ log[v[1]].at \in Nat
    BY <1>3
  <2>. QED
    BY <2>2, <2>3, <2>4
<1>7. \A v, w \in S : v # w => v[1] # w[1]
  <2>1. SUFFICES ASSUME NEW v \in S, NEW w \in S, v[1] = w[1] PROVE v = w
    OBVIOUS
  <2>2. /\ log[v[2]].kind = "login" /\ log[w[2]].kind = "login"
        /\ log[v[2]].session = log[w[2]].session /\ v[2] \in DOMAIN log /\ w[2] \in DOMAIN log
    BY <2>1 DEF PairsOf
  <2>3. v[2] = w[2]
    BY <2>2 DEF InsightsInv, Visiting, SessionIds
  <2>4. v = <<v[1], v[2]>> /\ w = <<w[1], w[2]>>
    BY <1>3
  <2>. QED
    BY <2>1, <2>3, <2>4
<1>8. \A v, w \in S : v # w => A[v] \cap A[w] = {}
  <2>1. SUFFICES ASSUME NEW v \in S, NEW w \in S, v # w PROVE A[v] \cap A[w] = {}
    OBVIOUS
  <2>2. v[1] \in Nat /\ w[1] \in Nat /\ v[1] # w[1]
    BY <1>3, <1>7, <2>1, LoggedRow
  <2>3. v[1] < w[1] \/ w[1] < v[1]
    BY <2>2
  <2>. QED
    BY <1>6, <2>3
<1>9. IsFiniteSet(S)
  <2>1. IsFiniteSet((DOMAIN log) \X (DOMAIN log))
    BY LogIsFinite, FS_Product DEF InsightsInv
  <2>2. S \in SUBSET ((DOMAIN log) \X (DOMAIN log))
    BY DEF PairsOf
  <2>. QED
    BY <2>1, <2>2, FS_Subset
<1>10. IsFiniteSet(T) /\ Cardinality(T) = width
  <2>1. IsFiniteSet(start .. tick - 1)
        /\ Cardinality(start .. tick - 1) = IF start > tick - 1 THEN 0 ELSE (tick - 1) - start + 1
    BY <1>0, <1>1, FS_Interval
  <2>. QED
    BY <1>0, <1>1, <2>1
<1>. HIDE DEF S, T
<1>11. SumOver(f, S) <= Cardinality(T)
  BY <1>5, <1>8, <1>9, <1>10, SumFits
<1>. QED
  BY <1>2, <1>10, <1>11 DEF f, width
\* The plays of a region that ended, and what each of them aired.
PlaysOf(v, since) ==
  {i \in DOMAIN plays : plays[i].region = v /\ plays[i].ended # Null /\ StartedIn(plays[i], since)}
AiredFor(S) == [i \in S |-> plays[i].ended - plays[i].started]
AiredTicks(S) == [i \in S |-> {plays[i].platform} \X (plays[i].started .. plays[i].ended - 1)]

LEMMA AiredAddUp ==
  ASSUME NEW S
  PROVE  MapThenSumSet(LAMBDA i : plays[i].ended - plays[i].started, S) = SumOver(AiredFor(S), S)
BY DEF SumOver, AiredFor, MapThenSumSet, MapThenFoldSet

LEMMA PlayedRow ==
  ASSUME InsightsInv, NEW i \in DOMAIN plays
  PROVE  /\ plays[i].platform \in Platforms /\ plays[i].region \in Regions /\ plays[i].started \in Nat
         /\ plays[i].ended # Null => /\ plays[i].ended \in Nat /\ plays[i].started <= plays[i].ended
                                     /\ plays[i].ended <= tick
         /\ i \in Nat /\ tick \in Nat
<1>1. plays[i] \in Play /\ tick \in Nat /\ i \in Nat
  BY DEF InsightsInv, RowsTyped
<1>2. /\ plays[i].platform \in Platforms /\ plays[i].region \in Regions /\ plays[i].started \in Nat
      /\ plays[i].ended \in Nat \cup {Null}
  BY <1>1, PlayIs
<1>3. plays[i].ended # Null => plays[i].started <= plays[i].ended /\ plays[i].ended <= tick
  BY DEF InsightsInv, Playing, PlayTimes
<1>. QED
  BY <1>1, <1>2, <1>3

LEMMA PlaysAreFinite ==
  ASSUME InsightsInv, NEW v, NEW since
  PROVE  IsFiniteSet(PlaysOf(v, since)) /\ PlaysOf(v, since) \subseteq DOMAIN plays
<1>1. Len(plays) \in Nat /\ DOMAIN plays = 1 .. Len(plays)
  BY DEF InsightsInv, RowsTyped
<1>2. IsFiniteSet(DOMAIN plays)
  BY <1>1, FS_Interval
<1>3. PlaysOf(v, since) \in SUBSET DOMAIN plays
  BY DEF PlaysOf
<1>. QED
  BY <1>2, <1>3, FS_Subset

\* A platform that went on to another play had ended the one before.
LEMMA NothingAiredTwice ==
  ASSUME InsightsInv, NEW i \in DOMAIN plays, NEW j \in DOMAIN plays, i # j,
         plays[i].ended # Null, plays[j].ended # Null
  PROVE  ({plays[i].platform} \X (plays[i].started .. plays[i].ended - 1))
           \cap ({plays[j].platform} \X (plays[j].started .. plays[j].ended - 1)) = {}
<1>1. SUFFICES ASSUME NEW z \in {plays[i].platform} \X (plays[i].started .. plays[i].ended - 1),
                      z \in {plays[j].platform} \X (plays[j].started .. plays[j].ended - 1)
               PROVE  FALSE
  OBVIOUS
<1>2. /\ plays[i].started \in Nat /\ plays[i].ended \in Nat /\ plays[j].started \in Nat
      /\ plays[j].ended \in Nat /\ i \in Nat /\ j \in Nat
  BY PlayedRow
<1>3. PICK t : t = z[2]
  OBVIOUS
<1>4. /\ plays[i].platform = plays[j].platform /\ t \in plays[i].started .. plays[i].ended - 1
      /\ t \in plays[j].started .. plays[j].ended - 1
  BY <1>1, <1>3
<1>5. /\ t \in Int /\ plays[i].started <= t /\ t <= plays[i].ended - 1
      /\ plays[j].started <= t /\ t <= plays[j].ended - 1
  BY <1>2, <1>4
<1>6. CASE i < j
  <2>1. plays[i].ended <= plays[j].started
    BY <1>4, <1>6 DEF InsightsInv, Playing, PlaysInTurn
  <2>. QED
    BY <1>2, <1>5, <2>1
<1>7. CASE j < i
  <2>1. plays[j].ended <= plays[i].started
    BY <1>4, <1>7 DEF InsightsInv, Playing, PlaysInTurn
  <2>. QED
    BY <1>2, <1>5, <2>1
<1>. QED
  BY <1>2, <1>6, <1>7

\* What a region aired, as platforms' ticks.
AiredBy(v, since) == Gathered(AiredTicks(PlaysOf(v, since)), PlaysOf(v, since))

LEMMA AirtimeIs ==
  ASSUME InsightsInv, NEW v, NEW since
  PROVE  Airtime(v, since) = Cardinality(AiredBy(v, since))
<1>. DEFINE S == PlaysOf(v, since)
            f == AiredFor(S)
            A == AiredTicks(S)
<1>1. Airtime(v, since) = SumOver(f, S)
  <2>1. Airtime(v, since) = MapThenSumSet(LAMBDA i : plays[i].ended - plays[i].started, S)
    BY DEF Airtime, PlaysOf
  <2>. HIDE DEF S
  <2>. QED
    BY <2>1, AiredAddUp
<1>2. IsFiniteSet(S) /\ S \subseteq DOMAIN plays
  BY PlaysAreFinite
<1>3. \A i \in S : /\ plays[i].platform \in Platforms /\ plays[i].started \in Nat /\ plays[i].ended # Null
                   /\ plays[i].ended \in Nat /\ plays[i].started <= plays[i].ended
  <2>1. \A i \in S : i \in DOMAIN plays /\ plays[i].ended # Null
    BY DEF PlaysOf
  <2>. HIDE DEF S
  <2>. QED
    BY <2>1, PlayedRow
<1>. HIDE DEF S
<1>4. \A i \in S : /\ A[i] = {plays[i].platform} \X (plays[i].started .. plays[i].ended - 1)
                   /\ f[i] = plays[i].ended - plays[i].started
  BY DEF AiredTicks, AiredFor
<1>. HIDE DEF A, f
<1>5. \A i \in S : IsFiniteSet(A[i]) /\ f[i] = Cardinality(A[i])
  <2>1. SUFFICES ASSUME NEW i \in S PROVE IsFiniteSet(A[i]) /\ f[i] = Cardinality(A[i])
    OBVIOUS
  <2>2. PICK p \in Platforms, m \in Nat, n \in Nat : p = plays[i].platform /\ m = plays[i].started /\ n = plays[i].ended
    BY <1>3
  <2>3. m <= n
    BY <1>3, <2>2
  <2>4. A[i] = {p} \X (m .. n - 1) /\ f[i] = n - m
    BY <1>4, <2>2
  <2>5. IsFiniteSet(m .. n - 1) /\ Cardinality(m .. n - 1) = IF m > n - 1 THEN 0 ELSE (n - 1) - m + 1
    BY FS_Interval
  <2>6. Cardinality(m .. n - 1) = n - m
    BY <2>3, <2>5
  <2>7. IsFiniteSet({p}) /\ Cardinality({p}) = 1
    BY FS_Singleton
  <2>8. IsFiniteSet({p} \X (m .. n - 1)) /\ Cardinality({p} \X (m .. n - 1)) = 1 * Cardinality(m .. n - 1)
    BY <2>5, <2>7, FS_Product
  <2>9. Cardinality({p} \X (m .. n - 1)) = n - m
    BY <2>6, <2>8
  <2>. QED
    BY <2>4, <2>8, <2>9
<1>6. \A i, j \in S : i # j => A[i] \cap A[j] = {}
  BY <1>2, <1>3, <1>4, NothingAiredTwice
<1>7. SumOver(f, S) = Cardinality(Gathered(A, S))
  BY <1>2, <1>5, <1>6, SumOfCounts
<1>. QED
  BY <1>1, <1>7 DEF AiredBy, A, S

LEMMA AirtimeFits ==
  ASSUME InsightsInv, NEW since \in 0 .. tick
  PROVE  MapThenSumSet(LAMBDA v : Airtime(v, since), Regions) <= Cardinality(Platforms) * (tick - since)
<1>. DEFINE f == [v \in Regions |-> Airtime(v, since)]
            A == [v \in Regions |-> AiredBy(v, since)]
            T == Platforms \X (since .. tick - 1)
<1>0. tick \in Nat /\ since \in Nat /\ since <= tick
  BY DEF InsightsInv, RowsTyped
<1>1. MapThenSumSet(LAMBDA v : Airtime(v, since), Regions) = SumOver(f, Regions)
  BY DEF SumOver, MapThenSumSet, MapThenFoldSet
<1>2. \A v : \A z \in AiredBy(v, since) :
        \E i \in DOMAIN plays : /\ plays[i].region = v /\ plays[i].ended # Null /\ plays[i].started >= since
                                /\ z \in {plays[i].platform} \X (plays[i].started .. plays[i].ended - 1)
  BY DEF AiredBy, Gathered, AiredTicks, PlaysOf, StartedIn
<1>3. \A v : AiredBy(v, since) \subseteq T
  <2>1. SUFFICES ASSUME NEW v, NEW z \in AiredBy(v, since) PROVE z \in T
    OBVIOUS
  <2>2. PICK i \in DOMAIN plays : /\ plays[i].ended # Null /\ plays[i].started >= since
                                  /\ z \in {plays[i].platform} \X (plays[i].started .. plays[i].ended - 1)
    BY <1>2
  <2>3. /\ plays[i].platform \in Platforms /\ plays[i].started \in Nat /\ plays[i].ended \in Nat
        /\ plays[i].ended <= tick
    BY <2>2, PlayedRow
  <2>4. (plays[i].started .. plays[i].ended - 1) \subseteq since .. tick - 1
    BY <1>0, <2>2, <2>3
  <2>. QED
    BY <2>2, <2>3, <2>4
<1>4. \A v, w : v # w => AiredBy(v, since) \cap AiredBy(w, since) = {}
  <2>1. SUFFICES ASSUME NEW v, NEW w, v # w, NEW z \in AiredBy(v, since), z \in AiredBy(w, since) PROVE FALSE
    OBVIOUS
  <2>2. PICK i \in DOMAIN plays : /\ plays[i].region = v /\ plays[i].ended # Null
                                  /\ z \in {plays[i].platform} \X (plays[i].started .. plays[i].ended - 1)
    BY <1>2
  <2>3. PICK j \in DOMAIN plays : /\ plays[j].region = w /\ plays[j].ended # Null
                                  /\ z \in {plays[j].platform} \X (plays[j].started .. plays[j].ended - 1)
    BY <1>2, <2>1
  <2>4. i # j
    BY <2>1, <2>2, <2>3
  <2>. QED
    BY <2>2, <2>3, <2>4, NothingAiredTwice
<1>5. IsFiniteSet(T) /\ Cardinality(T) = Cardinality(Platforms) * (tick - since)
  <2>1. IsFiniteSet(since .. tick - 1)
        /\ Cardinality(since .. tick - 1) = IF since > tick - 1 THEN 0 ELSE (tick - 1) - since + 1
    BY <1>0, FS_Interval
  <2>2. Cardinality(since .. tick - 1) = tick - since
    BY <1>0, <2>1
  <2>3. IsFiniteSet(Platforms)
    BY InsightsConstants
  <2>. QED
    BY <2>1, <2>2, <2>3, FS_Product
<1>6. \A v \in Regions : f[v] = Airtime(v, since) /\ A[v] = AiredBy(v, since)
  OBVIOUS
<1>. HIDE DEF f, A, T
<1>7. \A v \in Regions : A[v] \subseteq T /\ f[v] = Cardinality(A[v])
  BY <1>3, <1>6, AirtimeIs
<1>8. \A v, w \in Regions : v # w => A[v] \cap A[w] = {}
  BY <1>4, <1>6
<1>9. IsFiniteSet(Regions)
  BY InsightsConstants
<1>10. SumOver(f, Regions) <= Cardinality(T)
  BY <1>5, <1>7, <1>8, <1>9, SumFits
<1>. QED
  BY <1>1, <1>5, <1>10

LEMMA TimeFits ==
  ASSUME InsightsInv
  PROVE  TimeFitsTheWindow
BY PresenceFits, AirtimeFits DEF TimeFitsTheWindow
-----------------------------------------------------------------------------
(* Parts and wholes *)

\* Days
LEMMA DayOfFirst ==
  ASSUME NEW k \in Int
  PROVE  Day(k * DayLen) = k
<1>1. DayLen \in Nat \ {0}
  BY InsightsConstants
<1>. QED
  BY <1>1 DEF Day

LEMMA DayIs ==
  ASSUME NEW t \in Int
  PROVE  Day(t) \in Int /\ Day(t) * DayLen <= t /\ t < (Day(t) + 1) * DayLen
<1>1. DayLen \in Nat \ {0}
  BY InsightsConstants
<1>. QED
  BY <1>1 DEF Day

LEMMA LongerSpan ==
  ASSUME NEW a \in Int, NEW b \in Int, NEW d \in Nat \ {0}, b <= a
  PROVE  b * d <= a * d /\ b * d \in Int /\ a * d \in Int
<1>1. PICK c \in Nat : a = b + c
  <2>1. a - b \in Nat /\ a = b + (a - b)
    OBVIOUS
  <2>. QED
    BY <2>1
<1>2. a * d = b * d + c * d /\ c * d \in Nat /\ b * d \in Int
  BY <1>1
<1>. QED
  BY <1>2

LEMMA DaysInOrder ==
  ASSUME NEW s \in Int, NEW t \in Int, s <= t
  PROVE  Day(s) <= Day(t)
<1>1. DayLen \in Nat \ {0}
  BY InsightsConstants
<1>2. PICK a \in Int, b \in Int : a = Day(s) /\ b = Day(t)
  BY DayIs
<1>3. a * DayLen <= s /\ t < (b + 1) * DayLen
  BY <1>2, DayIs
<1>4. SUFFICES ASSUME b + 1 <= a PROVE FALSE
  BY <1>2
<1>5. (b + 1) * DayLen <= a * DayLen /\ (b + 1) * DayLen \in Int /\ a * DayLen \in Int
  BY <1>1, <1>4, LongerSpan
<1>. QED
  BY <1>3, <1>5

\* The days a series is of: today and the ones before it.
FirstDay == Day(PlaybackDailySince(WindowDays))

LEMMA DaysAre ==
  ASSUME InsightsInv
  PROVE  /\ FirstDay \in Int /\ PlaybackDailySince(WindowDays) = FirstDay * DayLen
         /\ FirstDay * DayLen \in Int /\ Day(tick) = FirstDay + WindowDays - 1
         /\ Day(tick) \in FirstDay .. FirstDay + WindowDays - 1
         /\ IsFiniteSet(FirstDay .. FirstDay + WindowDays - 1) /\ tick \in Nat
<1>1. tick \in Nat /\ WindowDays \in Nat \ {0} /\ DayLen \in Nat \ {0}
  BY InsightsConstants DEF InsightsInv, RowsTyped
<1>2. PICK k \in Int : k = Day(tick) - (WindowDays - 1)
  BY <1>1, DayIs
<1>3. PlaybackDailySince(WindowDays) = k * DayLen /\ FirstDay = k
  BY <1>2, DayOfFirst DEF FirstDay, PlaybackDailySince
<1>4. Day(tick) = k + WindowDays - 1 /\ Day(tick) \in k .. k + WindowDays - 1
  BY <1>1, <1>2, DayIs
<1>5. IsFiniteSet(k .. k + WindowDays - 1)
  <2>1. k + WindowDays - 1 \in Int
    BY <1>1
  <2>. QED
    BY <2>1, FS_Interval
<1>6. k * DayLen \in Int
  BY <1>1
<1>. QED
  BY <1>1, <1>3, <1>4, <1>5, <1>6

\* A row since the first midnight is on one of them.
LEMMA OnADay ==
  ASSUME InsightsInv, NEW i \in DOMAIN log, log[i].at >= PlaybackDailySince(WindowDays)
  PROVE  Day(log[i].at) \in FirstDay .. FirstDay + WindowDays - 1
<1>1. log[i].at \in Nat /\ log[i].at <= tick
  BY LoggedRow
<1>2. PICK a \in Int, k \in Int, n \in Int : a = log[i].at /\ k = FirstDay /\ n = k * DayLen
  BY <1>1, DaysAre
<1>3. n <= a /\ a <= tick /\ tick \in Int
  BY <1>1, <1>2, DaysAre
<1>4. Day(n) = k /\ Day(n) <= Day(a) /\ Day(a) <= Day(tick)
  BY <1>2, <1>3, DayOfFirst, DaysInOrder
<1>5. Day(a) \in Int /\ Day(tick) = k + WindowDays - 1 /\ Day(tick) \in Int
  BY <1>2, <1>3, DaysAre, DayIs
<1>6. k <= Day(a) /\ Day(a) <= k + WindowDays - 1 /\ k + WindowDays - 1 \in Int
  BY <1>4, <1>5
<1>. QED
  BY <1>2, <1>5, <1>6

DaysOf == FirstDay .. FirstDay + WindowDays - 1
OnDays(S) == [d \in DaysOf |-> Cardinality({i \in S : Day(log[i].at) = d})]
VisitsOnDays(S) == [d \in DaysOf |-> Cardinality({v \in S : Day(log[v[1]].at) = d})]

\* A series' columns add up.
LEMMA RowsByDay ==
  ASSUME InsightsInv, NEW kind
  PROVE  LET S == Rows(kind, PlaybackDailySince(WindowDays)) IN
         SumOver(OnDays(S), DaysOf) = Cardinality(S)
<1>. DEFINE S == Rows(kind, PlaybackDailySince(WindowDays))
            key == [i \in DOMAIN log |-> Day(log[i].at)]
            f == OnDays(S)
<1>1. IsFiniteSet(S) /\ S \subseteq DOMAIN log
  BY RowsAreFinite DEF InsightsInv
<1>2. \A i \in S : log[i].at >= PlaybackDailySince(WindowDays)
  BY DEF Rows
<1>. HIDE DEF S
<1>3. \A i \in S : key[i] = Day(log[i].at)
  BY <1>1
<1>. HIDE DEF key
<1>4. \A i \in S : key[i] \in DaysOf
  BY <1>1, <1>2, <1>3, OnADay DEF DaysOf
<1>5. \A d \in DaysOf : f[d] = Cardinality({i \in S : key[i] = d})
  <2>1. \A d \in DaysOf : {i \in S : key[i] = d} = {i \in S : Day(log[i].at) = d}
    BY <1>3
  <2>. QED
    BY <2>1 DEF OnDays
<1>6. IsFiniteSet(DaysOf)
  BY DaysAre DEF DaysOf
<1>. HIDE DEF f
<1>7. SumOver(f, DaysOf) = Cardinality(S)
  BY <1>1, <1>4, <1>5, <1>6, SumOfTally
<1>. QED
  BY <1>7 DEF f, S

LEMMA VisitsAre ==
  ASSUME InsightsInv, NEW since
  PROVE  /\ IsFiniteSet(Visits(since))
         /\ \A v \in Visits(since) : /\ v \in (DOMAIN log) \X (DOMAIN log) /\ v[1] \in DOMAIN log
                                     /\ log[v[1]].at >= since /\ Stay(v) \in Int /\ Stay(v) >= 0
<1>1. IsFiniteSet((DOMAIN log) \X (DOMAIN log))
  BY LogIsFinite, FS_Product DEF InsightsInv
<1>2. \A v \in Visits(since) :
        /\ v \in (DOMAIN log) \X (DOMAIN log) /\ v[1] \in DOMAIN log /\ v[2] \in DOMAIN log
        /\ log[v[1]].at >= since /\ log[v[2]].at >= log[v[1]].at
  BY DEF Visits, Rows
<1>3. Visits(since) \in SUBSET ((DOMAIN log) \X (DOMAIN log))
  BY <1>2
<1>4. \A v \in Visits(since) : Stay(v) \in Int /\ Stay(v) >= 0
  BY <1>2, LoggedRow DEF Stay
<1>. QED
  BY <1>1, <1>2, <1>3, <1>4, FS_Subset

LEMMA VisitsByDay ==
  ASSUME InsightsInv
  PROVE  LET S == Visits(PlaybackDailySince(WindowDays)) IN
         SumOver(VisitsOnDays(S), DaysOf) = Cardinality(S)
<1>. DEFINE S == Visits(PlaybackDailySince(WindowDays))
            key == [v \in (DOMAIN log) \X (DOMAIN log) |-> Day(log[v[1]].at)]
            f == VisitsOnDays(S)
<1>1. /\ IsFiniteSet(S)
      /\ \A v \in S : /\ v \in (DOMAIN log) \X (DOMAIN log) /\ v[1] \in DOMAIN log
                      /\ log[v[1]].at >= PlaybackDailySince(WindowDays)
  BY VisitsAre
<1>. HIDE DEF S
<1>3. \A v \in S : key[v] = Day(log[v[1]].at)
  BY <1>1
<1>. HIDE DEF key
<1>4. \A v \in S : key[v] \in DaysOf
  BY <1>1, <1>3, OnADay DEF DaysOf
<1>5. \A d \in DaysOf : f[d] = Cardinality({v \in S : key[v] = d})
  <2>1. \A d \in DaysOf : {v \in S : key[v] = d} = {v \in S : Day(log[v[1]].at) = d}
    BY <1>3
  <2>. QED
    BY <2>1 DEF VisitsOnDays
<1>6. IsFiniteSet(DaysOf)
  BY DaysAre DEF DaysOf
<1>. HIDE DEF f
<1>7. SumOver(f, DaysOf) = Cardinality(S)
  <2>1. IsFiniteSet(S)
    BY <1>1
  <2>. QED
    BY <2>1, <1>4, <1>5, <1>6, SumOfTally
<1>. QED
  BY <1>7 DEF f, S
\* Every sample is in one bucket, and says one chat.
Bucketed == [i \in DOMAIN samples |-> <<samples[i].platform, (samples[i].at \div BucketTicks) * BucketTicks>>]
Chatted(S) == [i \in S |-> samples[i].chat]

LEMMA ChatsAddUp ==
  ASSUME NEW S
  PROVE  MapThenSumSet(LAMBDA i : samples[i].chat, S) = SumOver(Chatted(S), S)
BY DEF SumOver, Chatted, MapThenSumSet, MapThenFoldSet

LEMMA SeriesChats ==
  ASSUME NEW series
  PROVE  MapThenSumSet(LAMBDA b : series[b].chat, DOMAIN series)
           = SumOver([b \in DOMAIN series |-> series[b].chat], DOMAIN series)
BY DEF SumOver, MapThenSumSet, MapThenFoldSet

LEMMA SeriesAddsUp ==
  ASSUME InsightsInv
  PROVE  LET series == ViewerSeries(0) IN
         MapThenSumSet(LAMBDA b : series[b].chat, DOMAIN series) = Len(samples)
<1>. DEFINE K == {Bucketed[i] : i \in DOMAIN samples}
            InBucket(b) == {i \in DOMAIN samples : Bucketed[i] = b}
            series == ViewerSeries(0)
            f == [b \in DOMAIN series |-> series[b].chat]
<1>0. Len(samples) \in Nat /\ DOMAIN samples = 1 .. Len(samples) /\ samples \in Seq(Sample)
  BY DEF InsightsInv, RowsTyped
<1>1. IsFiniteSet(DOMAIN samples) /\ Cardinality(DOMAIN samples) = Len(samples)
  BY <1>0, FS_Interval
<1>2. \A i \in DOMAIN samples : samples[i].at \in Nat /\ samples[i].chat = 1
  <2>1. \A x \in Sample : x.at \in Nat /\ x.chat = 1
    BY DEF Sample
  <2>2. \A i \in DOMAIN samples : samples[i] \in Sample
    BY <1>0
  <2>. QED
    BY <2>1, <2>2
<1>3. {i \in DOMAIN samples : samples[i].at >= 0} = DOMAIN samples
  <2>1. \A i \in DOMAIN samples : samples[i].at >= 0
    BY <1>2
  <2>. QED
    BY <2>1
<1>4. /\ DOMAIN series = K
      /\ \A b \in K : series[b].chat = MapThenSumSet(LAMBDA i : samples[i].chat, InBucket(b))
  BY <1>3 DEF ViewerSeries, Bucketed
<1>5. \A b : MapThenSumSet(LAMBDA i : samples[i].chat, InBucket(b)) = Cardinality(InBucket(b))
  <2>1. SUFFICES ASSUME NEW b PROVE MapThenSumSet(LAMBDA i : samples[i].chat, InBucket(b)) = Cardinality(InBucket(b))
    OBVIOUS
  <2>2. PICK S : S = InBucket(b)
    OBVIOUS
  <2>3. S \in SUBSET DOMAIN samples
    BY <2>2
  <2>4. IsFiniteSet(S)
    BY <1>1, <2>3, FS_Subset
  <2>5. \A i \in S : Chatted(S)[i] = 1
    BY <1>2, <2>3 DEF Chatted
  <2>6. SumOver(Chatted(S), S) = Cardinality(S)
    BY <2>4, <2>5, SumOfOnes
  <2>7. MapThenSumSet(LAMBDA i : samples[i].chat, S) = SumOver(Chatted(S), S)
    BY ChatsAddUp
  <2>. QED
    BY <2>2, <2>6, <2>7
<1>6. IsFiniteSet(K)
  BY <1>1, ImageIsFinite
<1>7. \A b \in K : f[b] = Cardinality(InBucket(b))
  BY <1>4, <1>5
<1>8. \A i \in DOMAIN samples : Bucketed[i] \in K
  OBVIOUS
<1>9. MapThenSumSet(LAMBDA b : series[b].chat, DOMAIN series) = SumOver(f, K)
  <2>1. MapThenSumSet(LAMBDA b : series[b].chat, DOMAIN series) = SumOver(f, DOMAIN series)
    BY SeriesChats
  <2>. QED
    BY <1>4, <2>1
<1>. HIDE DEF f, K
<1>10. SumOver(f, K) = Cardinality(DOMAIN samples)
  <2>1. PICK S, key : S = DOMAIN samples /\ key = Bucketed
    OBVIOUS
  <2>2. IsFiniteSet(S) /\ (\A i \in S : key[i] \in K)
    BY <1>1, <1>8, <2>1
  <2>3. \A b \in K : f[b] = Cardinality({i \in S : key[i] = b})
    BY <1>7, <2>1
  <2>4. SumOver(f, K) = Cardinality(S)
    BY <1>6, <2>2, <2>3, SumOfTally
  <2>. QED
    BY <2>1, <2>4
<1>. QED
  BY <1>1, <1>9, <1>10

\* The bounds split the visits.
LEMMA TwoParts ==
  ASSUME NEW S, IsFiniteSet(S), NEW A, NEW B, S = A \cup B, A \cap B = {}
  PROVE  /\ IsFiniteSet(A) /\ IsFiniteSet(B) /\ Cardinality(A) \in Nat /\ Cardinality(B) \in Nat
         /\ Cardinality(S) = Cardinality(A) + Cardinality(B)
<1>1. IsFiniteSet(A) /\ IsFiniteSet(B)
  <2>1. A \in SUBSET S /\ B \in SUBSET S
    OBVIOUS
  <2>. QED
    BY <2>1, FS_Subset
<1>2. Cardinality(A \cup B) = Cardinality(A) + Cardinality(B) - Cardinality(A \cap B)
  BY <1>1, FS_Union
<1>3. Cardinality(A \cap B) = 0 /\ Cardinality(A) \in Nat /\ Cardinality(B) \in Nat
  BY <1>1, FS_EmptySet, FS_CardinalityType
<1>. QED
  BY <1>1, <1>2, <1>3

LEMMA BucketsSplit ==
  ASSUME InsightsInv, NEW since
  PROVE  LET stats == SessionStats(since) IN
         stats.under5m + stats.under30m + stats.under2h + stats.twoHoursUp = stats.sessions
<1>. DEFINE V == Visits(since)
            Within(from, to) == {v \in V : Stay(v) >= from /\ Stay(v) < to}
            Up(from) == {v \in V : Stay(v) >= from}
<1>0. /\ Under5m \in Nat /\ Under30m \in Nat /\ Under2h \in Nat
      /\ Under5m <= Under30m /\ Under30m <= Under2h
  BY InsightsConstants
<1>1. IsFiniteSet(V) /\ \A v \in V : Stay(v) \in Int /\ Stay(v) >= 0
  BY VisitsAre
<1>2. LET stats == SessionStats(since) IN
      /\ stats.sessions = Cardinality(V) /\ stats.under5m = Cardinality(Within(0, Under5m))
      /\ stats.under30m = Cardinality(Within(Under5m, Under30m))
      /\ stats.under2h = Cardinality(Within(Under30m, Under2h))
      /\ stats.twoHoursUp = Cardinality(Up(Under2h))
  BY DEF SessionStats
<1>. HIDE DEF V
<1>3. \A m, n \in Nat : m <= n => Up(m) = Within(m, n) \cup Up(n) /\ Within(m, n) \cap Up(n) = {}
  BY <1>1
<1>4. Up(0) = V
  BY <1>1
<1>. HIDE DEF Within, Up
<1>5. Up(0) = Within(0, Under5m) \cup Up(Under5m) /\ Within(0, Under5m) \cap Up(Under5m) = {}
  BY <1>0, <1>3
<1>6. /\ IsFiniteSet(Up(Under5m)) /\ Cardinality(Within(0, Under5m)) \in Nat
      /\ Cardinality(Up(0)) = Cardinality(Within(0, Under5m)) + Cardinality(Up(Under5m))
  BY <1>1, <1>4, <1>5, TwoParts
<1>7. Up(Under5m) = Within(Under5m, Under30m) \cup Up(Under30m) /\ Within(Under5m, Under30m) \cap Up(Under30m) = {}
  BY <1>0, <1>3
<1>8. /\ IsFiniteSet(Up(Under30m)) /\ Cardinality(Within(Under5m, Under30m)) \in Nat
      /\ Cardinality(Up(Under5m)) = Cardinality(Within(Under5m, Under30m)) + Cardinality(Up(Under30m))
  BY <1>6, <1>7, TwoParts
<1>9. Up(Under30m) = Within(Under30m, Under2h) \cup Up(Under2h) /\ Within(Under30m, Under2h) \cap Up(Under2h) = {}
  BY <1>0, <1>3
<1>10. /\ Cardinality(Up(Under2h)) \in Nat /\ Cardinality(Within(Under30m, Under2h)) \in Nat
       /\ Cardinality(Up(Under30m)) = Cardinality(Within(Under30m, Under2h)) + Cardinality(Up(Under2h))
  BY <1>8, <1>9, TwoParts
<1>11. Cardinality(V) = Cardinality(Within(0, Under5m)) + Cardinality(Within(Under5m, Under30m))
                          + Cardinality(Within(Under30m, Under2h)) + Cardinality(Up(Under2h))
  BY <1>4, <1>6, <1>8, <1>10
<1>. QED
  BY <1>2, <1>11
LEMMA DailyIs ==
  ASSUME InsightsInv
  PROVE  LET days == PlaybackDaily(WindowDays)
             since == PlaybackDailySince(WindowDays)
         IN  /\ DOMAIN days = DaysOf
             /\ MapThenSumSet(LAMBDA d : days[d].commands, DOMAIN days) = Cardinality(Rows("run", since))
             /\ MapThenSumSet(LAMBDA d : days[d].guesses, DOMAIN days) = Cardinality(Rows("guess", since))
             /\ MapThenSumSet(LAMBDA d : days[d].visits, DOMAIN days) = Cardinality(Visits(since))
<1>. DEFINE days == PlaybackDaily(WindowDays)
            since == PlaybackDailySince(WindowDays)
<1>1. /\ DOMAIN days = DaysOf
      /\ \A d \in DaysOf : /\ days[d].commands = OnDays(Rows("run", since))[d]
                           /\ days[d].guesses = OnDays(Rows("guess", since))[d]
                           /\ days[d].visits = VisitsOnDays(Visits(since))[d]
  BY DEF PlaybackDaily, DaysOf, FirstDay, OnDays, VisitsOnDays
<1>. HIDE DEF days
<1>2. /\ DOMAIN OnDays(Rows("run", since)) = DaysOf /\ DOMAIN OnDays(Rows("guess", since)) = DaysOf
      /\ DOMAIN VisitsOnDays(Visits(since)) = DaysOf
  BY DEF OnDays, VisitsOnDays
<1>3. MapThenSumSet(LAMBDA d : days[d].commands, DOMAIN days) = SumOver([d \in DOMAIN days |-> days[d].commands], DOMAIN days)
  BY DEF SumOver, MapThenSumSet, MapThenFoldSet
<1>4. MapThenSumSet(LAMBDA d : days[d].guesses, DOMAIN days) = SumOver([d \in DOMAIN days |-> days[d].guesses], DOMAIN days)
  BY DEF SumOver, MapThenSumSet, MapThenFoldSet
<1>5. MapThenSumSet(LAMBDA d : days[d].visits, DOMAIN days) = SumOver([d \in DOMAIN days |-> days[d].visits], DOMAIN days)
  BY DEF SumOver, MapThenSumSet, MapThenFoldSet
<1>6. [d \in DOMAIN days |-> days[d].commands] = OnDays(Rows("run", since))
  BY <1>1, <1>2 DEF OnDays
<1>7. [d \in DOMAIN days |-> days[d].guesses] = OnDays(Rows("guess", since))
  BY <1>1, <1>2 DEF OnDays
<1>8. [d \in DOMAIN days |-> days[d].visits] = VisitsOnDays(Visits(since))
  BY <1>1, <1>2 DEF VisitsOnDays
<1>9. /\ SumOver(OnDays(Rows("run", since)), DaysOf) = Cardinality(Rows("run", since))
      /\ SumOver(OnDays(Rows("guess", since)), DaysOf) = Cardinality(Rows("guess", since))
      /\ SumOver(VisitsOnDays(Visits(since)), DaysOf) = Cardinality(Visits(since))
  BY RowsByDay, VisitsByDay
<1>10. MapThenSumSet(LAMBDA d : days[d].commands, DOMAIN days) = Cardinality(Rows("run", since))
  BY <1>1, <1>3, <1>6, <1>9
<1>11. MapThenSumSet(LAMBDA d : days[d].guesses, DOMAIN days) = Cardinality(Rows("guess", since))
  BY <1>1, <1>4, <1>7, <1>9
<1>12. MapThenSumSet(LAMBDA d : days[d].visits, DOMAIN days) = Cardinality(Visits(since))
  BY <1>1, <1>5, <1>8, <1>9
<1>. QED
  BY <1>1, <1>10, <1>11, <1>12 DEF days

LEMMA AnswersFit ==
  ASSUME InsightsInv, NEW r \in Requests, request[r].step = "answered"
  PROVE  LET a == request[r] IN
         /\ a.to = "guesses" /\ a.kept => Total(a.states) >= a.total /\ a.right >= a.correct
         /\ a.to = "commands" /\ a.kept =>
              /\ Total(a.reasons) >= MapThenSumSet(LAMBDA c : a.usage[c].refusals, DOMAIN a.usage)
              /\ Unknown \in DOMAIN a.reasons => Total(a.typed) >= a.reasons[Unknown]
         /\ a.to = "footage" /\ a.kept /\ DOMAIN a.clips # {} => a.platforms # {}
         /\ a.to = "lifetime" => a.total >= a.floor
BY DEF InsightsInv, RequestsFine, RequestFine, AnswerFits, ReasonsCover, RefusedIn

LEMMA PartsAddUp ==
  ASSUME InsightsInv
  PROVE  AnswersAddUp
<1>. DEFINE since == PlaybackDailySince(WindowDays)
            days == PlaybackDaily(WindowDays)
            stats == SessionStats(Since(0))
            series == ViewerSeries(0)
<1>1. stats.under5m + stats.under30m + stats.under2h + stats.twoHoursUp = stats.sessions
  BY BucketsSplit
<1>2. Day(tick) \in DOMAIN days
  BY DailyIs, DaysAre DEF DaysOf
<1>3. MapThenSumSet(LAMBDA d : days[d].commands, DOMAIN days) = PlaybackStats(since).commands
  BY DailyIs DEF PlaybackStats
<1>4. MapThenSumSet(LAMBDA d : days[d].guesses, DOMAIN days) = PlaybackStats(since).guesses
  BY DailyIs DEF PlaybackStats
<1>5. MapThenSumSet(LAMBDA d : days[d].visits, DOMAIN days) = SessionStats(since).sessions
  BY DailyIs DEF SessionStats
<1>6. MapThenSumSet(LAMBDA b : series[b].chat, DOMAIN series) = Len(samples)
  BY SeriesAddsUp
<1>7. \A r \in Requests : request[r].step = "answered" => LET a == request[r] IN
         /\ a.to = "guesses" /\ a.kept => Total(a.states) >= a.total /\ a.right >= a.correct
         /\ a.to = "commands" /\ a.kept =>
              /\ Total(a.reasons) >= MapThenSumSet(LAMBDA c : a.usage[c].refusals, DOMAIN a.usage)
              /\ Unknown \in DOMAIN a.reasons => Total(a.typed) >= a.reasons[Unknown]
         /\ a.to = "footage" /\ a.kept /\ DOMAIN a.clips # {} => a.platforms # {}
  BY AnswersFit
<1>. HIDE DEF since, days, stats, series
<1>. QED
  BY <1>1, <1>2, <1>3, <1>4, <1>5, <1>6, <1>7 DEF AnswersAddUp, since, days, stats, series

LEMMA LifetimeGrows ==
  ASSUME InsightsInv
  PROVE  LifetimeOnlyGrows
BY AnswersFit DEF LifetimeOnlyGrows

\* The clock stops at the last hour.
LEMMA ClockStep ==
  ASSUME [InsightsNext]_insightsVars
  PROVE  tick' = tick \/ (tick < LastHour /\ tick' = tick + 1)
<1>1. CASE InsightsTick
  BY <1>1 DEF InsightsTick
<1>2. CASE VisitRows \/ CommandRows \/ GuessRows \/ AudienceRows \/ BotRows
  BY <1>2 DEF VisitRows, Arrives, Leaves, Crashes, CommandRows, RunsCommand, IsRefused, GuessRows,
              Guesses, AudienceRows, Switches, Sampled, BotRows, FlagsBot, Aside
<1>3. ASSUME NEW r \in Requests, GuessRequest(r) \/ CommandRequest(r) \/ FootageRequest(r)
                                 \/ LifetimeRequest(r) \/ QueryFails(r) \/ Replies(r)
      PROVE  tick' = tick
  <2>1. NoRow
    BY <1>3 DEF GuessRequest, AskGuesses, GuessStates, CommandRequest, AskCommands, RefusalReasons,
                UnknownCommands, FootageRequest, AskFootage, Sampling, LifetimeRequest, AskLifetime,
                EventKinds, KeepLifetime, QueryFails, Replies, Served
  <2>. QED
    BY <2>1 DEF NoRow
<1>4. CASE UNCHANGED insightsVars
  BY <1>4 DEF insightsVars
<1>. QED
  BY <1>1, <1>2, <1>3, <1>4 DEF InsightsNext

\* The tables, the cache and the clock keep their types (the rows of the events
\* table, lifetimeCache).
THEOREM InsightsTypeCorrect == InsightsSpec => []InsightsTypeOK
<1>1. InsightsInit => tick <= LastHour
  BY InsightsConstants DEF InsightsInit
<1>2. InsightsInv /\ tick <= LastHour /\ [InsightsNext]_insightsVars => (tick <= LastHour)'
  <2>1. SUFFICES ASSUME InsightsInv, tick <= LastHour, [InsightsNext]_insightsVars PROVE tick' <= LastHour
    OBVIOUS
  <2>2. tick \in Nat /\ LastHour \in Nat
    <3>1. LastHour \in Nat
      BY InsightsConstants
    <3>2. tick \in Nat
      BY <2>1 DEF InsightsInv, RowsTyped
    <3>. QED
      BY <3>1, <3>2
  <2>. QED
    BY <2>1, <2>2, ClockStep
<1>3. InsightsInv /\ tick <= LastHour => InsightsTypeOK
  <2>1. SUFFICES ASSUME InsightsInv, tick <= LastHour PROVE InsightsTypeOK
    OBVIOUS
  <2>2. \A i \in DOMAIN log : log[i].at \in 0 .. tick /\ log[i].who \in People
    <3>1. \A i \in DOMAIN log : log[i].at \in Nat /\ log[i].at <= tick /\ tick \in Nat
      BY <2>1, LoggedRow
    <3>3. \A i \in DOMAIN log : log[i] \in EventRow
      BY <2>1 DEF InsightsInv, RowsTyped
    <3>2. \A x \in EventRow : x.who \in People
      BY DEF EventRow
    <3>. QED
      BY <3>1, <3>2, <3>3
  <2>3. bots \subseteq People /\ cache.holder \in Requests \cup {Null} /\ told \in Nat
    BY <2>1 DEF InsightsInv, RowsTyped, CacheFine
  <2>4. tick \in 0 .. LastHour
    <3>1. LastHour \in Nat
      BY InsightsConstants
    <3>2. tick \in Nat
      BY <2>1 DEF InsightsInv, RowsTyped
    <3>. QED
      BY <2>1, <3>1, <3>2
  <2>. QED
    BY <2>2, <2>3, <2>4 DEF InsightsTypeOK
<1>4. InsightsSpec => [](tick <= LastHour)
  BY <1>1, <1>2, InsightsStand, PTL DEF InsightsSpec
<1>. QED
  BY <1>3, <1>4, InsightsStand, PTL

\* For any people, clips, windows and cache, what the answers tell fits together:
\* nobody is told more time than there was, parts add up to their wholes however
\* the queries of an answer interleave with what lands, and the lifetime total
\* never falls (insights.go, presence.go, stats.go).
THEOREM AnswersAlwaysFit == InsightsSpec => []AnswersFitTogether
<1>1. InsightsInv => AnswersFitTogether
  BY TimeFits, PartsAddUp, LifetimeGrows DEF AnswersFitTogether
<1>. QED
  BY <1>1, InsightsStand, PTL

=============================================================================
