------------------------------ MODULE AccessProofs ------------------------------
(***************************************************************************)
(* Proofs about Access, for any clients, tabs, limits and windows.         *)
(***************************************************************************)
EXTENDS Access, FiniteSetTheorems, TLAPS

TabState == [url : Url, status : Status, cookie : BOOLEAN, nr : 0 .. MaxTried]
Counts == [Limiter -> [Client -> SUBSET Attempts]]

AllFinite == \A l \in Limiter, c \in Client : IsFiniteSet(count[l][c])

\* The limiter forgets nothing it should still know, and knows nothing else.
Consistent == \A l \in Limiter, c \in Client : Recent(l, count[l][c]) = Recent(l, failures[l][c])

\* A login being checked has its number.
Numbered == \A t \in Tab : tab[t].status = "checking" => tab[t].nr \in 1 .. MaxTried

IInv == TypeOK /\ Numbered /\ AllFinite /\ Consistent /\ AttemptsBounded

-----------------------------------------------------------------------------
(* The parts of the steps *)

LEMMA GoingType ==
  ASSUME TypeOK, NEW t \in Tab, NEW url \in Url, NEW authed \in BOOLEAN
  PROVE  Going(t, url, authed) \in [Tab -> TabState]
BY LimiterAssumption DEF TypeOK, Going, TabState, Status, NoAttempt

LEMMA ShowingType ==
  ASSUME TypeOK, NEW t \in Tab, NEW url \in Url
  PROVE  Showing(t, url) \in [Tab -> TabState]
BY LimiterAssumption DEF TypeOK, Showing, AtPage, TabState, Status, NoAttempt

LEMMA WaitsType ==
  ASSUME TypeOK, NEW t \in Tab, NEW status \in Status, NEW n \in 0 .. MaxTried
  PROVE  Waits(t, status, n) \in [Tab -> TabState]
BY DEF TypeOK, Waits, TabState

LEMMA StatusType ==
  ASSUME TypeOK, NEW t \in Tab, NEW status \in Status
  PROVE  [tab EXCEPT ![t].status = status] \in [Tab -> TabState]
BY DEF TypeOK, TabState

LEMMA LocationType ==
  ASSUME NEW url, NEW authed PROVE Location(url, authed) \in Url
BY DEF Location, Url, Guarded

LEMMA PrunedType ==
  ASSUME TypeOK, NEW l \in Limiter, NEW c \in Client
  PROVE  Pruned(l, c) \in Counts
BY DEF TypeOK, Pruned, Recent, Counts

LEMMA OwnerType ==
  ASSUME TypeOK, NEW t \in Tab
  PROVE  owner[t] \in Client /\ HasCookie(t) \in BOOLEAN
BY ClientAssumption DEF TypeOK, HasCookie

LEMMA RecordType ==
  ASSUME TypeOK, NEW l \in Limiter, NEW c \in Client, NEW n \in 1 .. MaxTried,
         RecordFailure(l, c, n)
  PROVE  failures' \in Counts /\ count' \in Counts
<1>1. Attempt(n) \in Attempts
  BY DEF TypeOK, Attempt, Attempts
<1>2. Recent(l, failures[l][c]) \cup {Attempt(n)} \in SUBSET Attempts
  BY <1>1 DEF TypeOK, Recent
<1>3. count[l][c] \cup {Attempt(n)} \in SUBSET Attempts
  BY <1>1 DEF TypeOK
<1> QED
  BY <1>2, <1>3 DEF RecordFailure, TypeOK, Counts

LEMMA ResetType ==
  ASSUME TypeOK, NEW l \in Limiter, NEW c \in Client, Reset(l, c)
  PROVE  failures' \in Counts /\ count' \in Counts
BY DEF Reset, TypeOK, Counts

LEMMA TypeParts ==
  TypeOK <=> /\ now \in 0 .. MaxTime /\ tried \in 0 .. MaxTried
             /\ owner \in Owners
             /\ failures \in Counts /\ count \in Counts
             /\ tab \in [Tab -> TabState]
             /\ session \subseteq Client
             /\ mustChange \in BOOLEAN /\ passwordSet \in BOOLEAN
BY DEF TypeOK, Counts, TabState

-----------------------------------------------------------------------------
(* The type of the state *)

LEMMA TypeInit == Init => TypeOK
<1> SUFFICES ASSUME Init PROVE TypeOK
  OBVIOUS
<1>1. failures \in Counts /\ count \in Counts
  BY DEF Init, Counts
<1>2. tab \in [Tab -> TabState]
  BY LimiterAssumption DEF Init, AtPage, TabState, Url, Status, NoAttempt
<1> QED
  BY <1>1, <1>2, LimiterAssumption, TypeParts DEF Init

LEMMA TypeStep == TypeOK /\ Numbered /\ [Next]_vars => TypeOK'
<1> SUFFICES ASSUME TypeOK, Numbered, [Next]_vars
             PROVE  /\ now' \in 0 .. MaxTime /\ tried' \in 0 .. MaxTried
                    /\ owner' \in Owners
                    /\ failures' \in Counts /\ count' \in Counts
                    /\ tab' \in [Tab -> TabState]
                    /\ session' \subseteq Client
                    /\ mustChange' \in BOOLEAN /\ passwordSet' \in BOOLEAN
  BY DEF TypeOK, Counts, TabState
<1> USE TypeParts DEF db
<1>1. ASSUME NEW t \in Tab, NEW url \in Url, Open(t, url)
      PROVE  /\ tab' \in [Tab -> TabState]
             /\ UNCHANGED <<owner, now, failures, tried, session, db, count>>
  BY <1>1, GoingType, OwnerType DEF Open
<1>2. ASSUME NEW t \in Tab, Answer(t)
      PROVE  /\ tab' \in [Tab -> TabState]
             /\ UNCHANGED <<owner, now, failures, tried, session, db, count>>
  <2>1. tab[t].url \in Url /\ tab[t].cookie \in BOOLEAN
    BY DEF TabState
  <2>2. Location(tab[t].url, tab[t].cookie) \in Url
    BY LocationType
  <2>3. ApiAnswer(tab[t].cookie) \in Url
    BY DEF ApiAnswer, Url
  <2> QED
    BY <1>2, <2>1, <2>2, <2>3, GoingType, ShowingType, OwnerType DEF Answer
<1>3. ASSUME NEW t \in Tab, LoginRefused(t) \/ ResetRefused(t)
      PROVE  tab' \in [Tab -> TabState] /\ failures' \in Counts
             /\ UNCHANGED <<owner, now, tried, session, db, count>>
  <2>1. Throttled(t) \in [Tab -> TabState]
    BY StatusType DEF Throttled, Status
  <2>2. CASE LoginRefused(t)
    BY <2>1, <2>2, PrunedType, OwnerType DEF LoginRefused, Limiter
  <2>3. CASE ResetRefused(t)
    BY <2>1, <2>3, PrunedType, OwnerType DEF ResetRefused, Limiter
  <2> QED
    BY <1>3, <2>2, <2>3
<1>4. ASSUME NEW t \in Tab, LoginStart(t)
      PROVE  /\ tab' \in [Tab -> TabState] /\ failures' \in Counts /\ tried' \in 1 .. MaxTried
             /\ UNCHANGED <<owner, now, session, db, count>>
  <2>1. tried' \in 1 .. MaxTried
    BY <1>4, LimiterAssumption DEF LoginStart
  <2> QED
    BY <1>4, <2>1, WaitsType, PrunedType, OwnerType, LimiterAssumption
       DEF LoginStart, Status, Limiter
<1>5. ASSUME NEW t \in Tab, LoginSucceeds(t)
      PROVE  /\ tab' \in [Tab -> TabState] /\ failures' \in Counts /\ count' \in Counts
             /\ session' \subseteq Client /\ UNCHANGED <<owner, now, tried, db>>
  BY <1>5, GoingType, ResetType, OwnerType DEF LoginSucceeds, Limiter, Url, Guarded
<1>6. ASSUME NEW t \in Tab, LoginFails(t)
      PROVE  /\ tab' \in [Tab -> TabState] /\ failures' \in Counts /\ count' \in Counts
             /\ UNCHANGED <<owner, now, tried, session, db>>
  BY <1>6, ShowingType, RecordType, OwnerType DEF LoginFails, Limiter, Url, Numbered
<1>7. ASSUME NEW t \in Tab, Logout(t)
      PROVE  /\ tab' \in [Tab -> TabState] /\ session' \subseteq Client
             /\ UNCHANGED <<owner, now, failures, tried, db, count>>
  <2>1. Location(tab[t].url, FALSE) \in Url
    BY LocationType
  <2>2. Going(t, Location(tab[t].url, FALSE), FALSE) \in [Tab -> TabState]
    BY <2>1, GoingType
  <2>3. Going(t, "login", FALSE) \in [Tab -> TabState]
    BY GoingType DEF Url
  <2> QED
    BY <1>7, <2>2, <2>3 DEF Logout
<1>8. ASSUME NEW t \in Tab, ResetStart(t)
      PROVE  /\ tab' \in [Tab -> TabState] /\ failures' \in Counts /\ count' \in Counts
             /\ tried' \in 1 .. MaxTried /\ UNCHANGED <<owner, now, session, db>>
  <2>1. tried' \in 1 .. MaxTried
    BY <1>8, LimiterAssumption DEF ResetStart
  <2>2. failures' \in Counts /\ count' \in Counts
    BY <1>8, <2>1, RecordType, OwnerType DEF ResetStart, Limiter
  <2>3. tab' \in [Tab -> TabState]
    BY <1>8, <2>1, WaitsType, LimiterAssumption DEF ResetStart, Status
  <2> QED
    BY <1>8, <2>1, <2>2, <2>3 DEF ResetStart
<1>9. ASSUME NEW t \in Tab, ResetEnds(t) \/ ChangeEnds(t)
      PROVE  /\ tab' \in [Tab -> TabState] /\ mustChange' \in BOOLEAN /\ passwordSet' \in BOOLEAN
             /\ UNCHANGED <<owner, now, failures, tried, session, count>>
  <2>1. \A url \in Url : Going(t, url, HasCookie(t)) \in [Tab -> TabState]
    BY GoingType, OwnerType
  <2>2. \A url \in Url : Showing(t, url) \in [Tab -> TabState]
    BY ShowingType
  <2>3. CASE ResetEnds(t)
    BY <2>1, <2>2, <2>3 DEF ResetEnds, Url
  <2>4. CASE ChangeEnds(t)
    BY <2>1, <2>2, <2>4 DEF ChangeEnds, Url, Guarded
  <2> QED
    BY <1>9, <2>3, <2>4
<1>10. ASSUME NEW t \in Tab, ChangeStart(t) \/ SetupStart(t)
       PROVE  /\ tab' \in [Tab -> TabState]
              /\ UNCHANGED <<owner, now, failures, tried, session, db, count>>
  <2>1. \A url : Location(url, FALSE) \in Url
    BY LocationType
  <2>2. \A url \in Url, authed \in BOOLEAN : Going(t, url, authed) \in [Tab -> TabState]
    BY GoingType
  <2>3. HasCookie(t) \in BOOLEAN
    BY OwnerType
  <2>4. \A status \in Status : [tab EXCEPT ![t].status = status] \in [Tab -> TabState]
    BY StatusType
  <2>5. CASE ChangeStart(t)
    BY <2>1, <2>2, <2>4, <2>5 DEF ChangeStart, Status
  <2>6. CASE SetupStart(t)
    BY <2>1, <2>2, <2>3, <2>4, <2>6 DEF SetupStart, Status
  <2> QED
    BY <1>10, <2>5, <2>6
<1>11. ASSUME NEW t \in Tab, SetupEnds(t)
       PROVE  /\ tab' \in [Tab -> TabState] /\ session' \subseteq Client /\ passwordSet' = TRUE
              /\ UNCHANGED <<owner, now, failures, tried, mustChange, count>>
  BY <1>11, GoingType, OwnerType DEF SetupEnds, Url, Guarded
<1>12. CASE Tick
  BY <1>12, LimiterAssumption DEF Tick
<1>13. CASE Restart
  <2>1. failures' \in Counts /\ count' \in Counts
    BY <1>13 DEF Restart, Counts
  <2>2. \A t \in Tab : AtPage(tab[t].url, "shown") \in TabState
    BY LimiterAssumption DEF AtPage, TabState, Status, NoAttempt
  <2>3. tab' \in [Tab -> TabState]
    BY <1>13, <2>2 DEF Restart
  <2> QED
    BY <1>13, <2>1, <2>3 DEF Restart
<1>14. CASE UNCHANGED vars
  BY <1>14 DEF vars
<1>15. ASSUME NEW t \in Tab, \/ \E url \in Url : Open(t, url)
                             \/ Answer(t) \/ Posts(t) \/ Ends(t)
       PROVE  /\ now' \in 0 .. MaxTime /\ tried' \in 0 .. MaxTried
              /\ owner' \in Owners
              /\ failures' \in Counts /\ count' \in Counts
              /\ tab' \in [Tab -> TabState]
              /\ session' \subseteq Client
              /\ mustChange' \in BOOLEAN /\ passwordSet' \in BOOLEAN
  <2>1. CASE \E url \in Url : Open(t, url)
    BY <2>1, <1>1
  <2>2. CASE Answer(t)
    BY <2>2, <1>2
  <2>3. CASE LoginRefused(t) \/ ResetRefused(t)
    BY <2>3, <1>3
  <2>4. CASE LoginStart(t) \/ ResetStart(t)
    BY <2>4, <1>4, <1>8
  <2>5. CASE LoginSucceeds(t) \/ LoginFails(t)
    BY <2>5, <1>5, <1>6
  <2>6. CASE Logout(t)
    BY <2>6, <1>7
  <2>7. CASE ResetEnds(t) \/ ChangeEnds(t)
    BY <2>7, <1>9
  <2>8. CASE ChangeStart(t) \/ SetupStart(t) \/ SetupEnds(t)
    BY <2>8, <1>10, <1>11
  <2> QED
    BY <1>15, <2>1, <2>2, <2>3, <2>4, <2>5, <2>6, <2>7, <2>8 DEF Posts, Ends
<1>16. CASE \E t \in Tab : \/ \E url \in Url : Open(t, url)
                           \/ Answer(t) \/ Posts(t) \/ Ends(t)
  BY <1>15, <1>16
<1> QED
  BY <1>12, <1>13, <1>14, <1>16 DEF Next

-----------------------------------------------------------------------------
(* What the steps do to the counts and to the checks under way *)

\* No attempt is counted, forgotten or grows old.
SameCounts ==
  /\ now' = now /\ owner' = owner /\ count' = count
  /\ \A l \in Limiter, c \in Client : Recent(l, failures[l][c])' = Recent(l, failures[l][c])

\* No check begins.
FewerChecks == \A t \in Tab : tab'[t].status = "checking" =>
                 tab[t].status = "checking" /\ tab'[t].nr = tab[t].nr

\* No check begins and nobody is refused.
Fresh == \A t \in Tab : tab'[t].status \in {"checking", "throttled"} =>
           tab[t].status = tab'[t].status /\ tab'[t].nr = tab[t].nr

LEMMA PrunedCounts ==
  ASSUME TypeOK, NEW l \in Limiter, NEW c \in Client, failures' = Pruned(l, c),
         UNCHANGED <<now, owner, count>>
  PROVE  SameCounts
<1> SUFFICES ASSUME NEW k \in Limiter, NEW d \in Client
             PROVE  Recent(k, failures[k][d])' = Recent(k, failures[k][d])
  BY DEF SameCounts
<1>1. failures'[k][d] = IF k = l /\ d = c THEN Recent(l, failures[l][c]) ELSE failures[k][d]
  BY DEF Pruned, TypeOK
<1> QED
  BY <1>1 DEF Recent

LEMMA FreshTab ==
  ASSUME TypeOK, NEW t \in Tab, NEW state, state.status \notin {"checking", "throttled"},
         tab' = [tab EXCEPT ![t] = state]
  PROVE  Fresh
BY DEF Fresh, TypeOK

LEMMA GoingFresh ==
  ASSUME TypeOK, NEW t \in Tab, NEW url, NEW authed, tab' = Going(t, url, authed)
  PROVE  Fresh
BY FreshTab DEF Going

LEMMA ShowingFresh ==
  ASSUME TypeOK, NEW t \in Tab, NEW url, tab' = Showing(t, url)
  PROVE  Fresh
<1>1. AtPage(url, "shown").status = "shown"
  BY DEF AtPage
<1> QED
  BY <1>1, FreshTab DEF Showing

LEMMA QuietTab ==
  ASSUME TypeOK, NEW t \in Tab,
         \/ \E url \in Url : Open(t, url)
         \/ Answer(t) \/ Logout(t) \/ ChangeStart(t) \/ SetupStart(t)
         \/ ResetEnds(t) \/ ChangeEnds(t) \/ SetupEnds(t)
  PROVE  Fresh /\ UNCHANGED <<now, owner, failures, count>>
<1>1. CASE \E url \in Url : Open(t, url)
  BY <1>1, GoingFresh DEF Open
<1>2. CASE Answer(t)
  BY <1>2, GoingFresh, ShowingFresh DEF Answer
<1>3. CASE Logout(t)
  BY <1>3, GoingFresh DEF Logout
<1>4. CASE ChangeStart(t)
  <2>1. tab' = [tab EXCEPT ![t].status = "changing"] => Fresh
    BY DEF Fresh, TypeOK
  <2> QED
    BY <1>4, <2>1, GoingFresh DEF ChangeStart
<1>5. CASE SetupStart(t)
  <2>1. tab' = [tab EXCEPT ![t].status = "setting"] => Fresh
    BY DEF Fresh, TypeOK
  <2> QED
    BY <1>5, <2>1, GoingFresh DEF SetupStart
<1>6. CASE ResetEnds(t)
  BY <1>6, GoingFresh, ShowingFresh DEF ResetEnds
<1>7. CASE ChangeEnds(t)
  BY <1>7, GoingFresh, ShowingFresh DEF ChangeEnds
<1>8. CASE SetupEnds(t)
  BY <1>8, GoingFresh DEF SetupEnds
<1> QED
  BY <1>1, <1>2, <1>3, <1>4, <1>5, <1>6, <1>7, <1>8

\* Every step is one that counts nothing, or one of these six.
LEMMA StepKinds ==
  ASSUME TypeOK, [Next]_vars
  PROVE  \/ SameCounts /\ FewerChecks
         \/ \E t \in Tab : LoginStart(t) \/ LoginSucceeds(t) \/ LoginFails(t) \/ ResetStart(t)
         \/ Tick \/ Restart
<1>1. ASSUME UNCHANGED <<now, owner, failures, count>> PROVE SameCounts
  BY <1>1 DEF SameCounts, Recent
<1>2. ASSUME NEW t \in Tab, LoginRefused(t) \/ ResetRefused(t)
      PROVE  SameCounts /\ FewerChecks
  <2>1. FewerChecks
    BY <1>2 DEF LoginRefused, ResetRefused, Throttled, FewerChecks, TypeOK
  <2> QED
    BY <1>2, <2>1, PrunedCounts, OwnerType DEF LoginRefused, ResetRefused, Limiter
<1>3. ASSUME UNCHANGED vars PROVE SameCounts /\ FewerChecks
  BY <1>1, <1>3 DEF vars, FewerChecks
<1>4. CASE Tick \/ Restart
  BY <1>4
<1>5. ASSUME NEW t \in Tab, \/ \E url \in Url : Open(t, url)
                            \/ Answer(t) \/ Posts(t) \/ Ends(t)
      PROVE  \/ SameCounts /\ FewerChecks
             \/ LoginStart(t) \/ LoginSucceeds(t) \/ LoginFails(t) \/ ResetStart(t)
  <2>1. Fresh => FewerChecks
    BY DEF Fresh, FewerChecks
  <2> QED
    BY <1>1, <1>2, <1>5, <2>1, QuietTab DEF Posts, Ends
<1> QED
  BY <1>3, <1>4, <1>5 DEF Next

LEMMA RecordedCounts ==
  ASSUME TypeOK, NEW l \in Limiter, NEW c \in Client, NEW n, RecordFailure(l, c, n)
  PROVE  \A k \in Limiter, d \in Client :
           IF k = l /\ d = c
           THEN /\ count'[k][d] = count[k][d] \cup {Attempt(n)}
                /\ failures'[k][d] = Recent(l, failures[k][d]) \cup {Attempt(n)}
           ELSE count'[k][d] = count[k][d] /\ failures'[k][d] = failures[k][d]
BY DEF RecordFailure, TypeOK

LEMMA ResetCounts ==
  ASSUME TypeOK, NEW l \in Limiter, NEW c \in Client, Reset(l, c)
  PROVE  \A k \in Limiter, d \in Client :
           IF k = l /\ d = c
           THEN count'[k][d] = {} /\ failures'[k][d] = {}
           ELSE count'[k][d] = count[k][d] /\ failures'[k][d] = failures[k][d]
BY DEF Reset, TypeOK

LEMMA LoginStarts ==
  ASSUME TypeOK, NEW t \in Tab, LoginStart(t)
  PROVE  SameCounts
BY PrunedCounts, OwnerType DEF LoginStart, Limiter

-----------------------------------------------------------------------------
(* The parts of the invariant *)

LEMMA NumberedStep == TypeOK /\ Numbered /\ [Next]_vars => Numbered'
<1> SUFFICES ASSUME TypeOK, Numbered, [Next]_vars PROVE Numbered'
  OBVIOUS
<1>1. ASSUME FewerChecks PROVE Numbered'
  BY <1>1 DEF Numbered, FewerChecks
<1>2. ASSUME NEW t \in Tab, LoginStart(t) PROVE Numbered'
  <2>1. tried' \in 1 .. MaxTried
    BY <1>2, LimiterAssumption DEF LoginStart, TypeOK
  <2>2. \A u \in Tab \ {t} : tab'[u] = tab[u]
    BY <1>2 DEF LoginStart, Waits, TypeOK
  <2>3. tab'[t].nr = tried'
    BY <1>2 DEF LoginStart, Waits, TypeOK
  <2> QED
    BY <2>1, <2>2, <2>3 DEF Numbered
<1>3. ASSUME NEW t \in Tab, LoginSucceeds(t) PROVE FewerChecks
  BY <1>3, GoingFresh DEF LoginSucceeds, Fresh, FewerChecks
<1>4. ASSUME NEW t \in Tab, LoginFails(t) PROVE FewerChecks
  BY <1>4, ShowingFresh DEF LoginFails, Fresh, FewerChecks
<1>5. ASSUME NEW t \in Tab, ResetStart(t) PROVE FewerChecks
  BY <1>5 DEF ResetStart, Waits, FewerChecks, TypeOK
<1>6. ASSUME Tick \/ Restart PROVE FewerChecks
  BY <1>6 DEF Tick, Restart, AtPage, AtRest, FewerChecks, TypeOK
<1> QED
  BY StepKinds, <1>1, <1>2, <1>3, <1>4, <1>5, <1>6

LEMMA FiniteStep == TypeOK /\ AllFinite /\ [Next]_vars => AllFinite'
<1> SUFFICES ASSUME TypeOK, AllFinite, [Next]_vars PROVE AllFinite'
  OBVIOUS
<1>1. CASE count' = count
  BY <1>1 DEF AllFinite
<1>2. ASSUME NEW l \in Limiter, NEW c \in Client, NEW n, RecordFailure(l, c, n)
      PROVE  AllFinite'
  <2>1. \A k \in Limiter, d \in Client :
          count'[k][d] \in {count[k][d], count[k][d] \cup {Attempt(n)}}
    BY <1>2, RecordedCounts
  <2>2. \A k \in Limiter, d \in Client : IsFiniteSet(count[k][d] \cup {Attempt(n)})
    BY FS_AddElement DEF AllFinite
  <2> QED
    BY <2>1, <2>2 DEF AllFinite
<1>3. ASSUME NEW l \in Limiter, NEW c \in Client, Reset(l, c)
      PROVE  AllFinite'
  <2>1. \A k \in Limiter, d \in Client : count'[k][d] \in {count[k][d], {}}
    BY <1>3, ResetCounts
  <2> QED
    BY <2>1, FS_EmptySet DEF AllFinite
<1>4. ASSUME Restart PROVE AllFinite'
  BY <1>4, FS_EmptySet DEF Restart, AllFinite
<1> QED
  BY StepKinds, <1>1, <1>2, <1>3, <1>4, OwnerType
     DEF SameCounts, LoginStart, LoginSucceeds, LoginFails, ResetStart, Tick, Limiter

LEMMA ConsistentStep == TypeOK /\ Consistent /\ [Next]_vars => Consistent'
<1> SUFFICES ASSUME TypeOK, Consistent, [Next]_vars PROVE Consistent'
  OBVIOUS
<1>1. CASE SameCounts
  BY <1>1 DEF SameCounts, Consistent, Recent
<1>2. ASSUME NEW l \in Limiter, NEW c \in Client, NEW n, RecordFailure(l, c, n), now' = now
      PROVE  Consistent'
  <2> SUFFICES ASSUME NEW k \in Limiter, NEW d \in Client
               PROVE  Recent(k, count[k][d])' = Recent(k, failures[k][d])'
    BY DEF Consistent
  <2>1. Recent(k, count[k][d]) = Recent(k, failures[k][d])
    BY DEF Consistent
  <2>2. CASE k = l /\ d = c
    <3>1. count'[k][d] = count[k][d] \cup {Attempt(n)}
      BY <1>2, <2>2, RecordedCounts
    <3>2. failures'[k][d] = Recent(k, failures[k][d]) \cup {Attempt(n)}
      BY <1>2, <2>2, RecordedCounts
    <3> QED
      BY <1>2, <2>1, <3>1, <3>2 DEF Recent
  <2>3. CASE ~(k = l /\ d = c)
    BY <1>2, <2>1, <2>3, RecordedCounts DEF Recent
  <2> QED
    BY <2>2, <2>3
<1>3. ASSUME NEW l \in Limiter, NEW c \in Client, Reset(l, c), now' = now
      PROVE  Consistent'
  BY <1>3, ResetCounts DEF Consistent, Recent
<1>4. ASSUME Tick PROVE Consistent'
  <2> SUFFICES ASSUME NEW l \in Limiter, NEW c \in Client
               PROVE  Recent(l, count[l][c])' = Recent(l, failures[l][c])'
    BY DEF Consistent
  <2>1. Recent(l, count[l][c]) = Recent(l, failures[l][c])
    BY DEF Consistent
  <2>2. \A a \in Attempts : a.at + Window[l] > now' => a.at + Window[l] > now
    BY <1>4, LimiterAssumption DEF Tick, TypeOK, Attempts
  <2>3. count[l][c] \subseteq Attempts /\ failures[l][c] \subseteq Attempts
    BY DEF TypeOK
  <2> QED
    BY <1>4, <2>1, <2>2, <2>3 DEF Tick, Recent
<1>5. ASSUME Restart PROVE Consistent'
  BY <1>5 DEF Restart, Consistent, Recent
<1> QED
  BY StepKinds, <1>1, <1>2, <1>3, <1>4, <1>5, OwnerType, LoginStarts
     DEF LoginSucceeds, LoginFails, ResetStart, Limiter

-----------------------------------------------------------------------------
(* The bounds *)

ResetsBounded(c) == Cardinality(Recent("reset", count["reset"][c])) <= Max["reset"]
LoginsBounded(c) == Cardinality(Recent("login", count["login"][c])) + Cardinality(Checking(c))
                      <= Max["login"] - 1 + Cardinality(TabsOf(c))

LEMMA RecentFinite ==
  ASSUME AllFinite, NEW l \in Limiter, NEW c \in Client
  PROVE  /\ IsFiniteSet(Recent(l, count[l][c]))
         /\ Cardinality(Recent(l, count[l][c])) \in Nat
<1>1. Recent(l, count[l][c]) \in SUBSET count[l][c]
  BY DEF Recent
<1> QED
  BY <1>1, FS_Subset, FS_CardinalityType DEF AllFinite

LEMMA TabsFinite ==
  ASSUME NEW c
  PROVE  /\ IsFiniteSet(TabsOf(c)) /\ IsFiniteSet(Checking(c))
         /\ Cardinality(TabsOf(c)) \in Nat /\ Cardinality(Checking(c)) \in Nat
         /\ Cardinality(Checking(c)) <= Cardinality(TabsOf(c))
<1>1. TabsOf(c) \in SUBSET Tab /\ Checking(c) \in SUBSET TabsOf(c)
  BY DEF TabsOf, Checking
<1>2. IsFiniteSet(TabsOf(c))
  BY <1>1, ClientAssumption, FS_Subset
<1>3. IsFiniteSet(Checking(c)) /\ Cardinality(Checking(c)) <= Cardinality(TabsOf(c))
  BY <1>1, <1>2, FS_Subset
<1> QED
  BY <1>2, <1>3, FS_CardinalityType

\* Fewer attempts and fewer checks keep the bounds.
LEMMA Shrinking ==
  ASSUME AllFinite, owner' = owner, NEW c \in Client, ResetsBounded(c), LoginsBounded(c),
         \A l \in Limiter : Recent(l, count[l][c])' \subseteq Recent(l, count[l][c]),
         Checking(c)' \subseteq Checking(c)
  PROVE  ResetsBounded(c)' /\ LoginsBounded(c)'
<1>1. \A l \in Limiter :
        /\ Cardinality(Recent(l, count[l][c])') \in Nat
        /\ Cardinality(Recent(l, count[l][c])') <= Cardinality(Recent(l, count[l][c]))
  <2> SUFFICES ASSUME NEW l \in Limiter
               PROVE  /\ Cardinality(Recent(l, count[l][c])') \in Nat
                      /\ Cardinality(Recent(l, count[l][c])') <= Cardinality(Recent(l, count[l][c]))
    OBVIOUS
  <2>1. IsFiniteSet(Recent(l, count[l][c]))
    BY RecentFinite
  <2>2. Recent(l, count[l][c])' \in SUBSET Recent(l, count[l][c])
    OBVIOUS
  <2> QED
    BY <2>1, <2>2, FS_Subset, FS_CardinalityType
<1>2. /\ Cardinality(Checking(c)') \in Nat
      /\ Cardinality(Checking(c)') <= Cardinality(Checking(c))
  BY TabsFinite, FS_Subset, FS_CardinalityType
<1>3. Cardinality(TabsOf(c)') = Cardinality(TabsOf(c))
  BY DEF TabsOf
<1>4. \A l \in Limiter : Cardinality(Recent(l, count[l][c])) \in Nat
  BY RecentFinite
<1>5. Cardinality(TabsOf(c)) \in Nat /\ Cardinality(Checking(c)) \in Nat
  BY TabsFinite
<1>6. Max["reset"] \in Nat /\ Max["login"] \in Nat /\ "reset" \in Limiter /\ "login" \in Limiter
  BY LimiterAssumption DEF Limiter
<1>7. ResetsBounded(c)'
  BY <1>1, <1>4, <1>6 DEF ResetsBounded
<1>8. LoginsBounded(c)'
  BY <1>1, <1>2, <1>3, <1>4, <1>5, <1>6 DEF LoginsBounded
<1> QED
  BY <1>7, <1>8

LEMMA CheckingShrinks ==
  ASSUME TypeOK, FewerChecks, owner' = owner, NEW c
  PROVE  Checking(c)' \subseteq Checking(c)
BY DEF Checking, FewerChecks

\* What the limiter allows has fewer than the maximum of attempts in the last window.
LEMMA AllowedMeans ==
  ASSUME Consistent, NEW l \in Limiter, NEW c \in Client, Allowed(l, c)
  PROVE  Cardinality(Recent(l, count[l][c])) < Max[l]
BY DEF Allowed, Consistent

\* An attempt is one more, at most.
LEMMA OneMore ==
  ASSUME TypeOK, AllFinite, NEW l \in Limiter, NEW c \in Client, NEW n,
         RecordFailure(l, c, n), now' = now
  PROVE  /\ Cardinality(Recent(l, count[l][c])') \in Nat
         /\ Cardinality(Recent(l, count[l][c])') <= Cardinality(Recent(l, count[l][c])) + 1
<1>1. count'[l][c] = count[l][c] \cup {Attempt(n)}
  BY RecordedCounts
<1>2. Recent(l, count[l][c])' \in SUBSET (Recent(l, count[l][c]) \cup {Attempt(n)})
  BY <1>1 DEF Recent
<1>3. IsFiniteSet(Recent(l, count[l][c]) \cup {Attempt(n)})
  BY RecentFinite, FS_AddElement
<1>4. Cardinality(Recent(l, count[l][c]) \cup {Attempt(n)}) \in Nat
  BY <1>3, FS_CardinalityType
<1>5. Cardinality(Recent(l, count[l][c]) \cup {Attempt(n)})
        <= Cardinality(Recent(l, count[l][c])) + 1
  <2>1. IsFiniteSet(Recent(l, count[l][c])) /\ Cardinality(Recent(l, count[l][c])) \in Nat
    BY RecentFinite
  <2>2. Cardinality(Recent(l, count[l][c]) \cup {Attempt(n)})
          = IF Attempt(n) \in Recent(l, count[l][c]) THEN Cardinality(Recent(l, count[l][c]))
            ELSE Cardinality(Recent(l, count[l][c])) + 1
    BY <2>1, FS_AddElement
  <2> QED
    BY <2>1, <2>2
<1>6. /\ IsFiniteSet(Recent(l, count[l][c])')
      /\ Cardinality(Recent(l, count[l][c])')
           <= Cardinality(Recent(l, count[l][c]) \cup {Attempt(n)})
  BY <1>2, <1>3, FS_Subset
<1>7. Cardinality(Recent(l, count[l][c])') \in Nat
  BY <1>6, FS_CardinalityType
<1> QED
  BY <1>4, <1>5, <1>6, <1>7, RecentFinite

LEMMA BoundedStep == IInv /\ [Next]_vars => AttemptsBounded'
<1> SUFFICES ASSUME IInv, [Next]_vars, NEW c \in Client
             PROVE  ResetsBounded(c)' /\ LoginsBounded(c)'
  BY DEF AttemptsBounded, ResetsBounded, LoginsBounded
<1> USE DEF IInv
<1>0. ResetsBounded(c) /\ LoginsBounded(c)
  BY DEF AttemptsBounded, ResetsBounded, LoginsBounded
<1>a. /\ "reset" \in Limiter /\ "login" \in Limiter
      /\ Max["reset"] \in Nat /\ Max["login"] \in Nat
  BY LimiterAssumption DEF Limiter
<1>b. ASSUME owner' = owner PROVE TabsOf(c)' = TabsOf(c)
  BY <1>b DEF TabsOf
<1>1. CASE SameCounts /\ FewerChecks
  <2>1. \A l \in Limiter : Recent(l, count[l][c])' \subseteq Recent(l, count[l][c])
    BY <1>1 DEF SameCounts, Recent
  <2> QED
    BY <1>0, <1>1, <2>1, Shrinking, CheckingShrinks DEF SameCounts
<1>2. ASSUME NEW t \in Tab, LoginStart(t)
      PROVE  ResetsBounded(c)' /\ LoginsBounded(c)'
  <2>1. SameCounts
    BY <1>2, LoginStarts
  <2>2. \A l \in Limiter : Recent(l, count[l][c])' = Recent(l, count[l][c])
    BY <2>1 DEF SameCounts, Recent
  <2>3. CASE owner[t] # c
    <3>1. Checking(c)' \subseteq Checking(c)
      BY <1>2, <2>1, <2>3 DEF LoginStart, Waits, Checking, SameCounts, TypeOK
    <3> QED
      BY <1>0, <2>1, <2>2, <3>1, Shrinking DEF SameCounts
  <2>4. CASE owner[t] = c
    <3>1. Cardinality(Recent("login", count["login"][c])) < Max["login"]
      BY <1>2, <1>a, <2>4, AllowedMeans DEF LoginStart
    <3>2. Checking(c)' \in SUBSET TabsOf(c)
      BY <2>1 DEF Checking, TabsOf, SameCounts
    <3>3. /\ Cardinality(Checking(c)') <= Cardinality(TabsOf(c))
          /\ Cardinality(Checking(c)') \in Nat
      BY <3>2, TabsFinite, FS_Subset, FS_CardinalityType
    <3>4. TabsOf(c)' = TabsOf(c)
      BY <1>b, <2>1 DEF SameCounts
    <3>5. LoginsBounded(c)'
      BY <1>a, <2>2, <3>1, <3>3, <3>4, RecentFinite, TabsFinite DEF LoginsBounded
    <3>6. ResetsBounded(c)'
      BY <1>0, <1>a, <2>2 DEF ResetsBounded
    <3> QED
      BY <3>5, <3>6
  <2> QED
    BY <2>3, <2>4
<1>3. ASSUME NEW t \in Tab, LoginSucceeds(t)
      PROVE  ResetsBounded(c)' /\ LoginsBounded(c)'
  <2>1. FewerChecks
    BY <1>3, GoingFresh DEF LoginSucceeds, Fresh, FewerChecks
  <2>2. \A l \in Limiter : Recent(l, count[l][c])' \subseteq Recent(l, count[l][c])
    BY <1>3, <1>a, ResetCounts, OwnerType DEF LoginSucceeds, Recent
  <2> QED
    BY <1>0, <1>3, <2>1, <2>2, Shrinking, CheckingShrinks DEF LoginSucceeds
<1>4. ASSUME NEW t \in Tab, LoginFails(t)
      PROVE  ResetsBounded(c)' /\ LoginsBounded(c)'
  <2>0. owner' = owner /\ now' = now /\ owner[t] \in Client
    BY <1>4, OwnerType DEF LoginFails
  <2>1. FewerChecks
    BY <1>4, ShowingFresh DEF LoginFails, Fresh, FewerChecks
  <2>2. \A l \in Limiter : l # "login" \/ owner[t] # c =>
          Recent(l, count[l][c])' = Recent(l, count[l][c])
    BY <1>4, <1>a, <2>0, RecordedCounts DEF LoginFails, Recent
  <2>3. CASE owner[t] # c
    BY <1>0, <2>0, <2>1, <2>2, <2>3, Shrinking, CheckingShrinks
  <2>4. CASE owner[t] = c
    <3>1. Checking(c)' \in SUBSET (Checking(c) \ {t}) /\ t \in Checking(c)
      BY <1>4, <2>0, <2>1, <2>4
         DEF LoginFails, Checking, FewerChecks, Showing, AtPage, TypeOK
    <3>2. /\ IsFiniteSet(Checking(c) \ {t})
          /\ Cardinality(Checking(c) \ {t}) = Cardinality(Checking(c)) - 1
      BY <3>1, TabsFinite, FS_RemoveElement
    <3>3. /\ Cardinality(Checking(c)') \in Nat
          /\ Cardinality(Checking(c)') <= Cardinality(Checking(c)) - 1
      BY <3>1, <3>2, FS_Subset, FS_CardinalityType
    <3>4. /\ Cardinality(Recent("login", count["login"][c])') \in Nat
          /\ Cardinality(Recent("login", count["login"][c])')
               <= Cardinality(Recent("login", count["login"][c])) + 1
      BY <1>4, <1>a, <2>0, <2>4, OneMore DEF LoginFails
    <3>5. Cardinality(TabsOf(c)') = Cardinality(TabsOf(c))
      BY <1>b, <2>0
    <3>6. LoginsBounded(c)'
      BY <1>0, <1>a, <3>3, <3>4, <3>5, RecentFinite, TabsFinite DEF LoginsBounded
    <3>7. ResetsBounded(c)'
      BY <1>0, <1>a, <2>2 DEF ResetsBounded
    <3> QED
      BY <3>6, <3>7
  <2> QED
    BY <2>3, <2>4
<1>5. ASSUME NEW t \in Tab, ResetStart(t)
      PROVE  ResetsBounded(c)' /\ LoginsBounded(c)'
  <2>0. owner' = owner /\ now' = now /\ owner[t] \in Client
    BY <1>5, OwnerType DEF ResetStart
  <2>1. FewerChecks
    BY <1>5 DEF ResetStart, Waits, FewerChecks, TypeOK
  <2>2. \A l \in Limiter : l # "reset" \/ owner[t] # c =>
          Recent(l, count[l][c])' = Recent(l, count[l][c])
    BY <1>5, <1>a, <2>0, RecordedCounts DEF ResetStart, Recent
  <2>3. CASE owner[t] # c
    BY <1>0, <2>0, <2>1, <2>2, <2>3, Shrinking, CheckingShrinks
  <2>4. CASE owner[t] = c
    <3>1. Cardinality(Recent("reset", count["reset"][c])) < Max["reset"]
      BY <1>5, <1>a, <2>4, AllowedMeans DEF ResetStart
    <3>2. /\ Cardinality(Recent("reset", count["reset"][c])') \in Nat
          /\ Cardinality(Recent("reset", count["reset"][c])')
               <= Cardinality(Recent("reset", count["reset"][c])) + 1
      BY <1>5, <1>a, <2>0, <2>4, OneMore DEF ResetStart
    <3>3. ResetsBounded(c)'
      BY <1>a, <3>1, <3>2, RecentFinite DEF ResetsBounded
    <3>4. Cardinality(TabsOf(c)') = Cardinality(TabsOf(c))
      BY <1>b, <2>0
    <3>5. Checking(c)' \in SUBSET Checking(c)
      BY <2>0, <2>1, CheckingShrinks
    <3>6. /\ Cardinality(Checking(c)') \in Nat
          /\ Cardinality(Checking(c)') <= Cardinality(Checking(c))
      BY <3>5, TabsFinite, FS_Subset, FS_CardinalityType
    <3>7. LoginsBounded(c)'
      BY <1>0, <1>a, <2>2, <3>4, <3>6, RecentFinite, TabsFinite DEF LoginsBounded
    <3> QED
      BY <3>3, <3>7
  <2> QED
    BY <2>3, <2>4
<1>6. ASSUME Tick PROVE ResetsBounded(c)' /\ LoginsBounded(c)'
  <2>1. \A l \in Limiter : Recent(l, count[l][c])' \subseteq Recent(l, count[l][c])
    <3> SUFFICES ASSUME NEW l \in Limiter, NEW a \in count[l][c], a.at + Window[l] > now'
                 PROVE  a.at + Window[l] > now
      BY <1>6 DEF Tick, Recent
    <3>1. a \in Attempts
      BY DEF TypeOK
    <3> QED
      BY <1>6, <3>1, LimiterAssumption DEF Tick, TypeOK, Attempts
  <2>2. Checking(c)' \subseteq Checking(c)
    BY <1>6 DEF Tick, Checking
  <2> QED
    BY <1>0, <1>6, <2>1, <2>2, Shrinking DEF Tick
<1>7. ASSUME Restart PROVE ResetsBounded(c)' /\ LoginsBounded(c)'
  <2>1. \A l \in Limiter : Recent(l, count[l][c])' \subseteq Recent(l, count[l][c])
    BY <1>7 DEF Restart, Recent
  <2>2. Checking(c)' \subseteq Checking(c)
    BY <1>7 DEF Restart, Checking, AtPage, AtRest, TypeOK
  <2> QED
    BY <1>0, <1>7, <2>1, <2>2, Shrinking DEF Restart
<1> QED
  BY StepKinds, <1>1, <1>2, <1>3, <1>4, <1>5, <1>6, <1>7

-----------------------------------------------------------------------------
(* The theorems *)

LEMMA InitHolds == Init => IInv
<1> SUFFICES ASSUME Init PROVE IInv
  OBVIOUS
<1>1. \A l \in Limiter, c \in Client : count[l][c] = {} /\ failures[l][c] = {}
  BY DEF Init
<1>2. \A l \in Limiter, c \in Client : Recent(l, count[l][c]) = {}
  BY <1>1 DEF Recent
<1>3. \A c \in Client : Checking(c) = {}
  BY DEF Init, Checking, AtPage
<1>4. AttemptsBounded
  <2>1. Max["reset"] \in Nat \ {0} /\ Max["login"] \in Nat \ {0}
    BY LimiterAssumption DEF Limiter
  <2>2. \A c \in Client : /\ Cardinality(Recent("reset", count["reset"][c])) = 0
                         /\ Cardinality(Recent("login", count["login"][c])) = 0
                         /\ Cardinality(Checking(c)) = 0
    BY <1>2, <1>3, FS_EmptySet DEF Limiter
  <2>3. \A c \in Client : Cardinality(TabsOf(c)) \in Nat
    BY TabsFinite
  <2> QED
    BY <2>1, <2>2, <2>3 DEF AttemptsBounded
<1>5. Numbered
  BY DEF Init, Numbered, AtPage
<1>6. AllFinite
  BY <1>1, FS_EmptySet DEF AllFinite
<1>7. Consistent
  BY <1>1 DEF Consistent
<1> QED
  BY <1>4, <1>5, <1>6, <1>7, TypeInit DEF IInv

LEMMA StepHolds == IInv /\ [Next]_vars => IInv'
BY TypeStep, NumberedStep, FiniteStep, ConsistentStep, BoundedStep DEF IInv

LEMMA InvariantHolds == Spec => []IInv
BY InitHolds, StepHolds, PTL DEF Spec

\* The state keeps its type, in particular the numbers of the attempts, which the limiters'
\* records and the browsers' requests share (ratelimit.py, auth.py).
THEOREM TypeCorrect == Spec => []TypeOK
<1>1. IInv => TypeOK
  BY DEF IInv
<1> QED
  BY <1>1, InvariantHolds, PTL

\* For any limits, windows and number of tabs: resets stay within max_attempts in every window,
\* and logins exceed it by the checks a client has under way at once less one and no more
\* (ratelimit.py, and login() and reset_password() of auth.py).
THEOREM Bounded == Spec => []AttemptsBounded
<1>1. IInv => AttemptsBounded
  BY DEF IInv
<1> QED
  BY <1>1, InvariantHolds, PTL

-----------------------------------------------------------------------------
LEMMA Refuses ==
  ASSUME TypeOK, [Next]_vars, NEW t \in Tab,
         tab[t].status # "throttled", tab'[t].status = "throttled"
  PROVE  LoginRefused(t) \/ ResetRefused(t)
<1>1. CASE Fresh
  BY <1>1 DEF Fresh
<1>2. ASSUME NEW u \in Tab, LoginRefused(u) \/ ResetRefused(u) PROVE u = t
  BY <1>2 DEF LoginRefused, ResetRefused, Throttled, TypeOK
<1>3. ASSUME NEW u \in Tab, LoginStart(u) \/ ResetStart(u) PROVE FALSE
  BY <1>3 DEF LoginStart, ResetStart, Waits, TypeOK
<1>4. ASSUME NEW u \in Tab, LoginSucceeds(u) \/ LoginFails(u) PROVE Fresh
  BY <1>4, GoingFresh, ShowingFresh DEF LoginSucceeds, LoginFails
<1>5. ASSUME Tick \/ Restart PROVE FALSE
  BY <1>5 DEF Tick, Restart, AtPage, AtRest, TypeOK
<1>6. ASSUME UNCHANGED vars PROVE FALSE
  BY <1>6 DEF vars
<1>7. ASSUME NEW u \in Tab, \/ \E url \in Url : Open(u, url)
                            \/ Answer(u) \/ Posts(u) \/ Ends(u)
      PROVE  LoginRefused(t) \/ ResetRefused(t)
  BY <1>1, <1>2, <1>3, <1>4, <1>7, QuietTab DEF Posts, Ends
<1> QED
  BY <1>5, <1>6, <1>7 DEF Next

LEMMA NotAllowedMeans ==
  ASSUME IInv, NEW l \in Limiter, NEW c \in Client, ~Allowed(l, c)
  PROVE  Cardinality(Recent(l, count[l][c])) >= Max[l]
BY RecentFinite, LimiterAssumption DEF Allowed, Consistent, IInv

\* Who is shown 429 made the maximum of attempts of that kind in the last window, and none of
\* them was forgiven by a login since (app.py, ratelimit.py): the limiters do not mix.
THEOREM RefusedRightly == Spec => RefusedForAReason
<1>1. ASSUME IInv, [Next]_vars, NEW t \in Tab,
             tab[t].status # "throttled", tab'[t].status = "throttled"
      PROVE  LET l == IF tab[t].url = "login" THEN "login" ELSE "reset" IN
             Cardinality(Recent(l, count[l][owner[t]])) >= Max[l]
  <2>1. TypeOK /\ owner[t] \in Client
    BY <1>1, OwnerType DEF IInv
  <2>2. LoginRefused(t) \/ ResetRefused(t)
    BY <1>1, <2>1, Refuses
  <2> QED
    BY <1>1, <2>1, <2>2, NotAllowedMeans DEF LoginRefused, ResetRefused, Submits, Limiter
<1>2. IInv /\ [Next]_vars =>
        [\A t \in Tab :
           tab[t].status # "throttled" /\ tab'[t].status = "throttled" =>
             LET l == IF tab[t].url = "login" THEN "login" ELSE "reset" IN
             Cardinality(Recent(l, count[l][owner[t]])) >= Max[l]]_vars
  BY <1>1
<1> QED
  BY <1>2, InvariantHolds, PTL DEF Spec, RefusedForAReason
=============================================================================
