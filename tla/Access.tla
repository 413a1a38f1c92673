--------------------------------- MODULE Access ---------------------------------
(***************************************************************************)
(* Who gets in: web/ratelimit.py (LoginRateLimiter), the login, logout,    *)
(* reset, change and setup handlers of web/auth.py that use it or the      *)
(* session, the guards of web/deps.py, and the browsers that follow their  *)
(* redirects.  A client is a browser at one address, with several tabs     *)
(* that share its session cookie (SessionMiddleware, external).            *)
(*                                                                         *)
(* Which password is in force is the subject of Credentials: here a        *)
(* password typed is right or wrong.  An answer reads the database at most *)
(* once before it is decided, so it is one step; what runs in a thread of  *)
(* its own (hashing, the reset) ends in a later step than it begins in.    *)
(***************************************************************************)
EXTENDS Naturals, FiniteSets

CONSTANTS Client, Tab,
          Owners,     \* whose the tabs may be
          Opens,      \* the pages the user of a tab asks for
          Max,        \* limiter -> max_attempts
          Window,     \* limiter -> window_seconds
          MaxTime,    \* bound: time
          MaxTried    \* bound: logins and resets attempted

\* Pages behind require_page_auth; what else there is to see; "denied": 401 or 403.
Guarded == {"home", "account"}
Url == Guarded \cup {"login", "forgot", "setup", "api", "denied"}

Limiter == {"login", "reset"}  \* app.state.limiter and app.state.reset_limiter

ASSUME ClientAssumption == /\ Owners \subseteq [Tab -> Client] /\ IsFiniteSet(Tab)
                           /\ Opens \in [Tab -> SUBSET (Url \ {"denied"})]
ASSUME LimiterAssumption == /\ Max \in [Limiter -> Nat \ {0}] /\ Window \in [Limiter -> Nat]
                            /\ MaxTime \in Nat /\ MaxTried \in Nat

VARIABLES
  now,          \* time.monotonic()
  failures,     \* _failures of each limiter: client -> the attempts it counts
  tried,        \* how many attempts there were; each has its number
  owner,        \* whose the tabs are: tab -> client
  tab,          \* what each tab shows or waits for
  session,      \* the clients whose cookie says "authed"
  mustChange,   \* must_change_password
  passwordSet,  \* is_password_set()
  count         \* what should be counted: client's attempts since it got in, or since the start

db == <<mustChange, passwordSet>>
vars == <<now, failures, tried, owner, tab, session, db, count>>

\* A tab shows its page, follows a link or redirect with the cookie it had when it asked, or
\* waits for a thread; "throttled" is the answer 429.
Status == {"shown", "throttled", "asked", "checking", "resetting", "changing", "setting"}
AtRest(t) == tab[t].status \in {"shown", "throttled"}

NoAttempt == 0
AtPage(url, status) == [url |-> url, status |-> status, cookie |-> FALSE, nr |-> NoAttempt]

Init == /\ now = 0 /\ tried = 0
        /\ failures = [l \in Limiter |-> [c \in Client |-> {}]]
        /\ count = failures
        /\ owner \in Owners
        /\ tab = [t \in Tab |-> AtPage("login", "shown")]
        /\ session = {}
        /\ mustChange \in BOOLEAN /\ passwordSet \in BOOLEAN
        /\ mustChange => passwordSet

-----------------------------------------------------------------------------
(* LoginRateLimiter *)

\* _prune: the attempts of the last window.
Recent(l, attempts) == {a \in attempts : a.at + Window[l] > now}

\* Bug variant: one attempt too many.
AllowedOneMore(l, c) == Cardinality(Recent(l, failures[l][c])) <= Max[l]

Allowed(l, c) == Cardinality(Recent(l, failures[l][c])) < Max[l]

\* Both allowed() and record_failure() store the pruned list.
Pruned(l, c) == [failures EXCEPT ![l][c] = Recent(l, @)]
Attempt(n) == [nr |-> n, at |-> now]

RecordFailure(l, c, n) ==
  /\ failures' = [failures EXCEPT ![l][c] = Recent(l, @) \cup {Attempt(n)}]
  /\ count' = [count EXCEPT ![l][c] = @ \cup {Attempt(n)}]

\* Bug variant: the client's key is gone, and looked up again.
ResetPops(l, c) ==
  /\ failures' = [failures EXCEPT ![l] = [d \in Client \ {c} |-> failures[l][d]]]
  /\ count' = [count EXCEPT ![l][c] = {}]

\* reset(): the client got in.
Reset(l, c) ==
  /\ failures' = [failures EXCEPT ![l][c] = {}]
  /\ count' = [count EXCEPT ![l][c] = {}]

-----------------------------------------------------------------------------
(* Pages and guards *)

\* Bug variant: the page that changes the password is guarded like the others.
EmptyAllowlist == {}

\* _MUST_CHANGE_ALLOWLIST, of the pages.
MustChangeAllowlist == {"account"}

\* The page itself is the answer: require_page_auth lets the request pass, and setup_page has
\* something to set.
Served(url, authed) ==
  /\ url \in Guarded => authed /\ (mustChange => url \in MustChangeAllowlist)
  /\ url = "setup" => ~passwordSet

\* Where the answer leads otherwise.
Location(url, authed) == IF url \in Guarded /\ authed THEN "account"
                         ELSE IF passwordSet THEN "login" ELSE "setup"

\* require_api_auth: 401, or 403 while the password must be changed.
ApiAnswer(authed) == IF authed /\ ~mustChange THEN "api" ELSE "denied"

\* The tab is sent to a page: by a link, by a form, or by a redirect (303).
Going(t, url, authed) ==
  [tab EXCEPT ![t] = [url |-> url, status |-> "asked", cookie |-> authed, nr |-> NoAttempt]]
Showing(t, url) == [tab EXCEPT ![t] = AtPage(url, "shown")]
HasCookie(t) == owner[t] \in session

\* The user opens a page.
Open(t, url) ==
  /\ AtRest(t) /\ url \in Opens[t]
  /\ tab' = Going(t, url, HasCookie(t))
  /\ UNCHANGED <<owner, now, failures, tried, session, db, count>>

\* A page is shown, or answers with a redirect to another one, which the browser follows.
Answer(t) ==
  LET asked == tab[t] IN
  /\ asked.status = "asked"
  /\ tab' = IF ~Served(asked.url, asked.cookie)
            THEN Going(t, Location(asked.url, asked.cookie), HasCookie(t))
            ELSE Showing(t, IF asked.url = "api" THEN ApiAnswer(asked.cookie) ELSE asked.url)
  /\ UNCHANGED <<owner, now, failures, tried, session, db, count>>

-----------------------------------------------------------------------------
(* The forms *)

Submits(t, url) == AtRest(t) /\ tab[t].url = url
Waits(t, status, n) == [tab EXCEPT ![t].status = status, ![t].nr = n]
Throttled(t) == [tab EXCEPT ![t].status = "throttled"]

\* login(): too many attempts (429).
LoginRefused(t) ==
  /\ Submits(t, "login") /\ ~Allowed("login", owner[t])
  /\ failures' = Pruned("login", owner[t])
  /\ tab' = Throttled(t)
  /\ UNCHANGED <<owner, now, tried, session, db, count>>

\* login(): the password is checked in a thread.
LoginStart(t) ==
  /\ Submits(t, "login") /\ Allowed("login", owner[t])
  /\ tried < MaxTried /\ tried' = tried + 1
  /\ failures' = Pruned("login", owner[t])
  /\ tab' = Waits(t, "checking", tried')
  /\ UNCHANGED <<owner, now, session, db, count>>

\* ... and it was right: never so while none is set.
LoginSucceeds(t) ==
  /\ tab[t].status = "checking" /\ passwordSet
  /\ Reset("login", owner[t])
  /\ session' = session \cup {owner[t]}
  /\ tab' = Going(t, "home", TRUE)
  /\ UNCHANGED <<owner, now, tried, db>>

\* Bug variant: the counts of both limiters are one.
LoginFailsEverywhere(t) ==
  /\ tab[t].status = "checking"
  /\ failures' = [l \in Limiter |-> [failures[l] EXCEPT ![owner[t]] =
                    Recent(l, @) \cup {Attempt(tab[t].nr)}]]
  /\ count' = [count EXCEPT !["login"][owner[t]] = @ \cup {Attempt(tab[t].nr)}]
  /\ tab' = Showing(t, "login")
  /\ UNCHANGED <<owner, now, tried, session, db>>

\* ... or wrong (401).
LoginFails(t) ==
  /\ tab[t].status = "checking"
  /\ RecordFailure("login", owner[t], tab[t].nr)
  /\ tab' = Showing(t, "login")
  /\ UNCHANGED <<owner, now, tried, session, db>>

\* logout(): allowed with a password that must be changed; without a cookie it leads nowhere.
Logout(t) ==
  /\ AtRest(t) /\ tab[t].url \in Guarded
  /\ \/ /\ HasCookie(t)
        /\ session' = session \ {owner[t]}
        /\ tab' = Going(t, "login", FALSE)
     \/ /\ ~HasCookie(t)
        /\ tab' = Going(t, Location(tab[t].url, FALSE), FALSE)
        /\ UNCHANGED session
  /\ UNCHANGED <<owner, now, failures, tried, db, count>>

\* reset_password(): too many resets.
ResetRefused(t) ==
  /\ Submits(t, "forgot") /\ ~Allowed("reset", owner[t])
  /\ failures' = Pruned("reset", owner[t])
  /\ tab' = Throttled(t)
  /\ UNCHANGED <<owner, now, tried, session, db, count>>

\* reset_password(): an attempt is counted before the thread starts.
ResetStart(t) ==
  /\ Submits(t, "forgot") /\ Allowed("reset", owner[t])
  /\ tried < MaxTried /\ tried' = tried + 1
  /\ RecordFailure("reset", owner[t], tried')
  /\ tab' = Waits(t, "resetting", tried')
  /\ UNCHANGED <<owner, now, session, db>>

\* ... it generated a password, or could not write its file (500).
ResetEnds(t) ==
  /\ tab[t].status = "resetting"
  /\ \/ /\ mustChange' = TRUE /\ passwordSet' = TRUE
        /\ tab' = Going(t, "login", HasCookie(t))
     \/ /\ tab' = Showing(t, "forgot")
        /\ UNCHANGED db
  /\ UNCHANGED <<owner, now, failures, tried, session, count>>

\* change_password(): the guard lets it through, or leads elsewhere.
ChangeStart(t) ==
  /\ Submits(t, "account")
  /\ tab' = IF HasCookie(t) THEN [tab EXCEPT ![t].status = "changing"]
            ELSE Going(t, Location(tab[t].url, FALSE), FALSE)
  /\ UNCHANGED <<owner, now, failures, tried, session, db, count>>

\* ... the change is refused (400), or made: the flag is cleared.
ChangeEnds(t) ==
  /\ tab[t].status = "changing"
  /\ \/ /\ passwordSet /\ mustChange' = FALSE
        /\ tab' = Going(t, "home", HasCookie(t))
        /\ UNCHANGED passwordSet
     \/ /\ tab' = Showing(t, "account")
        /\ UNCHANGED db
  /\ UNCHANGED <<owner, now, failures, tried, session, count>>

\* setup(): only while no password is set; an empty one is refused (400).
SetupStart(t) ==
  /\ Submits(t, "setup")
  /\ tab' = IF passwordSet THEN Going(t, Location("setup", FALSE), HasCookie(t))
            ELSE [tab EXCEPT ![t].status = "setting"]
  /\ UNCHANGED <<owner, now, failures, tried, session, db, count>>

SetupEnds(t) ==
  /\ tab[t].status = "setting"
  /\ passwordSet' = TRUE
  /\ session' = session \cup {owner[t]}
  /\ tab' = Going(t, "home", TRUE)
  /\ UNCHANGED <<owner, now, failures, tried, mustChange, count>>

-----------------------------------------------------------------------------
Tick == /\ now < MaxTime
        /\ now' = now + 1
        /\ UNCHANGED <<owner, failures, tried, tab, session, db, count>>

\* The process restarts: the counters are gone, requests under way fail; cookies stay valid.
Restart ==
  /\ failures' = [l \in Limiter |-> [c \in Client |-> {}]]
  /\ count' = failures'
  /\ tab' = [t \in Tab |-> IF AtRest(t) THEN tab[t] ELSE AtPage(tab[t].url, "shown")]
  /\ UNCHANGED <<owner, now, tried, session, db>>

Posts(t) == \/ LoginRefused(t) \/ LoginStart(t) \/ Logout(t)
            \/ ResetRefused(t) \/ ResetStart(t) \/ ChangeStart(t) \/ SetupStart(t)

Ends(t) == LoginSucceeds(t) \/ LoginFails(t) \/ ResetEnds(t) \/ ChangeEnds(t) \/ SetupEnds(t)

Next == \/ \E t \in Tab : \/ \E url \in Url : Open(t, url)
                          \/ Answer(t) \/ Posts(t) \/ Ends(t)
        \/ Tick \/ Restart

\* A request is answered, a thread ends.  Nothing obliges a user to do anything.
Fairness == \A t \in Tab : WF_vars(Answer(t)) /\ WF_vars(Ends(t))

Spec == Init /\ [][Next]_vars
FairSpec == Spec /\ Fairness

-----------------------------------------------------------------------------
Attempts == [nr : 1 .. MaxTried, at : 0 .. MaxTime]

\* The type of the state.
TypeOK == /\ now \in 0 .. MaxTime /\ tried \in 0 .. MaxTried
          /\ owner \in Owners
          /\ failures \in [Limiter -> [Client -> SUBSET Attempts]]
          /\ count \in [Limiter -> [Client -> SUBSET Attempts]]
          /\ tab \in [Tab -> [url : Url, status : Status, cookie : BOOLEAN, nr : 0 .. MaxTried]]
          /\ session \subseteq Client
          /\ mustChange \in BOOLEAN /\ passwordSet \in BOOLEAN

Checking(c) == {t \in Tab : owner[t] = c /\ tab[t].status = "checking"}
TabsOf(c) == {t \in Tab : owner[t] = c}

\* The throttle holds over every window, not only over what the limiter still remembers.  A
\* reset is counted in the turn in which it is allowed: never more than max_attempts.  A login
\* is counted when its check is over, so those a client has under way at once can exceed the
\* maximum, by their number less one and no more.
AttemptsBounded ==
  \A c \in Client :
    /\ Cardinality(Recent("reset", count["reset"][c])) <= Max["reset"]
    /\ Cardinality(Recent("login", count["login"][c])) + Cardinality(Checking(c))
         <= Max["login"] - 1 + Cardinality(TabsOf(c))

\* "Reset attempts never trip the login lockout (and vice-versa)" (app.py), nor does another
\* client, a success or a refused attempt: who is refused has made the maximum of attempts of
\* that very kind in the last window, since it last got in; so a block ends with the window.
RefusedForAReason ==
  [][\A t \in Tab :
       tab[t].status # "throttled" /\ tab'[t].status = "throttled" =>
         LET l == IF tab[t].url = "login" THEN "login" ELSE "reset" IN
         Cardinality(Recent(l, count[l][owner[t]])) >= Max[l]]_vars

\* No request is lost and no redirects go in circles: whatever happens to the password and the
\* session meanwhile, every tab comes to show something.
EveryTabShows == \A t \in Tab : (~AtRest(t)) ~> AtRest(t)
=============================================================================
