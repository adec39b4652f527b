------------------------------ MODULE SnapClient ------------------------------
(***************************************************************************)
(* api115.Client.List (internal/api115/snap.go) over proxy.Manager         *)
(* (internal/proxy/manager.go): the requests for the pages of a folder,    *)
(* through one proxy at a time, with a session cookie that 115 binds to    *)
(* the proxy's address and that outlives both the proxy and the process.   *)
(*                                                                         *)
(* The caller is the crawl: page 0 of a folder, then page 1 once page 0    *)
(* was served, and the same page again after an error. 115, the proxy      *)
(* provider and its validator are external: what they may answer is a      *)
(* choice. A cookie is the address it was issued to. Time appears only as  *)
(* the step that lets the current proxy's deadline pass.                   *)
(***************************************************************************)
EXTENDS Naturals

CONSTANTS
  Proxies,           \* addresses the provider hands out
  FailureThreshold,  \* Config.FailureThreshold (New makes it 3)
  FatalThresholds,   \* Config.FatalThreshold: the values considered (0 in main)
  FlagCookie,        \* the -cookie flag: an Operator cookie, or None
  ReplacementCap,    \* consecutiveReplacements is counted up to here
  MaxExpiries,       \* bound on proxy deadlines that pass
  MaxRestarts        \* bound on restarts of the process

None     == "none"
Operator == "operator"
Sessions == Proxies \cup {Operator}

ASSUME ClientAssumption ==
  /\ {None, Operator} \cap Proxies = {}
  /\ FailureThreshold \in Nat \ {0}
  /\ FatalThresholds \subseteq 0..ReplacementCap
  /\ FlagCookie \in {None, Operator}
  /\ ReplacementCap \in Nat /\ MaxExpiries \in Nat /\ MaxRestarts \in Nat

VARIABLES
  kvCookie,     \* CookieStore: table kv, survives a restart
  cookie,       \* Client.Cookie
  current,      \* Manager.current, or None
  failures,     \* current.FailureCount
  expired,      \* current's deadline has passed
  replacements, \* Manager.consecutiveReplacements
  fatal,        \* Manager.fatalErr is set
  fatalAt,      \* Config.FatalThreshold of this deployment
  pc,           \* "idle" | "acquire" | "request"
  offset,       \* the page of the folder asked for, 0 or 1
  prev,         \* List's prevProxyID: the proxy of the request
  \* --- bookkeeping of the model
  left,         \* proxies this call of List has moved away from
  suspect,      \* the session of the last empty first page, until it is retried
  falseEnd,     \* an empty page was taken for the end of the folder although
                \* the request carried the cookie of another address
  expiries, restarts

session == <<kvCookie, cookie>>
manager == <<current, failures, expired, replacements, fatal, fatalAt>>
history == <<left, suspect, falseEnd, expiries, restarts>>
vars    == <<session, manager, pc, offset, prev, history>>

-----------------------------------------------------------------------------
Init ==
  /\ kvCookie = None /\ cookie = FlagCookie
  /\ current = None /\ failures = 0 /\ expired = FALSE
  /\ replacements = 0 /\ fatal = FALSE /\ fatalAt \in FatalThresholds
  /\ pc = "idle" /\ offset = 0 /\ prev = None
  /\ left = {} /\ suspect = None /\ falseEnd = FALSE
  /\ expiries = 0 /\ restarts = 0

\* The Cookie header: the stored cookie, else Client.Cookie.
Header == IF kvCookie # None THEN kvCookie ELSE cookie

\* The cookie was issued to another address than the one that sends it.
Foreign == Header \notin {None, prev}

-----------------------------------------------------------------------------
\* List, up to the request

Call ==
  /\ pc = "idle"
  /\ pc' = "acquire" /\ prev' = None /\ left' = {}
  /\ UNCHANGED <<session, manager, offset, suspect, falseEnd, expiries, restarts>>

\* clearCookies: both the client's cookie and the stored one.
Cleared_MemoryOnly(kv) == kv
Cleared(kv)            == None

\* List notices a switch only against the previous request of the same call.
Switched_Never(p) == FALSE
Switched(p)       == prev # None /\ p # prev

SendThrough(p) ==
  /\ prev' = p
  /\ left' = (IF prev = None THEN left ELSE left \cup {prev}) \ {p}
  /\ IF Switched(p) THEN cookie' = None /\ kvCookie' = Cleared(kvCookie)
                    ELSE UNCHANGED session
  /\ pc' = "request"
  /\ UNCHANGED <<offset, suspect, falseEnd, expiries, restarts>>

\* Acquire: the current proxy while it lasts ...
AcquireCurrent ==
  /\ pc = "acquire" /\ ~fatal /\ current # None /\ ~expired
  /\ SendThrough(current)
  /\ UNCHANGED manager

\* ... else one that the provider returns and the validator accepts.
AcquireFresh(p) ==
  /\ pc = "acquire" /\ ~fatal /\ (current = None \/ expired)
  /\ current' = p /\ failures' = 0 /\ expired' = FALSE
  /\ SendThrough(p)
  /\ UNCHANGED <<replacements, fatal, fatalAt>>

\* The proxy subsystem has stopped, the provider fails, or ten seconds pass
\* without an accepted proxy: List returns a proxy failure.
AcquireFails ==
  /\ pc = "acquire" /\ (fatal \/ current = None \/ expired)
  /\ current' = None /\ failures' = 0 /\ expired' = FALSE
  /\ pc' = "idle"
  /\ UNCHANGED <<session, replacements, fatal, fatalAt, offset, prev, history>>

-----------------------------------------------------------------------------
\* listOnce: what comes back

\* Set-Cookie, saved whatever the status: a session bound to this proxy.
SaveCookie == kvCookie' \in {kvCookie, prev}

\* RecordFailure: at the threshold the proxy is dropped.
Blocked_Late == failures > FailureThreshold
Blocked      == failures + 1 >= FailureThreshold

StopsAt_Never(n) == FALSE
StopsAt(n)       == fatalAt > 0 /\ n >= fatalAt

RecordFailure ==
  IF current # prev \/ ~Blocked
    THEN /\ failures' = IF current = prev THEN failures + 1 ELSE failures
         /\ UNCHANGED <<current, expired, replacements, fatal, fatalAt>>
    ELSE LET n == IF replacements < ReplacementCap THEN replacements + 1
                                                   ELSE replacements
         IN  /\ current' = None /\ failures' = 0 /\ expired' = FALSE
             /\ replacements' = n
             /\ fatal' = (fatal \/ StopsAt(n))
             /\ UNCHANGED fatalAt

RecordSuccess ==
  /\ failures' = IF current = prev THEN 0 ELSE failures
  /\ replacements' = IF current = prev THEN 0 ELSE replacements
  /\ UNCHANGED <<current, expired, fatal, fatalAt>>

\* No connection, or a 400, 403, 404 or 405: the proxy is to blame, and List
\* goes round again.
ProxyFailure ==
  /\ pc = "request"
  /\ SaveCookie /\ UNCHANGED cookie
  /\ RecordFailure
  /\ suspect' = None
  /\ pc' = "acquire"
  /\ UNCHANGED <<offset, prev, left, falseEnd, expiries, restarts>>

\* Any other error: 5xx, 429, a broken body, a dead share. List returns it.
OtherError ==
  /\ pc = "request"
  /\ SaveCookie /\ UNCHANGED cookie
  /\ suspect' = None
  /\ pc' = "idle"
  /\ UNCHANGED <<manager, offset, prev, left, falseEnd, expiries, restarts>>

\* A page with nodes. The crawl asks for the next page, or the next folder's
\* first.
Served ==
  /\ pc = "request"
  /\ SaveCookie /\ UNCHANGED cookie
  /\ RecordSuccess
  /\ offset' = 1 - offset
  /\ suspect' = None
  /\ pc' = "idle"
  /\ UNCHANGED <<prev, left, falseEnd, expiries, restarts>>

\* list=[] with a positive count on the first page: the cookie is dropped, the
\* one just saved included, and the error is retryable.
EmptyFirstPage ==
  /\ pc = "request" /\ offset = 0
  /\ cookie' = None
  /\ \E saved \in {kvCookie, prev} : kvCookie' = Cleared(saved)
  /\ suspect' = Header
  /\ pc' = "idle"
  /\ UNCHANGED <<manager, offset, prev, left, falseEnd, expiries, restarts>>

\* The same past the first page: the folder is taken to end here.
EmptyLaterPage ==
  /\ pc = "request" /\ offset > 0
  /\ SaveCookie /\ UNCHANGED cookie
  /\ RecordSuccess
  /\ falseEnd' = (falseEnd \/ Foreign)
  /\ offset' = 0
  /\ suspect' = None
  /\ pc' = "idle"
  /\ UNCHANGED <<prev, left, expiries, restarts>>

-----------------------------------------------------------------------------
\* The current proxy's deadline (three minutes after it was fetched) passes.
ProxyExpires ==
  /\ current # None /\ ~expired /\ expiries < MaxExpiries
  /\ expired' = TRUE /\ expiries' = expiries + 1
  /\ UNCHANGED <<session, current, failures, replacements, fatal, fatalAt, pc,
                 offset, prev, left, suspect, falseEnd, restarts>>

\* The process is restarted: the stored cookie and, through the crawl's
\* checkpoint, the page to ask for survive.
Restart ==
  /\ restarts < MaxRestarts /\ restarts' = restarts + 1
  /\ cookie' = FlagCookie
  /\ current' = None /\ failures' = 0 /\ expired' = FALSE
  /\ replacements' = 0 /\ fatal' = FALSE
  /\ pc' = "idle" /\ prev' = None /\ left' = {} /\ suspect' = None
  /\ UNCHANGED <<kvCookie, fatalAt, offset, falseEnd, expiries>>

-----------------------------------------------------------------------------
Acquire == AcquireCurrent \/ AcquireFails \/ \E p \in Proxies : AcquireFresh(p)

Answer ==
  ProxyFailure \/ OtherError \/ Served \/ EmptyFirstPage \/ EmptyLaterPage

Next == Call \/ Acquire \/ Answer \/ ProxyExpires \/ Restart

\* A call under way takes its next step: Acquire and every request have a
\* timeout. Nothing is assumed of what the answers are.
Fairness == WF_vars(Acquire) /\ WF_vars(Answer)

Spec == Init /\ [][Next]_vars /\ Fairness

-----------------------------------------------------------------------------
\* Properties

SessionOK ==
  /\ kvCookie \in Sessions \cup {None} /\ cookie \in {FlagCookie, None}
  /\ suspect \in Sessions \cup {None}

\* A proxy at the failure threshold is never current.
ManagerOK ==
  /\ current \in Proxies \cup {None} /\ failures \in 0..(FailureThreshold - 1)
  /\ current = None => failures = 0
  /\ fatalAt \in FatalThresholds /\ replacements \in 0..ReplacementCap

CallOK ==
  /\ pc \in {"idle", "acquire", "request"} /\ offset \in {0, 1}
  /\ prev \in Proxies \cup {None} /\ left \subseteq Proxies
  /\ pc = "request" => prev # None

FlagsOK ==
  /\ expired \in BOOLEAN /\ fatal \in BOOLEAN /\ falseEnd \in BOOLEAN
  /\ current = None => ~expired

\* The type invariant of the client, of the manager and of a call.
TypeOK ==
  /\ SessionOK /\ ManagerOK /\ CallOK /\ FlagsOK
  /\ expiries \in 0..MaxExpiries /\ restarts \in 0..MaxRestarts

\* snap.go:183-185: once a call of List has moved to another proxy, no request
\* of it carries a cookie issued to the proxy it left, although every answer,
\* failed ones too, may have saved one.
NoCookieOfLeftProxy == pc = "request" => Header \notin left

\* snap.go:274-276: after an empty first page the next request never carries
\* the session that got it, wherever that session was kept.
RetryStartsFresh == pc = "request" /\ suspect # None => Header # suspect

\* ErrProxyFatal: with a FatalThreshold a call comes back however bad every
\* proxy is. (With 0, which is what main.go configures, it need not.)
CappedCallReturns == fatalAt > 0 /\ pc # "idle" ~> pc = "idle"

\* snap.go:278-280: an empty page past the first is the end of the folder, not
\* the effect of a cookie that does not fit the address.
NoFalseEnd == ~falseEnd
=============================================================================
