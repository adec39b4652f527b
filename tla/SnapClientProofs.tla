--------------------------- MODULE SnapClientProofs ---------------------------
(***************************************************************************)
(* Proofs about SnapClient for every set of proxies, failure threshold,    *)
(* set of fatal thresholds and bound.                                      *)
(*                                                                         *)
(* The argument: the store never holds a cookie of a proxy that the call   *)
(* has left, since the step that leaves a proxy empties the store and only *)
(* the proxy of the request under way may fill it again; and from an empty *)
(* first page to the next answer neither place holds any cookie at all.    *)
(***************************************************************************)
EXTENDS SnapClient, TLAPS

\* While a call of List is under way, the stored cookie belongs to none of the
\* proxies it has left, and neither does the proxy of the latest request.
LeftBehind == pc # "idle" => kvCookie \notin left /\ prev \notin left

\* Between an empty first page and the answer to its retry there is no cookie,
\* neither in the store nor in the client.
SuspectDropped == suspect # None => kvCookie = None /\ cookie = None

\* The inductive invariant.
IInv == TypeOK /\ LeftBehind /\ SuspectDropped

-----------------------------------------------------------------------------
\* The initial states satisfy the invariant.
LEMMA InitIInv == Init => IInv
<1> SUFFICES ASSUME Init PROVE IInv
  OBVIOUS
<1> USE ClientAssumption DEF Init, None, Operator, Sessions
<1>1. SessionOK /\ CallOK
  BY DEF SessionOK, CallOK
<1>2. ManagerOK /\ expiries \in 0..MaxExpiries /\ restarts \in 0..MaxRestarts
  BY DEF ManagerOK
<1>3. FlagsOK
  BY DEF FlagsOK
<1>4. LeftBehind /\ SuspectDropped
  BY DEF LeftBehind, SuspectDropped
<1>5. QED
  BY <1>1, <1>2, <1>3, <1>4 DEF IInv, TypeOK

\* What a request through p leaves of the sessions and of the call.
LEMMA SendThroughIInv ==
  ASSUME IInv, NEW p \in Proxies, pc = "acquire", SendThrough(p)
  PROVE  LeftBehind' /\ SuspectDropped' /\ SessionOK' /\ CallOK'
<1> USE ClientAssumption DEF IInv, TypeOK, SessionOK, CallOK, Sessions
<1>1. /\ prev' = p /\ pc' = "request"
      /\ left' = (IF prev = None THEN left ELSE left \cup {prev}) \ {p}
      /\ UNCHANGED <<offset, suspect>>
  BY DEF SendThrough
<1>2. CallOK' /\ p \notin left'
  BY <1>1 DEF None
<1>3. CASE Switched(p)
  <2>1. kvCookie' = None /\ cookie' = None
    BY <1>3 DEF SendThrough, Cleared
  <2>2. None \notin left'
    BY <1>1 DEF None
  <2>3. QED
    BY <1>1, <1>2, <2>1, <2>2 DEF LeftBehind, SuspectDropped
<1>4. CASE ~Switched(p)
  <2>1. UNCHANGED session
    BY <1>4 DEF SendThrough
  <2>2. left' \subseteq left
    BY <1>1, <1>4 DEF Switched, None
  <2>3. QED
    BY <1>1, <1>2, <2>1, <2>2 DEF LeftBehind, SuspectDropped, session
<1>5. QED
  BY <1>3, <1>4

\* RecordFailure and RecordSuccess keep the type of the manager's state.
LEMMA RecordType ==
  ASSUME TypeOK, pc = "request", RecordFailure \/ RecordSuccess
  PROVE  ManagerOK'
<1> USE ClientAssumption DEF TypeOK, ManagerOK, CallOK
<1>1. CASE RecordSuccess
  BY <1>1 DEF RecordSuccess
<1>2. CASE RecordFailure /\ (current # prev \/ ~Blocked)
  <2>1. /\ failures' = IF current = prev THEN failures + 1 ELSE failures
        /\ UNCHANGED <<current, replacements, fatalAt>>
    BY <1>2 DEF RecordFailure
  <2>2. current = prev => failures + 1 < FailureThreshold
    BY <1>2 DEF Blocked
  <2>3. QED
    BY <2>1, <2>2
<1>3. CASE RecordFailure /\ ~(current # prev \/ ~Blocked)
  BY <1>3 DEF RecordFailure
<1>4. QED
  BY <1>1, <1>2, <1>3

\* Every step keeps the flags' types: without a proxy none has expired.
LEMMA NextFlags ==
  ASSUME TypeOK, [Next]_vars PROVE FlagsOK'
<1> USE ClientAssumption DEF TypeOK, FlagsOK
<1>1. CASE Call \/ OtherError \/ EmptyFirstPage \/ UNCHANGED vars
  BY <1>1 DEF Call, OtherError, EmptyFirstPage, vars, manager, history
<1>2. CASE AcquireCurrent
  BY <1>2 DEF AcquireCurrent, SendThrough, manager
<1>3. ASSUME NEW p \in Proxies, AcquireFresh(p) PROVE FlagsOK'
  BY <1>3 DEF AcquireFresh, SendThrough
<1>4. CASE AcquireFails
  BY <1>4 DEF AcquireFails, history
<1>5. ASSUME RecordFailure, UNCHANGED falseEnd PROVE FlagsOK'
  <2>1. CASE current # prev \/ ~Blocked
    BY <1>5, <2>1 DEF RecordFailure
  <2>2. CASE ~(current # prev \/ ~Blocked)
    BY <1>5, <2>2 DEF RecordFailure, StopsAt
  <2>3. QED
    BY <2>1, <2>2
<1>6. CASE ProxyFailure
  BY <1>5, <1>6 DEF ProxyFailure
<1>7. CASE Served \/ EmptyLaterPage
  <2>1. UNCHANGED <<current, expired, fatal>>
    BY <1>7 DEF Served, EmptyLaterPage, RecordSuccess
  <2>2. falseEnd' \in BOOLEAN
    BY <1>7 DEF Served, EmptyLaterPage
  <2>3. QED
    BY <2>1, <2>2
<1>8. CASE ProxyExpires
  BY <1>8 DEF ProxyExpires
<1>9. CASE Restart
  BY <1>9 DEF Restart
<1>10. QED
  BY <1>1, <1>2, <1>3, <1>4, <1>6, <1>7, <1>8, <1>9 DEF Next, Acquire, Answer

-----------------------------------------------------------------------------
\* Every step keeps the invariant.
LEMMA NextIInv == IInv /\ [Next]_vars => IInv'
<1> SUFFICES ASSUME IInv, [Next]_vars PROVE IInv'
  OBVIOUS
<1> DEFINE Rest == /\ SessionOK /\ ManagerOK /\ CallOK
                   /\ expiries \in 0..MaxExpiries /\ restarts \in 0..MaxRestarts
                   /\ LeftBehind /\ SuspectDropped
<1>1. Rest
  BY DEF IInv, TypeOK
<1>2. SUFFICES Rest'
  BY NextFlags DEF IInv, TypeOK
<1> USE <1>1, ClientAssumption DEF SessionOK, ManagerOK, CallOK, Sessions
<1>3. CASE Call
  BY <1>3 DEF Call, LeftBehind, SuspectDropped, session, manager, None
<1>4. CASE AcquireCurrent
  <2>1. current \in Proxies /\ pc = "acquire" /\ SendThrough(current) /\ UNCHANGED manager
    BY <1>4 DEF AcquireCurrent
  <2>2. LeftBehind' /\ SuspectDropped' /\ SessionOK' /\ CallOK'
    BY <2>1, SendThroughIInv
  <2>3. QED
    BY <2>1, <2>2 DEF SendThrough, manager
<1>5. ASSUME NEW p \in Proxies, AcquireFresh(p) PROVE Rest'
  <2>1. LeftBehind' /\ SuspectDropped' /\ SessionOK' /\ CallOK'
    BY <1>5, SendThroughIInv DEF AcquireFresh
  <2>2. QED
    BY <1>5, <2>1 DEF AcquireFresh, SendThrough, None
<1>6. CASE AcquireFails
  BY <1>6 DEF AcquireFails, LeftBehind, SuspectDropped, session, history
<1>7. CASE ProxyFailure
  <2>1. /\ pc = "request" /\ RecordFailure
        /\ kvCookie' \in {kvCookie, prev} /\ suspect' = None /\ pc' = "acquire"
        /\ UNCHANGED <<cookie, offset, prev, left, expiries, restarts>>
    BY <1>7 DEF ProxyFailure, SaveCookie
  <2>2. ManagerOK'
    BY <2>1, RecordType DEF IInv
  <2>3. QED
    BY <2>1, <2>2 DEF LeftBehind, SuspectDropped
<1>8. CASE OtherError
  BY <1>8 DEF OtherError, SaveCookie, LeftBehind, SuspectDropped, manager
<1>9. CASE Served \/ EmptyLaterPage
  <2>1. /\ pc = "request" /\ RecordSuccess
        /\ kvCookie' \in {kvCookie, prev} /\ suspect' = None /\ pc' = "idle"
        /\ offset' \in {0, 1} /\ UNCHANGED <<cookie, prev, left, expiries, restarts>>
    BY <1>9 DEF Served, EmptyLaterPage, SaveCookie
  <2>2. ManagerOK'
    BY <2>1, RecordType DEF IInv
  <2>3. QED
    BY <2>1, <2>2 DEF LeftBehind, SuspectDropped
<1>10. CASE EmptyFirstPage
  BY <1>10 DEF EmptyFirstPage, Cleared, Header, LeftBehind, SuspectDropped, manager
<1>11. CASE ProxyExpires
  BY <1>11 DEF ProxyExpires, LeftBehind, SuspectDropped, session
<1>12. CASE Restart
  BY <1>12 DEF Restart, LeftBehind, SuspectDropped, None
<1>13. CASE UNCHANGED vars
  BY <1>13 DEF vars, session, manager, history, LeftBehind, SuspectDropped
<1>14. QED
  BY <1>3, <1>4, <1>5, <1>6, <1>7, <1>8, <1>9, <1>10, <1>11, <1>12, <1>13
     DEF Next, Acquire, Answer

\* The inductive invariant holds in every reachable state.
THEOREM Inductive == Spec => []IInv
BY InitIInv, NextIInv, PTL DEF Spec

\* The variables of the client and of the proxy manager keep their types; the
\* current proxy stays below the failure threshold.
THEOREM TypeCorrect == Spec => []TypeOK
<1>1. IInv => TypeOK
  BY DEF IInv
<1>2. QED
  BY Inductive, <1>1, PTL

\* A call of List never sends the cookie of a proxy it has left, through however
\* many proxies it goes, and whichever answers have set a cookie on the way.
THEOREM CookiesStayBehind == Spec => []NoCookieOfLeftProxy
<1>1. IInv => NoCookieOfLeftProxy
  <2> SUFFICES ASSUME IInv, pc = "request" PROVE Header \notin left
    BY DEF NoCookieOfLeftProxy
  <2>1. left \subseteq Proxies /\ kvCookie \notin left /\ cookie \in {FlagCookie, None}
    BY DEF IInv, TypeOK, SessionOK, CallOK, LeftBehind
  <2>2. cookie \notin Proxies
    BY <2>1, ClientAssumption
  <2>3. QED
    BY <2>1, <2>2 DEF Header
<1>2. QED
  BY Inductive, <1>1, PTL

\* The retry of an empty first page goes without the session that got it.
THEOREM RetriesStartFresh == Spec => []RetryStartsFresh
<1>1. IInv => RetryStartsFresh
  BY DEF IInv, SuspectDropped, RetryStartsFresh, Header
<1>2. QED
  BY Inductive, <1>1, PTL
=============================================================================
