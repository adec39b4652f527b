--------------------------------- MODULE Daemon ---------------------------------
(***************************************************************************)
(* The daemon's goroutines (cmd/115-indexer/daemon.go, main.go) and how    *)
(* they end: runDaemon waits for the loops it started, the scheduler's     *)
(* RunLoop and a metrics and an admin server, until a signal or a loop's   *)
(* error cancels their context; then it waits a grace period at most.      *)
(*                                                                         *)
(* RunOnce is reduced to what its shares' crawls come to: ShareLifecycle   *)
(* has the calls. A call of the store under a cancelled context returns    *)
(* context.Canceled (database/sql). The clock runs once the context is     *)
(* cancelled, in units of five seconds; runDaemon and the servers act at   *)
(* once when they can, the scheduler whenever it likes, or never.          *)
(***************************************************************************)
EXTENDS Naturals, Sequences

CONSTANTS
  Servers,      \* the HTTP servers that are configured
  MaxBatch,     \* bound on the shares a cycle lists
  ShutdownWait, \* the servers' shutdown timeout (5 s)
  Grace,        \* shutdownGrace (10 s)
  MaxCycles,    \* bound on the scheduler's cycles
  MaxFaults     \* bound on errors of the store and of the listeners

ASSUME DaemonAssumption ==
  /\ MaxBatch \in Nat /\ MaxCycles \in Nat /\ MaxFaults \in Nat
  /\ ShutdownWait \in Nat /\ Grace \in Nat /\ ShutdownWait < Grace
  /\ {"scheduler", "none"} \cap Servers = {}

VARIABLES
  signalled,  \* SIGTERM or SIGINT has arrived
  cancelled,  \* the loops' context is cancelled
  elapsed,    \* time since then
  \* --- runDaemon
  main,       \* "select", or "returned": the process is over
  errCh,      \* what loops have returned and runDaemon has not received
  received,   \* what it has
  firstErr,   \* the loop whose error it will return, or None
  deadline,   \* when the grace timer fires, NoTimer before it is armed
  \* --- the servers
  server,     \* "up", "broken" (Serve has returned), "closing" or "done"
  due,        \* when the shutdown timeout of a closing server fires
  \* --- the scheduler
  pc,         \* RunLoop's next step
  left,       \* shares of the cycle still to crawl, the one under way included
  crawled,    \* what CrawlShare returned
  proxyFailureOnly, proxyFailureRuns, sleepFor,
  paused,     \* PauseGate
  \* --- bookkeeping of the model
  listed,     \* the cycle has listed shares
  contact,    \* a crawl of the cycle ended in neither a proxy failure nor a duplicate
  fruitless,  \* finished cycles since the last one with a contact, or without shares
  cycles, faults

process   == <<signalled, cancelled, elapsed>>
runDaemon == <<main, received, firstErr, deadline>>
servers   == <<server, due>>
cycle     == <<left, crawled, proxyFailureOnly>>
loop      == <<pc, cycle, proxyFailureRuns, sleepFor, listed, contact, fruitless, cycles>>
vars      == <<process, runDaemon, errCh, servers, loop, paused, faults>>

None    == "none"
NoTimer == Grace + Grace + 1
Loops   == Servers \cup {"scheduler"}

Init ==
  /\ signalled = FALSE /\ cancelled = FALSE /\ elapsed = 0
  /\ main = "select" /\ errCh = <<>> /\ received = {} /\ firstErr = None
  /\ deadline = NoTimer
  /\ server = [w \in Servers |-> "up"] /\ due = [w \in Servers |-> NoTimer]
  /\ pc = "top" /\ left = 0 /\ crawled = "none" /\ proxyFailureOnly = FALSE
  /\ proxyFailureRuns = 0 /\ sleepFor = 0 /\ paused = FALSE
  /\ listed = FALSE /\ contact = FALSE /\ fruitless = 0
  /\ cycles = 0 /\ faults = 0

Post(w, err) == errCh' = Append(errCh, [loop |-> w, err |-> err])
Fault == faults < MaxFaults /\ faults' = faults + 1

-----------------------------------------------------------------------------
\* runDaemon

Signal ==
  /\ ~signalled
  /\ signalled' = TRUE /\ cancelled' = TRUE
  /\ UNCHANGED <<elapsed, runDaemon, errCh, servers, loop, paused, faults>>

\* An error that is not the echo of the cancellation.
Real_Any(err) == err # "nil"
Real(err) == err \notin {"nil", "canceled"}

Receive ==
  /\ errCh # <<>>
  /\ errCh' = Tail(errCh) /\ received' = received \cup {Head(errCh)}
  /\ IF Real(Head(errCh).err) /\ firstErr = None
     THEN firstErr' = Head(errCh).loop /\ cancelled' = TRUE
     ELSE UNCHANGED <<firstErr, cancelled>>
  /\ main' = IF { r.loop : r \in received' } = Loops THEN "returned" ELSE main
  /\ UNCHANGED <<signalled, elapsed, deadline, servers, loop, paused, faults>>

ArmGraceTimer ==
  /\ cancelled /\ deadline = NoTimer
  /\ deadline' = elapsed + Grace
  /\ UNCHANGED <<process, main, received, firstErr, errCh, servers, loop, paused, faults>>

GraceOver_Never == FALSE
GraceOver == deadline <= elapsed

GraceExhausted ==
  /\ GraceOver
  /\ main' = "returned"
  /\ UNCHANGED <<process, received, firstErr, deadline, errCh, servers, loop, paused, faults>>

-----------------------------------------------------------------------------
\* The servers

ListenAndServeFails(w) ==
  /\ server[w] = "up" /\ Fault
  /\ server' = [server EXCEPT ![w] = "broken"]
  /\ UNCHANGED <<errCh, due>>

ReturnError(w) ==
  /\ server[w] = "broken"
  /\ server' = [server EXCEPT ![w] = "done"]
  /\ Post(w, "listen")
  /\ UNCHANGED <<due, faults>>

ShutdownDeadline_Grace == elapsed + Grace
ShutdownDeadline == elapsed + ShutdownWait

\* Both cases of the select may be ready: then either is taken.
Shutdown(w) ==
  /\ server[w] \in {"up", "broken"} /\ cancelled
  /\ server' = [server EXCEPT ![w] = "closing"]
  /\ due' = [due EXCEPT ![w] = ShutdownDeadline]
  /\ UNCHANGED <<errCh, faults>>

\* The last connection is idle, or the timeout has fired.
ShutdownReturns(w) ==
  /\ server[w] = "closing"
  /\ server' = [server EXCEPT ![w] = "done"]
  /\ Post(w, "nil")
  /\ UNCHANGED <<due, faults>>

\* The pause gate, behind the admin server.
PauseOrResume ==
  /\ "admin" \in Servers /\ server["admin"] \in {"up", "closing"}
  /\ paused' = ~paused
  /\ UNCHANGED <<process, runDaemon, errCh, servers, loop, faults>>

-----------------------------------------------------------------------------
\* RunLoop

Return(err) == pc' = "done" /\ Post("scheduler", err)

\* A call of the store: cancelled, failed, or Then.
StoreCall(Then) ==
  \/ cancelled /\ Return("canceled")
     /\ UNCHANGED <<cycle, proxyFailureRuns, sleepFor, listed, contact, fruitless, cycles, faults>>
  \/ ~cancelled /\ Fault /\ Return("store")
     /\ UNCHANGED <<cycle, proxyFailureRuns, sleepFor, listed, contact, fruitless, cycles>>
  \/ ~cancelled /\ Then /\ UNCHANGED <<errCh, faults>>

LoopTop ==
  /\ pc = "top" /\ cycles < MaxCycles
  /\ pc' = IF paused THEN "parked" ELSE "list"
  /\ UNCHANGED <<errCh, cycle, proxyFailureRuns, sleepFor, listed, contact,
                 fruitless, cycles, faults>>

\* waitForResume polls the gate and listens to the context.
WaitForResume ==
  /\ pc = "parked"
  /\ \/ ~paused /\ pc' = "top" /\ UNCHANGED errCh
     \/ cancelled /\ Return("nil")
  /\ UNCHANGED <<cycle, proxyFailureRuns, sleepFor, listed, contact, fruitless,
                 cycles, faults>>

ListShares ==
  /\ left' \in 0..MaxBatch
  /\ proxyFailureOnly' = (left' > 0)
  /\ pc' = "batch"
  /\ listed' = (left' > 0) /\ contact' = FALSE /\ cycles' = cycles + 1
  /\ UNCHANGED <<crawled, proxyFailureRuns, sleepFor, fruitless>>

ListSharesForCrawl == pc = "list" /\ StoreCall(ListShares)

\* The locals of RunOnce are gone.
RunOnceReturns ==
  /\ left' = 0 /\ crawled' = "none" /\ proxyFailureOnly' = FALSE
  /\ listed' = FALSE /\ contact' = FALSE

\* errPaused: the cycle is abandoned, neither success nor failure.
Abandon ==
  /\ pc' = "top" /\ RunOnceReturns
  /\ UNCHANGED <<proxyFailureRuns, sleepFor, fruitless, cycles>>

NextShare ==
  /\ pc = "batch"
  /\ IF left > 0 /\ paused THEN Abandon
     ELSE /\ pc' = IF left > 0 THEN "crawl" ELSE "titles"
          /\ UNCHANGED <<cycle, proxyFailureRuns, sleepFor, listed, contact,
                         fruitless, cycles>>
  /\ UNCHANGED <<errCh, faults>>

\* "proxy": IsProxyFailure; "error": any other, ErrPaused among them.
CrawlShare ==
  /\ pc = "crawl"
  /\ crawled' \in {"ok", "dead", "duplicate", "proxy", "error"}
  /\ pc' = "verdict"
  /\ UNCHANGED <<errCh, left, proxyFailureOnly, proxyFailureRuns, sleepFor,
                 listed, contact, fruitless, cycles, faults>>

\* MarkShareDuplicate; or PurgeIfOrphan and the verdict. A duplicate leaves
\* proxyFailureOnly as it is.
StaysProxyFailure_NotProxy(r) == r # "ok"
StaysProxyFailure(r) == r \in {"duplicate", "proxy"}

Mark ==
  IF crawled \in {"proxy", "error"} /\ paused THEN Abandon
  ELSE /\ proxyFailureOnly' = (proxyFailureOnly /\ StaysProxyFailure(crawled))
       /\ contact' = (contact \/ crawled \notin {"duplicate", "proxy"})
       /\ left' = left - 1 /\ crawled' = "none" /\ pc' = "batch"
       /\ UNCHANGED <<proxyFailureRuns, sleepFor, listed, fruitless, cycles>>

Verdict == pc = "verdict" /\ StoreCall(Mark)

\* Minutes to sleep; 0 stands for the polling interval.
ProxyBackoff(runs) ==
  CASE runs <= 1 -> 5 [] runs = 2 -> 15 [] runs = 3 -> 30 [] OTHER -> 60

RunsAfter_NoReset == IF proxyFailureOnly THEN proxyFailureRuns + 1 ELSE proxyFailureRuns
RunsAfter == IF proxyFailureOnly THEN proxyFailureRuns + 1 ELSE 0

DedupeTitles ==
  /\ pc' = "sleep" /\ proxyFailureRuns' = RunsAfter
  /\ sleepFor' = IF proxyFailureOnly THEN ProxyBackoff(RunsAfter) ELSE 0
  /\ fruitless' = IF listed /\ ~contact THEN fruitless + 1 ELSE 0
  /\ RunOnceReturns
  /\ UNCHANGED cycles

\* DedupeShareTitles ends RunOnce; RunLoop then decides how long to sleep.
EndCycle == pc = "titles" /\ StoreCall(DedupeTitles)

Sleep ==
  /\ pc = "sleep"
  /\ \/ pc' = "top" /\ UNCHANGED errCh
     \/ cancelled /\ Return("nil")
  /\ sleepFor' = 0
  /\ UNCHANGED <<cycle, proxyFailureRuns, listed, contact, fruitless, cycles, faults>>

-----------------------------------------------------------------------------
\* Time passes when runDaemon and the servers have nothing to do at once.
Tick ==
  /\ cancelled /\ errCh = <<>> /\ deadline # NoTimer /\ elapsed < deadline
  /\ \A w \in Servers : \/ server[w] = "done"
                        \/ server[w] = "closing" /\ elapsed < due[w]
  /\ elapsed' = elapsed + 1
  /\ UNCHANGED <<signalled, cancelled, runDaemon, errCh, servers, loop, paused, faults>>

Running == main = "select"

RunDaemon == Running /\ (Receive \/ ArmGraceTimer \/ GraceExhausted)

Server(w) ==
  /\ Running
  /\ ReturnError(w) \/ Shutdown(w) \/ ShutdownReturns(w)
  /\ UNCHANGED <<process, runDaemon, loop, paused>>

ListenerFails ==
  /\ Running /\ \E w \in Servers : ListenAndServeFails(w)
  /\ UNCHANGED <<process, runDaemon, loop, paused>>

Scheduler ==
  /\ Running
  /\ \/ LoopTop \/ WaitForResume \/ ListSharesForCrawl \/ NextShare
     \/ CrawlShare \/ Verdict \/ EndCycle \/ Sleep
  /\ UNCHANGED <<process, runDaemon, servers, paused>>

Next ==
  \/ RunDaemon \/ (\E w \in Servers : Server(w)) \/ ListenerFails \/ Scheduler
  \/ Running /\ (Signal \/ PauseOrResume \/ Tick)

\* runDaemon's goroutine, those of the servers and the clock go on. Of the
\* scheduler nothing is assumed: a crawl may hang.
Fairness ==
  /\ WF_vars(RunDaemon)
  /\ \A w \in Servers : WF_vars(Server(w))
  /\ WF_vars(Running /\ Tick)

Spec == Init /\ [][Next]_vars /\ Fairness

-----------------------------------------------------------------------------
\* Properties

Errors == {"nil", "canceled", "store", "listen"}

Message == [loop : Loops, err : Errors]

\* The channel holds one message of each loop at most.
MainOK ==
  /\ main \in {"select", "returned"} /\ firstErr \in Loops \cup {None}
  /\ received \subseteq Message /\ errCh \in Seq(Message)
  /\ \A i, j \in DOMAIN errCh : errCh[i].loop = errCh[j].loop => i = j

ClockOK ==
  /\ elapsed \in 0..Grace /\ deadline \in {Grace, NoTimer}
  /\ server \in [Servers -> {"up", "broken", "closing", "done"}]
  /\ due \in [Servers -> {ShutdownWait, NoTimer}]

LoopOK ==
  /\ pc \in {"top", "parked", "list", "batch", "crawl", "verdict", "titles",
             "sleep", "done"}
  /\ left \in 0..MaxBatch
  /\ crawled \in {"none", "ok", "dead", "duplicate", "proxy", "error"}
  /\ proxyFailureRuns \in 0..MaxCycles /\ fruitless \in 0..MaxCycles
  /\ sleepFor \in {0, 5, 15, 30, 60}

FlagsOK ==
  /\ signalled \in BOOLEAN /\ cancelled \in BOOLEAN
  /\ proxyFailureOnly \in BOOLEAN /\ paused \in BOOLEAN
  /\ listed \in BOOLEAN /\ contact \in BOOLEAN

\* The type invariant of the goroutines and of what they share.
TypeOK == MainOK /\ ClockOK /\ LoopOK /\ FlagsOK

\* daemon.go:32-36: the process ends when all loops have, or after the grace
\* period, and then only the scheduler can have been abandoned: the servers'
\* shutdown is shorter than the grace. It reports an error exactly when a loop
\* failed for a reason of its own; without one it was asked to stop, and the
\* loops' echoes of the cancellation are no failure that systemd would answer
\* with a restart.
EndsInOrder ==
  main = "returned" =>
    /\ Servers \subseteq { r.loop : r \in received }
    /\ "scheduler" \in { r.loop : r \in received } \/ elapsed = Grace
    /\ firstErr # None <=> \E r \in received : r.err \in {"store", "listen"}
    /\ firstErr = None => signalled

\* scheduler.go:174-180: the sleep grows with the cycles in a row that brought
\* no contact with 115, and any other finished cycle resets it; cycles that a
\* pause has cut short do neither. (A cycle of duplicates only counts as one
\* of proxy failures.)
SleepMatchesStreak ==
  pc = "sleep" =>
    sleepFor = IF fruitless = 0 THEN 0 ELSE ProxyBackoff(fruitless)

\* daemon.go:32-36: once a signal has come or a loop has failed, the process
\* ends, even if the scheduler never returns.
EventuallyEnds ==
  signalled \/ (\E i \in DOMAIN errCh : Real(errCh[i].err)) ~> main = "returned"
=============================================================================
