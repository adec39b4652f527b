----------------------------- MODULE DaemonProofs -----------------------------
(***************************************************************************)
(* Proofs about Daemon for every set of servers and every bound.           *)
(*                                                                         *)
(* The argument: a loop is done exactly when its one message is in the     *)
(* channel or received. The clock stands still while a server has not      *)
(* begun to shut down, while one is past its timeout, and while a message  *)
(* is unread; so when the grace period is over every server's message has  *)
(* been read. And the loop's own count of cycles without contact is the    *)
(* true one, since a verdict updates both sides of it alike.               *)
(***************************************************************************)
EXTENDS Daemon, SequenceTheorems, TLAPS

\* The messages that runDaemon has not received yet.
Waiting == { errCh[i] : i \in DOMAIN errCh }

Done(w) == IF w = "scheduler" THEN pc = "done" ELSE server[w] = "done"

\* A loop is done when it has sent its message, which is read once.
Channel ==
  /\ \A w \in Loops : Done(w) <=> \E m \in Waiting \cup received : m.loop = w
  /\ \A m \in Waiting, r \in received : m.loop # r.loop

\* Nobody gives up before the context is cancelled.
Cancellation ==
  /\ \A m \in Waiting \cup received : m.err \in {"nil", "canceled"} => cancelled
  /\ \A w \in Servers : server[w] = "closing" => cancelled
  /\ deadline # NoTimer => cancelled

\* The context is cancelled for a reason: a signal, or an error received.
Cause ==
  /\ cancelled => signalled \/ firstErr # None
  /\ firstErr # None <=> \E r \in received : r.err \in {"store", "listen"}

\* Time has passed no further than the servers' timeouts while one is not done
\* or its message is unread.
Clock ==
  /\ deadline = NoTimer => elapsed = 0
  /\ \A w \in Servers : server[w] \in {"up", "broken"} => elapsed = 0
  /\ \A w \in Servers : server[w] = "closing" =>
       due[w] = ShutdownWait /\ elapsed <= ShutdownWait
  /\ \A m \in Waiting : m.loop \in Servers => elapsed <= ShutdownWait

InCycle == {"batch", "crawl", "verdict", "titles"}

\* The loop's count is that of the cycles without contact, and neither outruns
\* the cycles.
Streak ==
  /\ proxyFailureRuns = fruitless
  /\ cycles \in 0..MaxCycles /\ fruitless <= cycles
  /\ pc = "list" => cycles < MaxCycles
  /\ pc \in InCycle => fruitless < cycles
  /\ pc \in {"crawl", "verdict"} => left > 0

\* In a cycle proxyFailureOnly says what it is named for, duplicates apart.
Contacts == pc \in InCycle => (proxyFailureOnly <=> listed /\ ~contact)

\* The inductive invariant.
IInv ==
  /\ TypeOK /\ Channel /\ Cancellation /\ Cause /\ Clock
  /\ Streak /\ Contacts /\ EndsInOrder /\ SleepMatchesStreak
-----------------------------------------------------------------------------
\* The channel

\* A message sent is a message that waits.
LEMMA AppendWaiting ==
  ASSUME MainOK, NEW m \in Message, errCh' = Append(errCh, m),
         \A n \in Waiting : n.loop # m.loop
  PROVE  /\ errCh' \in Seq(Message) /\ Waiting' = Waiting \cup {m}
         /\ \A i, j \in DOMAIN errCh' : errCh'[i].loop = errCh'[j].loop => i = j
<1>1. errCh \in Seq(Message)
  BY DEF MainOK
<1>2. /\ errCh' \in Seq(Message) /\ Len(errCh') = Len(errCh) + 1
      /\ \A i \in 1..Len(errCh) : errCh'[i] = errCh[i]
      /\ errCh'[Len(errCh) + 1] = m
  BY <1>1, AppendProperties
<1>3. DOMAIN errCh = 1..Len(errCh) /\ DOMAIN errCh' = 1..(Len(errCh) + 1) /\ Len(errCh) \in Nat
  BY <1>1, <1>2
<1>4. DOMAIN errCh' = DOMAIN errCh \cup {Len(errCh) + 1} /\ Len(errCh) + 1 \notin DOMAIN errCh
  BY <1>3
<1>5. \A i \in DOMAIN errCh : errCh'[i] = errCh[i] /\ errCh'[i].loop # m.loop
  BY <1>2, <1>3 DEF Waiting
<1>6. Waiting' = Waiting \cup {m}
  BY <1>2, <1>4, <1>5 DEF Waiting
<1>7. ASSUME NEW i \in DOMAIN errCh', NEW j \in DOMAIN errCh', errCh'[i].loop = errCh'[j].loop
      PROVE  i = j
  BY <1>2, <1>4, <1>5, <1>7 DEF MainOK
<1>8. QED
  BY <1>2, <1>6, <1>7

\* The message received is one that waited, and the only one of its loop.
LEMMA TailWaiting ==
  ASSUME MainOK, errCh # << >>, errCh' = Tail(errCh)
  PROVE  /\ Head(errCh) \in Waiting /\ Head(errCh) \in Message
         /\ errCh' \in Seq(Message) /\ Waiting' = Waiting \ {Head(errCh)}
         /\ \A i, j \in DOMAIN errCh' : errCh'[i].loop = errCh'[j].loop => i = j
         /\ \A n \in Waiting' : n.loop # Head(errCh).loop
<1>1. errCh \in Seq(Message) /\ Len(errCh) \in Nat /\ Len(errCh) > 0 /\ DOMAIN errCh = 1..Len(errCh)
  BY EmptySeq DEF MainOK
<1>2. /\ Head(errCh) = errCh[1] /\ 1 \in DOMAIN errCh
      /\ errCh' \in Seq(Message) /\ Len(errCh') = Len(errCh) - 1
      /\ \A i \in 1..Len(errCh') : errCh'[i] = errCh[i + 1]
  BY <1>1, HeadTailProperties
<1>3. DOMAIN errCh' = 1..(Len(errCh) - 1)
  BY <1>1, <1>2
<1>4. \A i \in DOMAIN errCh' : i + 1 \in DOMAIN errCh /\ i + 1 # 1 /\ errCh'[i] = errCh[i + 1]
  BY <1>1, <1>2, <1>3
<1>5. \A i \in DOMAIN errCh : i # 1 => i - 1 \in DOMAIN errCh' /\ errCh'[i - 1] = errCh[i]
  BY <1>1, <1>2, <1>3
<1>6. \A i, j \in DOMAIN errCh : errCh[i].loop = errCh[j].loop => i = j
  BY DEF MainOK
<1>7. \A i \in DOMAIN errCh' : errCh'[i].loop # Head(errCh).loop
  BY <1>2, <1>4, <1>6
<1>8. Waiting' = Waiting \ {Head(errCh)}
  <2>1. ASSUME NEW n \in Waiting' PROVE n \in Waiting \ {Head(errCh)}
    <3>1. PICK i \in DOMAIN errCh' : n = errCh'[i]
      BY <2>1 DEF Waiting
    <3>2. n.loop # Head(errCh).loop /\ n = errCh[i + 1] /\ i + 1 \in DOMAIN errCh
      BY <1>4, <1>7, <3>1
    <3>3. QED
      BY <3>2 DEF Waiting
  <2>2. ASSUME NEW n \in Waiting, n # Head(errCh) PROVE n \in Waiting'
    <3>1. PICK i \in DOMAIN errCh : n = errCh[i]
      BY <2>2 DEF Waiting
    <3>2. i # 1
      BY <1>2, <2>2, <3>1
    <3>3. i - 1 \in DOMAIN errCh' /\ n = errCh'[i - 1]
      BY <1>5, <3>1, <3>2
    <3>4. QED
      BY <3>3 DEF Waiting
  <2>3. QED
    BY <2>1, <2>2
<1>9. ASSUME NEW i \in DOMAIN errCh', NEW j \in DOMAIN errCh', errCh'[i].loop = errCh'[j].loop
      PROVE  i = j
  <2>1. i + 1 = j + 1
    BY <1>4, <1>6, <1>9
  <2>2. QED
    BY <1>1, <1>3, <2>1
<1>10. Head(errCh) \in Waiting /\ Head(errCh) \in Message
  BY <1>1, <1>2 DEF Waiting
<1>11. \A n \in Waiting' : n.loop # Head(errCh).loop
  BY <1>7 DEF Waiting
<1>12. errCh' \in Seq(Message)
  BY <1>2
<1>13. \A i, j \in DOMAIN errCh' : errCh'[i].loop = errCh'[j].loop => i = j
  BY <1>9
<1>14. QED
  BY <1>8, <1>10, <1>11, <1>12, <1>13

-----------------------------------------------------------------------------
\* The scheduler's steps, seen from runDaemon

\* It sends its message when it returns, and of its own accord only after the
\* cancellation.
LEMMA SchedulerStep ==
  ASSUME TypeOK, Scheduler
  PROVE  /\ main = "select" /\ UNCHANGED <<process, runDaemon, servers, paused>>
         /\ pc # "done"
         /\ \/ errCh' = errCh /\ pc' # "done"
            \/ \E err \in {"nil", "canceled", "store"} :
                 /\ Post("scheduler", err) /\ pc' = "done"
                 /\ err \in {"nil", "canceled"} => cancelled
<1>1. main = "select" /\ UNCHANGED <<process, runDaemon, servers, paused>>
  BY DEF Scheduler, Running
<1>2. /\ pc # "done"
      /\ \/ errCh' = errCh /\ pc' # "done"
         \/ \E err \in {"nil", "canceled", "store"} :
              /\ Post("scheduler", err) /\ pc' = "done"
              /\ err \in {"nil", "canceled"} => cancelled
  <2>1. CASE LoopTop \/ NextShare \/ CrawlShare
    BY <2>1 DEF LoopTop, NextShare, CrawlShare, Abandon
  <2>2. CASE WaitForResume \/ Sleep
    BY <2>2 DEF WaitForResume, Sleep, Return
  <2>3. CASE ListSharesForCrawl
    BY <2>3 DEF ListSharesForCrawl, StoreCall, ListShares, Return
  <2>4. CASE Verdict
    BY <2>4 DEF Verdict, StoreCall, Mark, Abandon, Return
  <2>5. CASE EndCycle
    BY <2>5 DEF EndCycle, StoreCall, DedupeTitles, Return
  <2>6. QED
    BY <2>1, <2>2, <2>3, <2>4, <2>5 DEF Scheduler
<1>3. QED
  BY <1>1, <1>2

-----------------------------------------------------------------------------
\* The loops, the channel and runDaemon

\* A loop sends its message when it is done, and an empty one or an echo only
\* under a cancelled context.
Sends(w, err) ==
  /\ ~Done(w) /\ Done(w)'
  /\ \A v \in Loops \ {w} : Done(v)' <=> Done(v)
  /\ Post(w, err) /\ received' = received
  /\ err \in {"nil", "canceled"} => cancelled

\* What a step may do to the channel.
LEMMA Traffic ==
  ASSUME TypeOK, Cancellation, [Next]_vars
  PROVE  \/ UNCHANGED <<errCh, received>> /\ \A w \in Loops : Done(w)' <=> Done(w)
         \/ \E w \in Loops, err \in Errors : Sends(w, err)
         \/ Receive /\ \A w \in Loops : Done(w)' <=> Done(w)
<1> USE DaemonAssumption
<1>1. CASE UNCHANGED vars
  BY <1>1 DEF vars, Done, runDaemon, loop, servers
<1>2. CASE RunDaemon
  BY <1>2 DEF RunDaemon, Receive, ArmGraceTimer, GraceExhausted, Done, servers, loop
<1>3. ASSUME NEW w \in Servers, Server(w)
      PROVE  \/ UNCHANGED <<errCh, received>> /\ \A v \in Loops : Done(v)' <=> Done(v)
             \/ \E v \in Loops, err \in Errors : Sends(v, err)
  <2> w # "scheduler" /\ w \in Loops /\ UNCHANGED <<pc, received>>
    BY <1>3 DEF Server, Loops, loop, runDaemon
  <2>1. CASE ReturnError(w)
    <3>1. Sends(w, "listen")
      BY <2>1 DEF ReturnError, Sends, Done, Loops, TypeOK, ClockOK
    <3>2. QED
      BY <3>1 DEF Errors
  <2>2. CASE Shutdown(w)
    BY <2>2 DEF Shutdown, Done, Loops, TypeOK, ClockOK
  <2>3. CASE ShutdownReturns(w)
    <3>1. Sends(w, "nil")
      BY <2>3 DEF ShutdownReturns, Sends, Done, Loops, TypeOK, ClockOK, Cancellation
    <3>2. QED
      BY <3>1 DEF Errors
  <2>4. QED
    BY <1>3, <2>1, <2>2, <2>3 DEF Server
<1>4. CASE ListenerFails
  BY <1>4 DEF ListenerFails, ListenAndServeFails, Done, Loops, TypeOK, ClockOK, loop, runDaemon
<1>5. CASE Scheduler
  <2> UNCHANGED <<received, server>> /\ "scheduler" \in Loops
    BY <1>5 DEF Scheduler, runDaemon, servers, Loops
  <2>1. CASE errCh' = errCh /\ pc' # "done"
    BY <1>5, <2>1, SchedulerStep DEF Done
  <2>2. ASSUME NEW err \in {"nil", "canceled", "store"}, Post("scheduler", err), pc' = "done",
               err \in {"nil", "canceled"} => cancelled
        PROVE  Sends("scheduler", err)
    BY <1>5, <2>2, SchedulerStep DEF Sends, Done
  <2>3. QED
    BY <1>5, <2>1, <2>2, SchedulerStep DEF Errors
<1>6. CASE Signal \/ PauseOrResume \/ Tick
  BY <1>6 DEF Signal, PauseOrResume, Tick, Done, servers, loop, runDaemon
<1>7. QED
  BY <1>1, <1>2, <1>3, <1>4, <1>5, <1>6 DEF Next

\* The context stays cancelled.
LEMMA CancelledStays ==
  ASSUME TypeOK, [Next]_vars
  PROVE  cancelled => cancelled'
<1>1. CASE UNCHANGED cancelled
  BY <1>1
<1>2. CASE RunDaemon
  BY <1>2 DEF RunDaemon, Receive, ArmGraceTimer, GraceExhausted, process
<1>3. CASE Signal
  BY <1>3 DEF Signal
<1>4. CASE PauseOrResume \/ Tick
  BY <1>4 DEF PauseOrResume, Tick, process
<1>5. QED
  BY <1>1, <1>2, <1>3, <1>4 DEF Next, vars, Server, ListenerFails, Scheduler, process

LEMMA ChannelKept ==
  ASSUME TypeOK, Cancellation, Channel, [Next]_vars
  PROVE  /\ Channel' /\ received' \subseteq Message /\ errCh' \in Seq(Message)
         /\ \A i, j \in DOMAIN errCh' : errCh'[i].loop = errCh'[j].loop => i = j
         /\ \A m \in Waiting' \cup received' : m.err \in {"nil", "canceled"} => cancelled'
         /\ \A n \in Waiting' \ Waiting : \E v \in Loops : n.loop = v /\ ~Done(v)
<1>1. cancelled => cancelled'
  BY CancelledStays
<1>2. CASE UNCHANGED <<errCh, received>> /\ \A w \in Loops : Done(w)' <=> Done(w)
  <2>1. Waiting' = Waiting
    BY <1>2 DEF Waiting
  <2>2. Channel'
    BY <1>2, <2>1 DEF Channel
  <2>3. \A i, j \in DOMAIN errCh' : errCh'[i].loop = errCh'[j].loop => i = j
    BY <1>2 DEF TypeOK, MainOK
  <2>4. QED
    BY <1>1, <1>2, <2>1, <2>2, <2>3 DEF Cancellation, TypeOK, MainOK
<1>3. ASSUME NEW w \in Loops, NEW err \in Errors, Sends(w, err)
      PROVE  /\ Channel' /\ received' \subseteq Message /\ errCh' \in Seq(Message)
             /\ \A i, j \in DOMAIN errCh' : errCh'[i].loop = errCh'[j].loop => i = j
             /\ \A m \in Waiting' \cup received' : m.err \in {"nil", "canceled"} => cancelled'
             /\ \A n \in Waiting' \ Waiting : \E v \in Loops : n.loop = v /\ ~Done(v)
  <2> DEFINE m == [loop |-> w, err |-> err]
  <2>1. m \in Message /\ m.loop = w /\ m.err = err
    BY DEF Message
  <2>2. errCh' = Append(errCh, m) /\ received' = received
    BY <1>3 DEF Sends, Post
  <2>3. \A n \in Waiting \cup received : n.loop # w
    BY <1>3 DEF Sends, Channel
  <2> HIDE DEF m
  <2>4. /\ errCh' \in Seq(Message) /\ Waiting' = Waiting \cup {m}
        /\ \A i, j \in DOMAIN errCh' : errCh'[i].loop = errCh'[j].loop => i = j
    BY <2>1, <2>2, <2>3, AppendWaiting DEF TypeOK
  <2>5. Channel'
    <3>1. \A v \in Loops : Done(v)' <=> \E n \in Waiting' \cup received' : n.loop = v
      BY <1>3, <2>1, <2>2, <2>3, <2>4 DEF Sends, Channel
    <3>2. \A n \in Waiting', r \in received' : n.loop # r.loop
      BY <2>1, <2>2, <2>3, <2>4 DEF Channel
    <3>3. QED
      BY <3>1, <3>2 DEF Channel
  <2>6. \A n \in Waiting' \cup received' : n.err \in {"nil", "canceled"} => cancelled'
    BY <1>1, <1>3, <2>1, <2>2, <2>4 DEF Sends, Cancellation
  <2>7. \A n \in Waiting' \ Waiting : \E v \in Loops : n.loop = v /\ ~Done(v)
    BY <1>3, <2>1, <2>4 DEF Sends
  <2>8. QED
    BY <2>2, <2>4, <2>5, <2>6, <2>7 DEF TypeOK, MainOK
<1>4. CASE Receive /\ \A w \in Loops : Done(w)' <=> Done(w)
  <2>1. errCh # << >> /\ errCh' = Tail(errCh) /\ received' = received \cup {Head(errCh)}
    BY <1>4 DEF Receive
  <2>2. /\ Head(errCh) \in Waiting /\ Head(errCh) \in Message
        /\ errCh' \in Seq(Message) /\ Waiting' = Waiting \ {Head(errCh)}
        /\ \A i, j \in DOMAIN errCh' : errCh'[i].loop = errCh'[j].loop => i = j
        /\ \A n \in Waiting' : n.loop # Head(errCh).loop
    BY <2>1, TailWaiting DEF TypeOK
  <2>3. Waiting' \cup received' = Waiting \cup received
    BY <2>1, <2>2
  <2>4. Channel'
    BY <1>4, <2>1, <2>2, <2>3 DEF Channel
  <2>5. received' \subseteq Message
    BY <2>1, <2>2 DEF TypeOK, MainOK
  <2>6. \A m \in Waiting' \cup received' : m.err \in {"nil", "canceled"} => cancelled'
    BY <1>1, <2>3 DEF Cancellation
  <2>7. QED
    BY <2>2, <2>4, <2>5, <2>6
<1>5. QED
  BY <1>2, <1>3, <1>4, Traffic

\* runDaemon returns once, and remembers the first real error.
LEMMA MainKept ==
  ASSUME TypeOK, Cancellation, Channel, [Next]_vars
  PROVE  MainOK'
<1>1. main' \in {"select", "returned"} /\ firstErr' \in Loops \cup {None}
  <2>1. CASE UNCHANGED <<main, firstErr>>
    BY <2>1 DEF TypeOK, MainOK
  <2>2. CASE RunDaemon
    <3>1. CASE Receive
      <4>1. Head(errCh) \in Message
        BY <3>1, TailWaiting DEF Receive, TypeOK
      <4>2. QED
        BY <3>1, <4>1 DEF Receive, Message, TypeOK, MainOK
    <3>2. QED
      BY <2>2, <3>1 DEF RunDaemon, ArmGraceTimer, GraceExhausted, TypeOK, MainOK
  <2>3. QED
    BY <2>1, <2>2 DEF Next, vars, runDaemon, Server, ListenerFails, Scheduler,
       Signal, PauseOrResume, Tick
<1>2. QED
  BY <1>1, ChannelKept DEF MainOK

\* What a step may do to a server.
LEMMA ServerSteps ==
  ASSUME TypeOK, Clock, Cancellation, [Next]_vars
  PROVE  /\ server' \in [Servers -> {"up", "broken", "closing", "done"}]
         /\ due' \in [Servers -> {ShutdownWait, NoTimer}]
         /\ server' = server => due' = due
         /\ server' # server => UNCHANGED <<elapsed, deadline>>
         /\ \A w \in Servers : server'[w] \in {"up", "broken"} => server[w] \in {"up", "broken"}
         /\ \A w \in Servers : server'[w] = "closing" =>
              \/ server[w] = "closing" /\ due'[w] = due[w]
              \/ cancelled /\ elapsed = 0 /\ due'[w] = ShutdownWait /\ server[w] # "closing"
<1> USE DaemonAssumption
<1>1. CASE UNCHANGED servers
  BY <1>1 DEF servers, TypeOK, ClockOK
<1>2. ASSUME NEW w \in Servers, Server(w)
      PROVE  /\ server' \in [Servers -> {"up", "broken", "closing", "done"}]
             /\ due' \in [Servers -> {ShutdownWait, NoTimer}]
             /\ server' # server /\ UNCHANGED <<elapsed, deadline>>
             /\ \A v \in Servers : server'[v] \in {"up", "broken"} => server[v] \in {"up", "broken"}
             /\ \A v \in Servers : server'[v] = "closing" =>
                  \/ server[v] = "closing" /\ due'[v] = due[v]
                  \/ cancelled /\ elapsed = 0 /\ due'[v] = ShutdownWait /\ server[v] # "closing"
  <2>1. UNCHANGED <<elapsed, deadline>>
    BY <1>2 DEF Server, process, runDaemon
  <2>2. CASE ReturnError(w)
    BY <2>1, <2>2 DEF ReturnError, TypeOK, ClockOK
  <2>3. CASE Shutdown(w)
    <3>1. elapsed = 0 /\ ShutdownDeadline = ShutdownWait /\ cancelled
      BY <2>3 DEF Shutdown, ShutdownDeadline, Clock
    <3>2. QED
      BY <2>1, <2>3, <3>1 DEF Shutdown, TypeOK, ClockOK
  <2>4. CASE ShutdownReturns(w)
    BY <2>1, <2>4 DEF ShutdownReturns, TypeOK, ClockOK
  <2>5. QED
    BY <1>2, <2>2, <2>3, <2>4 DEF Server
<1>3. CASE ListenerFails
  BY <1>3 DEF ListenerFails, ListenAndServeFails, TypeOK, ClockOK, process, runDaemon
<1>4. QED
  <2>1. \/ UNCHANGED servers \/ (\E w \in Servers : Server(w)) \/ ListenerFails
    BY DEF Next, vars, RunDaemon, Receive, ArmGraceTimer, GraceExhausted, Scheduler,
       Signal, PauseOrResume, Tick
  <2>2. QED
    BY <1>1, <1>2, <1>3, <2>1

\* What a step may do to the time.
LEMMA TimeSteps ==
  ASSUME TypeOK, Clock, [Next]_vars
  PROVE  \/ UNCHANGED <<elapsed, deadline>>
         \/ ArmGraceTimer /\ deadline' = Grace /\ elapsed = 0
         \/ Tick
<1>1. CASE ArmGraceTimer
  BY <1>1, DaemonAssumption DEF ArmGraceTimer, Clock
<1>2. QED
  BY <1>1 DEF Next, vars, process, runDaemon, RunDaemon, Receive, GraceExhausted,
     Server, ListenerFails, Scheduler, Signal, PauseOrResume

LEMMA ClockKept ==
  ASSUME TypeOK, Channel, Cancellation, Clock, [Next]_vars
  PROVE  ClockOK' /\ Clock'
<1> USE DaemonAssumption DEF NoTimer
<1>1. elapsed \in 0..Grace /\ deadline \in {Grace, NoTimer}
  BY DEF TypeOK, ClockOK
<1>2. CASE Tick
  <2>1. /\ elapsed' = elapsed + 1 /\ UNCHANGED <<deadline, server, due, errCh>>
        /\ deadline # NoTimer /\ elapsed < deadline /\ errCh = << >>
        /\ \A w \in Servers : server[w] # "done" => server[w] = "closing" /\ elapsed < due[w]
    BY <1>2 DEF Tick, runDaemon, servers
  <2>2. ClockOK'
    BY <1>1, <2>1 DEF TypeOK, ClockOK
  <2>3. Waiting' = {}
    BY <2>1 DEF Waiting
  <2>4. \A w \in Servers : server[w] = "closing" => elapsed + 1 <= ShutdownWait
    BY <1>1, <2>1 DEF Clock
  <2>5. Clock'
    BY <2>1, <2>3, <2>4 DEF Clock
  <2>6. QED
    BY <2>2, <2>5
<1>3. CASE elapsed' = elapsed /\ deadline' \in {deadline, Grace}
  <2>1. ClockOK'
    BY <1>1, <1>3, ServerSteps DEF ClockOK
  <2>2. deadline' = NoTimer => elapsed' = 0
    BY <1>1, <1>3 DEF Clock
  <2>3. \A w \in Servers : server'[w] \in {"up", "broken"} => elapsed' = 0
    BY <1>3, ServerSteps DEF Clock
  <2>4. \A w \in Servers : server'[w] = "closing" =>
          due'[w] = ShutdownWait /\ elapsed' <= ShutdownWait
    BY <1>3, ServerSteps DEF Clock
  <2>5. ASSUME NEW w \in Servers, server[w] # "done" PROVE elapsed <= ShutdownWait
    BY <1>1, <2>5 DEF Clock, TypeOK, ClockOK
  <2>6. ASSUME NEW n \in Waiting', n.loop \in Servers PROVE elapsed' <= ShutdownWait
    <3>1. CASE n \in Waiting
      BY <1>3, <2>6, <3>1 DEF Clock
    <3>2. CASE n \notin Waiting
      <4>1. ~Done(n.loop)
        BY <3>2, ChannelKept
      <4>2. QED
        BY <1>3, <2>5, <2>6, <4>1 DEF Done
    <3>3. QED
      BY <3>1, <3>2
  <2>7. QED
    BY <2>1, <2>2, <2>3, <2>4, <2>6 DEF Clock
<1>4. QED
  BY <1>2, <1>3, TimeSteps DEF ArmGraceTimer, process

\* Whoever failed or cancelled did so for a reason.
LEMMA CauseKept ==
  ASSUME TypeOK, Channel, Cancellation, Cause, [Next]_vars
  PROVE  Cause'
<1>1. CASE UNCHANGED <<cancelled, signalled, firstErr, received>>
  BY <1>1 DEF Cause
<1>2. CASE Receive /\ UNCHANGED signalled
  <2> DEFINE m == Head(errCh)
  <2>1. m \in Message /\ received' = received \cup {m}
    BY <1>2, TailWaiting DEF Receive, TypeOK
  <2>2. m.err \in Errors /\ m.loop \in Loops
    BY <2>1 DEF Message
  <2>3. None \notin Loops
    BY DaemonAssumption DEF None, Loops
  <2>4. Real(m.err) <=> m.err \in {"store", "listen"}
    BY <2>2 DEF Real, Errors
  <2>5. IF Real(m.err) /\ firstErr = None
        THEN firstErr' = m.loop /\ cancelled' = TRUE
        ELSE UNCHANGED <<firstErr, cancelled>>
    BY <1>2 DEF Receive
  <2> HIDE DEF m
  <2>6. firstErr' # None <=> firstErr # None \/ Real(m.err)
    BY <2>2, <2>3, <2>5
  <2>7. cancelled' => signalled' \/ firstErr' # None
    BY <1>2, <2>2, <2>3, <2>5 DEF Cause
  <2>8. (\E r \in received' : r.err \in {"store", "listen"})
          <=> (\E r \in received : r.err \in {"store", "listen"}) \/ Real(m.err)
    BY <2>1, <2>4
  <2>9. QED
    BY <2>6, <2>7, <2>8 DEF Cause
<1>3. CASE Signal
  BY <1>3 DEF Signal, runDaemon, Cause
<1>4. QED
  <2>1. CASE RunDaemon
    BY <1>1, <1>2, <2>1 DEF RunDaemon, Receive, ArmGraceTimer, GraceExhausted, process
  <2>2. CASE ~RunDaemon
    BY <1>1, <1>3, <2>2 DEF Next, vars, process, runDaemon, Server, ListenerFails, Scheduler,
       PauseOrResume, Tick
  <2>3. QED
    BY <2>1, <2>2

LEMMA CancellationKept ==
  ASSUME TypeOK, Channel, Cancellation, Clock, [Next]_vars
  PROVE  Cancellation'
<1>1. cancelled => cancelled'
  BY CancelledStays
<1>2. \A m \in Waiting' \cup received' : m.err \in {"nil", "canceled"} => cancelled'
  BY ChannelKept
<1>3. \A w \in Servers : server'[w] = "closing" => cancelled'
  BY <1>1, ServerSteps DEF Cancellation
<1>4. deadline' # NoTimer => cancelled'
  <2>1. CASE ArmGraceTimer
    BY <1>1, <2>1 DEF ArmGraceTimer
  <2>2. CASE UNCHANGED deadline
    BY <1>1, <2>2 DEF Cancellation
  <2>3. QED
    BY <2>1, <2>2, TimeSteps DEF Tick, runDaemon
<1>5. QED
  BY <1>2, <1>3, <1>4 DEF Cancellation

\* The two ways in which the process ends.
LEMMA EndsKept ==
  ASSUME TypeOK, Channel, Cancellation, Cause, Clock, EndsInOrder, [Next]_vars
  PROVE  EndsInOrder'
<1>1. Cause' /\ Cancellation' /\ Channel'
  BY CauseKept, CancellationKept, ChannelKept
<1>2. CASE Running /\ Receive
  <2> SUFFICES ASSUME main' = "returned" PROVE EndsInOrder'
    BY DEF EndsInOrder
  <2>1. { r.loop : r \in received' } = Loops
    BY <1>2 DEF Receive, Running
  <2>2. Servers \subseteq { r.loop : r \in received' } /\ "scheduler" \in { r.loop : r \in received' }
    BY <2>1 DEF Loops
  <2>3. firstErr' # None <=> \E r \in received' : r.err \in {"store", "listen"}
    BY <1>1 DEF Cause
  <2>4. ASSUME firstErr' = None PROVE signalled'
    <3>1. PICK r \in received' : r.loop = "scheduler"
      BY <2>2
    <3>2. r.err \in Errors
      BY ChannelKept DEF Message
    <3>3. r.err \in {"nil", "canceled"}
      BY <2>3, <2>4, <3>2 DEF Errors
    <3>4. cancelled'
      BY <1>1, <3>3 DEF Cancellation
    <3>5. QED
      BY <1>1, <2>4, <3>4 DEF Cause
  <2>5. QED
    BY <2>2, <2>3, <2>4 DEF EndsInOrder
<1>3. CASE GraceExhausted
  <2>1. deadline <= elapsed /\ UNCHANGED <<received, elapsed, firstErr, signalled>>
    BY <1>3 DEF GraceExhausted, GraceOver, process
  <2>2. elapsed = Grace /\ ShutdownWait < elapsed /\ elapsed # 0 /\ deadline # NoTimer
    BY <2>1, DaemonAssumption DEF TypeOK, ClockOK, NoTimer
  <2>3. ~(elapsed <= ShutdownWait)
    BY <2>2, DaemonAssumption
  <2>4. ASSUME NEW w \in Servers PROVE w \in { r.loop : r \in received }
    <3>1. server[w] = "done"
      BY <2>2, <2>3 DEF Clock, TypeOK, ClockOK
    <3>2. PICK m \in Waiting \cup received : m.loop = w
      BY <3>1, DaemonAssumption DEF Channel, Done, Loops
    <3>3. m \notin Waiting
      BY <2>3, <3>2 DEF Clock
    <3>4. QED
      BY <3>2, <3>3
  <2>5. firstErr = None => signalled
    BY <2>2 DEF Cancellation, Cause
  <2>6. QED
    BY <2>1, <2>2, <2>4, <2>5 DEF EndsInOrder, Cause
<1>4. CASE UNCHANGED vars
  BY <1>4 DEF vars, process, runDaemon, EndsInOrder
<1>5. CASE Running /\ UNCHANGED main
  BY <1>5 DEF Running, EndsInOrder
<1>6. QED
  BY <1>2, <1>3, <1>4, <1>5 DEF Next, RunDaemon, ArmGraceTimer, Server, ListenerFails, Scheduler,
     Running, Signal, PauseOrResume, Tick, runDaemon

-----------------------------------------------------------------------------
\* The scheduler's own count

LEMMA FlagsKept ==
  ASSUME TypeOK, [Next]_vars
  PROVE  FlagsOK'
<1>1. FlagsOK
  BY DEF TypeOK
<1>2. CASE UNCHANGED vars
  BY <1>1, <1>2 DEF vars, process, loop, cycle, FlagsOK
<1>3. CASE RunDaemon
  BY <1>1, <1>3 DEF RunDaemon, Receive, ArmGraceTimer, GraceExhausted, process, loop, cycle, FlagsOK
<1>4. CASE (\E w \in Servers : Server(w)) \/ ListenerFails
  BY <1>1, <1>4 DEF Server, ListenerFails, process, loop, cycle, FlagsOK
<1>5. CASE Signal \/ PauseOrResume \/ Tick
  BY <1>1, <1>5 DEF Signal, PauseOrResume, Tick, process, loop, cycle, FlagsOK
<1>6. CASE Scheduler
  <2>1. signalled' = signalled /\ cancelled' = cancelled /\ paused' = paused
    BY <1>6 DEF Scheduler, process
  <2>2. proxyFailureOnly' \in BOOLEAN /\ listed' \in BOOLEAN /\ contact' \in BOOLEAN
    <3>1. CASE LoopTop \/ WaitForResume \/ CrawlShare \/ Sleep
      BY <1>1, <3>1 DEF LoopTop, WaitForResume, CrawlShare, Sleep, cycle, FlagsOK
    <3>2. CASE ListSharesForCrawl
      <4>1. CASE ListShares
        <5>1. CASE left' > 0
          BY <4>1, <5>1 DEF ListShares
        <5>2. CASE ~(left' > 0)
          <6>1. (left' > 0) = FALSE
            BY <5>2
          <6>2. proxyFailureOnly' = FALSE /\ listed' = FALSE /\ contact' = FALSE
            BY <4>1, <6>1 DEF ListShares
          <6>3. QED
            BY <6>2
        <5>3. QED
          BY <5>1, <5>2
      <4>2. QED
        BY <1>1, <3>2, <4>1 DEF ListSharesForCrawl, StoreCall, cycle, FlagsOK
    <3>3. CASE NextShare
      BY <1>1, <3>3 DEF NextShare, Abandon, RunOnceReturns, cycle, FlagsOK
    <3>4. CASE Verdict
      BY <1>1, <3>4 DEF Verdict, StoreCall, Mark, Abandon, RunOnceReturns, cycle, FlagsOK
    <3>5. CASE EndCycle
      BY <1>1, <3>5 DEF EndCycle, StoreCall, DedupeTitles, RunOnceReturns, cycle, FlagsOK
    <3>6. QED
      BY <1>6, <3>1, <3>2, <3>3, <3>4, <3>5 DEF Scheduler
  <2>3. QED
    BY <1>1, <2>1, <2>2 DEF FlagsOK
<1>7. QED
  BY <1>2, <1>3, <1>4, <1>5, <1>6 DEF Next

\* The arithmetic of the streak, the sleep and the batch.
Counted ==
  /\ LoopOK /\ Streak /\ Contacts /\ SleepMatchesStreak

\* A finished cycle counts on both sides, or resets both.
LEMMA FinishedCycle ==
  ASSUME Counted, pc = "titles", DedupeTitles
  PROVE  Counted'
<1> USE DaemonAssumption
<1>1. /\ proxyFailureRuns = fruitless /\ fruitless \in Nat /\ fruitless < cycles
      /\ cycles \in 0..MaxCycles
  BY DEF Counted, LoopOK, Streak, InCycle
<1>2. /\ pc' = "sleep" /\ left' = 0 /\ crawled' = "none" /\ cycles' = cycles
      /\ sleepFor' = IF proxyFailureOnly THEN ProxyBackoff(RunsAfter) ELSE 0
      /\ proxyFailureRuns' = RunsAfter
      /\ fruitless' = IF listed /\ ~contact THEN fruitless + 1 ELSE 0
  BY DEF DedupeTitles, RunOnceReturns
<1>3. proxyFailureOnly <=> listed /\ ~contact
  BY DEF Counted, Contacts, InCycle
<1>4. CASE proxyFailureOnly
  <2>1. /\ proxyFailureRuns' = fruitless + 1 /\ fruitless' = fruitless + 1
        /\ sleepFor' = ProxyBackoff(fruitless + 1)
    BY <1>1, <1>2, <1>3, <1>4 DEF RunsAfter
  <2>2. QED
    BY <1>1, <1>2, <2>1 DEF Counted, LoopOK, Streak, Contacts, SleepMatchesStreak, InCycle, ProxyBackoff
<1>5. CASE ~proxyFailureOnly
  <2>1. proxyFailureRuns' = 0 /\ fruitless' = 0 /\ sleepFor' = 0
    BY <1>2, <1>3, <1>5 DEF RunsAfter
  <2>2. QED
    BY <1>1, <1>2, <2>1 DEF Counted, LoopOK, Streak, Contacts, SleepMatchesStreak, InCycle
<1>6. QED
  BY <1>4, <1>5

LEMMA CountKept ==
  ASSUME Counted, FlagsOK, [Next]_vars
  PROVE  Counted'
<1> USE DaemonAssumption DEF Counted
<1>1. CASE UNCHANGED loop
  BY <1>1 DEF loop, cycle, LoopOK, Streak, Contacts, SleepMatchesStreak, InCycle
<1>2. CASE LoopTop
  BY <1>2 DEF LoopTop, cycle, LoopOK, Streak, Contacts, SleepMatchesStreak, InCycle
<1>3. CASE WaitForResume \/ Sleep
  BY <1>3 DEF WaitForResume, Sleep, Return, cycle, LoopOK, Streak, Contacts, SleepMatchesStreak, InCycle
<1>4. ASSUME NEW err, Return(err),
             UNCHANGED <<cycle, proxyFailureRuns, sleepFor, listed, contact, fruitless, cycles>>
      PROVE  Counted'
  BY <1>4 DEF Return, cycle, LoopOK, Streak, Contacts, SleepMatchesStreak, InCycle
<1>5. ASSUME pc \in {"batch", "verdict"}, Abandon
      PROVE  Counted'
  BY <1>5 DEF Abandon, RunOnceReturns, LoopOK, Streak, Contacts, SleepMatchesStreak, InCycle
<1>6. CASE ListSharesForCrawl
  <2>1. CASE ListShares
    <3>1. LoopOK' /\ Streak' /\ SleepMatchesStreak'
      BY <1>6, <2>1 DEF ListSharesForCrawl, ListShares, LoopOK, Streak, SleepMatchesStreak, InCycle
    <3>2. Contacts'
      BY <2>1 DEF ListShares, Contacts
    <3>3. QED
      BY <3>1, <3>2
  <2>2. QED
    BY <1>4, <1>6, <2>1 DEF ListSharesForCrawl, StoreCall
<1>7. CASE NextShare
  <2>1. CASE left > 0 /\ paused
    BY <1>5, <1>7, <2>1 DEF NextShare
  <2>2. CASE ~(left > 0 /\ paused)
    <3>1. /\ pc = "batch" /\ pc' = IF left > 0 THEN "crawl" ELSE "titles"
          /\ UNCHANGED <<cycle, proxyFailureRuns, sleepFor, listed, contact, fruitless, cycles>>
      BY <1>7, <2>2 DEF NextShare
    <3>2. QED
      BY <3>1 DEF cycle, LoopOK, Streak, Contacts, SleepMatchesStreak, InCycle
  <2>3. QED
    BY <2>1, <2>2
<1>8. CASE CrawlShare
  BY <1>8 DEF CrawlShare, LoopOK, Streak, Contacts, SleepMatchesStreak, InCycle
<1>9. CASE Verdict
  <2>1. CASE Mark
    <3>1. CASE crawled \in {"proxy", "error"} /\ paused
      BY <1>5, <1>9, <2>1, <3>1 DEF Verdict, Mark
    <3>2. CASE ~(crawled \in {"proxy", "error"} /\ paused)
      <4>1. /\ pc = "verdict" /\ left' = left - 1 /\ crawled' = "none" /\ pc' = "batch"
            /\ UNCHANGED <<proxyFailureRuns, sleepFor, fruitless, cycles>>
        BY <1>9, <2>1, <3>2 DEF Verdict, Mark
      <4>2. LoopOK' /\ Streak' /\ SleepMatchesStreak'
        BY <4>1 DEF LoopOK, Streak, SleepMatchesStreak, InCycle
      <4>3. /\ proxyFailureOnly' = (proxyFailureOnly /\ StaysProxyFailure(crawled))
            /\ contact' = (contact \/ crawled \notin {"duplicate", "proxy"})
            /\ listed' = listed
        BY <2>1, <3>2 DEF Mark
      <4>4. Contacts'
        BY <4>1, <4>3 DEF Contacts, InCycle, StaysProxyFailure
      <4>5. QED
        BY <4>2, <4>4
    <3>3. QED
      BY <3>1, <3>2
  <2>2. QED
    BY <1>4, <1>9, <2>1 DEF Verdict, StoreCall
<1>10. CASE EndCycle
  BY <1>4, <1>10, FinishedCycle DEF EndCycle, StoreCall
<1>11. QED
  <2>1. UNCHANGED loop \/ Scheduler
    BY DEF Next, vars, RunDaemon, Receive, ArmGraceTimer, GraceExhausted, Server,
       ListenerFails, Signal, PauseOrResume, Tick
  <2>2. QED
    BY <1>1, <1>2, <1>3, <1>6, <1>7, <1>8, <1>9, <1>10, <2>1 DEF Scheduler

-----------------------------------------------------------------------------
\* The theorems

LEMMA InitInv == Init => IInv
<1> SUFFICES ASSUME Init PROVE IInv
  OBVIOUS
<1> USE DaemonAssumption DEF Init
<1>1. errCh \in Seq(Message) /\ DOMAIN errCh = {} /\ Waiting = {} /\ received = {}
  BY DEF Waiting
<1>2. MainOK /\ FlagsOK
  BY <1>1 DEF MainOK, FlagsOK
<1>3. ClockOK /\ LoopOK
  BY DEF ClockOK, LoopOK, NoTimer
<1>4. Channel
  BY <1>1 DEF Channel, Done, Loops
<1>5. Cancellation /\ Cause /\ EndsInOrder
  BY <1>1 DEF Cancellation, Cause, EndsInOrder
<1>6. Clock /\ Streak /\ Contacts /\ SleepMatchesStreak
  BY <1>1 DEF Clock, Streak, Contacts, SleepMatchesStreak, InCycle
<1>7. QED
  BY <1>2, <1>3, <1>4, <1>5, <1>6 DEF IInv, TypeOK

LEMMA NextInv == IInv /\ [Next]_vars => IInv'
<1> SUFFICES ASSUME IInv, [Next]_vars PROVE IInv'
  OBVIOUS
<1>1. /\ TypeOK /\ Channel /\ Cancellation /\ Cause /\ Clock /\ EndsInOrder
      /\ Counted /\ FlagsOK
  BY DEF IInv, TypeOK, Counted
<1>2. Counted'
  BY <1>1, CountKept
<1>3. MainOK' /\ ClockOK' /\ Clock' /\ Channel'
  BY <1>1, MainKept, ClockKept, ChannelKept
<1>4. FlagsOK'
  BY <1>1, FlagsKept
<1>5. Cancellation' /\ Cause' /\ EndsInOrder'
  BY <1>1, CancellationKept, CauseKept, EndsKept
<1>6. QED
  BY <1>2, <1>3, <1>4, <1>5 DEF IInv, TypeOK, Counted

\* The invariant is inductive.
THEOREM Inductive == Spec => []IInv
<1>1. QED
  BY InitInv, NextInv, PTL DEF Spec

\* Every goroutine's variables keep to their types, and each loop sends one
\* message at most, whatever the servers.
THEOREM TypeCorrect == Spec => []TypeOK
<1>1. IInv => TypeOK
  BY DEF IInv
<1>2. QED
  BY <1>1, Inductive, PTL

\* daemon.go:32-36: however the goroutines' steps interleave, the process ends
\* with every server shut down, without the scheduler only after the whole
\* grace period, and with an error exactly when a loop failed by itself.
THEOREM EndsWell == Spec => []EndsInOrder
<1>1. IInv => EndsInOrder
  BY DEF IInv
<1>2. QED
  BY <1>1, Inductive, PTL

\* scheduler.go:174-180: the backoff follows the cycles that made no contact,
\* whatever pauses, errors and duplicates came between.
THEOREM SleepIsRight == Spec => []SleepMatchesStreak
<1>1. IInv => SleepMatchesStreak
  BY DEF IInv
<1>2. QED
  BY <1>1, Inductive, PTL
=============================================================================
