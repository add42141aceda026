----------------------------- MODULE DemoProofs -----------------------------
(***************************************************************************)
(* Proofs about three classes of the demo applications: what stop and the  *)
(* queue of MBPermanentThread guarantee, for any number of callers and     *)
(* tasks; that the first session of MBMonitor uses no semaphore that is    *)
(* gone, for any number of calls; and that MBTimer never loses hold of a   *)
(* running timer, for any number of timers, although names are given out   *)
(* twice.                                                                  *)
(***************************************************************************)
EXTENDS MBTimer, MBMonitor, MBPermanentThread, SequenceTheorems, TLAPS

-----------------------------------------------------------------------------
(* MBPermanentThread: stop *)

Whats == Tasks \cup {Stop}
Requests == [what : Whats, by : Callers]

ThreadTypeOK ==
    /\ thread \in {"new", "test self", "test stopped", "in run loop", "in batch", "in __stop",
                   "leaving", "finished"}
    /\ innerThread \in BOOLEAN /\ stopped \in BOOLEAN /\ held \in BOOLEAN
    /\ performs \in Seq(Requests)
    /\ at \in [Callers -> {"idle", "checked", "read", "waiting"}]
    /\ request \in [Callers -> Whats]
    /\ target \in [Callers -> BOOLEAN]

\* Nobody has the object any more and nothing is queued: this stays so.
Abandoned == ~held /\ performs = <<>> /\ \A c \in Callers : at[c] = "idle"

\* A thread that leaves its loop has been told to, or was abandoned; stopped and
\* innerThread change one after the other, inside __stop.
StopInv ==
    /\ ~innerThread => stopped
    /\ stopped /\ innerThread => thread = "in __stop"
    /\ thread = "in __stop" => stopped /\ performs # <<>>
    /\ thread \in {"leaving", "finished"} => stopped \/ Abandoned
    /\ \A c \in Callers : at[c] = "read" /\ ~target[c] => ~innerThread
    /\ over # {} => stopped /\ ~innerThread

\* init
LEMMA InitStopInv == ThreadInit => ThreadTypeOK /\ StopInv
<1> SUFFICES ASSUME ThreadInit PROVE ThreadTypeOK /\ StopInv
  OBVIOUS
<1>1. ThreadTypeOK
  <2>1. performs \in Seq(Requests)
    BY DEF ThreadInit
  <2>2. QED
    BY <2>1 DEF ThreadInit, ThreadTypeOK, Whats
<1>2. StopInv
  BY DEF ThreadInit, StopInv
<1>3. QED
  BY <1>1, <1>2

\* What a queue is after a request was added or taken away
LEMMA QueueTypes ==
    ASSUME NEW q \in Seq(Requests)
    PROVE  /\ \A r \in Requests : Append(q, r) \in Seq(Requests) /\ Append(q, r) # <<>>
           /\ q # <<>> => Head(q) \in Requests /\ Tail(q) \in Seq(Requests)
<1>1. \A r \in Requests : Append(q, r) \in Seq(Requests) /\ Append(q, r) # <<>>
  BY AppendProperties
<1>2. q # <<>> => Head(q) \in Requests /\ Tail(q) \in Seq(Requests)
  BY HeadTailProperties
<1>3. QED
  BY <1>1, <1>2

\* Every step leaves the state well formed
LEMMA NextThreadTypeOK == ThreadTypeOK /\ StopInv /\ [ThreadNext]_threadVars => ThreadTypeOK'
<1> SUFFICES ASSUME ThreadTypeOK, StopInv, [ThreadNext]_threadVars PROVE ThreadTypeOK'
  OBVIOUS
<1> USE DEF ThreadTypeOK, caller, history
<1>1. CASE run \/ Release \/ TestSelf \/ TestStopped \/ PerformStop \/ RunModeReturns
  BY <1>1 DEF run, Release, TestSelf, TestStopped, PerformStop, RunModeReturns, Inner
<1>2. CASE PerformTask \/ StopDone
  BY <1>2, QueueTypes DEF PerformTask, StopDone, Inner, StopInv
<1>3. CASE Exit
  BY <1>3 DEF Exit, Inner
<1>4. ASSUME NEW c \in Callers, NEW what \in Whats, Call(c, what)
      PROVE  ThreadTypeOK'
  BY <1>4 DEF Call
<1>5. ASSUME NEW c \in Callers, ReadAgain(c) \/ SendRaises(c)
      PROVE  ThreadTypeOK'
  BY <1>5 DEF ReadAgain, SendRaises, Returns
<1>6. ASSUME NEW c \in Callers, SendToNil(c)
      PROVE  ThreadTypeOK'
  <2>1. stopped' \in BOOLEAN /\ innerThread' \in BOOLEAN
    BY <1>6 DEF SendToNil
  <2>2. QED
    BY <1>6, <2>1 DEF SendToNil, Returns
<1>7. ASSUME NEW c \in Callers, Send(c)
      PROVE  ThreadTypeOK'
  <2>1. [what |-> request[c], by |-> c] \in Requests
    BY DEF Requests
  <2>2. performs' \in Seq(Requests)
    BY <1>7, <2>1, QueueTypes DEF Send
  <2>3. at' \in [Callers -> {"idle", "checked", "read", "waiting"}]
    BY <1>7 DEF Send, Returns
  <2>4. QED
    BY <1>7, <2>2, <2>3 DEF Send
<1>8. CASE UNCHANGED threadVars
  BY <1>8 DEF threadVars
<1>9. QED
  BY <1>1, <1>2, <1>3, <1>4, <1>5, <1>6, <1>7, <1>8
     DEF ThreadNext, InnerNext, CallerNext, excuteTaskBlock, stop, Whats

\* Every step keeps what is known of stop
LEMMA NextStopInv == ThreadTypeOK /\ StopInv /\ [ThreadNext]_threadVars => StopInv'
<1> SUFFICES ASSUME ThreadTypeOK, StopInv, [ThreadNext]_threadVars PROVE StopInv'
  OBVIOUS
<1> USE DEF ThreadTypeOK, StopInv, Abandoned, caller, history
<1>1. CASE run \/ Release \/ RunModeReturns
  <2>1. CASE run
    BY <2>1 DEF run
  <2>2. CASE Release
    BY <2>2 DEF Release
  <2>3. CASE RunModeReturns
    BY <2>3 DEF RunModeReturns, Inner
  <2>4. QED
    BY <1>1, <2>1, <2>2, <2>3
<1>2. CASE TestSelf
  BY <1>2 DEF TestSelf, Inner, Alive
<1>3. CASE TestStopped
  BY <1>3 DEF TestStopped, Inner
<1>4. CASE PerformTask
  BY <1>4 DEF PerformTask
<1>5. CASE PerformStop
  BY <1>5 DEF PerformStop
<1>6. CASE StopDone
  <2>1. stopped' /\ ~innerThread' /\ thread' = "in batch"
    BY <1>6 DEF StopDone, Inner
  <2>2. QED
    BY <2>1
<1>7. CASE Exit
  <2>1. /\ thread = "leaving" /\ thread' = "finished" /\ performs' = <<>>
        /\ UNCHANGED <<innerThread, stopped, held, target>>
        /\ \A c \in Callers : at'[c] = IF at[c] = "waiting" THEN "idle" ELSE at[c]
        /\ over' = over \cup {c \in Callers : at[c] = "waiting"}
    BY <1>7 DEF Exit, Inner
  <2>2. (stopped /\ ~innerThread) \/ Abandoned
    BY <2>1
  <2>3. stopped \/ Abandoned'
    BY <2>1, <2>2
  <2>4. over' # {} => stopped /\ ~innerThread
    BY <2>1, <2>2
  <2>5. QED
    BY <2>1, <2>3, <2>4
<1>8. ASSUME NEW c \in Callers, NEW what \in Whats, Call(c, what)
      PROVE  StopInv'
  <2>1. /\ UNCHANGED <<thread, innerThread, stopped, performs, held, target>> /\ held
        /\ \A d \in Callers : at'[d] = "read" => at[d] = "read"
        /\ over' # {} => over # {} \/ ~innerThread
    BY <1>8 DEF Call
  <2>2. QED
    BY <2>1
<1>9. ASSUME NEW c \in Callers, ReadAgain(c)
      PROVE  StopInv'
  <2>1. /\ UNCHANGED <<thread, innerThread, stopped, performs, held, over>> /\ at[c] = "checked"
        /\ \A d \in Callers : at'[d] = "read" /\ ~target'[d] => ~innerThread
    BY <1>9 DEF ReadAgain
  <2>2. QED
    BY <2>1
<1>10. ASSUME NEW c \in Callers, SendToNil(c)
       PROVE  StopInv'
  <2>1. /\ UNCHANGED <<thread, performs, held, target>> /\ at[c] = "read" /\ ~target[c]
        /\ stopped' /\ ~innerThread' /\ \A d \in Callers : at'[d] = "read" => at[d] = "read"
    BY <1>10 DEF SendToNil, Returns
  <2>2. QED
    BY <2>1
<1>11. ASSUME NEW c \in Callers, SendRaises(c)
       PROVE  StopInv'
  <2>1. /\ UNCHANGED <<thread, innerThread, stopped, performs, held, target>> /\ at[c] = "read"
        /\ thread = "finished" /\ \A d \in Callers : at'[d] = "read" => at[d] = "read"
    BY <1>11 DEF SendRaises, Returns
  <2>2. stopped /\ ~innerThread
    BY <2>1
  <2>3. QED
    BY <2>1, <2>2
<1>12. ASSUME NEW c \in Callers, Send(c)
       PROVE  StopInv'
  <2>1. /\ UNCHANGED <<thread, innerThread, stopped, held, target>> /\ at[c] = "read"
        /\ over' = over
        /\ thread # "finished" /\ \A d \in Callers : at'[d] = "read" => at[d] = "read"
    BY <1>12 DEF Send, Returns
  <2>2. performs' # <<>>
    <3>1. [what |-> request[c], by |-> c] \in Requests
      BY DEF Requests
    <3>2. QED
      BY <1>12, <3>1, QueueTypes DEF Send
  <2>3. thread = "leaving" => stopped
    BY <2>1
  <2>4. QED
    BY <2>1, <2>2, <2>3
<1>13. CASE UNCHANGED threadVars
  BY <1>13 DEF threadVars
<1>14. QED
  BY <1>1, <1>2, <1>3, <1>4, <1>5, <1>6, <1>7, <1>8, <1>9, <1>10, <1>11, <1>12, <1>13
     DEF ThreadNext, InnerNext, CallerNext, excuteTaskBlock, stop, Whats

-----------------------------------------------------------------------------
(* MBPermanentThread: the tasks *)

\* A task is in the queue, or there and before every __stop.
QueuedTask(x) == \E i \in DOMAIN performs : performs[i].what = x
BeforeStop(x) ==
    \E i \in DOMAIN performs :
        performs[i].what = x /\ \A j \in DOMAIN performs : j <= i => performs[j].what # Stop

\* NoTaskLost is not inductive: when __stop comes to the head of the queue, what was
\* queued before the first one has run because the queue kept its order.
TaskInv ==
    IF stopped THEN ahead \subseteq ran
    ELSE /\ strayed = {}
         /\ \A x \in accepted : x \in ran \/ QueuedTask(x)
         /\ \A x \in ahead : x \in ran \/ BeforeStop(x)

\* What a request at the end of the queue adds
LEMMA QueueAppend ==
    ASSUME NEW r \in Requests, performs \in Seq(Requests), performs' = Append(performs, r)
    PROVE  /\ \A x : QueuedTask(x) => QueuedTask(x)'
           /\ QueuedTask(r.what)'
           /\ \A x : BeforeStop(x) => BeforeStop(x)'
           /\ ~StopQueued => \A x : x # Stop /\ QueuedTask(x) => BeforeStop(x)'
<1>1. /\ Len(performs) \in Nat /\ DOMAIN performs = 1 .. Len(performs)
      /\ DOMAIN performs' = 1 .. Len(performs) + 1
      /\ \A i \in DOMAIN performs : performs'[i] = performs[i]
      /\ performs'[Len(performs) + 1] = r
  BY AppendProperties
<1>2. \A x : QueuedTask(x) => QueuedTask(x)'
  BY <1>1 DEF QueuedTask
<1>3. QueuedTask(r.what)'
  BY <1>1 DEF QueuedTask
<1>4. \A x : BeforeStop(x) => BeforeStop(x)'
  BY <1>1 DEF BeforeStop
<1>5. ~StopQueued => \A x : x # Stop /\ QueuedTask(x) => BeforeStop(x)'
  BY <1>1 DEF BeforeStop, QueuedTask, StopQueued
<1>6. QED
  BY <1>2, <1>3, <1>4, <1>5

\* What taking the first request away leaves
LEMMA QueueTail ==
    ASSUME performs \in Seq(Requests), performs # <<>>, performs' = Tail(performs)
    PROVE  /\ \A x : QueuedTask(x) => QueuedTask(x)' \/ x = Head(performs).what
           /\ \A x : BeforeStop(x) => BeforeStop(x)' \/ x = Head(performs).what
<1>1. /\ Len(performs) \in Nat \ {0} /\ DOMAIN performs = 1 .. Len(performs)
      /\ DOMAIN performs' = 1 .. Len(performs) - 1 /\ Head(performs) = performs[1]
      /\ \A i \in 1 .. Len(performs) - 1 : performs'[i] = performs[i + 1]
  BY HeadTailProperties, EmptySeq, LenProperties
<1>2. ASSUME NEW x, NEW i \in DOMAIN performs, performs[i].what = x, x # Head(performs).what
      PROVE  i - 1 \in DOMAIN performs' /\ performs'[i - 1] = performs[i]
  <2>1. i # 1 /\ i \in 1 .. Len(performs)
    BY <1>1, <1>2
  <2>2. i - 1 \in 1 .. Len(performs) - 1 /\ (i - 1) + 1 = i
    BY <1>1, <2>1
  <2>3. QED
    BY <1>1, <2>2
<1>3. \A x : QueuedTask(x) => QueuedTask(x)' \/ x = Head(performs).what
  BY <1>2 DEF QueuedTask
<1>4. ASSUME NEW x, BeforeStop(x), x # Head(performs).what
      PROVE  BeforeStop(x)'
  <2>1. PICK i \in DOMAIN performs :
          performs[i].what = x /\ \A j \in DOMAIN performs : j <= i => performs[j].what # Stop
    BY <1>4 DEF BeforeStop
  <2>2. i - 1 \in DOMAIN performs' /\ performs'[i - 1] = performs[i]
    BY <1>2, <1>4, <2>1
  <2>3. ASSUME NEW j \in DOMAIN performs', j <= i - 1
        PROVE  performs'[j].what # Stop
    <3>1. j + 1 \in DOMAIN performs /\ j + 1 <= i /\ performs'[j] = performs[j + 1]
      BY <1>1, <2>3
    <3>2. QED
      BY <2>1, <3>1
  <2>4. QED
    BY <2>1, <2>2, <2>3 DEF BeforeStop
<1>5. QED
  BY <1>3, <1>4

\* What leaves the queue and the history alone keeps the invariant
LEMMA TasksKept ==
    ASSUME TaskInv, UNCHANGED <<performs, stopped, ran, accepted, strayed, ahead>>
    PROVE  TaskInv'
<1>1. \A x : (QueuedTask(x)' <=> QueuedTask(x)) /\ (BeforeStop(x)' <=> BeforeStop(x))
  BY DEF QueuedTask, BeforeStop
<1>2. QED
  BY <1>1 DEF TaskInv

\* Every step keeps the tasks
LEMMA NextTaskInv ==
    ASSUME ThreadTypeOK, StopInv, TaskInv, [ThreadNext]_threadVars
    PROVE  TaskInv'
<1> USE DEF caller, history
<1>0. performs \in Seq(Requests)
  BY DEF ThreadTypeOK
<1>1. CASE run \/ Release \/ TestSelf \/ TestStopped \/ RunModeReturns
  BY <1>1, TasksKept DEF run, Release, TestSelf, TestStopped, RunModeReturns, Inner
<1>2. CASE PerformTask
  <2>1. /\ performs # <<>> /\ performs' = Tail(performs) /\ ran' = ran \cup {Head(performs).what}
        /\ UNCHANGED <<stopped, accepted, strayed, ahead>>
    BY <1>2 DEF PerformTask
  <2>2. QED
    BY <1>0, <2>1, QueueTail DEF TaskInv
<1>3. CASE PerformStop
  <2>1. /\ performs # <<>> /\ Head(performs).what = Stop /\ stopped'
        /\ UNCHANGED <<ran, ahead>>
    BY <1>3 DEF PerformStop
  <2>2. 1 \in DOMAIN performs /\ performs[1].what = Stop
    BY <1>0, <2>1, HeadTailProperties, EmptySeq, LenProperties
  <2>3. \A x : ~BeforeStop(x)
    <3>1. \A i \in DOMAIN performs : 1 <= i
      BY <1>0, LenProperties
    <3>2. QED
      BY <2>2, <3>1 DEF BeforeStop
  <2>4. ahead \subseteq ran
    BY <2>3 DEF TaskInv
  <2>5. QED
    BY <2>1, <2>4 DEF TaskInv
<1>4. CASE StopDone
  <2>1. stopped /\ UNCHANGED <<stopped, ran, ahead>>
    BY <1>4 DEF StopDone, Inner, StopInv
  <2>2. QED
    BY <2>1 DEF TaskInv
<1>5. CASE Exit
  <2>1. performs' = <<>> /\ thread = "leaving" /\ UNCHANGED <<stopped, ran, accepted, strayed, ahead>>
    BY <1>5 DEF Exit, Inner
  <2>2. stopped \/ performs = <<>>
    BY <2>1 DEF StopInv, Abandoned
  <2>3. CASE stopped
    BY <2>1, <2>3 DEF TaskInv
  <2>4. CASE performs = <<>>
    BY <2>1, <2>4, TasksKept
  <2>5. QED
    BY <2>2, <2>3, <2>4
<1>6. ASSUME NEW c \in Callers, NEW what, Call(c, what)
      PROVE  TaskInv'
  BY <1>6, TasksKept DEF Call
<1>7. ASSUME NEW c \in Callers, ReadAgain(c) \/ SendRaises(c)
      PROVE  TaskInv'
  BY <1>7, TasksKept DEF ReadAgain, SendRaises
<1>8. ASSUME NEW c \in Callers, SendToNil(c)
      PROVE  TaskInv'
  <2>1. stopped /\ stopped' /\ UNCHANGED <<ran, ahead>>
    BY <1>8 DEF SendToNil, StopInv
  <2>2. QED
    BY <2>1 DEF TaskInv
<1>9. ASSUME NEW c \in Callers, Send(c)
      PROVE  TaskInv'
  <2> DEFINE r == [what |-> request[c], by |-> c]
  <2>1. /\ r \in Requests /\ r.what = request[c] /\ performs' = Append(performs, r)
        /\ UNCHANGED <<stopped, ran, strayed>>
    BY <1>9 DEF Send, Requests, ThreadTypeOK
  <2>2. CASE stopped
    <3>1. ahead' = ahead
      BY <1>9, <2>2 DEF Send
    <3>2. QED
      BY <2>1, <2>2, <3>1 DEF TaskInv
  <2>3. CASE ~stopped /\ request[c] # Stop
    <3>1. accepted' = accepted \cup {request[c]} /\ ahead' = ahead
      BY <1>9, <2>3 DEF Send
    <3>2. QED
      BY <1>0, <2>1, <2>3, <3>1, QueueAppend DEF TaskInv
  <2>4. CASE ~stopped /\ request[c] = Stop
    <3>1. accepted' = accepted /\ ahead' = IF StopQueued THEN ahead ELSE accepted
      BY <1>9, <2>4 DEF Send
    <3>2. \A x \in accepted : x \in ran \/ (~StopQueued => BeforeStop(x)')
      <4>1. ~StopQueued => ~QueuedTask(Stop)
        BY DEF StopQueued, QueuedTask
      <4>2. QED
        BY <1>0, <2>1, <2>4, <4>1, QueueAppend DEF TaskInv
    <3>3. \A x \in ahead' : x \in ran \/ BeforeStop(x)'
      BY <1>0, <2>1, <2>4, <3>1, <3>2, QueueAppend DEF TaskInv
    <3>4. \A x \in accepted' : x \in ran \/ QueuedTask(x)'
      BY <1>0, <2>1, <2>4, <3>1, QueueAppend DEF TaskInv
    <3>5. QED
      BY <2>1, <2>4, <3>3, <3>4 DEF TaskInv
  <2>5. QED
    BY <2>2, <2>3, <2>4
<1>10. CASE UNCHANGED threadVars
  BY <1>10, TasksKept DEF threadVars
<1>11. QED
  BY <1>1, <1>2, <1>3, <1>4, <1>5, <1>6, <1>7, <1>8, <1>9, <1>10
     DEF ThreadNext, InnerNext, CallerNext, excuteTaskBlock, stop

\* The invariant of the thread, for any number of callers and tasks
LEMMA ThreadInvAlways == ThreadSpec => [](ThreadTypeOK /\ StopInv /\ TaskInv)
<1>1. ThreadInit => ThreadTypeOK /\ StopInv /\ TaskInv
  BY InitStopInv DEF ThreadInit, TaskInv
<1>2. (ThreadTypeOK /\ StopInv /\ TaskInv) /\ [ThreadNext]_threadVars
        => (ThreadTypeOK /\ StopInv /\ TaskInv)'
  BY NextThreadTypeOK, NextStopInv, NextTaskInv
<1>3. QED
  BY <1>1, <1>2, PTL DEF ThreadSpec

\* However a call of stop ends (performed, returned early, invalidated, raised, or
\* performed on the caller's own thread), the thread has been told to stop and takes
\* no more calls.
THEOREM ThreadStops == ThreadSpec => []StopMeansStopped
<1>1. StopInv => StopMeansStopped
  BY DEF StopInv, StopMeansStopped
<1>2. QED
  BY <1>1, ThreadInvAlways, PTL

\* Every task that was queued before the first stop has run when the thread is
\* stopped, and until then no task is dropped or run on its caller's thread.
THEOREM ThreadKeepsTasks == ThreadSpec => []NoTaskLost
<1>1. TaskInv => NoTaskLost
  <2>1. \A x : QueuedTask(x) <=> x \in {performs[i].what : i \in DOMAIN performs}
    BY DEF QueuedTask
  <2>2. QED
    BY <2>1 DEF TaskInv, NoTaskLost
<1>2. QED
  BY <1>1, ThreadInvAlways, PTL

-----------------------------------------------------------------------------
(* MBMonitor: the first session *)

MonitorTypeOK == sessions \in 0 .. MaxSessions /\ DOMAIN monitor = Sessions

\* Before the first session nothing is there to use the semaphore.  During it,
\* the observer calls back only while it is installed, and the monitor gives up the
\* semaphore only after it was removed, which it stays until the next session.
SessionOne ==
    /\ main = "creating" => dispatchSemaphore # NULL /\ ~runLoopObserver
    /\ main = "in callback" => runLoopObserver
    /\ main = "creating" <=> monitor[1] = "none"
    /\ runLoopObserver => monitor[1] \in {"load", "waiting", "timed out", "look"}
    /\ dispatchSemaphore = NULL => monitor[1] \in {"none", "reset activity", "ended"}

FirstSession ==
    sessions <= 1 =>
        /\ ~crashed
        /\ \A s \in Sessions : s > sessions => monitor[s] = "none"
        /\ IF sessions = 1 THEN SessionOne ELSE main = "idle" /\ ~runLoopObserver

\* The one monitor there is during the first session
LEMMA OneMonitor ==
    ASSUME MonitorTypeOK, FirstSession, sessions <= 1, NEW s \in Sessions, monitor[s] # "none"
    PROVE  s = 1 /\ sessions = 1 /\ SessionOne
<1>1. s \in Nat /\ s > 0 /\ sessions \in Nat
  BY MonitorAssumption DEF MonitorTypeOK, Sessions
<1>2. ~(s > sessions)
  BY DEF FirstSession
<1>3. s = 1 /\ sessions = 1
  BY <1>1, <1>2
<1>4. QED
  BY <1>3 DEF FirstSession

\* A step of a monitor moves it from one place to another and crashes it only if the
\* semaphore it loads is gone
LEMMA MonitorMoves ==
    ASSUME MonitorTypeOK, FirstSession, NEW s \in Sessions, NEW old, NEW new, Monitor(s, old, new),
           old # "none", new # "none",
           SessionOne /\ s = 1 /\ monitor[1] = old =>
              /\ ~crashed'
              /\ runLoopObserver => new \in {"load", "waiting", "timed out", "look"}
              /\ dispatchSemaphore' = NULL => new \in {"reset activity", "ended"}
    PROVE  MonitorTypeOK' /\ FirstSession'
<1>1. /\ monitor[s] = old /\ monitor' = [monitor EXCEPT ![s] = new]
      /\ main' = main /\ sessions' = sessions /\ runLoopObserver' = runLoopObserver
  BY DEF Monitor, mainVars
<1>2. MonitorTypeOK'
  BY <1>1 DEF MonitorTypeOK
<1>3. ASSUME sessions <= 1 PROVE FirstSession'
  <2>1. s = 1 /\ sessions = 1 /\ SessionOne
    BY <1>1, <1>3, OneMonitor
  <2>2. monitor'[1] = new /\ \A u \in Sessions : u # 1 => monitor'[u] = monitor[u]
    BY <1>1, <2>1 DEF MonitorTypeOK
  <2>3. main # "creating"
    BY <1>1, <2>1 DEF SessionOne
  <2>4. /\ ~crashed'
        /\ runLoopObserver => new \in {"load", "waiting", "timed out", "look"}
        /\ dispatchSemaphore' = NULL => new \in {"reset activity", "ended"}
    BY <1>1, <2>1
  <2>5. SessionOne'
    BY <1>1, <2>1, <2>2, <2>3, <2>4 DEF SessionOne
  <2>6. \A u \in Sessions : u > sessions' => monitor'[u] = "none"
    <3>1. \A u \in Sessions : u > sessions' => u # 1 /\ monitor[u] = "none"
      BY <1>1, <1>3, <2>1 DEF FirstSession
    <3>2. QED
      BY <2>2, <3>1
  <2>7. sessions' = 1
    BY <1>1, <2>1
  <2>8. QED
    BY <2>4, <2>5, <2>6, <2>7 DEF FirstSession
<1>4. ASSUME ~(sessions <= 1) PROVE FirstSession'
  BY <1>1, <1>4 DEF FirstSession
<1>5. QED
  BY <1>2, <1>3, <1>4

\* Each step keeps what is known of the first session
LEMMA NextFirstSession ==
    MonitorTypeOK /\ FirstSession /\ [MonitorNext]_monitorVars => MonitorTypeOK' /\ FirstSession'
<1> SUFFICES ASSUME MonitorTypeOK, FirstSession, [MonitorNext]_monitorVars
             PROVE  MonitorTypeOK' /\ FirstSession'
  OBVIOUS
<1>0. sessions \in Nat /\ sessions <= MaxSessions /\ MaxSessions \in Nat
  BY MonitorAssumption DEF MonitorTypeOK
<1>1. CASE BeginCreates
  <2>1. CASE runLoopObserver
    BY <1>1, <2>1 DEF BeginCreates, MonitorTypeOK, FirstSession, SessionOne
  <2>2. CASE ~runLoopObserver
    <3>1. /\ sessions < MaxSessions /\ sessions' = sessions + 1 /\ dispatchSemaphore' = sessions'
          /\ main' = "creating" /\ monitor' = monitor
      BY <1>1, <2>2 DEF BeginCreates
    <3>2. (runLoopObserver' <=> FALSE) /\ (crashed' <=> FALSE)
      BY <1>1, <2>2 DEF BeginCreates
    <3>3. MonitorTypeOK'
      BY <1>0, <3>1 DEF MonitorTypeOK
    <3>4. sessions' <= 1 => sessions = 0 /\ sessions' = 1 /\ sessions <= 1
      BY <1>0, <3>1
    <3>5. \A s \in Sessions : s > 0
      BY <1>0 DEF Sessions
    <3>6. sessions' <= 1 => \A s \in Sessions : monitor'[s] = "none"
      BY <3>1, <3>4, <3>5 DEF FirstSession
    <3>7. 1 \in Sessions
      BY <1>0, <3>1 DEF Sessions
    <3>8. ASSUME sessions' <= 1 PROVE FirstSession'
      <4>1. sessions' = 1 /\ dispatchSemaphore' # NULL
        BY <3>1, <3>4, <3>8 DEF NULL
      <4>2. SessionOne'
        BY <3>1, <3>2, <3>6, <3>7, <3>8, <4>1 DEF SessionOne
      <4>3. QED
        BY <3>2, <3>6, <3>8, <4>1, <4>2 DEF FirstSession
    <3>9. QED
      BY <3>3, <3>8 DEF FirstSession
  <2>3. QED
    BY <2>1, <2>2
<1>2. CASE BeginObserves
  <2>1. /\ main = "creating" /\ main' = "idle" /\ monitor' = [monitor EXCEPT ![sessions] = "load"]
        /\ sessions' = sessions /\ dispatchSemaphore' = dispatchSemaphore
    BY <1>2 DEF BeginObserves
  <2>2. (runLoopObserver' <=> TRUE) /\ (crashed' <=> FALSE)
    BY <1>2 DEF BeginObserves
  <2>3. MonitorTypeOK'
    BY <2>1 DEF MonitorTypeOK
  <2>4. sessions' <= 1 => sessions = 1 /\ SessionOne /\ 1 \in Sessions
    BY <1>0, <2>1 DEF FirstSession, Sessions
  <2>5. sessions' <= 1 => /\ monitor'[1] = "load"
                          /\ \A s \in Sessions : s > sessions' => monitor'[s] = monitor[s] /\ s > sessions
    BY <1>0, <2>1, <2>4 DEF MonitorTypeOK
  <2>6. sessions' <= 1 => SessionOne'
    BY <2>1, <2>2, <2>4, <2>5 DEF SessionOne
  <2>7. sessions' <= 1 => \A s \in Sessions : s > sessions' => monitor'[s] = "none"
    BY <2>1, <2>5 DEF FirstSession
  <2>8. QED
    BY <2>1, <2>2, <2>3, <2>4, <2>6, <2>7 DEF FirstSession
<1>3. CASE endMonitor
  BY <1>3 DEF endMonitor, MonitorTypeOK, FirstSession, SessionOne
<1>4. ASSUME NEW a, CallBack(a)
      PROVE  MonitorTypeOK' /\ FirstSession'
  BY <1>4 DEF CallBack, MonitorTypeOK, FirstSession, SessionOne
<1>5. CASE Signal
  <2>1. /\ main = "in callback" /\ main' = "idle" /\ UNCHANGED <<sessions, dispatchSemaphore, monitor, runLoopObserver>>
        /\ dispatchSemaphore # NULL => crashed' = crashed
    BY <1>5 DEF Signal
  <2>2. sessions <= 1 => sessions = 1 /\ SessionOne
    BY <2>1 DEF FirstSession
  <2>3. sessions <= 1 => dispatchSemaphore # NULL
    BY <2>1, <2>2 DEF SessionOne
  <2>4. sessions <= 1 => ~crashed'
    BY <2>1, <2>3 DEF FirstSession
  <2>5. sessions <= 1 => SessionOne'
    BY <2>1, <2>2 DEF SessionOne
  <2>6. QED
    BY <2>1, <2>2, <2>4, <2>5 DEF FirstSession, MonitorTypeOK
<1>6. ASSUME NEW s \in Sessions, Load(s)
      PROVE  MonitorTypeOK' /\ FirstSession'
  <2>1. /\ Monitor(s, "load", "waiting") /\ dispatchSemaphore' = dispatchSemaphore
        /\ crashed' <=> dispatchSemaphore = NULL
    BY <1>6 DEF Load
  <2>2. QED
    BY <2>1, MonitorMoves DEF SessionOne
<1>7. ASSUME NEW s \in Sessions, WaitSucceeds(s) \/ WaitTimesOut(s) \/ Look(s)
      PROVE  MonitorTypeOK' /\ FirstSession'
  <2>1. CASE WaitSucceeds(s)
    <3>1. Monitor(s, "waiting", "load") /\ dispatchSemaphore' = dispatchSemaphore /\ ~crashed'
      BY <2>1 DEF WaitSucceeds, Monitor
    <3>2. QED
      BY <3>1, MonitorMoves DEF SessionOne
  <2>2. CASE WaitTimesOut(s)
    <3>1. Monitor(s, "waiting", "timed out") /\ dispatchSemaphore' = dispatchSemaphore /\ ~crashed'
      BY <2>2 DEF WaitTimesOut, Monitor
    <3>2. QED
      BY <3>1, MonitorMoves DEF SessionOne
  <2>3. CASE Look(s)
    <3>1. Monitor(s, "look", "load") /\ dispatchSemaphore' = dispatchSemaphore /\ ~crashed'
      BY <2>3 DEF Look, Monitor
    <3>2. QED
      BY <3>1, MonitorMoves DEF SessionOne
  <2>4. QED
    BY <1>7, <2>1, <2>2, <2>3
<1>8. ASSUME NEW s \in Sessions, TestObserver(s)
      PROVE  MonitorTypeOK' /\ FirstSession'
  <2>1. PICK to : /\ Monitor(s, "timed out", to) /\ dispatchSemaphore' = dispatchSemaphore /\ ~crashed'
                  /\ to = IF runLoopObserver THEN "look" ELSE "reset semaphore"
    BY <1>8 DEF TestObserver, Monitor
  <2>2. QED
    BY <2>1, MonitorMoves DEF SessionOne
<1>9. ASSUME NEW s \in Sessions, ResetSemaphore(s) \/ ResetActivity(s)
      PROVE  MonitorTypeOK' /\ FirstSession'
  <2>1. CASE ResetSemaphore(s)
    <3>1. Monitor(s, "reset semaphore", "reset activity") /\ ~crashed'
      BY <2>1 DEF ResetSemaphore, Monitor
    <3>2. QED
      BY <3>1, MonitorMoves DEF SessionOne
  <2>2. CASE ResetActivity(s)
    <3>1. Monitor(s, "reset activity", "ended") /\ ~crashed'
      BY <2>2 DEF ResetActivity, Monitor
    <3>2. QED
      BY <3>1, MonitorMoves DEF SessionOne
  <2>3. QED
    BY <1>9, <2>1, <2>2
<1>10. CASE UNCHANGED monitorVars
  BY <1>10 DEF monitorVars, mainVars, MonitorTypeOK, FirstSession, SessionOne
<1>11. QED
  BY <1>1, <1>2, <1>3, <1>4, <1>5, <1>6, <1>7, <1>8, <1>9, <1>10 DEF MonitorNext, MonitorStep

\* While there has been one session only, neither the observer nor the monitor uses
\* a semaphore that is not there, however often monitoring is begun and ended.
THEOREM MonitorFirstSession == MonitorSpec => []FirstSessionSafe
<1>1. ASSUME MonitorInit PROVE MonitorTypeOK /\ FirstSession
  <2>1. MonitorTypeOK
    BY <1>1, MonitorAssumption DEF MonitorInit, MonitorTypeOK
  <2>2. FirstSession
    BY <1>1 DEF MonitorInit, FirstSession
  <2>3. QED
    BY <2>1, <2>2
<1>2. FirstSession => FirstSessionSafe
  BY DEF FirstSession, FirstSessionSafe
<1>3. QED
  BY <1>1, <1>2, NextFirstSession, PTL DEF MonitorSpec

-----------------------------------------------------------------------------
(* MBTimer: timers and their names *)

Sources == {"none", "suspended", "active", "cancelled"}

Types ==
    /\ call \in [Timers -> {"none", "stored", "returned"}]
    /\ DOMAIN name = Timers
    /\ source \in [Timers -> Sources]

\* The dictionary holds timers that can still fire, each under its own name:
\* so a timer is stored once, and is gone when its entry is overwritten.
Entries ==
    \A n \in DOMAIN timers_ :
        /\ timers_[n] \in Timers
        /\ name[timers_[n]] = n
        /\ source[timers_[n]] \in {"suspended", "active"}

\* A source exists from the call of execTask on, and is resumed before it
\* returns.
Started ==
    \A t \in Timers :
        /\ call[t] = "none" => source[t] = "none"
        /\ call[t] = "returned" => source[t] # "suspended"

\* What is active is stored, unless execTask still refers to it.
Referenced ==
    \A t \in Timers :
        (call[t] = "returned" /\ source[t] = "active") => t \in Stored(timers_)

TimerInv == Types /\ Entries /\ Started /\ Referenced

\* Release changes nothing but active sources that nothing refers to.
LEMMA ReleasedSource ==
    ASSUME NEW src \in [Timers -> Sources], NEW dict, NEW calls
    PROVE  /\ Released(src, dict, calls) \in [Timers -> Sources]
           /\ \A t \in Timers :
                \/ Released(src, dict, calls)[t] = src[t]
                \/ /\ Released(src, dict, calls)[t] = "cancelled"
                   /\ src[t] = "active" /\ t \notin Stored(dict)
           /\ \A t \in Timers :
                (calls[t] = "returned" /\ Released(src, dict, calls)[t] = "active")
                    => t \in Stored(dict)
BY DEF Released, Sources

\* A step that changes the sources, as far as Released lets it, keeps the
\* invariant if it keeps the entries of the dictionary in order.
LEMMA SourceStep ==
    ASSUME TimerInv,
           NEW src, NEW dict,
           src \in [Timers -> Sources],
           timers_' = dict, source' = Released(src, dict, call'),
           call' \in [Timers -> {"none", "stored", "returned"}],
           DOMAIN name' = Timers,
           \A n \in DOMAIN dict : /\ dict[n] \in Timers
                                  /\ name'[dict[n]] = n
                                  /\ src[dict[n]] \in {"suspended", "active"},
           \A t \in Timers : /\ call'[t] = "none" => src[t] = "none"
                             /\ call'[t] = "returned" => src[t] # "suspended"
    PROVE  TimerInv'
<1>1. /\ source' \in [Timers -> Sources]
      /\ \A t \in Timers :
           \/ source'[t] = src[t]
           \/ source'[t] = "cancelled" /\ src[t] = "active" /\ t \notin Stored(dict)
      /\ \A t \in Timers :
           (call'[t] = "returned" /\ source'[t] = "active") => t \in Stored(dict)
  BY ReleasedSource
<1>2. \A n \in DOMAIN dict : dict[n] \in Stored(dict)
  BY DEF Stored, Range
<1>3. Types'
  BY <1>1 DEF Types
<1>4. Entries'
  BY <1>1, <1>2 DEF Entries
<1>5. Started'
  BY <1>1 DEF Started
<1>6. Referenced'
  BY <1>1 DEF Referenced
<1>7. QED
  BY <1>3, <1>4, <1>5, <1>6 DEF TimerInv

\* Cancelling by name keeps the invariant, whichever timer has the name.
LEMMA CancelKeepsInv ==
    ASSUME TimerInv, NEW n, cancelTask(n), UNCHANGED <<call, name>>
    PROVE  TimerInv'
<1> USE DEF TimerInv, Types, Entries, Started
<1>1. CASE n \in DOMAIN timers_
  <2> DEFINE t == timers_[n]
             dict == Restrict(timers_, DOMAIN timers_ \ {n})
             src == [source EXCEPT ![t] = "cancelled"]
  <2>1. timers_' = dict /\ source' = Released(src, dict, call')
    BY <1>1 DEF cancelTask
  <2>2. /\ src \in [Timers -> Sources]
        /\ \A u \in Timers : src[u] = IF u = t THEN "cancelled" ELSE source[u]
    BY <1>1 DEF Sources
  <2>3. /\ DOMAIN dict = DOMAIN timers_ \ {n}
        /\ \A m \in DOMAIN dict : dict[m] = timers_[m]
    BY DEF Restrict
  <2> HIDE DEF dict, src
  <2>4. \A m \in DOMAIN dict : /\ dict[m] \in Timers \ {t}
                               /\ name'[dict[m]] = m
                               /\ src[dict[m]] \in {"suspended", "active"}
    BY <1>1, <2>2, <2>3
  <2>5. \A u \in Timers : /\ call'[u] = "none" => src[u] = "none"
                          /\ call'[u] = "returned" => src[u] # "suspended"
    BY <1>1, <2>2
  <2>6. QED
    BY <2>1, <2>2, <2>4, <2>5, SourceStep
<1>2. CASE n \notin DOMAIN timers_
  <2>1. timers_' = timers_ /\ source' = Released(source, timers_, call')
    BY <1>2 DEF cancelTask
  <2>2. QED
    BY <2>1, SourceStep
<1>3. QED
  BY <1>1, <1>2

\* There are no timers yet.
LEMMA InitTimerInv == TimerInit => TimerInv
BY DEF TimerInit, TimerInv, Types, Entries, Started, Referenced, Sources, NoName

\* Every step keeps the invariant.
LEMMA NextTimerInv == TimerInv /\ [TimerNext]_timerVars => TimerInv'
<1> SUFFICES ASSUME TimerInv, [TimerNext]_timerVars
             PROVE  TimerInv'
  OBVIOUS
<1>1. ASSUME NEW t \in Timers, NEW rep \in BOOLEAN, Store(t, rep)
      PROVE  TimerInv'
  <2> USE DEF TimerInv, Types, Entries, Started
  <2> DEFINE new == Cardinality(DOMAIN timers_)
             dict == Put(timers_, new, t)
             src == [source EXCEPT ![t] = "suspended"]
  <2>1. /\ call[t] = "none"
        /\ timers_' = dict
        /\ name' = [name EXCEPT ![t] = new]
        /\ call' = [call EXCEPT ![t] = "stored"]
        /\ source' = Released(src, dict, call')
    BY <1>1 DEF Store
  <2>2. /\ src \in [Timers -> Sources]
        /\ \A u \in Timers : src[u] = IF u = t THEN "suspended" ELSE source[u]
    BY DEF Sources
  <2>3. /\ DOMAIN dict = DOMAIN timers_ \cup {new}
        /\ dict[new] = t
        /\ \A m \in DOMAIN dict \ {new} : dict[m] = timers_[m]
    BY DEF Put
  <2> HIDE DEF dict, src, new
  <2>4. \A m \in DOMAIN timers_ : timers_[m] # t
    BY <2>1
  <2>5. \A m \in DOMAIN dict : /\ dict[m] \in Timers
                               /\ name'[dict[m]] = m
                               /\ src[dict[m]] \in {"suspended", "active"}
    BY <2>1, <2>2, <2>3, <2>4
  <2>6. \A u \in Timers : /\ call'[u] = "none" => src[u] = "none"
                          /\ call'[u] = "returned" => src[u] # "suspended"
    BY <2>1, <2>2
  <2>7. /\ call' \in [Timers -> {"none", "stored", "returned"}]
        /\ DOMAIN name' = Timers
    BY <2>1
  <2>8. timers_' = dict /\ source' = Released(src, dict, call')
    BY <2>1
  <2> HIDE DEF TimerInv, Types, Entries, Started
  <2>9. QED
    BY <2>2, <2>5, <2>6, <2>7, <2>8, SourceStep
<1>2. ASSUME NEW t \in Timers, Resume(t)
      PROVE  TimerInv'
  BY <1>2 DEF Resume, TimerInv, Types, Entries, Started, Referenced, Sources,
              Stored, Range
<1>3. ASSUME NEW t \in Timers, ExecReturns(t)
      PROVE  TimerInv'
  <2>1. /\ source[t] # "suspended" /\ call[t] = "stored"
        /\ timers_' = timers_ /\ name' = name
        /\ call' = [call EXCEPT ![t] = "returned"]
        /\ source' = Released(source, timers_, call')
    BY <1>3 DEF ExecReturns
  <2>2. /\ call' \in [Timers -> {"none", "stored", "returned"}]
        /\ source \in [Timers -> Sources]
        /\ DOMAIN name' = Timers
    BY <2>1 DEF TimerInv, Types
  <2>3. \A m \in DOMAIN timers_ : /\ timers_[m] \in Timers
                                  /\ name'[timers_[m]] = m
                                  /\ source[timers_[m]] \in {"suspended", "active"}
    BY <2>1 DEF TimerInv, Entries
  <2>4. \A u \in Timers : /\ call'[u] = "none" => source[u] = "none"
                          /\ call'[u] = "returned" => source[u] # "suspended"
    BY <2>1 DEF TimerInv, Types, Started
  <2>5. QED
    BY <2>1, <2>2, <2>3, <2>4, SourceStep
<1>4. ASSUME NEW t \in Timers, Cancel(t)
      PROVE  TimerInv'
  BY <1>4, CancelKeepsInv DEF Cancel
<1>5. ASSUME NEW t \in Timers, Fire(t)
      PROVE  TimerInv'
  BY <1>5 DEF Fire, TimerInv, Types, Entries, Started, Referenced, Stored, Range
<1>6. ASSUME NEW t \in Timers, HandlerEnds(t)
      PROVE  TimerInv'
  <2>1. CASE repeats[t]
    <3>1. /\ UNCHANGED <<timers_, call, name>>
          /\ source' = Released(source, timers_, call')
      BY <1>6, <2>1 DEF HandlerEnds
    <3>2. QED
      BY <3>1, SourceStep DEF TimerInv, Types, Entries, Started
  <2>2. CASE ~repeats[t]
    BY <1>6, <2>2, CancelKeepsInv DEF HandlerEnds
  <2>3. QED
    BY <2>1, <2>2
<1>7. CASE UNCHANGED timerVars
  BY <1>7 DEF timerVars, TimerInv, Types, Entries, Started, Referenced, Stored, Range
<1>8. QED
  BY <1>1, <1>2, <1>3, <1>4, <1>5, <1>6, <1>7 DEF TimerNext

\* A timer that runs after execTask has returned is the one its name leads to:
\* it can be cancelled, even where two timers were given one name.
THEOREM RunningTimersCancellable == TimerSpec => []RunningIsCancellable
<1>1. TimerInv => RunningIsCancellable
  BY DEF TimerInv, Entries, Referenced, RunningIsCancellable, Stored, Range
<1>2. QED
  BY InitTimerInv, NextTimerInv, <1>1, PTL DEF TimerSpec

\* A name that is in use leads to a timer that can still fire.
THEOREM NamesLeadToLiveTimers == TimerSpec => []NoDeadEntry
<1>1. TimerInv => NoDeadEntry
  BY DEF TimerInv, Entries, NoDeadEntry
<1>2. QED
  BY InitTimerInv, NextTimerInv, <1>1, PTL DEF TimerSpec
=============================================================================
