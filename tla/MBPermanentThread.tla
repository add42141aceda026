------------------------- MODULE MBPermanentThread -------------------------
(***************************************************************************)
(* MBPermanentThread: a thread whose run loop is kept alive by a port and  *)
(* entered again and again until somebody calls stop or the object is      *)
(* gone.  Callers on other threads send it tasks and __stop with           *)
(* performSelector:onThread:, which queues a request that retains the      *)
(* object; the request of stop also makes its caller wait.  The property   *)
(* innerThread is read twice by every caller and cleared by the thread     *)
(* itself, without a lock.                                                 *)
(***************************************************************************)
EXTENDS Naturals, Sequences

CONSTANTS Callers,  \* threads that use the object
          Tasks     \* the blocks they submit, each one once

VARIABLES thread,       \* where the inner thread is
          innerThread,  \* is the property set?
          stopped,
          performs,     \* the requests queued for the run loop
          held,         \* does the owner still refer to the object?
          at,           \* at[c]: where caller c is in a method of the object
          request,      \* request[c]: what c wants performed
          target,       \* target[c]: was innerThread set when c read it again?
          accepted, ran, strayed,   \* history: tasks queued for the thread, run
                        \* by it, and run by their caller's thread instead
          ahead,        \* history: the tasks queued before the first stop was
          over          \* history: callers that a stop has returned to

threadVars == <<thread, innerThread, stopped, performs, held, at, request, target,
          accepted, ran, strayed, ahead, over>>
caller == <<at, request, target>>
history == <<accepted, ran, strayed, ahead, over>>

Stop == "stop"
StopQueued == \E i \in DOMAIN performs : performs[i].what = Stop

\* What keeps the object alive: its owner, a caller, a request in the queue.
Alive == held \/ performs # <<>> \/ \E c \in Callers : at[c] # "idle"

\* init
ThreadInit ==
    /\ thread = "new"
    /\ innerThread = TRUE
    /\ stopped = FALSE
    /\ performs = <<>>
    /\ held = TRUE
    /\ at = [c \in Callers |-> "idle"]
    /\ request = [c \in Callers |-> Stop]
    /\ target = [c \in Callers |-> FALSE]
    /\ accepted = {} /\ ran = {} /\ strayed = {} /\ ahead = {} /\ over = {}

-----------------------------------------------------------------------------
(* The callers *)

\* run: starts the thread (NSThread raises if it was started before)
run ==
    /\ held /\ innerThread /\ thread = "new"
    /\ thread' = "test self"
    /\ UNCHANGED <<innerThread, stopped, performs, held, caller, history>>

\* The owner lets go of the object.
Release ==
    /\ held /\ \A c \in Callers : at[c] = "idle"
    /\ held' = FALSE
    /\ UNCHANGED <<thread, innerThread, stopped, performs, caller, history>>

\* excuteTaskBlock or stop is called, and returns if innerThread is nil.
Call(c, what) ==
    /\ held /\ at[c] = "idle"
    /\ what \notin accepted \cup strayed
    /\ what # Stop => \A d \in Callers : at[d] = "idle" \/ request[d] # what
    /\ IF innerThread
         THEN /\ at' = [at EXCEPT ![c] = "checked"]
              /\ request' = [request EXCEPT ![c] = what]
              /\ UNCHANGED over
         ELSE /\ over' = IF what = Stop THEN over \cup {c} ELSE over
              /\ UNCHANGED <<at, request>>
    /\ UNCHANGED <<thread, innerThread, stopped, performs, held, target,
                   accepted, ran, strayed, ahead>>

excuteTaskBlock(c) == \E task \in Tasks : Call(c, task)
stop(c) == Call(c, Stop)

\* innerThread is read again for the argument of performSelector:onThread:
ReadAgain(c) ==
    /\ at[c] = "checked"
    /\ at' = [at EXCEPT ![c] = "read"]
    /\ target' = [target EXCEPT ![c] = innerThread]
    /\ UNCHANGED <<thread, innerThread, stopped, performs, held, request, history>>

Returns(c) ==
    /\ at' = [at EXCEPT ![c] = "idle"]
    /\ over' = IF request[c] = Stop THEN over \cup {c} ELSE over

\* performSelector:onThread: with a nil thread performs on the caller's own.
\* For __stop that stops the caller's run loop and stores what is stored
\* already.
SendToNil(c) ==
    /\ at[c] = "read" /\ ~target[c]
    /\ Returns(c)
    /\ strayed' = IF request[c] = Stop THEN strayed ELSE strayed \cup {request[c]}
    /\ stopped' = (stopped \/ request[c] = Stop)
    /\ innerThread' = (innerThread /\ request[c] # Stop)
    /\ UNCHANGED <<thread, performs, held, request, target, accepted, ran, ahead>>

\* To a thread that has finished it raises an exception.
SendRaises(c) ==
    /\ at[c] = "read" /\ target[c] /\ thread = "finished"
    /\ Returns(c)
    /\ UNCHANGED <<thread, innerThread, stopped, performs, held, request, target,
                   accepted, ran, strayed, ahead>>

\* Mutant: stop does not wait until __stop is done.
SendNoWait(c) ==
    /\ at[c] = "read" /\ target[c] /\ thread # "finished"
    /\ performs' = Append(performs, [what |-> request[c], by |-> c])
    /\ Returns(c)
    /\ accepted' = IF request[c] = Stop THEN accepted ELSE accepted \cup {request[c]}
    /\ ahead' = IF request[c] # Stop \/ StopQueued \/ stopped THEN ahead ELSE accepted
    /\ UNCHANGED <<thread, innerThread, stopped, held, request, target, ran, strayed>>

\* Otherwise the request is queued; waitUntilDone is YES for __stop.
Send(c) ==
    /\ at[c] = "read" /\ target[c] /\ thread # "finished"
    /\ performs' = Append(performs, [what |-> request[c], by |-> c])
    /\ IF request[c] = Stop
         THEN /\ at' = [at EXCEPT ![c] = "waiting"]
              /\ ahead' = IF StopQueued \/ stopped THEN ahead ELSE accepted
              /\ UNCHANGED <<accepted, over>>
         ELSE /\ accepted' = accepted \cup {request[c]}
              /\ Returns(c)
              /\ UNCHANGED ahead
    /\ UNCHANGED <<thread, innerThread, stopped, held, request, target, ran, strayed>>

-----------------------------------------------------------------------------
(* The inner thread *)

Inner(from, to) == thread = from /\ thread' = to

\* while (weakSelf && ...
TestSelf ==
    /\ Inner("test self", IF Alive THEN "test stopped" ELSE "leaving")
    /\ UNCHANGED <<innerThread, stopped, performs, held, caller, history>>

\* ... !weakSelf.stopped): weakSelf is loaded again, and stopped of nil is NO.
TestStopped ==
    /\ Inner("test stopped", IF Alive /\ stopped THEN "leaving" ELSE "in run loop")
    /\ UNCHANGED <<innerThread, stopped, performs, held, caller, history>>

\* runMode:beforeDate: sleeps until there is a request and performs it: a
\* task (__excuteTaskBlock) ...
PerformTask ==
    /\ thread \in {"in run loop", "in batch"} /\ performs # <<>>
    /\ Head(performs).what # Stop
    /\ thread' = "in batch"
    /\ ran' = ran \cup {Head(performs).what}
    /\ performs' = Tail(performs)
    /\ UNCHANGED <<innerThread, stopped, held, caller, accepted, strayed, ahead, over>>

\* Mutant: __stop does not wait for its turn.
PerformStopFirst ==
    /\ thread \in {"in run loop", "in batch"} /\ StopQueued
    /\ thread' = "in __stop"
    /\ stopped' = TRUE
    /\ UNCHANGED <<innerThread, performs, held, caller, history>>

\* ... or __stop, which sets stopped and asks the run loop to return,
PerformStop ==
    /\ thread \in {"in run loop", "in batch"} /\ performs # <<>>
    /\ Head(performs).what = Stop
    /\ thread' = "in __stop"
    /\ stopped' = TRUE
    /\ UNCHANGED <<innerThread, performs, held, caller, history>>

\* clears innerThread, and lets the caller go on.
StopDone ==
    /\ Inner("in __stop", "in batch")
    /\ innerThread' = FALSE
    /\ performs' = Tail(performs)
    /\ LET c == Head(performs).by
       IN  /\ at' = [at EXCEPT ![c] = "idle"]
           /\ over' = over \cup {c}
    /\ UNCHANGED <<stopped, held, request, target, accepted, ran, strayed, ahead>>

\* Having performed one request or more, runMode:beforeDate: returns.
RunModeReturns ==
    /\ Inner("in batch", "test self")
    /\ UNCHANGED <<innerThread, stopped, performs, held, caller, history>>

\* Mutant: the requests left are forgotten together with those who wait.
ExitForgets ==
    /\ Inner("leaving", "finished")
    /\ performs' = <<>>
    /\ UNCHANGED <<innerThread, stopped, held, caller, history>>

\* The block ends and the thread with it; the requests left are invalidated,
\* which lets go of those who wait for them.
Exit ==
    /\ Inner("leaving", "finished")
    /\ performs' = <<>>
    /\ at' = [c \in Callers |-> IF at[c] = "waiting" THEN "idle" ELSE at[c]]
    /\ over' = over \cup {c \in Callers : at[c] = "waiting"}
    /\ UNCHANGED <<innerThread, stopped, held, request, target,
                   accepted, ran, strayed, ahead>>

-----------------------------------------------------------------------------
CallerNext(c) == ReadAgain(c) \/ SendToNil(c) \/ SendRaises(c) \/ Send(c)

InnerNext ==
    TestSelf \/ TestStopped \/ PerformTask \/ PerformStop \/ StopDone
        \/ RunModeReturns \/ Exit

ThreadNext ==
    \/ run
    \/ Release
    \/ InnerNext
    \/ \E c \in Callers : excuteTaskBlock(c) \/ stop(c) \/ CallerNext(c)

\* The view controller calls run as soon as it has the object; every thread
\* goes on while it can.
ThreadSpec ==
    /\ ThreadInit /\ [][ThreadNext]_threadVars
    /\ WF_threadVars(run) /\ WF_threadVars(InnerNext) /\ \A c \in Callers : WF_threadVars(CallerNext(c))

-----------------------------------------------------------------------------
(* Properties *)

\* However a call of stop ends (performed, returned early, invalidated,
\* raised), the thread has been told to stop and takes no more calls.
StopMeansStopped == over # {} => stopped /\ ~innerThread

\* No task is lost: one that was queued before anybody's stop has been run when
\* the thread is stopped, and until then none is dropped or run elsewhere, not
\* even if the owner has let go of the object.
NoTaskLost ==
    /\ stopped => ahead \subseteq ran
    /\ ~stopped => /\ strayed = {}
                   /\ accepted \subseteq
                          ran \cup {performs[i].what : i \in DOMAIN performs}

\* stop takes effect: every call of it returns, also one that is queued behind
\* another, and the thread ends if the owner keeps the object so long.
StopCompletes ==
    /\ \A c \in Callers : at[c] = "waiting" ~> at[c] = "idle"
    /\ stopped ~> (thread = "finished" \/ ~held)

\* "Ends the thread" (comment of stop): a thread that was told to stop ends.
StoppedThreadEnds == stopped ~> thread = "finished"
=============================================================================
