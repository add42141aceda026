------------------------------ MODULE CFRunLoop ------------------------------
(***************************************************************************)
(* The run loop of CoreFoundation (CFRunLoop.c): one run loop, the thread   *)
(* that runs it, possibly re-entrantly, and callers of its API on any       *)
(* thread.  The loop's thread holds the locks of the run loop and of the    *)
(* mode except while it sleeps or calls out, and API calls happen only then. *)
(* What needs no more than the lock of a source or of a timer, and the      *)
(* kernel's events, are put there too: a locked stretch reads each of them  *)
(* once, so an event inside it is one before or one after it.               *)
(***************************************************************************)
EXTENDS Integers, Sequences, SequencesExt, FiniteSets, FiniteSetsExt

CONSTANTS
    Modes, CommonModes,    \* names of modes; those in _commonModes
    Sources, Order,        \* version 0 sources and their _order
    Ports,                 \* version 1 sources, each with its mach port
    Timers, Intervals,     \* timers, and the intervals they may be created with
    Callers,               \* threads that call the API
    Observed,              \* the activities the observer is registered for
    RunArgs,               \* how it is run: mode, returnAfterSourceHandled, seconds
    NestAt,                \* the callouts that may run the loop again
    Adds,                  \* pairs: what clients add while it runs, and to which mode
    MaxCalls, MaxDepth, MaxNow   \* bounds: API calls, nested runs, the clock

Activities == {"entry", "beforeTimers", "beforeSources", "beforeWaiting",
               "afterWaiting", "exit"}

ASSUME RunLoopAssumption ==
    /\ CommonModes \subseteq Modes /\ Order \in [Sources -> Int]
    /\ Intervals \subseteq Nat
    /\ Observed \subseteq Activities /\ Adds \subseteq (Sources \cup Ports \cup Timers) \X Modes
    /\ RunArgs \subseteq Modes \X BOOLEAN \X {"none", "some", "forever"}
    /\ MaxCalls \in Nat /\ MaxDepth \in Nat /\ MaxNow \in Nat

Never == 1000    \* UINT64_MAX

VARIABLES
    runs,        \* activations of the loop, innermost last, with their _per_run_data
    mode,        \* each mode: its sources, timers, _stopped flag and timer port
    blocks,      \* _blocks_head ... _blocks_tail: blocks and the modes they are for
    signaled,    \* signalled sources
    valid,       \* sources, ports and timers not invalidated
    wakeUpPort,  \* a wake-up message is queued; the queue's length is 1
    msgs,        \* messages waiting on Ports and on "main", the main queue's port
    fireTSR,     \* _fireTSR of each timer
    interval,    \* its _interval; 0: the timer fires once
    firing,      \* timers in their callout
    now,         \* mach_absolute_time
    call,        \* what each caller still has to do in its present call
    calls,       \* calls made
    issued,      \* how many blocks there have been; they are numbered
    ran          \* the blocks that have run

vars == <<runs, mode, blocks, signaled, valid, wakeUpPort, msgs, fireTSR, interval,
          firing, now, call, calls, issued, ran>>

-----------------------------------------------------------------------------
(* The innermost activation *)

Depth == Len(runs)
Top == runs[Depth]
At(pc) == Depth > 0 /\ Top.pc = pc
Set(f) == runs' = [runs EXCEPT ![Depth] = f]
Goto(pc) == Set([Top EXCEPT !.pc = pc])

\* The observer is called unless it is already being called further out
Calls(activity) ==
    /\ activity \in Observed
    /\ \A i \in 1 .. Depth - 1 : runs[i].pc \notin Activities

Callout == \/ At("block") \/ At("source") \/ At("source1") \/ At("timer") \/ At("main")
           \/ Depth > 0 /\ Top.pc \in Activities /\ Calls(Top.pc)

\* Neither the run loop nor a mode is locked
Unlocked ==
    Depth > 0 =>
      Callout \/ Top.pc \in {"sleep", "woken", "doBlocks", "doSources", "doSource1",
                            "doneTimer", "dropTimer", "endTimer"}

\* __CFRunLoopModeIsEmpty
ServesMain(m) == m \in CommonModes /\ \A i \in 1 .. Depth : runs[i].pc # "main"
ModeIsEmpty(m) ==
    /\ ~ServesMain(m)
    /\ mode[m].sources = {} /\ mode[m].timers = <<>>
    /\ \A i \in DOMAIN blocks : m \notin blocks[i].modes

-----------------------------------------------------------------------------
(* The timers of a mode, kept in the order of their fire dates *)

\* __CFArmNextTimerInMode: the search ends at the first timer that is later than
\* those before it; mk_timer_arm only if the deadline has changed
ArmNext(md, fire, busy) ==
    LET q == SelectSeq(md.timers, LAMBDA t : t \notin busy)
        seen == {n \in DOMAIN q : \A i \in 1 .. n - 1 : fire[q[i + 1]] <= fire[q[i]]}
        next == IF q = <<>> THEN Never ELSE fire[q[Max(seen)]]
    IN [md EXCEPT !.soft = next,
                  !.armed = IF next # Never /\ next = md.soft THEN md.armed ELSE next]

\* __CFRunLoopInsertionIndexInTimerArray, a search by halving, and the insertion:
\* behind the timers that are not later
Insert(seq, t, fire) ==
    LET n == Cardinality({i \in DOMAIN seq : fire[seq[i]] <= fire[t]})
    IN InsertAt(seq, n + 1, t)

\* Mutant: the timer moves, the deadline is not looked at again.
RepositionOnly(md, t, fire, busy) ==
    IF t \notin ToSet(md.timers) THEN md
    ELSE [md EXCEPT !.timers = Insert(Remove(@, t), t, fire)]

\* __CFRepositionTimerInMode; a timer that is not in the array stays out
Reposition(md, t, fire, busy) ==
    IF t \notin ToSet(md.timers) THEN md
    ELSE ArmNext([md EXCEPT !.timers = Insert(Remove(@, t), t, fire)], fire, busy)

\* Remove a timer from one mode, and re-arm
Without(md, t, fire, busy) ==
    IF t \notin ToSet(md.timers) THEN md
    ELSE ArmNext([md EXCEPT !.timers = Remove(@, t)], fire, busy)

-----------------------------------------------------------------------------
NewRun(m, once, seconds) ==
    [mode |-> m, once |-> once, seconds |-> seconds, pc |-> "entry", stopped |-> FALSE,
     ignore |-> FALSE, disp |-> FALSE, term |-> Never, owes |-> FALSE, did |-> TRUE,
     handled |-> FALSE, poll |-> FALSE, live |-> "none", back |-> "none",
     list |-> <<>>, kept |-> <<>>, pend |-> <<>>, cur |-> "none", old |-> 0, fired |-> FALSE]

\* Sources and timers have been added to the common modes
Init ==
    /\ runs = <<>>
    /\ fireTSR = [t \in Timers |-> 1] /\ interval \in [Timers -> Intervals] /\ firing = {} /\ now = 1
    /\ mode = [m \in Modes |->
                ArmNext([sources |-> IF m \in CommonModes THEN Sources \cup Ports ELSE {},
                         timers |-> IF m \in CommonModes
                                    THEN SetToSeq(Timers)
                                    ELSE <<>>,
                         stopped |-> FALSE, soft |-> Never, armed |-> Never, port |-> FALSE],
                        fireTSR, {})]
    /\ blocks = <<>> /\ issued = 0 /\ ran = {}
    /\ signaled = {} /\ valid = Sources \cup Ports \cup Timers
    /\ wakeUpPort = FALSE /\ msgs = {}
    /\ call = [c \in Callers |-> <<"none">>] /\ calls = 0

-----------------------------------------------------------------------------
(* Calls of the API *)

timing == <<fireTSR, interval, firing, now>>
history == <<issued, ran>>
items == <<signaled, valid, msgs, timing>>

\* A new call of c, which then still has to do `rest`
Begin(c, rest) ==
    /\ call[c] = <<"none">> /\ calls < MaxCalls
    /\ call' = [call EXCEPT ![c] = rest] /\ calls' = calls + 1

Continue(c, rest) == call' = [call EXCEPT ![c] = rest] /\ UNCHANGED calls

\* What CFRunLoopWakeUp does once it has the lock.  Without an activation the
\* _per_run_data of the run loop's creation says that wake-ups are ignored.
Wakes == wakeUpPort' = (wakeUpPort \/ (Depth > 0 /\ ~Top.ignore))

CFRunLoopWakeUp(c) ==
    /\ call[c] = <<"wake">> /\ Unlocked
    /\ Wakes /\ Continue(c, <<"none">>)
    /\ UNCHANGED <<runs, mode, blocks, items, history>>

\* Clients signal a source and then wake the loop
CFRunLoopSourceSignal(c, s) ==
    /\ Unlocked /\ s \in valid /\ signaled' = signaled \cup {s}
    /\ Begin(c, <<"wake">>)
    /\ UNCHANGED <<runs, mode, blocks, valid, wakeUpPort, msgs, timing, history>>

CFRunLoopStop(c) ==
    /\ Unlocked /\ Depth > 0
    /\ Set([Top EXCEPT !.stopped = TRUE])
    /\ Begin(c, <<"wake">>)
    /\ UNCHANGED <<mode, blocks, wakeUpPort, items, history>>

CFRunLoopStopMode(c, m) ==
    /\ Unlocked
    /\ mode' = [mode EXCEPT ![m].stopped = TRUE]
    /\ Begin(c, <<"wake">>)
    /\ UNCHANGED <<runs, blocks, wakeUpPort, items, history>>

\* Clients that want the block run soon wake the loop afterwards
CFRunLoopPerformBlock(c, ms) ==
    /\ Unlocked
    /\ issued' = issued + 1
    /\ blocks' = Append(blocks, [block |-> issued', modes |-> ms])
    /\ Begin(c, <<"wake">>)
    /\ UNCHANGED <<runs, mode, wakeUpPort, items, ran>>

\* Validity is read before the locks are taken
AddChecks(c, x, m) ==
    /\ Unlocked /\ x \in valid /\ Begin(c, <<"add", x, m>>)
    /\ UNCHANGED <<runs, mode, blocks, wakeUpPort, items, history>>

\* CFRunLoopAddSource, CFRunLoopAddTimer: the part under the locks.  A client
\* that adds a source wakes the loop, for it may be signalled.
AddInserts(c) ==
    /\ call[c][1] = "add" /\ Unlocked
    /\ LET x == call[c][2]  m == call[c][3]
           md == [mode[m] EXCEPT !.timers = Insert(@, x, fireTSR)]
       IN mode' = [mode EXCEPT ![m] =
                     IF x \notin Timers THEN [mode[m] EXCEPT !.sources = @ \cup {x}]
                     ELSE IF x \in ToSet(@.timers) THEN @
                     ELSE ArmNext(md, fireTSR, firing)]
    /\ Continue(c, IF call[c][2] \in Timers THEN <<"none">> ELSE <<"wake">>)
    /\ UNCHANGED <<runs, blocks, wakeUpPort, items, history>>

RemoveFrom(md, x, busy) ==
    IF x \in Timers THEN Without(md, x, fireTSR, busy)
    ELSE [md EXCEPT !.sources = @ \ {x}]

\* CFRunLoopRemoveSource, CFRunLoopRemoveTimer
RemoveItem(c, x, m) ==
    /\ Unlocked
    /\ mode' = [mode EXCEPT ![m] = RemoveFrom(@, x, firing)]
    /\ Begin(c, <<"none">>)
    /\ UNCHANGED <<runs, blocks, wakeUpPort, items, history>>

ModesOf(t) == {m \in Modes : t \in ToSet(mode[m].timers) \cup mode[m].sources}

\* CFRunLoopSourceInvalidate, CFRunLoopTimerInvalidate: under the item's own
\* lock, then under the run loop's.  A source is removed from all modes if it
\* had a run loop, a timer from the modes it was in.
Invalidate(c, x) ==
    /\ Unlocked /\ x \in valid /\ valid' = valid \ {x} /\ signaled' = signaled \ {x}
    /\ Begin(c, IF ModesOf(x) = {} THEN <<"none">>
                ELSE <<"drop", x, IF x \in Timers THEN ModesOf(x) ELSE Modes>>)
    /\ UNCHANGED <<runs, mode, blocks, wakeUpPort, msgs, timing, history>>

InvalidateRemoves(c) ==
    /\ call[c][1] = "drop" /\ Unlocked
    /\ mode' = [m \in Modes |-> IF m \in call[c][3] THEN RemoveFrom(mode[m], call[c][2], firing)
                                ELSE mode[m]]
    /\ Continue(c, <<"none">>)
    /\ UNCHANGED <<runs, blocks, wakeUpPort, items, history>>

\* CFRunLoopTimerSetNextFireDate: the date and the timer's modes are read
\* first, the locks taken later; a timer in no mode is set at once
SetNextFireDate(c, t, date) ==
    /\ Unlocked /\ t \in valid
    /\ IF ModesOf(t) = {}
       THEN fireTSR' = [fireTSR EXCEPT ![t] = Max({date, now})] /\ Begin(c, <<"none">>)
       ELSE Begin(c, <<"date", t, ModesOf(t), Max({date, now})>>) /\ UNCHANGED fireTSR
    /\ UNCHANGED <<runs, mode, blocks, wakeUpPort, signaled, valid, msgs, interval, firing, now, history>>

SetDateRepositions(c) ==
    /\ call[c][1] = "date" /\ Unlocked
    /\ LET t == call[c][2]
       IN /\ fireTSR' = [fireTSR EXCEPT ![t] = call[c][4]]
          /\ mode' = [m \in Modes |-> IF m \in call[c][3]
                                      THEN Reposition(mode[m], t, fireTSR', firing) ELSE mode[m]]
    /\ Continue(c, <<"wake">>)
    /\ UNCHANGED <<runs, blocks, wakeUpPort, signaled, valid, msgs, interval, firing, now, history>>

API(c) ==
    \/ CFRunLoopWakeUp(c) \/ CFRunLoopStop(c)
    \/ AddInserts(c) \/ InvalidateRemoves(c) \/ SetDateRepositions(c)
    \/ \E s \in Sources : CFRunLoopSourceSignal(c, s)
    \/ \E m \in Modes : CFRunLoopStopMode(c, m)
    \/ \E ms \in SUBSET Modes \ {{}} : CFRunLoopPerformBlock(c, ms)
    \/ \E x \in Sources \cup Ports \cup Timers :
          \/ Invalidate(c, x)
          \/ \E m \in Modes : RemoveItem(c, x, m)
    \/ \E a \in Adds : AddChecks(c, a[1], a[2])
    \/ \E t \in Timers, date \in 1 .. MaxNow : SetNextFireDate(c, t, date)

-----------------------------------------------------------------------------
(* CFRunLoopRunSpecific and __CFRunLoopRun *)

rest == <<call, calls>>
ports == <<wakeUpPort, msgs>>

\* From outside, or from a callout of the present activation.  Running an empty
\* mode returns at once.
CFRunLoopRunSpecific(m, once, seconds) ==
    /\ Depth < MaxDepth
    /\ Depth > 0 => Callout /\ Top.pc \in NestAt
    /\ ~ModeIsEmpty(m)
    /\ runs' = Append(runs, NewRun(m, once, seconds))
    /\ UNCHANGED <<mode, blocks, ports, signaled, valid, timing, rest, history>>

\* Where the thread gets to from a point of the round: observers, blocks and
\* sources that are not there take no step
Found(m) == mode[m].sources \cap signaled \cap valid
ToSources0(m) == IF Found(m) = {} THEN "poll" ELSE "sources0"
ToBlocks1(m) == IF blocks = <<>> THEN ToSources0(m) ELSE "blocks1"
ToBeforeSources(m) == IF Calls("beforeSources") THEN "beforeSources" ELSE ToBlocks1(m)
ToBeforeTimers(m) == IF Calls("beforeTimers") THEN "beforeTimers" ELSE ToBeforeSources(m)
ToBlocks3 == IF blocks = <<>> THEN "decide" ELSE "blocks3"
ToExit == IF Calls("exit") THEN "exit" ELSE "return"

\* __CFRunLoopDoObservers returns
DoObservers ==
    /\ Depth > 0 /\ Top.pc \in Activities
    /\ Goto(CASE Top.pc = "entry" -> "begin"
              [] Top.pc = "beforeTimers" -> ToBeforeSources(Top.mode)
              [] Top.pc = "beforeSources" -> ToBlocks1(Top.mode)
              [] Top.pc = "beforeWaiting" -> "sleep"
              [] Top.pc = "afterWaiting" -> "handle"
              [] Top.pc = "exit" -> "return")
    /\ UNCHANGED <<mode, blocks, ports, signaled, valid, timing, rest, history>>

\* Mutant: wake-ups stay ignored once the loop has been woken.
RoundDeaf(f) == [f EXCEPT !.handled = FALSE, !.poll = FALSE, !.live = "none",
                          !.pc = ToBeforeTimers(f.mode)]

\* A round begins: wake-ups count again
Round(f) == [f EXCEPT !.ignore = FALSE, !.handled = FALSE, !.poll = FALSE, !.live = "none",
                      !.pc = ToBeforeTimers(f.mode)]

\* A stop from before this activation began, or during its entry observers
EnterLoop ==
    /\ At("begin")
    /\ LET m == Top.mode  stopMode == ~Top.stopped /\ mode[m].stopped
       IN /\ Set(IF Top.stopped \/ mode[m].stopped
                 THEN [Top EXCEPT !.stopped = FALSE, !.pc = ToExit]
                 ELSE [Round(Top) EXCEPT !.disp = ServesMain(m),
                         !.term = CASE Top.seconds = "none" -> 0
                                    [] Top.seconds = "some" -> now + 1
                                    [] Top.seconds = "forever" -> Never])
          /\ mode' = [mode EXCEPT ![m].stopped = @ /\ ~stopMode]
    /\ UNCHANGED <<blocks, ports, signaled, valid, timing, rest, history>>

AfterBlocks(pc) == CASE pc = "blocks1" -> ToSources0(Top.mode) [] pc = "blocks2" -> "poll"
                     [] pc = "blocks3" -> "decide"

\* __CFRunLoopDoBlocks takes the whole list, whatever the modes
TakeBlocks ==
    /\ Depth > 0 /\ Top.pc \in {"blocks1", "blocks2", "blocks3"}
    /\ Set([Top EXCEPT !.list = blocks, !.back = Top.pc, !.pc = "doBlocks"])
    /\ blocks' = <<>>
    /\ UNCHANGED <<mode, ports, signaled, valid, timing, rest, history>>

\* Mutant: the blocks of other modes are put back after the ones queued meanwhile.
DoBlocksBehind ==
    /\ At("doBlocks")
    /\ LET mine == {i \in DOMAIN Top.list : Top.mode \in Top.list[i].modes}
       IN IF mine = {}
          THEN /\ blocks' = blocks \o Top.kept \o Top.list
               /\ Set([Top EXCEPT !.list = <<>>, !.kept = <<>>, !.back = "none", !.pc = AfterBlocks(Top.back)])
               /\ UNCHANGED ran
          ELSE LET n == Min(mine)
               IN /\ Set([Top EXCEPT !.kept = @ \o SubSeq(Top.list, 1, n - 1),
                                     !.list = SubSeq(@, n + 1, Len(@)), !.pc = "block"])
                  /\ ran' = ran \cup {Top.list[n].block}
                  /\ UNCHANGED blocks
    /\ UNCHANGED <<mode, ports, signaled, valid, timing, rest, issued>>

\* Calls the next block that is for this mode, or puts back those that are not,
\* before the ones queued meanwhile
DoBlocks ==
    /\ At("doBlocks")
    /\ LET mine == {i \in DOMAIN Top.list : Top.mode \in Top.list[i].modes}
       IN IF mine = {}
          THEN /\ blocks' = Top.kept \o Top.list \o blocks
               /\ Set([Top EXCEPT !.list = <<>>, !.kept = <<>>, !.back = "none", !.pc = AfterBlocks(Top.back)])
               /\ UNCHANGED ran
          ELSE LET n == Min(mine)
               IN /\ Set([Top EXCEPT !.kept = @ \o SubSeq(Top.list, 1, n - 1),
                                     !.list = SubSeq(@, n + 1, Len(@)), !.pc = "block"])
                  /\ ran' = ran \cup {Top.list[n].block}
                  /\ UNCHANGED blocks
    /\ UNCHANGED <<mode, ports, signaled, valid, timing, rest, issued>>

\* __CFRunLoopDoSources0: collect under the locks, and sort; sources of the same
\* order come as the set of sources gave them
CollectSources0 ==
    /\ At("sources0")
    /\ LET found == Found(Top.mode)
       IN \E q \in [1 .. Cardinality(found) -> found] :
            /\ Range(q) = found /\ \A i, j \in DOMAIN q : i < j => Order[q[i]] <= Order[q[j]]
            /\ Set([Top EXCEPT !.pc = "doSources", !.pend = q])
    /\ UNCHANGED <<mode, blocks, ports, signaled, valid, timing, rest, history>>

\* then perform each one that is still signalled and valid
DoSources0 ==
    /\ At("doSources")
    /\ IF Top.pend = <<>> \/ (Top.once /\ Top.handled)
       THEN /\ Set([Top EXCEPT !.pend = <<>>, !.pc = IF Top.handled /\ blocks # <<>> THEN "blocks2" ELSE "poll"])
            /\ UNCHANGED signaled
       ELSE LET s == Head(Top.pend)
            IN /\ signaled' = signaled \ {s}
               /\ Set(IF s \in signaled \cap valid
                      THEN [Top EXCEPT !.pend = Tail(@), !.handled = TRUE, !.pc = "source"]
                      ELSE [Top EXCEPT !.pend = Tail(@)])
    /\ UNCHANGED <<mode, blocks, ports, valid, timing, rest, history>>

\* Whether to sleep; the main queue's port gets a turn without sleeping
PollDispatch ==
    /\ At("poll")
    /\ LET poll == Top.handled \/ Top.term = 0
       IN IF Top.disp /\ ~Top.did /\ "main" \in msgs
          THEN /\ msgs' = msgs \ {"main"}
               /\ Set([Top EXCEPT !.poll = poll, !.live = "main", !.pc = "handle"])
          ELSE /\ Set([Top EXCEPT !.poll = poll, !.did = FALSE,
                                  !.pc = IF ~poll /\ Calls("beforeWaiting") THEN "beforeWaiting"
                                         ELSE "sleep"])
               /\ UNCHANGED msgs
    /\ UNCHANGED <<mode, blocks, wakeUpPort, signaled, valid, timing, rest, history>>

\* mach_msg on the mode's port set: one message, or none when polling
Receive ==
    /\ At("sleep")
    /\ LET m == Top.mode
           live == {p \in msgs : p \in mode[m].sources \/ (p = "main" /\ Top.disp)}
       IN \/ /\ wakeUpPort /\ wakeUpPort' = FALSE
             /\ Set([Top EXCEPT !.live = "wakeUp", !.pc = "woken"]) /\ UNCHANGED <<mode, msgs>>
          \/ /\ mode[m].port /\ mode' = [mode EXCEPT ![m].port = FALSE]
             /\ Set([Top EXCEPT !.live = "timer", !.pc = "woken"]) /\ UNCHANGED ports
          \/ \E p \in live : /\ msgs' = msgs \ {p}
                              /\ Set([Top EXCEPT !.live = p, !.pc = "woken"])
                              /\ UNCHANGED <<mode, wakeUpPort>>
          \/ /\ Top.poll /\ ~wakeUpPort /\ ~mode[m].port /\ live = {}
             /\ Set([Top EXCEPT !.live = "none", !.pc = "woken"]) /\ UNCHANGED <<mode, ports>>
    /\ UNCHANGED <<blocks, signaled, valid, timing, rest, history>>

\* Locked again: wake-ups are ignored until the next round
Relock ==
    /\ At("woken")
    /\ Set([Top EXCEPT !.ignore = TRUE, !.pc = IF ~Top.poll /\ Calls("afterWaiting") THEN "afterWaiting"
                                            ELSE "handle"])
    /\ UNCHANGED <<mode, blocks, ports, signaled, valid, timing, rest, history>>

\* handle_msg; __CFRunLoopDoTimers collects the timers that are due
Due(m) == SelectSeq(mode[m].timers,
                    LAMBDA t : t \in valid \ firing /\ fireTSR[t] <= now)
HandleMsg ==
    /\ At("handle")
    /\ LET f == [Top EXCEPT !.ignore = TRUE]
       IN Set(CASE f.live \in {"none", "wakeUp"} -> [f EXCEPT !.pc = ToBlocks3]
                [] f.live = "timer" -> [f EXCEPT !.pend = Due(f.mode), !.pc = "timers"]
                [] f.live = "main" -> [f EXCEPT !.handled = TRUE, !.did = TRUE, !.pc = "main"]
                [] f.live \in Ports -> [f EXCEPT !.pc = IF f.live \in mode[f.mode].sources
                                                      THEN "doSource1" ELSE ToBlocks3])
    /\ UNCHANGED <<mode, blocks, ports, signaled, valid, timing, rest, history>>

\* __CFRunLoopDoSource1
DoSource1 ==
    /\ At("doSource1")
    /\ Set(IF Top.live \in valid THEN [Top EXCEPT !.handled = TRUE, !.pc = "source1"]
           ELSE [Top EXCEPT !.pc = ToBlocks3])
    /\ UNCHANGED <<mode, blocks, ports, signaled, valid, timing, rest, history>>

\* Mutant: the cached deadline is not forgotten when a timer fires.
DoTimerKeepsDeadline ==
    /\ At("timers")
    /\ IF Top.pend = <<>>
       THEN /\ Set([Top EXCEPT !.fired = FALSE, !.pc = ToBlocks3])
            /\ mode' = [mode EXCEPT ![Top.mode] = IF Top.fired THEN @ ELSE ArmNext(@, fireTSR, firing)]
            /\ UNCHANGED firing
       ELSE LET t == Head(Top.pend)
            IN IF t \in valid \ firing /\ fireTSR[t] <= now /\ ModesOf(t) # {}
               THEN /\ firing' = firing \cup {t}
                    /\ mode' = [mode EXCEPT ![Top.mode] = ArmNext(@, fireTSR, firing')]
                    /\ Set([Top EXCEPT !.pend = Tail(@), !.cur = t, !.old = fireTSR[t],
                                       !.pc = "timer"])
               ELSE /\ Set([Top EXCEPT !.pend = Tail(@)])
                    /\ UNCHANGED <<mode, firing>>
    /\ UNCHANGED <<blocks, ports, signaled, valid, interval, fireTSR, now, rest, history>>

\* __CFRunLoopDoTimer up to the callout: the deadline is forgotten, so that the
\* next timer is armed even if its date is the same.  Once all timers have had
\* their turn: re-arm if none of them fired.
DoTimer ==
    /\ At("timers")
    /\ IF Top.pend = <<>>
       THEN /\ Set([Top EXCEPT !.fired = FALSE, !.pc = ToBlocks3])
            /\ mode' = [mode EXCEPT ![Top.mode] = IF Top.fired THEN @ ELSE ArmNext(@, fireTSR, firing)]
            /\ UNCHANGED firing
       ELSE LET t == Head(Top.pend)
            IN IF t \in valid \ firing /\ fireTSR[t] <= now /\ ModesOf(t) # {}
               THEN /\ firing' = firing \cup {t}
                    /\ mode' = [mode EXCEPT ![Top.mode] =
                                  ArmNext([@ EXCEPT !.soft = Never], fireTSR, firing')]
                    /\ Set([Top EXCEPT !.pend = Tail(@), !.cur = t, !.old = fireTSR[t],
                                       !.pc = "timer"])
               ELSE /\ Set([Top EXCEPT !.pend = Tail(@)])
                    /\ UNCHANGED <<mode, firing>>
    /\ UNCHANGED <<blocks, ports, signaled, valid, interval, fireTSR, now, rest, history>>

\* A callout returns
Return ==
    /\ Callout /\ Top.pc \notin Activities
    /\ Goto(CASE Top.pc = "block" -> "doBlocks" [] Top.pc = "source" -> "doSources"
              [] Top.pc \in {"source1", "main"} -> ToBlocks3
              [] Top.pc = "timer" -> IF interval[Top.cur] = 0 THEN "doneTimer" ELSE "endTimer")
    /\ UNCHANGED <<mode, blocks, ports, signaled, valid, timing, rest, history>>

\* A timer that does not repeat is invalidated
InvalidateFired ==
    /\ At("doneTimer") /\ valid' = valid \ {Top.cur}
    /\ Goto(IF Top.cur \in valid THEN "dropTimer" ELSE "endTimer")
    /\ UNCHANGED <<mode, blocks, ports, signaled, timing, rest, history>>

RemoveFired ==
    /\ At("dropTimer") /\ Goto("endTimer")
    /\ mode' = [m \in Modes |-> Without(mode[m], Top.cur, fireTSR, firing)]
    /\ UNCHANGED <<blocks, ports, signaled, valid, timing, rest, history>>

\* The rest of __CFRunLoopDoTimer: the first date after now in steps of the
\* interval, unless the callout set a later one
NextDate(old, step) == old + step * (((now - old) \div step) + 1)

EndTimer ==
    /\ At("endTimer")
    /\ firing' = firing \ {Top.cur}
    /\ LET t == Top.cur
       IN CASE t \notin valid -> UNCHANGED <<fireTSR, mode>>
            [] t \in valid /\ Top.old < fireTSR[t] ->
                 /\ mode' = [mode EXCEPT ![Top.mode] = ArmNext(@, fireTSR, firing')]
                 /\ UNCHANGED fireTSR
            [] OTHER ->
                 /\ fireTSR' = [fireTSR EXCEPT ![t] = NextDate(Top.old, interval[t])]
                 /\ mode' = [m \in Modes |-> Reposition(mode[m], t, fireTSR', firing')]
    /\ Set([Top EXCEPT !.fired = TRUE, !.cur = "none", !.old = 0, !.pc = "timers"])
    /\ UNCHANGED <<blocks, ports, signaled, valid, interval, now, rest, history>>

\* The end of a round
Decide ==
    /\ At("decide")
    /\ LET m == Top.mode  first == (Top.handled /\ Top.once) \/ Top.term < now
           stop == ~first /\ Top.stopped
           stopMode == ~first /\ ~Top.stopped /\ mode[m].stopped
       IN /\ Set(IF first \/ stop \/ stopMode \/ ModeIsEmpty(m)
                 THEN [Top EXCEPT !.stopped = @ /\ ~stop, !.pc = ToExit] ELSE Round(Top))
          /\ mode' = [mode EXCEPT ![m].stopped = @ /\ ~stopMode]
    /\ UNCHANGED <<blocks, ports, signaled, valid, timing, rest, history>>

\* CFRunLoopRunSpecific returns and pops its _per_run_data
PopRun ==
    /\ At("return") /\ runs' = Front(runs)
    /\ UNCHANGED <<mode, blocks, ports, signaled, valid, timing, rest, history>>

Loop == \/ DoObservers \/ EnterLoop \/ TakeBlocks \/ DoBlocks
        \/ CollectSources0 \/ DoSources0 \/ PollDispatch \/ Receive \/ Relock
        \/ HandleMsg \/ DoSource1 \/ DoTimer \/ Return \/ InvalidateFired
        \/ RemoveFired \/ EndTimer \/ Decide \/ PopRun

-----------------------------------------------------------------------------
(* The rest of the system *)

Tick ==
    /\ Unlocked /\ now < MaxNow /\ now' = now + 1
    /\ UNCHANGED <<runs, mode, blocks, ports, signaled, valid, interval, fireTSR, firing, rest, history>>

\* The kernel's timer sends its message at the deadline, not before
KernelTimer(m) ==
    /\ Unlocked /\ mode[m].armed <= now
    /\ mode' = [mode EXCEPT ![m].armed = Never, ![m].port = TRUE]
    /\ UNCHANGED <<runs, blocks, ports, signaled, valid, timing, rest, history>>

\* A message for a version 1 source, or a block for the main queue
Arrives(p) ==
    /\ Unlocked /\ calls < MaxCalls /\ calls' = calls + 1 /\ msgs' = msgs \cup {p}
    /\ UNCHANGED <<runs, mode, blocks, wakeUpPort, signaled, valid, timing, call, history>>

\* __CFRunLoopTimeout of the i-th activation, on another thread, and its wake-up
Timeout(i) ==
    /\ Unlocked /\ runs[i].seconds = "some" /\ runs[i].term \in 1 .. now
    /\ runs' = [runs EXCEPT ![i].term = 0, ![i].owes = TRUE]
    /\ UNCHANGED <<mode, blocks, ports, signaled, valid, timing, rest, history>>

TimeoutWakes(i) ==
    /\ runs[i].owes /\ Unlocked
    /\ runs' = [runs EXCEPT ![i].owes = FALSE] /\ Wakes
    /\ UNCHANGED <<mode, blocks, msgs, signaled, valid, timing, rest, history>>

Next ==
    \/ Loop
    \/ \E r \in RunArgs : CFRunLoopRunSpecific(r[1], r[2], r[3])
    \/ \E c \in Callers : API(c)
    \/ Tick \/ \E m \in Modes : KernelTimer(m)
    \/ \E p \in Ports \cup {"main"} : Arrives(p)
    \/ \E i \in DOMAIN runs : Timeout(i) \/ TimeoutWakes(i)

\* The loop's thread runs and its callouts return; calls go on once begun; the
\* kernel's timers expire.  Nobody has to make a call.
Spec ==
    /\ Init /\ [][Next]_vars
    /\ WF_vars(Loop) /\ \A m \in Modes : WF_vars(KernelTimer(m))
    /\ \A c \in Callers : SF_vars(CFRunLoopWakeUp(c))
    /\ \A c \in Callers : SF_vars(AddInserts(c) \/ InvalidateRemoves(c) \/ SetDateRepositions(c))

-----------------------------------------------------------------------------
(* Properties *)

\* The loop has gone to sleep until a message comes, and none is there
Asleep == /\ At("sleep") /\ ~Top.poll /\ ~wakeUpPort /\ ~mode[Top.mode].port

\* A caller, or the timeout of an activation, is about to call CFRunLoopWakeUp
WakeUpComing == \/ \E c \in Callers : call[c] = <<"wake">>
                \/ \E i \in DOMAIN runs : runs[i].owes

\* When the loop sleeps with an empty port, there is nothing it should be awake
\* for: no signalled source of its mode, no block it could run, no request to
\* stop, no expired timeout; or the wake-up that belongs to it is still to come
SleepsOnlyWhenIdle ==
    Asleep /\ ~WakeUpComing =>
        /\ mode[Top.mode].sources \cap signaled \cap valid = {}
        /\ \A i \in DOMAIN blocks : Top.mode \notin blocks[i].modes
        /\ ~Top.stopped /\ ~mode[Top.mode].stopped /\ Top.term # 0

\* Where the blocks that have not run are, oldest first: what each activation
\* has taken, outermost first, then the list of the run loop
Waiting(i) == IF i <= Depth THEN runs[i].kept \o runs[i].list ELSE blocks
Numbers(w) == {w[k].block : k \in DOMAIN w}
Increasing(w) == \A k, l \in DOMAIN w : k < l => w[k].block < w[l].block

\* No block is lost, run twice or moved ahead of an older one, although an
\* activation takes the whole list, runs the blocks of its mode without the
\* lock and puts the others back, and its blocks may run the loop again
BlocksKept ==
    /\ \A i \in 1 .. Depth + 1 : Increasing(Waiting(i)) /\ Numbers(Waiting(i)) \cap ran = {}
    /\ \A i, j \in 1 .. Depth + 1 : i < j =>
          \A a \in Numbers(Waiting(i)), b \in Numbers(Waiting(j)) : a < b
    /\ (UNION {Numbers(Waiting(i)) : i \in 1 .. Depth + 1}) \cup ran = 1 .. issued

\* A sleeping loop will be woken for each timer that is in its mode only, no
\* later than the timer's date, although the deadline is cached, timers share
\* dates, and other threads and the callouts change them, as long as no timer has
\* been invalidated.  An invalidated timer can stay in the array (CFRunLoopAddTimer
\* checks it before it takes the locks) and leaves a deadline in the cache that is
\* never armed again, and of a timer's modes only the one that fired it is armed
\* anew if the callout sets a later date: the code misses timers in both cases.
\* It also misses one that is moved to this mode while a date is being set, which
\* takes more calls than the run has.
TimersArmed ==
    At("sleep") /\ ~Top.poll /\ Timers \subseteq valid =>
        LET md == mode[Top.mode]
        IN \A t \in ToSet(md.timers) \ firing :
             ModesOf(t) = {Top.mode} => md.port \/ md.armed <= fireTSR[t]

\* The innermost activation has something to do: a signalled source, a block, or
\* a timer that is due and not in its callout, of its mode
SourcePending(s) == Depth > 0 /\ s \in mode[Top.mode].sources \cap signaled \cap valid
BlockPending(b) == \E i \in DOMAIN blocks : blocks[i].block = b /\ Depth > 0 /\ Top.mode \in blocks[i].modes
TimerPending(t) ==
    /\ Depth > 0 /\ t \in ToSet(mode[Top.mode].timers) \ firing /\ fireTSR[t] <= now
    /\ ToSet(mode[Top.mode].timers) \subseteq valid

\* What is asked of the loop is done.  The innermost activation never goes on for
\* ever without serving what is pending, whether it sleeps, is woken for other
\* things again and again, or its callouts run the loop; and after CFRunLoopStop
\* the activation it was meant for returns, or a callout of it runs the loop.
PendingServed ==
    /\ \A s \in Sources : []<>~SourcePending(s)
    /\ \A b \in 1 .. MaxCalls : []<>~BlockPending(b)
    /\ \A t \in Timers : []<>~TimerPending(t)
    /\ \A d \in 1 .. MaxDepth : []<>~(Depth = d /\ Top.stopped)
=============================================================================
