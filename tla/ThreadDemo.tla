----------------------------- MODULE ThreadDemo -----------------------------
(***************************************************************************)
(* The thread demos of src/sdk/ThreadDemo: each method of its controllers  *)
(* hands blocks to GCD queues, groups, semaphores, operation queues and a  *)
(* URL session, and its comments say in which order they run, or that the  *)
(* method deadlocks.  A method is a table of blocks, each a sequence of    *)
(* calls; the queues that run them belong to the system and are modelled   *)
(* from how the demos use them.  UserCenter, the dictionary read with      *)
(* dispatch_sync and written behind a barrier, is driven by two threads    *)
(* making every sequence of two calls each.                                *)
(***************************************************************************)
EXTENDS Integers, Sequences, FiniteSets, TLC

-----------------------------------------------------------------------------
(* Calls.  Each is a sequence of one or two steps; the methods compose them. *)

NSLog(what) == <<[op |-> "log", what |-> what]>>

Entry(q, b) == [queue |-> q, block |-> b, barrier |-> FALSE, group |-> FALSE,
                deps |-> {}]

Submit(entry) == <<[op |-> "submit", entry |-> entry]>>

\* The caller blocks until these blocks have returned.
Join(blocks) == <<[op |-> "join", blocks |-> blocks]>>

dispatch_async(q, b) == Submit(Entry(q, b))
dispatch_sync(q, b) == dispatch_async(q, b) \o Join({b})
dispatch_barrier_async(q, b) == Submit([Entry(q, b) EXCEPT !.barrier = TRUE])
dispatch_group_async(q, b) == Submit([Entry(q, b) EXCEPT !.group = TRUE])
dispatch_group_enter == <<[op |-> "enter"]>>
dispatch_group_leave == <<[op |-> "leave"]>>
dispatch_group_wait == <<[op |-> "groupWait"]>>
dispatch_group_notify(q, b) == <<[op |-> "notify", entry |-> Entry(q, b)]>>
dispatch_semaphore_wait(s) == <<[op |-> "wait", sema |-> s]>>
dispatch_semaphore_signal(s) == <<[op |-> "signal", sema |-> s]>>
addOperation(op, deps) == Submit([Entry("operations", op) EXCEPT !.deps = deps])

\* The simulated work of a block: it sleeps and prints its number, twice.
Work(n) == NSLog(n) \o NSLog(n)

\* A method run on the main queue, the blocks it creates, and how many
\* operations its operation queue runs at a time: three, or as many as there
\* are where the code sets no maximum (never more than three).
OnMain(name, code) ==
    [name |-> name, code |-> code, roots |-> <<Entry("main", "method")>>, width |-> 3]

Detached(name, code) ==
    [OnMain(name, code) EXCEPT !.roots = <<Entry("global", "method")>>]

-----------------------------------------------------------------------------
(* GcdViewController *)

Three == [b1 |-> Work("1"), b2 |-> Work("2"), b3 |-> Work("3")]

\* The three blocks handed to one queue, asynchronously or one by one.
AsyncThree(q) == dispatch_async(q, "b1") \o dispatch_async(q, "b2")
                   \o dispatch_async(q, "b3") \o NSLog("end")
SyncThree(q) == dispatch_sync(q, "b1") \o dispatch_sync(q, "b2")
                  \o dispatch_sync(q, "b3") \o NSLog("end")

\* Mutant: the inner block is not waited for.
deadLockAsync ==
    OnMain("deadLock",
      [method |-> dispatch_async("serial", "b2") \o NSLog("4"),
       b2 |-> NSLog("2") \o dispatch_async("serial", "b3"),
       b3 |-> NSLog("3")])

deadLock ==
    OnMain("deadLock",
      [method |-> dispatch_async("serial", "b2") \o NSLog("4"),
       b2 |-> NSLog("2") \o dispatch_sync("serial", "b3"),
       b3 |-> NSLog("3")])

asyncMain == OnMain("asyncMain", Three @@ [method |-> AsyncThree("main")])
syncMain == OnMain("syncMain", Three @@ [method |-> SyncThree("main")])
asyncSerial == OnMain("asyncSerial", Three @@ [method |-> AsyncThree("serial")])
syncSerial == OnMain("syncSerial", Three @@ [method |-> SyncThree("serial")])

asyncConcurrent ==
    OnMain("asyncConcurrent", Three @@ [method |-> AsyncThree("concurrent")])
syncConcurrent ==
    OnMain("syncConcurrent", Three @@ [method |-> SyncThree("concurrent")])

\* syncMain called from a thread of its own (detachNewThreadSelector).
syncMainDetached ==
    Detached("syncMainDetached", Three @@ [method |-> SyncThree("main")])

-----------------------------------------------------------------------------
(* OtherUsageController *)

semaphoreSync ==
    OnMain("semaphoreSync",
      [method |-> dispatch_async("global", "b1") \o dispatch_semaphore_wait("s1")
                    \o NSLog("end"),
       b1 |-> NSLog("1") \o NSLog("number = 100") \o dispatch_semaphore_signal("s1")])

groupEnterAndLeave ==
    OnMain("groupEnterAndLeave",
      [method |-> dispatch_group_enter \o dispatch_async("global", "b1")
                    \o dispatch_group_enter \o dispatch_async("global", "b2")
                    \o dispatch_group_notify("main", "b3"),
       b1 |-> Work("1") \o dispatch_group_leave,
       b2 |-> Work("2") \o dispatch_group_leave,
       b3 |-> Work("3") \o NSLog("end")])

groupWait ==
    OnMain("groupWait",
      [method |-> dispatch_group_async("global", "b1")
                    \o dispatch_group_async("global", "b2")
                    \o dispatch_group_wait \o NSLog("end"),
       b1 |-> Work("1"),
       b2 |-> Work("2")])

groupNotify ==
    OnMain("groupNotify",
      [method |-> dispatch_group_async("global", "b1")
                    \o dispatch_group_async("global", "b2")
                    \o dispatch_group_notify("main", "b3"),
       b1 |-> Work("1"),
       b2 |-> Work("2"),
       b3 |-> Work("3") \o NSLog("end")])

\* dispatch_apply returns when all its iterations have.
apply ==
    OnMain("apply",
      [method |-> dispatch_async("global", "b0") \o dispatch_async("global", "b1")
                    \o dispatch_async("global", "b2") \o dispatch_async("global", "b3")
                    \o dispatch_async("global", "b4") \o dispatch_async("global", "b5")
                    \o Join({"b0", "b1", "b2", "b3", "b4", "b5"}) \o NSLog("end"),
       b0 |-> NSLog("0"), b1 |-> NSLog("1"), b2 |-> NSLog("2"),
       b3 |-> NSLog("3"), b4 |-> NSLog("4"), b5 |-> NSLog("5")])

\* dispatch_after: the timer's thread appends the block when the time has come.
after ==
    OnMain("after",
      [method |-> NSLog("begin") \o dispatch_async("global", "timer"),
       timer |-> dispatch_async("main", "b1"),
       b1 |-> NSLog("1")])

\* Mutant: the barrier block is an ordinary one.
barrierAsync ==
    OnMain("barrier",
      Three @@ [b4 |-> Work("4"), fence |-> Work("barrier"),
       method |-> dispatch_async("concurrent", "b1") \o dispatch_async("concurrent", "b2")
                    \o dispatch_async("concurrent", "fence")
                    \o dispatch_async("concurrent", "b3")
                    \o dispatch_async("concurrent", "b4")])

barrier ==
    OnMain("barrier",
      Three @@ [b4 |-> Work("4"), fence |-> Work("barrier"),
       method |-> dispatch_async("concurrent", "b1") \o dispatch_async("concurrent", "b2")
                    \o dispatch_barrier_async("concurrent", "fence")
                    \o dispatch_async("concurrent", "b3")
                    \o dispatch_async("concurrent", "b4")])

-----------------------------------------------------------------------------
(* MultipleRequestController *)

Requests == {"audio", "image", "video"}
Begun == [audio |-> "audio begun", image |-> "image begun", video |-> "video begun"]
Ended == [audio |-> "audio ended", image |-> "image ended", video |-> "video ended"]

\* Mutant: the session calls its completion handlers on the main queue.
httpRequestOnMain(name, handler) ==
    NSLog(Begun[name]) \o dispatch_async("main", handler)

\* httpRequestTest:wihtBlock:.  The session calls the completion handler once,
\* when the answer is there or after the 30 seconds' timeout.
httpRequestTest(name, handler) ==
    NSLog(Begun[name]) \o dispatch_async("session", handler)

\* The completion handlers: they print that the request has ended and call the
\* block given with it, which does `then`.
Handlers(then) == [audioDone |-> NSLog(Ended["audio"]) \o then["audio"],
                   imageDone |-> NSLog(Ended["image"]) \o then["image"],
                   videoDone |-> NSLog(Ended["video"]) \o then["video"]]
Nothing == [n \in Requests |-> <<>>]
Signals == [audio |-> dispatch_semaphore_signal("s1"),
            image |-> dispatch_semaphore_signal("s2"),
            video |-> dispatch_semaphore_signal("s3")]

\* Three blocks that make one request each, then wait as `wait` says.
Requesting(wait) == [audio |-> httpRequestTest("audio", "audioDone") \o wait["audio"],
                     image |-> httpRequestTest("image", "imageDone") \o wait["image"],
                     video |-> httpRequestTest("video", "videoDone") \o wait["video"]]

Summary == [total |-> NSLog("summary")]

test_blockOperation ==
    OnMain("test_blockOperation",
      Requesting([audio |-> dispatch_semaphore_wait("s1"),
                  image |-> dispatch_semaphore_wait("s2"),
                  video |-> dispatch_semaphore_wait("s3")])
      @@ Handlers(Signals) @@ Summary
      @@ [op4 |-> NSLog("summing") \o dispatch_async("main", "total"),
          method |-> addOperation("audio", {}) \o addOperation("image", {})
                       \o addOperation("video", {})
                       \o addOperation("op4", Requests)])

test_operationQueue ==
    OnMain("test_operationQueue",
      Requesting(Nothing) @@ Handlers(Nothing) @@ Summary
      @@ [op4 |-> dispatch_async("main", "total"),
          method |-> addOperation("audio", {}) \o addOperation("image", {})
                       \o addOperation("video", {}) \o NSLog("summing")
                       \o addOperation("op4", {})])

\* Mutant: the group is left when the block returns, not in the handler.
test_group_async_only ==
    OnMain("test_dispatch_group_enter",
      Requesting(Nothing) @@ Handlers(Nothing) @@ Summary
      @@ [sum |-> NSLog("summing") \o dispatch_async("concurrent", "total"),
          method |-> dispatch_group_async("concurrent", "audio")
                       \o dispatch_group_async("concurrent", "image")
                       \o dispatch_group_async("concurrent", "video")
                       \o dispatch_group_notify("concurrent", "sum")])

test_dispatch_group_enter ==
    OnMain("test_dispatch_group_enter",
      Requesting(Nothing) @@ Handlers([n \in Requests |-> dispatch_group_leave])
      @@ Summary
      @@ [sum |-> NSLog("summing") \o dispatch_async("concurrent", "total"),
          method |-> dispatch_group_enter \o dispatch_async("concurrent", "audio")
                       \o dispatch_group_enter \o dispatch_async("concurrent", "image")
                       \o dispatch_group_enter \o dispatch_async("concurrent", "video")
                       \o dispatch_group_notify("concurrent", "sum")])

test_dispatch_group_notify ==
    OnMain("test_dispatch_group_notify",
      Requesting(Nothing) @@ Handlers(Nothing) @@ Summary
      @@ [sum |-> NSLog("summing") \o dispatch_async("concurrent", "total"),
          method |-> dispatch_group_async("concurrent", "audio")
                       \o dispatch_group_async("concurrent", "image")
                       \o dispatch_group_async("concurrent", "video")
                       \o dispatch_group_notify("concurrent", "sum")])

test_dispatch_group_wait ==
    OnMain("test_dispatch_group_wait",
      Requesting(Nothing) @@ Handlers(Nothing) @@ Summary
      @@ [method |-> dispatch_group_async("concurrent", "audio")
                       \o dispatch_group_async("concurrent", "image")
                       \o dispatch_group_async("concurrent", "video")
                       \o dispatch_group_wait \o NSLog("summing")
                       \o dispatch_async("concurrent", "total")])

test_dispatch_semaphore ==
    OnMain("test_dispatch_semaphore",
      Handlers(Signals) @@ Summary
      @@ [method |-> httpRequestTest("audio", "audioDone")
                       \o httpRequestTest("image", "imageDone")
                       \o httpRequestTest("video", "videoDone")
                       \o dispatch_semaphore_wait("s1")
                       \o dispatch_semaphore_wait("s2")
                       \o dispatch_semaphore_wait("s3")
                       \o dispatch_async("concurrent", "total")])

test_dispatch_barrier_async ==
    OnMain("test_dispatch_barrier_async",
      Requesting(Nothing) @@ Handlers(Nothing) @@ Summary
      @@ [fence |-> NSLog("summing"),
          method |-> dispatch_async("concurrent", "audio")
                       \o dispatch_async("concurrent", "image")
                       \o dispatch_async("concurrent", "video")
                       \o dispatch_barrier_async("concurrent", "fence")
                       \o dispatch_async("concurrent", "total")])

-----------------------------------------------------------------------------
(* NSOperationViewController, NSThreadViewController *)

communication ==
    OnMain("communication",
      [method |-> addOperation("b1", {}),
       b1 |-> Work("1") \o dispatch_async("main", "b2"),
       b2 |-> Work("2")])

addDependency ==
    OnMain("addDependency",
      [method |-> addOperation("b1", {}) \o addOperation("b2", {"b1"}),
       b1 |-> Work("1"),
       b2 |-> Work("2")])

\* [blockOperation start] runs the four blocks and returns when all have.
useBlockOperationAddExecutionBlock ==
    OnMain("useBlockOperationAddExecutionBlock",
      Three @@ [b4 |-> Work("4"),
       method |-> dispatch_async("global", "b1") \o dispatch_async("global", "b2")
                    \o dispatch_async("global", "b3") \o dispatch_async("global", "b4")
                    \o Join({"b1", "b2", "b3", "b4"})])

addOperationWithBlockToQueue ==
    [OnMain("addOperationWithBlockToQueue",
       Three @@ [method |-> addOperation("b1", {}) \o addOperation("b2", {})
                              \o addOperation("b3", {})])
     EXCEPT !.width = 2]

\* The third operation runs two blocks.
addOperationToQueue ==
    OnMain("addOperationToQueue",
      Three @@ [b4 |-> Work("4"),
       op3 |-> dispatch_async("global", "b3") \o dispatch_async("global", "b4")
                 \o Join({"b3", "b4"}),
       method |-> addOperation("b1", {}) \o addOperation("b2", {})
                    \o addOperation("op3", {})])

\* The downloading thread waits for the main thread to show the image.
loadImageWithMultiThread ==
    Detached("loadImageWithMultiThread",
      [method |-> dispatch_sync("main", "updateImg"),
       updateImg |-> NSLog("1")])

-----------------------------------------------------------------------------
(* UserCenter *)

Clients == {"c1", "c2"}

\* The blocks of a client's two calls.
BlockOf == [c1 |-> <<"c1a", "c1b">>, c2 |-> <<"c2a", "c2b">>]

\* objectForKey: and setObject:forKey:, on one key.
objectForKey(b) == dispatch_sync("concurrent", b)

\* Mutant: the write is queued without a barrier.
setObjectAsync(b) == dispatch_async("concurrent", b)

setObject(b) == dispatch_barrier_async("concurrent", b)

\* calls[c][i]: does client c's i-th call read or write?
UserCenter(calls) ==
    LET Call(c, i) == IF calls[c][i] = "get" THEN objectForKey(BlockOf[c][i])
                                             ELSE setObject(BlockOf[c][i])
        IsRead(b) == \E c \in Clients, i \in 1 .. 2 :
                       BlockOf[c][i] = b /\ calls[c][i] = "get"
    IN [name |-> "UserCenter",
        code |-> [c \in Clients |-> Call(c, 1) \o Call(c, 2)]
                 @@ [b \in {BlockOf[c][i] : c \in Clients, i \in 1 .. 2} |->
                       <<[op |-> IF IsRead(b) THEN "read" ELSE "write"]>>],
        roots |-> <<Entry("global", "c1"), Entry("global", "c2")>>,
        width |-> 3]

Demos == {deadLock, asyncMain, syncMain, asyncSerial, syncSerial, asyncConcurrent,
          syncConcurrent, syncMainDetached, semaphoreSync, groupEnterAndLeave,
          groupWait, groupNotify, apply, after, barrier, test_blockOperation,
          test_operationQueue, test_dispatch_group_enter,
          test_dispatch_group_notify, test_dispatch_group_wait,
          test_dispatch_semaphore, test_dispatch_barrier_async, communication,
          addDependency, useBlockOperationAddExecutionBlock,
          addOperationWithBlockToQueue, addOperationToQueue,
          loadImageWithMultiThread}
         \cup {UserCenter(calls) : calls \in [Clients -> [1 .. 2 -> {"get", "set"}]]}

-----------------------------------------------------------------------------
(* The system that runs the blocks *)

VARIABLES demo,      \* the method that runs, or the calls made to UserCenter
          queues,    \* queues[q]: every entry handed to queue q, in that order
          status,    \* status[b]: "new", "queued", "running" or "returned"
          pc,        \* pc[b]: the next step of block b
          entered,   \* the group's enters not yet left
          notifs,    \* the group's notifications
          semas,     \* the semaphores' values
          out,       \* out[w]: how often w has been printed
          dic,       \* userCenterDic's object, or "nil"
          obj        \* obj[b]: what the reading block b found

demoVars == <<demo, queues, status, pc, entered, notifs, semas, out, dic, obj>>

Queues == {"main", "serial", "concurrent", "global", "operations", "session"}
Blocks == DOMAIN demo.code
Returned(b) == status[b] = "returned"

\* The places of the program that print w, and all that it may print.
Prints(w) == {<<b, i>> \in UNION {{b} \X DOMAIN demo.code[b] : b \in Blocks} :
                demo.code[b][i].op = "log" /\ demo.code[b][i].what = w}
Printable == UNION {{demo.code[b][i].what : i \in {j \in DOMAIN demo.code[b] :
                       demo.code[b][j].op = "log"}} : b \in Blocks}

\* The queues qs once the entries have been appended to theirs, and the status
\* of the blocks then.
HandedOver(qs, entries) ==
    [q \in Queues |-> qs[q] \o SelectSeq(entries, LAMBDA e : e.queue = q)]
WithQueued(stat, entries) ==
    [b \in Blocks |-> IF \E k \in DOMAIN entries : entries[k].block = b
                        THEN "queued" ELSE stat[b]]

DemoInit ==
    /\ demo \in Demos
    /\ queues = HandedOver([q \in Queues |-> <<>>], demo.roots)
    /\ status = WithQueued([b \in Blocks |-> "new"], demo.roots)
    /\ pc = [b \in Blocks |-> 1]
    /\ entered = 0
    /\ notifs = <<>>
    /\ semas = [s1 |-> 0, s2 |-> 0, s3 |-> 0]
    /\ out = [w \in Printable |-> 0]
    /\ dic = "nil"
    /\ obj = [b \in Blocks |-> "nil"]

\* Entry k of queue q, and whether it has returned or still waits to start.
Block(q, k) == queues[q][k].block
Finished(q, k) == Returned(Block(q, k))
Running(q) == {k \in DOMAIN queues[q] : status[Block(q, k)] = "running"}
DepsMet(q, k) == \A b \in queues[q][k].deps : Returned(b)

\* Serial queues run one entry after the other; concurrent ones wait around
\* barriers; global queues run anything; an operation queue starts the oldest
\* operation whose dependencies have finished, up to its width; the session
\* calls one completion handler at a time, in the order of the answers.
MayStart(q, k) ==
    CASE q \in {"main", "serial"} -> \A j \in 1 .. k - 1 : Finished(q, j)
      [] q = "concurrent" ->
           \A j \in 1 .. k - 1 :
              queues[q][j].barrier \/ queues[q][k].barrier => Finished(q, j)
      [] q = "global" -> TRUE
      [] q = "operations" ->
           /\ DepsMet(q, k)
           /\ Cardinality(Running(q)) < demo.width
           /\ \A j \in 1 .. k - 1 : DepsMet(q, j) => status[Block(q, j)] # "queued"
      [] q = "session" -> Running(q) = {}

Start(q, k) ==
    /\ status[Block(q, k)] = "queued"
    /\ MayStart(q, k)
    /\ status' = [status EXCEPT ![Block(q, k)] = "running"]
    /\ UNCHANGED <<demo, queues, pc, entered, notifs, semas, out, dic, obj>>

\* Block b runs and its next step is an op.
At(b, op) == /\ status[b] = "running"
             /\ pc[b] <= Len(demo.code[b])
             /\ demo.code[b][pc[b]].op = op
Step(b) == demo.code[b][pc[b]]
Advance(b) == pc' = [pc EXCEPT ![b] = @ + 1]

HandOver(entries, stat) ==
    /\ queues' = HandedOver(queues, entries)
    /\ status' = WithQueued(stat, entries)

Log(b) ==
    /\ At(b, "log")
    /\ Advance(b)
    /\ out' = [out EXCEPT ![Step(b).what] = @ + 1]
    /\ UNCHANGED <<demo, queues, status, entered, notifs, semas, dic, obj>>

SubmitBlock(b) ==
    /\ At(b, "submit")
    /\ Advance(b)
    /\ HandOver(<<Step(b).entry>>, status)
    /\ entered' = entered + (IF Step(b).entry.group THEN 1 ELSE 0)
    /\ UNCHANGED <<demo, notifs, semas, out, dic, obj>>

JoinBlocks(b) ==
    /\ At(b, "join")
    /\ \A c \in Step(b).blocks : Returned(c)
    /\ Advance(b)
    /\ UNCHANGED <<demo, queues, status, entered, notifs, semas, out, dic, obj>>

GroupEnter(b) ==
    /\ At(b, "enter")
    /\ Advance(b)
    /\ entered' = entered + 1
    /\ UNCHANGED <<demo, queues, status, notifs, semas, out, dic, obj>>

\* One enter less; the last one hands the notifications to their queues.
Leave(stat) ==
    /\ entered' = entered - 1
    /\ IF entered = 1
         THEN HandOver(notifs, stat) /\ notifs' = <<>>
         ELSE status' = stat /\ UNCHANGED <<queues, notifs>>

GroupLeave(b) ==
    /\ At(b, "leave")
    /\ Advance(b)
    /\ Leave(status)
    /\ UNCHANGED <<demo, semas, out, dic, obj>>

GroupWait(b) ==
    /\ At(b, "groupWait")
    /\ entered = 0
    /\ Advance(b)
    /\ UNCHANGED <<demo, queues, status, entered, notifs, semas, out, dic, obj>>

GroupNotify(b) ==
    /\ At(b, "notify")
    /\ Advance(b)
    /\ IF entered = 0
         THEN HandOver(<<Step(b).entry>>, status) /\ UNCHANGED notifs
         ELSE /\ notifs' = Append(notifs, Step(b).entry)
              /\ UNCHANGED <<queues, status>>
    /\ UNCHANGED <<demo, entered, semas, out, dic, obj>>

SemaphoreWait(b) ==
    /\ At(b, "wait")
    /\ semas[Step(b).sema] > 0
    /\ Advance(b)
    /\ semas' = [semas EXCEPT ![Step(b).sema] = @ - 1]
    /\ UNCHANGED <<demo, queues, status, entered, notifs, out, dic, obj>>

SemaphoreSignal(b) ==
    /\ At(b, "signal")
    /\ Advance(b)
    /\ semas' = [semas EXCEPT ![Step(b).sema] = @ + 1]
    /\ UNCHANGED <<demo, queues, status, entered, notifs, out, dic, obj>>

\* The dictionary is read, or written with an object named after the block.
ReadDic(b) ==
    /\ At(b, "read")
    /\ Advance(b)
    /\ obj' = [obj EXCEPT ![b] = dic]
    /\ UNCHANGED <<demo, queues, status, entered, notifs, semas, out, dic>>

WriteDic(b) ==
    /\ At(b, "write")
    /\ Advance(b)
    /\ dic' = b
    /\ UNCHANGED <<demo, queues, status, entered, notifs, semas, out, obj>>

\* The block of entry k returns; dispatch_group_async leaves the group then.
Return(q, k) ==
    LET b == Block(q, k)
        returned == [status EXCEPT ![b] = "returned"]
    IN /\ status[b] = "running"
       /\ pc[b] > Len(demo.code[b])
       /\ IF queues[q][k].group
            THEN Leave(returned)
            ELSE status' = returned /\ UNCHANGED <<queues, entered, notifs>>
       /\ UNCHANGED <<demo, pc, semas, out, dic, obj>>

DemoNext ==
    \/ \E q \in Queues : \E k \in DOMAIN queues[q] : Start(q, k) \/ Return(q, k)
    \/ \E b \in Blocks :
         \/ Log(b)
         \/ SubmitBlock(b)
         \/ JoinBlocks(b)
         \/ GroupEnter(b)
         \/ GroupLeave(b)
         \/ GroupWait(b)
         \/ GroupNotify(b)
         \/ SemaphoreWait(b)
         \/ SemaphoreSignal(b)
         \/ ReadDic(b)
         \/ WriteDic(b)

-----------------------------------------------------------------------------
(* Properties *)

\* b prints only when everything that prints a has done so.
Precedes(a, b) ==
    b \in DOMAIN out /\ out[b] > 0 => out[a] = Cardinality(Prints(a))

InOrder(seq) == \A i \in 1 .. Len(seq) - 1 : Precedes(seq[i], seq[i + 1])

\* What the comments say of each method: serial queues keep the order of
\* submission, the main queue runs its blocks after the method, dispatch_sync
\* returns after its block, a barrier separates, a notification or a wait
\* comes after the group's blocks, a dependent operation after the other.
DocumentedOrder ==
    CASE demo.name = "asyncMain" -> InOrder(<<"end", "1", "2", "3">>)
      [] demo.name = "asyncSerial" -> InOrder(<<"1", "2", "3">>)
      [] demo.name \in {"syncSerial", "syncConcurrent", "syncMainDetached"} ->
           InOrder(<<"1", "2", "3", "end">>)
      [] demo.name = "semaphoreSync" -> Precedes("number = 100", "end")
      [] demo.name \in {"groupEnterAndLeave", "groupNotify"} ->
           \A n \in {"1", "2"} : InOrder(<<n, "3", "end">>)
      [] demo.name = "groupWait" -> \A n \in {"1", "2"} : Precedes(n, "end")
      [] demo.name = "apply" ->
           \A n \in {"0", "1", "2", "3", "4", "5"} : Precedes(n, "end")
      [] demo.name = "barrier" ->
           /\ \A n \in {"1", "2"} : Precedes(n, "barrier")
           /\ \A n \in {"3", "4"} : Precedes("barrier", n)
      [] demo.name \in {"communication", "addDependency"} -> Precedes("1", "2")
      [] OTHER -> TRUE

Summaries == {"summing", "summary"}

\* The three methods marked as successful sum up only when all three requests
\* have been answered, whatever the order of the answers.  The group and the
\* barrier without enter and leave know when the requests have been sent: the
\* summary comes after that, if not after the answers.  An operation queue of
\* width three holds the fourth operation, the summary, back only until one
\* request has been sent.
SummaryAfterRequests ==
    /\ demo.name \in {"test_blockOperation", "test_dispatch_group_enter",
                      "test_dispatch_semaphore"} =>
         \A n \in Requests, s \in Summaries : Precedes(Ended[n], s)
    /\ demo.name \in {"test_dispatch_group_notify", "test_dispatch_group_wait",
                      "test_dispatch_barrier_async"} =>
         \A n \in Requests, s \in Summaries : Precedes(Begun[n], s)
    /\ demo.name = "test_operationQueue" /\ out["summary"] > 0 =>
         \E n \in Requests : out[Begun[n]] > 0

\* dispatch_sync to the serial queue one runs on never runs its block.
DocumentedDeadlocks ==
    /\ demo.name = "deadLock" => out["3"] = 0
    /\ demo.name = "syncMain" => \A w \in DOMAIN out : out[w] = 0

\* Every other method returns, and so do all the blocks it creates.
OthersFinish ==
    demo.name \notin {"deadLock", "syncMain"} => <>(\A b \in Blocks : Returned(b))

IsWrite(b) == demo.code[b][1].op = "write"
Accesses == {b \in Blocks : demo.code[b] # <<>> /\ demo.code[b][1].op \in {"read", "write"}}

\* UserCenter behaves as if each call were atomic: a block that writes the
\* dictionary runs alone, and a read returns the object of the last write that
\* was requested before it, by whichever thread.
AtomicCalls ==
    /\ \A a, b \in Accesses : a # b /\ IsWrite(a)
         => ~(status[a] = "running" /\ status[b] = "running")
    /\ \A k \in DOMAIN queues["concurrent"] :
         LET b == Block("concurrent", k)
             sets == SelectSeq(SubSeq(queues["concurrent"], 1, k - 1),
                               LAMBDA e : e.block \in Accesses /\ IsWrite(e.block))
         IN b \in Accesses /\ ~IsWrite(b) /\ Returned(b) =>
              obj[b] = IF sets = <<>> THEN "nil" ELSE sets[Len(sets)].block
=============================================================================
