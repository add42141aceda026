---------------------------- MODULE DispatchOnce ----------------------------
(***************************************************************************)
(* dispatch_once_f (once.c) and the gate it is built on (shims/lock.h,      *)
(* shims/lock.c), one step per atomic instruction.  The block of a token    *)
(* may itself call dispatch_once; two blocks that call it on each other's   *)
(* token from two threads wait for each other for ever, an error of the     *)
(* client that Nests keeps out.  Memory is sequentially consistent: what    *)
(* the quiescence counter of the ARM build is there for, the barrier that   *)
(* the fast path of a caller leaves out, is not in question here.           *)
(***************************************************************************)
EXTENDS Integers, Sequences, SequencesExt

CONSTANTS
    Callers,       \* threads
    Tokens,        \* dispatch_once_t variables
    Uses,          \* pairs <<c, k>>: thread c calls dispatch_once on token k
    Nests,         \* pairs <<a, b>>: the block of a may call dispatch_once on b
    SafeDelta,     \* DISPATCH_ONCE_GEN_SAFE_DELTA, in increments of the counter
    MaxGeneration  \* bound of the quiescence counter

ASSUME OnceAssumption ==
    /\ Uses \subseteq Callers \X Tokens /\ Nests \subseteq Tokens \X Tokens
    /\ SafeDelta \in Nat /\ MaxGeneration \in Nat

VARIABLES
    quiescent,   \* DISPATCH_ONCE_USE_QUIESCENT_COUNTER of the build
    generation,  \* _COMM_PAGE_CPU_QUIESCENT_COUNTER
    gate,        \* dgo_once of each token
    inside,      \* each thread's calls of dispatch_once, the innermost last
    at,          \* where each call is
    seen,        \* the value of the gate its next step needs
    began, ended,\* how often each block was called and has returned
    crashed      \* DISPATCH_CLIENT_CRASH

onceVars == <<quiescent, generation, gate, inside, at, seen, began, ended, crashed>>

\* The values of dgo_once: not entered; the thread that has entered, and
\* DLOCK_WAITERS_BIT; a generation; DLOCK_ONCE_DONE
Unentered == [is |-> "unlocked"]
Held(c, waiters) == [is |-> "held", by |-> c, waiters |-> waiters]
Gen(n) == [is |-> "gen", n |-> n]
Done == [is |-> "done"]

OnceInit ==
    /\ quiescent \in BOOLEAN /\ generation = 0
    /\ gate = [k \in Tokens |-> Unentered]
    /\ inside = [c \in Callers |-> <<>>]
    /\ at = [c \in Callers |-> [k \in Tokens |-> "out"]]
    /\ seen = [c \in Callers |-> Unentered]
    /\ began = [k \in Tokens |-> 0] /\ ended = [k \in Tokens |-> 0]
    /\ crashed = FALSE

-----------------------------------------------------------------------------
\* c's innermost call is on k and has come to pc
Is(c, k, pc) == ~crashed /\ inside[c] # <<>> /\ Last(inside[c]) = k /\ at[c][k] = pc
To(c, k, pc) == at' = [at EXCEPT ![c][k] = pc]

\* The call returns
Returns(c, k) == To(c, k, "returned") /\ inside' = [inside EXCEPT ![c] = Front(@)]

\* dispatch_once_f is called, outside any block or from the block of a token
\* whose call is running, once by each thread on each token.  On a token the
\* thread is inside itself it crashes.
dispatch_once_f(c, k) ==
    /\ ~crashed /\ <<c, k>> \in Uses /\ at[c][k] # "returned"
    /\ inside[c] # <<>> => LET outer == Last(inside[c])
                           IN at[c][outer] = "callout" /\ <<outer, k>> \in Nests
    /\ IF k \in ToSet(inside[c])
       THEN crashed' = TRUE /\ UNCHANGED <<inside, at>>
       ELSE inside' = [inside EXCEPT ![c] = Append(@, k)] /\ To(c, k, "load") /\ UNCHANGED crashed
    /\ UNCHANGED <<quiescent, generation, gate, seen, began, ended>>

\* What a gate that is done, or was passed in some generation, means to a call
Passed(c, k, v) ==
    /\ v.is \in {"done", "gen"}
    /\ IF v.is = "done" THEN Returns(c, k) ELSE To(c, k, "quiesce") /\ UNCHANGED inside

Load(c, k) ==
    /\ Is(c, k, "load")
    /\ seen' = IF gate[k].is = "gen" THEN [seen EXCEPT ![c] = gate[k]] ELSE seen
    /\ \/ Passed(c, k, gate[k])
       \/ gate[k].is \in {"unlocked", "held"} /\ To(c, k, "tryenter") /\ UNCHANGED inside
    /\ UNCHANGED <<quiescent, generation, gate, began, ended, crashed>>

\* _dispatch_once_mark_done_if_quiesced
MarkDoneIfQuiesced(c, k) ==
    /\ Is(c, k, "quiesce") /\ Returns(c, k)
    /\ gate' = IF generation - seen[c].n >= SafeDelta THEN [gate EXCEPT ![k] = Done] ELSE gate
    /\ seen' = [seen EXCEPT ![c] = Unentered]
    /\ UNCHANGED <<quiescent, generation, began, ended, crashed>>

\* Mutant: the gate is entered whoever is inside.
TryEnterBlindly(c, k) ==
    /\ Is(c, k, "tryenter")
    /\ gate' = [gate EXCEPT ![k] = Held(c, FALSE)]
    /\ began' = [began EXCEPT ![k] = @ + 1] /\ To(c, k, "callout")
    /\ UNCHANGED <<quiescent, generation, inside, seen, ended, crashed>>

\* _dispatch_once_gate_tryenter, and the block is called
TryEnter(c, k) ==
    /\ Is(c, k, "tryenter")
    /\ IF gate[k] = Unentered
       THEN /\ gate' = [gate EXCEPT ![k] = Held(c, FALSE)]
            /\ began' = [began EXCEPT ![k] = @ + 1] /\ To(c, k, "callout")
       ELSE To(c, k, "wait") /\ UNCHANGED <<gate, began>>
    /\ UNCHANGED <<quiescent, generation, inside, seen, ended, crashed>>

BlockReturns(c, k) ==
    /\ Is(c, k, "callout") /\ To(c, k, "broadcast") /\ ended' = [ended EXCEPT ![k] = @ + 1]
    /\ UNCHANGED <<quiescent, generation, gate, inside, seen, began, crashed>>

\* _dispatch_once_gate_broadcast: the exchange
Broadcast(c, k) ==
    /\ Is(c, k, "broadcast")
    /\ gate' = [gate EXCEPT ![k] = IF quiescent THEN Gen(generation) ELSE Done]
    /\ IF gate[k] = Held(c, FALSE) THEN Returns(c, k) ELSE To(c, k, "wake") /\ UNCHANGED inside
    /\ UNCHANGED <<quiescent, generation, seen, began, ended, crashed>>

\* Mutant: one of the waiting threads is woken.
WakeOne(c, k) ==
    /\ Is(c, k, "wake") /\ inside' = [inside EXCEPT ![c] = Front(@)]
    /\ LET asleep == {d \in Callers : at[d][k] = "asleep"}
           one == IF asleep = {} THEN {} ELSE {CHOOSE d \in asleep : TRUE}
       IN at' = [d \in Callers |-> [at[d] EXCEPT ![k] =
                   IF d = c THEN "returned" ELSE IF d \in one THEN "wait" ELSE @]]
    /\ UNCHANGED <<quiescent, generation, gate, seen, began, ended, crashed>>

\* _dispatch_gate_broadcast_slow: all threads asleep on the gate
Wake(c, k) ==
    /\ Is(c, k, "wake") /\ inside' = [inside EXCEPT ![c] = Front(@)]
    /\ at' = [d \in Callers |-> [at[d] EXCEPT ![k] =
                IF d = c THEN "returned" ELSE IF @ = "asleep" THEN "wait" ELSE @]]
    /\ UNCHANGED <<quiescent, generation, gate, seen, began, ended, crashed>>

\* _dispatch_once_wait: the loop that sets DLOCK_WAITERS_BIT
Wait(c, k) ==
    /\ Is(c, k, "wait")
    /\ \/ /\ Passed(c, k, gate[k])
          /\ seen' = IF gate[k].is = "gen" THEN [seen EXCEPT ![c] = gate[k]] ELSE seen
          /\ UNCHANGED gate
       \/ /\ gate[k].is = "held"
          /\ gate' = [gate EXCEPT ![k].waiters = TRUE]
          /\ seen' = [seen EXCEPT ![c] = gate'[k]]
          /\ To(c, k, "sleep") /\ UNCHANGED inside
    /\ UNCHANGED <<quiescent, generation, began, ended, crashed>>

\* The kernel compares the gate with the value the thread has set, and puts the
\* thread to sleep if it has not changed
Sleep(c, k) ==
    /\ Is(c, k, "sleep")
    /\ To(c, k, IF gate[k] = seen[c] THEN "asleep" ELSE "wait")
    /\ seen' = [seen EXCEPT ![c] = Unentered]
    /\ UNCHANGED <<quiescent, generation, gate, inside, began, ended, crashed>>

\* The kernel may return without a wake-up
Interrupted(c, k) ==
    /\ Is(c, k, "asleep") /\ To(c, k, "wait")
    /\ UNCHANGED <<quiescent, generation, gate, inside, seen, began, ended, crashed>>

\* All CPUs have performed a context switch
Quiesce ==
    /\ quiescent /\ generation < MaxGeneration /\ generation' = generation + 1
    /\ UNCHANGED <<quiescent, gate, inside, at, seen, began, ended, crashed>>

OnceStep(c) ==
    \E k \in Tokens :
        \/ Load(c, k) \/ MarkDoneIfQuiesced(c, k) \/ TryEnter(c, k)
        \/ BlockReturns(c, k) \/ Broadcast(c, k) \/ Wake(c, k) \/ Wait(c, k) \/ Sleep(c, k)

OnceNext ==
    \/ \E c \in Callers : OnceStep(c)
    \/ \E c \in Callers, k \in Tokens : dispatch_once_f(c, k) \/ Interrupted(c, k)
    \/ Quiesce

OnceSpec == OnceInit /\ [][OnceNext]_onceVars

-----------------------------------------------------------------------------
\* The block of a token is called at most once however calls of it interleave,
\* and no call of dispatch_once returns before the block has returned
OnceAndBefore ==
    \A k \in Tokens :
        /\ began[k] <= 1
        /\ \A c \in Callers : at[c][k] = "returned" => ended[k] = 1

\* Every call returns, those that found another thread in the block too, unless
\* some block called dispatch_once on the token it was called for
OnceReturns ==
    \A c \in Callers, k \in Tokens :
        at[c][k] # "out" ~> at[c][k] = "returned" \/ crashed
=============================================================================
