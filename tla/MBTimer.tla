------------------------------ MODULE MBTimer ------------------------------
(***************************************************************************)
(* MBTimer (TimerDemo): a class that wraps dispatch timer sources and      *)
(* hands out names to cancel them by.  The dictionary timers_ is the only  *)
(* thing that keeps a source alive once execTask has returned; a source    *)
(* whose last reference goes is cancelled by libdispatch.  timers_ is      *)
(* touched only between the wait and the signal of semaphore_, so each     *)
(* such section is one action; execTask, the handlers and cancelTask are   *)
(* interleaved around it, as callers on any queue may do.                  *)
(***************************************************************************)
EXTENDS Integers, FiniteSets, Functions

CONSTANT Timers    \* the timer sources created, one for each call of execTask

ASSUME TimersAssumption == IsFiniteSet(Timers)

VARIABLES timers_,  \* the dictionary: a function from names to timers
          call,     \* call[t]: "none", "stored" (inside execTask) or "returned"
          name,     \* name[t]: the name execTask gave t
          repeats,  \* repeats[t]: the parameter of execTask
          source,   \* source[t]: "none", "suspended", "active" or "cancelled"
          handler,  \* handler[t]: "idle", or "ran" its task and not ended yet
          fired     \* history: the timers whose task has run

timerVars == <<timers_, call, name, repeats, source, handler, fired>>

\* A name is the decimal numeral of a count of timers.
Names == 0 .. Cardinality(Timers) - 1
NoName == -1

Stored(dict) == Range(dict)

\* timers_[n] = t
Put(dict, n, t) ==
    [m \in DOMAIN dict \cup {n} |-> IF m = n THEN t ELSE dict[m]]

\* +initialize, before the first message to the class
TimerInit ==
    /\ timers_ = <<>>
    /\ call = [t \in Timers |-> "none"]
    /\ name = [t \in Timers |-> NoName]
    /\ repeats = [t \in Timers |-> FALSE]
    /\ source = [t \in Timers |-> "none"]
    /\ handler = [t \in Timers |-> "idle"]
    /\ fired = {}

\* ARC: a source that neither the dictionary nor execTask's local variable
\* refers to is released, and libdispatch treats DQF_RELEASED as a cancellation;
\* a handler that is running ends.
Released(src, dict, calls) ==
    [t \in Timers |->
        IF src[t] = "active" /\ t \notin Stored(dict) /\ calls[t] = "returned"
          THEN "cancelled" ELSE src[t]]

-----------------------------------------------------------------------------
(* execTask:start:interval:repeats:async: with valid arguments.  (With      *)
(* others it returns nil and changes nothing.)                              *)

\* Mutant: the name is made after the timer is stored.
StoreThenName(t, rep) ==
    /\ call[t] = "none"
    /\ LET dict == Put(timers_, Cardinality(DOMAIN timers_), t)
       IN  /\ timers_' = dict
           /\ name' = [name EXCEPT ![t] = Cardinality(DOMAIN dict)]
           /\ call' = [call EXCEPT ![t] = "stored"]
           /\ repeats' = [repeats EXCEPT ![t] = rep]
           /\ UNCHANGED <<handler, fired>>
           /\ source' = Released([source EXCEPT ![t] = "suspended"], dict, call')

\* The source is created suspended, named after the number of timers there
\* are, and stored: a timer that has that name already is overwritten.
Store(t, rep) ==
    /\ call[t] = "none"
    /\ LET new == Cardinality(DOMAIN timers_)
           dict == Put(timers_, new, t)
       IN  /\ timers_' = dict
           /\ name' = [name EXCEPT ![t] = new]
           /\ call' = [call EXCEPT ![t] = "stored"]
           /\ repeats' = [repeats EXCEPT ![t] = rep]
           /\ UNCHANGED <<handler, fired>>
           /\ source' = Released([source EXCEPT ![t] = "suspended"], dict, call')

\* The handler is set and the source resumed; it may have been cancelled.
Resume(t) ==
    /\ call[t] = "stored" /\ source[t] = "suspended"
    /\ source' = [source EXCEPT ![t] = "active"]
    /\ UNCHANGED <<timers_, call, name, repeats, handler, fired>>

\* The name is returned, and the local reference to the source given up.
ExecReturns(t) ==
    /\ call[t] = "stored" /\ source[t] # "suspended"
    /\ call' = [call EXCEPT ![t] = "returned"]
    /\ UNCHANGED <<timers_, name, repeats, handler, fired>>
    /\ source' = Released(source, timers_, call')

-----------------------------------------------------------------------------
\* Mutant: the source is cancelled but stays in the dictionary.
CancelKeeps(n) ==
    IF n \in DOMAIN timers_
      THEN LET t == timers_[n]
           IN  /\ UNCHANGED timers_
               /\ source' = Released([source EXCEPT ![t] = "cancelled"], timers_, call)
      ELSE /\ UNCHANGED timers_
           /\ source' = Released(source, timers_, call)

\* cancelTask: the source that has the name, if any, is cancelled and removed.
cancelTask(n) ==
    IF n \in DOMAIN timers_
      THEN LET dict == Restrict(timers_, DOMAIN timers_ \ {n})
           IN  /\ timers_' = dict
               /\ source' = Released([source EXCEPT ![timers_[n]] = "cancelled"],
                                     dict, call)
      ELSE /\ UNCHANGED timers_
           /\ source' = Released(source, timers_, call)

\* A caller cancels by a name that execTask returned, perhaps long ago.
Cancel(t) ==
    /\ call[t] = "returned"
    /\ UNCHANGED <<call, name, repeats, handler, fired>>
    /\ cancelTask(name[t])

\* The event handler runs the task.
Fire(t) ==
    /\ source[t] = "active"
    /\ handler[t] = "idle"
    /\ handler' = [handler EXCEPT ![t] = "ran"]
    /\ fired' = fired \cup {t}
    /\ UNCHANGED <<timers_, call, name, repeats, source>>

\* Mutant: it is the repeating timer that cancels itself.
HandlerEndsInverted(t) ==
    /\ handler[t] = "ran"
    /\ handler' = [handler EXCEPT ![t] = "idle"]
    /\ UNCHANGED <<call, name, repeats, fired>>
    /\ IF repeats[t] THEN cancelTask(name[t])
       ELSE UNCHANGED timers_ /\ source' = Released(source, timers_, call)

\* and, unless the timer repeats, cancels the timer by its name.
HandlerEnds(t) ==
    /\ handler[t] = "ran"
    /\ handler' = [handler EXCEPT ![t] = "idle"]
    /\ UNCHANGED <<call, name, repeats, fired>>
    /\ IF repeats[t] THEN UNCHANGED timers_ /\ source' = Released(source, timers_, call)
       ELSE cancelTask(name[t])

TimerNext ==
    \E t \in Timers :
        \/ \E rep \in BOOLEAN : Store(t, rep)
        \/ Resume(t)
        \/ ExecReturns(t)
        \/ Cancel(t)
        \/ Fire(t)
        \/ HandlerEnds(t)

TimerSpec == TimerInit /\ [][TimerNext]_timerVars

\* execTask, once called, returns; an active timer fires, and its handler ends.
FairTimer ==
    /\ TimerSpec
    /\ \A t \in Timers : /\ WF_timerVars(Resume(t) \/ ExecReturns(t))
                         /\ WF_timerVars(Fire(t) \/ HandlerEnds(t))

-----------------------------------------------------------------------------
(* Properties *)

\* Names are counts of timers, and the dictionary maps names to timers.
TimerTypeOK ==
    /\ DOMAIN timers_ \subseteq Names
    /\ Stored(timers_) \subseteq Timers
    /\ call \in [Timers -> {"none", "stored", "returned"}]
    /\ name \in [Timers -> Names \cup {NoName}]
    /\ repeats \in [Timers -> BOOLEAN]
    /\ source \in [Timers -> {"none", "suspended", "active", "cancelled"}]
    /\ handler \in [Timers -> {"idle", "ran"}]
    /\ fired \subseteq Timers

\* A timer whose execTask has returned and that may still fire is the one its
\* name leads to: no timer runs on that nobody can cancel.
RunningIsCancellable ==
    \A t \in Timers :
        (call[t] = "returned" /\ source[t] = "active")
            => name[t] \in DOMAIN timers_ /\ timers_[name[t]] = t

\* The dictionary holds no timer that has been cancelled: a name that is in
\* use always leads to a source that can still fire.
NoDeadEntry ==
    \A n \in DOMAIN timers_ : source[timers_[n]] # "cancelled"

\* Every execTask gets to its end, with a source that is resumed or cancelled; and
\* every one-shot timer that fires ends up cancelled, even if its name was given
\* to another timer meanwhile.
OneShotEnds ==
    <>[](\A t \in Timers : /\ call[t] # "stored" /\ source[t] # "suspended"
                           /\ t \in fired /\ ~repeats[t] => source[t] = "cancelled")

\* "The timer's unique identifier" (comment in execTask): two timers that can
\* still fire have different names.
UniqueName ==
    \A s, t \in Timers :
        (s # t /\ {source[s], source[t]} \subseteq {"suspended", "active"})
            => name[s] # name[t]
=============================================================================
