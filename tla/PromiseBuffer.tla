--------------------------- MODULE PromiseBuffer ---------------------------
(***************************************************************************)
(* makePromiseBuffer of packages/core/src/utils/promisebuffer.ts: the      *)
(* bounded set of in-flight promises shared by Client._process and by      *)
(* createTransport.                                                        *)
(*                                                                         *)
(* add() tests the size, then calls the task producer, and only then       *)
(* stores the promise.  A producer runs arbitrary code (event processors,  *)
(* beforeSend, a custom makeRequest) and may call add() again, so the test *)
(* (Start) and the store (Store) are separate steps and `stack` holds the  *)
(* producers that are running, innermost last.  JavaScript runs to         *)
(* completion: promise reactions and timers wait until the stack is empty. *)
(***************************************************************************)
EXTENDS Naturals, Sequences, FiniteSets

CONSTANTS
    Tasks,      \* the calls of add()
    SyncTasks,  \* those whose producer may return a SyncPromise (Client)
    NativeTasks,\* those whose producer may return a native promise
    Limit,      \* the `limit` argument
    MaxDepth,   \* bound: how deep producers nest
    Drains      \* the calls of drain()

ASSUME BufferAssumption ==
    /\ IsFiniteSet(Tasks)
    /\ SyncTasks \cup NativeTasks = Tasks
    /\ Limit \in Nat \ {0}
    /\ MaxDepth \in Nat \ {0}

VARIABLES
    status,  \* of each task; see Statuses
    buffer,  \* the Set of promises
    stack,   \* tasks whose producer is running
    drain    \* per drain() call: its answer, the promises it waits for, has it a timeout

vars == <<status, buffer, stack, drain>>

Settled == {"fulfilled", "rejected"}
Statuses == {"new", "producing", "pending", "refused", "thrown"} \cup Settled
Answers == {"none", "waiting", "true", "false"}

IsSettled(t) == status[t] \in Settled
Top == stack[Len(stack)]
Pop == SubSeq(stack, 1, Len(stack) - 1)
Idle == stack = <<>>

TypeOK ==
    /\ status \in [Tasks -> Statuses]
    /\ buffer \in SUBSET Tasks
    /\ stack \in Seq(Tasks)
    /\ drain \in [Drains -> [answer: Answers, snap: SUBSET Tasks, timed: BOOLEAN]]

Init ==
    /\ status = [t \in Tasks |-> "new"]
    /\ buffer = {}
    /\ stack = <<>>
    /\ drain = [d \in Drains |-> [answer |-> "none", snap |-> {}, timed |-> FALSE]]

-----------------------------------------------------------------------------
(* add(taskProducer) *)

IsReady == Cardinality(buffer) < Limit

Refuse(t) ==
    /\ status[t] = "new"
    /\ ~IsReady
    /\ status' = [status EXCEPT ![t] = "refused"]
    /\ UNCHANGED <<buffer, stack, drain>>

Start(t) ==
    /\ status[t] = "new"
    /\ IsReady
    /\ Len(stack) < MaxDepth
    /\ status' = [status EXCEPT ![t] = "producing"]
    /\ stack' = Append(stack, t)
    /\ UNCHANGED <<buffer, drain>>

\* mutant: then(remove) is called before buffer.add
StoreAfterThen(t, s) ==
    /\ ~Idle
    /\ t = Top
    /\ stack' = Pop
    /\ status' = [status EXCEPT ![t] = s]
    /\ buffer' = buffer \cup {t}
    /\ UNCHANGED drain

(* The producer returned a promise, pending or already settled.  A settled *)
(* SyncPromise calls remove() inside task.then(), before add() returns.    *)
Store(t, s) ==
    /\ ~Idle
    /\ t = Top
    /\ stack' = Pop
    /\ status' = [status EXCEPT ![t] = s]
    /\ \/ t \in SyncTasks /\ s \in Settled /\ UNCHANGED buffer
       \/ (t \in NativeTasks \/ s = "pending") /\ buffer' = buffer \cup {t}
    /\ UNCHANGED drain

(* The producer threw: add() throws, nothing was stored. *)
Throw(t) ==
    /\ ~Idle
    /\ t = Top
    /\ stack' = Pop
    /\ status' = [status EXCEPT ![t] = "thrown"]
    /\ UNCHANGED <<buffer, drain>>

-----------------------------------------------------------------------------
(* The promise settles.  The reactions of a SyncPromise run at once, those *)
(* of a native promise in a later microtask (Remove).                      *)

Settle(t, s) ==
    /\ status[t] = "pending"
    /\ status' = [status EXCEPT ![t] = s]
    /\ \/ t \in SyncTasks /\ buffer' = buffer \ {t}
       \/ t \in NativeTasks /\ UNCHANGED buffer
    /\ UNCHANGED <<stack, drain>>

\* mutant: no rejection handler, then(() => remove(task))
RemoveFulfilled(t) ==
    /\ Idle
    /\ status[t] = "fulfilled"
    /\ t \in buffer
    /\ buffer' = buffer \ {t}
    /\ UNCHANGED <<status, stack, drain>>

Remove(t) ==
    /\ Idle
    /\ IsSettled(t)
    /\ t \in buffer
    /\ buffer' = buffer \ {t}
    /\ UNCHANGED <<status, stack, drain>>

-----------------------------------------------------------------------------
(* drain(timeout): `timed` is FALSE for a timeout of 0 or undefined *)

\* mutant: `return` forgotten before Promise.race
CallDrainNoReturn(d, timed) ==
    /\ drain[d].answer = "none"
    /\ drain' = [drain EXCEPT ![d] =
                    [answer |-> IF buffer = {} THEN "true" ELSE "undefined",
                     snap |-> buffer,
                     timed |-> timed]]
    /\ UNCHANGED <<status, buffer, stack>>

CallDrain(d, timed) ==
    /\ drain[d].answer = "none"
    /\ drain' = [drain EXCEPT ![d] =
                    [answer |-> IF buffer = {} THEN "true" ELSE "waiting",
                     snap |-> buffer,
                     timed |-> timed]]
    /\ UNCHANGED <<status, buffer, stack>>

\* mutant: Promise.race for Promise.allSettled
AnySettled(d) == \E t \in drain[d].snap : IsSettled(t) /\ t \notin buffer

(* Promise.allSettled over the snapshot: its reactions were attached after *)
(* those of add(), so they run after remove().                             *)
AllSettled(d) == \A t \in drain[d].snap : IsSettled(t) /\ t \notin buffer

DrainDone(d) ==
    /\ Idle
    /\ drain[d].answer = "waiting"
    /\ AllSettled(d)
    /\ drain' = [drain EXCEPT ![d].answer = "true"]
    /\ UNCHANGED <<status, buffer, stack>>

(* A timer is a macrotask: all reactions of settled promises have run. *)
ReactionsDone == Idle /\ \A t \in buffer : ~IsSettled(t)

\* mutant: the test of `!timeout` forgotten
DrainTimeoutAlways(d) ==
    /\ ReactionsDone
    /\ drain[d].answer = "waiting"
    /\ ~AllSettled(d)
    /\ drain' = [drain EXCEPT ![d].answer = "false"]
    /\ UNCHANGED <<status, buffer, stack>>

DrainTimeout(d) ==
    /\ ReactionsDone
    /\ drain[d].answer = "waiting"
    /\ drain[d].timed
    /\ ~AllSettled(d)
    /\ drain' = [drain EXCEPT ![d].answer = "false"]
    /\ UNCHANGED <<status, buffer, stack>>

-----------------------------------------------------------------------------
ProducerReturns(t) == Throw(t) \/ \E s \in Settled \cup {"pending"} : Store(t, s)

Next ==
    \/ \E t \in Tasks :
          \/ Refuse(t) \/ Start(t) \/ ProducerReturns(t) \/ Remove(t)
          \/ \E s \in Settled : Settle(t, s)
    \/ \E d \in Drains :
          \/ DrainDone(d) \/ DrainTimeout(d)
          \/ \E timed \in BOOLEAN : CallDrain(d, timed)

(* The event loop is fair: a running producer returns, queued reactions    *)
(* and expired timers run.  Nothing makes a promise settle.                *)
Fairness ==
    /\ \A t \in Tasks : WF_vars(ProducerReturns(t)) /\ WF_vars(Remove(t))
    /\ \A d \in Drains : WF_vars(DrainDone(d)) /\ WF_vars(DrainTimeout(d))

Spec == Init /\ [][Next]_vars
FairSpec == Spec /\ Fairness

-----------------------------------------------------------------------------
(* The promises and running producers never exceed the limit by more than  *)
(* the nesting of producers lets in: each nested add() has passed the size *)
(* test before the outer one stored its promise (promisebuffer.ts:46-52).  *)
Bounded == Cardinality(buffer) + Len(stack) <= Limit + MaxDepth - 1

(* The doc of makePromiseBuffer: `limit` is the max number of promises     *)
(* that can be stored.  True only while producers do not nest.             *)
DocLimit == Cardinality(buffer) <= Limit

(* No slot leaks and no task is forgotten: the set holds every pending     *)
(* task, and beyond those only settled native tasks whose reaction is      *)
(* still queued (add/remove, promisebuffer.ts:31-58).                      *)
SlotsAreInFlight ==
    /\ \A t \in Tasks : status[t] = "pending" => t \in buffer
    /\ \A t \in buffer : status[t] = "pending" \/ (IsSettled(t) /\ t \in NativeTasks)

(* The set holds what it must and, but for nested producers, not more. *)
Slots == Bounded /\ SlotsAreInFlight

GivesUpRightly ==
    \A d \in Drains : drain[d].answer # "false" /\ drain'[d].answer = "false" =>
        /\ drain[d].timed
        /\ \E t \in drain[d].snap : status[t] = "pending"

(* A drain only gives up on a real straggler: at a `false` answer a task   *)
(* of its snapshot is still pending, and an untimed drain never gives up.  *)
GivesUpOnlyOnStragglers == [][GivesUpRightly]_vars

(* A timed drain always answers, even if no promise ever settles. *)
TimedDrainAnswers ==
    \A d \in Drains :
        drain[d].answer = "waiting" /\ drain[d].timed ~> drain[d].answer \in {"true", "false"}

(* An untimed drain answers once the tasks it waits for have settled, also *)
(* when they rejected (allSettled, not all).                               *)
DrainFollowsItsTasks ==
    \A d \in Drains :
        (drain[d].answer = "waiting" /\ \A t \in drain[d].snap : IsSettled(t))
            ~> drain[d].answer = "true"

(* The slot of a settled task becomes free again, fulfilled or rejected. *)
SlotIsFreed == \A t \in Tasks : IsSettled(t) ~> t \notin buffer

(* Whoever waits gets an answer: a timed drain from its timer, an untimed  *)
(* one from its tasks, and a refused caller, in time, a slot               *)
(* (promisebuffer.ts:53-58, 69-87).                                        *)
WaitingEnds == TimedDrainAnswers /\ DrainFollowsItsTasks /\ SlotIsFreed
=============================================================================
