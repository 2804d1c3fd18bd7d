-------------------------------- MODULE Dining --------------------------------
(***************************************************************************)
(* The dining philosophers of 10.Dining Philosopher, in its two solutions. *)
(* Philosophers and spoons are numbered alike, each spoon has a mutex and  *)
(* a condition variable of its own, and a philosopher locks its left spoon *)
(* before it tries its right one.  When that fails,                        *)
(*   - in Assignment.c it puts the left spoon back, sleeps a second and    *)
(*     starts again;                                                       *)
(*   - in Assignment_sol_2.c it sleeps on the condition variable of the    *)
(*     right spoon, with the mutex of the left one.                        *)
(*                                                                         *)
(* Control labels of a philosopher:                                        *)
(*   lock_left      about to lock its left spoon                           *)
(*   try_right      holds the left spoon, about to try the right one       *)
(*   backoff        asleep for a second (Assignment.c)                     *)
(*   wait           the trylock has failed, the left spoon is still held   *)
(*                  (Assignment_sol_2.c)                                   *)
(*   sleep, relock  in pthread_cond_wait; only one philosopher ever sleeps *)
(*                  on the condition variable of a spoon, the one whose    *)
(*                  right spoon it is                                      *)
(*   eat            in phil_eat, holds both                                *)
(*   unlock_left    has unmarked both and unlocked the right one           *)
(*   rest           sleeps after the meal                                  *)
(***************************************************************************)
EXTENDS Integers, PThreads

CONSTANTS
    N,        \* N_PHILOSOPHER
    Programs  \* the solutions that may be run

ASSUME DiningAssumption ==
    /\ N \in Nat \ {0, 1}
    /\ Thread = 0 .. N - 1
    /\ Programs \subseteq {"Assignment", "Assignment_sol_2"}

VARIABLES
    program,  \* the solution that is run
    mutex,    \* owner of each spoon's mutex
    is_used,  \* the spoon's is_used
    phil,     \* the spoon's phil, NoThread for NULL
    pc        \* where each philosopher is

vars == <<program, mutex, is_used, phil, pc>>

Spoon == 0 .. N - 1

left_spoon(p)  == p
right_spoon(p) == IF p = 0 THEN N - 1 ELSE p - 1

Labels ==
    {"lock_left", "try_right", "backoff", "wait", "sleep", "relock", "eat",
     "unlock_left", "rest"}

-----------------------------------------------------------------------------
(* main                                                                    *)
Init ==
    /\ program \in Programs
    /\ mutex = [s \in Spoon |-> NoThread]
    /\ is_used = [s \in Spoon |-> FALSE]
    /\ phil = [s \in Spoon |-> NoThread]
    /\ pc = [p \in Thread |-> "lock_left"]

Goto(p, label) == pc' = [pc EXCEPT ![p] = label]

Take(p, s)  == mutex[s] = NoThread /\ mutex' = [mutex EXCEPT ![s] = p]
PutBack(s)  == mutex' = [mutex EXCEPT ![s] = NoThread]

(* Marking and unmarking a set of spoons.                                  *)
Mark(p, S) ==
    /\ is_used' = [s \in Spoon |-> s \in S \/ is_used[s]]
    /\ phil' = [s \in Spoon |-> IF s \in S THEN p ELSE phil[s]]

Unmark(S) ==
    /\ is_used' = [s \in Spoon |-> s \notin S /\ is_used[s]]
    /\ phil' = [s \in Spoon |-> IF s \in S THEN NoThread ELSE phil[s]]

NoMarks == UNCHANGED <<is_used, phil>>

-----------------------------------------------------------------------------
(* philosopher_get_access_both_spoons.  The first solution marks the left  *)
(* spoon as soon as it has it.                                             *)
LockLeft(p) ==
    /\ pc[p] = "lock_left"
    /\ Take(p, left_spoon(p))
    /\ IF program = "Assignment" THEN Mark(p, {left_spoon(p)}) ELSE NoMarks
    /\ Goto(p, "try_right")

(* trylock succeeds.                                                       *)
TryRight(p) ==
    /\ pc[p] = "try_right"
    /\ Take(p, right_spoon(p))
    /\ Mark(p, {right_spoon(p)} \cup
               IF program = "Assignment" THEN {} ELSE {left_spoon(p)})
    /\ Goto(p, "eat")

(* trylock fails in the first solution: unmark and unlock the left spoon.  *)
BackOff(p) ==
    /\ program = "Assignment"
    /\ pc[p] = "try_right"
    /\ mutex[right_spoon(p)] # NoThread
    /\ Unmark({left_spoon(p)})
    /\ PutBack(left_spoon(p))
    /\ Goto(p, "backoff")

TryAgain(p) ==
    /\ pc[p] = "backoff"
    /\ Goto(p, "lock_left")
    /\ NoMarks /\ UNCHANGED mutex

(* Slip: pthread_mutex_lock in place of trylock, which never fails.        *)
TryFails_Blocks(p) == FALSE

(* trylock fails in the second.                                            *)
TryFails(p) ==
    /\ program = "Assignment_sol_2"
    /\ pc[p] = "try_right"
    /\ mutex[right_spoon(p)] # NoThread
    /\ Goto(p, "wait")
    /\ NoMarks /\ UNCHANGED mutex

(* Slips: sleeping with the wrong mutex, the one that was not obtained;    *)
(* starting again without sleeping.                                        *)
Sleep_WrongMutex(p) ==
    pc[p] = "wait" /\ PutBack(right_spoon(p)) /\ Goto(p, "sleep") /\ NoMarks

Sleep_Spins(p) ==
    pc[p] = "wait" /\ PutBack(left_spoon(p)) /\ Goto(p, "lock_left") /\ NoMarks

(* The left spoon is given up during the sleep.  Nobody is told, although  *)
(* it may be what the neighbour sleeps for; and its mutex is not the one   *)
(* of the spoon that is waited for, whose holder may have broadcast        *)
(* between the failed trylock and the sleep.                               *)
Sleep(p) ==
    pc[p] = "wait" /\ PutBack(left_spoon(p)) /\ Goto(p, "sleep") /\ NoMarks

SpuriousWake(p) ==
    /\ SpuriousWakeups
    /\ pc[p] = "sleep"
    /\ Goto(p, "relock")
    /\ NoMarks /\ UNCHANGED <<program, mutex>>

(* Slip: `if' in place of `while', the right spoon taken for granted.      *)
Relock_NoRetry(p) ==
    /\ pc[p] = "relock"
    /\ Take(p, left_spoon(p))
    /\ Mark(p, {left_spoon(p), right_spoon(p)})
    /\ Goto(p, "eat")

Relock(p) ==
    /\ pc[p] = "relock"
    /\ Take(p, left_spoon(p))
    /\ Goto(p, "try_right")
    /\ NoMarks

(* phil_eat, and the first half of philosopher_release_both_spoons: both   *)
(* spoons are unmarked, whoever sleeps for one of them is woken (nobody    *)
(* sleeps in the first solution), and the right one is unlocked.  The two  *)
(* broadcasts may be one step with the unlock of the right spoon: whoever  *)
(* they wake needs the left spoon, which is unlocked later.                *)
EatAndRelease(p) ==
    LET mine == {left_spoon(p), right_spoon(p)}
    IN  /\ pc[p] = "eat"
        /\ Unmark(mine)
        /\ PutBack(right_spoon(p))
        /\ pc' = [q \in Thread |->
                     IF q = p THEN "unlock_left"
                     ELSE IF pc[q] = "sleep" /\ right_spoon(q) \in mine THEN "relock"
                     ELSE pc[q]]

(* The second half of philosopher_release_both_spoons.                     *)
UnlockLeft(p) ==
    /\ pc[p] = "unlock_left"
    /\ PutBack(left_spoon(p))
    /\ Goto(p, "rest")
    /\ NoMarks

Rested(p) ==
    /\ pc[p] = "rest"
    /\ Goto(p, "lock_left")
    /\ NoMarks /\ UNCHANGED mutex

-----------------------------------------------------------------------------
Step(p) ==
    /\ \/ LockLeft(p) \/ TryRight(p) \/ BackOff(p) \/ TryAgain(p) \/ TryFails(p) \/ Sleep(p)
       \/ Relock(p) \/ EatAndRelease(p) \/ UnlockLeft(p) \/ Rested(p)
    /\ UNCHANGED program

Next == \E p \in Thread : Step(p) \/ SpuriousWake(p)

(* Every philosopher that can go on does.  Spurious wakeups are rare       *)
(* events: they do not go on for ever.                                     *)
Calm == <>[][\A p \in Thread : ~SpuriousWake(p)]_vars

Spec ==
    /\ Init /\ [][Next]_vars
    /\ \A p \in Thread : WF_vars(Step(p))
    /\ Calm

-----------------------------------------------------------------------------
(* The types of the variables.                                             *)
TypeOK ==
    /\ program \in Programs
    /\ mutex \in [Spoon -> Thread \cup {NoThread}]
    /\ is_used \in [Spoon -> BOOLEAN]
    /\ phil \in [Spoon -> Thread \cup {NoThread}]
    /\ pc \in [Thread -> Labels]

(* Who owns a spoon: a philosopher that tries its right spoon, is about to *)
(* sleep or to unlock its left one owns the left one, a philosopher that   *)
(* eats owns both, and nobody owns any other.  So nobody holds a spoon     *)
(* while it blocks, in a lock or asleep: the locks alone cannot deadlock.  *)
Holds(p) ==
    CASE pc[p] \in {"try_right", "wait", "unlock_left"} -> {left_spoon(p)}
      [] pc[p] = "eat" -> {left_spoon(p), right_spoon(p)}
      [] OTHER -> {}

NoHoldAndWait ==
    /\ TypeOK
    /\ \A p \in Thread, s \in Spoon : mutex[s] = p <=> s \in Holds(p)

(* The assertions of phil_eat: a philosopher that eats finds both of its   *)
(* spoons in use, and in use by itself.                                    *)
EatAssertsHold ==
    \A p \in Thread : pc[p] = "eat" =>
        \A s \in {left_spoon(p), right_spoon(p)} : is_used[s] /\ phil[s] = p

(* A spoon that is taken is put back, and a philosopher that wants its     *)
(* left spoon therefore never blocks for good: only sleep can be for ever. *)
SpoonsComeBack == \A s \in Spoon : mutex[s] # NoThread ~> mutex[s] = NoThread

(* The second solution has no livelock: some philosopher eats again and    *)
(* again, unless they have all fallen asleep.  (In the first, philosophers *)
(* in step can all lock, fail and back off for ever.)                      *)
Eating == \E p \in Thread : pc[p] = "eat"
AllAsleep == \A p \in Thread : pc[p] = "sleep"
EatOrAllAsleep == program = "Assignment_sol_2" => []<>(Eating \/ AllAsleep)

(* Assignment_sol_2.c: "no stop, they will eat forever".                   *)
EatForever == []<>Eating
=============================================================================
