------------------------------- MODULE Bridge -------------------------------
(***************************************************************************)
(* The one-lane bridge of 17.Bridge Problem/bridge.c: cars of one          *)
(* direction at a time, at most three of them.  Cars cross as in main.c,   *)
(* bridge_enter and then bridge_exit, and may come back.                   *)
(*                                                                         *)
(* Control labels of a car:                                                *)
(*   away          before bridge_enter                                     *)
(*   enter_lock, enter_empty, enter_test, sleep, relock, enter_count,      *)
(*   enter_unlock  the lines of bridge_enter                               *)
(*   on_bridge     between bridge_enter and bridge_exit                    *)
(*   exit_lock, exit_count, exit_unlock   the lines of bridge_exit         *)
(*   home          will not cross again                                    *)
(***************************************************************************)
EXTENDS Integers, FiniteSets, PThreads

CONSTANTS
    Reader,    \* the cars that travel in direction Read; the others in Write
    Capacity,  \* the 3 of bridge.c
    Comeback   \* TRUE: a car that has crossed may cross again

ASSUME BridgeAssumption ==
    /\ IsFiniteSet(Thread)
    /\ Reader \subseteq Thread
    /\ Capacity \in Nat \ {0}
    /\ Comeback \in BOOLEAN

VARIABLES
    nr_read_wait,   \* bridge->nr_read_wait
    nr_write_wait,  \* bridge->nr_write_wait
    cur_bridge,     \* bridge->cur_bridge
    cur_direction,  \* bridge->cur_direction; "none" is the 0 of a global Bridge
    mutex,          \* owner of bridge->mutex
    pc              \* where each car is

vars == <<nr_read_wait, nr_write_wait, cur_bridge, cur_direction, mutex, pc>>

Labels ==
    {"away", "enter_lock", "enter_empty", "enter_test", "sleep", "relock", "enter_count",
     "enter_unlock", "on_bridge", "exit_lock", "exit_count", "exit_unlock", "home"}

Critical == {"enter_empty", "enter_test", "enter_count", "enter_unlock",
             "exit_count", "exit_unlock"}

Dir(t) == IF t \in Reader THEN "Read" ELSE "Write"

Opposite(d) == IF d = "Read" THEN "Write" ELSE "Read"

Cars(d) == {t \in Thread : Dir(t) = d}

(* Cars counted in cur_bridge.                                             *)
OnBridge == {t \in Thread : pc[t] \in {"enter_unlock", "on_bridge", "exit_lock", "exit_count"}}

(* Cars inside pthread_cond_wait, woken or not.                            *)
Waiting == {t \in Thread : pc[t] \in {"sleep", "relock"}}

-----------------------------------------------------------------------------
bridge_init ==
    /\ nr_read_wait = 0
    /\ nr_write_wait = 0
    /\ cur_bridge = 0
    /\ cur_direction = "none"
    /\ mutex = NoThread
    /\ pc = [t \in Thread |-> "away"]

Goto(t, label) == pc' = [pc EXCEPT ![t] = label]

(* getCurDirWait, getOppositeDirWait: the waiters counted for a direction. *)
WaitersOf(d) == IF d = "Read" THEN nr_read_wait ELSE nr_write_wait

(* incrementBridgeWait, decrementBridgeWait.                               *)
AddWaiter(d, k) ==
    /\ nr_read_wait' = IF d = "Read" THEN nr_read_wait + k ELSE nr_read_wait
    /\ nr_write_wait' = IF d = "Read" THEN nr_write_wait ELSE nr_write_wait + k

(* pthread_cond_broadcast on cv_read or cv_write.                          *)
WakeAll(d) == [t \in Thread |-> IF Dir(t) = d /\ pc[t] = "sleep" THEN "relock" ELSE pc[t]]

Unlock(t, from, to) ==
    /\ pc[t] = from
    /\ mutex' = NoThread
    /\ Goto(t, to)
    /\ UNCHANGED <<nr_read_wait, nr_write_wait, cur_bridge, cur_direction>>

Lock(t, from, to) ==
    /\ pc[t] = from
    /\ mutex = NoThread
    /\ mutex' = t
    /\ Goto(t, to)
    /\ UNCHANGED <<nr_read_wait, nr_write_wait, cur_bridge, cur_direction>>

-----------------------------------------------------------------------------
(* bridge_enter                                                            *)
CallEnter(t) ==
    /\ pc[t] = "away"
    /\ Goto(t, "enter_lock")
    /\ UNCHANGED <<nr_read_wait, nr_write_wait, cur_bridge, cur_direction, mutex>>

EnterLock(t) == Lock(t, "enter_lock", "enter_empty")

(* Slip: a car that finds nobody waiting takes the bridge over.            *)
EnterEmpty_Takeover(t) ==
    /\ pc[t] = "enter_empty"
    /\ cur_direction' = IF WaitersOf(cur_direction) = 0 THEN Dir(t) ELSE cur_direction
    /\ Goto(t, "enter_test")
    /\ UNCHANGED <<nr_read_wait, nr_write_wait, cur_bridge, mutex>>

(* A car that finds the bridge empty turns it to its own direction.        *)
EnterEmpty(t) ==
    /\ pc[t] = "enter_empty"
    /\ cur_direction' = IF cur_bridge = 0 THEN Dir(t) ELSE cur_direction
    /\ Goto(t, "enter_test")
    /\ UNCHANGED <<nr_read_wait, nr_write_wait, cur_bridge, mutex>>

MustWait(t) == cur_direction # Dir(t) \/ cur_bridge = Capacity

EnterSleep(t) ==
    /\ pc[t] = "enter_test"
    /\ MustWait(t)
    /\ AddWaiter(Dir(t), 1)
    /\ mutex' = NoThread
    /\ Goto(t, "sleep")
    /\ UNCHANGED <<cur_bridge, cur_direction>>

EnterRelock(t) ==
    /\ pc[t] = "relock"
    /\ mutex = NoThread
    /\ mutex' = t
    /\ AddWaiter(Dir(t), -1)
    /\ Goto(t, "enter_test")
    /\ UNCHANGED <<cur_bridge, cur_direction>>

EnterPass(t) ==
    /\ pc[t] = "enter_test"
    /\ ~MustWait(t)
    /\ Goto(t, "enter_count")
    /\ UNCHANGED <<nr_read_wait, nr_write_wait, cur_bridge, cur_direction, mutex>>

EnterCount(t) ==
    /\ pc[t] = "enter_count"
    /\ cur_bridge' = cur_bridge + 1
    /\ Goto(t, "enter_unlock")
    /\ UNCHANGED <<nr_read_wait, nr_write_wait, cur_direction, mutex>>

EnterUnlock(t) == Unlock(t, "enter_unlock", "on_bridge")

SpuriousWake(t) ==
    /\ SpuriousWakeups
    /\ pc[t] = "sleep"
    /\ Goto(t, "relock")
    /\ UNCHANGED <<nr_read_wait, nr_write_wait, cur_bridge, cur_direction, mutex>>

-----------------------------------------------------------------------------
(* bridge_exit                                                             *)
CallExit(t) ==
    /\ pc[t] = "on_bridge"
    /\ Goto(t, "exit_lock")
    /\ UNCHANGED <<nr_read_wait, nr_write_wait, cur_bridge, cur_direction, mutex>>

ExitLock(t) == Lock(t, "exit_lock", "exit_count")

(* A car leaves: the last one hands the bridge to the opposite direction   *)
(* if anybody waits there, or else wakes its own; with cars still on the   *)
(* bridge its own direction is woken.  The branch for a count that is      *)
(* still 3 or more returns without unlocking.                              *)
Leave(t, woken) ==
    /\ pc[t] = "exit_count"
    /\ cur_bridge' = cur_bridge - 1
    /\ IF cur_bridge' = 0 /\ WaitersOf(Opposite(cur_direction)) > 0
       THEN cur_direction' = Opposite(cur_direction)
       ELSE UNCHANGED cur_direction
    /\ IF cur_bridge' >= Capacity
       THEN Goto(t, "away")
       ELSE pc' = [woken EXCEPT ![t] = "exit_unlock"]
    /\ UNCHANGED <<nr_read_wait, nr_write_wait, mutex>>

(* Slip: the last car turns the bridge but wakes its own side.             *)
ExitCount_WakesOwn(t) == Leave(t, WakeAll(Dir(t)))

(* Whoever is woken travels in the direction the bridge now has; nobody is *)
(* there to be woken when the bridge is empty and nobody waits.            *)
ExitCount(t) == Leave(t, WakeAll(cur_direction'))

ExitUnlock(t) == Unlock(t, "exit_unlock", IF Comeback THEN "away" ELSE "home")
-----------------------------------------------------------------------------
Step(t) ==
    \/ EnterLock(t) \/ EnterEmpty(t) \/ EnterSleep(t) \/ EnterRelock(t) \/ EnterPass(t)
    \/ EnterCount(t) \/ EnterUnlock(t) \/ CallExit(t) \/ ExitLock(t) \/ ExitCount(t)
    \/ ExitUnlock(t)

(* main destroys the bridge when the user presses a key; modelled once all *)
(* the cars are home, for destroying a mutex in use has no defined effect. *)
bridge_destroy ==
    /\ \A t \in Thread : pc[t] = "home"
    /\ nr_read_wait' = 0
    /\ nr_write_wait' = 0
    /\ cur_bridge' = 0
    /\ UNCHANGED <<cur_direction, mutex, pc>>

Next ==
    \/ \E t \in Thread : CallEnter(t) \/ SpuriousWake(t) \/ Step(t)
    \/ bridge_destroy

(* The scheduler runs every car that can run, and a car on the bridge      *)
(* leaves it (it sleeps five seconds at most); whether a car comes at all  *)
(* is its own affair.  Spurious wakeups are rare events: they do not go on *)
(* for ever.                                                               *)
Calm == <>[][\A t \in Thread : ~SpuriousWake(t)]_vars

Spec ==
    /\ bridge_init /\ [][Next]_vars
    /\ \A t \in Thread : WF_vars(Step(t))
    /\ Calm

-----------------------------------------------------------------------------
(* The types of the variables.                                             *)
TypeOK ==
    /\ nr_read_wait \in Int
    /\ nr_write_wait \in Int
    /\ cur_bridge \in Int
    /\ cur_direction \in {"none", "Read", "Write"}
    /\ mutex \in Thread \cup {NoThread}
    /\ pc \in [Thread -> Labels]

(* The counters the decisions of bridge_exit rest on are exact whenever    *)
(* they are read: cur_bridge counts the cars between the two calls, and a  *)
(* wait counter counts the cars inside pthread_cond_wait, those already    *)
(* woken included.  The mutex belongs to the one car in a critical         *)
(* section, so no path, the fall-through of bridge_exit included, returns  *)
(* with it.                                                                *)
CountInv ==
    /\ TypeOK
    /\ \A t \in Thread : pc[t] \in Critical <=> mutex = t
    /\ cur_bridge = Cardinality(OnBridge)
    /\ nr_read_wait = Cardinality(Waiting \cap Cars("Read"))
    /\ nr_write_wait = Cardinality(Waiting \cap Cars("Write"))

(* bridge.h: at most three cars, all in one direction, which is the        *)
(* direction recorded in the bridge even after it has been handed over,    *)
(* taken back or cars were woken for nothing.                              *)
OneDirection ==
    /\ Cardinality(OnBridge) <= Capacity
    /\ OnBridge \subseteq Cars(cur_direction)

(* A car asleep is never forgotten: there is a car on the bridge that will *)
(* wake others when it leaves, or a car of the current direction already   *)
(* awake on its way onto the bridge.                                       *)
OnTheWay ==
    {t \in Cars(cur_direction) : pc[t] \in {"relock", "enter_test", "enter_count"}}
NobodyStranded == Sleepers(pc, "sleep") # {} => OnBridge \cup OnTheWay # {}

(* A car that has called bridge_enter gets across, provided that cars do   *)
(* not come back for ever: a stream of cars of one direction may keep the  *)
(* other direction out.                                                    *)
EveryCarCrosses == \A t \in Thread : pc[t] = "enter_lock" ~> pc[t] \in {"home", "away"}
=============================================================================
