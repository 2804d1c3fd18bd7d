------------------------------- MODULE ArraySum -------------------------------
(***************************************************************************)
(* 8. Mutexes: one thread prints the sum of an array again and again,      *)
(* another swaps its first and last cell again and again.  In "mutex"      *)
(* (mutex.c) both hold arr_mutex meanwhile, in "none" (without_mutex.c)    *)
(* nothing keeps them apart.                                               *)
(*                                                                         *)
(* A step reads or writes one cell: an int is never seen half written.     *)
(* Labels of printSum: lock, sum (in the loop), print.  Of replaceArr:     *)
(* lock, first (reads arr[0]), copy (arr[0] = arr[4]), last (arr[4] =      *)
(* temp), unlock.                                                          *)
(***************************************************************************)
EXTENDS Integers

CONSTANT Size  \* the array is 1, 2, ..., Size; in the code 5

VARIABLES
    program,    \* "mutex" or "none"
    arr,        \* the array
    arr_mutex,  \* its owner: "printSum", "replaceArr" or "free"
    printSum,   \* where the printing thread is
    i, sum,     \* its local variables
    printed,    \* the sum it has printed last, 0 before the first
    replaceArr, \* where the swapping thread is
    temp        \* its local variable

printer == <<printSum, i, sum, printed>>
swapper == <<replaceArr, temp>>
vars == <<program, arr, arr_mutex, printer, swapper>>

Cells == 0 .. Size - 1

Init ==
    /\ program \in {"mutex", "none"}
    /\ arr = [k \in Cells |-> k + 1]
    /\ arr_mutex = "free"
    /\ printSum = "lock" /\ i = 0 /\ sum = 0 /\ printed = 0
    /\ replaceArr = "lock" /\ temp = 0

Lock(thread) ==
    IF program = "mutex"
    THEN arr_mutex = "free" /\ arr_mutex' = thread
    ELSE UNCHANGED arr_mutex

Unlock == arr_mutex' = "free"

-----------------------------------------------------------------------------
(* Slip: the mutex is taken for the swap only.                             *)
SumLock_Without ==
    /\ printSum = "lock"
    /\ printSum' = "sum"
    /\ i' = 0 /\ sum' = 0
    /\ UNCHANGED <<program, arr, arr_mutex, printed, swapper>>

SumLock ==
    /\ printSum = "lock"
    /\ Lock("printSum")
    /\ printSum' = "sum"
    /\ i' = 0 /\ sum' = 0
    /\ UNCHANGED <<program, arr, printed, swapper>>

Add ==
    /\ printSum = "sum"
    /\ i < Size
    /\ sum' = sum + arr[i]
    /\ i' = i + 1
    /\ UNCHANGED <<program, arr, arr_mutex, printSum, printed, swapper>>

PrintSum ==
    /\ printSum = "sum"
    /\ i = Size
    /\ printed' = sum
    /\ printSum' = "lock"
    /\ Unlock
    /\ UNCHANGED <<program, arr, i, sum, swapper>>

-----------------------------------------------------------------------------
SwapLock ==
    /\ replaceArr = "lock"
    /\ Lock("replaceArr")
    /\ replaceArr' = "first"
    /\ UNCHANGED <<program, arr, printer, temp>>

SwapFirst ==
    /\ replaceArr = "first"
    /\ temp' = arr[0]
    /\ replaceArr' = "copy"
    /\ UNCHANGED <<program, arr, arr_mutex, printer>>

SwapCopy ==
    /\ replaceArr = "copy"
    /\ arr' = [arr EXCEPT ![0] = arr[Size - 1]]
    /\ replaceArr' = "last"
    /\ UNCHANGED <<program, arr_mutex, printer, temp>>

SwapLast ==
    /\ replaceArr = "last"
    /\ arr' = [arr EXCEPT ![Size - 1] = temp]
    /\ replaceArr' = "unlock"
    /\ UNCHANGED <<program, arr_mutex, printer, temp>>

SwapUnlock ==
    /\ replaceArr = "unlock"
    /\ Unlock
    /\ replaceArr' = "lock"
    /\ UNCHANGED <<program, arr, printer, temp>>

Next ==
    \/ SumLock \/ Add \/ PrintSum
    \/ SwapLock \/ SwapFirst \/ SwapCopy \/ SwapLast \/ SwapUnlock

Spec == Init /\ [][Next]_vars

-----------------------------------------------------------------------------
(* The types of the variables.                                             *)
TypeOK ==
    /\ program \in {"mutex", "none"}
    /\ arr \in [Cells -> Nat]
    /\ arr_mutex \in {"free", "printSum", "replaceArr"}
    /\ printSum \in {"lock", "sum"}
    /\ i \in 0 .. Size /\ sum \in Nat /\ printed \in Nat
    /\ replaceArr \in {"lock", "first", "copy", "last", "unlock"}
    /\ temp \in Nat

Total == (Size * (Size + 1)) \div 2

(* The sums that can appear: always the same one with the mutex; without   *)
(* it two more, the ones that count the value of the first or of the last  *)
(* cell twice, and no others, however the accesses interleave.  For the    *)
(* five cells of the code these are the 11, 15 and 19 of its comment.      *)
SumsPrinted ==
    printed \in IF program = "mutex" THEN {0, Total}
                ELSE {0, Total - (Size - 1), Total, Total + (Size - 1)}
=============================================================================
