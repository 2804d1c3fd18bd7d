---------------------------- MODULE Cancellation ----------------------------
(***************************************************************************)
(* 6. Thread Cancellation: main creates threads that write to a file each, *)
(* for ever, and cancels the ones its user names, at any moment of their   *)
(* lives (PTHREAD_CANCEL_ASYNCHRONOUS).                                    *)
(*                                                                         *)
(* Labels of a thread, each named for what it does next: none (not created *)
(* yet), id, open, pushName, pushFile, write (for ever, which changes      *)
(* nothing here), then unwind (runs its cleanup handlers) and ended.       *)
(* Labels of main: create, choose, mark; then done (main returns, which    *)
(* ends every thread) or crashed.  Calls of the C library are taken whole: *)
(* what a cancellation in the middle of malloc or fopen leaves behind is   *)
(* not defined.                                                            *)
(***************************************************************************)
EXTENDS Integers, Sequences, SequencesExt

CONSTANT Nr_threads

VARIABLES
    main,       \* where main is
    chosen,     \* the thread main is cancelling, otherwise 0
    id,         \* threads[t].id, which main shares with thread t
    pc,         \* where each thread is
    own,        \* own[t]: the number thread t has read
    fileName,   \* fileName[t]: "none", "held", "freed" or "freed twice"
    fptr,       \* fptr[t]: "none", "open", "closed", "closed twice" or "NULL"
    handlers,   \* handlers[t]: cleanup handlers of t, the last pushed first
    writing,    \* threads that have come as far as to write
    cancelled   \* threads that have been asked to end

vars == <<main, chosen, id, pc, own, fileName, fptr, handlers, writing, cancelled>>
locals == <<own, fileName, fptr, handlers, writing>>

Thread == 0 .. Nr_threads - 1
Cleared == -1

Init ==
    /\ main = "create"
    /\ chosen = 0
    /\ id = [t \in Thread |-> Cleared]
    /\ pc = [t \in Thread |-> "none"]
    /\ own = [t \in Thread |-> Cleared]
    /\ fileName = [t \in Thread |-> "none"]
    /\ fptr = [t \in Thread |-> "none"]
    /\ handlers = [t \in Thread |-> <<>>]
    /\ writing = {}
    /\ cancelled = {}

Running == main \notin {"done", "crashed"}
Created == {t \in Thread : pc[t] # "none"}

-----------------------------------------------------------------------------
(* main gives every thread the address of its own entry of the array.      *)
Create ==
    /\ main = "create"
    /\ \E t \in Thread \ Created :
           /\ \A s \in Thread : s < t => s \in Created
           /\ id' = [id EXCEPT ![t] = t]
           /\ pc' = [pc EXCEPT ![t] = "id"]
           /\ main' = IF t = Nr_threads - 1 THEN "choose" ELSE "create"
    /\ UNCHANGED <<locals, chosen, cancelled>>

(* The user names a thread that is not marked yet.                         *)
Cancel ==
    /\ main = "choose"
    /\ \E t \in Thread :
           /\ id[t] # Cleared
           /\ chosen' = t
           /\ cancelled' = cancelled \cup {t}
    /\ main' = "mark"
    /\ UNCHANGED <<locals, id, pc>>

(* The mark is written to where the thread reads its number.  When all are *)
(* marked main returns.                                                    *)
Mark ==
    /\ main = "mark"
    /\ id' = [id EXCEPT ![chosen] = Cleared]
    /\ chosen' = 0
    /\ main' = IF \A t \in Thread : id'[t] = Cleared THEN "done" ELSE "choose"
    /\ UNCHANGED <<locals, pc, cancelled>>

-----------------------------------------------------------------------------
(* One step of thread t, from a label to a label.                          *)
Go(t, from, to) ==
    /\ Running
    /\ pc[t] = from
    /\ pc' = [pc EXCEPT ![t] = to]
    /\ UNCHANGED <<main, chosen, id, cancelled>>

(* Slip: all threads are given the address of the loop variable of main.   *)
ReadId_LoopVariable(t) ==
    /\ Go(t, "id", "open")
    /\ \E i \in Thread :
           /\ Created = {s \in Thread : s <= i}
           /\ own' = [own EXCEPT ![t] = i]
    /\ fileName' = [fileName EXCEPT ![t] = "held"]
    /\ UNCHANGED <<fptr, handlers, writing>>

(* The thread reads its number and gets room for the name of its file.     *)
ReadId(t) ==
    /\ Go(t, "id", "open")
    /\ own' = [own EXCEPT ![t] = id[t]]
    /\ fileName' = [fileName EXCEPT ![t] = "held"]
    /\ UNCHANGED <<fptr, handlers, writing>>

(* Slip: the name is freed here, as in the line that is commented out.     *)
Open_FreesName(t) ==
    /\ Go(t, "open", "pushName")
    /\ \E result \in {"open", "NULL"} : fptr' = [fptr EXCEPT ![t] = result]
    /\ fileName' = [fileName EXCEPT ![t] = "freed"]
    /\ UNCHANGED <<own, handlers, writing>>

Open(t) ==
    /\ Go(t, "open", "pushName")
    /\ \E result \in {"open", "NULL"} : fptr' = [fptr EXCEPT ![t] = result]
    /\ UNCHANGED <<own, fileName, handlers, writing>>

PushName(t) ==
    /\ Go(t, "pushName", "pushFile")
    /\ handlers' = [handlers EXCEPT ![t] = <<"clear_malloc">> \o @]
    /\ UNCHANGED <<own, fileName, fptr, writing>>

(* Without a file the thread then calls pthread_exit.                      *)
PushFile(t) ==
    /\ Go(t, "pushFile", IF fptr[t] = "NULL" THEN "unwind" ELSE "write")
    /\ handlers' = [handlers EXCEPT ![t] = <<"closeFile">> \o @]
    /\ writing' = IF fptr[t] = "NULL" THEN writing ELSE writing \cup {t}
    /\ UNCHANGED <<own, fileName, fptr>>

(* The request takes effect.  A thread makes itself cancellable at any     *)
(* point first thing; one that is cancelled before that ends there and     *)
(* then, as at its first label.                                            *)
ActOnCancel(t) ==
    /\ t \in cancelled
    /\ \E from \in {"id", "open", "pushName", "pushFile", "write"} :
           Go(t, from, "unwind")
    /\ UNCHANGED locals

Released(state, once, twice) == IF state = once THEN twice ELSE once

(* The thread runs its last handler.  fclose(NULL) ends the process.       *)
RunHandler(t) ==
    /\ Running
    /\ pc[t] = "unwind"
    /\ handlers[t] # <<>>
    /\ handlers' = [handlers EXCEPT ![t] = Tail(@)]
    /\ \/ /\ Head(handlers[t]) = "clear_malloc"
          /\ fileName' = [fileName EXCEPT ![t] = Released(@, "freed", "freed twice")]
          /\ UNCHANGED <<main, fptr>>
       \/ /\ Head(handlers[t]) = "closeFile"
          /\ IF fptr[t] = "NULL"
             THEN main' = "crashed" /\ UNCHANGED fptr
             ELSE /\ fptr' = [fptr EXCEPT ![t] = Released(@, "closed", "closed twice")]
                  /\ UNCHANGED main
          /\ UNCHANGED fileName
    /\ UNCHANGED <<chosen, id, pc, own, writing, cancelled>>

End(t) ==
    /\ handlers[t] = <<>>
    /\ Go(t, "unwind", "ended")
    /\ UNCHANGED locals

-----------------------------------------------------------------------------
ThreadStep(t) ==
    \/ ReadId(t) \/ Open(t) \/ PushName(t) \/ PushFile(t)
    \/ ActOnCancel(t) \/ RunHandler(t) \/ End(t)

Next ==
    \/ Create \/ Cancel \/ Mark
    \/ \E t \in Thread : ThreadStep(t)

Spec == Init /\ [][Next]_vars

-----------------------------------------------------------------------------
(* The types of the variables.                                             *)
TypeOK ==
    /\ main \in {"create", "choose", "mark", "done", "crashed"}
    /\ chosen \in Thread
    /\ id \in [Thread -> Thread \cup {Cleared}]
    /\ pc \in [Thread -> {"none", "id", "open", "pushName", "pushFile", "write", "unwind",
                          "ended"}]
    /\ own \in [Thread -> Thread \cup {Cleared}]
    /\ fileName \in [Thread -> {"none", "held", "freed", "freed twice"}]
    /\ fptr \in [Thread -> {"none", "NULL", "open", "closed", "closed twice"}]
    /\ handlers \in [Thread -> Seq({"clear_malloc", "closeFile"})]
    /\ writing \subseteq Thread
    /\ cancelled \subseteq Thread

(* However a cancellation hits a thread, nothing is released twice; and a  *)
(* thread that has come as far as to write to its file leaves neither the  *)
(* file nor the name behind.  (One that is hit earlier may.)               *)
NothingLeft ==
    /\ \A t \in Thread : fileName[t] # "freed twice" /\ fptr[t] # "closed twice"
    /\ \A t \in writing :
           pc[t] = "ended" => fileName[t] = "freed" /\ fptr[t] = "closed"

(* Two threads open the same file only if both were asked to end before    *)
(* they had read their numbers: those find the -1 that main has put there. *)
(* So cancelling some threads never disturbs the file of another.          *)
FilesApart ==
    \A s, t \in Thread :
        s # t /\ fptr[s] # "none" /\ fptr[t] # "none" /\ own[s] = own[t] =>
            s \in cancelled /\ t \in cancelled
=============================================================================
