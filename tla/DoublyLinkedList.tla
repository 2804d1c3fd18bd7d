-------------------------- MODULE DoublyLinkedList --------------------------
(***************************************************************************)
(* The list of 5.Doubly Linked list (DLinkedL.c), down to the nodes on the *)
(* heap.  The list is used by one thread; a call is one step.              *)
(*                                                                         *)
(* A node owns its datum (freeNode frees both), so the datum is a field of *)
(* the node.  heap is defined for the nodes that are allocated: a step     *)
(* that follows a link to a freed node is an error of the model.           *)
(***************************************************************************)
EXTENDS Integers, FiniteSets, FiniteSetsExt

CONSTANTS
    Node,  \* the addresses calloc can return: bounds the length
    Data,
    NULL

VARIABLES
    heap,
    head,
    tail,
    size,
    ret    \* what the last call returned, NULL if nothing

vars == <<heap, head, tail, size, ret>>

Index == -1 .. Cardinality(Node)

(* dll_init                                                                *)
Init ==
    /\ heap = <<>>
    /\ head = NULL
    /\ tail = NULL
    /\ size = 0
    /\ ret = 1

isIndexValid(index) == ~(size = 0 \/ index < 0 \/ index + 1 > size)

(* Where a walk to the right from a first node is after k steps.           *)
WalkFrom(nodes, first) ==
    LET walk[k \in Nat] ==
            IF k = 0 THEN first
            ELSE LET n == walk[k - 1] IN IF n = NULL THEN NULL ELSE nodes[n].right
    IN  walk

Walk == WalkFrom(heap, head)

Visited == {Walk[k] : k \in 0 .. Cardinality(Node)} \ {NULL}

create_Node(n, x) == [m \in {n} |-> [data |-> x, left |-> NULL, right |-> NULL]]

(* The nodes that freeNode leaves.                                         *)
freeNode(nodes, n) == [m \in DOMAIN nodes \ {n} |-> nodes[m]]

With(new, nodes) == [n \in DOMAIN new \cup DOMAIN nodes |->
                        IF n \in DOMAIN new THEN new[n] ELSE nodes[n]]

-----------------------------------------------------------------------------
insert_first(n) == head' = n /\ tail' = n /\ size' = 1

dll_insert_head(x) ==
    /\ \E n \in Node \ DOMAIN heap :
           \/ /\ size = 0
              /\ heap' = With(create_Node(n, x), heap)
              /\ insert_first(n)
           \/ /\ size # 0
              /\ heap' = [With(create_Node(n, x), heap) EXCEPT ![n].right = head,
                                                               ![head].left = n]
              /\ head' = n
              /\ size' = size + 1
              /\ UNCHANGED tail
    /\ ret' = 1

(* Slip: the new node is linked from the old tail only.                    *)
dll_insert_tail_NoLeft(x) ==
    /\ \E n \in Node \ DOMAIN heap :
           \/ /\ size = 0
              /\ heap' = With(create_Node(n, x), heap)
              /\ insert_first(n)
           \/ /\ size # 0
              /\ heap' = [With(create_Node(n, x), heap) EXCEPT ![tail].right = n]
              /\ tail' = n
              /\ size' = size + 1
              /\ UNCHANGED head
    /\ ret' = 1

dll_insert_tail(x) ==
    /\ \E n \in Node \ DOMAIN heap :
           \/ /\ size = 0
              /\ heap' = With(create_Node(n, x), heap)
              /\ insert_first(n)
           \/ /\ size # 0
              /\ heap' = [With(create_Node(n, x), heap) EXCEPT ![n].left = tail,
                                                               ![tail].right = n]
              /\ tail' = n
              /\ size' = size + 1
              /\ UNCHANGED head
    /\ ret' = 1

-----------------------------------------------------------------------------
remove_none == size = 0 /\ ret' = 0 /\ UNCHANGED <<heap, head, tail, size>>

remove_last(n) ==
    /\ size = 1
    /\ heap' = freeNode(heap, n)
    /\ size' = 0
    /\ head' = NULL
    /\ tail' = NULL
    /\ ret' = 1

dll_remove_head ==
    \/ remove_none
    \/ remove_last(head)
    \/ /\ size > 1
       /\ LET nxt == heap[head].right
          IN  /\ heap' = freeNode([heap EXCEPT ![nxt].left = NULL], head)
              /\ head' = nxt
       /\ size' = size - 1
       /\ ret' = 1
       /\ UNCHANGED tail

dll_remove_tail ==
    \/ remove_none
    \/ remove_last(tail)
    \/ /\ size > 1
       /\ LET prev == heap[tail].left
          IN  /\ heap' = freeNode([heap EXCEPT ![prev].right = NULL], tail)
              /\ tail' = prev
       /\ size' = size - 1
       /\ ret' = 1
       /\ UNCHANGED head

(* The two neighbours of cur, or the ends of the list, are joined.         *)
Joined(cur) ==
    LET prev == heap[cur].left
        nxt == heap[cur].right
    IN  [n \in DOMAIN heap |->
            [heap[n] EXCEPT !.right = IF n = prev THEN nxt ELSE @,
                            !.left = IF n = nxt THEN prev ELSE @]]

dll_remove_at(index) ==
    \/ /\ ~isIndexValid(index)
       /\ ret' = 0
       /\ UNCHANGED <<heap, head, tail, size>>
    \/ /\ isIndexValid(index)
       /\ LET cur == Walk[index]
          IN  /\ heap' = freeNode(Joined(cur), cur)
              /\ head' = IF heap[cur].left = NULL THEN heap[cur].right ELSE head
              /\ tail' = IF heap[cur].right = NULL THEN heap[cur].left ELSE tail
       /\ size' = size - 1
       /\ ret' = 1

-----------------------------------------------------------------------------
dll_get(index) ==
    /\ ret' = IF isIndexValid(index) THEN Walk[index] ELSE NULL
    /\ UNCHANGED <<heap, head, tail, size>>

(* Slip: the search goes on after it has found the datum.                  *)
dll_find_Last(x) ==
    LET found == {index \in 0 .. size - 1 : heap[Walk[index]].data = x}
    IN  /\ ret' = IF found = {} THEN -1 ELSE Max(found)
        /\ UNCHANGED <<heap, head, tail, size>>

dll_find(x) ==
    LET found == {index \in 0 .. size - 1 : heap[Walk[index]].data = x}
    IN  /\ ret' = IF found = {} THEN -1 ELSE Min(found)
        /\ UNCHANGED <<heap, head, tail, size>>

dll_clear ==
    /\ heap' = [n \in DOMAIN heap \ Visited |-> heap[n]]
    /\ size' = 0
    /\ head' = NULL
    /\ tail' = NULL
    /\ ret' = NULL

Next ==
    \/ \E x \in Data : dll_insert_head(x) \/ dll_insert_tail(x) \/ dll_find(x)
    \/ dll_remove_head \/ dll_remove_tail \/ dll_clear
    \/ \E index \in Index : dll_remove_at(index) \/ dll_get(index)

Spec == Init /\ [][Next]_vars

-----------------------------------------------------------------------------
(* The types of the variables.                                             *)
TypeOK ==
    /\ DOMAIN heap \subseteq Node
    /\ \A n \in DOMAIN heap :
           heap[n] \in [data : Data, left : Node \cup {NULL}, right : Node \cup {NULL}]
    /\ head \in Node \cup {NULL}
    /\ tail \in Node \cup {NULL}
    /\ size \in Nat
    /\ ret \in Node \cup {NULL} \cup Index

(* The links to the left undo the links to the right, the two ends are     *)
(* where they stop, and the nodes a walk from the head meets are all the   *)
(* nodes there are (none is leaked), as many as size says.                 *)
Mirrored ==
    /\ TypeOK
    /\ \A n \in DOMAIN heap :
           /\ IF heap[n].right = NULL THEN n = tail ELSE heap[heap[n].right].left = n
           /\ IF heap[n].left = NULL THEN n = head ELSE heap[heap[n].left].right = n
    /\ Visited = DOMAIN heap
    /\ size = Cardinality(Visited)
    /\ Walk[size] = NULL

(* The nodes in the order of a walk, seen as a list of data, behave as the *)
(* list that the header promises.  dll_get returns a node for its datum.   *)
Listed == [k \in 1 .. size |-> heap[Walk[k - 1]].data]
A == INSTANCE AbstractList
        WITH list <- Listed, ret <- IF ret \in Node THEN heap[ret].data ELSE ret
ImplementsList == A!Spec
=============================================================================
