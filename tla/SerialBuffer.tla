---------------------------- MODULE SerialBuffer ----------------------------
(***************************************************************************)
(* 14.TVL/serialize.c: a byte buffer that grows, with one cursor that both *)
(* the writer and the reader move, and a caller that passes anything, in   *)
(* any order.  The functions stop some of the negative amounts and offsets *)
(* and let others through to memcpy.  The model goes as far as the first   *)
(* copy that leaves the buffer: what the process does after it is not      *)
(* defined, and nothing is said of it.                                     *)
(*                                                                         *)
(* Of a byte only its origin is kept: "s" from serialize_string, "o" from  *)
(* copy_in_serialized_buffer_by_offset, "-" from the allocation (zero, or  *)
(* left undefined by realloc).                                             *)
(***************************************************************************)
EXTENDS Integers, FiniteSetsExt

CONSTANTS
    Sizes,    \* the sizes a buffer is created with
    Amounts,  \* how much the caller writes or reads at a time, an int
    Offsets,  \* where it writes to when it says where, an int
    MaxSize   \* bound: the caller stops before the buffer outgrows this

VARIABLES
    b,         \* the bytes, a function on 0 .. size - 1
    size,      \* what the struct says of its size
    next,      \* the cursor
    lastRead,  \* what de_serialize_string has copied out last
    strayed    \* "no" while every copy has stayed inside the buffer; or what the
               \* call that left it was given: a "negative" argument or "valid" ones

vars == <<b, size, next, lastRead, strayed>>

Stretch(from, n) == from .. from + n - 1

(* memcpy takes its length as a size_t: a negative one is a huge one.      *)
Inside(from, n, length) == n >= 0 /\ Stretch(from, n) \subseteq 0 .. length - 1

(* calloc, with either init function: the default is one more size.        *)
Init ==
    /\ size \in Sizes
    /\ b = [k \in 0 .. size - 1 |-> "-"]
    /\ next = 0
    /\ lastRead = {}
    /\ strayed = "no"

-----------------------------------------------------------------------------
(* Slip: the loop looks at the size alone, not at what is left of it.      *)
Grown_ForgetsNext(n) ==
    Min({m \in {size * 2^k : k \in 0 .. MaxSize} : m >= n})

(* The size is doubled until n bytes fit behind the cursor.  A buffer of   *)
(* size 0 would be doubled for ever, and one near the limit of int would   *)
(* overflow: both are left out by Sizes and MaxSize.                       *)
Grown(n) ==
    Min({m \in {size * 2^k : k \in 0 .. MaxSize} : m - next >= n})

(* assert(0) stops a caller that has nothing to write, or less.            *)
serialize_string(n) ==
    LET new_size == IF size - next < n THEN Grown(n) ELSE size
        new_buf == [k \in 0 .. new_size - 1 |-> IF k < size THEN b[k] ELSE "-"]
    IN  /\ n > 0
        /\ new_size <= MaxSize
        /\ b' = [k \in DOMAIN new_buf |-> IF k \in Stretch(next, n) THEN "s" ELSE new_buf[k]]
        /\ size' = new_size
        /\ next' = next + n
        /\ strayed' = IF Inside(next, n, new_size) THEN "no" ELSE "valid"
        /\ UNCHANGED lastRead

(* assert(0) stops a caller that reads nothing or past the end; a negative *)
(* amount passes both asserts, and would move the cursor back.             *)
de_serialize_string(n) ==
    /\ n # 0
    /\ size - next >= n
    /\ lastRead' = {b[k] : k \in Stretch(next, n) \cap DOMAIN b}
    /\ next' = next + n
    /\ strayed' = IF Inside(next, n, size) THEN "no"
                  ELSE IF n < 0 THEN "negative" ELSE "valid"
    /\ UNCHANGED <<b, size>>

(* Only reports an error when the bytes do not fit.  A negative amount or  *)
(* offset fits.  (Offsets so low that size - offset overflows are left out *)
(* by Offsets.)                                                            *)
copy_in_serialized_buffer_by_offset(n, offset) ==
    /\ size - offset >= n
    /\ b' = [k \in DOMAIN b |-> IF k \in Stretch(offset, n) THEN "o" ELSE b[k]]
    /\ strayed' = IF Inside(offset, n, size) THEN "no"
                  ELSE IF n < 0 \/ offset < 0 THEN "negative" ELSE "valid"
    /\ UNCHANGED <<size, next, lastRead>>

Next ==
    /\ strayed = "no"
    /\ \E n \in Amounts :
           \/ serialize_string(n)
           \/ de_serialize_string(n)
           \/ \E offset \in Offsets : copy_in_serialized_buffer_by_offset(n, offset)

Spec == Init /\ [][Next]_vars

-----------------------------------------------------------------------------
(* The types of the variables.                                             *)
TypeOK ==
    /\ size \in 1 .. MaxSize
    /\ b \in [0 .. size - 1 -> {"s", "o", "-"}]
    /\ next \in Int
    /\ lastRead \subseteq {"s", "o", "-"}
    /\ strayed \in {"no", "negative", "valid"}

(* After any sequence of calls the first copy that reads or writes outside *)
(* the buffer, if there is one, is of a call that is itself given a        *)
(* negative amount or offset: callers that pass none are safe, all three   *)
(* functions included.  Until then the cursor stays inside the buffer, and *)
(* no reader gets back what serialize_string wrote: it all lies before the *)
(* cursor, which nothing but such a negative amount moves back.            *)
OnlyNegativesStray ==
    /\ strayed # "valid"
    /\ strayed = "no" =>
           /\ next \in 0 .. size
           /\ \A k \in DOMAIN b : b[k] = "s" => k < next
           /\ "s" \notin lastRead
=============================================================================
