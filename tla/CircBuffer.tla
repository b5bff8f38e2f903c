----------------------------- MODULE CircBuffer -----------------------------
(***************************************************************************)
(* libpurple/circbuffer.c: the growing circular buffer in which the        *)
(* protocols keep what a socket would not take yet.  Pointers are offsets  *)
(* into the buffer; before the first append the buffer is empty and NULL,  *)
(* which offset 0 stands for.                                              *)
(***************************************************************************)
EXTENDS Integers, Sequences

CONSTANTS
    Byte,               \* what a byte can be
    Junk,               \* what memory holds before it is written
    GrowArg,            \* the argument of purple_circ_buffer_new
    DEFAULT_BUF_SIZE,   \* the size taken if that is 0
    MaxAppend,          \* bound: bytes per append
    MaxLen,             \* bound: appends that need a longer buffer do not happen
    GrowsDrained        \* may an append grow a drained buffer (see Drained)?

ASSUME JunkAssumption == Junk \notin Byte
ASSUME SizeAssumption == GrowArg \in Nat /\ DEFAULT_BUF_SIZE \in Nat \ {0}
ASSUME BoundAssumption == MaxAppend \in Nat /\ MaxLen \in Nat
ASSUME DrainAssumption == GrowsDrained \in BOOLEAN

VARIABLES
    buffer, buflen, bufused, inptr, outptr,
    op      \* the last call, and the bytes it was given or the reader took

vars == <<buffer, buflen, bufused, inptr, outptr, op>>

growsize == IF GrowArg = 0 THEN DEFAULT_BUF_SIZE ELSE GrowArg

\* The pointers stay within the memory, and no more bytes are counted as used
\* than it has.
TypeOK ==
    /\ buflen \in Nat
    /\ bufused \in 0..buflen
    /\ inptr \in 0..buflen
    /\ outptr \in 0..buflen
    /\ buffer \in [0..(buflen - 1) -> Byte \cup {Junk}]
    /\ op.bytes \in Seq(Byte \cup {Junk})

\* purple_circ_buffer_new.
Init ==
    /\ buffer = [i \in 0..-1 |-> Junk]
    /\ buflen = 0 /\ bufused = 0
    /\ inptr = 0 /\ outptr = 0
    /\ op = [kind |-> "new", bytes |-> <<>>]

-----------------------------------------------------------------------------

\* Everything was read and the fill pointer is left behind the last byte,
\* while the remove pointer was wrapped to the first.
Drained == bufused = 0 /\ buflen > 0 /\ inptr = buflen /\ outptr = 0

\* Mutant of Wrapped: a full buffer is taken for an empty one.
WrappedStrictly == inptr < outptr

\* The fill pointer is wrapped to before the remove pointer.
Wrapped == inptr < outptr \/ (inptr = outptr /\ bufused > 0)

Lesser(a, b) == IF a <= b THEN a ELSE b

\* The lengths the loop of grow_circ_buffer can end with.
GrownTo(n, len) ==
    IF buflen - bufused >= len
    THEN n = buflen
    ELSE /\ n - bufused >= len
         /\ n - growsize - bufused < len
         /\ (n - buflen) % growsize = 0

\* How many of the wrapped bytes fit behind the old end.
Shift(n) == Lesser(n - buflen, inptr)

\* Mutant of Moved: what does not fit is not moved to the front.
MovedEndOnly(n) ==
    [i \in 0..(n - 1) |->
        IF Wrapped /\ i \in buflen..(buflen + Shift(n) - 1) THEN buffer[i - buflen]
        ELSE IF i < buflen THEN buffer[i] ELSE Junk]

\* The memory after grow_circ_buffer: the wrapped bytes are moved behind the
\* old end, and those that do not fit there to the front.
Moved(n) ==
    [i \in 0..(n - 1) |->
        IF Wrapped /\ i \in buflen..(buflen + Shift(n) - 1) THEN buffer[i - buflen]
        ELSE IF Wrapped /\ n # buflen /\ i < inptr - Shift(n) THEN buffer[i + Shift(n)]
        ELSE IF i < buflen THEN buffer[i] ELSE Junk]

\* ... and the fill pointer.
MovedIn(n) ==
    IF ~Wrapped \/ n = buflen THEN inptr
    ELSE IF Shift(n) < inptr THEN inptr - Shift(n) ELSE buflen + inptr

\* Mutant of Stored: the end of the buffer is not looked at.
StoredToTheLast(n, len) == len

\* How much is stored at the fill pointer before the end of the buffer.
Stored(n, len) ==
    IF MovedIn(n) >= outptr THEN Lesser(len, n - MovedIn(n)) ELSE len

\* purple_circ_buffer_append.
append(src) ==
    LET len == Len(src) IN
    \E n \in buflen..MaxLen :
        LET at     == MovedIn(n)
            stored == Stored(n, len)
        IN  /\ GrownTo(n, len)
            /\ n # buflen => ~Drained \/ GrowsDrained
            /\ buffer' = [i \in 0..(n - 1) |->
                              IF i \in at..(at + stored - 1) THEN src[i - at + 1]
                              ELSE IF i < len - stored THEN src[stored + i + 1]
                              ELSE Moved(n)[i]]
            /\ inptr' = IF stored < len THEN len - stored ELSE at + stored
            /\ buflen' = n
            /\ bufused' = bufused + len
            /\ outptr' = outptr
            /\ op' = [kind |-> "append", bytes |-> src]

\* purple_circ_buffer_get_max_read.
MaxRead ==
    IF bufused = 0 THEN 0
    ELSE IF outptr >= inptr THEN buflen - outptr
    ELSE inptr - outptr

\* The consumer's part: it takes the len bytes at the remove pointer.
Takes(len) == op' = [kind |-> "read", bytes |-> [i \in 1..len |-> buffer[outptr + i - 1]]]

\* Mutant of mark_read: the remove pointer is not wrapped.
mark_readUnwrapped(len) ==
    /\ len <= MaxRead
    /\ Takes(len)
    /\ outptr' = outptr + len
    /\ bufused' = bufused - len
    /\ UNCHANGED <<buffer, buflen, inptr>>

\* purple_circ_buffer_mark_read.  The subtraction is unsigned in the code; it
\* does not wrap as long as MaxReadSound holds.
mark_read(len) ==
    /\ len <= MaxRead
    /\ Takes(len)
    /\ outptr' = IF outptr + len = buflen THEN 0 ELSE outptr + len
    /\ bufused' = bufused - len
    /\ UNCHANGED <<buffer, buflen, inptr>>

\* purple_circ_buffer_destroy, and a new buffer.
renew ==
    /\ buffer' = [i \in 0..-1 |-> Junk]
    /\ buflen' = 0 /\ bufused' = 0
    /\ inptr' = 0 /\ outptr' = 0
    /\ op' = [kind |-> "new", bytes |-> <<>>]

Next ==
    \/ \E n \in 0..MaxAppend : \E src \in [1..n -> Byte] : append(src)
    \/ \E n \in 0..buflen : mark_read(n)
    \/ renew

Spec == Init /\ [][Next]_vars

-----------------------------------------------------------------------------

\* The unread bytes are bufused bytes from the remove pointer on, around the
\* end of the buffer.
Position(i) == IF outptr + i - 1 < buflen THEN outptr + i - 1 ELSE outptr + i - 1 - buflen
Unread == [i \in 1..bufused |-> buffer[Position(i)]]

\* What get_max_read lets a consumer take is unread data: never more than
\* there is, and something whenever there is anything (or a consumer that
\* writes until get_max_read is 0 would stop too early).
MaxReadSound ==
    /\ MaxRead <= bufused
    /\ bufused > 0 => MaxRead > 0

\* The pointers and the counter agree about where the unread bytes are, on
\* both sides of the end of the buffer.  The only state in which the fill
\* pointer is not where the next byte belongs is the drained one.
PointersAgree ==
    /\ buflen > 0 => outptr < buflen
    /\ \/ inptr = outptr + bufused
       \/ inptr = outptr + bufused - buflen
       \/ Drained

\* The buffer is a FIFO: the abstract specification, with Unread as its queue.
Abstract == INSTANCE ByteFifo WITH fifo <- Unread, op <- op
ImplementsFifo == Abstract!Spec
=============================================================================
