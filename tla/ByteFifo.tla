------------------------------ MODULE ByteFifo ------------------------------
(***************************************************************************)
(* What libpurple/circbuffer.h promises: bytes come out in the order they  *)
(* went in, none is lost, none is invented, and the buffer has no bound.   *)
(***************************************************************************)
EXTENDS Sequences

CONSTANT Byte

VARIABLES
    fifo,   \* the unread bytes, oldest first
    op      \* the last call, and the bytes it was given or the reader took

vars == <<fifo, op>>

Made == [kind |-> "new", bytes |-> <<>>]

Init == fifo = <<>> /\ op = Made

append ==
    /\ op'.kind = "append" /\ op'.bytes \in Seq(Byte)
    /\ fifo' = fifo \o op'.bytes

\* The reader takes some of the oldest bytes.
mark_read ==
    /\ op'.kind = "read"
    /\ fifo = op'.bytes \o fifo'

\* The buffer is destroyed and a new one made.
renew == fifo' = <<>> /\ op' = Made

Next == append \/ mark_read \/ renew

Spec == Init /\ [][Next]_vars
=============================================================================
