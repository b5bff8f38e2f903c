---------------------------- MODULE LookupService ----------------------------
(***************************************************************************)
(* What the queue of libpurple/dnsquery.c is for, without timers, children *)
(* and pipes: a line of queries in front of a limited number of servers.   *)
(* The first in the line is the next to be served, and a query that is     *)
(* gone is neither waited for nor served any more.                         *)
(***************************************************************************)
EXTENDS Integers, Sequences, FiniteSets

CONSTANTS
    Query,      \* those who may ask
    Limit       \* how many may be served at a time

VARIABLES
    waiting,    \* the queries that wait, oldest first
    serving     \* the queries that are being looked up

vars == <<waiting, serving>>

Init == waiting = <<>> /\ serving = {}

\* A query that neither waits nor is served joins the end of the line.
Arrive(q) ==
    /\ q \notin serving /\ \A i \in DOMAIN waiting : waiting[i] # q
    /\ waiting' = Append(waiting, q)
    /\ UNCHANGED serving

\* The first in the line is served.
serveFirst ==
    /\ waiting # <<>>
    /\ waiting' = Tail(waiting)
    /\ serving' = serving \cup {Head(waiting)}

Serve == Cardinality(serving) < Limit /\ serveFirst

\* A query that is being looked up is answered, fails or is cancelled.
Leave(q) ==
    /\ q \in serving
    /\ serving' = serving \ {q}
    /\ UNCHANGED waiting

\* A query that waits fails or is cancelled: those behind it move up.
GiveUp(i) ==
    /\ waiting' = SubSeq(waiting, 1, i - 1) \o SubSeq(waiting, i + 1, Len(waiting))
    /\ UNCHANGED serving

Next ==
    \/ Serve
    \/ \E q \in Query : Arrive(q) \/ Leave(q)
    \/ \E i \in DOMAIN waiting : GiveUp(i)

Spec == Init /\ [][Next]_vars
=============================================================================
