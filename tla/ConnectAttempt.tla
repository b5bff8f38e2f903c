--------------------------- MODULE ConnectAttempt ---------------------------
(***************************************************************************)
(* What libpurple/proxy.h promises of a connection attempt: it ends once.  *)
(* Either its function is called, with a socket or with -1, or it was      *)
(* cancelled, and then its function is never called.                       *)
(***************************************************************************)
CONSTANT Data

VARIABLE attempt    \* Data -> how the last attempt that used it stands

Outcome == {"connected", "failed", "cancelled"}

Init == attempt = [d \in Data |-> "none"]

Pending == {d \in Data : attempt[d] = "pending"}

\* The memory of attempts that ended may serve anything else.
start(d) ==
    /\ d \notin Pending
    /\ \E reused \in SUBSET (Data \ (Pending \cup {d})) :
         attempt' = [e \in Data |-> IF e = d THEN "pending"
                                    ELSE IF e \in reused THEN "none" ELSE attempt[e]]

\* At most one attempt is answered in a step.
finish(d) ==
    /\ d \in Pending
    /\ \E how \in {"connected", "failed"} : attempt' = [attempt EXCEPT ![d] = how]

cancel(D) ==
    attempt' = [e \in Data |-> IF e \in D THEN "cancelled" ELSE attempt[e]]

Next ==
    \/ \E d \in Data : start(d) \/ finish(d)
    \/ \E D \in SUBSET Pending : cancel(D)

Spec == Init /\ [][Next]_attempt
=============================================================================
