------------------------------ MODULE Signals ------------------------------
(***************************************************************************)
(* libpurple/signals.c: named signals of an instance, the handlers that    *)
(* are connected to them, and emissions, which call the handlers one after *)
(* the other.                                                              *)
(*                                                                         *)
(* There is one thread, but a handler may do all that its caller may:      *)
(* connect and disconnect handlers, itself included, and emit signals, the *)
(* one it is called for included.  The emissions under way are therefore a *)
(* stack.  A handler does at most MaxActs such things before it returns;   *)
(* outside all emissions the program does as many as it likes.             *)
(*                                                                         *)
(* A Link is a node of a GList with the PurpleSignalHandlerData it holds,  *)
(* and is reused once it is freed.  A list of distinct nodes is modelled   *)
(* by the set of its nodes and the order they stand in.                    *)
(***************************************************************************)
EXTENDS Integers, Sequences, FiniteSets

CONSTANTS
    Link,       \* the nodes of the lists of handlers
    Signal,     \* the names of the instance's signals
    Handle,     \* who handlers are connected for
    Callback,   \* the functions that are called
    Priority,   \* the priorities that handlers are connected with
    NULL,       \* the end of a list
    MaxDepth,   \* bound: emissions under way at the same time
    MaxActs,    \* bound: what one call of a handler does
    Events      \* the misuses that may happen, of OptionalEvents

\* "disconnect_next": the handler that an emission will call next is
\* disconnected;
\* "unregister_emitting": a signal is unregistered while it is emitted;
\* "miscounted": a name is registered again, or unregistered though it is not
\* registered.
OptionalEvents == {"disconnect_next", "unregister_emitting", "miscounted"}

ASSUME NullAssumption     == NULL \notin Link \cup Handle
ASSUME PriorityAssumption == Priority \subseteq Int
ASSUME BoundAssumption    == MaxDepth \in Nat /\ MaxActs \in Nat
ASSUME EventAssumption    == Events \subseteq OptionalEvents

VARIABLES
    registered,     \* the keys of instance_data->signals
    signal_count,   \* instance_data->signal_count; 0: there is no instance_data
    handlers,       \* Signal -> the nodes of its list
    before,         \* <<l, m>>: l stands before m in their list
    hdata,          \* Link -> what the node holds
    emissions,      \* the emissions under way, the innermost last
    freedUse        \* for the events: was freed memory used?

vars == <<registered, signal_count, handlers, before, hdata, emissions, freedUse>>

HandlerData == [handle : Handle, cb : Callback, priority : Priority]
Blank == [handle |-> NULL, cb |-> NULL, priority |-> NULL]

\* until: "all" for purple_signal_emit, "answer" for purple_signal_emit_return_1;
\* l, l_next: as in the code, while l's callback runs;
\* acts: what that callback may still do; level: the priority of l.
\* For the properties only: due are the handlers connected since the emission
\* began, called are those of the connected handlers that it has called.
Emission ==
    [signal : Signal, until : {"all", "answer"}, l : Link, l_next : Link \cup {NULL},
     acts : 0..MaxActs, level : Priority, due : SUBSET Link, called : SUBSET Link]

TypeOK ==
    /\ registered \subseteq Signal
    /\ signal_count \in Nat
    /\ handlers \in [Signal -> SUBSET Link]
    /\ before \subseteq Link \X Link
    /\ hdata \in [Link -> HandlerData \cup {Blank}]
    /\ emissions \in Seq(Emission) /\ Len(emissions) <= MaxDepth
    /\ freedUse \in BOOLEAN

Connected == UNION {handlers[s] : s \in Signal}

Init ==
    /\ registered = {}
    /\ signal_count = 0
    /\ handlers = [s \in Signal |-> {}]
    /\ before = {}
    /\ hdata = [l \in Link |-> Blank]
    /\ emissions = <<>>
    /\ freedUse = FALSE

-----------------------------------------------------------------------------
(* The lists.                                                              *)

\* The first of the nodes in S, as a set: {NULL} if S is empty.
First(S) == IF S = {} THEN {NULL} ELSE {l \in S : \A m \in S \ {l} : <<l, m>> \in before}

\* Mutant of Following: handlers of the same priority are passed over.
FollowingLevel(s, l) ==
    First({m \in handlers[s] : <<l, m>> \in before /\ hdata[m].priority > hdata[l].priority})

\* l->next.
Following(s, l) == First({m \in handlers[s] : <<l, m>> \in before})

\* Mutant of Inserted: the node goes to the front, whatever its priority.
InsertedInFront(s, l, p) == before \cup ({l} \X handlers[s])

\* Mutant of Inserted: the node goes behind those of the same priority.
InsertedBehind(s, l, p) ==
    before \cup ({m \in handlers[s] : hdata[m].priority <= p} \X {l})
           \cup ({l} \X {m \in handlers[s] : hdata[m].priority > p})

\* g_list_insert_sorted with handler_priority: before the first node whose
\* priority is not smaller.
Inserted(s, l, p) ==
    before \cup ({m \in handlers[s] : hdata[m].priority < p} \X {l})
           \cup ({l} \X {m \in handlers[s] : hdata[m].priority >= p})

-----------------------------------------------------------------------------
(* Who acts: the program, or the handler that the innermost emission calls. *)

Depth == Len(emissions)

\* The stack after one more act of its innermost handler.
Acted == IF Depth = 0 THEN emissions ELSE [emissions EXCEPT ![Depth].acts = @ - 1]

MayAct == Depth > 0 => emissions[Depth].acts > 0

\* The stack e after the nodes in D were freed.
Forgotten(e, D) ==
    [i \in DOMAIN e |-> [e[i] EXCEPT !.due = @ \ D, !.called = @ \ D]]

\* Mutant of Freed: disconnecting takes nodes out of the list of one signal only.
FreedFromOne(D) ==
    LET s == CHOOSE s \in Signal : handlers[s] \cap D # {}
    IN  [r \in Signal |-> IF r = s THEN handlers[r] \ D ELSE handlers[r]]

Freed(D) == [s \in Signal |-> handlers[s] \ D]

\* The nodes in D are deleted and freed, and the callback goes on.
Free(D) ==
    /\ (\E i \in 1..Depth : emissions[i].l_next \in D) => "disconnect_next" \in Events
    /\ handlers' = Freed(D)
    /\ before' = {p \in before : p[1] \notin D /\ p[2] \notin D}
    /\ hdata' = [l \in Link |-> IF l \in D THEN Blank ELSE hdata[l]]
    /\ emissions' = Forgotten(Acted, D)

-----------------------------------------------------------------------------
(* Signals.                                                                *)

Emitting(s) == \E i \in 1..Depth : emissions[i].signal = s

\* purple_signal_register.  A signal of that name that is there is destroyed,
\* with its handlers, but counted once more.
register(s) ==
    /\ MayAct
    /\ s \in registered => "miscounted" \in Events
    /\ Emitting(s) => "unregister_emitting" \in Events
    /\ registered' = registered \cup {s}
    /\ signal_count' = signal_count + 1
    /\ Free(handlers[s])
    /\ freedUse' = (freedUse \/ Emitting(s))

\* What unregistering s leaves: without a signal there is no instance either.
Uncounted(s) ==
    IF signal_count = 1 THEN <<{}, 0>> ELSE <<registered \ {s}, signal_count - 1>>

\* Mutant of unregister: the signal is forgotten, its handlers stay.
unregisterKeepingHandlers(s) ==
    /\ MayAct
    /\ signal_count > 0
    /\ s \notin registered => "miscounted" \in Events
    /\ Emitting(s) => "unregister_emitting" \in Events
    /\ registered' = Uncounted(s)[1]
    /\ signal_count' = Uncounted(s)[2]
    /\ Free({})
    /\ freedUse' = (freedUse \/ Emitting(s))

\* purple_signal_unregister.  An emission of the signal goes on with its freed
\* data.
unregister(s) ==
    /\ MayAct
    /\ signal_count > 0
    /\ s \notin registered => "miscounted" \in Events
    /\ Emitting(s) => "unregister_emitting" \in Events
    /\ registered' = Uncounted(s)[1]
    /\ signal_count' = Uncounted(s)[2]
    /\ Free(IF registered' = {} THEN Connected ELSE handlers[s])
    /\ freedUse' = (freedUse \/ Emitting(s))

\* purple_signals_unregister_by_instance.
unregister_by_instance ==
    /\ MayAct
    /\ signal_count > 0
    /\ Depth > 0 => "unregister_emitting" \in Events
    /\ registered' = {}
    /\ signal_count' = 0
    /\ Free(Connected)
    /\ freedUse' = (freedUse \/ Depth > 0)

-----------------------------------------------------------------------------
(* Handlers.                                                               *)

\* Mutant of connect: handler_data->priority is not set.
connectUnset(s, l, h, cb, p) ==
    /\ MayAct
    /\ s \in registered /\ l \notin Connected
    /\ before' = before \cup ({l} \X handlers[s])
    /\ handlers' = [handlers EXCEPT ![s] = @ \cup {l}]
    /\ hdata' = [hdata EXCEPT ![l] = [handle |-> h, cb |-> cb, priority |-> NULL]]
    /\ emissions' = Acted
    /\ UNCHANGED <<registered, signal_count, freedUse>>

\* signal_connect_common.
connect(s, l, h, cb, p) ==
    /\ MayAct
    /\ s \in registered /\ l \notin Connected
    /\ before' = Inserted(s, l, p)
    /\ handlers' = [handlers EXCEPT ![s] = @ \cup {l}]
    /\ hdata' = [hdata EXCEPT ![l] = [handle |-> h, cb |-> cb, priority |-> p]]
    /\ emissions' = Acted
    /\ UNCHANGED <<registered, signal_count, freedUse>>

\* purple_signal_disconnect: the first one that matches.
disconnect(s, h, cb) ==
    /\ MayAct
    /\ \E l \in First({m \in handlers[s] : hdata[m].handle = h /\ hdata[m].cb = cb}) \ {NULL} :
          Free({l})
    /\ UNCHANGED <<registered, signal_count, freedUse>>

\* purple_signals_disconnect_by_handle, as when a plugin is unloaded.
disconnect_by_handle(h) ==
    LET D == {l \in Connected : hdata[l].handle = h}
    IN  /\ MayAct
        /\ D # {}
        /\ Free(D)
        /\ UNCHANGED <<registered, signal_count, freedUse>>

-----------------------------------------------------------------------------
(* Emissions.                                                              *)

\* The callback of l is called.
Calling(e, l, next) ==
    [e EXCEPT !.l = l, !.l_next = next, !.acts = MaxActs,
              !.level = hdata[l].priority, !.called = @ \cup {l}]

\* purple_signal_emit and purple_signal_emit_return_1, called for a signal
\* that has a handler.
emit(s, until) ==
    /\ MayAct
    /\ Depth < MaxDepth
    /\ s \in registered
    /\ \E l \in First(handlers[s]) \ {NULL} : \E next \in Following(s, l) :
          emissions' = Append(Acted,
             Calling([signal |-> s, until |-> until, l |-> l, l_next |-> next, acts |-> MaxActs,
                      level |-> hdata[l].priority, due |-> handlers[s], called |-> {}], l, next))
    /\ UNCHANGED <<registered, signal_count, handlers, before, hdata, freedUse>>

Outer == SubSeq(emissions, 1, Depth - 1)

\* l_next was read before the callback of l was called.
Saved(e) == {e.l_next}

\* The callback returns: NULL, or nothing, or an answer that ends the emission.
return ==
    /\ Depth > 0
    /\ LET e == emissions[Depth]
       IN  \/ /\ \E next \in Saved(e) :
                   CASE next = NULL -> emissions' = Outer /\ UNCHANGED freedUse
                     [] next \in handlers[e.signal] ->
                          /\ \E after \in Following(e.signal, next) :
                               emissions' = Append(Outer, Calling(e, next, after))
                          /\ UNCHANGED freedUse
                     [] OTHER -> emissions' = Outer /\ freedUse' = TRUE
           \/ e.until = "answer" /\ emissions' = Outer /\ UNCHANGED freedUse
    /\ UNCHANGED <<registered, signal_count, handlers, before, hdata>>

-----------------------------------------------------------------------------
Next ==
    \/ \E s \in Signal : register(s)
    \/ \E s \in Signal : unregister(s)
    \/ unregister_by_instance
    \/ \E s \in Signal, l \in Link, h \in Handle, cb \in Callback, p \in Priority :
          connect(s, l, h, cb, p)
    \/ \E s \in Signal, h \in Handle, cb \in Callback : disconnect(s, h, cb)
    \/ \E h \in Handle : disconnect_by_handle(h)
    \/ \E s \in Signal, until \in {"all", "answer"} : emit(s, until)
    \/ return

Spec == Init /\ [][Next]_vars

\* A callback returns some time.
FairSpec == Spec /\ WF_vars(return)

-----------------------------------------------------------------------------
(* What makes it correct.                                                  *)

\* The nodes that emission e has not reached yet.
Ahead(e) ==
    {m \in handlers[e.signal] : m = e.l_next \/ <<e.l_next, m>> \in before}

\* A handler that is connected all through an emission is called in it, and no
\* handler is called twice: those that are still to come are exactly those
\* that were not called (purple_signal_emit_vargs, g_list_insert_sorted).
CalledOnce ==
    \A i \in 1..Depth :
       LET e == emissions[i]
       IN  e.called \cap Ahead(e) = {} /\ e.due \ e.called \subseteq Ahead(e)

\* An emission calls handlers in ascending order of priority, those included
\* that are connected while it is under way (handler_priority).
InPriorityOrder ==
    [][\A i \in (1..Depth) \cap (1..Depth') : emissions[i].level <= emissions'[i].level]_vars

\* The instance is there exactly as long as it has a signal, handlers are
\* connected to registered signals only, each handler to one, and what is not
\* connected has no place in any order (purple_signal_unregister,
\* signal_connect_common, destroy_signal_data).
TablesAgree ==
    /\ signal_count = Cardinality(registered)
    /\ \A s \in Signal : handlers[s] # {} => s \in registered
    /\ \A s, t \in Signal : s # t => handlers[s] \cap handlers[t] = {}
    /\ \A l \in Link : l \in Connected <=> hdata[l] # Blank
    /\ \A p \in before : \E s \in Signal : {p[1], p[2]} \subseteq handlers[s]

\* If every callback returns, every emission ends, also when each callback
\* connects new handlers: a new one goes before those of its own priority and
\* is not met again (g_list_insert_sorted).
EmissionsEnd == Depth > 0 ~> Depth = 0
=============================================================================
