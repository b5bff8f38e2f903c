------------------------------ MODULE DnsQuery ------------------------------
(***************************************************************************)
(* libpurple/dnsquery.c, the PURPLE_DNSQUERY_USE_FORK build: host names    *)
(* are looked up by a bounded pool of child processes.                     *)
(*                                                                         *)
(* Two kinds of actors interleave.  The main thread runs one handler at a  *)
(* time; the handler that looks for a resolver makes several system calls  *)
(* (waitpid, write), so it is split at them and "main" says where it is.   *)
(* The children run on their own between any two of those calls.           *)
(*                                                                         *)
(* A PurpleDnsQueryData is a member of Query, a resolver (the struct and   *)
(* the process it stands for) a member of Child; both are reused once they *)
(* are freed, as heap addresses and process ids are.                       *)
(***************************************************************************)
EXTENDS Integers, Sequences, FiniteSets

CONSTANTS
    Query,              \* the PurpleDnsQueryData structs
    Child,              \* the resolver structs and their child processes
    NULL,               \* neither a query nor a resolver
    MAX_DNS_CHILDREN,   \* the limit of the pool
    Cancels,            \* may a caller destroy a query that is under way?
    PipeFails,          \* may pipe() fail?
    ForkFails,          \* may fork() fail?
    Crashes,            \* may a child die while it is not idle?
    BelowZero           \* bound: fork() no longer fails with the count at -BelowZero

ASSUME NullAssumption  == NULL \notin Query \cup Child
ASSUME LimitAssumption == MAX_DNS_CHILDREN \in Nat \ {0}
ASSUME EnvAssumption   == {Cancels, PipeFails, ForkFails, Crashes} \subseteq BOOLEAN
ASSUME BoundAssumption == BelowZero \in Nat

VARIABLES
    allocated,              \* the queries that exist
    timeout,                \* the queries whose 0 ms timer is armed
    uiOwned,                \* the queries whose lookup the UI took over
    resolver,               \* query_data->resolver
    queued_requests,
    free_dns_children,
    number_of_dns_children,
    inpa,                   \* child -> the query its input handler was given
    proc,                   \* child -> what the process does
    request,                \* child -> the request in its input pipe
    answer,                 \* child -> the answer in its output pipe
    main,                   \* where the main thread is
    cur,                    \* handle_next_queued_request's query_data ...
    tgt,                    \* ... and resolver,
    fresh                   \* ... and whether it just created that resolver

queryVars == <<allocated, timeout, uiOwned>>
poolVars  == <<resolver, queued_requests, free_dns_children, number_of_dns_children, inpa>>
childVars == <<proc, request, answer>>
mainVars  == <<main, cur, tgt, fresh>>
vars      == <<queryVars, poolVars, childVars, mainVars>>

\* "none": no such process; "forked": not yet at its first select();
\* "waiting": in select(), 20 s at most; "resolving": in getaddrinfo();
\* "gone": it exited or was killed, but its resolver struct is still here.
ProcState == {"none", "forked", "waiting", "resolving", "gone"}

\* What host_resolved can read: all addresses, an error code, or the
\* addresses up to the point where the child died.
Answer == [kind : {"hosts", "error", "partial"}, of : Query]

MainState == {"loop", "next", "take", "waitpid", "write", "quit"}

TypeOK ==
    /\ allocated \subseteq Query
    /\ timeout \subseteq Query
    /\ uiOwned \subseteq Query
    /\ resolver \in [Query -> Child \cup {NULL}]
    /\ queued_requests \in Seq(Query)
    /\ free_dns_children \in Seq(Child)
    /\ number_of_dns_children \in Int
    /\ inpa \in [Child -> Query \cup {NULL}]
    /\ proc \in [Child -> ProcState]
    /\ request \in [Child -> Query \cup {NULL}]
    /\ answer \in [Child -> Answer \cup {NULL}]
    /\ main \in MainState
    /\ cur \in Query \cup {NULL}
    /\ tgt \in Child \cup {NULL}
    /\ fresh \in BOOLEAN

Init ==
    /\ allocated = {} /\ timeout = {} /\ uiOwned = {}
    /\ resolver = [q \in Query |-> NULL]
    /\ queued_requests = <<>>
    /\ free_dns_children = <<>>
    /\ number_of_dns_children = 0
    /\ inpa = [c \in Child |-> NULL]
    /\ proc = [c \in Child |-> "none"]
    /\ request = [c \in Child |-> NULL]
    /\ answer = [c \in Child |-> NULL]
    /\ main = "loop" /\ cur = NULL /\ tgt = NULL /\ fresh = FALSE

-----------------------------------------------------------------------------
(* Destroying things.                                                      *)

\* g_slist_remove: s without x.  The lists never hold a pointer twice (that is
\* part of NoQueryLostOrDangling), so any occurrence is the first one.
Without(s, x) ==
    IF \E i \in 1..Len(s) : s[i] = x
    THEN LET i == CHOOSE i \in 1..Len(s) : s[i] = x
         IN  SubSeq(s, 1, i - 1) \o SubSeq(s, i + 1, Len(s))
    ELSE s

\* purple_dnsquery_resolver_destroy: drop the input handler, SIGKILL the
\* child, close both pipes (what they hold is lost), free the struct.
resolver_destroy(c) ==
    /\ inpa' = [inpa EXCEPT ![c] = NULL]
    /\ proc' = [proc EXCEPT ![c] = "none"]
    /\ request' = [request EXCEPT ![c] = NULL]
    /\ answer' = [answer EXCEPT ![c] = NULL]
    /\ number_of_dns_children' = number_of_dns_children - 1

\* The part of purple_dnsquery_destroy that does not depend on the resolver.
releaseLeaving(q, queue) ==
    /\ queued_requests' = queue
    /\ timeout' = timeout \ {q}
    /\ uiOwned' = uiOwned \ {q}
    /\ allocated' = allocated \ {q}

\* Mutant of release: the query stays in the queue.
releaseStillQueued(q) == releaseLeaving(q, queued_requests)

release(q) == releaseLeaving(q, Without(queued_requests, q))

\* purple_dnsquery_destroy.
destroy(q) ==
    /\ release(q)
    /\ resolver' = [resolver EXCEPT ![q] = NULL]
    /\ IF resolver[q] # NULL
       THEN resolver_destroy(resolver[q])
       ELSE UNCHANGED <<number_of_dns_children, inpa, childVars>>

\* purple_dnsquery_failed, whose callback has nothing to do with the pool.
failed(q) == destroy(q) /\ UNCHANGED free_dns_children

\* purple_dnsquery_resolved: the child goes back to the free list before the
\* query is destroyed.
freeResolverOf(q) ==
    /\ free_dns_children' = IF resolver[q] # NULL
                            THEN <<resolver[q]>> \o free_dns_children
                            ELSE free_dns_children
    /\ UNCHANGED number_of_dns_children

\* Mutant of resolved: query_data->resolver is not set to NULL.
resolvedKeepingResolver(q) == release(q) /\ freeResolverOf(q) /\ UNCHANGED resolver

resolved(q) ==
    /\ release(q)
    /\ freeResolverOf(q)
    /\ resolver' = [resolver EXCEPT ![q] = NULL]

-----------------------------------------------------------------------------
(* The callers of the API and the main loop.                               *)

\* purple_dnsquery_a_account: the lookup starts from a 0 ms timer.
a_account(q) ==
    /\ main = "loop"
    /\ q \notin allocated
    /\ allocated' = allocated \cup {q}
    /\ timeout' = timeout \cup {q}
    /\ UNCHANGED <<uiOwned, poolVars, childVars, mainVars>>

\* Mutant of Cancel: the busy child goes back to the free list.
CancelKeepingChild(q) ==
    /\ Cancels
    /\ main = "loop"
    /\ q \in allocated
    /\ resolved(q)
    /\ inpa' = [c \in Child |-> IF c = resolver[q] THEN NULL ELSE inpa[c]]
    /\ UNCHANGED <<childVars, mainVars>>

\* A caller cancels: purple_dnsquery_destroy on a query it still owns.
Cancel(q) ==
    /\ Cancels
    /\ main = "loop"
    /\ q \in allocated
    /\ destroy(q)
    /\ UNCHANGED <<free_dns_children, mainVars>>

\* initiate_resolving, when resolve_ip recognises a numeric address.
ResolveIp(q) ==
    /\ main = "loop"
    /\ q \in timeout
    /\ resolved(q)
    /\ UNCHANGED <<inpa, childVars, mainVars>>

\* initiate_resolving, when the account's proxy is a Tor proxy.
AbortForTor(q) ==
    /\ main = "loop"
    /\ q \in timeout
    /\ failed(q)
    /\ UNCHANGED mainVars

\* initiate_resolving, when the UI's resolve_host op accepts the query.
HandToUi(q) ==
    /\ main = "loop"
    /\ q \in timeout
    /\ timeout' = timeout \ {q}
    /\ uiOwned' = uiOwned \cup {q}
    /\ UNCHANGED <<allocated, poolVars, childVars, mainVars>>

\* The UI reports through resolved_cb or failed_cb.
UiReports(q) ==
    /\ main = "loop"
    /\ q \in uiOwned
    /\ \/ resolved(q) /\ UNCHANGED <<inpa, childVars>>
       \/ failed(q)
    /\ UNCHANGED mainVars

\* initiate_resolving, otherwise: resolve_host appends the query and calls
\* handle_next_queued_request.
resolve_host(q) ==
    /\ main = "loop"
    /\ q \in timeout
    /\ timeout' = timeout \ {q}
    /\ queued_requests' = Append(queued_requests, q)
    /\ main' = "next"
    /\ UNCHANGED <<allocated, uiOwned, resolver, free_dns_children,
                   number_of_dns_children, inpa, childVars, cur, tgt, fresh>>

initiate_resolving(q) == ResolveIp(q) \/ AbortForTor(q) \/ HandToUi(q) \/ resolve_host(q)

-----------------------------------------------------------------------------
(* handle_next_queued_request and send_dns_request_to_child.               *)

\* Pop the oldest request, if there is one.
PopRequest ==
    /\ main = "next"
    /\ IF queued_requests = <<>>
       THEN main' = "loop" /\ UNCHANGED <<cur, queued_requests>>
       ELSE /\ cur' = Head(queued_requests)
            /\ queued_requests' = Tail(queued_requests)
            /\ main' = "take"
    /\ UNCHANGED <<queryVars, resolver, free_dns_children, number_of_dns_children,
                   inpa, childVars, tgt, fresh>>

\* The while loop takes the next free child.
TakeFreeChild ==
    /\ main = "take"
    /\ free_dns_children # <<>>
    /\ tgt' = Head(free_dns_children)
    /\ free_dns_children' = Tail(free_dns_children)
    /\ fresh' = FALSE
    /\ main' = "waitpid"
    /\ UNCHANGED <<queryVars, resolver, queued_requests, number_of_dns_children,
                   inpa, childVars, cur>>

\* No free child and the pool is full: the request goes back to the head.
requeueAs(queue) ==
    /\ main = "take"
    /\ free_dns_children = <<>>
    /\ number_of_dns_children >= MAX_DNS_CHILDREN
    /\ queued_requests' = queue
    /\ cur' = NULL
    /\ main' = "loop"
    /\ UNCHANGED <<queryVars, resolver, free_dns_children, number_of_dns_children,
                   inpa, childVars, tgt, fresh>>

\* Mutants of PutBack: the end of the queue; query_data cleared too early.
PutBackAtEnd == requeueAs(Append(queued_requests, cur))
PutBackCleared == requeueAs(<<NULL>> \o queued_requests)

PutBack == requeueAs(<<cur>> \o queued_requests)

\* purple_dnsquery_resolver_new when pipe() fails, and the failure of cur.
PipeFailure ==
    /\ main = "take"
    /\ free_dns_children = <<>>
    /\ number_of_dns_children < MAX_DNS_CHILDREN
    /\ PipeFails
    /\ failed(cur)
    /\ cur' = NULL
    /\ main' = "loop"
    /\ UNCHANGED <<tgt, fresh>>

\* purple_dnsquery_resolver_new when fork() fails: the struct is given to
\* purple_dnsquery_resolver_destroy although it was never counted.
forkFails ==
    /\ main = "take"
    /\ free_dns_children = <<>>
    /\ number_of_dns_children < MAX_DNS_CHILDREN
    /\ ForkFails /\ number_of_dns_children > -BelowZero
    /\ number_of_dns_children' = number_of_dns_children - 1
    /\ cur' = NULL
    /\ main' = "loop"
    /\ UNCHANGED <<resolver, free_dns_children, inpa, childVars, tgt, fresh>>

\* Mutant of ForkFailure: purple_dnsquery_failed is not called.
ForkFailureForgetsQuery == forkFails /\ UNCHANGED <<queryVars, queued_requests>>

ForkFailure == forkFails /\ release(cur)

\* purple_dnsquery_resolver_new succeeds.
forkChild(c) ==
    /\ main = "take"
    /\ free_dns_children = <<>>
    /\ proc[c] = "none"
    /\ proc' = [proc EXCEPT ![c] = "forked"]
    /\ number_of_dns_children' = number_of_dns_children + 1
    /\ tgt' = c
    /\ fresh' = TRUE
    /\ main' = "waitpid"
    /\ UNCHANGED <<queryVars, resolver, queued_requests, free_dns_children, inpa,
                   request, answer, cur>>

\* Mutant of resolver_new: <= in place of <.
resolver_newOneTooMany(c) == number_of_dns_children <= MAX_DNS_CHILDREN /\ forkChild(c)

resolver_new(c) == number_of_dns_children < MAX_DNS_CHILDREN /\ forkChild(c)

\* send_dns_request_to_child fails: the child is destroyed.  The loop tries
\* the next free child; if this was a new one, the query fails.
SendFails ==
    /\ resolver_destroy(tgt)
    /\ tgt' = NULL
    /\ IF fresh
       THEN release(cur) /\ cur' = NULL /\ main' = "loop"
       ELSE main' = "take" /\ UNCHANGED <<queryVars, queued_requests, cur>>
    /\ UNCHANGED <<resolver, free_dns_children, fresh>>

\* waitpid(WNOHANG): a child that is already dead cannot be used.
WaitPid ==
    /\ main = "waitpid"
    /\ IF proc[tgt] = "gone"
       THEN SendFails
       ELSE main' = "write" /\ UNCHANGED <<queryVars, poolVars, childVars, cur, tgt, fresh>>

\* write(): it fails if the child died after waitpid; otherwise the request
\* is in the pipe, and the answer is watched for.
Write ==
    /\ main = "write"
    /\ IF proc[tgt] = "gone"
       THEN SendFails
       ELSE /\ request' = [request EXCEPT ![tgt] = cur]
            /\ resolver' = [resolver EXCEPT ![cur] = tgt]
            /\ inpa' = [inpa EXCEPT ![tgt] = cur]
            /\ main' = "loop"
            /\ cur' = NULL
            /\ tgt' = NULL
            /\ UNCHANGED <<queryVars, queued_requests, free_dns_children,
                           number_of_dns_children, proc, answer, fresh>>

\* The output pipe is readable: there is an answer, or end of file.
Readable(c) == answer[c] # NULL \/ proc[c] = "gone"

\* host_resolved for the query the handler was registered with.
readAnswer(c) ==
    /\ main = "loop"
    /\ inpa[c] # NULL
    /\ Readable(c)
    /\ LET q == inpa[c]
       IN  IF answer[c] # NULL /\ answer[c].kind # "error"
           THEN /\ resolved(q)
                /\ inpa' = [inpa EXCEPT ![c] = NULL]
                /\ answer' = [answer EXCEPT ![c] = NULL]
                /\ UNCHANGED <<proc, request>>
           ELSE failed(q)

\* Mutant of host_resolved: the trailing handle_next_queued_request is missing.
host_resolvedAndNoMore(c) == readAnswer(c) /\ UNCHANGED mainVars

host_resolved(c) == readAnswer(c) /\ main' = "next" /\ UNCHANGED <<cur, tgt, fresh>>

\* purple_dnsquery_uninit: the free children are killed.  Nothing runs in the
\* main thread afterwards.
uninit ==
    /\ main = "loop"
    /\ LET F == {free_dns_children[i] : i \in DOMAIN free_dns_children}
       IN  /\ proc' = [c \in Child |-> IF c \in F THEN "none" ELSE proc[c]]
           /\ inpa' = [c \in Child |-> IF c \in F THEN NULL ELSE inpa[c]]
           /\ request' = [c \in Child |-> IF c \in F THEN NULL ELSE request[c]]
           /\ answer' = [c \in Child |-> IF c \in F THEN NULL ELSE answer[c]]
    /\ number_of_dns_children' = number_of_dns_children - Len(free_dns_children)
    /\ free_dns_children' = <<>>
    /\ main' = "quit"
    /\ UNCHANGED <<queryVars, resolver, queued_requests, cur, tgt, fresh>>

-----------------------------------------------------------------------------
(* purple_dnsquery_resolver_run, in the child.                             *)

\* select() finds a request and read() takes it.
ChildReads(c) ==
    /\ proc[c] \in {"forked", "waiting"}
    /\ request[c] # NULL
    /\ proc' = [proc EXCEPT ![c] = "resolving"]
    /\ UNCHANGED <<queryVars, poolVars, request, answer, mainVars>>

\* getaddrinfo succeeds: all addresses are written, back to select().
ChildAnswers(c) ==
    /\ proc[c] = "resolving"
    /\ proc' = [proc EXCEPT ![c] = "waiting"]
    /\ answer' = [answer EXCEPT ![c] = [kind |-> "hosts", of |-> request[c]]]
    /\ request' = [request EXCEPT ![c] = NULL]
    /\ UNCHANGED <<queryVars, poolVars, mainVars>>

\* getaddrinfo fails: the error code is written, then the child exits.
ChildReportsError(c) ==
    /\ proc[c] = "resolving"
    /\ proc' = [proc EXCEPT ![c] = "gone"]
    /\ answer' = [answer EXCEPT ![c] = [kind |-> "error", of |-> request[c]]]
    /\ request' = [request EXCEPT ![c] = NULL]
    /\ UNCHANGED <<queryVars, poolVars, mainVars>>

\* select() times out after 20 s.  A request may arrive between the timeout
\* and the exit, and is then never read.  A child that was just forked has
\* its request at once and does not time out.
ChildTimesOut(c) ==
    /\ proc[c] = "waiting"
    /\ proc' = [proc EXCEPT ![c] = "gone"]
    /\ UNCHANGED <<queryVars, poolVars, request, answer, mainVars>>

\* End of file on the request pipe: the parent is no longer there.
ChildSeesEof(c) ==
    /\ main = "quit"
    /\ proc[c] \in {"forked", "waiting"}
    /\ request[c] = NULL
    /\ proc' = [proc EXCEPT ![c] = "gone"]
    /\ UNCHANGED <<queryVars, poolVars, request, answer, mainVars>>

\* The child is killed from outside, perhaps half way through an answer.
ChildCrashes(c) ==
    /\ Crashes
    /\ proc[c] \in {"forked", "waiting", "resolving"}
    /\ proc' = [proc EXCEPT ![c] = "gone"]
    /\ \/ UNCHANGED <<request, answer>>
       \/ /\ proc[c] = "resolving"
          /\ answer' = [answer EXCEPT ![c] = [kind |-> "partial", of |-> request[c]]]
          /\ request' = [request EXCEPT ![c] = NULL]
    /\ UNCHANGED <<queryVars, poolVars, mainVars>>

-----------------------------------------------------------------------------

handle_next_queued_request ==
    \/ PopRequest \/ TakeFreeChild \/ PutBack \/ PipeFailure \/ ForkFailure
    \/ \E c \in Child : resolver_new(c)
    \/ WaitPid \/ Write

resolver_run(c) ==
    \/ ChildReads(c) \/ ChildAnswers(c) \/ ChildReportsError(c)
    \/ ChildTimesOut(c) \/ ChildSeesEof(c) \/ ChildCrashes(c)

Next ==
    \/ \E q \in Query : a_account(q) \/ Cancel(q) \/ initiate_resolving(q) \/ UiReports(q)
    \/ handle_next_queued_request
    \/ \E c \in Child : host_resolved(c) \/ resolver_run(c)
    \/ uninit

\* Every iteration of the main loop dispatches all timers that are due and all
\* descriptors that are readable, so a handler that is ready again and again
\* runs; a handler that has begun ends.  getaddrinfo() returns, and select()
\* returns after 20 s.  The UI answers what it took over.
Fairness ==
    /\ WF_vars(handle_next_queued_request)
    /\ \A q \in Query : SF_vars(initiate_resolving(q)) /\ SF_vars(UiReports(q))
    /\ \A c \in Child :
          /\ SF_vars(host_resolved(c))
          /\ WF_vars(ChildReads(c))
          /\ WF_vars(ChildAnswers(c) \/ ChildReportsError(c))
          /\ WF_vars(ChildTimesOut(c))
          /\ WF_vars(ChildSeesEof(c))

Spec     == Init /\ [][Next]_vars
FairSpec == Spec /\ Fairness

-----------------------------------------------------------------------------
(* Safety.                                                                 *)

Elements(s) == {s[i] : i \in DOMAIN s}
Distinct(s) == \A i, j \in DOMAIN s : s[i] = s[j] => i = j

Children == {c \in Child : proc[c] # "none"}

\* The resolver the main thread holds between waitpid() and write().
InHand(c) == main \in {"waitpid", "write"} /\ c = tgt

\* A resolver struct is owned exactly once: by the free list, by the one query
\* it works for, which its input handler was given, or by the loop of
\* handle_next_queued_request.  Freed structs are owned by nobody.
ResolverOwnership ==
    /\ Distinct(free_dns_children)
    /\ \A c \in Child, q \in Query : inpa[c] = q <=> resolver[q] = c
    /\ \A c \in Elements(free_dns_children) : inpa[c] = NULL /\ ~InHand(c)
    /\ \A c \in Child : inpa[c] # NULL => ~InHand(c)
    /\ \A c \in Child : c \in Children <=>
           c \in Elements(free_dns_children) \/ inpa[c] # NULL \/ InHand(c)

\* A query that exists has exactly one thing that will move it on - its timer,
\* the UI, its place in the queue, the handler that popped it or a resolver -
\* and none of these refers to a query that was freed.
NoQueryLostOrDangling ==
    LET popped  == IF cur = NULL THEN {} ELSE {cur}
        working == {q \in Query : resolver[q] # NULL}
        queued  == Elements(queued_requests)
    IN  /\ Distinct(queued_requests)
        /\ allocated = timeout \cup uiOwned \cup queued \cup popped \cup working
        /\ timeout \cap (uiOwned \cup queued \cup popped \cup working) = {}
        /\ uiOwned \cap (queued \cup popped \cup working) = {}
        /\ queued \cap (popped \cup working) = {}
        /\ popped \cap working = {}

\* What host_resolved reads from a child is the answer to its own query, and
\* never what the child wrote for a query that is gone: the reason why a child
\* whose query is cancelled is killed and not put on the free list.
AnswerIsForItsQuery ==
    \A c \in Child :
        /\ inpa[c] # NULL /\ answer[c] # NULL => answer[c].of = inpa[c]
        /\ c \in Elements(free_dns_children) => request[c] = NULL /\ answer[c] = NULL

\* Where the main thread is and what it holds.
MainShape ==
    /\ cur # NULL <=> main \in {"take", "waitpid", "write"}
    /\ main \in {"waitpid", "write"} => tgt \in Child

\* What is in the pipes of a child belongs to the query that watches it.
PipeShape ==
    \A c \in Child :
        /\ request[c] # NULL => request[c] = inpa[c] /\ answer[c] = NULL
        /\ answer[c] # NULL => answer[c].of = inpa[c]
        /\ proc[c] = "resolving" => request[c] # NULL

\* The inductive invariant: it implies the three properties above.
IInv == TypeOK /\ MainShape /\ PipeShape /\ ResolverOwnership /\ NoQueryLostOrDangling

\* There are never more children than MAX_DNS_CHILDREN, because the counter
\* is their number.  Not so when fork() fails: see ForkFailure.
PoolLimit ==
    /\ number_of_dns_children = Cardinality(Children)
    /\ Cardinality(Children) <= MAX_DNS_CHILDREN

\* Between two handlers, a request is left waiting only while every child the
\* pool may have is busy ("Apparently all our children are busy").
WaitsOnlyForBusyPool ==
    main = "loop" /\ queued_requests # <<>> =>
        /\ free_dns_children = <<>>
        /\ Cardinality(Children) = MAX_DNS_CHILDREN

-----------------------------------------------------------------------------
(* Action and liveness properties.                                         *)

Waiting == (IF cur = NULL THEN <<>> ELSE <<cur>>) \o queued_requests

Serving == {q \in Query : resolver[q] # NULL}

\* Requests are served in the order they were queued, also when one is popped
\* and put back: two that wait never change places, and a query is given a
\* resolver only when none that was queued before it still waits.
ServedInOrder ==
    [][\A i, j \in DOMAIN Waiting : i < j =>
          /\ resolver'[Waiting[j]] # NULL => Waiting[i] \notin Elements(Waiting')
          /\ \A m, n \in DOMAIN Waiting' :
                Waiting'[m] = Waiting[i] /\ Waiting'[n] = Waiting[j] => m < n]_vars

\* The pool is a line of requests in front of MAX_DNS_CHILDREN servers: timers,
\* free children that turn out to be dead, and requests popped and put back are
\* invisible from outside.  Not so when fork() fails: see PoolLimit.
Service == INSTANCE LookupService
               WITH Limit <- MAX_DNS_CHILDREN, waiting <- Waiting, serving <- Serving

ImplementsLookupService == Service!Spec

\* Every query is answered or cancelled.
EveryQueryEnds ==
    \A q \in Query : q \in allocated ~> (q \notin allocated \/ main = "quit")
=============================================================================
