---------------------------- MODULE ProxyConnect ----------------------------
(***************************************************************************)
(* libpurple/proxy.c: how a socket to a host is opened, directly or over   *)
(* an HTTP, SOCKS4 or SOCKS5 proxy, and how an attempt is cancelled.       *)
(*                                                                         *)
(* Every action is one callback of the main loop, or one call of the       *)
(* library's user, run to its end.  A system call that fails at once has   *)
(* the next address tried inside the same callback, and an attempt may be  *)
(* the child of a SOCKS5 attempt whose callback runs inside its own, so    *)
(* the functions below take the table of all attempts and return the set   *)
(* of tables they may leave behind.                                        *)
(*                                                                         *)
(* A PurpleProxyConnectData is a member of Data and is reused once it is   *)
(* freed, as heap addresses are.  Which proxy is used is chosen at every   *)
(* address: the PurpleProxyInfo is shared and the user may edit it.  The   *)
(* messages are left out; what matters is whose turn it is.                *)
(***************************************************************************)
EXTENDS Integers

CONSTANTS
    Data,       \* the PurpleProxyConnectData structs
    Handle,     \* the handles that callers register attempts with
    NULL,       \* no struct
    MaxHosts,   \* bound: the addresses a host name resolves to
    Events      \* the optional behaviours that may happen, of OptionalEvents

\* "cancel_clean": an attempt is cancelled while its 10 ms timer runs;
\* "cancel_group": cancel_with_handle meets a SOCKS5 attempt with a child;
\* "blank_host": a SOCKS4 proxy is asked for a host of blanks only.
OptionalEvents == {"cancel_clean", "cancel_group", "blank_host"}

ASSUME NullAssumption  == NULL \notin Data
ASSUME HostsAssumption == MaxHosts \in Nat \ {0}
ASSUME EventAssumption == Events \subseteq OptionalEvents

VARIABLES
    conn,       \* Data -> the struct, or what its last user left in it
    freedUse    \* was freed memory used?

vars == <<conn, freedUse>>

\* The callbacks that wait for a connect() to finish, and those that wait for
\* the proxy's reply.
Connecting == {"socket_ready_cb", "http_canwrite", "s4_canwrite", "s5_canwrite"}
Reading    == {"http_canread", "s4_canread", "s5_canread", "s5_readauth",
               "s5_readchap", "s5_canread_again"}

\* live: the struct is in "handles"; answer: how its user's attempt ended, if
\* it did, "unused" if there was none;
\* inpa: the callback of the input handler;
\* read_cb: what inpa will be once a message is written; clean: clean_connect's timer runs;
\* data: the SOCKS5 attempt that this one is the child of.
ConnectData ==
    [live : BOOLEAN, answer : {"unused", "none", "connected", "failed", "cancelled"},
     handle : Handle \cup {NULL}, hosts : 0..MaxHosts, fd : BOOLEAN,
     query_data : {"none", "connect", "socks4"}, clean : BOOLEAN,
     inpa : Connecting \cup Reading \cup {"none", "proxy_do_write"},
     read_cb : Reading \cup {"none"},
     child : Data \cup {NULL}, data : Data \cup {NULL}]

TypeOK == conn \in [Data -> ConnectData] /\ freedUse \in BOOLEAN

\* g_new0.
Fresh(h, parent, query) ==
    [live |-> TRUE, answer |-> "none", handle |-> h, hosts |-> 0, fd |-> FALSE,
     query_data |-> query, clean |-> FALSE, inpa |-> "none", read_cb |-> "none",
     child |-> NULL, data |-> parent]

Unused == [Fresh(NULL, NULL, "none") EXCEPT !.live = FALSE, !.answer = "unused"]

Init == conn = [d \in Data |-> Unused] /\ freedUse = FALSE

-----------------------------------------------------------------------------
(* Ending an attempt.  c is the table, d the attempt.                      *)

\* purple_proxy_connect_data_destroy; only what a later step could look at
\* is left in the freed struct.
destroy(c, d) ==
    IF ~c[d].live THEN c
    ELSE [c EXCEPT ![d] =
            [Unused EXCEPT !.answer = IF c[d].data = NULL THEN c[d].answer ELSE "unused",
                           !.fd = c[d].fd, !.clean = c[d].clean]]

\* The part of disconnect that concerns d alone.
closed(c, d) ==
    [c EXCEPT ![d].child = NULL, ![d].inpa = "none", ![d].read_cb = "none",
              ![d].fd = FALSE]

\* An attempt that was not answered will not be.
given_up(c, d) ==
    IF c[d].answer = "none" THEN [c EXCEPT ![d].answer = "cancelled"] ELSE c

\* Mutant of disconnect: the child goes on.
disconnectAlone(c, d) == closed(c, d)

\* purple_proxy_connect_data_disconnect without an error message.  A child has
\* no child of its own.
disconnect(c, d) ==
    LET k == c[d].child
    IN  IF k = NULL THEN closed(c, d)
        ELSE closed(destroy(closed(given_up(c, k), k), k), d)

cancelled(c, d) == destroy(disconnect(given_up(c, d), d), d)

\* Mutant of lost: the struct is freed, but connect_cb is not called.
lostUntold(c, d) == destroy(c, d)

\* connect_cb with -1, then destroy.  A child's connect_cb is
\* socks5_connected_to_proxy, which passes the error on to the caller of its
\* parent, and leaves the parent where it is.
lost(c, d) ==
    LET p == c[d].data
        e == IF p = NULL \/ ~c[p].live THEN c
             ELSE [c EXCEPT ![p].child = NULL, ![p].answer = "failed"]
    IN  destroy([e EXCEPT ![d].answer = "failed"], d)

-----------------------------------------------------------------------------
(* Connecting.                                                             *)

\* A message for the proxy is in write_buffer and proxy_do_write was called
\* once: some of it is still to be written, or the proxy is to answer.
asked(c, d, reader) ==
    {[c EXCEPT ![d].inpa = "proxy_do_write", ![d].read_cb = reader],
     [c EXCEPT ![d].inpa = reader]}

\* socks5_connected_to_proxy with a socket: the SOCKS5 greeting of p begins.
\* p has no other address to try if that fails at once.
socks5_connected_to_proxy(c, p) ==
    IF ~c[p].live THEN {c}
    ELSE LET e == [c EXCEPT ![p].child = NULL, ![p].fd = TRUE]
         IN  asked(e, p, "s5_canread") \cup {lost(closed(e, p), p)}

\* purple_proxy_connect_data_connected: the socket now belongs to the caller,
\* or to the SOCKS5 attempt that d was made for.
connected(c, d) ==
    LET p == c[d].data
        e == [c EXCEPT ![d].answer = "connected", ![d].fd = FALSE]
    IN  {destroy(disconnect(r, d), d) :
            r \in IF p = NULL THEN {e} ELSE socks5_connected_to_proxy(e, p)}

\* http_canwrite and http_start_connect_tunneling: port 80 needs no tunnel.
http_tunnel(c, d) == connected(c, d) \cup asked(c, d, "http_canread")

\* s4_canwrite: the proxy resolves the host, or it is resolved here first; a
\* query that cannot be made has the struct freed, with the socket and without
\* a word to the caller.
s4_request(c, d) ==
    asked(c, d, "s4_canread")
      \cup {[c EXCEPT ![d].query_data = "socks4"]}
      \cup (IF "blank_host" \in Events THEN {destroy(c, d)} ELSE {})

s5_greet(c, d) == asked(c, d, "s5_canread")

\* What follows a connect() that succeeded, by the callback that waited.
established(c, d, inpa) ==
    CASE inpa = "socket_ready_cb" -> connected(c, d)
      [] inpa = "http_canwrite"   -> http_tunnel(c, d)
      [] inpa = "s4_canwrite"     -> s4_request(c, d)
      [] inpa = "s5_canwrite"     -> s5_greet(c, d)

\* One address whose socket could be made: connect() is under way, or it
\* succeeded at once.  Without a proxy the caller hears of that 10 ms later.
proxy_connect(c, d) ==
    {[c EXCEPT ![d].inpa = cb] : cb \in Connecting}
      \cup {[c EXCEPT ![d].clean = TRUE]}
      \cup UNION {established(c, d, cb) : cb \in Connecting \ {"socket_ready_cb"}}

\* Mutant of try_connect: when the last address fails, nobody is told.
try_connectSilently(c, d) ==
    (UNION {proxy_connect([c EXCEPT ![d].hosts = rest, ![d].fd = TRUE], d) :
              rest \in 0..(c[d].hosts - 1)})
      \cup {[c EXCEPT ![d].hosts = 0]}

\* Mutant of try_connect: two addresses are taken from the list at once.
try_connectEveryOther(c, d) ==
    (UNION {proxy_connect([c EXCEPT ![d].hosts = rest, ![d].fd = TRUE], d) :
              rest \in -1..(c[d].hosts - 2)})
      \cup {lost([c EXCEPT ![d].hosts = 0], d)}

\* try_connect, which is called again at once for each address that fails in
\* the call itself: "rest" addresses are left when one does not, or all fail.
try_connect(c, d) ==
    (UNION {proxy_connect([c EXCEPT ![d].hosts = rest, ![d].fd = TRUE], d) :
              rest \in 0..(c[d].hosts - 1)})
      \cup {lost([c EXCEPT ![d].hosts = 0], d)}

\* Mutant of failed: the socket of the failed address is forgotten.
failedKeepingFd(c, d) ==
    LET e == [c EXCEPT ![d].inpa = "none"]
    IN  IF e[d].hosts > 0 THEN try_connect(e, d) ELSE {lost(e, d)}

\* purple_proxy_connect_data_disconnect with an error message.
failed(c, d) ==
    LET e == disconnect(c, d)
    IN  IF e[d].hosts > 0 THEN try_connect(e, d) ELSE {lost(e, d)}

-----------------------------------------------------------------------------
(* The calls of the library's users.                                       *)

\* purple_proxy_connect and purple_proxy_connect_udp, when they do not return
\* NULL.
connect(d, h) ==
    /\ ~conn[d].live
    /\ conn' = [conn EXCEPT ![d] = [Fresh(h, NULL, "connect") EXCEPT !.clean = conn[d].clean]]
    /\ UNCHANGED freedUse

\* purple_proxy_connect_socks5_account: the child goes to the SOCKS5 proxy,
\* over the account's own proxy if it has one.
connect_socks5_account(d, k, h) ==
    /\ d # k /\ ~conn[d].live /\ ~conn[k].live
    /\ conn' = [conn EXCEPT
                  ![d] = [Fresh(h, NULL, "none") EXCEPT !.child = k, !.clean = conn[d].clean],
                  ![k] = [Fresh(h, d, "connect") EXCEPT !.clean = conn[k].clean]]
    /\ UNCHANGED freedUse

Spared(D) == (\E d \in D : conn[d].clean) => "cancel_clean" \in Events

\* The attempts that cancelling d cancels.
Family(d) == {d, conn[d].child} \ {NULL}

\* purple_proxy_connect_cancel, by a caller that has not been answered.
connect_cancel(d) ==
    /\ conn[d].live /\ conn[d].data = NULL /\ conn[d].answer = "none"
    /\ Spared(Family(d))
    /\ conn' = cancelled(conn, d)
    /\ UNCHANGED freedUse

Without(c, D) == [d \in Data |-> IF d \in D THEN cancelled(c, d)[d] ELSE c[d]]

\* purple_proxy_connect_cancel_with_handle.  A parent stands right before its
\* child in "handles", and the link that the walk saved is freed with it.
connect_cancel_with_handle(h) ==
    LET group   == {d \in Data : conn[d].live /\ conn[d].handle = h}
        parents == {d \in group : conn[d].child # NULL}
    IN  /\ group # {}
        /\ Spared(group)
        /\ parents # {} => "cancel_group" \in Events
        /\ conn' = Without(conn, group)
        /\ freedUse' = (freedUse \/ parents # {})

\* purple_proxy_uninit, when the program ends: no timer fires any more.
uninit ==
    /\ conn' = [d \in Data |->
                  IF conn[d].live THEN [cancelled(conn, d)[d] EXCEPT !.clean = FALSE]
                  ELSE [conn[d] EXCEPT !.clean = FALSE]]
    /\ UNCHANGED freedUse

-----------------------------------------------------------------------------
(* The callbacks of the main loop.                                         *)

connection_host_resolved(d) ==
    LET c == [conn EXCEPT ![d].query_data = "none"]
    IN  /\ conn[d].query_data = "connect"
        /\ \/ conn' \in failed(c, d)
           \/ \E n \in 1..MaxHosts : conn' \in try_connect([c EXCEPT ![d].hosts = n], d)
        /\ UNCHANGED freedUse

s4_host_resolved(d) ==
    LET c == [conn EXCEPT ![d].query_data = "none"]
    IN  /\ conn[d].query_data = "socks4"
        /\ conn' \in asked(c, d, "s4_canread") \cup failed(c, d)
        /\ UNCHANGED freedUse

\* socket_ready_cb, http_canwrite, s4_canwrite, s5_canwrite.
connect_done(d) ==
    LET c == [conn EXCEPT ![d].inpa = "none"]
    IN  /\ conn[d].inpa \in Connecting
        /\ conn' \in established(c, d, conn[d].inpa) \cup failed(c, d)
        /\ UNCHANGED freedUse

proxy_do_write(d) ==
    /\ conn[d].inpa = "proxy_do_write"
    /\ conn' \in {[conn EXCEPT ![d].inpa = conn[d].read_cb, ![d].read_cb = "none"]}
                  \cup failed(conn, d)
    /\ UNCHANGED freedUse

\* The readers that may find the proxy content, and those whose reply may ask
\* for one more message, with the reader of its reply.
Final == {"http_canread", "s4_canread", "s5_canread_again"}
NextReaders(reader) ==
    CASE reader = "http_canread" -> {"http_canread"}
      [] reader = "s5_canread"   -> {"s5_readauth", "s5_readchap", "s5_canread_again"}
      [] reader = "s5_readauth"  -> {"s5_canread_again"}
      [] reader = "s5_readchap"  -> {"s5_readchap", "s5_canread_again"}
      [] OTHER                   -> {}

\* A whole reply, or an error, was read.
canread(d) ==
    LET reader == conn[d].inpa
        c      == [conn EXCEPT ![d].inpa = "none"]
    IN  /\ reader \in Reading
        /\ \/ conn' \in failed(c, d)
           \/ reader \in Final /\ conn' \in connected(c, d)
           \/ \E next \in NextReaders(reader) : conn' \in asked(c, d, next)
        /\ UNCHANGED freedUse

\* The timer's source id is kept nowhere: nothing stops it.
clean_connect(d) ==
    LET c == [conn EXCEPT ![d].clean = FALSE]
    IN  /\ conn[d].clean
        /\ IF conn[d].live /\ conn[d].fd
           THEN conn' \in connected(c, d) /\ UNCHANGED freedUse
           ELSE conn' = c /\ freedUse' = TRUE

-----------------------------------------------------------------------------
Next ==
    \/ \E d \in Data, h \in Handle : connect(d, h)
    \/ \E d, k \in Data, h \in Handle : connect_socks5_account(d, k, h)
    \/ \E d \in Data : connect_cancel(d)
    \/ \E h \in Handle : connect_cancel_with_handle(h)
    \/ uninit
    \/ \E d \in Data : connection_host_resolved(d)
    \/ \E d \in Data : s4_host_resolved(d)
    \/ \E d \in Data : connect_done(d)
    \/ \E d \in Data : proxy_do_write(d)
    \/ \E d \in Data : canread(d)
    \/ \E d \in Data : clean_connect(d)

Spec == Init /\ [][Next]_vars

-----------------------------------------------------------------------------
(* What makes it correct.                                                  *)

\* No timer, no parent and no child holds a pointer to a struct that was freed
\* or that serves another attempt by now, so that nothing uses freed memory
\* (destroy, disconnect, clean_connect, socks5_connected_to_proxy).
NothingUsesFreed ==
    /\ ~freedUse
    /\ \A d \in Data :
         /\ conn[d].clean => conn[d].live /\ conn[d].fd
         /\ conn[d].live /\ conn[d].child # NULL =>
              conn[conn[d].child].live /\ conn[conn[d].child].data = d
         /\ conn[d].live /\ conn[d].data # NULL =>
              conn[conn[d].data].live /\ conn[conn[d].data].child = d

WaitsFor(s) ==
    {w \in {"query_data", "inpa", "clean", "child"} :
        \/ w = "query_data" /\ s.query_data # "none"
        \/ w = "inpa" /\ s.inpa # "none"
        \/ w = "clean" /\ s.clean
        \/ w = "child" /\ s.child # NULL}

\* An attempt that is under way waits for exactly one thing, whatever failed
\* before at other addresses: with nothing to wait for it would hang for good,
\* with two the second would find it gone.  An attempt that was answered waits
\* for nothing any more.
WaitsForOneThing ==
    \A d \in Data : conn[d].live =>
       IF conn[d].answer = "none" THEN \E w \in WaitsFor(conn[d]) : WaitsFor(conn[d]) = {w}
       ELSE WaitsFor(conn[d]) = {}

\* A socket is open exactly while its attempt waits for something to happen
\* with it: none is lost when an address fails, when an attempt is cancelled
\* or when the socket becomes the caller's.
NoSocketLost ==
    \A d \in Data :
       conn[d].fd <=> /\ conn[d].live
                      /\ conn[d].inpa # "none" \/ conn[d].clean \/ conn[d].query_data = "socks4"

\* How an attempt stands for the one who made it.  A child is made by the
\* library itself, and an attempt that vanished unanswered is "lost".
Attempt(s) ==
    IF s.live /\ s.data # NULL THEN "none"
    ELSE CASE s.answer = "unused" -> "none"
           [] s.answer = "none"   -> IF s.live THEN "pending" ELSE "lost"
           [] OTHER               -> s.answer

\* Every attempt ends once: connect_cb is called once, or never if the attempt
\* is cancelled, and no other attempt is disturbed.
Promise == INSTANCE ConnectAttempt WITH attempt <- [d \in Data |-> Attempt(conn[d])]
ImplementsAttempt == Promise!Spec
=============================================================================
