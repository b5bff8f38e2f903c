# libpurple in TLA+

Pidgin and Finch are two user interfaces over one library, libpurple. This
directory specifies the parts of that library (and of Pidgin's reconnection
code) where the order of events decides whether the program is correct, checks
them with TLC on small instances, and proves the most important properties with
TLAPS for all instances.

Every definition stands for C code and keeps its name where there is one;
`PROJECT.json` ("map") gives the lines.

## 1. The system

libpurple runs in one thread, in the main loop of its UI. Everything happens in
callbacks: a timer fires, a descriptor is ready, the user asks for something.
A callback runs to its end, so there are no data races; what makes the code hard
is what happens *between* two callbacks of one activity, and *inside* one, when
it calls back into a caller that changes what the first one is working on. The
one place with real concurrency is the resolver, which forks child processes.

| component | state | operations | talks to |
|---|---|---|---|
| DNS queries, `dnsquery.c` | queue of requests, free children, counter of children; per query its resolver and timer | `a_account`, `destroy`, `initiate_resolving`, `handle_next_queued_request`, `host_resolved`, `uninit`; the child's loop | forked children through pipes, the UI's resolver, callbacks of proxy.c |
| proxy connections, `proxy.c` | list of attempts; per attempt socket, handler, remaining addresses, query, child attempt | `connect`, `connect_udp`, `connect_socks5_account`, `cancel`, `cancel_with_handle`, one callback per protocol step | DNS queries, the network, protocols, TLS, file transfers |
| circular buffer, `circbuffer.c` | memory, fill and remove pointers, counter | `append`, `get_max_read`, `mark_read` | protocols (what could not be written yet) |
| accounts, `account.c` | settings, enabled flag, password, last error, accounts.xml and its save timer | add, delete, enable, connect, register, set status, save | connections, UI dialogs, disk |
| connections, `connection.c` | state, wants-to-die flag, disconnect timer | create, report error, connected, destroy | accounts, protocols, UI |
| automatic reconnection, `pidgin/gtkconn.c` | per account delay and timer | error report, signed on or off, network up or down | accounts, connections, network |
| network, `network.c` | NetworkManager's state | state change, listening sockets | UI, DNS (resolver reset) |
| file transfers, `ft.c` | reference count, status, ready bits, socket, watcher | request, accept, deny, start, read and write, cancel, end | UI, protocols, proxy connections |
| SRV/TXT lookups, `dnssrv.c` | one child per query | query, cancel, answer | protocols |
| port mappings, `upnp.c`, `nat-pmp.c`, `stun.c` | one request under way, cached answers | map, unmap, cancel | network.c |
| signals, `signals.c` | handlers by priority | connect, disconnect, emit | everything |
| plugins, `plugin.c` | loaded set, dependencies | probe, load, unload | everything |
| statuses, `status.c`, `savedstatuses.c`, `idle.c` | active status, idle times, transient statuses | set, expire, auto-away | accounts, UI |
| buddy list, conversations, pounces, prefs, icons | trees and tables, each with a save timer | add, move, remove, update | UI, disk |

`PROJECT.json` lists the rest (protocols, TLS, media, logs, user interfaces,
bindings) with the reason why each is not modelled.

### What is hard in it

`PROJECT.json` ("hazards") has them with their lines. In short:

* **DNS**: a query is cancelled while its child resolves; a child times out while
  it is given its next request; `handle_next_queued_request` pops a request and
  puts it back while pipes and `fork` fail; the counter of children must follow.
* **Proxy**: an address fails after several messages and the next one is tried
  from inside the failing callback; a SOCKS5 attempt owns another attempt, and
  either can end first; a socket changes its owner twice.
* **Buffer**: equal pointers mean empty or full; growing moves what has wrapped.
* **Accounts**: an error is reported from inside a protocol, and reporting it
  makes the UI disable the account, which must not destroy the connection under
  the protocol's feet; the destruction is left to a 0 ms timer, and between the
  two the network comes back, the user deletes the account or changes its status.
* **File transfers**: the protocol, a dialog, the row in the UI's list and a callback
  each hold a pointer, and each may end the transfer under the others; UI and socket
  become ready in either order; a socket takes a part of what is written.
* **Signals**: a handler connects, disconnects and emits while the emission that
  called it walks the list; `l->next` was read before it was called.

### What makes each part correct

* DNS: every resolver has one owner; a query is answered once, with its own
  answer, or was destroyed; the pool keeps its limit, serves in order, is not idle
  while requests wait; every query ends.
* Proxy: an attempt ends once; until then it waits for exactly one thing; no
  socket is lost; nothing points to a freed attempt.
* Buffer: what comes out is what went in, in order.
* Accounts: an error leaves its connection alone; a deleted account is used by
  nothing; only enabled accounts are online; what accounts.xml keeps of a change is
  saved; a wanted account gets online again, after growing delays.
* File transfers: a transfer is freed exactly when nobody refers to it, and what goes
  with it is read afterwards in two known places only; what is over stays over and keeps nothing open; no byte is lost; no readiness is forgotten.
* Signals: a handler that stays connected is called once in every emission, in order
  of priority; every emission ends. (That no freed node is used does not hold of the code,
  see `Events` of `Signals`.)

## 2. The modules

| module | what it is |
|---|---|
| `LookupService` | abstract: a line of queries in front of a limited number of servers |
| `DnsQuery` | `dnsquery.c`, fork build: main thread and children; implements `LookupService` |
| `MCDnsQuery`, `MCDnsQuery*.cfg` | its instances |
| `DnsQueryProofs` | its proofs, with the refinement |
| `ConnectAttempt` | abstract: an attempt is answered once or cancelled |
| `ProxyConnect` | `proxy.c`; implements `ConnectAttempt` |
| `MCProxyConnect`, `MCProxyConnect*.cfg` | its instances |
| `ProxyConnectProofs` | its proofs, with the refinement |
| `ByteFifo` | abstract: the FIFO that `circbuffer.h` promises |
| `CircBuffer` | `circbuffer.c`; implements `ByteFifo` |
| `MCCircBuffer`, `MCCircBuffer*.cfg` | its instances |
| `CircBufferProofs` | its proofs, with the refinement |
| `AccountSession` | `account.c`, `connection.c`, `prpl.c`, `network.c`, `gtkconn.c` together |
| `MCAccountSession`, `MCAccountSession*.cfg` | its instances |
| `AccountSessionProofs` | its proofs |
| `Xfer` | `ft.c`, with the list of transfers of `pidgin/gtkft.c` |
| `MCXfer`, `MCXfer.cfg` | its instance |
| `XferProofs` | its proofs |
| `Signals` | `signals.c` |
| `MCSignals`, `MCSignals.cfg` | its instance |
| `SignalsProofs` | its proofs |

### DnsQuery

Members of `Query` and `Child` stand for heap addresses and process ids: they are
reused once they are freed. `queued_requests`, `free_dns_children`,
`number_of_dns_children` are the static variables of the file; `resolver[q]` is
`query_data->resolver`; `inpa[c]` is the query that a child's input handler was
given. `proc`, `request` and `answer` are the process and its two pipes.

`handle_next_queued_request` makes system calls during which children move, so it
is split where it calls `waitpid` and `write`, and `main`, `cur`, `tgt`, `fresh`
are its program counter and locals. All other handlers are one action each. The
child's loop is `ChildReads`, `ChildAnswers`, `ChildReportsError`, `ChildTimesOut`
(20 s), `ChildSeesEof`; a crash is an action of the environment. A callback that
destroys other queries commutes with `Cancel`, so it is not nested.

`LookupService` is what remains when only `Waiting` (the query in hand and the queue) and
`Serving` (the queries with a resolver) are looked at. A request that is popped, offered
to children that turn out to be dead, and put back changes neither.

### ProxyConnect

`conn[d]` is the struct with everything that can make it move on: `query_data`,
`inpa` (named by its callback), `clean` (the 10 ms timer), `child`. A callback may
try several addresses, call the callback of a parent attempt and begin its SOCKS5
greeting before it returns; so the C functions are operators from the table of
all attempts to the *set* of tables they may leave, `try_connect` and `failed`
fold the addresses that fail at once, and each action is one callback. `lost` and
`connected` are the two ways to call `connect_cb`. Which proxy type is used is
chosen at each address, because the shared `PurpleProxyInfo` may be edited. HTTP
authentication and the SOCKS5 sub-protocols are the loop `asked` - `proxy_do_write`
- `canread`, with `NextReaders` for the order of messages.

`Events` names what the passing run leaves out: `cancel_clean` and `cancel_group`
use freed memory (the first is the run `proxy_cancel_timer`, the second a hazard
with its line), `blank_host` frees an attempt without its socket.

### CircBuffer

Memory is a function from offsets to bytes, the pointers are offsets, and memory
that was never written is `Junk`. `append` with `GrownTo`, `Moved` and `Stored` is
`purple_circ_buffer_append` with the growth inside; each of the `memcpy`s and
`memmove`s is there. `op` is a history variable for the refinement. `GrowsDrained`
says whether an append may grow a buffer whose data was read up to its end, which
the code gets wrong (`circ_drained`).

### AccountSession

The state of an account is one record: the account, its connection and its
reconnect info. Each C function is an operator from record to record that calls
the others as the source does - `connection_error_reason` reports to gtkconn.c,
which disables the account, which may or may not disconnect it - and each action
is a main-loop callback or a user's request. `disk` is accounts.xml; `Quit` and
`Crash` restart the program from it. The file keeps less than the account has: the error
only if it is fatal ("It doesn't make sense to have transient errors persist across a
restart"), the password only if it is to be remembered, and `remember` only as the
presence of a password. `Events` selects what may happen, so that a
run can leave out the situations of which a property does not hold, by name.

### Xfer

A `PurpleXfer` is one record `x`, with what is attached to it: the protocol's pointer
(`known`), the dialog that asks the user, the message that a file cannot be used, the
row in Pidgin's list, the proxy connection. One transfer is followed at a time,
because transfers share nothing; when nobody holds it any more, `new` begins another.
The functions that call each other (`cancel`, `end`, `unref`, `request_accepted`,
`do_transfer`) are operators from the record to what it becomes, or to the set of
what it may become where a read, a write or a file may fail. The actions are the
calls of the protocol, the answers of the user, the buttons of the list and the two
callbacks of the main loop, `connect_cb` and `transfer_cb`. The protocol is external:
it calls what its pointer lets it call, at any time. Bytes are counted, not kept. A file
to send that the user chooses is not empty (`purple_xfer_choose_file_ok_cb` refuses it);
one that was given is taken as it is, so `accept_given` and a plugin's answer also send
empty files, for which `do_transfer` takes the watcher away for good.

A dialog is answered as gtkrequest.c does it: `Answered` takes it in hand, its callback
runs, and then it is closed, unless the callback closed it (`close_dialog`, `destroy`).
`action_answered` closes it by a constant, `file_answered` by `data->type`, which is freed
by then if the answer ended the transfer. This and `priv->buffer` after a failed write
(`write_failed`) are the two places that read what is freed; `misused` collects them, and
`StaleReads` says that there is no third and in which transfers the two happen.

`leaked` counts the references that the code itself loses (the TODO in
`purple_xfer_cancel_local` names some of them), so that `RefsAccounted` can say that all
others are given back. `Events` names what the run leaves out: starting a transfer twice
(`start_again`: `begin_transfer` refuses it, but `purple_xfer_start` has replaced the
socket by then, and the first stays open under its watcher), cancelling a transfer
whose proxy connection is being made (`cancel_connecting`: nothing stops it), or while
the user reads that a file cannot be used (`cancel_noticed`), and a file name that is
refused (`bad_name`: the protocol is not told). With any of them a property fails; the
last three are hazards with their lines.

### Signals

`handlers[s]` is the set of nodes of the `GList` of signal `s`, `before` the order they
stand in; nodes are reused once they are freed. An emission is a loop with `l` and
`l_next` as its locals, and callbacks emit, so `emissions` is a stack. The innermost
callback does up to `MaxActs` of the things a program may do - `connect`, `disconnect`,
`disconnect_by_handle`, `register`, `unregister`, `emit` - and then `return`s, which
goes on with `l_next`. `due` and `called` are history variables: which handlers were
connected when the emission began and still are, and which of them it has called.

`Events` names three misuses: a callback that disconnects the handler saved in
`l_next`, one that unregisters a signal being emitted, and names that are registered
twice or unregistered twice. The code survives none of them: with the first `CalledOnce`
fails, with the third `TablesAgree`, and `freedUse` records that freed memory was used with
the first two. They are hazards with their lines, and no property says that freed memory is
never used: without these events it would only repeat the guards that leave them out.

## 3. The runs

Twelve, in `PROJECT.json`. Each passing property has a mutant: a plausible bug put
into the modelled code under which TLC finds that property violated.

| run | instance | shows |
|---|---|---|
| `dns_pool` | 4 queries, 3 structs, pool of 2, everything may fail | types; who owns which child; whose answer is read; no query lost; order |
| `dns_live` | 3 queries, pool of 1, nothing fails, fair | limit, no idle pool, implements `LookupService`, every query ends |
| `dns_stall` | + cancellation | **violated**: cancelling the last busy query leaves the queue waiting |
| `circ_fifo` | 2 byte values, growth by 2, appends to 4, up to 6 bytes | pointers agree, `get_max_read` sound, implements `ByteFifo` |
| `circ_drained` | + growing a drained buffer | **violated**: bytes stored behind the old end |
| `proxy_attempts` | 2 structs, 2 handles, 3 addresses | one thing to wait for, no socket lost, no dangling pointer, implements `ConnectAttempt` |
| `proxy_cancel_timer` | + cancelling during the 10 ms timer | **violated**: the timer holds a freed struct |
| `account_all` | 1 account, delays 1 to 3, every event but two | deletion, errors, doomed connections, enabling, saving, growing delays |
| `account_gets_online` | deletion, status, network; fair | a wanted account is always on its way, gets online, keeps its password |
| `account_deleted_doomed` | + deleting during a registration | **violated**: the freed account still has a connection |
| `xfer_life` | either direction, Pidgin or a UI that moves the data, 3 bytes in chunks of 2 | references accounted for, over is over, no third stale read, no byte lost, no readiness forgotten, status moves forward |
| `signals_reentrant` | 3 handlers, 2 signals, 2 receivers, 2 priorities, emissions in emissions, fair | called once and in order, counts and tables agree, every emission ends |

The four violations are findings: `PROJECT.json` quotes the comment each one
contradicts. Nothing in the runs depends on them: the passing runs exclude
exactly the event concerned, by a constant.

### Why the bounds are enough

* **Queries and children.** With a pool of 2 and 4 queries, two requests wait while
  both children are busy, so that they could change places, and a third child can come
  up after one was killed. A third struct is needed because a struct may be dead but not
  yet collected. Pool 1 suffices for liveness: more children only serve sooner.
  `BelowZero` ends the descent of the counter when `fork` keeps failing.
* **Buffer.** Growth by 2 from 0 to 6 has an append that fits, one that grows once
  and one that grows twice, with every position of both pointers; two byte values
  tell a wrong order from a right one. The proofs have no such bound.
* **Proxy.** Two structs are a parent and its child, two independent attempts, or
  one attempt and its reused address; attempts meet in no other way. With three
  addresses one can fail at once, one later, and one be left over. There is no
  bound on the number of messages: the states repeat.
* **Accounts.** Accounts meet only in the save timer and in network notices, which
  treat each by itself; the proofs cover any number. The delays start
  at 1 or 2 and end at 3, which gives the code's random start (8 to 60 s), its
  doubling and a doubling that is cut at the maximum (600 s); time itself is
  abstracted, only the order of timers is kept.

* **Transfers.** 3 bytes in chunks of 2 have a whole chunk, a short last one, and writes
  that take all, a part or nothing of either; empty files are sent too. References need no bound: a protocol asks at
  most twice. The proofs are for any size of file and chunk.
* **Signals.** Three handlers are one that is called, one saved in `l_next` and one that
  comes or goes beside them; two signals and depth 2 give an emission inside an
  emission of the same and of another signal; two priorities tell before, equal and
  behind. With one act per callback, a callback that emits still has several things happen
  before it returns; the proofs have no such bound.

Symmetry is used for the safety runs of `DnsQuery` only.

### Fairness

`DnsQuery`: the main loop dispatches every timer that is due and every descriptor
that is readable in each iteration, hence strong fairness for handlers (one that
is ready again and again runs), weak fairness for a handler that has begun and
for a child, whose `getaddrinfo` returns and whose `select` has a timeout. The UI
answers what it took over. Nothing is assumed about cancellations or failures.

`AccountSession`: weak fairness for the timers; a login that is under way ends
one way or the other; strong fairness of success says that a server which is
tried for ever accepts at some time, without which no reconnection promises
anything.

`Signals`: weak fairness of `return`: a callback is a finite piece of code. Emissions are
nested to a depth, so every emission ends; that it ends although each callback connects
a new handler is what `EmissionsEnd` is about.

`ProxyConnect` and `Xfer` state no liveness: the code has no timeout, and a silent proxy
keeps an attempt, and with it a transfer, for ever.

Deadlock checking is off only in the runs of `DnsQuery`, where the program ends after
`uninit`.

## 4. What is proved

All with tlapm, from the assumptions named in the modules (constants are
naturals, `NULL` is no query, delays are ordered) and nothing else.

**DnsQuery** (any queries, children, pool size and failures). The invariant is
`TypeOK`, `ResolverOwnership`, `NoQueryLostOrDangling` and two strengthenings:
`MainShape` (what the split handler holds at each of its points; without it a
popped request could be lost at the write) and `PipeShape` (what is in the pipes
belongs to the query that watches the child; without it a child on the free list
might still have an old answer). One lemma per action. `AnswerIsForItsQuery`
follows from `PipeShape` and ownership. `PoolBounded` needs in addition that the
set of children is finite, and assumes `~ForkFails`: it is false otherwise (hazard at dnsquery.c:499).
`NoIdlePool` measures the slack of the pool (free children and those it may still
fork): at every point of `handle_next_queued_request` at most one request can be served
more than there are waiting. It assumes that nothing is cancelled and nothing fails;
the run `dns_stall` shows why.

`ServiceRefinement` maps the pool to `LookupService`. Each step leaves `Waiting` and
`Serving` alone or is one of the abstract steps but for the limit (`ServiceStep`, by one
lemma for the handlers of the main loop and one for `handle_next_queued_request`). The
limit holds because those who are served have a child each (`ServingBound`), so with
`~ForkFails` there are at most `MAX_DNS_CHILDREN`. `FirstComeFirstServed` needs no such
assumption: it follows from `ServiceStep` alone, and from `NoQueryLostOrDangling`, by
which nobody waits twice, so that positions can be compared.

**CircBuffer** (any growth step, any sizes, no bound on the length except the
constant's). The invariant is `TypeOK /\ PointersAgree`: the counter is within the
length, and the distance of the pointers modulo the length is the counter. With it each append and read is shown
to be a step of `ByteFifo` under the mapping `Unread`; the case of growing a
wrapped buffer is split as the code is, by which of the two parts is longer.
Assumes `~GrowsDrained` (`circ_drained` shows why).

**AccountSession** (any accounts, delays, events). The invariant says of each
account that it is `Sound`: types, `Connected` (a disconnect timer has its
connection, a doomed connection will end), `Deleted` and `Permitted`, the last
two only without the events that break them; of accounts.xml that it is readable;
and `ChangesGetSaved`, which compares what accounts.xml would say of the account with what
it says. `Connected` is what makes `ErrorsLeaveConnection`
inductive: an error is followed by calls into account.c that look at
`wants_to_die`. There is one lemma for each C function (it takes a sound account
to a sound one and asks for a save if it changes what the file keeps) and each
action composes them. `WantedAccountsPursued` adds `Pursued`: an enabled account whose
connection is about to be destroyed has its reconnect timer, and a disabled account
has no connection but one that wants to die. Without the second part, enabling an
account could meet a connection that is neither kept nor made again. It holds across
saves, crashes and restarts, and assumes that none of the six events of `Untroubled` happens:
registration, and the five that can strand an account. `ErrorsSparePasswords` is about the
time between an error and its timer (`Pending`): what signs an account on meanwhile finds
the old connection and leaves its timer alone, and the two calls that end it restore the
password. It assumes that the program is not restarted, since accounts.xml does not have
such a password.

**ProxyConnect** (any structs, handles and addresses; `Events = {}`). Between two
callbacks the table of attempts is `Whole`: every struct is free, waits for exactly one
thing, or is stranded after its answer, and parents and children point at each other,
a child having no child and its parent's handle. A callback takes one struct in hand,
which then waits for nothing while the rest stays whole; three lemmas say what may
become of a struct in hand (it waits again, it is answered and freed, it hands its
socket to its parent), and one lemma for each C function says that it leaves a whole
table and answers at most the user of this attempt (`Goes`). The four properties follow from
`Whole`, the refinement of `ConnectAttempt` from `Goes`.

**Xfer** (any file size, chunk and number of references; `Events = {}`). The invariant says
of the transfer that its references are accounted for, its counters add up, and that
it is `Active` while the protocol knows it - not ended, no dialog once it has a file, a
watcher only with a socket, the readiness as `WakeupKept` says - and `Idle` when it does
not. `cancel` and `end` are the only ways from one to the other; while they run some
caller still holds a reference, so their lemmas (`Over`) count the references in hand.
While the callback of a dialog runs, the dialog is a holder like any other
(`UnrefAnswering`, `FileAnswered`): its data is freed by then exactly if the callback ended
the transfer, which is what `StaleReadsOnly` needs. The row in Pidgin's list is why priv is
not read too late there, so it must not be taken away by the other side's cancellation.
That the counters stay within the file (`TypeOK`) needs them to add up: a chunk is cut by
what is left, and what is buffered is part of it.

**Signals** (any handlers, signals, priorities, depth and number of acts; `Events = {}`).
The invariant has two halves. `Lists`: `before` orders every list, priorities ascend along
it, no node is in two lists. `Fits`: what an emission has called lies behind its `l_next`,
what it must call lies ahead, and it has reached no higher priority than `l_next`'s. Taking
nodes out and putting one in keep both, for every emission on the stack.

| theorem | property of a run |
|---|---|
| `TypeCorrect`, `ResolversOwned`, `QueriesTracked`, `AnswersMatch`, `PoolBounded`, `NoIdlePool`, `FirstComeFirstServed`, `ServiceRefinement` | `dns_pool`, `dns_live` |
| `TypeCorrect`, `PointersConsistent`, `MaxReadIsSound`, `FifoRefinement` | `circ_fifo` |
| `TypeCorrect`, `ErrorsSpareConnection`, `DoomedConnectionsEnd`, `NoChangeIsForgotten`, `OnlyEnabledAccountsConnect`, `DeletionIsSafe`, `ReconnectionBacksOff` | `account_all` |
| `WantedAccountsPursued`, `ErrorsSparePasswords` | `account_gets_online` |
| `TypeCorrect`, `NoStalePointers`, `OneThingAtATime`, `SocketsAreKept`, `KeepsThePromise` | `proxy_attempts` |
| `TypeCorrect`, `ReferencesAccounted`, `StaleReadsOnly`, `OverIsOver`, `EveryByteIsMoved`, `SomebodyWakesIt`, `StatusMovesForward` | `xfer_life` |
| `TypeCorrect`, `EachIsCalledOnce`, `PriorityOrder`, `TablesStayTogether` | `signals_reentrant` |

Only model-checked: liveness (`EveryQueryEnds`, `WantedGetsOnline`, `EmissionsEnd`), which
is beyond the prover. Every other property of a run that passes is a theorem.

## 5. What is not modelled in these parts

* `dnsquery.c`: the Windows threads and the blocking fallback (other builds), the
  contents of requests and addresses; a partial request (pipes take it whole).
* `proxy.c`: messages and how much of one was written (`s5_canwrite` does not reset
  `written_len`), draining an HTTP error page, an end of an exchange that the proxy never
  ends, how the settings are found, an invalid proxy type, a `PurpleProxyInfo` freed with
  its account.
* `circbuffer.c`: failing allocations (glib aborts).
* `ft.c`: thumbnails, messages and progress; a UI that takes over the choice of files;
  what a protocol does inside its ops (it is told, and forgets the transfer; `ack` calls
  nothing back). Dialogs are those of Pidgin; the question whether to overwrite a file is
  part of choosing one.
* `signals.c`: marshalling of arguments and return values, signals of several instances
  (they share nothing), the copy of an emission that goes to D-Bus.
* Accounts: passwords in the encrypted form of libpurple 3; settings, aliases, privacy, icons, unregistering an account, keepalives;
  protocols without password (they never ask); protocols that report an error from
  within `close`; the status restored at start and `--nologin`; Finch's copy of the
  reconnection code. Three things the code allows but hardly means are events that
  the liveness run leaves out: a protocol that reports success after an error
  (`late_connected`), a main loop that sleeps longer than the shortest delay
  (`stall`), and enabling an account whose connection is about to die
  (`edit_doomed`). Each can leave an account offline for good.

The rest of the library is not modelled, for these reasons (`PROJECT.json` has them for
each component): protocols, user interfaces, media and bindings are programs of their
own, most of the repository's lines, and talk to the parts above through the
calls that are modelled; parsers, formatters, ciphers and file formats are data
without control; statuses, buddy lists, preferences, pounces and icons are sequential
tables of which the one hard part, a save timer over a file, is the one modelled for
accounts.xml; plugins and port mappings are walks over lists and single requests.

## 6. Plan

Done, in this order: `DnsQuery` with `LookupService`, `CircBuffer` with `ByteFifo`, `AccountSession`, each with
its proofs; `ProxyConnect` with `ConnectAttempt`; `Signals` and `Xfer` with their proofs;
the proofs of `ProxyConnect`, with the refinement.

Worth adding, most important first:

1. Compositions: `ProxyConnect` over `LookupService` (a query is answered
   once or destroyed), `Xfer` over `ConnectAttempt`, where a transfer that is
   cancelled leaves its attempt behind (`cancel_connecting`).
2. `PortMapping` (`network.c` with `upnp.c` and `nat-pmp.c`): a listener cancelled while
   its mapping is under way.
3. `Plugins` (`plugin.c`): dependencies are loaded before and unloaded after, and an
   unloaded plugin has no handler left (over `Signals`).
4. `Statuses` (`status.c`, `savedstatuses.c`, `idle.c`): exactly one exclusive status is
   active; idle-away is undone by what it was done by.
