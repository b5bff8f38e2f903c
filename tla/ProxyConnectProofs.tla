------------------------- MODULE ProxyConnectProofs -------------------------
(***************************************************************************)
(* The safety properties of ProxyConnect, and that it implements           *)
(* ConnectAttempt, for any number of structs, handles and addresses, if    *)
(* none of the optional behaviours happens (Events = {}).                  *)
(*                                                                         *)
(* Between two callbacks the table of attempts is Whole: each struct is    *)
(* free or waits for one thing, and parents and children point to each     *)
(* other.  A callback takes one struct in hand, d, which then waits for    *)
(* nothing, while the rest of the table is whole; whatever it does with d  *)
(* in the end makes the table whole again and answers at most the attempt  *)
(* of d's user, or of its parent's (Goes).  One lemma for each function    *)
(* says this, from three lemmas on what may become of d.                   *)
(***************************************************************************)
EXTENDS ProxyConnect, TLAPS

\* An attempt that is under way: what it waits for, and its socket.
Waiting(s) ==
    /\ s.live /\ s.answer = "none"
    /\ \/ s.query_data # "none" /\ s.inpa = "none" /\ ~s.clean /\ s.child = NULL
       \/ s.query_data = "none" /\ s.inpa # "none" /\ ~s.clean /\ s.child = NULL
       \/ s.query_data = "none" /\ s.inpa = "none" /\ s.clean /\ s.child = NULL
       \/ s.query_data = "none" /\ s.inpa = "none" /\ ~s.clean /\ s.child # NULL
    /\ s.fd <=> s.inpa # "none" \/ s.clean \/ s.query_data = "socks4"
    /\ s.inpa = "proxy_do_write" => s.read_cb \in Reading

\* A SOCKS5 attempt whose child failed; its user was told.
Stranded(s) ==
    /\ s.live /\ s.answer = "failed" /\ s.data = NULL
    /\ s.query_data = "none" /\ s.inpa = "none" /\ ~s.clean /\ s.child = NULL /\ ~s.fd

Free(s) ==
    /\ ~s.live /\ s.answer # "none"
    /\ s.query_data = "none" /\ s.inpa = "none" /\ ~s.clean /\ ~s.fd
    /\ s.child = NULL /\ s.data = NULL

Settled(s) == s \in ConnectData /\ (Waiting(s) \/ Stranded(s) \/ Free(s))

\* Parents and children point to each other; a child has no child, and its
\* parent's handle.
Linked(c, e) ==
    /\ c[e].child # NULL =>
         LET k == c[e].child
         IN  k # e /\ c[e].live /\ c[k].live /\ c[k].data = e /\ c[k].child = NULL
             /\ c[k].handle = c[e].handle
    /\ c[e].data # NULL =>
         LET p == c[e].data
         IN  p # e /\ c[e].live /\ c[p].live /\ c[p].child = e /\ c[e].child = NULL

Table(c) == DOMAIN c = Data /\ c = [d \in Data |-> c[d]]

Whole(c) ==
    /\ Table(c)
    /\ \A e \in Data : Settled(c[e]) /\ Linked(c, e)

\* Struct d is under way without a child; all the other ones are settled.
Taken(c, d) ==
    /\ Table(c)
    /\ \A e \in Data : Linked(c, e)
    /\ \A e \in Data \ {d} : Settled(c[e])
    /\ c[d] \in ConnectData /\ c[d].live /\ c[d].answer = "none" /\ c[d].child = NULL

\* d is in the hand of a callback, with a socket or without.
InHand(c, d, fd) ==
    /\ Taken(c, d)
    /\ c[d].query_data = "none" /\ c[d].inpa = "none" /\ ~c[d].clean
    /\ c[d].fd <=> fd

\* The attempt that a user made: d, or the one that d is a child of.
Root(c, d) == IF c[d].data = NULL THEN d ELSE c[d].data

\* What may become of the table c when d is taken in hand: at most the user of
\* d's root is answered.
Goes(c, d, t) ==
    /\ Whole(t)
    /\ Attempt(c[Root(c, d)]) = "pending"
    /\ Attempt(t[Root(c, d)]) \in {"pending", "connected", "failed"}
    /\ \A e \in Data \ {Root(c, d)} : Attempt(t[e]) = Attempt(c[e])

IInv == Whole(conn) /\ freedUse = FALSE

-----------------------------------------------------------------------------
(* The links.                                                               *)

\* The links depend on four fields only.
LEMMA SameLinks ==
    ASSUME NEW c, NEW t, NULL \notin Data,
           \A e \in Data : c[e].child \in Data \cup {NULL} /\ c[e].data \in Data \cup {NULL},
           \A e \in Data : /\ t[e].live = c[e].live /\ t[e].child = c[e].child
                           /\ t[e].data = c[e].data /\ t[e].handle = c[e].handle,
           \A e \in Data : Linked(c, e)
    PROVE  \A e \in Data : Linked(t, e)
  <1> SUFFICES ASSUME NEW e \in Data PROVE Linked(t, e)
    OBVIOUS
  <1> DEFINE k == c[e].child
             p == c[e].data
  <1>1. k \in Data \cup {NULL} /\ p \in Data \cup {NULL} /\ t[e].child = k /\ t[e].data = p
        /\ t[e].live = c[e].live /\ t[e].handle = c[e].handle
    OBVIOUS
  <1>2. Linked(c, e)
    OBVIOUS
  <1>3. k # NULL => /\ t[k].live = c[k].live /\ t[k].child = c[k].child
                    /\ t[k].data = c[k].data /\ t[k].handle = c[k].handle
    BY <1>1
  <1>4. p # NULL => t[p].live = c[p].live /\ t[p].child = c[p].child
    BY <1>1
  <1>5. k # NULL => /\ k # e /\ c[e].live /\ c[k].live /\ c[k].data = e /\ c[k].child = NULL
                    /\ c[k].handle = c[e].handle
    BY <1>2 DEF Linked
  <1>6. p # NULL => p # e /\ c[e].live /\ c[p].live /\ c[p].child = e /\ k = NULL
    BY <1>2 DEF Linked
  <1> HIDE DEF k, p
  <1> QED BY <1>1, <1>3, <1>4, <1>5, <1>6 DEF Linked

\* The structs that point to nothing outside E keep their links if E is not touched.
LEMMA SameElsewhere ==
    ASSUME NEW c, NEW t, NEW E, NULL \notin Data, NEW e \in E, E \subseteq Data,
           \A f \in E : t[f] = c[f],
           c[e].child \in E \cup {NULL}, c[e].data \in E \cup {NULL},
           Linked(c, e)
    PROVE  Linked(t, e)
  <1> DEFINE k == c[e].child
             p == c[e].data
  <1>1. t[e].child = k /\ t[e].data = p /\ t[e].live = c[e].live /\ t[e].handle = c[e].handle
    OBVIOUS
  <1>2. (k # NULL => t[k] = c[k]) /\ (p # NULL => t[p] = c[p])
    OBVIOUS
  <1>3. k # NULL => /\ k # e /\ c[e].live /\ c[k].live /\ c[k].data = e /\ c[k].child = NULL
                    /\ c[k].handle = c[e].handle
    BY DEF Linked
  <1>4. p # NULL => p # e /\ c[e].live /\ c[p].live /\ c[p].child = e /\ k = NULL
    BY DEF Linked
  <1> HIDE DEF k, p
  <1> QED BY <1>1, <1>2, <1>3, <1>4 DEF Linked

\* A pointer is answered by one.
LEMMA PointedBack ==
    ASSUME NEW c, NEW e \in Data, Linked(c, e), NULL \notin Data, NEW f \in Data
    PROVE  /\ c[e].child = f => c[f].data = e /\ c[f].data # NULL /\ c[f].child = NULL
           /\ c[e].data = f => c[f].child = e /\ c[f].child # NULL
  <1>1. e # NULL /\ f # NULL
    OBVIOUS
  <1>2. c[e].child = f => c[f].data = e /\ c[f].child = NULL
    BY <1>1 DEF Linked
  <1>3. c[e].data = f => c[f].child = e
    BY <1>1 DEF Linked
  <1> QED BY <1>1, <1>2, <1>3

-----------------------------------------------------------------------------
(* Three ways for d to leave the callback's hand.                          *)

\* Its parent, if it has one, waits for it alone.
LEMMA ParentWaits ==
    ASSUME NEW c, NEW d \in Data, NEW fd, InHand(c, d, fd), c[d].data # NULL
    PROVE  LET p == c[d].data
           IN  /\ p \in Data /\ p # d /\ c[p] \in ConnectData /\ Waiting(c[p])
               /\ c[p].child = d /\ c[p].data = NULL
               /\ c[p].query_data = "none" /\ c[p].inpa = "none" /\ ~c[p].clean /\ ~c[p].fd
               /\ Root(c, d) = p
  <1> DEFINE p == c[d].data
  <1>1. p \in Data
    BY DEF Taken, InHand, ConnectData
  <1>2. p # d /\ c[p].live /\ c[p].child = d
    BY DEF Taken, InHand, Linked
  <1>3. d # NULL
    BY NullAssumption
  <1>4. c[p].data = NULL
    BY <1>1, <1>2, <1>3 DEF Taken, InHand, Linked
  <1>5. Settled(c[p])
    BY <1>1, <1>2 DEF Taken, InHand
  <1>6. Waiting(c[p]) /\ c[p] \in ConnectData
    BY <1>2, <1>3, <1>5 DEF Settled, Stranded, Free
  <1> HIDE DEF p
  <1>7. c[p].query_data = "none" /\ c[p].inpa = "none" /\ ~c[p].clean /\ ~c[p].fd
    BY <1>2, <1>3, <1>6 DEF Waiting
  <1>8. Root(c, d) = p
    BY DEF Root, p
  <1> QED BY <1>1, <1>2, <1>4, <1>6, <1>7, <1>8 DEF p

\* It waits for something else.
LEMMA GoesOn ==
    ASSUME NEW c, NEW d \in Data, NEW fd, InHand(c, d, fd),
           NEW t, Table(t), \A e \in Data \ {d} : t[e] = c[e],
           t[d] \in ConnectData, Waiting(t[d]), t[d].child = NULL,
           t[d].data = c[d].data, t[d].handle = c[d].handle
    PROVE  Goes(c, d, t)
  <1>1. \A e \in Data : Settled(t[e])
    BY DEF Taken, InHand, Settled
  <1>2. d # NULL /\ \A e \in Data : Linked(c, e)
    BY NullAssumption DEF Taken, InHand
  <1>3. t[d].live /\ c[d].live /\ c[d].child = NULL
    BY DEF Taken, InHand, Waiting
  <1>4. \A e \in Data : c[e].child \in Data \cup {NULL} /\ c[e].data \in Data \cup {NULL}
    BY DEF Taken, InHand, Settled, ConnectData
  <1>5. \A e \in Data : Linked(t, e)
    <2>1. \A e \in Data : /\ t[e].live = c[e].live /\ t[e].child = c[e].child
                          /\ t[e].data = c[e].data /\ t[e].handle = c[e].handle
      <3> SUFFICES ASSUME NEW e \in Data
                   PROVE  /\ t[e].live = c[e].live /\ t[e].child = c[e].child
                          /\ t[e].data = c[e].data /\ t[e].handle = c[e].handle
        OBVIOUS
      <3>1. CASE e # d
        BY <3>1
      <3>2. t[d].live = TRUE /\ c[d].live = TRUE
        BY <1>3 DEF Taken, InHand, ConnectData
      <3> QED BY <1>3, <3>1, <3>2
    <2> QED BY <1>2, <1>4, <2>1, NullAssumption, SameLinks
  <1>6. CASE c[d].data = NULL
    BY <1>1, <1>3, <1>5, <1>6 DEF Goes, Whole, Root, Attempt, Taken, InHand, Waiting
  <1>7. CASE c[d].data # NULL
    <2> DEFINE p == c[d].data
    <2>1. p \in Data /\ p # d /\ Waiting(c[p]) /\ c[p].data = NULL /\ Root(c, d) = p
      BY <1>7, ParentWaits
    <2>2. Attempt(c[p]) = "pending" /\ Attempt(t[p]) = "pending"
      BY <2>1 DEF Attempt, Waiting
    <2>3. Attempt(c[d]) = "none" /\ Attempt(t[d]) = "none"
      BY <1>3, <1>7 DEF Attempt
    <2> HIDE DEF p
    <2> QED BY <1>1, <1>5, <2>1, <2>2, <2>3 DEF Goes, Whole
  <1> QED BY <1>6, <1>7

\* It ends, and its user is told.
LEMMA Ends ==
    ASSUME NEW c, NEW d \in Data, NEW fd, InHand(c, d, fd), c[d].data = NULL,
           NEW t, Table(t), \A e \in Data \ {d} : t[e] = c[e],
           t[d] \in ConnectData, Free(t[d]), t[d].answer \in {"connected", "failed"}
    PROVE  Goes(c, d, t)
  <1>1. \A e \in Data : Settled(t[e])
    BY DEF Taken, InHand, Settled
  <1>2. d # NULL /\ \A e \in Data : Linked(c, e)
    BY NullAssumption DEF Taken, InHand
  <1>3. ~t[d].live /\ t[d].child = NULL /\ t[d].data = NULL /\ c[d].live /\ c[d].child = NULL
    BY DEF Taken, InHand, Free
  <1>4. \A e \in Data : c[e].child \in Data \cup {NULL} /\ c[e].data \in Data \cup {NULL}
    BY DEF Taken, InHand, Settled, ConnectData
  <1>5. \A e \in Data : c[e].child # d /\ c[e].data # d
    <2> SUFFICES ASSUME NEW e \in Data PROVE c[e].child # d /\ c[e].data # d
      OBVIOUS
    <2>1. Linked(c, e)
      BY <1>2
    <2> QED BY <1>3, <2>1, NullAssumption, PointedBack
  <1>6. \A e \in Data : Linked(t, e)
    <2>1. Linked(t, d)
      BY <1>3 DEF Linked
    <2>2. \A e \in Data \ {d} : Linked(t, e)
      <3> SUFFICES ASSUME NEW e \in Data \ {d} PROVE Linked(t, e)
        OBVIOUS
      <3> DEFINE E == Data \ {d}
      <3>1. \A f \in E : t[f] = c[f]
        OBVIOUS
      <3>2. c[e].child \in E \cup {NULL} /\ c[e].data \in E \cup {NULL} /\ Linked(c, e)
        BY <1>2, <1>4, <1>5
      <3>3. e \in E /\ E \subseteq Data
        OBVIOUS
      <3> HIDE DEF E
      <3> QED BY <3>1, <3>2, <3>3, NullAssumption, SameElsewhere
    <2> QED BY <2>1, <2>2
  <1>7. Attempt(c[d]) = "pending" /\ Attempt(t[d]) = t[d].answer /\ Root(c, d) = d
    BY <1>3 DEF Attempt, Taken, InHand, Root
  <1> QED BY <1>1, <1>6, <1>7 DEF Goes, Whole

\* It ends, and its parent goes on, stays, or ends in its turn.
LEMMA EndsInParent ==
    ASSUME NEW c, NEW d \in Data, NEW fd, InHand(c, d, fd), c[d].data # NULL,
           NEW t, Table(t), \A e \in Data \ {d, c[d].data} : t[e] = c[e],
           t[d] \in ConnectData, Free(t[d]), t[d].answer = "unused",
           t[c[d].data] \in ConnectData, t[c[d].data].child = NULL, t[c[d].data].data = NULL,
           \/ Waiting(t[c[d].data])
           \/ Stranded(t[c[d].data])
           \/ Free(t[c[d].data]) /\ t[c[d].data].answer = "failed"
    PROVE  Goes(c, d, t)
  <1> DEFINE p == c[d].data
  <1>1. p \in Data /\ p # d /\ Waiting(c[p]) /\ c[p].child = d /\ c[p].data = NULL
        /\ Root(c, d) = p
    BY ParentWaits
  <1>2. \A e \in Data : Settled(t[e])
    BY <1>1 DEF Taken, InHand, Settled
  <1>3. d # NULL /\ p # NULL /\ \A e \in Data : Linked(c, e)
    BY NullAssumption DEF Taken, InHand
  <1>4. ~t[d].live /\ t[d].child = NULL /\ t[d].data = NULL /\ c[d].live /\ c[d].child = NULL
    BY DEF Taken, InHand, Free
  <1>5. \A e \in Data : c[e].child \in Data \cup {NULL} /\ c[e].data \in Data \cup {NULL}
    BY DEF Taken, InHand, Settled, ConnectData
  <1>6. \A e \in Data \ {d, p} : c[e].child \notin {d, p} /\ c[e].data \notin {d, p}
    <2> HIDE DEF p
    <2> SUFFICES ASSUME NEW e \in Data \ {d, p}
                 PROVE  c[e].child \notin {d, p} /\ c[e].data \notin {d, p}
      OBVIOUS
    <2>1. c[d].data = p
      BY DEF p
    <2>2. Linked(c, e) /\ e # NULL
      BY <1>3, NullAssumption
    <2>3. c[e].child # d /\ c[e].data # d
      BY <1>3, <1>4, <2>1, <2>2, NullAssumption, PointedBack
    <2>4. c[e].child # p /\ c[e].data # p
      BY <1>1, <1>3, <2>2, NullAssumption, PointedBack
    <2> QED BY <2>3, <2>4
  <1>7. \A e \in Data : Linked(t, e)
    <2>1. Linked(t, d) /\ Linked(t, p)
      BY <1>4 DEF Linked
    <2>2. \A e \in Data \ {d, p} : Linked(t, e)
      <3> HIDE DEF p
      <3> SUFFICES ASSUME NEW e \in Data \ {d, p} PROVE Linked(t, e)
        OBVIOUS
      <3>1. c[e].child \notin {d, p} /\ c[e].data \notin {d, p}
        BY <1>6
      <3>2. \A f \in Data \ {d, p} : t[f] = c[f]
        BY DEF p
      <3> DEFINE E == Data \ {d, p}
      <3>3. \A f \in E : t[f] = c[f]
        BY <3>2
      <3>4. c[e].child \in E \cup {NULL} /\ c[e].data \in E \cup {NULL} /\ Linked(c, e)
        BY <1>3, <1>5, <3>1
      <3>5. e \in E /\ E \subseteq Data
        OBVIOUS
      <3> HIDE DEF E
      <3> QED BY <3>3, <3>4, <3>5, NullAssumption, SameElsewhere
    <2> QED BY <2>1, <2>2
  <1>8. Attempt(c[p]) = "pending" /\ Attempt(c[d]) = "none" /\ Attempt(t[d]) = "none"
    BY <1>1, <1>4 DEF Attempt, Waiting
  <1>9. Attempt(t[p]) \in {"pending", "failed"}
    BY DEF Attempt, Waiting, Stranded, Free
  <1> HIDE DEF p
  <1> QED BY <1>1, <1>2, <1>7, <1>8, <1>9 DEF Goes, Whole, p

-----------------------------------------------------------------------------
(* One lemma for each function of ProxyConnect.                            *)

\* Another value for d, of the same user, leaves d taken, and the same task.
LEMMA Touch ==
    ASSUME NEW c, NEW d \in Data, Taken(c, d), NEW x \in ConnectData,
           x.live, x.answer = "none", x.child = NULL,
           x.data = c[d].data, x.handle = c[d].handle
    PROVE  LET e == [c EXCEPT ![d] = x]
           IN  /\ Taken(e, d) /\ e[d] = x
               /\ \A t : Goes(e, d, t) => Goes(c, d, t)
  <1> DEFINE e == [c EXCEPT ![d] = x]
  <1>1. Table(e) /\ e[d] = x /\ \A f \in Data \ {d} : e[f] = c[f]
    BY DEF Taken, Table
  <1> HIDE DEF e
  <1>2. \A f \in Data : /\ e[f].live = c[f].live /\ e[f].child = c[f].child
                        /\ e[f].data = c[f].data /\ e[f].handle = c[f].handle
                        /\ Attempt(e[f]) = Attempt(c[f])
    <2> SUFFICES ASSUME NEW f \in Data
                 PROVE  /\ e[f].live = c[f].live /\ e[f].child = c[f].child
                        /\ e[f].data = c[f].data /\ e[f].handle = c[f].handle
                        /\ Attempt(e[f]) = Attempt(c[f])
      OBVIOUS
    <2>1. CASE f # d
      BY <1>1, <2>1
    <2>2. x.live = TRUE /\ c[d].live = TRUE /\ c[d].answer = "none" /\ c[d].child = NULL
      BY DEF Taken, ConnectData
    <2>3. Attempt(x) = Attempt(c[d])
      BY <2>2 DEF Attempt
    <2> QED BY <1>1, <2>1, <2>2, <2>3
  <1>3. \A f \in Data : c[f].child \in Data \cup {NULL} /\ c[f].data \in Data \cup {NULL}
    BY DEF Taken, Settled, ConnectData
  <1>4. \A f \in Data : Linked(e, f)
    BY <1>2, <1>3, NullAssumption, SameLinks DEF Taken
  <1>5. Taken(e, d)
    BY <1>1, <1>4 DEF Taken
  <1>6. Root(e, d) = Root(c, d) /\ Root(c, d) \in Data
    BY <1>1, <1>3 DEF Root
  <1>7. ASSUME NEW t, Goes(e, d, t) PROVE Goes(c, d, t)
    <2> DEFINE r == Root(c, d)
    <2>1. Whole(t) /\ Attempt(e[r]) = "pending" /\ Attempt(t[r]) \in {"pending", "connected", "failed"}
      BY <1>6, <1>7 DEF Goes
    <2>2. \A f \in Data \ {r} : Attempt(t[f]) = Attempt(e[f])
      BY <1>6, <1>7 DEF Goes
    <2>3. r \in Data
      BY <1>6
    <2> HIDE DEF r
    <2>4. Attempt(c[r]) = "pending" /\ \A f \in Data \ {r} : Attempt(t[f]) = Attempt(c[f])
      BY <1>2, <2>1, <2>2, <2>3
    <2> QED BY <2>1, <2>4 DEF Goes, r
  <1> QED BY <1>1, <1>5, <1>7 DEF e

\* closed takes the socket and the input handler away.
LEMMA Closed ==
    ASSUME NEW c, NEW d \in Data, Taken(c, d), c[d].query_data = "none", ~c[d].clean
    PROVE  /\ InHand(closed(c, d), d, FALSE)
           /\ closed(c, d)[d].hosts = c[d].hosts
           /\ \A t : Goes(closed(c, d), d, t) => Goes(c, d, t)
  <1> DEFINE x == [c[d] EXCEPT !.child = NULL, !.inpa = "none", !.read_cb = "none", !.fd = FALSE]
             e == [c EXCEPT ![d] = x]
  <1>1. closed(c, d) = e
    BY DEF closed, Taken, Table
  <1>2. x \in ConnectData /\ x.live /\ x.answer = "none" /\ x.child = NULL
        /\ x.data = c[d].data /\ x.handle = c[d].handle /\ x.hosts = c[d].hosts
        /\ x.query_data = "none" /\ x.inpa = "none" /\ ~x.clean /\ ~x.fd
    <2>1. c[d] \in ConnectData
      BY DEF Taken
    <2>2. x \in ConnectData
      BY <2>1, ZenonT(60) DEF ConnectData
    <2> QED BY <2>1, <2>2 DEF Taken, ConnectData
  <1> HIDE DEF x
  <1>3. Taken(e, d) /\ e[d] = x /\ \A t : Goes(e, d, t) => Goes(c, d, t)
    BY <1>2, Touch
  <1> HIDE DEF e
  <1> QED BY <1>1, <1>2, <1>3 DEF InHand

\* What destroy leaves of a struct without a socket.
Remains(a) ==
    [live |-> FALSE, answer |-> a, handle |-> NULL, hosts |-> 0, fd |-> FALSE,
     query_data |-> "none", clean |-> FALSE, inpa |-> "none", read_cb |-> "none",
     child |-> NULL, data |-> NULL]

\* It is free.
LEMMA RemainsFree ==
    ASSUME NEW a \in {"unused", "connected", "failed", "cancelled"}
    PROVE  Remains(a) \in ConnectData /\ Free(Remains(a)) /\ Remains(a).answer = a
  <1>1. 0 \in 0..MaxHosts
    BY HostsAssumption
  <1>2. Remains(a) \in ConnectData
    BY <1>1 DEF Remains, ConnectData
  <1>3. Free(Remains(a)) /\ Remains(a).answer = a
    BY DEF Remains, Free
  <1> QED BY <1>2, <1>3

\* A struct that was never used is left the same way.
LEMMA UnusedStruct == Unused = Remains("unused")
  <1> DEFINE f == [live |-> TRUE, answer |-> "none", handle |-> NULL, hosts |-> 0, fd |-> FALSE,
                   query_data |-> "none", clean |-> FALSE, inpa |-> "none", read_cb |-> "none",
                   child |-> NULL, data |-> NULL]
  <1>1. Fresh(NULL, NULL, "none") = f
    BY Zenon DEF Fresh
  <1>2. Unused = [f EXCEPT !.live = FALSE, !.answer = "unused"]
    <2> HIDE DEF f
    <2> QED BY <1>1 DEF Unused
  <1> QED BY <1>2 DEF Remains

\* destroy leaves just that.
LEMMA Destroyed ==
    ASSUME NEW c, NEW d, c[d].live, c[d].fd = FALSE, c[d].clean = FALSE
    PROVE  /\ c[d].data = NULL => destroy(c, d) = [c EXCEPT ![d] = Remains(c[d].answer)]
           /\ c[d].data # NULL => destroy(c, d) = [c EXCEPT ![d] = Remains("unused")]
  <1>0. SUFFICES ASSUME NEW a, a = IF c[d].data = NULL THEN c[d].answer ELSE "unused"
                 PROVE  destroy(c, d) = [c EXCEPT ![d] = Remains(a)]
    OBVIOUS
  <1> DEFINE x == [Unused EXCEPT !.answer = a, !.fd = c[d].fd, !.clean = c[d].clean]
  <1>1. destroy(c, d) = [c EXCEPT ![d] = x]
    BY <1>0 DEF destroy
  <1>2. x = Remains(a)
    <2>1. Unused = Remains("unused")
      BY UnusedStruct
    <2>2. x = [Remains("unused") EXCEPT !.answer = a, !.fd = FALSE, !.clean = FALSE]
      BY <2>1
    <2> HIDE DEF x
    <2> QED BY <2>2 DEF Remains
  <1> HIDE DEF x
  <1> QED BY <1>1, <1>2

\* An attempt that is lost.
LEMMA Lost ==
    ASSUME NEW c, NEW d \in Data, InHand(c, d, FALSE)
    PROVE  Goes(c, d, lost(c, d))
  <1> DEFINE t == lost(c, d)
  <1>0. c[d] \in ConnectData /\ c[d].live = TRUE /\ c[d].fd = FALSE /\ c[d].clean = FALSE
    BY DEF Taken, InHand, ConnectData
  <1>1. CASE c[d].data = NULL
    <2> DEFINE e == [c EXCEPT ![d].answer = "failed"]
    <2>1. e[d].live /\ e[d].fd = FALSE /\ e[d].clean = FALSE /\ e[d].data = NULL
          /\ e[d].answer = "failed" /\ Table(e) /\ \A f \in Data \ {d} : e[f] = c[f]
      BY <1>0, <1>1 DEF Taken, InHand, Table, ConnectData
    <2>2. t = destroy(e, d)
      BY <1>1 DEF lost
    <2> HIDE DEF e, t
    <2>3. t = [e EXCEPT ![d] = Remains("failed")]
      <3>1. t = [e EXCEPT ![d] = Remains(e[d].answer)]
        BY <2>1, <2>2, Destroyed
      <3> QED BY <2>1, <3>1, Zenon
    <2>4. Table(t) /\ t[d] = Remains("failed") /\ \A f \in Data \ {d} : t[f] = c[f]
      BY <2>1, <2>3 DEF Table
    <2>5. Remains("failed") \in ConnectData /\ Free(Remains("failed"))
          /\ Remains("failed").answer = "failed"
      BY RemainsFree
    <2> QED BY <1>1, <2>4, <2>5, Ends DEF t
  <1>2. CASE c[d].data # NULL
    <2> DEFINE p == c[d].data
               y == [c[p] EXCEPT !.child = NULL, !.answer = "failed"]
               e == [c EXCEPT ![p].child = NULL, ![p].answer = "failed"]
               f == [e EXCEPT ![d].answer = "failed"]
    <2>1. p \in Data /\ p # d /\ c[p] \in ConnectData /\ Waiting(c[p]) /\ c[p].data = NULL
          /\ c[p].query_data = "none" /\ c[p].inpa = "none" /\ ~c[p].clean /\ ~c[p].fd
      BY <1>2, ParentWaits
    <2>2. c[p].live
      BY <2>1 DEF Waiting
    <2>3. t = destroy(f, d)
      BY <1>2, <2>2 DEF lost
    <2>4. y \in ConnectData /\ Stranded(y) /\ y.child = NULL /\ y.data = NULL
      BY <2>1, <2>2 DEF Stranded, ConnectData
    <2>5. Table(f) /\ f[p] = y /\ (\A g \in Data \ {d, p} : f[g] = c[g])
          /\ f[d] = [c[d] EXCEPT !.answer = "failed"]
      <3> HIDE DEF p
      <3>1. Table(e) /\ e[p] = y /\ e[d] = c[d] /\ \A g \in Data \ {d, p} : e[g] = c[g]
        BY <2>1 DEF Taken, InHand, Table
      <3> HIDE DEF e, y
      <3>2. Table(f) /\ f[d] = [c[d] EXCEPT !.answer = "failed"]
            /\ \A g \in Data \ {d} : f[g] = e[g]
        BY <3>1 DEF Table
      <3> QED BY <2>1, <3>1, <3>2
    <2>6. f[d].live /\ f[d].fd = FALSE /\ f[d].clean = FALSE /\ f[d].data # NULL
      <3> HIDE DEF f
      <3> QED BY <1>0, <1>2, <2>5 DEF ConnectData
    <2> HIDE DEF f, t, y
    <2>7. t = [f EXCEPT ![d] = Remains("unused")]
      BY <2>3, <2>6, Destroyed
    <2>8. Table(t) /\ t[d] = Remains("unused") /\ t[p] = y /\ \A g \in Data \ {d, p} : t[g] = c[g]
      <3> HIDE DEF p
      <3> QED BY <2>1, <2>5, <2>7 DEF Table
    <2>9. Remains("unused") \in ConnectData /\ Free(Remains("unused"))
          /\ Remains("unused").answer = "unused"
      BY RemainsFree
    <2> QED BY <1>2, <2>4, <2>8, <2>9, EndsInParent DEF t
  <1> QED BY <1>1, <1>2

\* A message is under way.
LEMMA Asked ==
    ASSUME NEW c, NEW d \in Data, InHand(c, d, TRUE), NEW reader \in Reading,
           NEW t \in asked(c, d, reader)
    PROVE  Goes(c, d, t)
  <1> DEFINE x == [c[d] EXCEPT !.inpa = "proxy_do_write", !.read_cb = reader]
             y == [c[d] EXCEPT !.inpa = reader]
  <1>1. c[d] \in ConnectData /\ c[d].live /\ c[d].fd /\ ~c[d].clean /\ c[d].child = NULL
        /\ c[d].answer = "none" /\ c[d].query_data = "none" /\ c[d].inpa = "none"
    BY DEF Taken, InHand
  <1>2. reader # "none" /\ reader # "proxy_do_write"
    BY DEF Reading
  <1>3. x \in ConnectData /\ Waiting(x) /\ x.child = NULL /\ x.data = c[d].data
        /\ x.handle = c[d].handle
    BY <1>1, <1>2 DEF ConnectData, Waiting
  <1>4. y \in ConnectData /\ Waiting(y) /\ y.child = NULL /\ y.data = c[d].data
        /\ y.handle = c[d].handle
    BY <1>1, <1>2 DEF ConnectData, Waiting
  <1>5. t = [c EXCEPT ![d] = x] \/ t = [c EXCEPT ![d] = y]
    BY DEF asked, Taken, InHand, Table
  <1> HIDE DEF x, y
  <1>6. Table(t) /\ (t[d] = x \/ t[d] = y) /\ \A e \in Data \ {d} : t[e] = c[e]
    BY <1>5 DEF Taken, InHand, Table
  <1> QED BY <1>3, <1>4, <1>6, GoesOn

\* The tables c and t differ at d only.
SameBut(c, d, t) == \A e \in Data \ {d} : t[e] = c[e]

\* disconnect and destroy leave the same of any struct without a child.
LEMMA Dropped ==
    ASSUME NEW c, NEW d \in Data, Table(c), c[d] \in ConnectData, c[d].live, c[d].child = NULL,
           c[d].clean = FALSE, NEW t, t = destroy(disconnect(c, d), d)
    PROVE  /\ Table(t)
           /\ SameBut(c, d, t)
           /\ c[d].data = NULL => t[d] = Remains(c[d].answer)
           /\ c[d].data # NULL => t[d] = Remains("unused")
  <1> DEFINE x == [c[d] EXCEPT !.child = NULL, !.inpa = "none", !.read_cb = "none", !.fd = FALSE]
             e == [c EXCEPT ![d] = x]
  <1>1. closed(c, d) = e
    BY DEF closed, Table
  <1>2. disconnect(c, d) = e
    BY <1>1 DEF disconnect
  <1>3. x.live /\ x.fd = FALSE /\ x.clean = FALSE /\ x.data = c[d].data /\ x.answer = c[d].answer
    BY DEF ConnectData
  <1> HIDE DEF x
  <1>4. Table(e) /\ e[d] = x /\ \A f \in Data \ {d} : e[f] = c[f]
    BY DEF Table
  <1> HIDE DEF e
  <1>5. /\ e[d].data = NULL => t = [e EXCEPT ![d] = Remains(e[d].answer)]
        /\ e[d].data # NULL => t = [e EXCEPT ![d] = Remains("unused")]
    <2>1. e[d].live /\ e[d].fd = FALSE /\ e[d].clean = FALSE /\ t = destroy(e, d)
      BY <1>2, <1>3, <1>4
    <2> QED BY <2>1, Destroyed, Zenon
  <1>6. CASE c[d].data = NULL
    <2>1. t = [e EXCEPT ![d] = Remains(c[d].answer)]
      BY <1>3, <1>4, <1>5, <1>6
    <2>2. Table(t) /\ t[d] = Remains(c[d].answer) /\ \A f \in Data \ {d} : t[f] = c[f]
      BY <1>4, <2>1 DEF Table
    <2> QED BY <1>6, <2>2 DEF SameBut
  <1>7. CASE c[d].data # NULL
    <2>1. t = [e EXCEPT ![d] = Remains("unused")]
      BY <1>3, <1>4, <1>5, <1>7
    <2>2. Table(t) /\ t[d] = Remains("unused") /\ \A f \in Data \ {d} : t[f] = c[f]
      BY <1>4, <2>1 DEF Table
    <2> QED BY <1>7, <2>2 DEF SameBut
  <1> QED BY <1>6, <1>7

\* A struct without a parent keeps the answer it was given.
LEMMA DroppedAlone ==
    ASSUME NEW c, NEW d \in Data, Table(c), c[d] \in ConnectData, c[d].live, c[d].child = NULL,
           c[d].clean = FALSE, c[d].data = NULL
    PROVE  destroy(disconnect(c, d), d)[d] = Remains(c[d].answer)
  <1> DEFINE t == destroy(disconnect(c, d), d)
  <1>1. t = destroy(disconnect(c, d), d)
    OBVIOUS
  <1> HIDE DEF t
  <1>2. t[d] = Remains(c[d].answer)
    BY <1>1, Dropped, ZenonT(60)
  <1> QED BY <1>1, <1>2

\* The SOCKS5 attempt p, whose child d has its socket, goes on or is freed.
LEMMA ParentGreets ==
    ASSUME NEW e, NEW p \in Data, Table(e), e[p] \in ConnectData, Waiting(e[p]),
           e[p].query_data = "none", e[p].inpa = "none", ~e[p].clean, e[p].data = NULL,
           NEW r \in socks5_connected_to_proxy(e, p)
    PROVE  /\ Table(r)
           /\ \A f \in Data \ {p} : r[f] = e[f]
           /\ r[p] \in ConnectData /\ r[p].child = NULL /\ r[p].data = NULL
           /\ Waiting(r[p]) \/ (Free(r[p]) /\ r[p].answer = "failed")
  <1> DEFINE y == [e[p] EXCEPT !.child = NULL, !.fd = TRUE]
             g == [e EXCEPT ![p].child = NULL, ![p].fd = TRUE]
  <1>1. Table(g) /\ g[p] = y /\ \A f \in Data \ {p} : g[f] = e[f]
    BY DEF Table
  <1>2. /\ y \in ConnectData /\ y.live = TRUE /\ y.answer = "none" /\ y.query_data = "none"
        /\ y.inpa = "none" /\ y.clean = FALSE /\ y.child = NULL /\ y.fd = TRUE /\ y.data = NULL
    BY DEF ConnectData, Waiting
  <1>3. r \in asked(g, p, "s5_canread") \/ r = lost(closed(g, p), p)
    BY DEF socks5_connected_to_proxy, Waiting
  <1> HIDE DEF y, g
  <1>4. CASE r \in asked(g, p, "s5_canread")
    <2> DEFINE u == [y EXCEPT !.inpa = "proxy_do_write", !.read_cb = "s5_canread"]
               v == [y EXCEPT !.inpa = "s5_canread"]
    <2>1. r = [g EXCEPT ![p] = u] \/ r = [g EXCEPT ![p] = v]
      BY <1>1, <1>4 DEF asked, Table
    <2>2. "s5_canread" \in Reading
      BY DEF Reading
    <2>3. u \in ConnectData /\ Waiting(u) /\ u.child = NULL /\ u.data = NULL
      BY <1>2, <2>2 DEF ConnectData, Waiting
    <2>4. v \in ConnectData /\ Waiting(v) /\ v.child = NULL /\ v.data = NULL
      BY <1>2, <2>2 DEF ConnectData, Waiting
    <2> HIDE DEF u, v
    <2>5. Table(r) /\ (r[p] = u \/ r[p] = v) /\ \A f \in Data \ {p} : r[f] = g[f]
      BY <1>1, <2>1 DEF Table
    <2>6. r[p] \in ConnectData /\ r[p].child = NULL /\ r[p].data = NULL /\ Waiting(r[p])
      <3>1. CASE r[p] = u
        BY <2>3, <3>1
      <3>2. CASE r[p] = v
        BY <2>4, <3>2
      <3> QED BY <2>5, <3>1, <3>2
    <2>7. Table(r) /\ \A f \in Data \ {p} : r[f] = e[f]
      BY <1>1, <2>5
    <2> QED BY <2>6, <2>7
  <1>5. CASE r = lost(closed(g, p), p)
    <2> DEFINE u == [y EXCEPT !.child = NULL, !.inpa = "none", !.read_cb = "none", !.fd = FALSE]
               w == [u EXCEPT !.answer = "failed"]
               h == closed(g, p)
               k == [h EXCEPT ![p].answer = "failed"]
    <2>1. h = [g EXCEPT ![p] = u]
      BY <1>1 DEF closed, Table
    <2>2. /\ w.live /\ w.fd = FALSE /\ w.clean = FALSE /\ w.data = NULL /\ w.answer = "failed"
          /\ u.data = NULL
      BY <1>2 DEF ConnectData
    <2> HIDE DEF u, h
    <2>3. Table(h) /\ h[p] = u /\ \A f \in Data \ {p} : h[f] = g[f]
      BY <1>1, <2>1 DEF Table
    <2>4. Table(k) /\ k[p] = w /\ \A f \in Data \ {p} : k[f] = g[f]
      BY <2>3 DEF Table
    <2>5. r = destroy(k, p)
      BY <1>5, <2>2, <2>3 DEF lost, h
    <2> HIDE DEF k, w
    <2>6. r = [k EXCEPT ![p] = Remains("failed")]
      <3>1. k[p].live /\ k[p].fd = FALSE /\ k[p].clean = FALSE /\ k[p].data = NULL
            /\ k[p].answer = "failed"
        BY <2>2, <2>4
      <3>2. r = [k EXCEPT ![p] = Remains(k[p].answer)]
        BY <2>5, <3>1, Destroyed
      <3> QED BY <3>1, <3>2, Zenon
    <2>7. Table(r) /\ r[p] = Remains("failed") /\ \A f \in Data \ {p} : r[f] = g[f]
      BY <2>4, <2>6 DEF Table
    <2>8. Remains("failed") \in ConnectData /\ Free(Remains("failed"))
          /\ Remains("failed").answer = "failed"
      BY RemainsFree
    <2> QED BY <1>1, <2>7, <2>8 DEF Free
  <1> QED BY <1>3, <1>4, <1>5

\* An attempt that is connected.
LEMMA Connected ==
    ASSUME NEW c, NEW d \in Data, InHand(c, d, TRUE), NEW t \in connected(c, d)
    PROVE  Goes(c, d, t)
  <1> DEFINE e == [c EXCEPT ![d].answer = "connected", ![d].fd = FALSE]
             x == [c[d] EXCEPT !.answer = "connected", !.fd = FALSE]
  <1>1. Table(e) /\ e[d] = x /\ \A f \in Data \ {d} : e[f] = c[f]
    BY DEF Taken, InHand, Table
  <1>2. /\ x \in ConnectData /\ x.live /\ x.child = NULL /\ x.clean = FALSE
        /\ x.data = c[d].data /\ x.answer = "connected"
    BY DEF Taken, InHand, ConnectData
  <1>3. PICK r \in (IF c[d].data = NULL THEN {e} ELSE socks5_connected_to_proxy(e, c[d].data)) :
             t = destroy(disconnect(r, d), d)
    BY DEF connected
  <1> HIDE DEF e, x
  <1>4. CASE c[d].data = NULL
    <2>1. t = destroy(disconnect(e, d), d)
      BY <1>3, <1>4
    <2>2. Table(t) /\ t[d] = Remains("connected") /\ \A f \in Data \ {d} : t[f] = e[f]
      <3>1. Table(e) /\ e[d] = x
        BY <1>1
      <3>2. e[d] \in ConnectData /\ e[d].live /\ e[d].child = NULL /\ e[d].clean = FALSE
            /\ e[d].data = NULL /\ e[d].answer = "connected"
        BY <1>2, <1>4, <3>1
      <3>3. t = destroy(disconnect(e, d), d) /\ Table(e) /\ d \in Data
        BY <2>1, <3>1
      <3>4. Table(t)
        BY <3>2, <3>3, Dropped, Zenon
      <3>5. t[d] = Remains(e[d].answer)
        <4>1. /\ e[d] \in ConnectData /\ e[d].live /\ e[d].child = NULL /\ e[d].clean = FALSE
              /\ e[d].data = NULL /\ Table(e)
          BY <3>2, <3>3
        <4>2. t = destroy(disconnect(e, d), d)
          BY <3>3
        <4> QED BY <4>1, <4>2, DroppedAlone
      <3>6. SameBut(e, d, t)
        BY <3>2, <3>3, Dropped, Zenon
      <3> QED BY <3>2, <3>4, <3>5, <3>6, Zenon DEF SameBut
    <2>3. Remains("connected") \in ConnectData /\ Free(Remains("connected"))
          /\ Remains("connected").answer = "connected"
      BY RemainsFree
    <2> QED BY <1>1, <1>4, <2>2, <2>3, Ends
  <1>5. CASE c[d].data # NULL
    <2> DEFINE p == c[d].data
    <2>1. p \in Data /\ p # d /\ c[p] \in ConnectData /\ Waiting(c[p]) /\ c[p].data = NULL
          /\ c[p].query_data = "none" /\ c[p].inpa = "none" /\ ~c[p].clean
      BY <1>5, ParentWaits
    <2>2. r \in socks5_connected_to_proxy(e, p)
      BY <1>3, <1>5
    <2>3. e[p] = c[p]
      BY <1>1, <2>1
    <2> HIDE DEF p
    <2>4. /\ Table(r)
          /\ \A f \in Data \ {p} : r[f] = e[f]
          /\ r[p] \in ConnectData /\ r[p].child = NULL /\ r[p].data = NULL
          /\ Waiting(r[p]) \/ (Free(r[p]) /\ r[p].answer = "failed")
      BY <1>1, <2>1, <2>2, <2>3, ParentGreets
    <2>5. r[d] = x
      BY <1>1, <2>1, <2>4
    <2>6. x.data # NULL
      BY <1>2, <1>5
    <2>7. Table(t) /\ t[d] = Remains("unused") /\ \A f \in Data \ {d} : t[f] = r[f]
      <3>1. t = destroy(disconnect(r, d), d) /\ Table(r) /\ r[d] = x
        BY <1>3, <2>4, <2>5
      <3>2. r[d] \in ConnectData /\ r[d].live /\ r[d].child = NULL /\ r[d].clean = FALSE
            /\ r[d].data # NULL
        BY <1>2, <2>6, <3>1
      <3>3. t = destroy(disconnect(r, d), d) /\ Table(r) /\ d \in Data
        BY <3>1
      <3>4. Table(t)
        BY <3>2, <3>3, Dropped, Zenon
      <3>5. t[d] = Remains("unused")
        BY <3>2, <3>3, Dropped
      <3>6. SameBut(r, d, t)
        BY <3>2, <3>3, Dropped, Zenon
      <3> QED BY <3>4, <3>5, <3>6, Zenon DEF SameBut
    <2>8. t[p] = r[p] /\ \A f \in Data \ {d, p} : t[f] = c[f]
      BY <1>1, <2>1, <2>4, <2>7
    <2>9. Remains("unused") \in ConnectData /\ Free(Remains("unused"))
          /\ Remains("unused").answer = "unused"
      BY RemainsFree
    <2> QED BY <1>5, <2>4, <2>7, <2>8, <2>9, EndsInParent DEF p
  <1> QED BY <1>4, <1>5

\* What follows a connect() that succeeded.
LEMMA Established ==
    ASSUME NEW c, NEW d \in Data, InHand(c, d, TRUE), "blank_host" \notin Events,
           NEW cb \in Connecting, NEW t \in established(c, d, cb)
    PROVE  Goes(c, d, t)
  <1>1. "http_canread" \in Reading /\ "s4_canread" \in Reading /\ "s5_canread" \in Reading
    BY DEF Reading
  <1>2. CASE t \in connected(c, d)
    BY <1>2, Connected
  <1>3. ASSUME NEW reader \in Reading, t \in asked(c, d, reader) PROVE Goes(c, d, t)
    BY <1>3, Asked
  <1>4. CASE t = [c EXCEPT ![d].query_data = "socks4"]
    <2> DEFINE x == [c[d] EXCEPT !.query_data = "socks4"]
    <2>1. x \in ConnectData /\ Waiting(x) /\ x.child = NULL /\ x.data = c[d].data
          /\ x.handle = c[d].handle
      BY DEF Taken, InHand, ConnectData, Waiting
    <2>2. t = [c EXCEPT ![d] = x]
      BY <1>4 DEF Taken, InHand, Table
    <2> HIDE DEF x
    <2>3. Table(t) /\ t[d] = x /\ \A e \in Data \ {d} : t[e] = c[e]
      BY <2>2 DEF Taken, InHand, Table
    <2> QED BY <2>1, <2>3, GoesOn
  <1>5. cb = "socket_ready_cb" => t \in connected(c, d)
    BY DEF established
  <1>6. cb = "http_canwrite" => t \in connected(c, d) \/ t \in asked(c, d, "http_canread")
    BY DEF established, http_tunnel
  <1>7. cb = "s4_canwrite" => \/ t \in asked(c, d, "s4_canread")
                              \/ t = [c EXCEPT ![d].query_data = "socks4"]
    BY DEF established, s4_request
  <1>8. cb = "s5_canwrite" => t \in asked(c, d, "s5_canread")
    BY DEF established, s5_greet
  <1> QED BY <1>1, <1>2, <1>3, <1>4, <1>5, <1>6, <1>7, <1>8 DEF Connecting

\* One address whose socket could be made.
LEMMA ProxyConnects ==
    ASSUME NEW c, NEW d \in Data, InHand(c, d, TRUE), "blank_host" \notin Events,
           NEW t \in proxy_connect(c, d)
    PROVE  Goes(c, d, t)
  <1>0. c[d] \in ConnectData /\ c[d].live /\ c[d].answer = "none" /\ c[d].child = NULL
        /\ c[d].query_data = "none" /\ c[d].inpa = "none" /\ ~c[d].clean /\ c[d].fd
    BY DEF Taken, InHand
  <1>1. ASSUME NEW x \in ConnectData, Waiting(x), x.child = NULL, x.data = c[d].data,
               x.handle = c[d].handle, t = [c EXCEPT ![d] = x]
        PROVE  Goes(c, d, t)
    <2>1. Table(t) /\ t[d] = x /\ \A e \in Data \ {d} : t[e] = c[e]
      BY <1>1 DEF Taken, InHand, Table
    <2> QED BY <1>1, <2>1, GoesOn
  <1>2. ASSUME NEW cb \in Connecting, t = [c EXCEPT ![d].inpa = cb] PROVE Goes(c, d, t)
    <2> DEFINE x == [c[d] EXCEPT !.inpa = cb]
    <2>1. cb # "none" /\ cb # "proxy_do_write"
      BY DEF Connecting
    <2>2. x \in ConnectData /\ Waiting(x) /\ x.child = NULL /\ x.data = c[d].data
          /\ x.handle = c[d].handle
      BY <1>0, <2>1 DEF ConnectData, Waiting
    <2>3. t = [c EXCEPT ![d] = x]
      BY <1>2 DEF Taken, InHand, Table
    <2> HIDE DEF x
    <2> QED BY <1>1, <2>2, <2>3
  <1>3. CASE t = [c EXCEPT ![d].clean = TRUE]
    <2> DEFINE x == [c[d] EXCEPT !.clean = TRUE]
    <2>1. x \in ConnectData /\ Waiting(x) /\ x.child = NULL /\ x.data = c[d].data
          /\ x.handle = c[d].handle
      BY <1>0 DEF ConnectData, Waiting
    <2>2. t = [c EXCEPT ![d] = x]
      BY <1>3 DEF Taken, InHand, Table
    <2> HIDE DEF x
    <2> QED BY <1>1, <2>1, <2>2
  <1>4. ASSUME NEW cb \in Connecting, t \in established(c, d, cb) PROVE Goes(c, d, t)
    BY <1>4, Established
  <1>5. \/ \E cb \in Connecting : t = [c EXCEPT ![d].inpa = cb]
        \/ t = [c EXCEPT ![d].clean = TRUE]
        \/ \E cb \in Connecting \ {"socket_ready_cb"} : t \in established(c, d, cb)
    BY DEF proxy_connect
  <1> QED BY <1>2, <1>3, <1>4, <1>5

\* The next address, if there is one.
LEMMA TriesOn ==
    ASSUME NEW c, NEW d \in Data, InHand(c, d, FALSE), "blank_host" \notin Events,
           NEW t \in try_connect(c, d)
    PROVE  Goes(c, d, t)
  <1>0. /\ Taken(c, d) /\ c[d] \in ConnectData /\ c[d].live /\ c[d].answer = "none"
        /\ c[d].child = NULL /\ c[d].query_data = "none" /\ c[d].inpa = "none" /\ ~c[d].clean
        /\ c[d].fd = FALSE
    BY DEF Taken, InHand, ConnectData
  <1>1. ASSUME NEW rest \in 0..(c[d].hosts - 1),
               t \in proxy_connect([c EXCEPT ![d].hosts = rest, ![d].fd = TRUE], d)
        PROVE  Goes(c, d, t)
    <2> DEFINE x == [c[d] EXCEPT !.hosts = rest, !.fd = TRUE]
               e == [c EXCEPT ![d] = x]
    <2>1. rest \in 0..MaxHosts
      BY <1>0, HostsAssumption DEF ConnectData
    <2>2. /\ x \in ConnectData /\ x.live /\ x.answer = "none" /\ x.child = NULL
          /\ x.data = c[d].data /\ x.handle = c[d].handle
          /\ x.query_data = "none" /\ x.inpa = "none" /\ ~x.clean /\ x.fd
      BY <1>0, <2>1 DEF ConnectData
    <2>3. t \in proxy_connect(e, d)
      BY <1>1 DEF Taken, InHand, Table
    <2> HIDE DEF x
    <2>4. Taken(e, d) /\ e[d] = x /\ \A u : Goes(e, d, u) => Goes(c, d, u)
      BY <1>0, <2>2, Touch
    <2> HIDE DEF e
    <2>5. InHand(e, d, TRUE)
      BY <2>2, <2>4 DEF InHand
    <2> QED BY <2>3, <2>4, <2>5, ProxyConnects
  <1>2. CASE t = lost([c EXCEPT ![d].hosts = 0], d)
    <2> DEFINE x == [c[d] EXCEPT !.hosts = 0]
               e == [c EXCEPT ![d] = x]
    <2>1. /\ x \in ConnectData /\ x.live /\ x.answer = "none" /\ x.child = NULL
          /\ x.data = c[d].data /\ x.handle = c[d].handle
          /\ x.query_data = "none" /\ x.inpa = "none" /\ ~x.clean /\ x.fd = FALSE
      BY <1>0, HostsAssumption DEF ConnectData
    <2>2. t = lost(e, d)
      BY <1>2 DEF Taken, InHand, Table
    <2> HIDE DEF x
    <2>3. Taken(e, d) /\ e[d] = x /\ \A u : Goes(e, d, u) => Goes(c, d, u)
      BY <1>0, <2>1, Touch
    <2> HIDE DEF e
    <2>4. InHand(e, d, FALSE)
      BY <2>1, <2>3 DEF InHand
    <2> QED BY <2>2, <2>3, <2>4, Lost
  <1>3. \/ \E rest \in 0..(c[d].hosts - 1) :
             t \in proxy_connect([c EXCEPT ![d].hosts = rest, ![d].fd = TRUE], d)
        \/ t = lost([c EXCEPT ![d].hosts = 0], d)
    BY DEF try_connect
  <1> QED BY <1>1, <1>2, <1>3

\* An error at one address.
LEMMA Failed ==
    ASSUME NEW c, NEW d \in Data, Taken(c, d), c[d].query_data = "none", ~c[d].clean,
           "blank_host" \notin Events, NEW t \in failed(c, d)
    PROVE  Goes(c, d, t)
  <1> DEFINE e == closed(c, d)
  <1>1. disconnect(c, d) = e
    BY DEF disconnect, Taken
  <1>2. t \in try_connect(e, d) \/ t = lost(e, d)
    BY <1>1 DEF failed
  <1>3. InHand(e, d, FALSE) /\ \A u : Goes(e, d, u) => Goes(c, d, u)
    BY Closed
  <1> HIDE DEF e
  <1>4. Goes(e, d, t)
    BY <1>2, <1>3, TriesOn, Lost
  <1> QED BY <1>3, <1>4

-----------------------------------------------------------------------------
(* The callbacks.                                                          *)

\* An attempt that waits for anything but a child can be taken in hand.
LEMMA CanTake ==
    ASSUME NEW c, NEW d \in Data, Whole(c),
           \/ c[d].query_data # "none"
           \/ c[d].inpa # "none"
           \/ c[d].clean
    PROVE  Taken(c, d) /\ Waiting(c[d])
  <1>1. Table(c) /\ Settled(c[d]) /\ (\A e \in Data \ {d} : Settled(c[e]))
    BY DEF Whole
  <1>2. \A e \in Data : Linked(c, e)
    BY DEF Whole
  <1>3. c[d] \in ConnectData /\ Waiting(c[d])
    BY <1>1 DEF Settled, Stranded, Free
  <1>4. c[d].live /\ c[d].answer = "none" /\ c[d].child = NULL
    BY <1>3 DEF Waiting
  <1> QED BY <1>1, <1>2, <1>3, <1>4 DEF Taken

\* Each callback ends with a whole table.
\* The host name was resolved, or could not be.
LEMMA HostResolved ==
    ASSUME NEW d \in Data, Whole(conn), "blank_host" \notin Events, connection_host_resolved(d)
    PROVE  Goes(conn, d, conn') /\ freedUse' = freedUse
  <1> DEFINE x == [conn[d] EXCEPT !.query_data = "none"]
             c == [conn EXCEPT ![d] = x]
  <1>1. conn[d].query_data = "connect" /\ freedUse' = freedUse
    BY DEF connection_host_resolved
  <1>2. Taken(conn, d) /\ Waiting(conn[d])
    BY <1>1, CanTake
  <1>3. /\ x \in ConnectData /\ x.live /\ x.answer = "none" /\ x.child = NULL
        /\ x.data = conn[d].data /\ x.handle = conn[d].handle
        /\ x.query_data = "none" /\ x.inpa = "none" /\ ~x.clean /\ x.fd = FALSE
    BY <1>1, <1>2 DEF Taken, Waiting, ConnectData
  <1>4. c = [conn EXCEPT ![d].query_data = "none"]
    BY <1>2 DEF Taken, Table
  <1>5. \/ conn' \in failed(c, d)
        \/ \E n \in 1..MaxHosts : conn' \in try_connect([c EXCEPT ![d].hosts = n], d)
    BY <1>4 DEF connection_host_resolved
  <1> HIDE DEF x
  <1>6. c[d] = x /\ InHand(c, d, FALSE) /\ \A t : Goes(c, d, t) => Goes(conn, d, t)
    <2>1. Taken(c, d) /\ c[d] = x /\ \A t : Goes(c, d, t) => Goes(conn, d, t)
      BY <1>2, <1>3, Touch
    <2> HIDE DEF c
    <2> QED BY <1>3, <2>1 DEF InHand
  <1> HIDE DEF c
  <1>7. CASE conn' \in failed(c, d)
    BY <1>1, <1>6, <1>7, Failed DEF InHand
  <1>8. ASSUME NEW n \in 1..MaxHosts, conn' \in try_connect([c EXCEPT ![d].hosts = n], d)
        PROVE  Goes(conn, d, conn')
    <2> DEFINE y == [x EXCEPT !.hosts = n]
               e == [c EXCEPT ![d] = y]
    <2>1. n \in 0..MaxHosts
      BY HostsAssumption
    <2>2. /\ y \in ConnectData /\ y.live /\ y.answer = "none" /\ y.child = NULL
          /\ y.data = x.data /\ y.handle = x.handle
          /\ y.query_data = "none" /\ y.inpa = "none" /\ ~y.clean /\ y.fd = FALSE
      BY <1>3, <2>1 DEF ConnectData
    <2>3. e = [c EXCEPT ![d].hosts = n]
      BY <1>6 DEF InHand, Taken, Table
    <2> HIDE DEF y
    <2>4. InHand(e, d, FALSE) /\ \A t : Goes(e, d, t) => Goes(c, d, t)
      <3>1. Taken(c, d) /\ x.data = c[d].data /\ x.handle = c[d].handle
        BY <1>6 DEF InHand
      <3>2. Taken(e, d) /\ e[d] = y /\ \A t : Goes(e, d, t) => Goes(c, d, t)
        BY <2>2, <3>1, Touch
      <3> HIDE DEF e
      <3> QED BY <2>2, <3>2 DEF InHand
    <2> QED BY <1>6, <1>8, <2>3, <2>4, TriesOn
  <1> QED BY <1>1, <1>5, <1>7, <1>8

\* The name was resolved for a SOCKS4 proxy, or could not be.
LEMMA S4HostResolved ==
    ASSUME NEW d \in Data, Whole(conn), "blank_host" \notin Events, s4_host_resolved(d)
    PROVE  Goes(conn, d, conn') /\ freedUse' = freedUse
  <1> DEFINE x == [conn[d] EXCEPT !.query_data = "none"]
             c == [conn EXCEPT ![d] = x]
  <1>1. conn[d].query_data = "socks4" /\ freedUse' = freedUse
    BY DEF s4_host_resolved
  <1>2. Taken(conn, d) /\ Waiting(conn[d])
    BY <1>1, CanTake
  <1>3. /\ x \in ConnectData /\ x.live /\ x.answer = "none" /\ x.child = NULL
        /\ x.data = conn[d].data /\ x.handle = conn[d].handle
        /\ x.query_data = "none" /\ x.inpa = "none" /\ ~x.clean /\ x.fd = TRUE
    BY <1>1, <1>2 DEF Taken, Waiting, ConnectData
  <1>4. c = [conn EXCEPT ![d].query_data = "none"]
    BY <1>2 DEF Taken, Table
  <1>5. conn' \in asked(c, d, "s4_canread") \/ conn' \in failed(c, d)
    BY <1>4 DEF s4_host_resolved
  <1> HIDE DEF x
  <1>6. c[d] = x /\ InHand(c, d, TRUE) /\ \A t : Goes(c, d, t) => Goes(conn, d, t)
    <2>1. Taken(c, d) /\ c[d] = x /\ \A t : Goes(c, d, t) => Goes(conn, d, t)
      BY <1>2, <1>3, Touch
    <2> HIDE DEF c
    <2> QED BY <1>3, <2>1 DEF InHand
  <1> HIDE DEF c
  <1>7. CASE conn' \in failed(c, d)
    BY <1>1, <1>6, <1>7, Failed DEF InHand
  <1>8. "s4_canread" \in Reading
    BY DEF Reading
  <1>9. CASE conn' \in asked(c, d, "s4_canread")
    BY <1>1, <1>6, <1>8, <1>9, Asked
  <1> QED BY <1>5, <1>7, <1>9

\* A connect() that was under way ended.
LEMMA ConnectDone ==
    ASSUME NEW d \in Data, Whole(conn), "blank_host" \notin Events, connect_done(d)
    PROVE  Goes(conn, d, conn') /\ freedUse' = freedUse
  <1> DEFINE x == [conn[d] EXCEPT !.inpa = "none"]
             c == [conn EXCEPT ![d] = x]
             cb == conn[d].inpa
  <1>1. cb \in Connecting /\ cb # "none" /\ freedUse' = freedUse
    BY DEF connect_done, Connecting
  <1>2. Taken(conn, d) /\ Waiting(conn[d])
    BY <1>1, CanTake
  <1>3. /\ x \in ConnectData /\ x.live /\ x.answer = "none" /\ x.child = NULL
        /\ x.data = conn[d].data /\ x.handle = conn[d].handle
        /\ x.query_data = "none" /\ x.inpa = "none" /\ ~x.clean /\ x.fd = TRUE
    BY <1>1, <1>2 DEF Taken, Waiting, ConnectData
  <1>4. c = [conn EXCEPT ![d].inpa = "none"]
    BY <1>2 DEF Taken, Table
  <1>5. conn' \in established(c, d, cb) \/ conn' \in failed(c, d)
    BY <1>4 DEF connect_done
  <1> HIDE DEF x
  <1>6. c[d] = x /\ InHand(c, d, TRUE) /\ \A t : Goes(c, d, t) => Goes(conn, d, t)
    <2>1. Taken(c, d) /\ c[d] = x /\ \A t : Goes(c, d, t) => Goes(conn, d, t)
      BY <1>2, <1>3, Touch
    <2> HIDE DEF c
    <2> QED BY <1>3, <2>1 DEF InHand
  <1> HIDE DEF c
  <1>7. CASE conn' \in failed(c, d)
    BY <1>1, <1>6, <1>7, Failed DEF InHand
  <1>8. CASE conn' \in established(c, d, cb)
    <2> HIDE DEF cb
    <2> QED BY <1>1, <1>6, <1>8, Established
  <1> QED BY <1>5, <1>7, <1>8

\* More of a message was written.
LEMMA DoWrite ==
    ASSUME NEW d \in Data, Whole(conn), "blank_host" \notin Events, proxy_do_write(d)
    PROVE  Goes(conn, d, conn') /\ freedUse' = freedUse
  <1> DEFINE x == [conn[d] EXCEPT !.inpa = "none"]
             c == [conn EXCEPT ![d] = x]
             y == [conn[d] EXCEPT !.inpa = conn[d].read_cb, !.read_cb = "none"]
  <1>1. conn[d].inpa = "proxy_do_write" /\ freedUse' = freedUse
    BY DEF proxy_do_write
  <1>2. Taken(conn, d) /\ Waiting(conn[d])
    BY <1>1, CanTake
  <1>3. /\ conn[d].query_data = "none" /\ ~conn[d].clean /\ conn[d].fd
        /\ conn[d].read_cb \in Reading
    BY <1>1, <1>2 DEF Waiting
  <1>4. CASE conn' \in failed(conn, d)
    BY <1>1, <1>2, <1>3, <1>4, Failed
  <1>5. CASE conn' = [conn EXCEPT ![d].inpa = conn[d].read_cb, ![d].read_cb = "none"]
    <2>1. /\ x \in ConnectData /\ x.live /\ x.answer = "none" /\ x.child = NULL
          /\ x.data = conn[d].data /\ x.handle = conn[d].handle
          /\ x.query_data = "none" /\ x.inpa = "none" /\ ~x.clean /\ x.fd = TRUE
      BY <1>1, <1>2, <1>3 DEF Taken, Waiting, ConnectData
    <2>2. conn[d].read_cb # "none" /\ conn[d].read_cb # "proxy_do_write"
      BY <1>3 DEF Reading
    <2>3. /\ y \in ConnectData /\ Waiting(y) /\ y.child = NULL
          /\ y.data = conn[d].data /\ y.handle = conn[d].handle
      BY <1>1, <1>2, <1>3, <2>2 DEF Taken, Waiting, ConnectData
    <2>4. conn' = [conn EXCEPT ![d] = y]
      BY <1>2, <1>5 DEF Taken, Table
    <2> HIDE DEF x, y
    <2>5. c[d] = x /\ InHand(c, d, TRUE) /\ \A t : Goes(c, d, t) => Goes(conn, d, t)
      <3>1. Taken(c, d) /\ c[d] = x /\ \A t : Goes(c, d, t) => Goes(conn, d, t)
        BY <1>2, <2>1, Touch
      <3> HIDE DEF c
      <3> QED BY <2>1, <3>1 DEF InHand
    <2>6. Table(conn') /\ conn'[d] = y /\ \A e \in Data \ {d} : conn'[e] = c[e]
      BY <1>2, <2>4 DEF Taken, Table
    <2> HIDE DEF c
    <2>7. Goes(c, d, conn')
      BY <2>1, <2>3, <2>5, <2>6, GoesOn
    <2> QED BY <1>1, <2>5, <2>7
  <1> QED BY <1>4, <1>5 DEF proxy_do_write

\* The proxy answered.
LEMMA CanRead ==
    ASSUME NEW d \in Data, Whole(conn), "blank_host" \notin Events, canread(d)
    PROVE  Goes(conn, d, conn') /\ freedUse' = freedUse
  <1> DEFINE x == [conn[d] EXCEPT !.inpa = "none"]
             c == [conn EXCEPT ![d] = x]
  <1>1. conn[d].inpa \in Reading /\ conn[d].inpa # "none" /\ freedUse' = freedUse
    BY DEF canread, Reading
  <1>2. Taken(conn, d) /\ Waiting(conn[d])
    BY <1>1, CanTake
  <1>3. /\ x \in ConnectData /\ x.live /\ x.answer = "none" /\ x.child = NULL
        /\ x.data = conn[d].data /\ x.handle = conn[d].handle
        /\ x.query_data = "none" /\ x.inpa = "none" /\ ~x.clean /\ x.fd = TRUE
    BY <1>1, <1>2 DEF Taken, Waiting, ConnectData
  <1>4. c = [conn EXCEPT ![d].inpa = "none"]
    BY <1>2 DEF Taken, Table
  <1>5. \/ conn' \in failed(c, d)
        \/ conn' \in connected(c, d)
        \/ \E next \in NextReaders(conn[d].inpa) : conn' \in asked(c, d, next)
    BY <1>4 DEF canread
  <1>6. NextReaders(conn[d].inpa) \subseteq Reading
    BY <1>1 DEF NextReaders, Reading
  <1> HIDE DEF x
  <1>7. c[d] = x /\ InHand(c, d, TRUE) /\ \A t : Goes(c, d, t) => Goes(conn, d, t)
    <2>1. Taken(c, d) /\ c[d] = x /\ \A t : Goes(c, d, t) => Goes(conn, d, t)
      BY <1>2, <1>3, Touch
    <2> HIDE DEF c
    <2> QED BY <1>3, <2>1 DEF InHand
  <1> HIDE DEF c
  <1>8. CASE conn' \in failed(c, d)
    BY <1>1, <1>7, <1>8, Failed DEF InHand
  <1>9. CASE conn' \in connected(c, d)
    BY <1>1, <1>7, <1>9, Connected
  <1>10. ASSUME NEW next \in Reading, conn' \in asked(c, d, next)
         PROVE  Goes(conn, d, conn')
    BY <1>7, <1>10, Asked
  <1> QED BY <1>1, <1>5, <1>6, <1>8, <1>9, <1>10

\* The timer of a connect() that succeeded at once ran out.
LEMMA CleanConnect ==
    ASSUME NEW d \in Data, Whole(conn), clean_connect(d)
    PROVE  Goes(conn, d, conn') /\ freedUse' = freedUse
  <1> DEFINE x == [conn[d] EXCEPT !.clean = FALSE]
             c == [conn EXCEPT ![d] = x]
  <1>1. conn[d].clean
    BY DEF clean_connect
  <1>2. Taken(conn, d) /\ Waiting(conn[d])
    BY <1>1, CanTake
  <1>3. /\ x \in ConnectData /\ x.live /\ x.answer = "none" /\ x.child = NULL
        /\ x.data = conn[d].data /\ x.handle = conn[d].handle
        /\ x.query_data = "none" /\ x.inpa = "none" /\ ~x.clean /\ x.fd = TRUE
        /\ conn[d].live /\ conn[d].fd
    BY <1>1, <1>2 DEF Taken, Waiting, ConnectData
  <1>4. c = [conn EXCEPT ![d].clean = FALSE]
    BY <1>2 DEF Taken, Table
  <1>5. conn' \in connected(c, d) /\ freedUse' = freedUse
    BY <1>3, <1>4 DEF clean_connect
  <1> HIDE DEF x
  <1>6. c[d] = x /\ InHand(c, d, TRUE) /\ \A t : Goes(c, d, t) => Goes(conn, d, t)
    <2>1. Taken(c, d) /\ c[d] = x /\ \A t : Goes(c, d, t) => Goes(conn, d, t)
      BY <1>2, <1>3, Touch
    <2> HIDE DEF c
    <2> QED BY <1>3, <2>1 DEF InHand
  <1> HIDE DEF c
  <1> QED BY <1>5, <1>6, Connected

-----------------------------------------------------------------------------
(* The calls of the library's users.                                       *)

\* The structs in S are freed and nobody else points to them.
LEMMA SetFreed ==
    ASSUME NEW c, Whole(c), NEW S, S \subseteq Data, NEW t, Table(t),
           \A e \in S : t[e] \in ConnectData /\ Free(t[e]),
           \A e \in Data \ S : t[e] = c[e] /\ c[e].child \notin S /\ c[e].data \notin S
    PROVE  Whole(t)
  <1>1. \A e \in Data : Settled(c[e]) /\ Linked(c, e)
    BY DEF Whole
  <1>2. \A e \in Data : Settled(t[e])
    BY <1>1 DEF Settled
  <1>3. ASSUME NEW e \in S PROVE Linked(t, e)
    <2>1. t[e].child = NULL /\ t[e].data = NULL
      BY <1>3 DEF Free
    <2> QED BY <2>1 DEF Linked
  <1>4. ASSUME NEW e \in Data \ S PROVE Linked(t, e)
    <2> DEFINE E == Data \ S
    <2>1. \A f \in E : t[f] = c[f]
      OBVIOUS
    <2>2. c[e].child \in E \cup {NULL} /\ c[e].data \in E \cup {NULL}
      BY <1>1 DEF Settled, ConnectData
    <2>3. e \in E /\ E \subseteq Data /\ Linked(c, e)
      BY <1>1
    <2> HIDE DEF E
    <2> QED BY <2>1, <2>2, <2>3, NullAssumption, SameElsewhere
  <1> QED BY <1>2, <1>3, <1>4 DEF Whole

\* A struct without a child and a parent is nobody's.
LEMMA Nobodys ==
    ASSUME NEW c, Whole(c), NEW d \in Data, c[d].child = NULL, c[d].data = NULL, NEW e \in Data
    PROVE  c[e].child # d /\ c[e].data # d
  <1>1. Linked(c, e)
    BY DEF Whole
  <1> QED BY <1>1, NullAssumption, PointedBack

\* What may become of the table c when a user starts an attempt with d, and
\* when attempts are cancelled.
Starts(c, d, t) ==
    /\ Whole(t)
    /\ Attempt(c[d]) # "pending" /\ Attempt(t[d]) = "pending"
    /\ \A e \in Data \ {d} : \/ Attempt(t[e]) = Attempt(c[e])
                             \/ Attempt(c[e]) # "pending" /\ Attempt(t[e]) = "none"

Cancels(c, t) ==
    /\ Whole(t)
    /\ \A e \in Data : \/ Attempt(t[e]) = Attempt(c[e])
                       \/ Attempt(c[e]) = "pending" /\ Attempt(t[e]) = "cancelled"

\* A struct that is not in use is free, and nobody's.
LEMMA NotLive ==
    ASSUME NEW c, Whole(c), NEW d \in Data, ~c[d].live
    PROVE  /\ c[d] \in ConnectData /\ Free(c[d]) /\ Attempt(c[d]) # "pending"
           /\ c[d].child = NULL /\ c[d].data = NULL /\ c[d].clean = FALSE
  <1>1. Settled(c[d])
    BY DEF Whole
  <1>2. c[d] \in ConnectData /\ Free(c[d])
    BY <1>1 DEF Settled, Waiting, Stranded
  <1> QED BY <1>2 DEF Free, Attempt, ConnectData

\* A new struct.
New(h, p, q) ==
    [live |-> TRUE, answer |-> "none", handle |-> h, hosts |-> 0, fd |-> FALSE,
     query_data |-> q, clean |-> FALSE, inpa |-> "none", read_cb |-> "none",
     child |-> NULL, data |-> p]

\* It is what g_new0 and the assignments that follow it leave.
LEMMA FreshStruct ==
    ASSUME NEW h \in Handle, NEW p \in Data \cup {NULL}, NEW q \in {"none", "connect"}
    PROVE  /\ [Fresh(h, p, q) EXCEPT !.clean = FALSE] = New(h, p, q)
           /\ New(h, p, q) \in ConnectData
  <1>1. Fresh(h, p, q) = New(h, p, q)
    BY Zenon DEF Fresh, New
  <1>3. 0 \in 0..MaxHosts
    BY HostsAssumption
  <1>4. New(h, p, q) \in ConnectData /\ New(h, p, q).clean = FALSE
    BY <1>3 DEF New, ConnectData
  <1>2. [New(h, p, q) EXCEPT !.clean = FALSE] = New(h, p, q)
    BY <1>4 DEF ConnectData
  <1> QED BY <1>1, <1>2, <1>4

\* purple_proxy_connect starts an attempt.
LEMMA Connects ==
    ASSUME NEW d \in Data, NEW h \in Handle, Whole(conn), connect(d, h)
    PROVE  Starts(conn, d, conn') /\ freedUse' = freedUse
  <1> DEFINE x == [Fresh(h, NULL, "connect") EXCEPT !.clean = FALSE]
  <1>1. ~conn[d].live /\ freedUse' = freedUse
    BY DEF connect
  <1>2. /\ conn[d] \in ConnectData /\ Free(conn[d]) /\ Attempt(conn[d]) # "pending"
        /\ conn[d].child = NULL /\ conn[d].data = NULL /\ conn[d].clean = FALSE
    BY <1>1, NotLive
  <1>3. conn' = [conn EXCEPT ![d] = x]
    BY <1>2 DEF connect
  <1>4. /\ x \in ConnectData /\ x.live = TRUE /\ x.answer = "none" /\ x.handle = h
        /\ x.fd = FALSE /\ x.query_data = "connect" /\ x.clean = FALSE /\ x.inpa = "none"
        /\ x.child = NULL /\ x.data = NULL
    <2>1. x = New(h, NULL, "connect") /\ x \in ConnectData
      BY FreshStruct
    <2> HIDE DEF x
    <2> QED BY <2>1 DEF New
  <1> HIDE DEF x
  <1>5. Table(conn') /\ conn'[d] = x /\ \A e \in Data \ {d} : conn'[e] = conn[e]
    BY <1>3 DEF Whole, Table
  <1>6. Waiting(x) /\ Attempt(x) = "pending"
    BY <1>4 DEF Waiting, Attempt
  <1>7. \A e \in Data : Settled(conn'[e])
    BY <1>4, <1>5, <1>6 DEF Whole, Settled
  <1>8. Linked(conn', d)
    BY <1>4, <1>5 DEF Linked
  <1>9. ASSUME NEW e \in Data \ {d} PROVE Linked(conn', e)
    <2> DEFINE E == Data \ {d}
    <2>1. \A f \in E : conn'[f] = conn[f]
      BY <1>5
    <2>2. conn[e].child \in E \cup {NULL} /\ conn[e].data \in E \cup {NULL}
      <3>1. conn[e].child # d /\ conn[e].data # d
        BY <1>2, Nobodys
      <3>2. conn[e].child \in Data \cup {NULL} /\ conn[e].data \in Data \cup {NULL}
        BY DEF Whole, Settled, ConnectData
      <3> QED BY <3>1, <3>2
    <2>3. e \in E /\ E \subseteq Data /\ Linked(conn, e)
      BY DEF Whole
    <2> HIDE DEF E
    <2> QED BY <2>1, <2>2, <2>3, NullAssumption, SameElsewhere
  <1>10. Whole(conn')
    BY <1>5, <1>7, <1>8, <1>9 DEF Whole
  <1> QED BY <1>1, <1>2, <1>5, <1>6, <1>10 DEF Starts

\* purple_proxy_connect_socks5_account starts one attempt and its child.
LEMMA ConnectsOverSocks5 ==
    ASSUME NEW d \in Data, NEW k \in Data, NEW h \in Handle, Whole(conn),
           connect_socks5_account(d, k, h)
    PROVE  Starts(conn, d, conn') /\ freedUse' = freedUse
  <1> DEFINE x == [Fresh(h, NULL, "none") EXCEPT !.clean = FALSE]
             y == [Fresh(h, d, "connect") EXCEPT !.clean = FALSE]
             z == [x EXCEPT !.child = k]
  <1>1. d # k /\ ~conn[d].live /\ ~conn[k].live /\ freedUse' = freedUse
    BY DEF connect_socks5_account
  <1>2. /\ Attempt(conn[d]) # "pending"
        /\ conn[d].child = NULL /\ conn[d].data = NULL /\ conn[d].clean = FALSE
    BY <1>1, NotLive
  <1>3. /\ Attempt(conn[k]) # "pending"
        /\ conn[k].child = NULL /\ conn[k].data = NULL /\ conn[k].clean = FALSE
    BY <1>1, NotLive
  <1>4. [Fresh(h, NULL, "none") EXCEPT !.child = k, !.clean = FALSE] = z
    <2> DEFINE f == Fresh(h, NULL, "none")
    <2> HIDE DEF f
    <2>1. [f EXCEPT !.child = k, !.clean = FALSE] = [[f EXCEPT !.clean = FALSE] EXCEPT !.child = k]
      OBVIOUS
    <2> QED BY <2>1 DEF f
  <1>5. conn' = [[conn EXCEPT ![d] = z] EXCEPT ![k] = y]
    BY <1>2, <1>3, <1>4 DEF connect_socks5_account
  <1>6. /\ x \in ConnectData /\ x.live = TRUE /\ x.answer = "none" /\ x.handle = h
        /\ x.fd = FALSE /\ x.query_data = "none" /\ x.clean = FALSE /\ x.inpa = "none"
        /\ x.child = NULL /\ x.data = NULL
    <2>1. x = New(h, NULL, "none") /\ x \in ConnectData
      BY FreshStruct
    <2> HIDE DEF x
    <2> QED BY <2>1 DEF New
  <1>7. /\ y \in ConnectData /\ y.live = TRUE /\ y.answer = "none" /\ y.handle = h
        /\ y.fd = FALSE /\ y.query_data = "connect" /\ y.clean = FALSE /\ y.inpa = "none"
        /\ y.child = NULL /\ y.data = d
    <2>1. y = New(h, d, "connect") /\ y \in ConnectData
      BY FreshStruct
    <2> HIDE DEF y
    <2> QED BY <2>1 DEF New
  <1> HIDE DEF x, y
  <1>8. /\ z \in ConnectData /\ z.live = TRUE /\ z.answer = "none" /\ z.handle = h
        /\ z.fd = FALSE /\ z.query_data = "none" /\ z.clean = FALSE /\ z.inpa = "none"
        /\ z.child = k /\ z.data = NULL
    BY <1>6 DEF ConnectData
  <1> HIDE DEF z
  <1>9. Table(conn') /\ conn'[d] = z /\ conn'[k] = y /\ \A e \in Data \ {d, k} : conn'[e] = conn[e]
    BY <1>1, <1>5 DEF Whole, Table
  <1>10. d # NULL /\ k # NULL
    BY NullAssumption
  <1>11. Waiting(z) /\ Waiting(y) /\ Attempt(z) = "pending" /\ Attempt(y) = "none"
    BY <1>7, <1>8, <1>10 DEF Waiting, Attempt
  <1>12. ASSUME NEW e \in Data PROVE Settled(conn'[e])
    <2>1. CASE e \notin {d, k}
      BY <1>9, <2>1 DEF Whole
    <2> QED BY <1>7, <1>8, <1>9, <1>11, <2>1 DEF Settled
  <1>13. Linked(conn', d) /\ Linked(conn', k)
    BY <1>1, <1>7, <1>8, <1>9 DEF Linked
  <1>14. ASSUME NEW e \in Data \ {d, k} PROVE Linked(conn', e)
    <2> DEFINE E == Data \ {d, k}
    <2>1. \A f \in E : conn'[f] = conn[f]
      BY <1>9
    <2>2. conn[e].child \in E \cup {NULL} /\ conn[e].data \in E \cup {NULL}
      <3>1. conn[e].child # d /\ conn[e].data # d
        BY <1>2, Nobodys
      <3>2. conn[e].child # k /\ conn[e].data # k
        BY <1>3, Nobodys
      <3>3. conn[e].child \in Data \cup {NULL} /\ conn[e].data \in Data \cup {NULL}
        BY DEF Whole, Settled, ConnectData
      <3> QED BY <3>1, <3>2, <3>3
    <2>3. e \in E /\ E \subseteq Data /\ Linked(conn, e)
      BY DEF Whole
    <2> HIDE DEF E
    <2> QED BY <2>1, <2>2, <2>3, NullAssumption, SameElsewhere
  <1>15. Whole(conn')
    BY <1>9, <1>12, <1>13, <1>14 DEF Whole
  <1>16. ASSUME NEW e \in Data \ {d}
         PROVE  \/ Attempt(conn'[e]) = Attempt(conn[e])
                \/ Attempt(conn[e]) # "pending" /\ Attempt(conn'[e]) = "none"
    <2>1. CASE e = k
      BY <1>3, <1>9, <1>11, <2>1
    <2>2. CASE e # k
      BY <1>9, <2>2
    <2> QED BY <2>1, <2>2
  <1> QED BY <1>1, <1>2, <1>9, <1>11, <1>15, <1>16 DEF Starts

\* What is left of a struct whose timer may still run.
Left(a, cl) == [Remains(a) EXCEPT !.clean = cl]

\* It is free if the timer does not run.
LEMMA LeftFree ==
    ASSUME NEW a \in {"unused", "connected", "failed", "cancelled"}
    PROVE  /\ Left(a, FALSE) \in ConnectData /\ Free(Left(a, FALSE))
           /\ Left(a, FALSE).answer = a /\ Left(a, FALSE).live = FALSE
  <1> DEFINE r == Remains(a)
  <1>1. r \in ConnectData /\ Free(r) /\ r.answer = a
    BY RemainsFree
  <1>2. Left(a, FALSE) = [r EXCEPT !.clean = FALSE]
    BY DEF Left
  <1> HIDE DEF r
  <1>3. [r EXCEPT !.clean = FALSE] = r /\ r.live = FALSE
    BY <1>1 DEF ConnectData, Free
  <1> QED BY <1>1, <1>2, <1>3

\* closed and destroy leave the same of any struct.
LEMMA ClosedDown ==
    ASSUME NEW c, NEW d \in Data, Table(c), c[d] \in ConnectData, c[d].live,
           NEW t, t = destroy(closed(c, d), d)
    PROVE  /\ Table(t)
           /\ SameBut(c, d, t)
           /\ c[d].data = NULL => t[d] = Left(c[d].answer, c[d].clean)
           /\ c[d].data # NULL => t[d] = Left("unused", c[d].clean)
  <1> DEFINE x == [c[d] EXCEPT !.child = NULL, !.inpa = "none", !.read_cb = "none", !.fd = FALSE]
             e == [c EXCEPT ![d] = x]
  <1>1. closed(c, d) = e
    BY DEF closed, Table
  <1>2. x.live /\ x.fd = FALSE /\ x.clean = c[d].clean /\ x.data = c[d].data
        /\ x.answer = c[d].answer
    BY DEF ConnectData
  <1> HIDE DEF x
  <1>3. Table(e) /\ e[d] = x /\ \A f \in Data \ {d} : e[f] = c[f]
    BY DEF Table
  <1> HIDE DEF e
  <1>4. SUFFICES ASSUME NEW a, a = IF c[d].data = NULL THEN c[d].answer ELSE "unused"
                 PROVE  Table(t) /\ SameBut(c, d, t) /\ t[d] = Left(a, c[d].clean)
    OBVIOUS
  <1> DEFINE y == [Unused EXCEPT !.answer = a, !.fd = FALSE, !.clean = c[d].clean]
  <1>5. t = [e EXCEPT ![d] = y]
    BY <1>1, <1>2, <1>3, <1>4 DEF destroy
  <1>6. y = Left(a, c[d].clean)
    <2> DEFINE cl == c[d].clean
               r  == [live |-> FALSE, answer |-> a, handle |-> NULL, hosts |-> 0, fd |-> FALSE,
                      query_data |-> "none", clean |-> cl, inpa |-> "none", read_cb |-> "none",
                      child |-> NULL, data |-> NULL]
    <2>1. y = [Remains("unused") EXCEPT !.answer = a, !.fd = FALSE, !.clean = cl]
      BY UnusedStruct
    <2> HIDE DEF y, cl
    <2>2. y = r
      BY <2>1 DEF Remains
    <2>3. Left(a, cl) = r
      <3> DEFINE z == Left(a, cl)
      <3>1. z = [Remains(a) EXCEPT !.clean = cl]
        BY DEF Left
      <3> HIDE DEF z
      <3>2. z = r
        BY <3>1 DEF Remains
      <3> QED BY <3>2 DEF z
    <2> QED BY <2>2, <2>3 DEF cl
  <1> HIDE DEF y
  <1> QED BY <1>3, <1>5, <1>6 DEF Table, SameBut

\* How an attempt ends that is cancelled.
Ending(s) == IF s.answer = "none" THEN "cancelled" ELSE s.answer

\* given_up is an assignment.
LEMMA GivenUp ==
    ASSUME NEW c, NEW d \in Data, Table(c), c[d] \in ConnectData,
           NEW e, e = given_up(c, d)
    PROVE  /\ Table(e)
           /\ SameBut(c, d, e)
           /\ e[d] = [c[d] EXCEPT !.answer = Ending(c[d])]
  <1>1. CASE c[d].answer = "none"
    <2>1. e = [c EXCEPT ![d].answer = "cancelled"]
      BY <1>1 DEF given_up
    <2> QED BY <1>1, <2>1 DEF Table, SameBut, Ending
  <1>2. CASE c[d].answer # "none"
    <2>1. e = c
      BY <1>2 DEF given_up
    <2>2. [c[d] EXCEPT !.answer = c[d].answer] = c[d]
      BY DEF ConnectData
    <2> QED BY <1>2, <2>1, <2>2 DEF SameBut, Ending
  <1> QED BY <1>1, <1>2

\* What cancelling d leaves of d, of its child and of the others.
LEMMA CancelledTable ==
    ASSUME NEW c, Whole(c), NEW d \in Data, c[d].live, NEW t, t = cancelled(c, d)
    PROVE  /\ Table(t)
           /\ c[d].data = NULL => t[d] = Left(Ending(c[d]), c[d].clean)
           /\ c[d].data # NULL => t[d] = Left("unused", c[d].clean)
           /\ c[d].child # NULL => t[c[d].child] = Left("unused", c[c[d].child].clean)
           /\ \A e \in Data \ {d, c[d].child} : t[e] = c[e]
  <1> DEFINE b == given_up(c, d)
             k == c[d].child
  <1>1. Table(c) /\ c[d] \in ConnectData /\ Linked(c, d) /\ k \in Data \cup {NULL}
    BY DEF Whole, Settled, ConnectData
  <1>2. Table(b) /\ SameBut(c, d, b) /\ b[d] = [c[d] EXCEPT !.answer = Ending(c[d])]
    BY <1>1, GivenUp
  <1>3. t = destroy(disconnect(b, d), d)
    BY DEF cancelled
  <1>4. Ending(c[d]) \in {"unused", "connected", "failed", "cancelled"}
    BY <1>1 DEF Ending, ConnectData
  <1> HIDE DEF b
  <1>5. /\ b[d] \in ConnectData /\ b[d].live /\ b[d].answer = Ending(c[d])
        /\ b[d].data = c[d].data /\ b[d].clean = c[d].clean /\ b[d].child = k
    BY <1>1, <1>2, <1>4 DEF ConnectData
  <1>6. CASE k = NULL
    <2>1. t = destroy(closed(b, d), d)
      BY <1>3, <1>5, <1>6 DEF disconnect
    <2>2. /\ Table(t)
          /\ SameBut(b, d, t)
          /\ b[d].data = NULL => t[d] = Left(b[d].answer, b[d].clean)
          /\ b[d].data # NULL => t[d] = Left("unused", b[d].clean)
      <3>1. Table(b) /\ b[d] \in ConnectData /\ b[d].live /\ t = destroy(closed(b, d), d)
        BY <1>2, <1>5, <2>1
      <3> QED BY <3>1, ClosedDown
    <2> QED BY <1>2, <1>5, <1>6, <2>2 DEF SameBut
  <1>7. CASE k # NULL
    <2> DEFINE e == given_up(b, k)
               g == destroy(closed(e, k), k)
    <2>1. k \in Data /\ k # d /\ c[k].live /\ c[k].data = d /\ b[k] = c[k] /\ c[k] \in ConnectData
      BY <1>1, <1>2, <1>7 DEF Linked, SameBut, Whole, Settled
    <2>2. t = destroy(closed(g, d), d)
      BY <1>3, <1>5, <1>7 DEF disconnect
    <2> HIDE DEF k
    <2>3. Table(e) /\ SameBut(b, k, e) /\ e[k] = [b[k] EXCEPT !.answer = Ending(b[k])]
      BY <1>2, <2>1, GivenUp
    <2>4. Ending(b[k]) \in {"unused", "connected", "failed", "cancelled"}
      BY <2>1 DEF Ending, ConnectData
    <2> HIDE DEF e
    <2>5. e[k] \in ConnectData /\ e[k].live /\ e[k].data # NULL /\ e[k].clean = c[k].clean
      BY <2>1, <2>3, <2>4, NullAssumption DEF ConnectData
    <2>6. Table(g) /\ SameBut(e, k, g) /\ g[k] = Left("unused", e[k].clean)
      <3>1. k \in Data /\ Table(e) /\ e[k] \in ConnectData /\ e[k].live
            /\ g = destroy(closed(e, k), k) /\ e[k].data # NULL
        BY <2>1, <2>3, <2>5
      <3> HIDE DEF g
      <3> QED BY <3>1, ClosedDown
    <2> HIDE DEF g
    <2>7. g[d] = b[d]
      BY <2>1, <2>3, <2>6 DEF SameBut
    <2>8. /\ Table(t)
          /\ SameBut(g, d, t)
          /\ g[d].data = NULL => t[d] = Left(g[d].answer, g[d].clean)
          /\ g[d].data # NULL => t[d] = Left("unused", g[d].clean)
      <3>1. g[d] \in ConnectData /\ g[d].live
        BY <1>5, <2>7
      <3> QED BY <2>2, <2>6, <3>1, ClosedDown
    <2>9. /\ c[d].data = NULL => t[d] = Left(Ending(c[d]), c[d].clean)
          /\ c[d].data # NULL => t[d] = Left("unused", c[d].clean)
      BY <1>5, <2>7, <2>8
    <2>10. t[k] = Left("unused", c[k].clean)
      BY <2>1, <2>5, <2>6, <2>8 DEF SameBut
    <2>11. \A f \in Data \ {d, k} : t[f] = c[f]
      BY <1>2, <2>3, <2>6, <2>8 DEF SameBut
    <2> QED BY <2>8, <2>9, <2>10, <2>11 DEF k
  <1> QED BY <1>6, <1>7

\* A struct without a parent keeps the answer that cancelling it gives.
LEMMA CancelledAlone ==
    ASSUME NEW c, Whole(c), NEW d \in Data, c[d].live, c[d].data = NULL
    PROVE  cancelled(c, d)[d] = Left(Ending(c[d]), c[d].clean)
  <1> DEFINE t == cancelled(c, d)
  <1>1. t = cancelled(c, d)
    OBVIOUS
  <1> HIDE DEF t
  <1>2. t[d] = Left(Ending(c[d]), c[d].clean)
    BY <1>1, CancelledTable
  <1> QED BY <1>1, <1>2

\* purple_proxy_connect_cancel cancels one attempt, with its child.
LEMMA CancelsOne ==
    ASSUME NEW d \in Data, Whole(conn), Events = {}, connect_cancel(d)
    PROVE  Cancels(conn, conn') /\ freedUse' = freedUse
  <1> DEFINE k == conn[d].child
             S == {d, k} \ {NULL}
  <1>1. /\ conn[d].live /\ conn[d].data = NULL /\ conn[d].answer = "none"
        /\ conn' = cancelled(conn, d) /\ freedUse' = freedUse
    BY DEF connect_cancel
  <1>2. /\ Table(conn) /\ Linked(conn, d) /\ d # NULL
        /\ conn[d] \in ConnectData /\ k \in Data \cup {NULL}
    BY NullAssumption DEF Whole, Settled, ConnectData
  <1>3. conn[d].clean = FALSE /\ (k # NULL => conn[k].clean = FALSE)
    <2>1. \A e \in S : ~conn[e].clean
      BY DEF connect_cancel, Spared, Family
    <2>2. \A e \in S : conn[e] \in ConnectData
      BY <1>2 DEF Whole, Settled
    <2>3. d \in S /\ (k # NULL => k \in S)
      BY <1>2
    <2> HIDE DEF S, k
    <2> QED BY <2>1, <2>2, <2>3 DEF ConnectData
  <1>4. /\ Table(conn')
        /\ conn'[d] = Left("cancelled", FALSE)
        /\ k # NULL => conn'[k] = Left("unused", FALSE)
        /\ \A e \in Data \ {d, k} : conn'[e] = conn[e]
    <2>1. Ending(conn[d]) = "cancelled"
      BY <1>1 DEF Ending
    <2> DEFINE t == conn'
    <2>2. t = cancelled(conn, d)
      BY <1>1
    <2> HIDE DEF t
    <2>3. /\ Table(t)
          /\ conn[d].data = NULL => t[d] = Left(Ending(conn[d]), conn[d].clean)
          /\ k # NULL => t[k] = Left("unused", conn[k].clean)
          /\ \A e \in Data \ {d, k} : t[e] = conn[e]
      BY <1>1, <2>2, CancelledTable
    <2> HIDE DEF k
    <2> QED BY <1>1, <1>3, <2>1, <2>3 DEF t
  <1>5. /\ Left("cancelled", FALSE) \in ConnectData /\ Free(Left("cancelled", FALSE))
        /\ Left("cancelled", FALSE).answer = "cancelled" /\ Left("cancelled", FALSE).live = FALSE
    BY LeftFree
  <1>6. /\ Left("unused", FALSE) \in ConnectData /\ Free(Left("unused", FALSE))
        /\ Left("unused", FALSE).answer = "unused" /\ Left("unused", FALSE).live = FALSE
    BY LeftFree
  <1>7. \A e \in S : conn'[e] \in ConnectData /\ Free(conn'[e])
    BY <1>4, <1>5, <1>6
  <1>8. k # NULL => k # d /\ conn[k].live /\ conn[k].data = d /\ conn[k].child = NULL
    BY DEF Whole, Linked
  <1>9. ASSUME NEW e \in Data \ S
        PROVE  conn'[e] = conn[e] /\ conn[e].child \notin S /\ conn[e].data \notin S
    <2>1. e # d /\ e # k /\ e # NULL
      BY <1>9, NullAssumption
    <2>2. Linked(conn, e)
      BY DEF Whole
    <2>3. conn[e].child # d /\ conn[e].data # d
      BY <1>1, <1>2, <2>1, <2>2, NullAssumption, PointedBack
    <2> HIDE DEF k
    <2>4. k # NULL => conn[e].child # k /\ conn[e].data # k
      BY <1>2, <1>8, <2>1, <2>2, NullAssumption, PointedBack
    <2> QED BY <1>4, <2>1, <2>3, <2>4
  <1>10. S \subseteq Data
    BY <1>2
  <1>11. Whole(conn')
    <2> DEFINE t == conn'
    <2>1. Table(t) /\ \A e \in S : t[e] \in ConnectData /\ Free(t[e])
      BY <1>4, <1>7
    <2>2. \A e \in Data \ S : t[e] = conn[e] /\ conn[e].child \notin S /\ conn[e].data \notin S
      BY <1>9
    <2> HIDE DEF t, S
    <2>3. Whole(t)
      BY <1>10, <2>1, <2>2, SetFreed
    <2> QED BY <2>3 DEF t
  <1>12. Attempt(conn[d]) = "pending" /\ Attempt(conn'[d]) = "cancelled"
    BY <1>1, <1>4, <1>5 DEF Attempt
  <1>13. k # NULL => Attempt(conn[k]) = "none" /\ Attempt(conn'[k]) = "none"
    BY <1>2, <1>4, <1>6, <1>8 DEF Attempt
  <1>14. ASSUME NEW e \in Data
         PROVE  \/ Attempt(conn'[e]) = Attempt(conn[e])
                \/ Attempt(conn[e]) = "pending" /\ Attempt(conn'[e]) = "cancelled"
    <2> HIDE DEF k
    <2>1. CASE e = d
      BY <1>12, <2>1
    <2>2. CASE e = k
      BY <1>13, <2>2, NullAssumption
    <2>3. CASE e # d /\ e # k
      BY <1>4, <2>3
    <2> QED BY <2>1, <2>2, <2>3
  <1> QED BY <1>1, <1>11, <1>14 DEF Cancels

\* A child's parent has its handle, so that a walk that meets no parent meets
\* no child either.
LEMMA CancelsWithHandle ==
    ASSUME NEW h \in Handle, Whole(conn), Events = {}, freedUse = FALSE,
           connect_cancel_with_handle(h)
    PROVE  Cancels(conn, conn') /\ freedUse' = FALSE
  <1> DEFINE S == {d \in Data : conn[d].live /\ conn[d].handle = h}
             P == {d \in S : conn[d].child # NULL}
             t == conn'
  <1>1. P = {} /\ \A d \in S : ~conn[d].clean
    BY DEF connect_cancel_with_handle, Spared
  <1>2. t = [d \in Data |-> IF d \in S THEN cancelled(conn, d)[d] ELSE conn[d]]
    BY Zenon DEF connect_cancel_with_handle, Without
  <1>3. freedUse' = FALSE
    <2>1. freedUse' = (freedUse \/ P # {})
      BY Zenon DEF connect_cancel_with_handle
    <2>2. P = {}
      BY <1>1
    <2> HIDE DEF P
    <2> QED BY <2>1, <2>2
  <1>4. S \subseteq Data /\ Table(t)
    BY <1>2 DEF Table
  <1>5. ASSUME NEW d \in S
        PROVE  /\ conn[d].live = TRUE /\ conn[d].handle = h /\ conn[d].clean = FALSE
               /\ conn[d].child = NULL /\ conn[d].data = NULL
               /\ conn[d].answer \in {"none", "failed"}
    <2>1. d \in Data /\ conn[d].live /\ conn[d].handle = h /\ ~conn[d].clean /\ conn[d].child = NULL
      BY <1>1
    <2>2. Settled(conn[d]) /\ Linked(conn, d)
      BY <2>1 DEF Whole
    <2>3. conn[d] \in ConnectData /\ conn[d].answer \in {"none", "failed"}
      BY <2>1, <2>2 DEF Settled, Waiting, Stranded, Free
    <2>4. conn[d].data = NULL
      <3> DEFINE p == conn[d].data
      <3>1. SUFFICES ASSUME p # NULL PROVE FALSE
        OBVIOUS
      <3>2. p \in Data
        BY <2>3, <3>1 DEF ConnectData
      <3>3. conn[p].live /\ conn[p].child = d /\ d # NULL
        BY <2>1, <2>2, <3>1, NullAssumption DEF Linked
      <3>4. Linked(conn, p)
        BY <3>2 DEF Whole
      <3>5. conn[p].handle = h
        BY <2>1, <3>3, <3>4 DEF Linked
      <3>6. p \in P
        <4> HIDE DEF p
        <4> QED BY <3>2, <3>3, <3>5
      <3> QED BY <1>1, <3>6
    <2> QED BY <2>1, <2>3, <2>4 DEF ConnectData
  <1>6. ASSUME NEW d \in S
        PROVE  t[d] \in ConnectData /\ Free(t[d]) /\ t[d].answer = Ending(conn[d])
               /\ t[d].live = FALSE /\ t[d].data = NULL
    <2>1. d \in Data /\ t[d] = cancelled(conn, d)[d]
      BY <1>2, <1>4
    <2>2. conn[d].live /\ conn[d].data = NULL /\ conn[d].clean = FALSE
      BY <1>5
    <2> DEFINE u == cancelled(conn, d)
               a == Ending(conn[d])
    <2>3. a \in {"unused", "connected", "failed", "cancelled"}
      BY <1>5 DEF Ending
    <2>4. u[d] = Left(a, conn[d].clean)
      <3>1. Whole(conn) /\ conn[d].live /\ conn[d].data = NULL /\ d \in Data
        BY <2>1, <2>2
      <3> QED BY <3>1, CancelledAlone
    <2> HIDE DEF u, t, a
    <2>5. t[d] = Left(a, FALSE)
      BY <2>1, <2>2, <2>4 DEF u
    <2>6. /\ Left(a, FALSE) \in ConnectData /\ Free(Left(a, FALSE))
          /\ Left(a, FALSE).answer = a /\ Left(a, FALSE).live = FALSE
      BY <2>3, LeftFree
    <2>7. Left(a, FALSE).data = NULL
      BY <2>6 DEF Free
    <2> QED BY <2>5, <2>6, <2>7 DEF a
  <1>7. ASSUME NEW e \in Data \ S
        PROVE  t[e] = conn[e] /\ conn[e].child \notin S /\ conn[e].data \notin S
    <2>1. t[e] = conn[e]
      BY <1>2
    <2>2. ASSUME NEW d \in S PROVE conn[e].child # d /\ conn[e].data # d
      <3>1. d \in Data /\ conn[d].child = NULL /\ conn[d].data = NULL
        BY <1>5
      <3> QED BY <3>1, Nobodys
    <2> QED BY <2>1, <2>2
  <1> HIDE DEF S, t
  <1>8. Whole(t)
    BY <1>4, <1>6, <1>7, SetFreed
  <1>9. ASSUME NEW e \in Data
        PROVE  \/ Attempt(t[e]) = Attempt(conn[e])
               \/ Attempt(conn[e]) = "pending" /\ Attempt(t[e]) = "cancelled"
    <2>1. CASE e \in S
      <3>1. /\ conn[e].live = TRUE /\ conn[e].data = NULL /\ conn[e].answer \in {"none", "failed"}
            /\ t[e].live = FALSE /\ t[e].answer = Ending(conn[e])
        BY <1>5, <1>6, <2>1
      <3>2. CASE conn[e].answer = "none"
        BY <3>1, <3>2 DEF Attempt, Ending
      <3>3. CASE conn[e].answer = "failed"
        BY <3>1, <3>3 DEF Attempt, Ending
      <3> QED BY <3>1, <3>2, <3>3
    <2>2. CASE e \notin S
      BY <1>7, <2>2
    <2> QED BY <2>1, <2>2
  <1> QED BY <1>3, <1>8, <1>9 DEF Cancels, t

\* Every struct is freed, and no timer is left.
LEMMA Uninit ==
    ASSUME Whole(conn), uninit
    PROVE  Cancels(conn, conn') /\ freedUse' = freedUse
  <1> DEFINE t == conn'
  <1>1. t = [d \in Data |-> IF conn[d].live THEN [cancelled(conn, d)[d] EXCEPT !.clean = FALSE]
                            ELSE [conn[d] EXCEPT !.clean = FALSE]]
        /\ freedUse' = freedUse
    BY DEF uninit
  <1>2. Table(t)
    BY <1>1 DEF Table
  <1>3. ASSUME NEW d \in Data, conn[d].live,
               NEW a \in {"unused", "connected", "failed", "cancelled"},
               cancelled(conn, d)[d] = Left(a, conn[d].clean)
        PROVE  t[d] \in ConnectData /\ Free(t[d]) /\ t[d].answer = a /\ t[d].live = FALSE
    <2> DEFINE l == Left(a, conn[d].clean)
    <2>1. t[d] = [l EXCEPT !.clean = FALSE]
      BY <1>1, <1>3
    <2>2. [l EXCEPT !.clean = FALSE] = Left(a, FALSE)
      <3> DEFINE r  == Remains(a)
                 cl == conn[d].clean
      <3>1. l = [r EXCEPT !.clean = cl] /\ Left(a, FALSE) = [r EXCEPT !.clean = FALSE]
        BY Zenon DEF Left
      <3>2. r \in ConnectData
        BY RemainsFree
      <3> HIDE DEF r, l, cl
      <3> QED BY <3>1, <3>2 DEF ConnectData
    <2> HIDE DEF t, l
    <2> QED BY <2>1, <2>2, LeftFree
  <1>4. ASSUME NEW d \in Data, conn[d].live
        PROVE  /\ t[d] \in ConnectData /\ Free(t[d]) /\ t[d].live = FALSE
               /\ t[d].answer = IF conn[d].data = NULL THEN Ending(conn[d]) ELSE "unused"
               /\ conn[d].answer \in {"none", "failed"}
    <2> DEFINE u == cancelled(conn, d)
               a == IF conn[d].data = NULL THEN Ending(conn[d]) ELSE "unused"
    <2>1. Settled(conn[d])
      BY DEF Whole
    <2>2. conn[d].answer \in {"none", "failed"}
      BY <1>4, <2>1 DEF Settled, Waiting, Stranded, Free
    <2>3. a \in {"unused", "connected", "failed", "cancelled"}
      BY <2>2 DEF Ending
    <2>4. /\ conn[d].data = NULL => u[d] = Left(Ending(conn[d]), conn[d].clean)
          /\ conn[d].data # NULL => u[d] = Left("unused", conn[d].clean)
      <3>1. u = cancelled(conn, d)
        OBVIOUS
      <3> HIDE DEF u
      <3> QED BY <1>4, <3>1, CancelledTable
    <2>5. u[d] = Left(a, conn[d].clean)
      <3> HIDE DEF u
      <3>1. CASE conn[d].data = NULL
        BY <2>4, <3>1
      <3>2. CASE conn[d].data # NULL
        BY <2>4, <3>2
      <3> QED BY <3>1, <3>2
    <2> HIDE DEF t, a
    <2>6. t[d] \in ConnectData /\ Free(t[d]) /\ t[d].answer = a /\ t[d].live = FALSE
      BY <1>3, <1>4, <2>3, <2>5
    <2> QED BY <2>2, <2>6 DEF a
  <1>5. ASSUME NEW d \in Data, ~conn[d].live
        PROVE  t[d] = conn[d] /\ t[d] \in ConnectData /\ Free(t[d])
    <2>1. conn[d] \in ConnectData /\ Free(conn[d]) /\ conn[d].clean = FALSE
      BY <1>5, NotLive
    <2>2. t[d] = [conn[d] EXCEPT !.clean = FALSE]
      BY <1>1, <1>5
    <2>3. [conn[d] EXCEPT !.clean = FALSE] = conn[d]
      BY <2>1 DEF ConnectData
    <2> QED BY <2>1, <2>2, <2>3
  <1> HIDE DEF t
  <1>6. Whole(t)
    <2>1. \A e \in Data : t[e] \in ConnectData /\ Free(t[e])
      BY <1>4, <1>5
    <2> QED BY <1>2, <2>1, SetFreed
  <1>7. ASSUME NEW e \in Data
        PROVE  \/ Attempt(t[e]) = Attempt(conn[e])
               \/ Attempt(conn[e]) = "pending" /\ Attempt(t[e]) = "cancelled"
    <2>1. CASE ~conn[e].live
      BY <1>5, <2>1
    <2>2. CASE conn[e].live /\ conn[e].data # NULL
      BY <1>4, <2>2 DEF Attempt
    <2>3. CASE conn[e].live /\ conn[e].data = NULL /\ conn[e].answer = "none"
      BY <1>4, <2>3 DEF Attempt, Ending
    <2>4. CASE conn[e].live /\ conn[e].data = NULL /\ conn[e].answer = "failed"
      BY <1>4, <2>4 DEF Attempt, Ending
    <2> QED BY <1>4, <2>1, <2>2, <2>3, <2>4
  <1> QED BY <1>1, <1>6, <1>7 DEF Cancels, t

-----------------------------------------------------------------------------
(* The steps together.                                                     *)

\* Nothing optional happens.
Plain == Events = {}

\* A step starts one attempt, cancels some, or lets one go on.
Step ==
    \/ \E d \in Data : Starts(conn, d, conn')
    \/ Cancels(conn, conn')
    \/ \E d \in Data : Goes(conn, d, conn')

\* Each step keeps the table whole and starts, cancels or continues attempts.
LEMMA EachStep ==
    ASSUME Plain, IInv, Next
    PROVE  Step /\ IInv'
  <1>0. Whole(conn) /\ freedUse = FALSE /\ "blank_host" \notin Events /\ Events = {}
    BY DEF IInv, Plain
  <1>1. SUFFICES Step /\ freedUse' = FALSE
    BY DEF Step, Starts, Cancels, Goes, IInv
  <1>2. ASSUME NEW d \in Data, NEW h \in Handle, connect(d, h)
        PROVE  Step /\ freedUse' = FALSE
    BY <1>0, <1>2, Connects DEF Step
  <1>3. ASSUME NEW d \in Data, NEW k \in Data, NEW h \in Handle, connect_socks5_account(d, k, h)
        PROVE  Step /\ freedUse' = FALSE
    BY <1>0, <1>3, ConnectsOverSocks5 DEF Step
  <1>4. ASSUME NEW d \in Data, connect_cancel(d) PROVE Step /\ freedUse' = FALSE
    BY <1>0, <1>4, CancelsOne DEF Step
  <1>5. ASSUME NEW h \in Handle, connect_cancel_with_handle(h) PROVE Step /\ freedUse' = FALSE
    BY <1>0, <1>5, CancelsWithHandle DEF Step
  <1>6. CASE uninit
    BY <1>0, <1>6, Uninit DEF Step
  <1>7. ASSUME NEW d \in Data, connection_host_resolved(d) PROVE Step /\ freedUse' = FALSE
    BY <1>0, <1>7, HostResolved DEF Step
  <1>8. ASSUME NEW d \in Data, s4_host_resolved(d) PROVE Step /\ freedUse' = FALSE
    BY <1>0, <1>8, S4HostResolved DEF Step
  <1>9. ASSUME NEW d \in Data, connect_done(d) PROVE Step /\ freedUse' = FALSE
    BY <1>0, <1>9, ConnectDone DEF Step
  <1>10. ASSUME NEW d \in Data, proxy_do_write(d) PROVE Step /\ freedUse' = FALSE
    BY <1>0, <1>10, DoWrite DEF Step
  <1>11. ASSUME NEW d \in Data, canread(d) PROVE Step /\ freedUse' = FALSE
    BY <1>0, <1>11, CanRead DEF Step
  <1>12. ASSUME NEW d \in Data, clean_connect(d) PROVE Step /\ freedUse' = FALSE
    BY <1>0, <1>12, CleanConnect DEF Step
  <1> QED
    BY <1>2, <1>3, <1>4, <1>5, <1>6, <1>7, <1>8, <1>9, <1>10, <1>11, <1>12 DEF Next

\* At first every struct is free.
LEMMA AtFirst ==
    ASSUME Init
    PROVE  IInv /\ \A d \in Data : Attempt(conn[d]) = "none"
  <1>1. conn = [d \in Data |-> Remains("unused")] /\ freedUse = FALSE
    BY UnusedStruct DEF Init
  <1>2. Remains("unused") \in ConnectData /\ Free(Remains("unused"))
        /\ Remains("unused").answer = "unused"
    BY RemainsFree
  <1>3. Table(conn)
    BY <1>1 DEF Table
  <1>4. ASSUME NEW d \in Data
        PROVE  Settled(conn[d]) /\ Linked(conn, d) /\ Attempt(conn[d]) = "none"
    <2>1. conn[d] = Remains("unused")
      BY <1>1
    <2>2. conn[d] \in ConnectData /\ Free(conn[d]) /\ conn[d].answer = "unused"
      BY <1>2, <2>1
    <2>3. conn[d].child = NULL /\ conn[d].data = NULL
      BY <2>2 DEF Free
    <2> QED BY <2>2, <2>3 DEF Settled, Linked, Attempt
  <1> QED BY <1>1, <1>3, <1>4 DEF IInv, Whole

\* The table of attempts is whole after every callback and every call, and
\* nothing uses freed memory, as long as nobody cancels an attempt inside its
\* 10 ms timer or a group with a SOCKS5 attempt in it, and no host name is blank
\* (the comment on Events in ProxyConnect says which).
THEOREM InductiveInvariant ==
    ASSUME Plain
    PROVE  Spec => []IInv
<1>1. Init => IInv
  BY AtFirst
<1>2. IInv /\ [Next]_vars => IInv'
  <2>1. ASSUME IInv, Next PROVE IInv'
    BY <2>1, EachStep
  <2>2. ASSUME IInv, UNCHANGED vars PROVE IInv'
    BY <2>2 DEF IInv, vars
  <2> QED BY <2>1, <2>2
<1> QED BY <1>1, <1>2, PTL DEF Spec

\* The types of proxy.c's structs.
THEOREM TypeCorrect ==
    ASSUME Plain
    PROVE  Spec => []TypeOK
<1>1. IInv => TypeOK
  BY DEF IInv, Whole, Table, Settled, TypeOK
<1> QED BY <1>1, InductiveInvariant, PTL

\* No timer, parent or child holds a pointer to a freed struct.
THEOREM NoStalePointers ==
    ASSUME Plain
    PROVE  Spec => []NothingUsesFreed
<1>1. IInv => NothingUsesFreed
  <2> SUFFICES ASSUME IInv PROVE NothingUsesFreed
    OBVIOUS
  <2>1. ASSUME NEW d \in Data
        PROVE  /\ conn[d].clean => conn[d].live /\ conn[d].fd
               /\ conn[d].live /\ conn[d].child # NULL =>
                    conn[conn[d].child].live /\ conn[conn[d].child].data = d
               /\ conn[d].live /\ conn[d].data # NULL =>
                    conn[conn[d].data].live /\ conn[conn[d].data].child = d
    <3>1. Settled(conn[d]) /\ Linked(conn, d)
      BY DEF IInv, Whole
    <3>2. conn[d].clean => conn[d].live /\ conn[d].fd
      BY <3>1 DEF Settled, Waiting, Stranded, Free
    <3>3. conn[d].child # NULL => conn[conn[d].child].live /\ conn[conn[d].child].data = d
      BY <3>1 DEF Linked
    <3>4. conn[d].data # NULL => conn[conn[d].data].live /\ conn[conn[d].data].child = d
      BY <3>1 DEF Linked
    <3> QED BY <3>2, <3>3, <3>4
  <2>2. ~freedUse
    BY DEF IInv
  <2> QED BY <2>1, <2>2 DEF NothingUsesFreed
<1> QED BY <1>1, InductiveInvariant, PTL

\* An attempt under way waits for exactly one thing.
THEOREM OneThingAtATime ==
    ASSUME Plain
    PROVE  Spec => []WaitsForOneThing
<1>1. IInv => WaitsForOneThing
  <2> SUFFICES ASSUME IInv, NEW d \in Data, conn[d].live
               PROVE  IF conn[d].answer = "none"
                      THEN \E w \in WaitsFor(conn[d]) : WaitsFor(conn[d]) = {w}
                      ELSE WaitsFor(conn[d]) = {}
    BY DEF WaitsForOneThing
  <2> DEFINE s == conn[d]
  <2>1. Settled(s) /\ s.live
    BY DEF IInv, Whole
  <2> HIDE DEF s
  <2>2. CASE Waiting(s)
    <3>1. s.answer = "none"
      BY <2>2 DEF Waiting
    <3>2. \E w \in {"query_data", "inpa", "clean", "child"} : WaitsFor(s) = {w}
      <4>1. CASE s.query_data # "none" /\ s.inpa = "none" /\ ~s.clean /\ s.child = NULL
        <5>1. WaitsFor(s) = {"query_data"}
          BY <4>1 DEF WaitsFor
        <5> QED BY <5>1
      <4>2. CASE s.query_data = "none" /\ s.inpa # "none" /\ ~s.clean /\ s.child = NULL
        <5>1. WaitsFor(s) = {"inpa"}
          BY <4>2 DEF WaitsFor
        <5> QED BY <5>1
      <4>3. CASE s.query_data = "none" /\ s.inpa = "none" /\ s.clean /\ s.child = NULL
        <5>1. WaitsFor(s) = {"clean"}
          BY <4>3 DEF WaitsFor
        <5> QED BY <5>1
      <4>4. CASE s.query_data = "none" /\ s.inpa = "none" /\ ~s.clean /\ s.child # NULL
        <5>1. WaitsFor(s) = {"child"}
          BY <4>4 DEF WaitsFor
        <5> QED BY <5>1
      <4> QED BY <2>2, <4>1, <4>2, <4>3, <4>4 DEF Waiting
    <3>3. \E w \in WaitsFor(s) : WaitsFor(s) = {w}
      BY <3>2
    <3> QED BY <3>1, <3>3 DEF s
  <2>3. CASE Stranded(s)
    <3>1. s.answer # "none" /\ WaitsFor(s) = {}
      BY <2>3 DEF Stranded, WaitsFor
    <3> QED BY <3>1 DEF s
  <2> QED BY <2>1, <2>2, <2>3 DEF Settled, Free
<1> QED BY <1>1, InductiveInvariant, PTL

\* A socket is open exactly while its attempt waits for something with it.
THEOREM SocketsAreKept ==
    ASSUME Plain
    PROVE  Spec => []NoSocketLost
<1>1. IInv => NoSocketLost
  <2> SUFFICES ASSUME IInv, NEW d \in Data
               PROVE  conn[d].fd <=> /\ conn[d].live
                                     /\ \/ conn[d].inpa # "none" \/ conn[d].clean
                                        \/ conn[d].query_data = "socks4"
    BY DEF NoSocketLost
  <2>1. Settled(conn[d])
    BY DEF IInv, Whole
  <2> QED BY <2>1 DEF Settled, Waiting, Stranded, Free
<1> QED BY <1>1, InductiveInvariant, PTL

\* The attempts of proxy.c keep the promise of proxy.h.
THEOREM KeepsThePromise ==
    ASSUME Plain
    PROVE  Spec => ImplementsAttempt
<1> DEFINE At == [d \in Data |-> Attempt(conn[d])]
<1>1. Init => Promise!Init
  BY AtFirst DEF Promise!Init
<1>2. IInv /\ [Next]_vars => [Promise!Next]_At
  <2>1. ASSUME IInv, Next PROVE [Promise!Next]_At
    <3>1. Step
      BY <2>1, EachStep
    <3>2. ASSUME NEW d \in Data, Starts(conn, d, conn') PROVE Promise!Next
      <4> DEFINE R == {e \in Data \ {d} : Attempt(conn[e]) # "pending" /\ Attempt(conn'[e]) = "none"}
      <4>1. d \notin Promise!Pending
        BY <3>2 DEF Starts, Promise!Pending
      <4>2. R \in SUBSET (Data \ (Promise!Pending \cup {d}))
        BY DEF Promise!Pending
      <4>3. At' = [e \in Data |-> IF e = d THEN "pending"
                                   ELSE IF e \in R THEN "none" ELSE At[e]]
        BY <3>2 DEF Starts
      <4>4. Promise!start(d)
        <5> HIDE DEF R
        <5> QED BY <4>1, <4>2, <4>3 DEF Promise!start
      <4> QED BY <4>4 DEF Promise!Next
    <3>3. CASE Cancels(conn, conn')
      <4> DEFINE D == {e \in Data : Attempt(conn[e]) = "pending" /\ Attempt(conn'[e]) = "cancelled"}
      <4>1. D \in SUBSET Promise!Pending
        BY DEF Promise!Pending
      <4>2. At' = [e \in Data |-> IF e \in D THEN "cancelled" ELSE At[e]]
        BY <3>3 DEF Cancels
      <4>3. Promise!cancel(D)
        <5> HIDE DEF D
        <5> QED BY <4>2 DEF Promise!cancel
      <4> HIDE DEF D
      <4> QED BY <4>1, <4>3 DEF Promise!Next
    <3>4. ASSUME NEW d \in Data, Goes(conn, d, conn') PROVE [Promise!Next]_At
      <4> DEFINE r == Root(conn, d)
      <4>1. r \in Data
        BY <2>1 DEF IInv, Whole, Settled, ConnectData, Root
      <4>2. /\ Attempt(conn[r]) = "pending"
            /\ Attempt(conn'[r]) \in {"pending", "connected", "failed"}
            /\ \A e \in Data \ {r} : Attempt(conn'[e]) = Attempt(conn[e])
        BY <3>4 DEF Goes
      <4> HIDE DEF r
      <4>3. CASE Attempt(conn'[r]) = "pending"
        BY <4>1, <4>2, <4>3
      <4>4. CASE Attempt(conn'[r]) \in {"connected", "failed"}
        <5> DEFINE how == Attempt(conn'[r])
        <5>1. r \in Promise!Pending
          BY <4>1, <4>2 DEF Promise!Pending
        <5>2. At' = [At EXCEPT ![r] = how]
          BY <4>1, <4>2
        <5>3. Promise!finish(r)
          <6> HIDE DEF how
          <6> QED BY <4>4, <5>1, <5>2 DEF Promise!finish, how
        <5> QED BY <4>1, <5>3 DEF Promise!Next
      <4> QED BY <4>2, <4>3, <4>4
    <3> QED BY <3>1, <3>2, <3>3, <3>4 DEF Step
  <2>2. ASSUME UNCHANGED vars PROVE UNCHANGED At
    BY <2>2 DEF vars
  <2> QED BY <2>1, <2>2
<1> QED BY <1>1, <1>2, InductiveInvariant, PTL DEF Spec, ImplementsAttempt, Promise!Spec
=============================================================================
