----------------------------- MODULE XferProofs -----------------------------
(***************************************************************************)
(* The safety properties of Xfer for files and chunks of any size.         *)
(*                                                                         *)
(* A transfer is Sound if its references are accounted for, if it is over  *)
(* once the protocol has let it go, and if it is Active until then.  The   *)
(* functions of ft.c are called with transfers that are not quite sound: a *)
(* dialog was answered and its reference is in the hand of the callback.   *)
(* One lemma for each function says what it makes of such a transfer, and  *)
(* one for each action that a sound transfer stays sound.                  *)
(***************************************************************************)
EXTENDS Xfer, TLAPS

\* The references of s, "extra" of them in the hand of a callback whose dialog
\* is closed.
Held(s, extra) ==
    /\ ~s.answering
    /\ s.ref = One(s.known) + One(s.dialog # "none" \/ s.notice) + One(s.listed)
                 + s.leaked + extra
    /\ s.live <=> s.ref > 0

Refs(s, extra) == s.misused = {} /\ Held(s, extra)

\* Only what went with a transfer that is over was used after it was freed.
Misuse(s) ==
    /\ s.misused \subseteq {"priv", "dialog"}
    /\ "priv" \in s.misused =>
          s.type = "send" /\ s.ui = "moderated" /\ s.status = "cancel_remote" /\ ~s.live
    /\ "dialog" \in s.misused => (s.status \in Ended /\ s.type = "send") \/ ~s.live
    /\ s.misused # {} => ~s.known /\ ~s.listed

Idle(s) ==
    /\ ~s.watcher /\ ~s.fp /\ ~s.connecting /\ s.fd # "open"
    /\ s.dialog = "none" /\ ~s.notice

Bytes(s) ==
    s.status \notin {"cancel_local", "cancel_remote"} =>
        /\ s.pos = s.sent + s.buffer
        /\ s.left = s.size - s.sent
        /\ s.size > 0 => /\ s.status = "done" => s.sent = s.size
                         /\ s.fd = "open" => s.sent < s.size

Awake(s) ==
    /\ s.ready # {"ui", "prpl"}
    /\ s.fd = "open" /\ (s.type = "send" => s.size > 0) =>
          (s.watcher <=> "prpl" \notin s.ready)

\* A transfer that the protocol knows: it is asked about, then it has a local
\* file, then it connects, then its data is moved.
Active(s) ==
    /\ s.status \notin Ended /\ s.fd # "closed"
    /\ s.status = "started" \/ s.connecting \/ s.begun => s.local
    /\ s.dialog # "none" \/ s.notice => ~s.local /\ s.asked > 0
    /\ s.dialog = "none" \/ ~s.notice
    /\ ~s.connecting \/ ~s.begun
    /\ s.fd = "open" \/ s.fp \/ "prpl" \in s.ready => s.begun
    /\ s.watcher => s.fd = "open"
    /\ s.fp => s.ui = "pidgin"
    /\ ~s.begun => s.sent = 0 /\ s.buffer = 0
    /\ s.local /\ s.ui = "pidgin" => s.listed
    /\ s.type = "receive" \/ s.ui = "moderated" => s.buffer = 0
    /\ s.buffer <= s.left
    /\ s.begun => Awake(s)

Sound(s) ==
    /\ s \in Xfer
    /\ Held(s, 0) /\ Misuse(s)
    /\ s.listed => s.local
    /\ Bytes(s)
    /\ s.known => Active(s)
    /\ ~s.known => Idle(s)
    /\ ~s.known /\ s.status \notin Ended => ~s.local /\ "prpl" \notin s.ready

IInv == Sound(x)

\* The status of s may become that of t.
Forward(s, t) ==
    IF s.status \in Ended THEN t.status = s.status ELSE Rank(t.status) >= Rank(s.status)

\* A transfer that is over, but for "extra" references in somebody's hand.
Over(t, extra) ==
    /\ t \in Xfer
    /\ Refs(t, extra) /\ ~t.known /\ Idle(t)
    /\ t.listed => t.local
    /\ t.status \in Ended /\ Bytes(t)

\* No bytes are within every bound.
LEMMA NoBytes == 0 \in 0..Size
  BY SizeAssumption

\* Nothing was misused of a transfer that is clean, and of one that somebody
\* still works with.
LEMMA Clean ==
    ASSUME NEW s, NEW extra
    PROVE  /\ Refs(s, extra) => Held(s, extra) /\ Misuse(s)
           /\ Held(s, extra) /\ Misuse(s) /\ s.misused = {} => Refs(s, extra)
           /\ Misuse(s) /\ (s.known \/ s.listed \/ (s.live /\ s.status \notin Ended))
                => s.misused = {}
  BY DEF Refs, Held, Misuse

-----------------------------------------------------------------------------
(* References.                                                             *)

\* s and t differ in nothing but their references and whether they are allocated.
Alike(s, t) ==
    /\ t.type = s.type /\ t.ui = s.ui /\ t.clear = s.clear /\ t.size = s.size
    /\ t.named = s.named /\ t.local = s.local /\ t.status = s.status
    /\ t.begun = s.begun /\ t.fp = s.fp /\ t.fd = s.fd /\ t.watcher = s.watcher
    /\ t.ready = s.ready /\ t.pos = s.pos /\ t.buffer = s.buffer /\ t.sent = s.sent
    /\ t.left = s.left /\ t.known = s.known /\ t.dialog = s.dialog
    /\ t.notice = s.notice /\ t.listed = s.listed /\ t.connecting = s.connecting
    /\ t.asked = s.asked /\ t.leaked = s.leaked /\ t.misused = s.misused /\ t.answering = s.answering

\* A transfer without a dialog is freed.
LEMMA Destroy ==
    ASSUME NEW s \in Xfer, s.status # "started", s.dialog = "none", ~s.answering
    PROVE  destroy(s) \in Xfer /\ Alike(s, destroy(s)) /\ destroy(s).ref = s.ref
           /\ ~destroy(s).live
  <1> DEFINE t == [s EXCEPT !.live = FALSE, !.dialog = "none", !.answering = FALSE]
  <1>1. destroy(s) = t
    BY Zenon DEF destroy
  <1>2. t \in Xfer
    BY DEF Xfer, Dialogs
  <1>3. Alike(s, t)
    BY DEF Xfer, Alike
  <1>4. t.ref = s.ref /\ ~t.live
    BY DEF Xfer
  <1> QED BY <1>1, <1>2, <1>3, <1>4

\* purple_xfer_unref takes one reference away and nothing else, and the last
\* one frees the transfer.
LEMMA Unref ==
    ASSUME NEW s \in Xfer, s.live, s.ref > 0,
           s.ref = 1 => s.status # "started" /\ s.dialog = "none" /\ ~s.answering
    PROVE  /\ unref(s) \in Xfer /\ Alike(s, unref(s))
           /\ unref(s).ref = s.ref - 1
           /\ unref(s).live <=> s.ref > 1
  <1>0. s.ref \in Nat
    BY DEF Xfer
  <1>1. CASE s.ref = 1
    <2> DEFINE t == [s EXCEPT !.ref = 0]
    <2>1. t.status # "started" /\ t \in Xfer /\ Alike(s, t) /\ t.ref = 0
      BY <1>1 DEF Xfer, Alike
    <2>2. unref(s) = destroy(t)
      BY <1>1, Zenon DEF unref
    <2> HIDE DEF t
    <2>3. t.dialog = "none" /\ ~t.answering
      BY <1>1, <2>1 DEF Alike
    <2>4. destroy(t) \in Xfer /\ Alike(t, destroy(t)) /\ destroy(t).ref = 0
          /\ ~destroy(t).live
      BY <2>1, <2>3, Destroy
    <2>5. Alike(s, destroy(t))
      BY <2>1, <2>4 DEF Alike
    <2> QED BY <1>1, <2>2, <2>4, <2>5
  <1>2. CASE s.ref > 1
    <2> DEFINE t == [s EXCEPT !.ref = @ - 1]
    <2>1. s.ref # 1 /\ s.ref # 0 /\ s.ref - 1 \in Nat
      BY <1>0, <1>2
    <2>2. unref(s) = t
      BY <2>1, Zenon DEF unref
    <2>3. t \in Xfer /\ Alike(s, t) /\ t.ref = s.ref - 1 /\ t.live = s.live
      BY <2>1 DEF Xfer, Alike
    <2> HIDE DEF t
    <2> QED BY <1>2, <2>2, <2>3
  <1> QED BY <1>0, <1>1, <1>2

\* pidgin_xfer_dialog_remove_xfer gives the row's reference back.  Somebody
\* else has another one.
LEMMA RemoveRow ==
    ASSUME NEW s \in Xfer, s.live, s.listed => s.ref > 1
    PROVE  remove_row(s) = IF s.listed THEN [s EXCEPT !.listed = FALSE, !.ref = @ - 1]
                           ELSE s
  <1>1. CASE s.listed
    <2> DEFINE t == [s EXCEPT !.listed = FALSE]
    <2>1. t.ref = s.ref /\ t.live = s.live /\ s.ref \in Nat
      BY DEF Xfer
    <2>2. t.ref # 1 /\ t.ref # 0 /\ t.live
      BY <1>1, <2>1
    <2>3. remove_row(s) = unref(t)
      BY <1>1, Zenon DEF remove_row
    <2>4. unref(t) = [t EXCEPT !.ref = @ - 1]
      BY <2>2, Zenon DEF unref
    <2>5. [t EXCEPT !.ref = @ - 1] = [s EXCEPT !.listed = FALSE, !.ref = @ - 1]
      BY DEF Xfer
    <2> QED BY <1>1, <2>3, <2>4, <2>5
  <1>2. CASE ~s.listed
    BY <1>2, Zenon DEF remove_row
  <1> QED BY <1>1, <1>2

\* s and t are held by the same, and have moved as much.
SameHolders(s, t) ==
    /\ t.ref = s.ref /\ t.live = s.live /\ t.status = s.status /\ t.local = s.local
    /\ t.dialog = s.dialog /\ t.notice = s.notice /\ t.listed = s.listed
    /\ t.connecting = s.connecting /\ t.leaked = s.leaked
    /\ t.type = s.type /\ t.ui = s.ui /\ t.answering = s.answering

SameCounters(s, t) ==
    /\ t.pos = s.pos /\ t.sent = s.sent /\ t.buffer = s.buffer
    /\ t.left = s.left /\ t.size = s.size

\* Closing keeps everything but what it closes.
LEMMA Close ==
    ASSUME NEW s \in Xfer, s.fd # "closed", s.misused = {} /\ ~s.answering
    PROVE  /\ Closed(s) \in Xfer /\ SameHolders(s, Closed(s)) /\ SameCounters(s, Closed(s))
           /\ ~Closed(s).watcher /\ ~Closed(s).fp /\ Closed(s).misused = {} /\ ~Closed(s).answering
           /\ Closed(s).fd # "open" /\ Closed(s).known = s.known
  <1> DEFINE f == IF s.fd = "open" THEN "closed" ELSE s.fd
             t == [s EXCEPT !.watcher = FALSE, !.fp = FALSE, !.misused = {}, !.fd = f]
  <1>1. (IF s.fd = "closed" THEN s.misused \cup {"fd"} ELSE s.misused) = {}
    OBVIOUS
  <1>2. Closed(s) = t
    BY <1>1 DEF Closed, Xfer
  <1>3. f \in {"none", "open", "closed"} /\ f # "open"
    BY DEF Xfer
  <1> HIDE DEF f
  <1>4. t \in Xfer
    BY <1>3 DEF Xfer
  <1>5. SameHolders(s, t)
    BY DEF Xfer, SameHolders
  <1>6. SameCounters(s, t)
    BY DEF Xfer, SameCounters
  <1>7. ~t.watcher /\ ~t.fp /\ t.misused = {} /\ ~t.answering /\ t.fd # "open" /\ t.known = s.known
    BY <1>3 DEF Xfer
  <1> QED BY <1>2, <1>4, <1>5, <1>6, <1>7

\* What is true of every transfer that is cancelled, "extra" references being
\* in the hand of a callback.
Cancellable(s, extra) ==
    /\ s \in Xfer /\ extra \in Nat
    /\ Refs(s, extra) /\ s.known
    /\ s.fd # "closed" /\ ~s.connecting /\ ~s.notice
    /\ s.listed => s.local

\* purple_xfer_cancel_local and purple_xfer_cancel_remote: the transfer is
\* over, and the callback has its references still.
LEMMA Cancel ==
    ASSUME NEW s, NEW extra, Cancellable(s, extra),
           NEW status \in {"cancel_local", "cancel_remote"}
    PROVE  LET t == cancel(s, status)
           IN  /\ Over(t, extra) /\ t.status = status
               /\ t.type = s.type /\ t.ui = s.ui
               /\ t.listed => s.listed
               /\ status = "cancel_remote" => t.listed = s.listed
  <1> DEFINE a == close_dialog(s)
             b == [a EXCEPT !.status = status, !.known = FALSE]
             t == Closed(b)
             u == IF t.clear /\ status = "cancel_local" THEN remove_row(t) ELSE t
             v == [u EXCEPT !.left = 0]
  <1>1. cancel(s, status) = unref(v)
    BY Zenon DEF cancel
  <1>2. extra \in Nat /\ s \in Xfer /\ s.ref \in Nat /\ s.leaked \in Nat
    BY DEF Cancellable, Xfer
  <1>3. /\ a \in Xfer /\ a.dialog = "none" /\ ~a.notice /\ a.misused = {} /\ ~a.answering
        /\ a.ref = 1 + One(a.listed) + a.leaked + extra /\ a.live
        /\ a.fd # "closed" /\ ~a.connecting
        /\ a.listed => a.local
        /\ a.type = s.type /\ a.ui = s.ui /\ a.listed = s.listed
    <2> DEFINE r == [s EXCEPT !.answering = FALSE]
    <2>0. r = s
      BY <1>2 DEF Cancellable, Refs, Held, Xfer
    <2>a. a = IF s.dialog = "none" THEN r ELSE [r EXCEPT !.dialog = "none", !.leaked = @ + 1]
      BY Zenon DEF close_dialog
    <2> HIDE DEF r, a
    <2>1. CASE s.dialog = "none"
      <3>1. a = s
        BY <2>0, <2>a, <2>1
      <3> QED BY <1>2, <2>1, <3>1 DEF Cancellable, Refs, Held, One
    <2>2. CASE s.dialog # "none"
      <3> DEFINE w == [s EXCEPT !.dialog = "none", !.leaked = @ + 1]
      <3>1. a = w
        BY <2>0, <2>a, <2>2
      <3>2. /\ w \in Xfer /\ w.dialog = "none" /\ w.leaked = s.leaked + 1
            /\ w.notice = s.notice /\ w.misused = s.misused /\ w.answering = s.answering /\ w.ref = s.ref
            /\ w.listed = s.listed /\ w.live = s.live /\ w.fd = s.fd
            /\ w.connecting = s.connecting /\ w.local = s.local
            /\ w.type = s.type /\ w.ui = s.ui
        <4>1. s.leaked + 1 \in Nat
          BY <1>2
        <4>2. w \in Xfer
          BY <1>2, <4>1 DEF Xfer, Dialogs
        <4> QED BY <1>2, <4>2 DEF Xfer
      <3> HIDE DEF w
      <3> QED BY <1>2, <2>2, <3>1, <3>2 DEF Cancellable, Refs, Held, One
    <2> QED BY <2>1, <2>2
  <1> HIDE DEF a
  <1>4. /\ b \in Xfer /\ b.status = status /\ ~b.known
        /\ b.dialog = "none" /\ ~b.notice /\ b.misused = {} /\ ~b.answering
        /\ b.ref = 1 + One(b.listed) + b.leaked + extra /\ b.live
        /\ b.fd # "closed" /\ ~b.connecting
        /\ b.listed => b.local
        /\ b.type = s.type /\ b.ui = s.ui /\ b.listed = s.listed
    <2>1. b \in Xfer
      BY <1>3 DEF Xfer, Statuses
    <2>2. b.status = status /\ ~b.known
      BY <1>3 DEF Xfer
    <2>3. /\ b.dialog = a.dialog /\ b.notice = a.notice /\ b.misused = a.misused /\ b.answering = a.answering
          /\ b.ref = a.ref /\ b.listed = a.listed /\ b.leaked = a.leaked /\ b.live = a.live
      BY <1>3 DEF Xfer
    <2>4. b.fd = a.fd /\ b.connecting = a.connecting /\ b.local = a.local
          /\ b.type = a.type /\ b.ui = a.ui
      BY <1>3 DEF Xfer
    <2> QED BY <1>3, <2>1, <2>2, <2>3, <2>4
  <1> HIDE DEF b
  <1>5. /\ t \in Xfer /\ t.status = status /\ ~t.known /\ Idle(t) /\ t.misused = {} /\ ~t.answering
        /\ t.ref = 1 + One(t.listed) + t.leaked + extra /\ t.live
        /\ t.listed => t.local
        /\ t.type = s.type /\ t.ui = s.ui /\ t.listed = s.listed
    <2>1. t \in Xfer /\ SameHolders(b, t) /\ ~t.watcher /\ ~t.fp /\ t.misused = {} /\ ~t.answering
          /\ t.fd # "open" /\ t.known = b.known
      BY <1>4, Close
    <2> HIDE DEF t
    <2> QED BY <1>4, <2>1 DEF SameHolders, Idle
  <1> HIDE DEF t
  <1>6. /\ u \in Xfer /\ u.status = status /\ ~u.known /\ Idle(u) /\ u.misused = {} /\ ~u.answering
        /\ u.ref = 1 + One(u.listed) + u.leaked + extra /\ u.live
        /\ u.listed => u.local
        /\ u.type = s.type /\ u.ui = s.ui /\ (u.listed => s.listed)
        /\ status = "cancel_remote" => u.listed = s.listed
    <2>0. t.leaked \in Nat /\ (t.listed => t.ref > 1)
      BY <1>5, <1>2 DEF One, Xfer
    <2>1. remove_row(t) = IF t.listed THEN [t EXCEPT !.listed = FALSE, !.ref = @ - 1]
                          ELSE t
      BY <1>5, <2>0, RemoveRow
    <2>2. CASE u = t
      <3> HIDE DEF u
      <3> QED BY <2>2, <1>5
    <2>3. CASE u = [t EXCEPT !.listed = FALSE, !.ref = @ - 1] /\ t.listed
               /\ status = "cancel_local"
      <3> DEFINE w == [t EXCEPT !.listed = FALSE, !.ref = @ - 1]
      <3>1. t.ref - 1 \in Nat /\ t.ref - 1 = 1 + t.leaked + extra
        BY <2>3, <2>0, <1>5, <1>2 DEF One
      <3>2. /\ w \in Xfer /\ w.status = t.status /\ w.known = t.known /\ Idle(w)
            /\ w.misused = t.misused /\ w.answering = t.answering /\ w.ref = t.ref - 1 /\ ~w.listed
            /\ w.leaked = t.leaked /\ w.live = t.live
            /\ w.type = t.type /\ w.ui = t.ui
        <4>1. t \in Xfer
          BY <1>5
        <4>2. w \in Xfer
          BY <3>1, <4>1 DEF Xfer
        <4>3. Idle(w)
          BY <4>1, <1>5 DEF Xfer, Idle
        <4> QED BY <4>1, <4>2, <4>3 DEF Xfer
      <3> HIDE DEF w, u
      <3>3. u = w
        BY <2>3 DEF w
      <3>4. w.ref = 1 + One(w.listed) + w.leaked + extra
        BY <3>1, <3>2, <2>0, <1>2 DEF One
      <3> QED BY <2>3, <3>2, <3>3, <3>4, <1>5
    <2> QED BY <2>1, <2>2, <2>3
  <1> HIDE DEF u
  <1>7. /\ v \in Xfer /\ v.status = status /\ ~v.known /\ Idle(v) /\ v.misused = {} /\ ~v.answering
        /\ v.ref = 1 + One(v.listed) + v.leaked + extra /\ v.live
        /\ v.listed => v.local
        /\ v.type = s.type /\ v.ui = s.ui /\ (v.listed => s.listed)
        /\ status = "cancel_remote" => v.listed = s.listed
    <2>1. u \in Xfer
      BY <1>6
    <2>2. v \in Xfer
      BY <2>1, NoBytes, ZenonT(60) DEF Xfer
    <2>3. Idle(v)
      BY <1>6, <2>1 DEF Xfer, Idle
    <2>4. SameHolders(u, v) /\ v.known = u.known /\ v.misused = u.misused /\ v.answering = u.answering
      BY <2>1 DEF Xfer, SameHolders
    <2> QED BY <1>6, <2>2, <2>3, <2>4 DEF SameHolders
  <1> HIDE DEF v
  <1>8. v.leaked \in Nat /\ v.ref \in Nat /\ v.ref > 0 /\ v.ref - 1 = One(v.listed) + v.leaked + extra
    BY <1>7, <1>2 DEF One, Xfer
  <1> DEFINE w == unref(v)
  <1>9. /\ w \in Xfer /\ Alike(v, w) /\ w.ref = v.ref - 1
        /\ w.live <=> v.ref > 1
    BY <1>7, <1>8, Unref DEF Idle
  <1> HIDE DEF w
  <1>10. Refs(w, extra) /\ Idle(w)
    BY <1>7, <1>8, <1>9, <1>2 DEF Refs, Held, Idle, One, Alike
  <1>11. /\ w.status = status /\ ~w.known /\ (w.listed => w.local)
         /\ w.type = s.type /\ w.ui = s.ui /\ (w.listed => s.listed)
         /\ status = "cancel_remote" => w.listed = s.listed
    BY <1>7, <1>9 DEF Alike
  <1>12. Over(w, extra)
    BY <1>9, <1>10, <1>11 DEF Over, Ended, Bytes
  <1> QED BY <1>1, <1>11, <1>12 DEF w

\* Once no callback holds a transfer that is over, it is sound.
LEMMA OverIsSound ==
    ASSUME NEW t, Over(t, 0)
    PROVE  Sound(t)
  BY Clean DEF Over, Sound, Refs

\* So it is if something was read after it had been freed with it.
LEMMA StaleIsSound ==
    ASSUME NEW t, Sound(t), ~t.known, ~t.listed,
           NEW what \in {"priv", "dialog"},
           what = "priv" => t.type = "send" /\ t.ui = "moderated"
                              /\ t.status = "cancel_remote" /\ ~t.live,
           what = "dialog" => (t.status \in Ended /\ t.type = "send") \/ ~t.live
    PROVE  LET u == [t EXCEPT !.misused = @ \cup {what}]
           IN  Sound(u) /\ u.status = t.status
  <1> DEFINE m == t.misused \cup {what}
             u == [t EXCEPT !.misused = m]
  <1>1. t \in Xfer /\ m \in SUBSET {"xfer", "fd", "priv", "dialog"}
    BY DEF Sound, Xfer
  <1>2. m \subseteq {"priv", "dialog"}
    BY DEF Sound, Misuse
  <1>2a. "priv" \in m => t.type = "send" /\ t.ui = "moderated" /\ t.status = "cancel_remote"
                           /\ ~t.live
    BY DEF Sound, Misuse
  <1>2b. "dialog" \in m => (t.status \in Ended /\ t.type = "send") \/ ~t.live
    BY DEF Sound, Misuse
  <1> HIDE DEF m
  <1>3. u \in Xfer
    BY <1>1, ZenonT(60) DEF Xfer
  <1>4. u.misused = m /\ u.ref = t.ref /\ u.live = t.live
    BY <1>1 DEF Xfer
  <1>5. /\ u.type = t.type /\ u.ui = t.ui /\ u.size = t.size /\ u.local = t.local
        /\ u.status = t.status /\ u.fp = t.fp /\ u.fd = t.fd /\ u.watcher = t.watcher
        /\ u.ready = t.ready /\ u.pos = t.pos /\ u.buffer = t.buffer /\ u.sent = t.sent
        /\ u.left = t.left /\ u.known = t.known /\ u.dialog = t.dialog
        /\ u.notice = t.notice /\ u.listed = t.listed /\ u.connecting = t.connecting
        /\ u.leaked = t.leaked /\ u.answering = t.answering
    BY <1>1 DEF Xfer
  <1> HIDE DEF u
  <1>6. Held(u, 0)
    BY <1>4, <1>5 DEF Sound, Held
  <1>7. Misuse(u)
    BY <1>2, <1>2a, <1>2b, <1>4, <1>5 DEF Misuse
  <1>8. Bytes(u) /\ Idle(u)
    BY <1>5 DEF Sound, Bytes, Idle
  <1> QED BY <1>3, <1>5, <1>6, <1>7, <1>8 DEF Sound, u, m

-----------------------------------------------------------------------------
(* Moving the data.                                                        *)

\* A transfer whose data is being moved, but for the counters.
Begun(s) ==
    /\ s \in Xfer /\ Refs(s, 0)
    /\ s.known /\ s.begun /\ s.local
    /\ s.status \notin Ended /\ s.fd # "closed"
    /\ ~s.connecting /\ s.dialog = "none" /\ ~s.notice
    /\ s.watcher => s.fd = "open"
    /\ s.fp => s.ui = "pidgin"
    /\ s.ui = "pidgin" => s.listed
    /\ s.type = "receive" \/ s.ui = "moderated" => s.buffer = 0
    /\ Awake(s)

\* s and t differ in what is being moved, and in nothing else.
MovesOnly(s, t) ==
    /\ t.ref = s.ref /\ t.live = s.live /\ t.known = s.known /\ t.begun = s.begun
    /\ t.local = s.local /\ t.status = s.status /\ t.fd = s.fd
    /\ t.connecting = s.connecting /\ t.dialog = s.dialog /\ t.notice = s.notice
    /\ t.listed = s.listed /\ t.fp = s.fp /\ t.ui = s.ui /\ t.type = s.type
    /\ t.size = s.size /\ t.leaked = s.leaked /\ t.misused = s.misused /\ t.answering = s.answering

\* What has begun goes on when nothing but counters changes.
LEMMA BegunStill ==
    ASSUME NEW s, NEW t \in Xfer, Begun(s), MovesOnly(s, t),
           t.watcher = s.watcher, t.ready = s.ready,
           s.type = "receive" \/ s.ui = "moderated" => t.buffer = 0
    PROVE  Begun(t)
  <1>1. Refs(t, 0)
    BY DEF Begun, MovesOnly, Refs, Held
  <1>2. Awake(t)
    BY DEF Begun, MovesOnly, Awake
  <1> QED BY <1>1, <1>2 DEF Begun, MovesOnly

\* Its counters when r bytes were moved that are not counted yet.
Counted(s, r) ==
    /\ s.pos = s.sent + s.buffer + r
    /\ s.left = s.size - s.sent
    /\ s.buffer + r <= s.left
    /\ s.size > 0 /\ s.fd = "open" => s.sent < s.size

Moving(s) == Begun(s) /\ Counted(s, 0)

\* A sound transfer whose data is moved, in terms of Begun and Counted.
LEMMA MovingIsSound ==
    ASSUME NEW s
    PROVE  /\ Moving(s) => Sound(s)
           /\ Sound(s) /\ s.known /\ s.begun => Moving(s)
  <1>1. ASSUME Moving(s) PROVE Sound(s)
    <2>1. s \in Xfer /\ s.sent \in Nat /\ s.buffer \in Nat /\ s.pos \in Nat /\ s.left \in Nat
      BY <1>1 DEF Moving, Begun, Xfer
    <2>2. Active(s)
      BY <1>1, <2>1 DEF Moving, Begun, Counted, Active
    <2>3. Bytes(s)
      BY <1>1, <2>1 DEF Moving, Begun, Counted, Bytes, Ended
    <2> QED BY <1>1, <2>1, <2>2, <2>3, Clean DEF Moving, Begun, Sound
  <1>2. ASSUME Sound(s), s.known, s.begun PROVE Moving(s)
    <2>1. s \in Xfer /\ s.sent \in Nat /\ s.buffer \in Nat /\ s.pos \in Nat /\ s.left \in Nat
      BY <1>2 DEF Sound, Xfer
    <2>2. Active(s) /\ Bytes(s) /\ Refs(s, 0)
      BY <1>2, Clean DEF Sound
    <2>3. Begun(s)
      BY <1>2, <2>1, <2>2 DEF Active, Begun
    <2>4. Counted(s, 0)
      BY <2>1, <2>2 DEF Active, Counted, Bytes, Ended
    <2> QED BY <2>3, <2>4 DEF Moving
  <1> QED BY <1>1, <1>2

\* A transfer under way can be cancelled.
LEMMA CancelBegun ==
    ASSUME NEW s, Begun(s), NEW status \in {"cancel_local", "cancel_remote"}
    PROVE  Sound(cancel(s, status)) /\ cancel(s, status).status \in Ended
  <1>1. Cancellable(s, 0)
    BY DEF Begun, Cancellable
  <1>2. Over(cancel(s, status), 0)
    BY <1>1, Cancel
  <1> QED BY <1>2, OverIsSound DEF Over

\* purple_xfer_end of a transfer that is completed.
LEMMA End ==
    ASSUME NEW s \in Xfer, Refs(s, 0), s.known, s.local, s.status = "done",
           s.fd # "closed", ~s.connecting, s.dialog = "none", ~s.notice,
           s.pos = s.sent + s.buffer, s.left = s.size - s.sent,
           s.size > 0 => s.sent = s.size
    PROVE  Over(end(s), 0)
  <1> DEFINE a == [s EXCEPT !.known = FALSE]
             b == Closed(a)
             t == unref(b)
  <1>1. end(s) = t
    BY Zenon DEF end
  <1>2. a \in Xfer /\ SameHolders(s, a) /\ SameCounters(s, a)
        /\ ~a.known /\ a.fd = s.fd /\ a.misused = s.misused /\ a.answering = s.answering
    <2>1. a \in Xfer
      BY ZenonT(60) DEF Xfer
    <2>2. SameHolders(s, a)
      BY DEF Xfer, SameHolders
    <2>3. SameCounters(s, a)
      BY DEF Xfer, SameCounters
    <2> QED BY <2>1, <2>2, <2>3 DEF Xfer
  <1>3. s.ref \in Nat /\ s.leaked \in Nat /\ s.live /\ s.misused = {} /\ ~s.answering
        /\ s.ref = 1 + One(s.listed) + s.leaked
    BY DEF Refs, Held, One, Xfer
  <1> HIDE DEF a
  <1>4. b \in Xfer /\ SameHolders(a, b) /\ SameCounters(a, b)
        /\ ~b.watcher /\ ~b.fp /\ b.misused = {} /\ ~b.answering /\ b.fd # "open" /\ ~b.known
    BY <1>2, <1>3, Close
  <1> HIDE DEF b
  <1>5. SameHolders(s, b) /\ SameCounters(s, b)
    BY <1>2, <1>4 DEF SameHolders, SameCounters
  <1>6. /\ t \in Xfer /\ Alike(b, t) /\ t.ref = b.ref - 1
        /\ t.live <=> b.ref > 1
    <2>1. b.live /\ b.ref > 0 /\ b.status # "started" /\ b.dialog = "none"
      BY <1>3, <1>5 DEF One, SameHolders
    <2> QED BY <1>4, <2>1, Unref
  <1> HIDE DEF t
  <1>7. Refs(t, 0)
    BY <1>3, <1>4, <1>5, <1>6 DEF Refs, Held, One, Alike, SameHolders
  <1>8. Idle(t)
    BY <1>4, <1>5, <1>6 DEF Idle, Alike, SameHolders
  <1>9. Bytes(t)
    BY <1>4, <1>5, <1>6 DEF Bytes, Alike, SameCounters
  <1>10. ~t.known /\ t.local /\ t.status = "done"
    BY <1>4, <1>5, <1>6 DEF Alike, SameHolders
  <1> QED BY <1>1, <1>6, <1>7, <1>8, <1>9, <1>10 DEF Over, Ended

\* purple_xfer_set_completed: the row may go, everybody else stays.
LEMMA Complete ==
    ASSUME NEW s \in Xfer, Refs(s, 0), s.known, s.local, s.fd # "closed",
           ~s.connecting, s.dialog = "none", ~s.notice
    PROVE  LET t == set_completed(s)
           IN  /\ t \in Xfer /\ Refs(t, 0) /\ t.known /\ t.local /\ t.status = "done"
               /\ t.fd # "closed" /\ ~t.connecting /\ t.dialog = "none" /\ ~t.notice
               /\ SameCounters(s, t)
  <1> DEFINE t == set_completed(s)
             d == [s EXCEPT !.status = "done"]
  <1>1. d \in Xfer /\ Refs(d, 0) /\ d.known /\ d.local /\ d.status = "done"
        /\ d.fd # "closed" /\ ~d.connecting /\ d.dialog = "none" /\ ~d.notice
        /\ SameCounters(s, d) /\ d.live
    BY DEF Xfer, Statuses, Refs, Held, SameCounters, One
  <1>2. t = IF d.clear THEN remove_row(d) ELSE d
    BY Zenon DEF set_completed
  <1> HIDE DEF d, t
  <1>3. d.ref \in Nat /\ d.leaked \in Nat /\ (d.listed => d.ref > 1)
    BY <1>1 DEF Refs, Held, One, Xfer
  <1>4. remove_row(d) = IF d.listed THEN [d EXCEPT !.listed = FALSE, !.ref = @ - 1] ELSE d
    BY <1>1, <1>3, RemoveRow
  <1>5. CASE t = d
    BY <1>5, <1>1 DEF t
  <1>6. CASE t = [d EXCEPT !.listed = FALSE, !.ref = @ - 1] /\ d.listed
    <2>1. d.ref - 1 \in Nat
      BY <1>3, <1>6
    <2> DEFINE e == [d EXCEPT !.listed = FALSE, !.ref = @ - 1]
    <2>2. t \in Xfer
      <3>1. d \in Xfer
        BY <1>1
      <3>2. e \in Xfer
        BY <2>1, <3>1, ZenonT(60) DEF Xfer
      <3> QED BY <1>6, <3>2
    <2>3. t.known /\ t.local /\ t.status = "done"
          /\ t.fd # "closed" /\ ~t.connecting /\ t.dialog = "none" /\ ~t.notice
      BY <1>6, <1>1 DEF Xfer
    <2>4. SameCounters(s, t)
      BY <1>6, <1>1 DEF Xfer, SameCounters
    <2>5. Refs(t, 0)
      BY <1>6, <1>3, <1>1 DEF Xfer, Refs, Held, One
    <2> QED BY <2>2, <2>3, <2>4, <2>5 DEF t
  <1> QED BY <1>2, <1>4, <1>5, <1>6

\* r more bytes are counted, and the last ones complete the transfer.
LEMMA Move ==
    ASSUME NEW s, NEW r \in Nat, Begun(s),
           IF s.size > 0 THEN Counted(s, r) ELSE Counted(s, 0)
    PROVE  /\ Sound(Moved(s, r))
           /\ Moved(s, r).status = s.status \/ Moved(s, r).status \in Ended
  <1> DEFINE ends == s.size > 0 /\ s.sent + r >= s.size
             t == IF ends THEN set_completed(s) ELSE s
             u == IF s.size > 0 THEN [t EXCEPT !.left = @ - r, !.sent = @ + r] ELSE t
  <1>1. Moved(s, r) = IF u.status = "done" THEN end(u) ELSE u
    BY Zenon DEF Moved
  <1>2. s \in Xfer /\ s.size \in Nat /\ s.sent \in Nat /\ s.left \in Nat /\ s.buffer \in Nat
        /\ s.pos \in Nat /\ s.status # "done"
        /\ Size \in Nat /\ s.size <= Size /\ s.left <= Size
    BY SizeAssumption DEF Begun, Xfer, Ended
  <1>3. CASE ~ends /\ s.size > 0
    <2>1. t = s
      BY <1>3
    <2>2. s.left - r \in 0..Size /\ s.sent + r \in 0..Size
      BY <1>2, <1>3 DEF Counted
    <2> HIDE DEF t
    <2>3. Begun(u) /\ u.status = s.status
      <3>1. u = [s EXCEPT !.left = @ - r, !.sent = @ + r]
        BY <1>3, <2>1
      <3> HIDE DEF u, ends
      <3>2. u \in Xfer
        BY <1>2, <2>2, <3>1, ZenonT(60) DEF Xfer
      <3>3. MovesOnly(s, u)
        BY <1>2, <3>1 DEF Xfer, MovesOnly
      <3>4. u.watcher = s.watcher /\ u.ready = s.ready /\ u.buffer = s.buffer
        BY <1>2, <3>1 DEF Xfer
      <3>5. s.type = "receive" \/ s.ui = "moderated" => u.buffer = 0
        BY <3>4 DEF Begun
      <3> QED BY <3>2, <3>3, <3>4, <3>5, BegunStill DEF MovesOnly
    <2>4. Counted(u, 0)
      BY <1>2, <1>3, <2>1, <2>2 DEF Counted, Xfer
    <2> HIDE DEF u
    <2> QED BY <1>1, <1>2, <2>3, <2>4, MovingIsSound DEF Moving
  <1>4. CASE s.size = 0
    <2>1. u = s
      BY <1>4
    <2> QED BY <1>1, <1>2, <1>4, <2>1, MovingIsSound DEF Moving
  <1>5. CASE ends
    <2>3. t \in Xfer /\ Refs(t, 0) /\ t.known /\ t.local /\ t.status = "done"
          /\ t.fd # "closed" /\ ~t.connecting /\ t.dialog = "none" /\ ~t.notice
          /\ SameCounters(s, t)
      <3>1. t = set_completed(s)
        BY <1>5
      <3> QED BY <3>1, Complete DEF Begun
    <2> HIDE DEF t
    <2>4. /\ s.sent + r = s.size /\ s.left - r = 0
          /\ s.left - r \in 0..Size /\ s.sent + r \in 0..Size
      <3>1. s.sent + r = s.size /\ s.left - r = 0
        BY <1>2, <1>5 DEF Counted
      <3> QED BY <1>2, <3>1
    <2>5. u = [t EXCEPT !.left = @ - r, !.sent = @ + r]
      BY <1>5
    <2> HIDE DEF u
    <2>6. u \in Xfer /\ Refs(u, 0) /\ u.known /\ u.local /\ u.status = "done"
          /\ u.fd # "closed" /\ ~u.connecting /\ u.dialog = "none" /\ ~u.notice
      <3>0. t \in Xfer /\ t.left - r \in 0..Size /\ t.sent + r \in 0..Size
        BY <2>3, <2>4 DEF SameCounters
      <3>1. u \in Xfer
        BY <2>5, <3>0 DEF Xfer
      <3>2. MovesOnly(t, u)
        BY <2>5, <3>0 DEF Xfer, MovesOnly
      <3>3. Refs(u, 0)
        BY <2>3, <3>2 DEF Refs, Held, MovesOnly
      <3> QED BY <2>3, <3>1, <3>2, <3>3 DEF MovesOnly
    <2>7. u.pos = u.sent + u.buffer /\ u.left = u.size - u.sent /\ (u.size > 0 => u.sent = u.size)
      <3>1. u.pos = t.pos /\ u.buffer = t.buffer /\ u.size = t.size
            /\ u.sent = t.sent + r /\ u.left = t.left - r
        BY <2>3, <2>5 DEF Xfer
      <3>2. s.pos = s.sent + s.buffer + r
        BY <1>5 DEF Counted
      <3> QED BY <1>2, <1>5, <2>3, <2>4, <3>1, <3>2 DEF SameCounters
    <2>8. Over(end(u), 0)
      BY <2>6, <2>7, End
    <2> QED BY <1>1, <2>6, <2>8, OverIsSound DEF Over
  <1> QED BY <1>2, <1>3, <1>4, <1>5

\* What is known of a transfer that do_transfer left.
Left(s, t) == Sound(t) /\ (t.status = s.status \/ t.status \in Ended)

\* MinOf returns the least of two numbers.
LEMMA Least ==
    ASSUME NEW a \in Int, NEW b \in Int
    PROVE  MinOf(a, b) \in {a, b} /\ MinOf(a, b) <= a /\ MinOf(a, b) <= b
  BY DEF MinOf

\* purple_xfer_write and what follows it.
LEMMA Write ==
    ASSUME NEW s, Begun(s) \/ (s.ui = "moderated" /\ Begun([s EXCEPT !.buffer = 0])),
           s \in Xfer, s.type = "send", Counted(s, 0), s.size > 0, NEW t \in Written(s)
    PROVE  Left(s, t)
  <1>0. /\ s.sent \in Nat /\ s.left \in Nat /\ s.buffer \in Nat /\ s.pos \in Nat
        /\ s.size \in Nat /\ s.ui \in {"pidgin", "moderated"}
        /\ Size \in Nat /\ s.buffer <= Size /\ s.pos <= Size
    BY SizeAssumption DEF Xfer
  <1>1. CASE t = write_failed(s)
    <2> DEFINE c == cancel(s, "cancel_remote")
               m == [c EXCEPT !.misused = @ \cup {"priv"}]
    <2>1. Cancellable(s, 0)
      BY DEF Begun, Cancellable, Refs, Held, Xfer
    <2>2. Over(c, 0) /\ c.status = "cancel_remote" /\ c.type = "send" /\ c.ui = s.ui
          /\ c.listed = s.listed
      BY <2>1, Cancel
    <2>3. t = IF c.live THEN c ELSE m
      BY <1>1, Zenon DEF write_failed
    <2> HIDE DEF c, m
    <2>4. Sound(c) /\ c.status \in Ended /\ ~c.known
      BY <2>2, OverIsSound DEF Over
    <2>5. CASE c.live
      BY <2>3, <2>4, <2>5 DEF Left
    <2>6. CASE ~c.live
      <3>1. ~c.listed
        BY <2>2, <2>6 DEF Over, Refs, Held, One, Xfer
      <3>2. c.ui = "moderated"
        BY <1>0, <2>2, <3>1 DEF Begun
      <3>3. Sound(m) /\ m.status = c.status
        BY <2>2, <2>4, <2>6, <3>1, <3>2, StaleIsSound DEF m
      <3> QED BY <2>3, <2>4, <2>6, <3>3 DEF Left
    <2> QED BY <2>5, <2>6
  <1>2. ASSUME NEW r \in 0..MinOf(s.left, s.buffer), t = Moved(Kept(s, r), r)
        PROVE  Left(s, t)
    <2> DEFINE k == Kept(s, r)
    <2>1. r \in Nat /\ r <= s.left /\ r <= s.buffer /\ s.buffer - r \in 0..Size
          /\ s.pos - (s.buffer - r) \in 0..Size
      BY <1>0, Least DEF Counted
    <2>2. Begun(k) /\ Counted(k, r) /\ k.size > 0 /\ k.status = s.status
      <3>1. CASE s.ui = "pidgin"
        <4>1. k = [s EXCEPT !.buffer = @ - r]
          BY <3>1, Zenon DEF Kept
        <4> HIDE DEF k
        <4>2. k \in Xfer /\ k.size = s.size /\ k.status = s.status
          BY <2>1, <4>1, NoBytes DEF Xfer
        <4>3. Begun(s)
          BY <3>1
        <4>4. Begun(k)
          <5>1. MovesOnly(s, k)
            BY <4>1 DEF Xfer, MovesOnly
          <5>2. k.watcher = s.watcher /\ k.ready = s.ready
            BY <4>1 DEF Xfer
          <5> QED BY <3>1, <4>2, <4>3, <5>1, <5>2, BegunStill
        <4>5. Counted(k, r)
          BY <1>0, <2>1, <4>1 DEF Counted, Xfer
        <4> QED BY <4>2, <4>4, <4>5
      <3>2. CASE s.ui = "moderated"
        <4>1. k = [s EXCEPT !.pos = @ - (s.buffer - r), !.buffer = 0]
          BY <3>2, Zenon DEF Kept
        <4> HIDE DEF k
        <4>2. k \in Xfer /\ k.size = s.size /\ k.status = s.status
          BY <2>1, <4>1, NoBytes, ZenonT(60) DEF Xfer
        <4>4. Begun(k)
          BY <3>2, <4>1, <4>2 DEF Begun, Refs, Held, Awake, Xfer
        <4>5. Counted(k, r)
          BY <1>0, <2>1, <4>1 DEF Counted, Xfer
        <4> QED BY <4>2, <4>4, <4>5
      <3> QED BY <1>0, <3>1, <3>2
    <2> HIDE DEF k
    <2> QED BY <1>2, <2>1, <2>2, Move DEF Left, k
  <1> QED BY <1>1, <1>2, Zenon DEF Written

\* do_transfer when a file is received.
LEMMA Receive ==
    ASSUME NEW s, Moving(s), s.type = "receive", NEW t \in Received(s)
    PROVE  Left(s, t)
  <1> DEFINE most == IF s.size = 0 THEN Chunk ELSE MinOf(s.left, Chunk)
             m(r) == [s EXCEPT !.pos = IF s.size > 0 THEN @ + r ELSE @]
  <1>0. /\ s \in Xfer /\ s.left \in Nat /\ s.buffer \in Nat /\ s.pos \in Nat
        /\ s.size \in Nat /\ s.sent \in Nat /\ Begun(s) /\ Counted(s, 0)
        /\ Size \in Nat /\ s.size <= Size /\ s.buffer = 0
    BY SizeAssumption DEF Xfer, Moving, Begun
  <1>1. CASE t \in {cancel(s, "cancel_remote"), cancel(s, "cancel_local")}
    BY <1>0, <1>1, CancelBegun DEF Left
  <1>2. CASE t = s
    BY <1>2, MovingIsSound DEF Left
  <1>3. ASSUME NEW r \in 1..most, t = Moved(m(r), r)
        PROVE  Left(s, t)
    <2> DEFINE k == m(r)
    <2>1. r \in Nat /\ r > 0 /\ (s.size > 0 => r <= s.left)
      BY <1>0, SizeAssumption, Least
    <2>2. CASE s.size > 0
      <3>0. s.pos + r \in 0..Size
        BY <1>0, <2>1, <2>2 DEF Counted
      <3>1. k = [s EXCEPT !.pos = @ + r]
        BY <2>2
      <3> HIDE DEF k
      <3>2. k \in Xfer /\ k.size = s.size /\ k.status = s.status
        BY <1>0, <3>0, <3>1 DEF Xfer
      <3>3. Begun(k)
        <4>1. MovesOnly(s, k) /\ k.watcher = s.watcher /\ k.buffer = s.buffer
              /\ k.ready = s.ready
          BY <1>0, <3>1 DEF Xfer, MovesOnly
        <4> QED BY <1>0, <3>2, <4>1, ZenonT(60) DEF Begun, Refs, Held, Awake, MovesOnly
      <3>4. Counted(k, r)
        <4>1. k.pos = s.pos + r /\ k.sent = s.sent /\ k.buffer = s.buffer /\ k.left = s.left
              /\ k.fd = s.fd
          BY <1>0, <3>1 DEF Xfer
        <4>2. s.buffer + r <= s.left
          BY <1>0, <2>1, <2>2 DEF Begun
        <4> QED BY <1>0, <2>1, <3>2, <4>1, <4>2 DEF Counted
      <3> QED BY <1>3, <2>1, <2>2, <3>2, <3>3, <3>4, Move DEF Left, k
    <2>3. CASE s.size = 0
      <3>1. k = s
        BY <1>0, <2>3 DEF Xfer
      <3> HIDE DEF k
      <3> QED BY <1>0, <1>3, <2>1, <2>3, <3>1, Move DEF Left, k
    <2> QED BY <1>0, <2>2, <2>3
  <1> QED BY <1>1, <1>2, <1>3 DEF Received

\* do_transfer when a file is sent.
LEMMA Send ==
    ASSUME NEW s, Moving(s), s.type = "send", s.ui = "moderated" => s.ready = {},
           NEW t \in Sent(s)
    PROVE  Left(s, t)
  <1> DEFINE n    == MinOf(s.left, Chunk)
             need == IF s.buffer < n THEN n - s.buffer ELSE 0
  <1>0. /\ s \in Xfer /\ s.left \in Nat /\ s.buffer \in Nat /\ s.pos \in Nat
        /\ s.size \in Nat /\ s.size <= Size /\ Size \in Nat /\ s.sent \in Nat
        /\ Begun(s) /\ Counted(s, 0) /\ s.ui \in {"pidgin", "moderated"}
    BY SizeAssumption DEF Xfer, Moving, Begun
  <1>1. n \in Nat /\ n <= s.left /\ (n = 0 => s.left = 0) /\ need \in Nat /\ (n > 0 => s.size > 0)
    <2>1. n \in Nat /\ n <= s.left /\ (n = 0 => s.left = 0) /\ need \in Nat
      BY <1>0, SizeAssumption DEF MinOf
    <2> QED BY <1>0, <2>1 DEF Counted
  <1>2. CASE t \in {cancel(s, "cancel_remote"), cancel(s, "cancel_local")}
    BY <1>0, <1>2, CancelBegun DEF Left
  <1>3. CASE n = 0 /\ t = [s EXCEPT !.watcher = FALSE]
    <2>1. s.left = 0 /\ ~(s.size > 0 /\ s.fd = "open")
      BY <1>0, <1>1, <1>3 DEF Counted
    <2> HIDE DEF n, need
    <2>2. s \in Xfer /\ t = [s EXCEPT !.watcher = FALSE]
      BY <1>0, <1>3
    <2>3. t \in Xfer /\ t.status = s.status
      <3>1. t \in Xfer
        BY <2>2, ZenonT(60) DEF Xfer
      <3> QED BY <2>2, <3>1 DEF Xfer
    <2>4. MovesOnly(s, t) /\ ~t.watcher /\ t.ready = s.ready /\ t.buffer = s.buffer
      BY <2>2 DEF MovesOnly, Xfer
    <2>5. Begun(t)
      BY <1>0, <2>1, <2>3, <2>4 DEF Begun, MovesOnly, Refs, Held, Awake
    <2>6. Counted(t, 0)
      BY <1>0, <2>2 DEF Counted, Xfer
    <2> QED BY <2>3, <2>5, <2>6, MovingIsSound DEF Left, Moving
  <1>4. CASE s.ui = "moderated" /\ t = Waiting(s)
    <2> HIDE DEF n, need
    <2>1. t = [s EXCEPT !.watcher = FALSE, !.ready = {"prpl"}]
      BY <1>0, <1>4 DEF Waiting, Xfer
    <2>2. t \in Xfer /\ t.status = s.status
      <3>1. s \in Xfer
        BY <1>0
      <3>2. t \in Xfer
        BY <2>1, <3>1, ZenonT(60) DEF Xfer
      <3> QED BY <2>1, <3>1, <3>2 DEF Xfer
    <2>3. MovesOnly(s, t) /\ ~t.watcher /\ t.ready = {"prpl"} /\ t.buffer = s.buffer
      BY <1>0, <2>1 DEF MovesOnly, Xfer
    <2>4. Begun(t)
      <3>1. "ui" \notin t.ready /\ "prpl" \in t.ready
        BY <2>3
      <3>2. Awake(t)
        BY <2>3, <3>1 DEF Awake
      <3>3. Refs(t, 0)
        BY <1>0, <2>3 DEF Begun, MovesOnly, Refs, Held
      <3> QED BY <1>0, <2>2, <2>3, <3>2, <3>3 DEF Begun, MovesOnly
    <2>5. Counted(t, 0)
      BY <1>0, <2>1 DEF Counted, Xfer
    <2> QED BY <2>2, <2>4, <2>5, MovingIsSound DEF Left, Moving
  <1>5. CASE s.ui = "pidgin" /\ n > 0 /\ t \in Written([s EXCEPT !.pos = @ + need, !.buffer = @ + need])
    <2> DEFINE k == [s EXCEPT !.pos = @ + need, !.buffer = @ + need]
    <2>1. /\ s.buffer + need <= s.left
          /\ s.pos + need \in 0..Size /\ s.buffer + need \in 0..Size
      BY <1>0, <1>1, SMTT(30) DEF Counted
    <2> HIDE DEF need
    <2>0. s \in Xfer
      BY <1>0
    <2>2. k \in Xfer /\ k.status = s.status /\ k.size = s.size /\ k.type = s.type
      <3>1. k \in Xfer
        BY <2>0, <2>1 DEF Xfer
      <3> QED BY <2>0, <3>1 DEF Xfer
    <2>3. k.pos = s.pos + need /\ k.buffer = s.buffer + need /\ k.sent = s.sent
          /\ k.left = s.left /\ k.fd = s.fd
      BY <2>0 DEF Xfer
    <2>4. Begun(k)
      <3>1. MovesOnly(s, k)
        BY <2>0 DEF Xfer, MovesOnly
      <3>2. k.watcher = s.watcher /\ k.ready = s.ready
        BY <2>0 DEF Xfer
      <3> QED BY <1>0, <1>5, <2>2, <3>1, <3>2, BegunStill
    <2>5. Counted(k, 0)
      BY <1>0, <1>1, <2>1, <2>2, <2>3 DEF Counted
    <2> HIDE DEF k
    <2>6. Left(k, t)
      BY <1>0, <1>1, <1>5, <2>2, <2>4, <2>5, Write DEF k
    <2> QED BY <2>2, <2>6 DEF Left
  <1>6. ASSUME s.ui = "moderated", NEW j \in 1..n, t \in Written([s EXCEPT !.pos = @ + j, !.buffer = j])
        PROVE  Left(s, t)
    <2> DEFINE k == [s EXCEPT !.pos = @ + j, !.buffer = j]
    <2>0. s.buffer = 0
      BY <1>0, <1>6 DEF Begun
    <2>1. s.pos + j \in 0..Size /\ j \in 0..Size /\ j <= s.left /\ s.size > 0
      BY <1>0, <1>1, <2>0 DEF Counted
    <2> HIDE DEF n, need
    <2>2. k \in Xfer /\ k.status = s.status /\ k.size = s.size /\ k.type = s.type /\ k.ui = s.ui
      <3>1. s \in Xfer
        BY <1>0
      <3>2. k \in Xfer
        BY <2>1, <3>1 DEF Xfer
      <3> QED BY <3>1, <3>2 DEF Xfer
    <2>3. k.pos = s.pos + j /\ k.buffer = j /\ k.sent = s.sent
          /\ k.left = s.left /\ k.fd = s.fd
      BY <1>0 DEF Xfer
    <2> DEFINE e == [k EXCEPT !.buffer = 0]
    <2>4. Begun(e)
      <3>1. e = [s EXCEPT !.pos = @ + j, !.buffer = 0]
        BY <1>0 DEF Xfer
      <3>2. e \in Xfer
        BY <2>2, NoBytes DEF Xfer
      <3> HIDE DEF e
      <3>3. MovesOnly(s, e) /\ e.watcher = s.watcher /\ e.ready = s.ready /\ e.buffer = 0
        BY <1>0, <3>1 DEF MovesOnly, Xfer
      <3> QED BY <1>0, <3>2, <3>3, ZenonT(60) DEF Begun, MovesOnly, Refs, Held, Awake
    <2>5. Counted(k, 0)
      <3>1. j \in Nat
        OBVIOUS
      <3> QED BY <1>0, <2>0, <2>1, <2>2, <2>3, <3>1 DEF Counted
    <2> HIDE DEF k
    <2>6. Left(k, t)
      BY <1>0, <1>6, <2>1, <2>2, <2>4, <2>5, Write DEF k
    <2> QED BY <2>2, <2>6 DEF Left
  <1> QED
    <2>1. n > 0 \/ n = 0
      BY <1>1
    <2>2. Sent(s) = CASE n = 0 -> {[s EXCEPT !.watcher = FALSE]}
          [] n > 0 /\ s.ui = "pidgin" ->
               (IF need > 0 THEN {cancel(s, "cancel_local")} ELSE {})
                 \cup Written([s EXCEPT !.pos = @ + need, !.buffer = @ + need])
          [] n > 0 /\ s.ui = "moderated" ->
               {Waiting(s), cancel(s, "cancel_local")}
                 \cup UNION {Written([s EXCEPT !.pos = @ + k, !.buffer = k]) : k \in 1..n}
      BY Zenon DEF Sent
    <2> HIDE DEF n, need
    <2>3. CASE n = 0
      BY <1>3, <2>2, <2>3
    <2>4. CASE n > 0 /\ s.ui = "pidgin"
      <3>1. n # 0 /\ s.ui # "moderated"
        BY <1>1, <2>4
      <3>2. t \in (IF need > 0 THEN {cancel(s, "cancel_local")} ELSE {})
                 \cup Written([s EXCEPT !.pos = @ + need, !.buffer = @ + need])
        BY <2>2, <2>4, <3>1
      <3> QED BY <1>2, <1>5, <2>4, <3>2
    <2>5. CASE n > 0 /\ s.ui = "moderated"
      <3>1. n # 0 /\ s.ui # "pidgin"
        BY <1>1, <2>5
      <3>2. t \in {Waiting(s), cancel(s, "cancel_local")}
                 \cup UNION {Written([s EXCEPT !.pos = @ + k, !.buffer = k]) : k \in 1..n}
        BY <2>2, <2>5, <3>1
      <3> QED BY <1>2, <1>4, <1>6, <2>5, <3>2
    <2> QED BY <1>0, <2>1, <2>3, <2>4, <2>5

\* do_transfer leaves a sound transfer, in whatever direction.
LEMMA DoTransfer ==
    ASSUME NEW s, Moving(s), s.ui = "moderated" => s.ready = {}, NEW t \in do_transfer(s)
    PROVE  Left(s, t)
  <1>1. s.type \in {"send", "receive"}
    BY DEF Moving, Begun, Xfer
  <1> QED BY <1>1, Receive, Send DEF do_transfer

-----------------------------------------------------------------------------
(* Before the data is moved.                                               *)

\* A transfer that nobody is asked about at the moment, "extra" references
\* being in the hand of a callback.
Pending(s, extra) ==
    /\ s \in Xfer /\ extra \in Nat
    /\ Refs(s, extra) /\ s.known
    /\ s.dialog = "none" /\ ~s.notice
    /\ s.listed => s.local
    /\ Active(s) /\ Bytes(s)

\* A sound transfer that nobody is asked about, in terms of Pending.
LEMMA PendingIsSound ==
    ASSUME NEW s
    PROVE  /\ Pending(s, 0) => Sound(s)
           /\ Sound(s) /\ s.known /\ s.dialog = "none" /\ ~s.notice => Pending(s, 0)
  BY Clean DEF Pending, Sound

\* A callback gives its reference back.
LEMMA GiveBack ==
    ASSUME NEW s, Pending(s, 1)
    PROVE  Sound(unref(s)) /\ unref(s).status = s.status
  <1> DEFINE t == unref(s)
  <1>1. s.ref \in Nat /\ s.leaked \in Nat /\ s.ref > 1 /\ s.live /\ s \in Xfer
    BY DEF Pending, Refs, Held, One, Xfer
  <1>2. t \in Xfer /\ Alike(s, t) /\ t.ref = s.ref - 1 /\ t.live
    BY <1>1, Unref
  <1> HIDE DEF t
  <1>3. Active(t) /\ Bytes(t)
    BY <1>2 DEF Pending, Active, Bytes, Awake, Alike
  <1>4. Refs(t, 0)
    BY <1>1, <1>2 DEF Pending, Refs, Held, One, Alike
  <1>5. Pending(t, 0)
    BY <1>2, <1>3, <1>4 DEF Pending, Alike
  <1> QED BY <1>2, <1>5, PendingIsSound DEF Alike, t

\* A transfer is refused before it has a local file: the protocol forgets it and
\* the callback gives its reference back.
LEMMA Deny ==
    ASSUME NEW s \in Xfer, Refs(s, 1), s.known, ~s.local, ~s.listed,
           s.dialog = "none", ~s.notice, ~s.connecting, s.fd # "open", ~s.watcher, ~s.fp,
           "prpl" \notin s.ready, s.status # "started", Bytes(s)
    PROVE  LET t == unref(request_denied(s))
           IN  Sound(t) /\ t.status = s.status /\ ~t.known /\ ~t.listed
  <1> DEFINE a == [s EXCEPT !.known = FALSE]
             b == unref(a)
             t == unref(b)
  <1>1. request_denied(s) = b
    BY Zenon DEF request_denied
  <1>2. s.ref \in Nat /\ s.leaked \in Nat /\ s.ref = 2 + s.leaked /\ s.live /\ s.misused = {} /\ ~s.answering
    BY DEF Refs, Held, One, Xfer
  <1>3. a \in Xfer /\ SameHolders(s, a) /\ SameCounters(s, a) /\ ~a.known
        /\ a.fd = s.fd /\ a.watcher = s.watcher /\ a.fp = s.fp /\ a.ready = s.ready
        /\ a.misused = s.misused /\ a.answering = s.answering
    BY DEF Xfer, SameHolders, SameCounters
  <1> HIDE DEF a
  <1>4. b \in Xfer /\ Alike(a, b) /\ b.ref = a.ref - 1 /\ b.live
    <2>1. a.live /\ a.ref > 0 /\ a.ref # 1 /\ a.ref > 1
      BY <1>2, <1>3 DEF SameHolders
    <2> QED BY <1>3, <2>1, Unref
  <1> HIDE DEF b
  <1>5. b.ref = 1 + s.leaked /\ b.status = s.status /\ b.dialog = "none" /\ ~b.notice
        /\ ~b.listed /\ ~b.local /\ ~b.known /\ ~b.connecting /\ b.misused = {} /\ ~b.answering
        /\ ~b.watcher /\ ~b.fp /\ b.fd # "open" /\ b.leaked = s.leaked
        /\ "prpl" \notin b.ready
    BY <1>2, <1>3, <1>4 DEF Alike, SameHolders
  <1>6. Bytes(b)
    BY <1>3, <1>4 DEF Bytes, Alike, SameHolders, SameCounters
  <1>7. t \in Xfer /\ Alike(b, t) /\ t.ref = b.ref - 1 /\ (t.live <=> b.ref > 1)
    <2>1. b.ref > 0 /\ b.status # "started"
      BY <1>2, <1>5
    <2> QED BY <1>4, <1>5, <2>1, Unref
  <1> HIDE DEF t
  <1>8. Refs(t, 0)
    BY <1>2, <1>5, <1>7 DEF Refs, Held, One, Alike
  <1>9. Idle(t) /\ Bytes(t)
    BY <1>5, <1>6, <1>7 DEF Idle, Bytes, Alike
  <1>10. ~t.known /\ ~t.local /\ ~t.listed /\ "prpl" \notin t.ready /\ t.status = s.status
    BY <1>5, <1>7 DEF Alike
  <1>11. Sound(t)
    BY <1>7, <1>8, <1>9, <1>10, Clean DEF Sound
  <1> QED BY <1>1, <1>10, <1>11 DEF t, b

\* begin_transfer: the data of p can be moved over its new socket, if it has
\* one, or the transfer is cancelled.
LEMMA Begin ==
    ASSUME NEW p, Pending(p, 0), p.local, ~p.connecting, ~p.begun,
           NEW f \in {"none", "open"}, NEW t \in begin_transfer([p EXCEPT !.fd = f])
    PROVE  Left(p, t)
  <1> DEFINE s == [p EXCEPT !.fd = f]
  <1>1. p \in Xfer /\ Active(p) /\ Bytes(p) /\ Refs(p, 0) /\ p.sent \in Nat
        /\ p.buffer \in Nat /\ p.pos \in Nat /\ p.left \in Nat /\ p.size \in Nat
    BY SizeAssumption DEF Pending, Xfer
  <1>2. s \in Xfer /\ SameHolders(p, s) /\ SameCounters(p, s) /\ s.fd = f
        /\ s.known /\ s.misused = {} /\ ~s.answering /\ ~s.begun /\ s.ui = p.ui /\ s.type = p.type
        /\ s.ready = p.ready
    <2>0. p \in Xfer /\ p.known /\ p.misused = {} /\ ~p.answering
      BY <1>1 DEF Pending, Refs, Held
    <2>1. s \in Xfer
      BY <2>0 DEF Xfer
    <2>2. SameHolders(p, s)
      BY <2>0 DEF Xfer, SameHolders
    <2>3. SameCounters(p, s)
      BY <2>0 DEF Xfer, SameCounters
    <2> QED BY <2>0, <2>1, <2>2, <2>3 DEF Xfer
  <1>3. ASSUME NEW o \in BOOLEAN, NEW w \in BOOLEAN, o <=> s.ui = "pidgin", w <=> s.fd # "none",
               t = [s EXCEPT !.fp = o, !.watcher = w, !.begun = TRUE]
        PROVE  Left(p, t)
    <2> HIDE DEF s
    <2>1. t \in Xfer /\ SameHolders(s, t) /\ SameCounters(s, t) /\ t.fd = s.fd /\ t.ui = s.ui
          /\ t.type = s.type /\ t.ready = s.ready /\ t.begun /\ (t.fp <=> o) /\ (t.watcher <=> w)
          /\ t.known /\ t.misused = {} /\ ~t.answering
      <3>0. s \in Xfer /\ s.known /\ s.misused = {} /\ ~s.answering
        BY <1>2
      <3> DEFINE t1 == [s EXCEPT !.fp = o]
                 t2 == [t1 EXCEPT !.watcher = w]
      <3>a. t1 \in Xfer
        BY <3>0, <1>3 DEF Xfer
      <3>b. t2 \in Xfer
        <4> HIDE DEF t1
        <4> QED BY <3>a, <1>3 DEF Xfer
      <3>c. [t2 EXCEPT !.begun = TRUE] \in Xfer
        <4> HIDE DEF t2
        <4> QED BY <3>b DEF Xfer
      <3>1. t \in Xfer
        <4>1. t = [t2 EXCEPT !.begun = TRUE]
          BY <1>3
        <4> HIDE DEF t2
        <4> QED BY <3>c, <4>1
      <3>2. SameHolders(s, t)
        BY <3>0, <1>3 DEF Xfer, SameHolders
      <3>3. SameCounters(s, t)
        BY <3>0, <1>3 DEF Xfer, SameCounters
      <3>4. t.fd = s.fd /\ t.ui = s.ui /\ t.type = s.type /\ t.ready = s.ready
        BY <3>0, <1>3 DEF Xfer
      <3> QED BY <3>0, <3>1, <3>2, <3>3, <3>4, <1>3 DEF Xfer
    <2>2. Refs(t, 0)
      BY <1>1, <1>2, <2>1 DEF Pending, Refs, Held, One, SameHolders
    <2>3. "prpl" \notin t.ready
      BY <1>1, <1>2, <2>1 DEF Active
    <2>4. Awake(t)
      BY <1>2, <1>3, <2>1, <2>3 DEF Awake
    <2>5. Begun(t)
      <3>1. t.status \notin Ended /\ t.local /\ t.dialog = "none" /\ ~t.notice /\ ~t.connecting
        BY <1>1, <1>2, <2>1 DEF Pending, Active, SameHolders
      <3>2. t.fd # "closed" /\ (t.watcher => t.fd = "open") /\ (t.fp => t.ui = "pidgin")
        BY <1>2, <1>3, <2>1
      <3>3. /\ t.ui = "pidgin" => t.listed
            /\ t.type = "receive" \/ t.ui = "moderated" => t.buffer = 0
        BY <1>1, <1>2, <2>1 DEF Active, SameCounters, SameHolders
      <3> QED BY <2>1, <2>2, <2>4, <3>1, <3>2, <3>3 DEF Begun
    <2>6. Counted(t, 0)
      <3>1. p.pos = p.sent + p.buffer /\ p.left = p.size - p.sent /\ p.sent = 0 /\ p.buffer <= p.left
        BY <1>1 DEF Active, Bytes, Ended
      <3> QED BY <1>1, <1>2, <2>1, <3>1 DEF Counted, SameCounters
    <2>7. t.status = p.status
      BY <1>2, <2>1 DEF SameHolders
    <2> QED BY <2>5, <2>6, <2>7, MovingIsSound DEF Left, Moving
  <1>4. CASE t = cancel(s, "cancel_local")
    <2>1. Cancellable(s, 0)
      BY <1>1, <1>2 DEF Cancellable, Pending, Refs, Held, One, SameHolders
    <2>2. Over(t, 0)
      BY <1>4, <2>1, Cancel
    <2> QED BY <2>2, OverIsSound DEF Left, Over
  <1>5. t = cancel(s, "cancel_local")
          \/ t = [s EXCEPT !.fp = (s.ui = "pidgin"), !.watcher = (s.fd # "none"), !.begun = TRUE]
    <2> HIDE DEF s
    <2> QED BY <1>2, Zenon DEF begin_transfer, s
  <1>6. (s.ui = "pidgin") \in BOOLEAN /\ (s.fd # "none") \in BOOLEAN
    BY Zenon
  <1> HIDE DEF s
  <1> QED BY <1>3, <1>4, <1>5, <1>6, Zenon

\* purple_xfer_request_accepted, if the name is not refused.
LEMMA Accept ==
    ASSUME NEW s, NEW extra, Pending(s, extra), ~s.local, Events = {},
           NEW sizes \in SUBSET {0, Size}, NEW t \in request_accepted(s, sizes)
    PROVE  Pending(t, extra) /\ t.local
           /\ (t.status = s.status \/ (t.status = "accepted" /\ s.status = "unknown"))
  <1> DEFINE st   == IF s.type = "receive" THEN "accepted" ELSE s.status
             a(n) == [s EXCEPT !.local = TRUE, !.named = TRUE, !.status = st,
                               !.size = n, !.left = n]
             b(n) == [a(n) EXCEPT !.listed = TRUE, !.ref = @ + 1]
  <1>0. /\ s \in Xfer /\ Active(s) /\ s.status \in {"unknown", "accepted"} /\ s.ref \in Nat
        /\ s.left = s.size /\ s.sent = 0 /\ s.buffer = 0 /\ s.pos = 0 /\ extra \in Nat
        /\ ~s.begun /\ s.fd = "none" /\ ~s.listed /\ ~s.connecting
    <2>1. s \in Xfer /\ Active(s) /\ Bytes(s) /\ extra \in Nat
      BY DEF Pending
    <2>2. /\ s.status \in {"unknown", "accepted"} /\ ~s.begun /\ s.fd = "none"
          /\ ~s.connecting /\ s.sent = 0 /\ s.buffer = 0
      BY <2>1 DEF Active, Ended, Xfer, Statuses
    <2>3. s.size \in Nat /\ s.pos \in Nat /\ s.left \in Nat /\ s.ref \in Nat /\ s.listed \in BOOLEAN
      BY <2>1, SizeAssumption DEF Xfer
    <2>4. s.left = s.size /\ s.pos = 0
      BY <2>1, <2>2, <2>3 DEF Bytes
    <2> QED BY <2>1, <2>2, <2>3, <2>4 DEF Pending
  <1>0a. \A n \in {0, Size} : n - s.sent = n
    <2> HIDE DEF a, b
    <2> QED BY <1>0, SizeAssumption
  <1>1. PICK n \in {0, Size} : t = IF s.ui = "pidgin" THEN b(n) ELSE a(n)
    <2> DEFINE c == [s EXCEPT !.local = TRUE, !.named = TRUE, !.status = st]
               Sized == IF s.type = "send" /\ s.ui = "pidgin"
                        THEN {[c EXCEPT !.size = n, !.left = n - s.sent] : n \in sizes} ELSE {c}
    <2>1. \E u \in Sized :
             t = IF s.ui = "pidgin" THEN [u EXCEPT !.listed = TRUE, !.ref = @ + 1] ELSE u
      <3>1. [s EXCEPT !.local = TRUE, !.named = TRUE,
                      !.status = IF s.type = "receive" THEN "accepted" ELSE @] = c
        BY <1>0
      <3>2. request_accepted(s, sizes)
              = {IF s.ui = "pidgin" THEN [u EXCEPT !.listed = TRUE, !.ref = @ + 1] ELSE u : u \in Sized}
                 \cup {}
        BY Zenon DEF request_accepted
      <3> HIDE DEF Sized
      <3> QED BY <3>2
    <2>2. \A u \in Sized : \E n \in {0, Size} : u = a(n)
      <3> TAKE u \in Sized
      <3>1. CASE u = c
        <4>1. s.size \in {0, Size}
          BY <1>0 DEF Xfer
        <4>2. c = a(s.size)
          BY <1>0, ZenonT(60) DEF Xfer
        <4> QED BY <3>1, <4>1, <4>2
      <3>2. ASSUME NEW n \in sizes, u = [c EXCEPT !.size = n, !.left = n - s.sent]
            PROVE  \E k \in {0, Size} : u = a(k)
        <4>0. n \in {0, Size}
          BY <3>2
        <4>1. n - s.sent = n
          <5> HIDE DEF Sized, a, b, c
          <5> QED BY <1>0a, <4>0
        <4>2. u = a(n)
          BY <1>0, <3>2, <4>1 DEF Xfer
        <4> QED BY <4>0, <4>2
      <3> QED BY <3>1, <3>2
    <2>3. PICK u \in Sized :
             t = IF s.ui = "pidgin" THEN [u EXCEPT !.listed = TRUE, !.ref = @ + 1] ELSE u
      BY <2>1
    <2>4. PICK n \in {0, Size} : u = a(n)
      BY <2>2
    <2> HIDE DEF a, Sized, c
    <2> QED BY <2>3, <2>4
  <1>2. n \in Nat /\ n \in 0..Size /\ st \in Statuses
        /\ st \in {"unknown", "accepted"}
        /\ (st = s.status \/ (st = "accepted" /\ s.status = "unknown"))
    BY <1>0, SizeAssumption DEF Statuses
  <1> DEFINE an == a(n)
             bn == b(n)
  <1>3. an \in Xfer /\ an.local /\ an.status = st /\ an.size = n /\ an.left = n
    <2>1. an \in Xfer
      <3> HIDE DEF st
      <3> QED BY <1>0, <1>2 DEF Xfer
    <2> QED BY <1>0, <2>1 DEF Xfer
  <1>4. /\ an.ref = s.ref /\ an.live = s.live /\ an.known = s.known
        /\ an.dialog = s.dialog /\ an.notice = s.notice /\ an.listed = s.listed
        /\ an.leaked = s.leaked /\ an.misused = s.misused /\ an.answering = s.answering
        /\ an.fd = s.fd /\ an.connecting = s.connecting /\ an.begun = s.begun
        /\ an.fp = s.fp /\ an.ready = s.ready /\ an.watcher = s.watcher /\ an.ui = s.ui
        /\ an.type = s.type /\ an.asked = s.asked
        /\ an.pos = s.pos /\ an.sent = s.sent /\ an.buffer = s.buffer
    BY <1>0 DEF Xfer
  <1>5. /\ bn.ref = an.ref + 1 /\ bn.live = an.live /\ bn.known = an.known
        /\ bn.dialog = an.dialog /\ bn.notice = an.notice /\ bn.listed
        /\ bn.leaked = an.leaked /\ bn.misused = an.misused /\ bn.answering = an.answering
        /\ bn.fd = an.fd /\ bn.connecting = an.connecting /\ bn.begun = an.begun
        /\ bn.fp = an.fp /\ bn.ready = an.ready /\ bn.watcher = an.watcher /\ bn.ui = an.ui
        /\ bn.type = an.type /\ bn.asked = an.asked
        /\ bn.pos = an.pos /\ bn.sent = an.sent /\ bn.buffer = an.buffer
        /\ bn.local = an.local /\ bn.status = an.status /\ bn.size = an.size /\ bn.left = an.left
    <2>1. an \in Xfer /\ bn = [an EXCEPT !.listed = TRUE, !.ref = @ + 1]
      BY <1>3
    <2> HIDE DEF an, bn
    <2> QED BY <2>1 DEF Xfer
  <1>5a. bn \in Xfer
    <2>1. an \in Xfer /\ an.ref + 1 \in Nat /\ bn = [an EXCEPT !.listed = TRUE, !.ref = @ + 1]
      BY <1>0, <1>3, <1>4
    <2> HIDE DEF an, bn
    <2> QED BY <2>1, ZenonT(60) DEF Xfer
  <1>6. t = bn \/ (t = an /\ s.ui # "pidgin")
    BY <1>1
  <1> HIDE DEF an, bn, st
  <1>7. Bytes(an) /\ Bytes(bn)
    BY <1>0, <1>2, <1>3, <1>4, <1>5 DEF Bytes
  <1>8. Refs(an, extra) /\ Refs(bn, extra)
    <2>1. Refs(an, extra)
      BY <1>4 DEF Pending, Refs, Held
    <2>2. s.leaked \in Nat
      BY <1>0 DEF Xfer
    <2> QED BY <1>0, <1>4, <1>5, <2>1, <2>2 DEF Pending, Refs, Held, One
  <1>9. Active(bn)
    BY <1>0, <1>2, <1>3, <1>4, <1>5 DEF Pending, Active, Ended
  <1>10. CASE t = bn
    BY <1>2, <1>3, <1>4, <1>5, <1>5a, <1>7, <1>8, <1>9, <1>10 DEF Pending
  <1>11. CASE t = an /\ s.ui # "pidgin"
    <2>1. Active(an)
      BY <1>0, <1>2, <1>3, <1>4, <1>11 DEF Pending, Active, Ended
    <2> QED BY <1>2, <1>3, <1>4, <1>7, <1>8, <1>11, <2>1 DEF Pending
  <1> QED BY <1>6, <1>10, <1>11

-----------------------------------------------------------------------------
(* The invariant.                                                          *)

\* What every step of a transfer does.
Steps(s, t) == Sound(t) /\ Forward(s, t)

\* What do_transfer or begin_transfer left is a step forward.
LEMMA LeftSteps ==
    ASSUME NEW s \in Xfer, s.status \notin Ended, NEW t, Left(s, t)
    PROVE  Steps(s, t)
  BY DEF Left, Steps, Forward, Rank, Ended, Xfer, Statuses

\* purple_xfer_new makes a sound transfer.
LEMMA NewIsSound ==
    ASSUME NEW s \in NewXfers
    PROVE  Sound(s)
  <1>1. PICK type \in {"send", "receive"}, ui \in {"pidgin", "moderated"},
             clear \in BOOLEAN, size \in {0, Size}, named \in BOOLEAN :
             s = New(type, ui, clear, size, named)
    BY DEF NewXfers
  <1>2. s \in Xfer
    BY <1>1, SizeAssumption DEF New, Xfer, Statuses, Dialogs
  <1>4. s.size \in Nat
    BY <1>2, SizeAssumption DEF Xfer
  <1>5. Refs(s, 0) /\ Bytes(s)
    BY <1>1, <1>4 DEF New, Refs, Held, Bytes, One
  <1>6. Active(s)
    BY <1>1, <1>4 DEF New, Active, Ended
  <1>7. ~s.listed /\ s.known
    BY <1>1 DEF New
  <1> QED BY <1>2, <1>5, <1>6, <1>7, Clean DEF Sound

\* A transfer that somebody is asked about has neither a local file nor a row.
LEMMA Asking ==
    ASSUME NEW s, Sound(s), s.dialog # "none" \/ s.notice
    PROVE  /\ s \in Xfer /\ s.known /\ Active(s) /\ Refs(s, 0) /\ Bytes(s)
           /\ ~s.local /\ ~s.listed /\ ~s.begun /\ ~s.connecting /\ s.status # "started"
           /\ s.fd = "none" /\ ~s.watcher /\ ~s.fp /\ "prpl" \notin s.ready
           /\ s.status \in {"unknown", "accepted"}
  BY Clean DEF Sound, Active, Idle, Xfer, Ended, Statuses

\* The dialog of s was answered.
LEMMA Answer ==
    ASSUME NEW s, Sound(s), s.dialog # "none",
           NEW status \in {s.status, "accepted", "cancel_local"}
    PROVE  LET t == [s EXCEPT !.dialog = "none", !.status = status]
           IN  /\ t \in Xfer /\ Refs(t, 1) /\ t.known /\ ~t.local /\ ~t.listed
               /\ t.dialog = "none" /\ ~t.notice /\ ~t.connecting /\ t.fd = "none"
               /\ ~t.watcher /\ ~t.fp /\ "prpl" \notin t.ready /\ t.status = status
               /\ t.status # "started" /\ Bytes(t)
               /\ status # "cancel_local" => Pending(t, 1)
  <1> DEFINE t == [s EXCEPT !.dialog = "none", !.status = status]
  <1>1. s \in Xfer /\ s.known /\ Active(s) /\ Refs(s, 0) /\ Bytes(s)
        /\ ~s.local /\ ~s.listed /\ ~s.begun /\ ~s.connecting /\ s.status # "started"
        /\ s.fd = "none" /\ ~s.watcher /\ ~s.fp /\ "prpl" \notin s.ready
        /\ s.status \in {"unknown", "accepted"} /\ ~s.notice
    BY Asking DEF Active
  <1>2. t \in Xfer /\ SameCounters(s, t) /\ t.status = status /\ t.dialog = "none"
    BY <1>1 DEF Xfer, Statuses, Dialogs, SameCounters
  <1>3. t.ref = s.ref /\ t.live = s.live /\ t.known /\ ~t.notice /\ ~t.listed /\ t.leaked = s.leaked
        /\ ~t.local /\ t.misused = {} /\ ~t.answering /\ t.fd = "none" /\ ~t.connecting /\ ~t.begun
        /\ ~t.fp /\ t.ready = s.ready /\ ~t.watcher /\ t.ui = s.ui
        /\ t.type = s.type /\ t.asked = s.asked
    BY <1>1 DEF Xfer, Refs, Held
  <1> HIDE DEF t
  <1>4. s.ref \in Nat /\ s.leaked \in Nat
    BY <1>1 DEF Xfer
  <1>5. Refs(t, 1)
    BY <1>1, <1>2, <1>3, <1>4 DEF Refs, Held, One
  <1>6. Bytes(t)
    BY <1>1, <1>2, <1>3 DEF Bytes, SameCounters
  <1>7. ASSUME status # "cancel_local" PROVE Pending(t, 1)
    <2>1. Active(t)
      BY <1>1, <1>2, <1>3, <1>7 DEF Active, Ended, SameCounters
    <2> QED BY <1>2, <1>3, <1>5, <1>6, <2>1 DEF Pending
  <1> QED BY <1>1, <1>2, <1>3, <1>5, <1>6, <1>7 DEF t

\* What is known of a transfer that the protocol knows.
LEMMA ActiveFacts ==
    ASSUME IInv, x.known
    PROVE  /\ x \in Xfer /\ Active(x) /\ Refs(x, 0) /\ Bytes(x)
           /\ x.listed => x.local
           /\ x.status \in {"unknown", "accepted", "started"}
           /\ x.ref \in Nat /\ x.leaked \in Nat
  BY Clean DEF IInv, Sound, Active, Ended, Xfer, Statuses

\* Somebody cancels a transfer that is not connecting.
LEMMA CancelStep ==
    ASSUME IInv, x.known, ~x.connecting, ~x.notice,
           NEW status \in {"cancel_local", "cancel_remote"}
    PROVE  Steps(x, cancel(x, status))
  <1>1. Cancellable(x, 0)
    BY ActiveFacts DEF Cancellable, Active
  <1>2. Over(cancel(x, status), 0)
    BY <1>1, Cancel
  <1> QED BY <1>2, OverIsSound, LeftSteps, ActiveFacts DEF Over, Left, Active

\* purple_xfer_request asks, or a plugin decides.
LEMMA RequestStep ==
    ASSUME IInv, Events = {}, request
    PROVE  Steps(x, x')
  <1> DEFINE s == [x EXCEPT !.ref = @ + 1, !.asked = @ + 1]
             t == [s EXCEPT !.named = x.named \/ x.asked = 1]
  <1>1. /\ x \in Xfer /\ Active(x) /\ Refs(x, 0) /\ Bytes(x) /\ x.known /\ ~x.local
        /\ ~x.listed /\ ~x.begun /\ ~x.connecting /\ x.fd = "none" /\ ~x.fp /\ ~x.watcher
        /\ x.dialog = "none" /\ ~x.notice /\ x.asked \in {0, 1}
        /\ x.status \in {"unknown", "accepted"} /\ "prpl" \notin x.ready
        /\ x.ref \in Nat /\ x.leaked \in Nat
    BY ActiveFacts DEF request, Active, Xfer
  <1>2. ASSUME NEW n \in BOOLEAN, NEW d \in Dialogs \ {"none"}
        PROVE  LET u == [s EXCEPT !.named = n, !.dialog = d] IN Steps(x, u)
    <2> DEFINE u == [s EXCEPT !.named = n, !.dialog = d]
    <2>0. x.ref + 1 \in Nat /\ x.asked + 1 \in 0..2 /\ d \in Dialogs
      BY <1>1
    <2>1. SameCounters(x, u) /\ u.dialog = d
      BY <1>1 DEF Xfer, SameCounters
    <2>1a. u \in Xfer
      <3>1. u = [x EXCEPT !.ref = x.ref + 1, !.asked = x.asked + 1, !.named = n, !.dialog = d]
        BY <1>1 DEF Xfer
      <3> QED BY <1>1, <2>0, <3>1 DEF Xfer
    <2>2. u.ref = x.ref + 1 /\ u.live = x.live /\ u.known /\ ~u.notice /\ ~u.listed
          /\ u.leaked = x.leaked /\ ~u.local /\ u.misused = {} /\ ~u.answering /\ u.fd = "none" /\ ~u.connecting
          /\ ~u.begun /\ ~u.fp /\ u.ready = x.ready /\ ~u.watcher /\ u.ui = x.ui
          /\ u.type = x.type /\ u.asked = x.asked + 1 /\ u.status = x.status
      BY <1>1 DEF Xfer, Refs, Held
    <2> HIDE DEF u
    <2>3. Refs(u, 0)
      BY <1>1, <2>1, <2>2 DEF Refs, Held, One
    <2>4. Active(u)
      BY <1>1, <2>1, <2>2 DEF Active, Ended, SameCounters
    <2>5. Bytes(u)
      BY <1>1, <2>1, <2>2 DEF Bytes, SameCounters
    <2>6. Sound(u)
      BY <2>1, <2>1a, <2>2, <2>3, <2>4, <2>5, Clean DEF Sound
    <2> QED BY <1>1, <2>2, <2>6, LeftSteps DEF Left, Active, u
  <1>3. ASSUME NEW n \in BOOLEAN
        PROVE  LET u == [s EXCEPT !.named = n, !.leaked = @ + 1]
               IN  Pending(u, 0) /\ ~u.local /\ u.status = x.status /\ ~u.connecting
                   /\ u.fd = "none"
    <2> DEFINE u == [s EXCEPT !.named = n, !.leaked = @ + 1]
    <2>0. x.ref + 1 \in Nat /\ x.asked + 1 \in 0..2 /\ x.leaked + 1 \in Nat
      BY <1>1
    <2>1. SameCounters(x, u) /\ u.dialog = "none"
      BY <1>1 DEF Xfer, SameCounters
    <2>1a. u \in Xfer
      <3>1. u = [x EXCEPT !.ref = x.ref + 1, !.asked = x.asked + 1, !.named = n,
                          !.leaked = x.leaked + 1]
        BY <1>1 DEF Xfer
      <3> QED BY <1>1, <2>0, <3>1 DEF Xfer
    <2>2. u.ref = x.ref + 1 /\ u.live = x.live /\ u.known /\ ~u.notice /\ ~u.listed
          /\ u.leaked = x.leaked + 1 /\ ~u.local /\ u.misused = {} /\ ~u.answering /\ u.fd = "none" /\ ~u.connecting
          /\ ~u.begun /\ ~u.fp /\ u.ready = x.ready /\ ~u.watcher /\ u.ui = x.ui
          /\ u.type = x.type /\ u.asked = x.asked + 1 /\ u.status = x.status
      BY <1>1 DEF Xfer, Refs, Held
    <2> HIDE DEF u
    <2>3. Refs(u, 0)
      BY <1>1, <2>1, <2>2 DEF Refs, Held, One
    <2>4. Active(u)
      BY <1>1, <2>1, <2>2 DEF Active, Ended, SameCounters
    <2>5. Bytes(u)
      BY <1>1, <2>1, <2>2 DEF Bytes, SameCounters
    <2>6. Pending(u, 0)
      BY <2>1, <2>1a, <2>2, <2>3, <2>4, <2>5 DEF Pending
    <2> QED BY <2>2, <2>6 DEF u
  <1> DEFINE n == x.named \/ x.asked = 1
  <1>4. n \in BOOLEAN
    BY Zenon
  <1>5. x.named \in BOOLEAN /\ s = [s EXCEPT !.named = x.named]
    BY <1>1 DEF Xfer
  <1> DEFINE u == [t EXCEPT !.leaked = @ + 1]
  <1>6. Pending(u, 0) /\ ~u.local /\ u.status = x.status /\ ~u.connecting /\ u.fd = "none"
    <2>1. u = [s EXCEPT !.named = n, !.leaked = @ + 1]
      BY <1>1 DEF Xfer
    <2> QED BY <1>3, <1>4, <2>1
  <1>7. \A d \in Dialogs \ {"none"} : Steps(x, [t EXCEPT !.dialog = d])
    <2> TAKE d \in Dialogs \ {"none"}
    <2>1. [t EXCEPT !.dialog = d] = [s EXCEPT !.named = n, !.dialog = d]
      BY <1>1 DEF Xfer
    <2> HIDE DEF n, s, t
    <2> QED BY <1>2, <1>4, <2>1
  <1>8. CASE x' = [s EXCEPT !.dialog = "file"]
    <2>1. [s EXCEPT !.dialog = "file"] = [s EXCEPT !.named = x.named, !.dialog = "file"]
      BY <1>1 DEF Xfer
    <2> HIDE DEF s
    <2> QED BY <1>2, <1>5, <1>8, <2>1 DEF Dialogs
  <1>9. CASE x' = IF t.named \/ t.status = "accepted" THEN ask_recv(t)
                  ELSE [t EXCEPT !.dialog = "accept"]
    <2> HIDE DEF t
    <2>1. x' = [t EXCEPT !.dialog = "file"] \/ x' = [t EXCEPT !.dialog = "recv"]
            \/ x' = [t EXCEPT !.dialog = "accept"]
      BY <1>9, Zenon DEF ask_recv
    <2> QED BY <1>7, <2>1 DEF Dialogs
  <1>10. CASE x' = cancel(u, "cancel_local")
    <2> HIDE DEF u
    <2>1. Cancellable(u, 0)
      BY <1>6 DEF Pending, Cancellable, Active
    <2>2. Over(cancel(u, "cancel_local"), 0)
      BY <2>1, Cancel
    <2> QED BY <1>1, <1>10, <2>2, OverIsSound, LeftSteps DEF Over, Left, Active
  <1>11. CASE x' \in request_accepted(u, {0, Size})
    <2> HIDE DEF u
    <2>1. Pending(x', 0) /\ (x'.status = u.status \/ (x'.status = "accepted" /\ u.status = "unknown"))
      BY <1>6, <1>11, Accept
    <2> QED BY <1>1, <1>6, <2>1, PendingIsSound DEF Steps, Forward, Rank, Ended
  <1> QED
    <2>1. x' = [s EXCEPT !.dialog = "file"]
            \/ x' = (IF t.named \/ t.status = "accepted" THEN ask_recv(t)
                     ELSE [t EXCEPT !.dialog = "accept"])
            \/ x' = cancel(u, "cancel_local")
            \/ x' \in request_accepted(u, {0, Size})
      BY Zenon DEF request
    <2> HIDE DEF s, t, u
    <2> QED BY <1>8, <1>9, <1>10, <1>11, <2>1

\* The file to send was given: init is called.
LEMMA GivenStep ==
    ASSUME IInv, Events = {}, accept_given
    PROVE  Steps(x, x')
  <1>1. Pending(x, 0) /\ ~x.local /\ x \in Xfer /\ x.status \notin Ended
    BY ActiveFacts DEF accept_given, Pending, Active
  <1>2. Pending(x', 0) /\ (x'.status = x.status \/ (x'.status = "accepted" /\ x.status = "unknown"))
    <2>1. x' \in request_accepted(x, {0, Size})
      BY DEF accept_given
    <2> QED BY <1>1, <2>1, Accept
  <1> QED BY <1>1, <1>2, PendingIsSound DEF Steps, Forward, Rank, Ended, Xfer, Statuses

\* A transfer that purple_xfer_start starts.
LEMMA Started ==
    ASSUME IInv, x.known, x.local, ~x.begun, ~x.connecting
    PROVE  LET p == [x EXCEPT !.status = "started"]
           IN  Pending(p, 0) /\ p.local /\ ~p.connecting /\ ~p.begun
               /\ p.fd = "none" /\ p.status = "started"
  <1> DEFINE p == [x EXCEPT !.status = "started"]
  <1>1. /\ x \in Xfer /\ Active(x) /\ Refs(x, 0) /\ Bytes(x) /\ x.fd = "none"
        /\ x.dialog = "none" /\ ~x.notice /\ (x.listed => x.local) /\ x.status \notin Ended
    BY ActiveFacts DEF Active, Xfer
  <1>2. p \in Xfer /\ SameCounters(x, p) /\ p.status = "started"
    BY <1>1 DEF Xfer, Statuses, SameCounters
  <1>3. p.ref = x.ref /\ p.live = x.live /\ p.known /\ ~p.notice /\ p.listed = x.listed
        /\ p.leaked = x.leaked /\ p.local /\ p.misused = x.misused /\ p.answering = x.answering /\ p.fd = "none"
        /\ ~p.connecting /\ ~p.begun /\ p.fp = x.fp /\ p.ready = x.ready
        /\ p.watcher = x.watcher /\ p.ui = x.ui /\ p.type = x.type /\ p.asked = x.asked
        /\ p.dialog = "none"
    BY <1>1 DEF Xfer
  <1> HIDE DEF p
  <1>4. Refs(p, 0)
    BY <1>1, <1>3 DEF Refs, Held
  <1>5. Active(p)
    BY <1>1, <1>2, <1>3 DEF Active, Ended, SameCounters
  <1>6. Bytes(p)
    BY <1>1, <1>2, <1>3 DEF Bytes, SameCounters, Ended
  <1> QED BY <1>1, <1>2, <1>3, <1>4, <1>5, <1>6 DEF Pending, p

\* The protocol starts the transfer.
LEMMA StartStep ==
    ASSUME IInv, Events = {}, NEW with \in {"socket", "address", "nothing"}, start(with)
    PROVE  Steps(x, x')
  <1> DEFINE p == [x EXCEPT !.status = "started"]
  <1>1. x.known /\ x.local /\ ~x.begun /\ ~x.connecting
    BY DEF start
  <1>2. Pending(p, 0) /\ p.local /\ ~p.connecting /\ ~p.begun /\ p.fd = "none"
        /\ p.status = "started" /\ p \in Xfer
    BY <1>1, Started DEF Pending
  <1>3. x.status \in {"unknown", "accepted", "started"}
    BY <1>1, ActiveFacts
  <1>4. ASSUME Left(p, x') PROVE Steps(x, x')
    <2> HIDE DEF p
    <2> QED BY <1>2, <1>3, <1>4 DEF Left, Steps, Forward, Rank, Ended
  <1>5. CASE with = "address"
    <2>1. x' = [p EXCEPT !.connecting = TRUE]
      BY <1>5 DEF start
    <2> HIDE DEF p
    <2>2. x' \in Xfer /\ SameCounters(p, x') /\ x'.status = p.status
      BY <1>2, <2>1, ZenonT(60) DEF Xfer, SameCounters
    <2>3. x'.ref = p.ref /\ x'.live = p.live /\ x'.known = p.known /\ x'.notice = p.notice
          /\ x'.listed = p.listed /\ x'.leaked = p.leaked /\ x'.local = p.local
          /\ x'.misused = p.misused /\ x'.answering = p.answering
          /\ x'.fd = p.fd /\ x'.connecting /\ x'.begun = p.begun
          /\ x'.fp = p.fp /\ x'.ready = p.ready /\ x'.watcher = p.watcher /\ x'.ui = p.ui
          /\ x'.type = p.type /\ x'.asked = p.asked /\ x'.dialog = p.dialog
      BY <1>2, <2>1 DEF Xfer
    <2>4. Refs(x', 0)
      BY <1>2, <2>3 DEF Pending, Refs, Held
    <2>5. Active(x')
      BY <1>2, <2>2, <2>3 DEF Pending, Active, Ended, SameCounters
    <2>6. Bytes(x')
      BY <1>2, <2>2, <2>3 DEF Pending, Bytes, SameCounters
    <2>7. Sound(x')
      BY <1>2, <2>2, <2>3, <2>4, <2>5, <2>6, Clean DEF Sound, Pending
    <2> QED BY <1>4, <2>2, <2>7 DEF Left
  <1>6. CASE with = "socket"
    <2>1. x' \in begin_transfer([p EXCEPT !.fd = "open"])
      BY <1>6 DEF start
    <2> HIDE DEF p
    <2> QED BY <1>2, <1>4, <2>1, Begin
  <1>7. CASE with = "nothing"
    <2>1. x' \in begin_transfer([p EXCEPT !.fd = "none"])
      BY <1>7 DEF start
    <2> HIDE DEF p
    <2> QED BY <1>2, <1>4, <2>1, Begin
  <1> QED BY <1>5, <1>6, <1>7

\* The protocol or the user cancels.
LEMMA PrplCancelStep ==
    ASSUME IInv, Events = {}, NEW status \in {"cancel_local", "cancel_remote"},
           prpl_cancel(status)
    PROVE  Steps(x, x')
  BY CancelStep DEF prpl_cancel, MayCancel

\* The user stops the transfer in the list.
LEMMA StopButtonStep ==
    ASSUME IInv, Events = {}, stop_button_cb
    PROVE  Steps(x, x')
  <1>1. x.known
    BY DEF stop_button_cb, IInv, Sound
  <1> QED BY <1>1, CancelStep DEF stop_button_cb, MayCancel

\* The protocol ends the transfer.
LEMMA PrplEndStep ==
    ASSUME IInv, NEW completed \in BOOLEAN, prpl_end(completed)
    PROVE  Steps(x, x')
  <1>1. /\ x.known /\ x.begun /\ x \in Xfer /\ Active(x) /\ Refs(x, 0) /\ Bytes(x)
        /\ ~x.connecting /\ x.local /\ x.dialog = "none" /\ ~x.notice /\ x.fd # "closed"
        /\ x.status \notin Ended /\ x.size \in Nat /\ x.sent \in Nat /\ x.left \in Nat
    BY ActiveFacts, SizeAssumption DEF prpl_end, Active, Xfer
  <1>2. CASE ~completed
    <2>1. x' = cancel(x, "cancel_local")
      BY <1>1, <1>2 DEF prpl_end, end, Ended
    <2> QED BY <1>1, <2>1, CancelStep
  <1>3. CASE completed
    <2> DEFINE t == set_completed(x)
    <2>1. /\ t \in Xfer /\ Refs(t, 0) /\ t.known /\ t.local /\ t.status = "done"
          /\ t.fd # "closed" /\ ~t.connecting /\ t.dialog = "none" /\ ~t.notice
          /\ SameCounters(x, t)
      BY <1>1, Complete
    <2>2. x' = end(t) /\ x.left = 0
      BY <1>3 DEF prpl_end
    <2> HIDE DEF t
    <2>3. t.pos = t.sent + t.buffer /\ t.left = t.size - t.sent /\ (t.size > 0 => t.sent = t.size)
      BY <1>1, <2>1, <2>2 DEF Bytes, SameCounters, Ended
    <2>4. Over(x', 0)
      BY <2>1, <2>2, <2>3, End
    <2> QED BY <1>1, <2>4, OverIsSound, LeftSteps DEF Over, Left
  <1> QED BY <1>2, <1>3

\* What wakes a transfer changes only who is ready and the watcher.
LEMMA Wake ==
    ASSUME NEW s, Moving(s), NEW t \in Xfer, MovesOnly(s, t), SameCounters(s, t),
           t.watcher => t.fd = "open", Awake(t)
    PROVE  Moving(t)
  <1>1. Begun(t)
    BY DEF Moving, Begun, MovesOnly, SameCounters, Refs, Held
  <1>2. Counted(t, 0)
    BY DEF Moving, Counted, MovesOnly, SameCounters
  <1> QED BY <1>1, <1>2 DEF Moving

\* A transfer whose data is moved goes on from t, in which somebody was marked
\* as ready or not.
LEMMA GoOn ==
    ASSUME IInv, x.known, x.begun, NEW t \in Xfer, MovesOnly(x, t), SameCounters(x, t),
           t.watcher => t.fd = "open", Awake(t),
           x' = t \/ (x' \in do_transfer(t) /\ (t.ui = "moderated" => t.ready = {}))
    PROVE  Steps(x, x')
  <1>1. Moving(x) /\ x \in Xfer /\ x.status \notin Ended
    BY ActiveFacts, MovingIsSound DEF IInv, Active
  <1>2. Moving(t) /\ t.status = x.status
    BY <1>1, Wake DEF MovesOnly
  <1>3. Left(x, x')
    <2>1. CASE x' = t
      BY <1>2, <2>1, MovingIsSound DEF Left
    <2>2. CASE x' \in do_transfer(t) /\ (t.ui = "moderated" => t.ready = {})
      BY <1>2, <2>2, DoTransfer DEF Left
    <2> QED BY <2>1, <2>2
  <1> QED BY <1>1, <1>3, LeftSteps

\* The protocol, which moves the data itself, is ready.
LEMMA PrplReadyStep ==
    ASSUME IInv, prpl_ready
    PROVE  Steps(x, x')
  <1> DEFINE s == [x EXCEPT !.ready = @ \cup {"prpl"}]
             t == [s EXCEPT !.ready = {}]
  <1>1. x.known /\ x.begun /\ x.fd = "none" /\ x \in Xfer /\ ~x.watcher
    BY ActiveFacts DEF prpl_ready, Active
  <1>2. (x' = s /\ "ui" \notin x.ready) \/ x' \in do_transfer(t)
    BY Zenon DEF prpl_ready
  <1>3. /\ s \in Xfer /\ MovesOnly(x, s) /\ SameCounters(x, s) /\ ~s.watcher
        /\ s.fd = "none" /\ s.ready = x.ready \cup {"prpl"}
    BY <1>1 DEF Xfer, MovesOnly, SameCounters
  <1>4. /\ t \in Xfer /\ MovesOnly(x, t) /\ SameCounters(x, t) /\ ~t.watcher
        /\ t.fd = "none" /\ t.ready = {}
    BY <1>1 DEF Xfer, MovesOnly, SameCounters
  <1> HIDE DEF s, t
  <1>5. CASE x' = s /\ "ui" \notin x.ready
    <2>1. "ui" \notin s.ready
      BY <1>3, <1>5
    <2>2. Awake(s)
      BY <1>3, <2>1 DEF Awake
    <2> QED BY <1>1, <1>3, <1>5, <2>2, GoOn
  <1>6. CASE x' \in do_transfer(t)
    <2>1. Awake(t)
      BY <1>4 DEF Awake
    <2> QED BY <1>1, <1>4, <1>6, <2>1, GoOn
  <1> QED BY <1>2, <1>5, <1>6

\* The callback of the socket.
LEMMA TransferStep ==
    ASSUME IInv, transfer_cb
    PROVE  Steps(x, x')
  <1> DEFINE s == Waiting(x)
             t == [x EXCEPT !.ready = {}]
  <1>0. x.known
    BY DEF transfer_cb, IInv, Sound, Idle
  <1>1. x.begun /\ x.fd = "open" /\ x.watcher /\ x \in Xfer /\ Awake(x)
        /\ x.ui \in {"pidgin", "moderated"} /\ (x.fp => x.ui = "pidgin")
    BY <1>0, ActiveFacts DEF transfer_cb, Active, Xfer, Awake
  <1>2. \/ x' \in do_transfer(x) /\ x.fp
        \/ x' = s /\ "ui" \notin x.ready
        \/ x' \in do_transfer(t)
    BY Zenon DEF transfer_cb
  <1>3. s \in Xfer /\ MovesOnly(x, s) /\ SameCounters(x, s) /\ ~s.watcher
        /\ s.ready = x.ready \cup {"prpl"}
    <2>1. s = [x EXCEPT !.watcher = FALSE, !.ready = x.ready \cup {"prpl"}] /\ x \in Xfer
      BY <1>1 DEF Waiting, Xfer
    <2>2. s \in Xfer
      <3> DEFINE q == x.ready \cup {"prpl"}
      <3>1. q \in SUBSET {"ui", "prpl"}
        BY <2>1 DEF Xfer
      <3>2. s = [x EXCEPT !.watcher = FALSE, !.ready = q]
        BY <2>1
      <3> HIDE DEF q, s
      <3> DEFINE p == [x EXCEPT !.watcher = FALSE]
      <3>3. p \in Xfer
        BY <2>1 DEF Xfer
      <3>4. s = [p EXCEPT !.ready = q]
        BY <3>2
      <3> HIDE DEF p
      <3> QED BY <3>1, <3>3, <3>4 DEF Xfer
    <2>3. MovesOnly(x, s)
      BY <2>1 DEF Xfer, MovesOnly
    <2>4. SameCounters(x, s)
      BY <2>1 DEF Xfer, SameCounters
    <2> QED BY <2>1, <2>2, <2>3, <2>4 DEF Xfer
  <1>4. t \in Xfer /\ MovesOnly(x, t) /\ SameCounters(x, t) /\ t.watcher
        /\ t.fd = "open" /\ t.ready = {}
    BY <1>1 DEF Xfer, MovesOnly, SameCounters
  <1> HIDE DEF s, t
  <1>5. CASE x' \in do_transfer(x) /\ x.fp
    <2>1. MovesOnly(x, x) /\ SameCounters(x, x) /\ x.ui # "moderated"
      BY <1>1, <1>5 DEF MovesOnly, SameCounters
    <2> QED BY <1>0, <1>1, <1>5, <2>1, GoOn
  <1>6. CASE x' = s /\ "ui" \notin x.ready
    <2>1. "ui" \notin s.ready /\ "prpl" \in s.ready
      BY <1>3, <1>6
    <2>2. Awake(s)
      BY <1>3, <2>1 DEF Awake
    <2> QED BY <1>0, <1>1, <1>3, <1>6, <2>2, GoOn
  <1>7. CASE x' \in do_transfer(t)
    <2>1. "prpl" \notin t.ready
      BY <1>4
    <2>2. Awake(t)
      BY <1>4, <2>1 DEF Awake
    <2> QED BY <1>0, <1>1, <1>4, <1>7, <2>2, GoOn
  <1> QED BY <1>2, <1>5, <1>6, <1>7

\* The UI is ready.
LEMMA UiReadyStep ==
    ASSUME IInv, ui_ready
    PROVE  Steps(x, x')
  <1> DEFINE s == [x EXCEPT !.ready = @ \cup {"ui"}]
             t == [s EXCEPT !.ready = {}, !.watcher = (x.fd # "none")]
  <1>0. x \in Xfer /\ x.status \notin Ended
    BY DEF ui_ready, IInv, Sound
  <1>0a. Refs(x, 0)
    BY <1>0, Clean DEF ui_ready, IInv, Sound
  <1>1. CASE "prpl" \notin x.ready
    <2>1. x' = s
      BY <1>1, Zenon DEF ui_ready
    <2>2. s \in Xfer /\ SameHolders(x, s) /\ SameCounters(x, s) /\ MovesOnly(x, s)
          /\ s.ready = x.ready \cup {"ui"} /\ s.watcher = x.watcher /\ s.asked = x.asked
          /\ s.leaked = x.leaked
      BY <1>0 DEF Xfer, SameHolders, SameCounters, MovesOnly
    <2> HIDE DEF s
    <2>3. "prpl" \notin s.ready
      BY <1>1, <2>2
    <2>4. Refs(s, 0) /\ Bytes(s) /\ (s.listed => s.local)
      BY <2>2, <1>0a DEF IInv, Sound, Refs, Held, Bytes, SameHolders, SameCounters, MovesOnly
    <2>5. s.known => Active(s)
      <3>1. ASSUME s.known PROVE Active(s)
        <4>1. Active(x) /\ s.begun = x.begun
          BY <3>1, <2>2 DEF IInv, Sound, MovesOnly
        <4>2. s.begun => Awake(s)
          BY <1>1, <4>1, <2>2, <2>3 DEF Active, Awake, MovesOnly
        <4> QED BY <4>1, <4>2, <2>2, <2>3 DEF Active, SameHolders, SameCounters, MovesOnly
      <3> QED BY <3>1
    <2>6. ~s.known => Idle(s)
      BY <2>2 DEF IInv, Sound, Idle, MovesOnly
    <2>7. ~s.known /\ s.status \notin Ended => ~s.local /\ "prpl" \notin s.ready
      BY <2>2, <2>3 DEF IInv, Sound, MovesOnly
    <2>8. Sound(s)
      BY <2>2, <2>4, <2>5, <2>6, <2>7, Clean DEF Sound
    <2>9. s.status = x.status
      BY <2>2 DEF MovesOnly
    <2> QED BY <1>0, <2>1, <2>8, <2>9, LeftSteps DEF Left
  <1>2. CASE "prpl" \in x.ready
    <2>1. x' \in do_transfer(t)
      BY <1>2, Zenon DEF ui_ready
    <2>2. x.known
      BY <1>0, <1>2 DEF IInv, Sound
    <2>3. x.begun /\ x.fd \in {"none", "open"}
      BY <1>2, <2>2, ActiveFacts DEF Active, Xfer
    <2> DEFINE w == (x.fd # "none")
    <2>4. w \in BOOLEAN
      OBVIOUS
    <2>5. t = [x EXCEPT !.ready = {}, !.watcher = w]
      BY <1>0 DEF Xfer
    <2>6. w => x.fd = "open"
      BY <2>3
    <2>7. x.fd = "open" => w
      OBVIOUS
    <2> HIDE DEF t, w
    <2>8. t \in Xfer /\ MovesOnly(x, t) /\ SameCounters(x, t) /\ t.ready = {} /\ t.watcher = w
      BY <1>0, <2>4, <2>5, ZenonT(60) DEF Xfer, MovesOnly, SameCounters
    <2>9. t.fd = x.fd
      BY <2>8 DEF MovesOnly
    <2>10. "prpl" \notin t.ready
      BY <2>8
    <2>11. Awake(t)
      BY <2>6, <2>7, <2>8, <2>9, <2>10 DEF Awake
    <2> QED BY <2>1, <2>2, <2>3, <2>6, <2>8, <2>9, <2>11, GoOn
  <1> QED BY <1>1, <1>2

\* The protocol moves some of the data itself.
LEMMA UseFileStep ==
    ASSUME IInv, use_file
    PROVE  Steps(x, x')
  <1>1. /\ x.known /\ x.begun /\ x.fd = "none" /\ x \in Xfer /\ Moving(x)
        /\ ~x.connecting /\ ~x.notice /\ x.status \notin Ended
        /\ x.size \in Nat /\ x.sent \in Nat /\ x.left \in Nat /\ x.pos \in Nat /\ x.buffer \in Nat
        /\ x.type \in {"send", "receive"} /\ Size \in Nat /\ x.size <= Size
    <2>1. x.known /\ x.begun /\ x.fd = "none"
      BY DEF use_file
    <2>2. x \in Xfer /\ Moving(x)
      BY <2>1, MovingIsSound DEF IInv, Sound
    <2>3. ~x.connecting /\ ~x.notice /\ x.status \notin Ended
      BY <2>2 DEF Moving, Begun
    <2> QED BY <2>1, <2>2, <2>3, SizeAssumption DEF Xfer
  <1>2. CASE x' = cancel(x, "cancel_local")
    BY <1>1, <1>2, CancelStep
  <1>3. ASSUME NEW n \in Nat, x' = [x EXCEPT !.pos = @ + n, !.sent = @ + n, !.left = @ - n],
               n <= x.left - x.buffer
        PROVE  Steps(x, x')
    <2>1. x.pos + n \in 0..Size /\ x.sent + n \in 0..Size /\ x.left - n \in 0..Size
      BY <1>1, <1>3 DEF Moving, Counted
    <2>2. x' \in Xfer
      BY <1>1, <1>3, <2>1, ZenonT(60) DEF Xfer
    <2>3. MovesOnly(x, x') /\ x'.watcher = x.watcher /\ x'.ready = x.ready
          /\ x'.pos = x.pos + n /\ x'.sent = x.sent + n /\ x'.left = x.left - n
          /\ x'.buffer = x.buffer
      BY <1>1, <1>3 DEF Xfer, MovesOnly
    <2>4. Begun(x')
      BY <1>1, <2>2, <2>3 DEF Moving, Begun, MovesOnly, Refs, Held, Awake
    <2>5. Counted(x', 0)
      BY <1>1, <1>3, <2>3 DEF Moving, Counted, MovesOnly
    <2>6. x'.status = x.status
      BY <2>3 DEF MovesOnly
    <2> QED BY <1>1, <2>4, <2>5, <2>6, MovingIsSound, LeftSteps DEF Left, Moving
  <1>4. CASE \E k \in 1..Chunk :
               LET n == IF x.type = "receive" THEN MinOf(k, x.left) ELSE MinOf(k, x.size - x.pos)
               IN  x' = [x EXCEPT !.pos = @ + n, !.sent = @ + n, !.left = @ - n]
    <2>1. PICK k \in 1..Chunk :
               LET n == IF x.type = "receive" THEN MinOf(k, x.left) ELSE MinOf(k, x.size - x.pos)
               IN  x' = [x EXCEPT !.pos = @ + n, !.sent = @ + n, !.left = @ - n]
      BY <1>4
    <2>2. x.pos = x.sent + x.buffer /\ x.left = x.size - x.sent /\ x.buffer <= x.left
          /\ (x.type = "receive" => x.buffer = 0)
      BY <1>1 DEF Moving, Counted, Begun
    <2>3. k \in Nat
      BY SizeAssumption
    <2> DEFINE n == IF x.type = "receive" THEN MinOf(k, x.left) ELSE MinOf(k, x.size - x.pos)
    <2>4. n \in Nat /\ n <= x.left - x.buffer
      BY <1>1, <2>2, <2>3 DEF MinOf
    <2>5. x' = [x EXCEPT !.pos = @ + n, !.sent = @ + n, !.left = @ - n]
      BY <2>1
    <2> HIDE DEF n
    <2> QED BY <1>3, <2>4, <2>5
  <1> QED BY <1>2, <1>4 DEF use_file

-----------------------------------------------------------------------------
(* The answers of the user.                                                *)

\* A callback gives the last reference back that it has to a transfer which is over.
LEMMA GiveBackOver ==
    ASSUME NEW s, Over(s, 1)
    PROVE  /\ Over(unref(s), 0) /\ unref(s).status = s.status
           /\ unref(s).type = s.type /\ unref(s).listed = s.listed
  <1> DEFINE t == unref(s)
  <1>1. s.ref \in Nat /\ s.leaked \in Nat /\ s.ref > 0 /\ s.live /\ s \in Xfer
        /\ s.dialog = "none" /\ s.status # "started" /\ ~s.answering
    BY DEF Over, Refs, Held, One, Xfer, Idle, Ended
  <1>2. t \in Xfer /\ Alike(s, t) /\ t.ref = s.ref - 1 /\ (t.live <=> s.ref > 1)
    BY <1>1, Unref
  <1> HIDE DEF t
  <1>3. Refs(t, 0)
    <2>1. s.ref = One(s.listed) + s.leaked + 1 /\ ~s.known /\ ~s.notice /\ s.misused = {} /\ ~s.answering
      BY DEF Over, Refs, Held, Idle, One
    <2> QED BY <1>1, <1>2, <2>1 DEF Refs, Held, One, Alike
  <1>4. Idle(t) /\ Bytes(t) /\ ~t.known /\ (t.listed => t.local) /\ t.status = s.status
    BY <1>2 DEF Over, Idle, Bytes, Alike
  <1>5. Over(t, 0)
    BY <1>2, <1>3, <1>4 DEF Over
  <1> QED BY <1>2, <1>4, <1>5 DEF t, Alike

\* The row of a transfer that is over is taken out of the list.
LEMMA RemoveButtonStep ==
    ASSUME IInv, remove_button_cb
    PROVE  Steps(x, x')
  <1> DEFINE t == [x EXCEPT !.listed = FALSE]
  <1>1. x \in Xfer /\ ~x.known /\ x.listed /\ x.status \in Ended /\ Refs(x, 0) /\ Idle(x)
        /\ Bytes(x) /\ x.leaked \in Nat
    BY Clean DEF remove_button_cb, IInv, Sound, Active, Xfer
  <1>2. t \in Xfer /\ ~t.known /\ ~t.listed /\ t.status = x.status /\ Idle(t) /\ Bytes(t)
    <2>1. t \in Xfer
      BY <1>1 DEF Xfer
    <2>2. Idle(t)
      BY <1>1 DEF Xfer, Idle
    <2>3. Bytes(t)
      BY <1>1 DEF Xfer, Bytes
    <2> QED BY <1>1, <2>1, <2>2, <2>3 DEF Xfer
  <1>3. Refs(t, 1)
    BY <1>1 DEF Xfer, Refs, Held, One
  <1>4. Over(t, 1)
    BY <1>1, <1>2, <1>3 DEF Over
  <1>5. x' = unref(t)
    BY <1>1, Zenon DEF remove_button_cb, remove_row
  <1> HIDE DEF t
  <1>6. Over(x', 0) /\ x'.status = x.status
    BY <1>2, <1>4, <1>5, GiveBackOver
  <1> QED BY <1>1, <1>6, OverIsSound DEF Steps, Forward

\* The user accepts, and is asked for a name then.
LEMMA AcceptOkStep ==
    ASSUME IInv, ask_accept_ok
    PROVE  Steps(x, x')
  <1> DEFINE t == [x EXCEPT !.dialog = "none", !.status = "accepted"]
             u == [t EXCEPT !.leaked = @ + 1]
  <1>1. Pending(t, 1) /\ t.status = "accepted" /\ x \in Xfer
        /\ x.status \in {"unknown", "accepted"}
    BY Answer, Asking DEF IInv, ask_accept_ok
  <1>2. x' = u
    <2>1. x.answering = FALSE
      BY Asking DEF IInv, ask_accept_ok, Refs, Held
    <2> QED BY <1>1, <2>1, ZenonT(60) DEF ask_accept_ok, action_answered, Answered, Xfer
  <1> HIDE DEF t
  <1>3. t \in Xfer /\ t.leaked \in Nat /\ t.leaked + 1 \in Nat
    BY <1>1 DEF Pending, Xfer
  <1>4. u \in Xfer /\ SameCounters(t, u) /\ u.status = t.status
    BY <1>3 DEF Xfer, SameCounters
  <1>5. u.ref = t.ref /\ u.live = t.live /\ u.known = t.known /\ u.notice = t.notice
        /\ u.listed = t.listed /\ u.leaked = t.leaked + 1 /\ u.local = t.local
        /\ u.misused = t.misused /\ u.answering = t.answering /\ u.fd = t.fd /\ u.connecting = t.connecting
        /\ u.begun = t.begun /\ u.fp = t.fp /\ u.ready = t.ready /\ u.watcher = t.watcher
        /\ u.ui = t.ui /\ u.type = t.type /\ u.asked = t.asked /\ u.dialog = t.dialog
    BY <1>3 DEF Xfer
  <1> HIDE DEF u
  <1>6. Refs(u, 0)
    BY <1>1, <1>3, <1>5 DEF Pending, Refs, Held, One
  <1>7. Active(u)
    BY <1>1, <1>4, <1>5 DEF Pending, Active, SameCounters, Awake
  <1>8. Bytes(u)
    BY <1>1, <1>4, <1>5 DEF Pending, Bytes, SameCounters
  <1>9. Sound(u)
    BY <1>1, <1>4, <1>5, <1>6, <1>7, <1>8, Clean DEF Pending, Sound
  <1> QED BY <1>1, <1>2, <1>4, <1>9 DEF Steps, Forward, Rank, Ended

\* While a callback runs its dialog is still there, unless it cancelled the
\* transfer or gave the last reference back: purple_xfer_unref of a transfer whose
\* dialog is being answered.
LEMMA UnrefAnswering ==
    ASSUME NEW s \in Xfer, s.live, s.ref > 0, s.ref = 1 => s.status # "started"
    PROVE  /\ action_answered(unref(s)) = unref(action_answered(s))
           /\ unref(s).answering <=> s.answering /\ s.ref > 1
  <1> DEFINE q == action_answered(s)
  <1>0. s.ref \in Nat /\ q = [s EXCEPT !.answering = FALSE]
    BY DEF action_answered, Xfer
  <1>1. q.live /\ q.ref = s.ref /\ q.status = s.status
    BY <1>0 DEF Xfer
  <1>2. CASE s.ref = 1
    <2> DEFINE d(r) == [[r EXCEPT !.ref = 0] EXCEPT !.live = FALSE, !.dialog = "none",
                                                   !.answering = FALSE]
    <2>1. [s EXCEPT !.ref = 0].status # "started" /\ [q EXCEPT !.ref = 0].status # "started"
      BY <1>0, <1>2 DEF Xfer
    <2>2. unref(s) = destroy([s EXCEPT !.ref = 0]) /\ unref(q) = destroy([q EXCEPT !.ref = 0])
      BY <1>1, <1>2, Zenon DEF unref
    <2>3. unref(s) = d(s) /\ unref(q) = d(q)
      BY <2>1, <2>2, Zenon DEF destroy
    <2>4. d(q) = d(s) /\ d(s) = [d(s) EXCEPT !.answering = FALSE] /\ ~d(s).answering
      BY <1>0 DEF Xfer
    <2> HIDE DEF d, q
    <2>5. action_answered(unref(s)) = unref(q) /\ ~unref(s).answering
      BY <2>3, <2>4, Zenon DEF action_answered
    <2> QED BY <1>2, <2>5 DEF q
  <1>3. CASE s.ref > 1
    <2>1. s.ref # 1 /\ s.ref # 0
      BY <1>3
    <2>2. unref(s) = [s EXCEPT !.ref = @ - 1] /\ unref(q) = [q EXCEPT !.ref = @ - 1]
      BY <1>1, <2>1, Zenon DEF unref
    <2>3. [[s EXCEPT !.ref = @ - 1] EXCEPT !.answering = FALSE] = [q EXCEPT !.ref = @ - 1]
          /\ [s EXCEPT !.ref = @ - 1].answering = s.answering
      BY <1>0 DEF Xfer
    <2> HIDE DEF q
    <2>4. action_answered(unref(s)) = unref(q) /\ unref(s).answering = s.answering
      BY <2>2, <2>3, Zenon DEF action_answered
    <2> QED BY <1>3, <2>4 DEF q
  <1> QED BY <1>0, <1>2, <1>3

\* The callback of the file dialog gives its reference back: if it was the last
\* one, the data of the dialog is freed when it is read.
LEMMA FileAnswered ==
    ASSUME NEW s \in Xfer, s.answering, s.live, s.ref > 0, s.ref = 1 => s.status # "started"
    PROVE  LET d == unref(action_answered(s))
           IN  file_answered(unref(s))
                 = IF s.ref > 1 THEN d ELSE [d EXCEPT !.misused = @ \cup {"dialog"}]
  <1> DEFINE u == unref(s)
             d == action_answered(u)
  <1>1. d = unref(action_answered(s)) /\ (u.answering <=> s.ref > 1)
    BY UnrefAnswering
  <1>2. u \in Xfer
    <2> DEFINE q == action_answered(s)
    <2>1. q \in Xfer /\ q.live /\ q.ref = s.ref /\ q.status = s.status /\ ~q.answering
          /\ s.ref \in Nat
      BY ZenonT(60) DEF action_answered, Xfer
    <2>2. CASE s.ref > 1
      <3>1. s.ref # 1
        BY <2>2
      <3> QED BY <3>1, Unref
    <2>3. CASE s.ref = 1
      <3> DEFINE e == [[s EXCEPT !.ref = 0] EXCEPT !.live = FALSE, !.dialog = "none",
                                                   !.answering = FALSE]
      <3>1. [s EXCEPT !.ref = 0].status # "started"
        BY <2>3 DEF Xfer
      <3>2. unref(s) = destroy([s EXCEPT !.ref = 0])
        BY <2>3, Zenon DEF unref
      <3>3. unref(s) = e
        BY <3>1, <3>2, Zenon DEF destroy
      <3>4. e \in Xfer
        BY DEF Xfer, Dialogs
      <3> QED BY <3>3, <3>4
    <2> QED BY <2>1, <2>2, <2>3
  <1> HIDE DEF u
  <1>3. CASE s.ref > 1
    <2>1. file_answered(u) = [u EXCEPT !.answering = FALSE, !.misused = u.misused]
      BY <1>1, <1>3, Zenon DEF file_answered
    <2>2. [u EXCEPT !.answering = FALSE, !.misused = u.misused] = d
      BY <1>2 DEF action_answered, Xfer
    <2> QED BY <1>1, <1>3, <2>1, <2>2 DEF u
  <1>4. CASE ~(s.ref > 1)
    <2>1. file_answered(u)
            = [u EXCEPT !.answering = FALSE, !.misused = u.misused \cup {"dialog"}]
      BY <1>1, <1>4, Zenon DEF file_answered
    <2>2. [u EXCEPT !.answering = FALSE, !.misused = u.misused \cup {"dialog"}]
            = [d EXCEPT !.misused = @ \cup {"dialog"}]
      BY <1>2 DEF action_answered, Xfer
    <2> QED BY <1>1, <1>4, <2>1, <2>2 DEF u
  <1> QED BY <1>3, <1>4

\* The dialog of x is answered, and the callback sets the status.
Answering(status) == [Answered EXCEPT !.status = status]

\* Answering(status) is the transfer of lemma Answer, but for the dialog that is
\* still there.
LEMMA AnsweringIs ==
    ASSUME IInv, x.dialog # "none", NEW status \in {x.status, "accepted", "cancel_local"}
    PROVE  LET a == Answering(status)
               t == [x EXCEPT !.dialog = "none", !.status = status]
           IN  /\ a \in Xfer /\ a.answering /\ a.live /\ a.ref = 2 + a.leaked
               /\ a.dialog = "none" /\ a.status = status /\ a.status # "started"
               /\ a.ref \in Nat /\ a.leaked \in Nat
               /\ action_answered(a) = t
               /\ a.ref = t.ref /\ a.leaked = t.leaked
  <1> DEFINE a == Answering(status)
  <1>1. /\ x \in Xfer /\ x.status # "started" /\ x.live /\ x.ref \in Nat /\ x.leaked \in Nat
        /\ x.ref = 2 + x.leaked /\ ~x.answering /\ status \in Statuses
        /\ x.status \in {"unknown", "accepted"}
    BY Asking DEF IInv, Refs, Held, One, Xfer, Statuses
  <1>2. a = [x EXCEPT !.dialog = "none", !.answering = TRUE, !.status = status]
    BY <1>1 DEF Answering, Answered, Xfer
  <1>3. a \in Xfer
    <2> DEFINE p == [x EXCEPT !.dialog = "none"]
               q == [p EXCEPT !.answering = TRUE]
    <2>1. p \in Xfer
      BY <1>1 DEF Xfer, Dialogs
    <2>2. q \in Xfer
      <3> HIDE DEF p
      <3> QED BY <2>1 DEF Xfer
    <2>3. a = [q EXCEPT !.status = status]
      BY <1>2
    <2> HIDE DEF a, q
    <2> QED BY <1>1, <2>2, <2>3 DEF Xfer
  <1>4. a.answering /\ a.live /\ a.ref = x.ref /\ a.leaked = x.leaked /\ a.dialog = "none"
        /\ a.status = status
    BY <1>1, <1>2 DEF Xfer
  <1>5. action_answered(a) = [x EXCEPT !.dialog = "none", !.status = status]
    BY <1>1, <1>2, ZenonT(60) DEF action_answered, Xfer
  <1>6. [x EXCEPT !.dialog = "none", !.status = status].ref = x.ref
        /\ [x EXCEPT !.dialog = "none", !.status = status].leaked = x.leaked
    BY <1>1 DEF Xfer
  <1> HIDE DEF a
  <1> QED BY <1>1, <1>3, <1>4, <1>5, <1>6 DEF a

\* A question whose answer is no.
LEMMA DenyStep ==
    ASSUME IInv, x.dialog # "none", NEW status \in {x.status, "cancel_local"},
           NEW y \in {action_answered(unref(request_denied(Answering(status)))),
                      file_answered(unref(request_denied(Answering(status))))}
    PROVE  Steps(x, y)
  <1> DEFINE t == [x EXCEPT !.dialog = "none", !.status = status]
             d == unref(request_denied(t))
             m == [d EXCEPT !.misused = @ \cup {"dialog"}]
             a == Answering(status)
             c == [a EXCEPT !.known = FALSE]
             b == request_denied(a)
  <1>1. /\ t \in Xfer /\ Refs(t, 1) /\ t.known /\ ~t.local /\ ~t.listed
        /\ t.dialog = "none" /\ ~t.notice /\ ~t.connecting /\ t.fd = "none"
        /\ ~t.watcher /\ ~t.fp /\ "prpl" \notin t.ready /\ t.status = status
        /\ t.status # "started" /\ Bytes(t)
    <2>1. Sound(x) /\ status \in {x.status, "accepted", "cancel_local"}
      BY DEF IInv
    <2>2. t \in Xfer /\ Refs(t, 1) /\ t.known /\ ~t.local /\ ~t.listed
      BY <2>1, Answer, Zenon
    <2>3. t.dialog = "none" /\ ~t.notice /\ ~t.connecting /\ t.fd = "none"
          /\ ~t.watcher /\ ~t.fp
      BY <2>1, Answer, Zenon
    <2>4. "prpl" \notin t.ready
      BY <2>1, Answer, Zenon
    <2>5. Bytes(t)
      BY <2>1, Answer, Zenon
    <2>6. t.status = status
      BY <2>1, Answer, Zenon
    <2>7. status # "started"
      BY <2>1, Asking
    <2> QED BY <2>2, <2>3, <2>4, <2>5, <2>6, <2>7
  <1>2. x.status \in {"unknown", "accepted"}
    BY Asking DEF IInv
  <1>3. /\ a \in Xfer /\ a.answering /\ a.live /\ a.ref = 2 + a.leaked
        /\ a.status # "started" /\ a.ref \in Nat /\ a.leaked \in Nat
        /\ action_answered(a) = t /\ a.dialog = "none"
    <2>1. status \in {x.status, "accepted", "cancel_local"}
      OBVIOUS
    <2> QED BY <1>1, <2>1, AnsweringIs
  <1> HIDE DEF t, a
  <1>4. Sound(d) /\ d.status = status /\ ~d.known /\ ~d.listed
    BY <1>1, Deny
  <1>5. /\ c \in Xfer /\ c.answering /\ c.live /\ c.ref = a.ref /\ c.status # "started"
        /\ c.dialog = "none"
        /\ action_answered(c) = [action_answered(a) EXCEPT !.known = FALSE]
    <2>1. c \in Xfer
      BY <1>3, ZenonT(60) DEF Xfer
    <2>2. action_answered(c) = [action_answered(a) EXCEPT !.known = FALSE]
      BY <1>3 DEF action_answered, Xfer
    <2> QED BY <1>3, <2>1, <2>2 DEF Xfer
  <1>6. b = unref(c) /\ request_denied(t) = unref([t EXCEPT !.known = FALSE])
    BY Zenon DEF request_denied
  <1> HIDE DEF b, c
  <1>7. /\ b \in Xfer /\ Alike(c, b) /\ b.ref = c.ref - 1 /\ b.live
        /\ action_answered(b) = request_denied(t) /\ b.answering
    <2>1. c.ref > 0 /\ c.ref > 1 /\ c.ref # 1
      BY <1>3, <1>5
    <2>2. b \in Xfer /\ Alike(c, b) /\ b.ref = c.ref - 1 /\ b.live
      BY <1>5, <1>6, <2>1, Unref
    <2>3. action_answered(b) = unref(action_answered(c)) /\ b.answering
      BY <1>5, <1>6, <2>1, UnrefAnswering
    <2> QED BY <1>3, <1>5, <1>6, <2>2, <2>3
  <1>8. b.ref \in Nat /\ b.ref > 0 /\ b.status # "started" /\ b.dialog = "none"
    BY <1>3, <1>5, <1>7 DEF Alike
  <1>9. action_answered(unref(b)) = d
    <2>1. action_answered(unref(b)) = unref(action_answered(b))
      BY <1>7, <1>8, UnrefAnswering
    <2> QED BY <1>7, <2>1
  <1>10. file_answered(unref(b)) = IF b.ref > 1 THEN d ELSE m
    <2>1. file_answered(unref(b))
            = IF b.ref > 1 THEN unref(action_answered(b))
              ELSE [unref(action_answered(b)) EXCEPT !.misused = @ \cup {"dialog"}]
      BY <1>7, <1>8, FileAnswered, Zenon
    <2> QED BY <1>7, <2>1
  <1>11. b.ref > 1 \/ ~d.live
    <2> DEFINE e == action_answered(b)
    <2>1. e \in Xfer /\ e.live /\ e.ref = b.ref /\ e.dialog = "none" /\ ~e.answering
          /\ e.status # "started"
      BY <1>7, <1>8, ZenonT(60) DEF action_answered, Xfer
    <2> HIDE DEF e
    <2>2. unref(e).live <=> e.ref > 1
      BY <1>8, <2>1, Unref
    <2> QED BY <1>7, <2>1, <2>2 DEF e
  <1> HIDE DEF d, m
  <1>12. y = d \/ (y = m /\ ~d.live)
    BY <1>8, <1>9, <1>10, <1>11 DEF b, a
  <1>13. ~d.live => Sound(m) /\ m.status = d.status
    BY <1>4, StaleIsSound DEF m
  <1>14. Sound(y) /\ y.status = status
    BY <1>4, <1>12, <1>13
  <1> QED BY <1>2, <1>14 DEF Steps, Forward, Rank, Ended

\* The user does not accept.
LEMMA AcceptCancelStep ==
    ASSUME IInv, ask_accept_cancel
    PROVE  Steps(x, x')
  <1>1. Answered = Answering(x.status)
    BY DEF Answered, Answering, IInv, Sound, Xfer
  <1>2. x' = action_answered(unref(request_denied(Answering(x.status)))) /\ x.dialog # "none"
    BY <1>1, Zenon DEF ask_accept_cancel
  <1> QED BY <1>2, DenyStep

\* The user does not want the file.
LEMMA CancelRecvStep ==
    ASSUME IInv, cancel_recv_cb
    PROVE  Steps(x, x')
  <1>1. x' = action_answered(unref(request_denied(Answering("cancel_local")))) /\ x.dialog # "none"
    BY Zenon DEF cancel_recv_cb, Answering
  <1> QED BY <1>1, DenyStep

\* The transfer is cancelled by the answer itself, which closes the dialog.
LEMMA CancelAnswerStep ==
    ASSUME IInv, x.dialog # "none", x.type = "send", NEW status \in {x.status, "cancel_local"},
           NEW y, y = file_answered(unref(cancel(Answering(status), "cancel_local")))
    PROVE  Steps(x, y)
  <1> DEFINE t == [x EXCEPT !.dialog = "none", !.status = status]
             a == Answering(status)
             c == cancel(t, "cancel_local")
             o == unref(c)
             m == [o EXCEPT !.misused = @ \cup {"dialog"}]
  <1>1. /\ t \in Xfer /\ Refs(t, 1) /\ t.known /\ ~t.listed
        /\ ~t.notice /\ ~t.connecting /\ t.fd = "none" /\ t.dialog = "none"
    <2>1. Sound(x) /\ status \in {x.status, "accepted", "cancel_local"}
      BY DEF IInv
    <2> QED BY <2>1, Answer, Zenon
  <1>2. x.status \in {"unknown", "accepted"} /\ x \in Xfer
    BY Asking DEF IInv
  <1>3. t.type = "send"
    BY <1>2 DEF Xfer
  <1>4. a \in Xfer /\ a.dialog = "none" /\ action_answered(a) = t
    <2>1. status \in {x.status, "accepted", "cancel_local"}
      OBVIOUS
    <2> QED BY <2>1, AnsweringIs
  <1> HIDE DEF t, a
  <1>5. close_dialog(a) = close_dialog(t)
    <2>1. [t EXCEPT !.answering = FALSE] = t
      BY <1>1 DEF Refs, Held, Xfer
    <2>2. close_dialog(a) = [a EXCEPT !.answering = FALSE]
      BY <1>4, Zenon DEF close_dialog
    <2>3. close_dialog(t) = [t EXCEPT !.answering = FALSE]
      BY <1>1, Zenon DEF close_dialog
    <2> QED BY <1>4, <2>1, <2>2, <2>3, Zenon DEF action_answered
  <1>6. cancel(a, "cancel_local") = c
    BY <1>5, Zenon DEF cancel
  <1>7. Over(c, 1) /\ c.type = "send" /\ ~c.listed
    <2>1. Cancellable(t, 1)
      BY <1>1 DEF Cancellable
    <2> QED BY <1>1, <1>3, <2>1, Cancel
  <1> HIDE DEF c
  <1>8. Over(o, 0) /\ o.type = "send" /\ ~o.listed
    BY <1>7, GiveBackOver
  <1>9. y = m
    <2>1. o \in Xfer /\ ~o.answering /\ y = file_answered(o)
      BY <1>6, <1>8 DEF Over, Refs, Held, a
    <2> HIDE DEF o
    <2>2. file_answered(o) = [o EXCEPT !.answering = FALSE, !.misused = o.misused \cup {"dialog"}]
      BY <2>1, Zenon DEF file_answered
    <2>3. [o EXCEPT !.answering = FALSE, !.misused = o.misused \cup {"dialog"}] = m
      BY <2>1 DEF Xfer
    <2> QED BY <2>1, <2>2, <2>3
  <1> HIDE DEF o, m
  <1>10. Sound(o) /\ ~o.known /\ o.status \in Ended
    BY <1>8, OverIsSound DEF Over
  <1>11. Sound(m) /\ m.status = o.status
    BY <1>8, <1>10, StaleIsSound DEF m
  <1> QED BY <1>2, <1>9, <1>10, <1>11, LeftSteps DEF Left, Ended

\* The user chose no file.
LEMMA ChooseCancelStep ==
    ASSUME IInv, choose_file_cancel_cb
    PROVE  Steps(x, x')
  <1>0. x \in Xfer
    BY DEF IInv, Sound
  <1>1. Answering("cancel_local").type = x.type
    BY <1>0 DEF Answering, Answered, Xfer
  <1>2. /\ x.dialog # "none"
        /\ \/ x.type = "send" /\ x' = file_answered(unref(cancel(Answering("cancel_local"), "cancel_local")))
           \/ x' = file_answered(unref(request_denied(Answering("cancel_local"))))
    BY Zenon DEF choose_file_cancel_cb, Answering
  <1>3. "cancel_local" \in {x.status, "cancel_local"}
    OBVIOUS
  <1> QED BY <1>2, <1>3, DenyStep, CancelAnswerStep

\* The user is asked for a file.
LEMMA ChooseFileStep ==
    ASSUME IInv, choose_file
    PROVE  Steps(x, x')
  <1>1. /\ x \in Xfer /\ x.known /\ Active(x) /\ Refs(x, 0) /\ Bytes(x)
        /\ ~x.local /\ ~x.listed /\ ~x.begun /\ ~x.connecting /\ x.status # "started"
        /\ x.fd = "none" /\ ~x.watcher /\ ~x.fp /\ "prpl" \notin x.ready /\ x.asked > 0
        /\ (x.dialog # "none" \/ x.notice) /\ x.status \notin Ended
    BY Asking DEF choose_file, IInv, Active
  <1>2. x' \in Xfer /\ SameCounters(x, x') /\ x'.dialog = "file" /\ ~x'.notice
    <2>1. x \in Xfer /\ x' = [x EXCEPT !.dialog = "file", !.notice = FALSE]
      BY <1>1 DEF choose_file
    <2>2. x' \in Xfer
      BY <2>1, ZenonT(60) DEF Xfer, Dialogs
    <2>3. SameCounters(x, x')
      BY <2>1 DEF Xfer, SameCounters
    <2> QED BY <2>1, <2>2, <2>3 DEF Xfer
  <1>3. x'.ref = x.ref /\ x'.live = x.live /\ x'.known /\ ~x'.listed /\ x'.leaked = x.leaked
        /\ ~x'.local /\ x'.misused = x.misused /\ x'.answering = x.answering
        /\ x'.fd = "none" /\ ~x'.connecting /\ ~x'.begun
        /\ ~x'.fp /\ x'.ready = x.ready /\ ~x'.watcher /\ x'.ui = x.ui
        /\ x'.type = x.type /\ x'.asked = x.asked /\ x'.status = x.status
    BY <1>1 DEF choose_file, Xfer
  <1>4. Refs(x', 0)
    <2>1. One(x.dialog # "none" \/ x.notice) = 1 /\ One(x'.dialog # "none" \/ x'.notice) = 1
          /\ One(x.known) = 1 /\ One(x'.known) = 1 /\ One(x.listed) = 0 /\ One(x'.listed) = 0
      BY <1>1, <1>2, <1>3 DEF One
    <2> QED BY <1>1, <1>2, <1>3, <2>1 DEF Refs, Held
  <1>5. Active(x')
    BY <1>1, <1>2, <1>3 DEF Active, Ended, SameCounters
  <1>6. Bytes(x')
    BY <1>1, <1>2, <1>3 DEF Bytes, SameCounters
  <1>7. Sound(x')
    BY <1>2, <1>3, <1>4, <1>5, <1>6, Clean DEF Sound
  <1> QED BY <1>1, <1>3, <1>7, LeftSteps DEF Left

\* purple_xfer_request_accepted does not close the dialog that is being answered.
LEMMA AcceptAnswering ==
    ASSUME NEW q \in Xfer, ~q.answering, Events = {}, NEW sizes \in SUBSET {0, Size},
           NEW s \in request_accepted([q EXCEPT !.answering = TRUE], sizes)
    PROVE  \E r \in request_accepted(q, sizes) : s = [r EXCEPT !.answering = TRUE]
  <1> DEFINE a    == [q EXCEPT !.answering = TRUE]
             st   == IF q.type = "receive" THEN "accepted" ELSE q.status
             ca   == [a EXCEPT !.local = TRUE, !.named = TRUE, !.status = st]
             cq   == [q EXCEPT !.local = TRUE, !.named = TRUE, !.status = st]
             pa(n) == [ca EXCEPT !.size = n, !.left = n - q.sent]
             pq(n) == [cq EXCEPT !.size = n, !.left = n - q.sent]
             Row(u) == [u EXCEPT !.listed = TRUE, !.ref = @ + 1]
             l(u) == IF q.ui = "pidgin" THEN Row(u) ELSE u
             given == q.type = "send" /\ q.ui = "pidgin"
             Sa == IF given THEN {pa(n) : n \in sizes} ELSE {ca}
             Sq == IF given THEN {pq(n) : n \in sizes} ELSE {cq}
             on(u) == [u EXCEPT !.answering = TRUE]
  <1>1. a.type = q.type /\ a.ui = q.ui /\ a.sent = q.sent /\ a.status = q.status
    BY DEF Xfer
  <1>2. request_accepted(a, sizes) = {l(u) : u \in Sa}
        /\ request_accepted(q, sizes) = {l(u) : u \in Sq}
    <2> DEFINE c0    == [a EXCEPT !.local = TRUE, !.named = TRUE,
                                  !.status = IF a.type = "receive" THEN "accepted" ELSE a.status]
               p0(n) == [c0 EXCEPT !.size = n, !.left = n - a.sent]
               S0    == IF a.type = "send" /\ a.ui = "pidgin" THEN {p0(n) : n \in sizes} ELSE {c0}
               l0(u) == IF a.ui = "pidgin" THEN Row(u) ELSE u
    <2>1. request_accepted(q, sizes) = {l(u) : u \in Sq} \cup {}
      BY Zenon DEF request_accepted
    <2>2. request_accepted(a, sizes) = {l0(u) : u \in S0} \cup {}
      BY Zenon DEF request_accepted
    <2> HIDE DEF a, Row
    <2>3. c0 = ca
      BY <1>1
    <2> HIDE DEF c0, ca
    <2>4. \A n \in sizes : p0(n) = pa(n)
      BY <1>1, <2>3
    <2> HIDE DEF p0, pa
    <2>5. S0 = Sa
      BY <1>1, <2>3, <2>4
    <2> HIDE DEF S0, Sa, Sq
    <2>6. {l0(u) : u \in S0} = {l(u) : u \in Sa}
      BY <1>1, <2>5
    <2> HIDE DEF l, l0
    <2> QED BY <2>1, <2>2, <2>6
  <1>3. /\ ca = on(cq) /\ Row(ca) = on(Row(cq))
        /\ \A n \in sizes : pa(n) = on(pq(n)) /\ Row(pa(n)) = on(Row(pq(n)))
    <2> HIDE DEF st
    <2>1. ASSUME NEW n
          PROVE  /\ ca = on(cq) /\ Row(ca) = on(Row(cq))
                 /\ pa(n) = on(pq(n)) /\ Row(pa(n)) = on(Row(pq(n)))
      <3> DEFINE m == n - q.sent
      <3> HIDE DEF m
      <3>1. ca = on(cq) /\ Row(ca) = on(Row(cq))
        BY DEF Xfer
      <3>2. [ca EXCEPT !.size = n, !.left = m] = on([cq EXCEPT !.size = n, !.left = m])
            /\ Row([ca EXCEPT !.size = n, !.left = m]) = on(Row([cq EXCEPT !.size = n, !.left = m]))
        BY ZenonT(60) DEF Xfer
      <3> QED BY <3>1, <3>2, Zenon DEF m
    <2> HIDE DEF a, ca, cq, pa, pq, Row, on
    <2> QED BY <2>1
  <1> HIDE DEF a, st, ca, cq, pa, pq, Row, on
  <1>4. PICK u \in Sa : s = l(u)
    <2> HIDE DEF Sa, Sq, l
    <2> QED BY <1>2 DEF a
  <1>5. \E v \in Sq : l(u) = on(l(v))
    <2>1. CASE given
      <3>1. PICK n \in sizes : u = pa(n)
        BY <1>4, <2>1
      <3>2. pq(n) \in Sq
        BY <2>1
      <3>3. l(u) = on(l(pq(n)))
        BY <1>3, <3>1
      <3> QED BY <3>2, <3>3
    <2>2. CASE ~given
      <3>1. u = ca /\ cq \in Sq
        BY <1>4, <2>2
      <3>2. l(u) = on(l(cq))
        BY <1>3, <3>1
      <3> QED BY <3>1, <3>2
    <2> QED BY <2>1, <2>2
  <1>6. PICK v \in Sq : s = on(l(v))
    <2> HIDE DEF Sa, Sq, l
    <2> QED BY <1>4, <1>5
  <1>7. l(v) \in request_accepted(q, sizes)
    <2> HIDE DEF Sa, Sq, l
    <2> QED BY <1>2
  <1> HIDE DEF l
  <1> QED BY <1>6, <1>7 DEF on

\* The user chose a file.
LEMMA ChooseOkStep ==
    ASSUME IInv, Events = {}, choose_file_ok_cb
    PROVE  Steps(x, x')
  <1> DEFINE t == [x EXCEPT !.dialog = "none", !.status = x.status]
             a == Answering(x.status)
             u == [t EXCEPT !.notice = TRUE, !.ref = @ + 1]
             v == [a EXCEPT !.notice = TRUE, !.ref = @ + 1]
  <1>0. a = Answered
    BY DEF Answering, Answered, IInv, Sound, Xfer
  <1>1. /\ x.dialog # "none"
        /\ \/ \E s \in request_accepted(a, {Size}) : x' = file_answered(unref(s))
           \/ x' = file_answered(unref(v))
           \/ x.type = "send" /\ x' = file_answered(unref(cancel(a, "cancel_local")))
           \/ x' = file_answered(unref(request_denied(a)))
    <2>1. x.dialog # "none"
      BY DEF choose_file_ok_cb
    <2>2. \/ \E s \in request_accepted(Answered, {Size}) : x' = file_answered(unref(s))
          \/ x' = file_answered(unref([Answered EXCEPT !.notice = TRUE, !.ref = @ + 1]))
          \/ x.type = "send" /\ x' = file_answered(unref(cancel(Answered, "cancel_local")))
          \/ x' = file_answered(unref(request_denied(Answered)))
      BY Zenon DEF choose_file_ok_cb
    <2> HIDE DEF a
    <2> QED BY <1>0, <2>1, <2>2, Zenon
  <1>2. /\ x.status \in {"unknown", "accepted"} /\ x \in Xfer /\ Active(x) /\ ~x.local
        /\ x.asked > 0
    BY <1>1, Asking DEF IInv, Active
  <1>3. Pending(t, 1) /\ ~t.local /\ ~t.listed /\ t.status = x.status /\ ~t.begun
        /\ t.fd = "none" /\ ~t.watcher /\ ~t.fp /\ "prpl" \notin t.ready /\ ~t.connecting
        /\ t.asked = x.asked
    <2>1. Pending(t, 1) /\ ~t.local /\ ~t.listed /\ t.status = x.status
          /\ t.fd = "none" /\ ~t.watcher /\ ~t.fp /\ "prpl" \notin t.ready /\ ~t.connecting
      BY <1>1, <1>2, Answer DEF IInv
    <2>2. t.begun = x.begun /\ t.asked = x.asked /\ ~x.begun
      BY <1>1, <1>2, Asking DEF Xfer, IInv
    <2> QED BY <2>1, <2>2
  <1>3a. /\ a \in Xfer /\ a.answering /\ a.live /\ a.ref = 2 + a.leaked /\ a.ref \in Nat
         /\ a.leaked \in Nat /\ action_answered(a) = t
    BY <1>1, AnsweringIs
  <1> HIDE DEF t, a
  <1>4. ASSUME NEW s \in request_accepted(a, {Size}), x' = file_answered(unref(s))
        PROVE  Steps(x, x')
    <2>0. {Size} \in SUBSET {0, Size}
      OBVIOUS
    <2>1. PICK r \in request_accepted(t, {Size}) : s = [r EXCEPT !.answering = TRUE]
      <3>1. t \in Xfer /\ ~t.answering
        BY <1>3 DEF Pending, Refs, Held
      <3>2. a = [t EXCEPT !.answering = TRUE]
        BY <1>3a, <3>1 DEF action_answered, Xfer
      <3> QED BY <1>4, <2>0, <3>1, <3>2, AcceptAnswering
    <2>2. Pending(r, 1) /\ (r.status = t.status \/ (r.status = "accepted" /\ t.status = "unknown"))
      BY <1>3, <2>0, <2>1, Accept
    <2>3. r \in Xfer /\ r.live /\ r.ref > 1 /\ r.ref \in Nat /\ ~r.answering
      BY <2>2 DEF Pending, Refs, Held, One, Xfer
    <2>4. s \in Xfer /\ s.answering /\ s.live /\ s.ref = r.ref /\ action_answered(s) = r
      <3>1. s \in Xfer /\ s.answering /\ s.live /\ s.ref = r.ref
        BY <2>1, <2>3 DEF Xfer
      <3>2. action_answered(s) = r
        BY <2>1, <2>3 DEF Xfer, action_answered
      <3> QED BY <3>1, <3>2
    <2>5. s.ref > 0 /\ s.ref # 1 /\ s.ref > 1
      BY <2>3, <2>4
    <2>6. x' = unref(r)
      <3>1. file_answered(unref(s)) = unref(action_answered(s))
        BY <2>4, <2>5, FileAnswered
      <3> QED BY <1>4, <2>4, <3>1
    <2>7. Sound(x') /\ x'.status = r.status
      BY <2>2, <2>6, GiveBack
    <2> QED BY <1>2, <1>3, <2>2, <2>7 DEF Steps, Forward, Rank, Ended
  <1>5. ASSUME x' = file_answered(unref(v)) PROVE x' = unref(u)
    <2>1. v \in Xfer /\ v.answering /\ v.live /\ v.ref = a.ref + 1
      <3>1. a.ref + 1 \in Nat
        BY <1>3a
      <3>2. v \in Xfer
        BY <1>3a, <3>1 DEF Xfer
      <3> QED BY <1>3a, <3>2 DEF Xfer
    <2>2. v.ref > 0 /\ v.ref # 1 /\ v.ref > 1
      BY <1>3a, <2>1
    <2>3. action_answered(v) = [action_answered(a) EXCEPT !.notice = TRUE, !.ref = @ + 1]
      BY <1>3a DEF action_answered, Xfer
    <2> HIDE DEF v
    <2>4. file_answered(unref(v)) = unref(action_answered(v))
      BY <2>1, <2>2, FileAnswered
    <2> QED BY <1>3a, <1>5, <2>3, <2>4
  <1>4a. CASE x' = unref(u)
    <2>0. t \in Xfer /\ t.ref \in Nat /\ t.ref + 1 \in Nat /\ t.leaked \in Nat
      BY <1>3 DEF Pending, Xfer
    <2>1. u \in Xfer /\ SameCounters(t, u) /\ u.notice /\ u.ref = t.ref + 1
      BY <2>0 DEF Xfer, SameCounters
    <2>2. u.live = t.live /\ u.known = t.known /\ u.listed = t.listed /\ u.leaked = t.leaked
          /\ u.local = t.local /\ u.misused = t.misused /\ u.answering = t.answering /\ u.fd = t.fd
          /\ u.connecting = t.connecting /\ u.begun = t.begun /\ u.fp = t.fp
          /\ u.ready = t.ready /\ u.watcher = t.watcher /\ u.ui = t.ui /\ u.type = t.type
          /\ u.asked = t.asked /\ u.dialog = t.dialog /\ u.status = t.status
      BY <2>0 DEF Xfer
    <2> HIDE DEF u
    <2>3. u.live /\ u.ref > 1 /\ u.ref = 3 + u.leaked /\ u.dialog = "none" /\ ~u.listed
          /\ u.misused = {} /\ ~u.answering /\ u.known
      BY <1>3, <2>0, <2>1, <2>2 DEF Pending, Refs, Held, One
    <2>4. x' \in Xfer /\ Alike(u, x') /\ x'.ref = u.ref - 1 /\ x'.live
      <3>1. u.ref # 1 /\ u.ref > 0
        BY <2>0, <2>1, <2>3
      <3> QED BY <1>4a, <2>1, <2>3, <3>1, Unref
    <2>5. Refs(x', 0)
      BY <2>0, <2>1, <2>2, <2>3, <2>4 DEF Refs, Held, One, Alike
    <2>6. Active(x')
      BY <1>2, <1>3, <2>1, <2>2, <2>3, <2>4 DEF Pending, Active, Ended, Alike, SameCounters
    <2>7. Bytes(x')
      BY <1>3, <2>1, <2>2, <2>4 DEF Pending, Bytes, Alike, SameCounters
    <2>8. Sound(x') /\ x'.status = x.status
      BY <1>3, <2>2, <2>3, <2>4, <2>5, <2>6, <2>7, Clean DEF Sound, Alike
    <2> QED BY <1>2, <2>8, LeftSteps DEF Left, Ended
  <1>6. CASE x.type = "send" /\ x' = file_answered(unref(cancel(a, "cancel_local")))
    BY <1>1, <1>6, CancelAnswerStep DEF a
  <1>7. CASE x' = file_answered(unref(request_denied(a)))
    BY <1>1, <1>7, DenyStep DEF a
  <1> HIDE DEF u, v
  <1> QED BY <1>1, <1>4, <1>4a, <1>5, <1>6, <1>7

\* The proxy connection is made, or failed.
LEMMA ConnectStep ==
    ASSUME IInv, connect_cb
    PROVE  Steps(x, x')
  <1> DEFINE s == [x EXCEPT !.connecting = FALSE]
  <1>1. x.known /\ x.connecting
    BY DEF connect_cb, IInv, Sound, Idle
  <1>2. /\ x \in Xfer /\ Active(x) /\ Refs(x, 0) /\ Bytes(x) /\ (x.listed => x.local)
        /\ x.local /\ ~x.begun /\ x.dialog = "none" /\ ~x.notice /\ x.fd = "none"
        /\ x.status \notin Ended
    BY <1>1, ActiveFacts DEF Active, Xfer
  <1>3. x.live
    BY <1>1, <1>2, ActiveFacts DEF Refs, Held, One
  <1>4. x' = cancel(s, "cancel_local") \/ x' \in begin_transfer([s EXCEPT !.fd = "open"])
    BY <1>3, Zenon DEF connect_cb
  <1>5. s \in Xfer /\ SameCounters(x, s) /\ s.status = x.status
    BY <1>2 DEF Xfer, SameCounters
  <1>6. s.ref = x.ref /\ s.live = x.live /\ s.known = x.known /\ s.notice = x.notice
        /\ s.listed = x.listed /\ s.leaked = x.leaked /\ s.local = x.local
        /\ s.misused = x.misused /\ s.answering = x.answering /\ s.fd = x.fd /\ ~s.connecting
        /\ s.begun = x.begun /\ s.fp = x.fp /\ s.ready = x.ready /\ s.watcher = x.watcher
        /\ s.ui = x.ui /\ s.type = x.type /\ s.asked = x.asked /\ s.dialog = x.dialog
    BY <1>2 DEF Xfer
  <1> HIDE DEF s
  <1>7. Refs(s, 0)
    BY <1>2, <1>6 DEF Refs, Held
  <1>8. Active(s)
    BY <1>2, <1>5, <1>6 DEF Active, Ended, SameCounters
  <1>9. Bytes(s)
    BY <1>2, <1>5, <1>6 DEF Bytes, SameCounters
  <1>10. Pending(s, 0)
    BY <1>1, <1>2, <1>5, <1>6, <1>7, <1>8, <1>9 DEF Pending
  <1>11. Left(s, x')
    <2>1. CASE x' = cancel(s, "cancel_local")
      <3>1. Cancellable(s, 0)
        BY <1>2, <1>6, <1>10 DEF Pending, Cancellable
      <3>2. Over(x', 0)
        BY <2>1, <3>1, Cancel
      <3> QED BY <3>2, OverIsSound DEF Left, Over
    <2>2. CASE x' \in begin_transfer([s EXCEPT !.fd = "open"])
      BY <1>2, <1>6, <1>10, <2>2, Begin
    <2> QED BY <1>4, <2>1, <2>2
  <1> QED BY <1>2, <1>5, <1>11, LeftSteps DEF Left

-----------------------------------------------------------------------------
(* The theorems.  The optional behaviours are left out: each of them breaks *)
(* the properties (Events in Xfer).                                        *)

\* Every step leaves a sound transfer and moves its status forward, or begins
\* another transfer.
LEMMA Step ==
    ASSUME IInv, Events = {}, Next
    PROVE  Sound(x') /\ (new \/ Forward(x, x'))
  <1>1. CASE new
    BY <1>1, NewIsSound DEF new
  <1>2. CASE request
    BY <1>2, RequestStep DEF Steps
  <1>3. CASE accept_given
    BY <1>3, GivenStep DEF Steps
  <1>4. ASSUME NEW with \in {"socket", "address", "nothing"}, start(with)
        PROVE  Steps(x, x')
    BY <1>4, StartStep
  <1>5. ASSUME NEW status \in {"cancel_local", "cancel_remote"}, prpl_cancel(status)
        PROVE  Steps(x, x')
    BY <1>5, PrplCancelStep
  <1>6. ASSUME NEW completed \in BOOLEAN, prpl_end(completed)
        PROVE  Steps(x, x')
    BY <1>6, PrplEndStep
  <1>7. CASE prpl_ready \/ use_file \/ ui_ready
    BY <1>7, PrplReadyStep, UseFileStep, UiReadyStep DEF Steps
  <1>8. CASE ask_accept_ok \/ ask_accept_cancel \/ choose_file \/ cancel_recv_cb
    BY <1>8, AcceptOkStep, AcceptCancelStep, ChooseFileStep, CancelRecvStep DEF Steps
  <1>9. CASE choose_file_ok_cb \/ choose_file_cancel_cb
    BY <1>9, ChooseOkStep, ChooseCancelStep DEF Steps
  <1>10. CASE stop_button_cb \/ remove_button_cb
    BY <1>10, StopButtonStep, RemoveButtonStep DEF Steps
  <1>11. CASE connect_cb \/ transfer_cb
    BY <1>11, ConnectStep, TransferStep DEF Steps
  <1> QED BY <1>1, <1>2, <1>3, <1>4, <1>5, <1>6, <1>7, <1>8, <1>9, <1>10, <1>11 DEF Next, Steps

\* A transfer is sound at all times, whatever the protocol, the user, the UI
\* and the main loop do, and in what order.
THEOREM InductiveInvariant ==
    ASSUME Events = {}
    PROVE  Spec => []IInv
  <1>1. Init => IInv
    BY NewIsSound DEF Init, IInv
  <1>2. IInv /\ [Next]_x => IInv'
    BY Step DEF IInv
  <1> QED BY <1>1, <1>2, PTL DEF Spec

\* Reference counts do not go below zero, and no more bytes are read, buffered
\* or sent than the file has.
THEOREM TypeCorrect ==
    ASSUME Events = {}
    PROVE  Spec => []TypeOK
  <1>1. IInv => TypeOK
    BY DEF IInv, Sound, Held, TypeOK
  <1> QED BY <1>1, InductiveInvariant, PTL

\* Every reference to a transfer belongs to somebody or was lost for good, the
\* struct is freed with the last of them, and it and its socket are not used
\* afterwards (purple_xfer_ref, purple_xfer_unref).
THEOREM ReferencesAccounted ==
    ASSUME Events = {}
    PROVE  Spec => []RefsAccounted
  <1>1. IInv => RefsAccounted
    <2> SUFFICES ASSUME IInv PROVE RefsAccounted
      OBVIOUS
    <2>1. /\ Held(x, 0) /\ x.leaked \in Nat /\ (x.watcher \/ x.connecting => x.known)
          /\ x.misused \cap {"xfer", "fd"} = {}
      BY DEF IInv, Sound, Misuse, Idle, Xfer
    <2> QED BY <2>1 DEF RefsAccounted, Held, One
  <1> QED BY <1>1, InductiveInvariant, PTL

\* The priv of a transfer is read after it only if a write failed of a UI that
\* moves the data itself, and the data of a dialog only if the answer ended the
\* transfer (do_transfer, file_yes_no_cb).
THEOREM StaleReadsOnly ==
    ASSUME Events = {}
    PROVE  Spec => []StaleReads
  <1>1. IInv => StaleReads
    BY DEF IInv, Sound, Misuse, StaleReads
  <1> QED BY <1>1, InductiveInvariant, PTL

\* A transfer that the protocol has let go holds neither a socket nor a file,
\* and nobody is asked about it or called back for it.
THEOREM OverIsOver ==
    ASSUME Events = {}
    PROVE  Spec => []OverForGood
  <1>1. IInv => OverForGood
    BY DEF IInv, Sound, Idle, OverForGood
  <1> QED BY <1>1, InductiveInvariant, PTL

\* No byte of the file is lost, sent twice or skipped, whatever the sizes of
\* the file and of the chunks are.
THEOREM EveryByteIsMoved ==
    ASSUME Events = {}
    PROVE  Spec => []NoByteLost
  <1>1. IInv => NoByteLost
    BY DEF IInv, Sound, Bytes, NoByteLost
  <1> QED BY <1>1, InductiveInvariant, PTL

\* A transfer whose watcher was taken away is not forgotten, unless it sends an
\* empty file.
THEOREM SomebodyWakesIt ==
    ASSUME Events = {}
    PROVE  Spec => []WakeupKept
  <1>1. IInv => WakeupKept
    BY DEF IInv, Sound, Active, Awake, WakeupKept
  <1> QED BY <1>1, InductiveInvariant, PTL

\* The status moves forward, and an end is final.
THEOREM StatusMovesForward ==
    ASSUME Events = {}
    PROVE  Spec => StatusForward
  <1>1. IInv /\ [Next]_x => [new \/ Forward(x, x')]_x
    BY Step
  <1>2. [new \/ Forward(x, x')]_x
          => [new \/ IF x.status \in Ended THEN x'.status = x.status
                     ELSE Rank(x'.status) >= Rank(x.status)]_x
    BY DEF Forward
  <1> QED BY <1>1, <1>2, InductiveInvariant, PTL DEF Spec, StatusForward

=============================================================================
