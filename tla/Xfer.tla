-------------------------------- MODULE Xfer --------------------------------
(***************************************************************************)
(* libpurple/ft.c: a file transfer, from the question whether and where to *)
(* save the file to its end, with the list of transfers that Pidgin shows  *)
(* (pidgin/gtkft.c).                                                       *)
(*                                                                         *)
(* A PurpleXfer has a reference count, and pointers to it are held by the  *)
(* protocol, by the dialogs that ask the user, by the row in Pidgin's list *)
(* and by the callbacks of the main loop.  Everything runs in one thread;  *)
(* what is hard is that each of them may end the transfer while the others *)
(* still hold it.                                                          *)
(*                                                                         *)
(* One transfer is followed at a time: they share nothing.  The protocol   *)
(* (its "ops") and a UI that moves the data itself (ui_read, ui_write) are *)
(* external: they call the functions of ft.c whenever they may.  The       *)
(* functions below take the transfer and return what it becomes, or the    *)
(* set of what it may become.                                              *)
(***************************************************************************)
EXTENDS Integers, FiniteSets

CONSTANTS
    Size,       \* bound: the bytes of a file whose size is known
    Chunk,      \* current_buffer_size
    Events      \* the optional behaviours that may happen, of OptionalEvents

\* "cancel_connecting": a transfer is cancelled while its proxy connection is
\* being made, which nothing stops;
\* "cancel_noticed": it is cancelled while the message is shown after which
\* the user is asked for another file;
\* "bad_name": the name that the user chose is refused;
\* "start_again": the protocol starts a transfer for the second time.
OptionalEvents == {"cancel_connecting", "cancel_noticed", "bad_name", "start_again"}

ASSUME SizeAssumption  == Size \in Nat \ {0} /\ Chunk \in Nat \ {0}
ASSUME EventAssumption == Events \subseteq OptionalEvents

VARIABLE x      \* the transfer and what is attached to it

Statuses == {"unknown", "accepted", "started", "done", "cancel_local", "cancel_remote"}
Dialogs  == {"none", "file", "recv", "accept"}

\* live: the struct is allocated; ui: Pidgin, or a UI with ui_read and
\* ui_write; clear: Pidgin's auto_clear; size: 0 if it is not known or the file
\* is empty;
\* named, local: filename and local_filename are set; fp: dest_fp is open;
\* fd: "none" is -1; begun: start_time is set; pos: where in the file fp is;
\* buffer: priv->buffer->len; sent, left: bytes_sent, bytes_remaining.
\* Attached to it: known, the protocol has a pointer and with it the reference
\* of purple_xfer_new; dialog and notice, what the user is asked or told;
\* listed, the row in the UI's list; connecting, the proxy connection.
\* answering: while the callback of a dialog runs, the dialog is still there.
\* For the properties: asked, the calls of purple_xfer_request; leaked, the
\* references that nobody has any more; misused, what was used after it had been
\* freed: the transfer, its socket (closed twice), its priv, or the data of a
\* dialog.
Xfer ==
    [live : BOOLEAN, type : {"send", "receive"}, ui : {"pidgin", "moderated"},
     clear : BOOLEAN, size : {0, Size}, named : BOOLEAN, local : BOOLEAN,
     ref : Nat, status : Statuses, begun : BOOLEAN, fp : BOOLEAN,
     fd : {"none", "open", "closed"}, watcher : BOOLEAN, ready : SUBSET {"ui", "prpl"},
     pos : 0..Size, buffer : 0..Size, sent : 0..Size, left : 0..Size,
     known : BOOLEAN, dialog : Dialogs, notice : BOOLEAN, listed : BOOLEAN,
     connecting : BOOLEAN, answering : BOOLEAN, asked : 0..2, leaked : Nat,
     misused : SUBSET {"xfer", "fd", "priv", "dialog"}]

\* Between two steps no callback is running.
TypeOK == x \in Xfer /\ ~x.answering

\* purple_xfer_new, after which the protocol sets what it knows.
New(type, ui, clear, size, named) ==
    [live |-> TRUE, type |-> type, ui |-> ui, clear |-> clear, size |-> size,
     named |-> named, local |-> FALSE, ref |-> 1, status |-> "unknown", begun |-> FALSE,
     fp |-> FALSE, fd |-> "none", watcher |-> FALSE, ready |-> {}, pos |-> 0,
     buffer |-> 0, sent |-> 0, left |-> size, known |-> TRUE, dialog |-> "none",
     notice |-> FALSE, listed |-> FALSE, connecting |-> FALSE, answering |-> FALSE,
     asked |-> 0, leaked |-> 0, misused |-> {}]

\* The size of a file to send is that of the file once it is chosen, or set by
\* the UI that moves the data.
NewXfers ==
    {s \in {New(type, ui, clear, size, named) :
              type \in {"send", "receive"}, ui \in {"pidgin", "moderated"},
              clear \in BOOLEAN, size \in {0, Size}, named \in BOOLEAN} :
        /\ s.type = "send" => ~s.named /\ (s.ui = "pidgin" => s.size = 0)
        /\ s.ui = "moderated" => ~s.clear}

Init == x \in NewXfers

MinOf(a, b) == IF a < b THEN a ELSE b

-----------------------------------------------------------------------------
(* References, cancelling and ending.                                      *)

\* What cancelling and ending close; the number of the socket is kept.
Closed(s) ==
    [s EXCEPT !.watcher = FALSE, !.fp = FALSE,
              !.misused = IF s.fd = "closed" THEN @ \cup {"fd"} ELSE @,
              !.fd = IF @ = "open" THEN "closed" ELSE @]

\* Mutant of destroy: whatever its status is, the transfer is cancelled.
destroyCancelling(s) ==
    [Closed(s) EXCEPT !.status = "cancel_local", !.live = FALSE, !.dialog = "none",
                      !.answering = FALSE]

\* purple_xfer_destroy, which closes the dialogs.  A transfer that is under way
\* is cancelled first, but has no reference to lose.
destroy(s) ==
    LET t == IF s.status = "started" THEN [Closed(s) EXCEPT !.status = "cancel_local"] ELSE s
    IN  [t EXCEPT !.live = FALSE, !.dialog = "none", !.answering = FALSE]

\* purple_xfer_unref.
unref(s) ==
    IF ~s.live THEN [s EXCEPT !.misused = @ \cup {"xfer"}]
    ELSE IF s.ref = 1 THEN destroy([s EXCEPT !.ref = 0])
    ELSE IF s.ref = 0 THEN s
    ELSE [s EXCEPT !.ref = @ - 1]

\* pidgin_xfer_dialog_remove_xfer.
remove_row(s) == IF s.listed THEN unref([s EXCEPT !.listed = FALSE]) ELSE s

\* purple_request_close_with_handle, whose data is freed, for a dialog whose
\* callback is running as well.  The reference of one that was not answered goes
\* with nobody.
close_dialog(s) ==
    LET t == [s EXCEPT !.answering = FALSE]
    IN  IF s.dialog = "none" THEN t ELSE [t EXCEPT !.dialog = "none", !.leaked = @ + 1]

\* Mutant of cancel: the input watcher and the files are left as they are.
cancelKeepingOpen(s, status) ==
    LET t == [close_dialog(s) EXCEPT !.status = status, !.known = FALSE]
        u == IF t.clear /\ status = "cancel_local" THEN remove_row(t) ELSE t
    IN  unref([u EXCEPT !.left = 0])

\* Mutant of cancel: auto_clear takes the row away whoever cancelled.
cancelClearing(s, status) ==
    LET t == Closed([close_dialog(s) EXCEPT !.status = status, !.known = FALSE])
    IN  unref([IF t.clear THEN remove_row(t) ELSE t EXCEPT !.left = 0])

\* purple_xfer_cancel_local and purple_xfer_cancel_remote, with the protocol's
\* op, in which it forgets the transfer.  Pidgin takes a row out of its list
\* only when the user cancelled.
cancel(s, status) ==
    LET t == Closed([close_dialog(s) EXCEPT !.status = status, !.known = FALSE])
        u == IF t.clear /\ status = "cancel_local" THEN remove_row(t) ELSE t
    IN  unref([u EXCEPT !.left = 0])

\* purple_xfer_set_completed, with Pidgin's update_progress.
set_completed(s) ==
    LET t == [s EXCEPT !.status = "done"]
    IN  IF t.clear THEN remove_row(t) ELSE t

\* Mutant of end: the reference is kept.
endKeepingRef(s) ==
    IF s.status # "done" THEN cancel(s, "cancel_local")
    ELSE Closed([s EXCEPT !.known = FALSE])

\* purple_xfer_end.
end(s) ==
    IF s.status # "done" THEN cancel(s, "cancel_local")
    ELSE unref(Closed([s EXCEPT !.known = FALSE]))

\* purple_xfer_request_denied, with the protocol's op.
request_denied(s) == unref([s EXCEPT !.known = FALSE])

\* purple_xfer_request_accepted with the name of a file, of one of "sizes": the
\* transfer is shown in the list and the protocol's init is called, which may
\* start it at any time.  A name that is refused costs the protocol its
\* reference, but it is not told.
request_accepted(s, sizes) ==
    LET t == [s EXCEPT !.local = TRUE, !.named = TRUE,
                       !.status = IF s.type = "receive" THEN "accepted" ELSE @]
        Sized == IF s.type = "send" /\ s.ui = "pidgin"
                 THEN {[t EXCEPT !.size = n, !.left = n - s.sent] : n \in sizes} ELSE {t}
    IN  {IF s.ui = "pidgin" THEN [u EXCEPT !.listed = TRUE, !.ref = @ + 1] ELSE u : u \in Sized}
          \cup (IF s.type = "send" /\ "bad_name" \in Events THEN {unref(s)} ELSE {})

-----------------------------------------------------------------------------
(* Moving the data.                                                        *)

\* r bytes came or went; with the last of them the transfer is completed.
\* Without a known size the bytes are not counted here.
Moved(s, r) ==
    LET t == IF s.size > 0 /\ s.sent + r >= s.size THEN set_completed(s) ELSE s
        u == IF s.size > 0 THEN [t EXCEPT !.left = @ - r, !.sent = @ + r] ELSE t
    IN  IF u.status = "done" THEN end(u) ELSE u

\* Mutant of Received: a whole chunk is read though less is left.
ReceivedWhole(s) ==
    {cancel(s, "cancel_remote"), s, cancel(s, "cancel_local")}
      \cup {Moved([s EXCEPT !.pos = IF s.size > 0 THEN @ + r ELSE @], r) : r \in 1..Chunk}

\* do_transfer when a file is received: r < 0, r = 0, the file cannot be
\* written, and r bytes.
Received(s) ==
    {cancel(s, "cancel_remote"), s, cancel(s, "cancel_local")}
      \cup {Moved([s EXCEPT !.pos = IF s.size > 0 THEN @ + r ELSE @], r) :
              r \in 1..(IF s.size = 0 THEN Chunk ELSE MinOf(s.left, Chunk))}

\* Mutant of Kept: what was written stays in the buffer.
KeptAll(s, r) ==
    IF s.ui = "pidgin" THEN s ELSE [s EXCEPT !.pos = @ - (s.buffer - r), !.buffer = 0]

\* What becomes of what could not be written: it waits in the buffer, or is
\* given back to the UI (data_not_sent).
Kept(s, r) ==
    IF s.ui = "pidgin" THEN [s EXCEPT !.buffer = @ - r]
    ELSE [s EXCEPT !.pos = @ - (s.buffer - r), !.buffer = 0]

\* A write failed: the transfer is cancelled, and then priv->buffer is read, which
\* went with the transfer if nobody but the protocol had a reference.
write_failed(s) ==
    LET t == cancel(s, "cancel_remote")
    IN  IF t.live THEN t ELSE [t EXCEPT !.misused = @ \cup {"priv"}]

\* purple_xfer_write of the buffer, and what follows it.
Written(s) ==
    {write_failed(s)}
      \cup {Moved(Kept(s, r), r) : r \in 0..MinOf(s.left, s.buffer)}

\* Mutant of Waiting: the protocol's readiness is forgotten.
WaitingForNobody(s) == [s EXCEPT !.watcher = FALSE]

\* The UI has nothing to send yet, or was not ready: purple_xfer_ui_ready is
\* what goes on with the transfer.
Waiting(s) == [s EXCEPT !.watcher = FALSE, !.ready = @ \cup {"prpl"}]

\* do_transfer when a file is sent.  Of an empty file nothing ever is: the watcher
\* is taken away for good, "so the prpl can keep the connection open".
Sent(s) ==
    LET n    == MinOf(s.left, Chunk)
        need == IF s.buffer < n THEN n - s.buffer ELSE 0
    IN  CASE n = 0 -> {[s EXCEPT !.watcher = FALSE]}
          [] n > 0 /\ s.ui = "pidgin" ->
               (IF need > 0 THEN {cancel(s, "cancel_local")} ELSE {})
                 \cup Written([s EXCEPT !.pos = @ + need, !.buffer = @ + need])
          [] n > 0 /\ s.ui = "moderated" ->
               {Waiting(s), cancel(s, "cancel_local")}
                 \cup UNION {Written([s EXCEPT !.pos = @ + k, !.buffer = k]) : k \in 1..n}

do_transfer(s) == IF s.type = "receive" THEN Received(s) ELSE Sent(s)

\* begin_transfer: the file may not open.
begin_transfer(s) ==
    IF s.begun THEN {s}
    ELSE (IF s.ui = "pidgin" THEN {cancel(s, "cancel_local")} ELSE {})
           \cup {[s EXCEPT !.fp = (s.ui = "pidgin"), !.watcher = (s.fd # "none"),
                           !.begun = TRUE]}

-----------------------------------------------------------------------------
(* The calls of the protocol.  It has a pointer as long as it is known.     *)

\* Nobody holds the transfer any more, and another one begins.
new ==
    /\ ~x.known /\ x.dialog = "none"
    /\ ~x.notice /\ ~x.listed /\ ~x.connecting
    /\ x' \in NewXfers

\* purple_xfer_ask_recv.
ask_recv(s) == [s EXCEPT !.dialog = IF s.status = "accepted" THEN "file" ELSE "recv"]

\* purple_xfer_request.  A protocol that did not know the name asks again once
\* it does.  A plugin may cancel, or choose the file, in the handler of
\* file-recv-request; the reference of the dialog is then nobody's.
request ==
    LET s == [x EXCEPT !.ref = @ + 1, !.asked = @ + 1]
        t == [s EXCEPT !.named = x.named \/ x.asked = 1]
    IN  /\ x.known /\ ~x.local
        /\ \/ x.asked = 0
           \/ x.asked = 1 /\ x.status = "accepted" /\ x.dialog = "none" /\ ~x.notice
        /\ \/ x.type = "send" /\ x' = [s EXCEPT !.dialog = "file"]
           \/ /\ x.type = "receive"
              /\ x' = IF t.named \/ t.status = "accepted" THEN ask_recv(t)
                      ELSE [t EXCEPT !.dialog = "accept"]
           \/ /\ x.type = "receive"
              /\ x' = cancel([t EXCEPT !.leaked = @ + 1], "cancel_local")
           \/ /\ x.type = "receive" /\ t.named
              /\ x' \in request_accepted([t EXCEPT !.leaked = @ + 1], {0, Size})

\* The file to send was given when the transfer was made: it may be empty, which
\* only purple_xfer_choose_file_ok_cb refuses.
accept_given ==
    /\ x.known /\ x.type = "send" /\ x.asked = 0 /\ ~x.local
    /\ x' \in request_accepted(x, {0, Size})

\* purple_xfer_start, once init was called: with a socket, with an address to
\* connect to, or without either when the protocol moves the data itself.
start(with) ==
    LET s == [x EXCEPT !.status = "started"]
    IN  /\ x.known /\ x.local
        /\ x.begun \/ x.connecting => "start_again" \in Events
        /\ CASE with = "address" -> x.type = "receive" /\ x' = [s EXCEPT !.connecting = TRUE]
             [] with = "socket"  -> x' \in begin_transfer([s EXCEPT !.fd = "open"])
             [] with = "nothing" -> x' \in begin_transfer([s EXCEPT !.fd = "none"])

\* May the transfer be cancelled by somebody who does not wait for it?
MayCancel ==
    /\ x.connecting => "cancel_connecting" \in Events
    /\ x.notice => "cancel_noticed" \in Events

\* The protocol cancels, for its user or for the other side.
prpl_cancel(status) ==
    /\ x.known /\ MayCancel
    /\ x' = cancel(x, status)

\* purple_xfer_end by the protocol, which says first that the transfer is
\* completed if it is.
prpl_end(completed) ==
    /\ x.known /\ x.begun
    /\ completed => x.left = 0
    /\ x' = end(IF completed THEN set_completed(x) ELSE x)

\* purple_xfer_prpl_ready, by a protocol that moves the data itself.
prpl_ready ==
    LET s == [x EXCEPT !.ready = @ \cup {"prpl"}]
    IN  /\ x.known /\ x.begun /\ x.fd = "none"
        /\ IF ~x.fp /\ "ui" \notin x.ready THEN x' = s
           ELSE x' \in do_transfer([s EXCEPT !.ready = {}])

\* purple_xfer_write_file and purple_xfer_read_file, by a protocol that moves
\* the data itself: what is more than announced is left away, and a file that
\* cannot be used ends the transfer.
use_file ==
    /\ x.known /\ x.begun /\ x.fd = "none"
    /\ \/ x' = cancel(x, "cancel_local")
       \/ \E k \in 1..Chunk :
             LET n == IF x.type = "receive" THEN MinOf(k, x.left) ELSE MinOf(k, x.size - x.pos)
             IN  /\ x.size > 0
                 /\ x' = [x EXCEPT !.pos = @ + n, !.sent = @ + n, !.left = @ - n]

-----------------------------------------------------------------------------
(* The user and the UI.                                                    *)

\* A dialog is answered: its callback runs before it is closed, and has its
\* reference to give back.
Answered == [x EXCEPT !.dialog = "none", !.answering = TRUE]

\* action_response_cb after the callback of a question: the dialog is closed if
\* it is still in the list of requests.
action_answered(s) == [s EXCEPT !.answering = FALSE]

\* file_yes_no_cb and file_ok_check_if_exists_cb after the callback of the file
\* dialog: data->type is read to close it, though the data is freed if the
\* callback cancelled or freed the transfer.
file_answered(s) ==
    [s EXCEPT !.answering = FALSE,
              !.misused = IF s.answering THEN @ ELSE @ \cup {"dialog"}]

\* ask_accept_ok gives nothing back, and init asks again for the name.
ask_accept_ok ==
    /\ x.dialog = "accept"
    /\ x' = action_answered([Answered EXCEPT !.status = "accepted", !.leaked = @ + 1])

ask_accept_cancel ==
    /\ x.dialog = "accept"
    /\ x' = action_answered(unref(request_denied(Answered)))

\* purple_xfer_choose_file, after the question or after the message.
choose_file ==
    /\ x.dialog = "recv" \/ x.notice
    /\ x' = [x EXCEPT !.dialog = "file", !.notice = FALSE]

cancel_recv_cb ==
    /\ x.dialog = "recv"
    /\ x' = action_answered(unref(request_denied([Answered EXCEPT !.status = "cancel_local"])))

\* purple_xfer_choose_file_ok_cb: the file is accepted; it cannot be read or
\* written, of which the user is told in a message; it cannot be sent, being
\* empty, missing or a directory; it is a directory, where a file should be saved.
choose_file_ok_cb ==
    /\ x.dialog = "file"
    /\ \/ x' \in {file_answered(unref(s)) : s \in request_accepted(Answered, {Size})}
       \/ x' = file_answered(unref([Answered EXCEPT !.notice = TRUE, !.ref = @ + 1]))
       \/ x.type = "send" /\ x' = file_answered(unref(cancel(Answered, "cancel_local")))
       \/ x.type = "receive" /\ x' = file_answered(unref(request_denied(Answered)))

choose_file_cancel_cb ==
    LET s == [Answered EXCEPT !.status = "cancel_local"]
        t == IF x.type = "send" THEN cancel(s, "cancel_local") ELSE request_denied(s)
    IN  /\ x.dialog = "file"
        /\ x' = file_answered(unref(t))

Ended == {"done", "cancel_local", "cancel_remote"}

\* stop_button_cb, while the button is shown.
stop_button_cb ==
    /\ x.listed /\ x.status \notin Ended /\ MayCancel
    /\ x' = cancel(x, "cancel_local")

\* remove_button_cb, while the button is shown.
remove_button_cb ==
    /\ x.listed /\ x.status \in Ended
    /\ x' = remove_row(x)

\* purple_xfer_ui_ready, by a UI that moves the data itself.
ui_ready ==
    LET s == [x EXCEPT !.ready = @ \cup {"ui"}]
    IN  /\ x.ui = "moderated" /\ x.live /\ x.status \notin Ended
        /\ IF "prpl" \notin x.ready THEN x' = s
           ELSE x' \in do_transfer([s EXCEPT !.ready = {}, !.watcher = (x.fd # "none")])

-----------------------------------------------------------------------------
(* The callbacks of the main loop.                                         *)

connect_cb ==
    LET s == [x EXCEPT !.connecting = FALSE]
    IN  /\ x.connecting
        /\ IF ~x.live THEN x' = [s EXCEPT !.misused = @ \cup {"xfer"}]
           ELSE \/ x' = cancel(s, "cancel_local")
                \/ x' \in begin_transfer([s EXCEPT !.fd = "open"])

transfer_cb ==
    /\ x.watcher
    /\ IF x.fp THEN x' \in do_transfer(x)
       ELSE IF "ui" \notin x.ready THEN x' = Waiting(x)
       ELSE x' \in do_transfer([x EXCEPT !.ready = {}])

-----------------------------------------------------------------------------
Next ==
    \/ new \/ request \/ accept_given
    \/ \E with \in {"socket", "address", "nothing"} : start(with)
    \/ \E status \in {"cancel_local", "cancel_remote"} : prpl_cancel(status)
    \/ \E completed \in BOOLEAN : prpl_end(completed)
    \/ prpl_ready \/ use_file
    \/ ask_accept_ok \/ ask_accept_cancel \/ choose_file \/ cancel_recv_cb
    \/ choose_file_ok_cb \/ choose_file_cancel_cb
    \/ stop_button_cb \/ remove_button_cb \/ ui_ready
    \/ connect_cb \/ transfer_cb

Spec == Init /\ [][Next]_x

-----------------------------------------------------------------------------
(* What makes it correct.                                                  *)

One(b) == IF b THEN 1 ELSE 0

\* Every reference belongs to the protocol, to a dialog or message, to the row
\* of the list, or was lost for good; so the struct is freed with the last of
\* them and never earlier, and neither the protocol, nor a dialog, nor a row,
\* nor a callback uses it afterwards (for what else is freed with it, see
\* StaleReads).  The lost ones are
\* those of dialogs that were closed without an answer, of the question
\* whether to accept, and of transfers that a plugin decided about
\* (purple_xfer_unref, the TODO in purple_xfer_cancel_local).
RefsAccounted ==
    /\ x.misused \cap {"xfer", "fd"} = {}
    /\ x.ref = One(x.known) + One(x.dialog # "none" \/ x.notice) + One(x.listed) + x.leaked
    /\ x.live <=> x.ref > 0
    /\ x.watcher \/ x.connecting => x.known

\* Two things that go with a transfer are read after it: its priv by do_transfer,
\* but only if the write failed of a UI that moves the data itself (Pidgin's row
\* keeps the transfer until do_transfer returns), and the data of the file dialog,
\* but only if the answer ended the transfer, and with it the last reference if a
\* file was to be received (do_transfer, file_yes_no_cb).
StaleReads ==
    /\ "priv" \in x.misused =>
          x.type = "send" /\ x.ui = "moderated" /\ x.status = "cancel_remote" /\ ~x.live
    /\ "dialog" \in x.misused => ~x.known /\ (x.type = "receive" => ~x.live)

\* A transfer that was refused, cancelled or completed is over: its socket and
\* its file are closed, nothing waits for it and the user is asked nothing any
\* more (purple_xfer_cancel_local, purple_xfer_cancel_remote, purple_xfer_end).
OverForGood ==
    ~x.known => /\ ~x.watcher /\ ~x.fp /\ ~x.connecting /\ x.fd # "open"
                /\ x.dialog = "none" /\ ~x.notice

Rank(status) ==
    CASE status = "unknown" -> 0 [] status = "accepted" -> 1
      [] status = "started" -> 2 [] OTHER -> 3

\* The status of a transfer only moves forward, and how it ended is never
\* changed: a late call of one side does not bring it back to life
\* (purple_xfer_set_status).
StatusForward ==
    [][new \/ IF x.status \in Ended THEN x'.status = x.status
              ELSE Rank(x'.status) >= Rank(x.status)]_x

\* Every byte that was read from the file was sent or waits in the buffer, no
\* byte is sent twice or skipped, a transfer is done only when all of the file
\* was moved, and a socket is open only as long as something is left to move
\* (do_transfer, purple_xfer_write).
NoByteLost ==
    x.status \notin {"cancel_local", "cancel_remote"} =>
        /\ x.pos = x.sent + x.buffer
        /\ x.left = x.size - x.sent
        /\ x.size > 0 => /\ x.status = "done" => x.sent = x.size
                         /\ x.fd = "open" => x.sent < x.size

\* A transfer over a socket whose watcher was taken away has the protocol
\* marked as ready, so that the UI's next call goes on with it, and never are
\* both marked as ready while nothing happens (transfer_cb, do_transfer,
\* purple_xfer_ui_ready, purple_xfer_prpl_ready).  This is not so when an empty
\* file is sent: nothing but the protocol goes on with that.
WakeupKept ==
    x.known /\ x.begun =>
        /\ x.ready # {"ui", "prpl"}
        /\ x.fd = "open" /\ (x.type = "send" => x.size > 0) =>
              (x.watcher <=> "prpl" \notin x.ready)
=============================================================================
