--------------------------- MODULE AccountSession ---------------------------
(***************************************************************************)
(* The life of an account: libpurple/account.c (enabling, passwords,       *)
(* accounts.xml), libpurple/connection.c (connections and their errors),   *)
(* the status changes of libpurple/prpl.c, the network notices of          *)
(* libpurple/network.c and Pidgin's automatic reconnection,                *)
(* pidgin/gtkconn.c.                                                       *)
(*                                                                         *)
(* These call each other in the middle of their work: an error reported by *)
(* a protocol makes gtkconn.c disable the account, which must not destroy  *)
(* the connection whose error is being reported.  So a function of the     *)
(* source is an operator here, from the state of an account to the state   *)
(* it leaves behind, and calls the others as the source does; an action is *)
(* a callback of the main loop.  The protocols need a password.            *)
(***************************************************************************)
EXTENDS Integers

CONSTANTS
    Account,
    INITIAL_RECON_DELAY_MIN, INITIAL_RECON_DELAY_MAX, MAX_RECON_DELAY,
    Events      \* what may happen besides logins, errors and their timers

AllEvents == {
    "register",         \* accounts are registered with the server
    "delete",           \* accounts are deleted
    "delete_doomed",    \* ... even those whose connection wants to die
    "edit_doomed",      \* the user enables an account whose connection does
    "status",           \* the user changes the status of an account
    "late_password",    \* a password is entered for an account that was disabled
                        \* since the user was asked for it
    "network",          \* the network comes and goes
    "network_pending",  \* ... even between an error and the disconnection
    "late_connected",   \* a protocol reports success after it reported an error
    "stall",            \* the main loop sleeps through the reconnect delay
    "save", "quit", "crash" }

ASSUME DelayAssumption ==
    /\ INITIAL_RECON_DELAY_MIN \in Nat \ {0}
    /\ INITIAL_RECON_DELAY_MAX \in Nat /\ MAX_RECON_DELAY \in Nat
    /\ INITIAL_RECON_DELAY_MIN < INITIAL_RECON_DELAY_MAX
    /\ INITIAL_RECON_DELAY_MAX <= MAX_RECON_DELAY + 1
ASSUME EventsAssumption == Events \subseteq AllEvents

VARIABLES
    acct,       \* the accounts, each with its connection and reconnect info
    disk,       \* accounts.xml
    nm_state    \* the network, as NetworkManager reports it

vars == <<acct, disk, nm_state>>

InitialDelay == INITIAL_RECON_DELAY_MIN..(INITIAL_RECON_DELAY_MAX - 1)

\* An account in accounts.xml.  There is no element for remember_pass: a password
\* that is there is remembered.  No transient error is ever written.
Saved == [exists : BOOLEAN, enabled : BOOLEAN, online : BOOLEAN,
          password : BOOLEAN, error : {"none", "fatal"}]

\* state, wants_to_die and disconnect_timeout are the connection's; registers
\* says what it was made for.  delay and timeout are the PidginAutoRecon: there
\* is none if delay is 0.  prompt: the user is asked for the password.
\* save: accounts.xml was to be written since it last was; save_timer runs if
\* this holds for some account.
AccountState == [exists : BOOLEAN, enabled : BOOLEAN, online : BOOLEAN,
                 remember : BOOLEAN, password : BOOLEAN,
                 error : {"none", "transient", "fatal"},
                 save : BOOLEAN, prompt : BOOLEAN,
                 state : {"disconnected", "connecting", "connected"},
                 wants_to_die : BOOLEAN, disconnect_timeout : BOOLEAN,
                 registers : BOOLEAN,
                 delay : 0..MAX_RECON_DELAY, timeout : BOOLEAN]

NmState == {"unknown", "disconnected", "limited", "connected"}

TypeOK ==
    /\ acct \in [Account -> AccountState]
    /\ disk \in [Account -> Saved]
    /\ nm_state \in NmState

Nobody == [exists |-> FALSE, enabled |-> FALSE, online |-> FALSE,
           password |-> FALSE, error |-> "none"]

\* An account just read from accounts.xml, or, if it is not there, none.
\* Every account that is read is added, which has accounts.xml written again.
parse_account(d) ==
    [exists |-> d.exists, enabled |-> d.enabled, online |-> d.online,
     remember |-> d.password, password |-> d.password, error |-> d.error,
     save |-> d.exists, prompt |-> FALSE,
     state |-> "disconnected", wants_to_die |-> FALSE,
     disconnect_timeout |-> FALSE, registers |-> FALSE,
     delay |-> 0, timeout |-> FALSE]

\* account_to_xmlnode, with current_error_to_xmlnode: what accounts.xml keeps of
\* an account.  "It doesn't make sense to have transient errors persist across a
\* restart", and a password is written only if it is to be remembered.
account_to_xmlnode(s) ==
    [exists |-> s.exists, enabled |-> s.enabled, online |-> s.online,
     password |-> s.remember /\ s.password,
     error |-> IF s.error = "fatal" THEN "fatal" ELSE "none"]

Init ==
    /\ acct = [a \in Account |-> parse_account(Nobody)]
    /\ disk = [a \in Account |-> Nobody]
    /\ nm_state \in NmState

network_is_available == nm_state # "disconnected"

-----------------------------------------------------------------------------
(* account.c and connection.c                                              *)

is_disconnected(s) == s.state = "disconnected"

set_password(s, known) == [s EXCEPT !.password = known, !.save = TRUE]

\* Mutant of set_current_error: a cleared error is not saved.
set_current_errorKeptOnDisk(s, err) ==
    [s EXCEPT !.error = err, !.save = @ \/ err # "none"]

set_current_error(s, err) ==
    [s EXCEPT !.error = err, !.save = @ \/ err # "none" \/ s.error # "none"]

\* _purple_connection_new.
connection_new(s, regist, known) ==
    IF ~is_disconnected(s) \/ (~regist /\ ~known) THEN s
    ELSE [s EXCEPT !.state = "connecting", !.wants_to_die = regist,
                   !.registers = regist]

\* _purple_connection_destroy.
connection_destroy(s) ==
    [s EXCEPT !.state = "disconnected", !.wants_to_die = FALSE,
              !.disconnect_timeout = FALSE, !.registers = FALSE]

\* Mutant of account_connect: a disabled account is connected.
account_connectAnyway(s) ==
    IF s.password THEN connection_new(s, FALSE, TRUE) ELSE [s EXCEPT !.prompt = TRUE]

account_connect(s) ==
    IF ~s.enabled THEN s
    ELSE IF s.password THEN connection_new(s, FALSE, TRUE)
    ELSE [s EXCEPT !.prompt = TRUE]

account_disconnect(s) ==
    IF is_disconnected(s) THEN s
    ELSE LET t == connection_destroy(s)
         IN  IF s.remember THEN t ELSE set_password(t, FALSE)

\* Mutant of account_set_enabled: it does not spare a connection that is
\* about to end.
account_set_enabledAtOnce(s, value) ==
    LET t == [s EXCEPT !.enabled = value, !.save = TRUE]
    IN  IF value /\ t.online THEN account_connect(t)
        ELSE IF ~value THEN account_disconnect(t) ELSE t

account_set_enabled(s, value) ==
    LET t == [s EXCEPT !.enabled = value, !.save = TRUE]
    IN  IF ~is_disconnected(t) /\ t.wants_to_die THEN t
        ELSE IF value /\ t.online THEN account_connect(t)
        ELSE IF ~value THEN account_disconnect(t) ELSE t

\* purple_account_disconnect between saving and restoring the password.
disconnect_keeping_password(s) == set_password(account_disconnect(s), s.password)

-----------------------------------------------------------------------------
(* pidgin/gtkconn.c                                                        *)

remove_auto_recon(s) == [s EXCEPT !.delay = 0, !.timeout = FALSE]

Lesser(x, y) == IF x <= y THEN x ELSE y

\* The reconnect info after one more transient error.
WaitLonger(s, next) == [s EXCEPT !.delay = next, !.timeout = TRUE]

\* Mutants of report_disconnect_reason: the delay has no limit; it is drawn
\* anew every time; an account that already reconnects gets no new timer.
report_disconnect_reasonUnlimited(s, fatal, initial) ==
    IF fatal THEN account_set_enabled(remove_auto_recon(s), FALSE)
    ELSE WaitLonger(s, IF s.delay = 0 THEN initial ELSE 2 * s.delay)
report_disconnect_reasonAnew(s, fatal, initial) ==
    IF fatal THEN account_set_enabled(remove_auto_recon(s), FALSE)
    ELSE WaitLonger(s, initial)
report_disconnect_reasonOnce(s, fatal, initial) ==
    IF fatal THEN account_set_enabled(remove_auto_recon(s), FALSE)
    ELSE IF s.delay = 0 THEN WaitLonger(s, initial) ELSE s

\* pidgin_connection_report_disconnect_reason.
report_disconnect_reason(s, fatal, initial) ==
    IF fatal THEN account_set_enabled(remove_auto_recon(s), FALSE)
    ELSE WaitLonger(s, IF s.delay = 0 THEN initial ELSE Lesser(2 * s.delay, MAX_RECON_DELAY))

\* do_signon.
do_signon_account(s) ==
    LET t == [s EXCEPT !.timeout = FALSE]
    IN  IF t.online THEN account_connect(t) ELSE t

\* Mutant of pidgin_network_connected: the reconnection is called off, but
\* the account is not signed on.
pidgin_network_connectedNoSignon(s) == IF s.enabled THEN remove_auto_recon(s) ELSE s

\* pidgin_connection_network_connected, for one account.
pidgin_network_connected(s) ==
    IF ~s.enabled THEN s
    ELSE LET t == remove_auto_recon(s)
         IN  IF is_disconnected(t) THEN do_signon_account(t) ELSE t

\* pidgin_connection_network_disconnected, for one account.
pidgin_network_disconnected(s) ==
    IF s.enabled /\ ~is_disconnected(s) THEN disconnect_keeping_password(s) ELSE s

-----------------------------------------------------------------------------
(* The protocol plugin reports how its connection fares.                   *)

Becomes(a, s) == acct' = [acct EXCEPT ![a] = s] /\ UNCHANGED <<disk, nm_state>>

\* Mutant of error_reason: a connection with a fatal error is not ended.
error_reasonFatalStays(s, fatal, initial) ==
    IF s.disconnect_timeout THEN s
    ELSE LET t == report_disconnect_reason([s EXCEPT !.wants_to_die = fatal], fatal, initial)
             err == IF fatal THEN "fatal" ELSE "transient"
         IN  [set_current_error(t, err) EXCEPT !.disconnect_timeout = ~fatal]

\* purple_connection_error_reason, for an account.
error_reason(s, fatal, initial) ==
    IF s.disconnect_timeout THEN s
    ELSE LET t == report_disconnect_reason([s EXCEPT !.wants_to_die = fatal], fatal, initial)
             err == IF fatal THEN "fatal" ELSE "transient"
         IN  [set_current_error(t, err) EXCEPT !.disconnect_timeout = TRUE]

connection_error_reason(a, fatal) ==
    /\ ~is_disconnected(acct[a])
    /\ \E initial \in InitialDelay : Becomes(a, error_reason(acct[a], fatal, initial))

\* purple_connection_set_state(gc, PURPLE_CONNECTED), with gtkconn.c's
\* connected and account.c's signed_on_cb.
set_state_connected(a) ==
    LET s == acct[a] IN
    /\ s.state = "connecting"
    /\ ~s.registers
    /\ ~s.disconnect_timeout \/ "late_connected" \in Events
    /\ Becomes(a, set_current_error(remove_auto_recon([s EXCEPT !.state = "connected"]), "none"))

\* A protocol ends a registration without an error (jabber, mxit).
RegistrationEnds(a) ==
    /\ acct[a].registers
    /\ Becomes(a, account_disconnect(acct[a]))

-----------------------------------------------------------------------------
(* The main loop's timers.                                                 *)

\* Mutant of connection_disconnect_cb: an unremembered password is lost.
connection_disconnect_cbForgetting(a) ==
    /\ acct[a].disconnect_timeout
    /\ Becomes(a, account_disconnect([acct[a] EXCEPT !.disconnect_timeout = FALSE]))

\* purple_connection_disconnect_cb.
connection_disconnect_cb(a) ==
    /\ acct[a].disconnect_timeout
    /\ Becomes(a, disconnect_keeping_password([acct[a] EXCEPT !.disconnect_timeout = FALSE]))

\* The timer of do_signon is 8 s or more: the disconnection, due at once,
\* comes first unless the main loop stalls.
do_signon(a) ==
    /\ acct[a].timeout
    /\ ~acct[a].disconnect_timeout \/ "stall" \in Events
    /\ Becomes(a, do_signon_account(acct[a]))

\* save_cb.
save_cb ==
    /\ "save" \in Events
    /\ \E a \in Account : acct[a].save
    /\ disk' = [a \in Account |-> account_to_xmlnode(acct[a])]
    /\ acct' = [a \in Account |-> [acct[a] EXCEPT !.save = FALSE]]
    /\ UNCHANGED nm_state

-----------------------------------------------------------------------------
(* The user.                                                               *)

Doomed(s) == ~is_disconnected(s) /\ s.wants_to_die

\* purple_account_new and purple_accounts_add.
accounts_add(a) ==
    /\ ~acct[a].exists /\ is_disconnected(acct[a])
    /\ \E known, remember \in BOOLEAN :
          Becomes(a, [parse_account([Nobody EXCEPT !.exists = TRUE, !.online = TRUE])
                         EXCEPT !.password = known, !.remember = remember])

\* Mutant of accounts_delete: the request for the password stays open.
accounts_deleteKeepsRequest(a) ==
    LET s == account_set_enabled(acct[a], FALSE) IN
    /\ "delete" \in Events
    /\ acct[a].exists
    /\ ~Doomed(acct[a]) \/ "delete_doomed" \in Events
    /\ Becomes(a, [parse_account(Nobody) EXCEPT
                       !.save = TRUE, !.state = s.state, !.prompt = s.prompt,
                       !.wants_to_die = s.wants_to_die, !.registers = s.registers,
                       !.disconnect_timeout = s.disconnect_timeout])

\* purple_accounts_delete, with gtkconn.c's account_removed_cb.
accounts_delete(a) ==
    LET s == account_set_enabled(acct[a], FALSE) IN
    /\ "delete" \in Events
    /\ acct[a].exists
    /\ ~Doomed(acct[a]) \/ "delete_doomed" \in Events
    /\ Becomes(a, [parse_account(Nobody) EXCEPT
                       !.save = TRUE, !.state = s.state,
                       !.wants_to_die = s.wants_to_die, !.registers = s.registers,
                       !.disconnect_timeout = s.disconnect_timeout])

\* purple_account_set_enabled, called by the user interface.
set_enabled(a, value) ==
    /\ acct[a].exists
    /\ value => ~Doomed(acct[a]) \/ "edit_doomed" \in Events
    /\ Becomes(a, account_set_enabled(acct[a], value))

\* The "Reconnect" button of an error.
Reconnect(a) ==
    /\ acct[a].exists /\ acct[a].error # "none"
    /\ Becomes(a, account_connect(acct[a]))

\* The user dismisses an error: purple_account_clear_current_error.
clear_current_error(a) ==
    /\ acct[a].exists
    /\ Becomes(a, set_current_error(acct[a], "none"))

account_register(a) ==
    /\ "register" \in Events
    /\ acct[a].exists
    /\ Becomes(a, connection_new(acct[a], TRUE, acct[a].password))

\* request_password_ok_cb.  The field is required: it is not empty.
request_password_ok(a) ==
    /\ acct[a].prompt
    /\ acct[a].enabled \/ "late_password" \in Events
    /\ \E remember \in BOOLEAN :
          LET s == [acct[a] EXCEPT !.prompt = FALSE, !.remember = @ \/ remember]
          IN  Becomes(a, connection_new(set_password(s, TRUE), FALSE, TRUE))

\* request_password_cancel_cb.
request_password_cancel(a) ==
    /\ acct[a].prompt
    /\ Becomes(a, account_set_enabled([acct[a] EXCEPT !.prompt = FALSE], FALSE))

\* purple_account_set_status, by way of purple_presence and
\* purple_prpl_change_account_status: another status is chosen.
change_account_status(a, online) ==
    LET s == [acct[a] EXCEPT !.online = online, !.save = TRUE] IN
    /\ "status" \in Events
    /\ acct[a].exists
    /\ Becomes(a,
          IF ~s.enabled THEN s
          ELSE IF online
          THEN IF is_disconnected(s) /\ network_is_available THEN account_connect(s) ELSE s
          ELSE IF ~is_disconnected(s) THEN account_disconnect(s)
          ELSE IF s.remember THEN s ELSE set_password(s, FALSE))

-----------------------------------------------------------------------------
(* The network, the end of the program and its restart.                    *)

\* nm_update_state, with the notices of pidgin/gtkconn.c.  "limited" stands
\* for NM_STATE_CONNECTED_LOCAL and _SITE: NM_STATE_CONNECTED is _GLOBAL.
nm_update_state(st) ==
    /\ "network" \in Events
    /\ nm_state' = st
    /\ acct' =
         IF st \in {"limited", "connected"}
         THEN [a \in Account |-> pidgin_network_connected(acct[a])]
         ELSE IF st = "disconnected" /\ nm_state \in {"connected", "unknown"}
         THEN [a \in Account |-> pidgin_network_disconnected(acct[a])]
         ELSE acct
    /\ UNCHANGED disk
    /\ \/ "network_pending" \in Events
       \/ \A a \in Account : ~acct[a].disconnect_timeout

\* load_accounts and purple_accounts_restore_current_statuses.
Start(d) ==
    acct' = [a \in Account |->
                LET s == parse_account(d[a])
                IN  IF network_is_available /\ s.online THEN account_connect(s) ELSE s]

\* purple_core_quit: purple_connections_disconnect_all, purple_accounts_uninit,
\* and the next start.
Quit ==
    LET last == [a \in Account |-> account_disconnect(acct[a])] IN
    /\ "quit" \in Events
    /\ disk' = IF \E a \in Account : last[a].save
               THEN [a \in Account |-> account_to_xmlnode(last[a])] ELSE disk
    /\ Start(disk')
    /\ UNCHANGED nm_state

\* The program dies and is started again.
Crash ==
    /\ "crash" \in Events
    /\ Start(disk)
    /\ UNCHANGED <<disk, nm_state>>

-----------------------------------------------------------------------------

Next ==
    \/ \E a \in Account :
          \/ \E fatal \in BOOLEAN : connection_error_reason(a, fatal)
          \/ set_state_connected(a)
          \/ RegistrationEnds(a)
          \/ connection_disconnect_cb(a)
          \/ do_signon(a)
          \/ accounts_add(a)
          \/ accounts_delete(a)
          \/ \E value \in BOOLEAN : set_enabled(a, value)
          \/ Reconnect(a)
          \/ clear_current_error(a)
          \/ account_register(a)
          \/ request_password_ok(a)
          \/ request_password_cancel(a)
          \/ \E online \in BOOLEAN : change_account_status(a, online)
    \/ \E st \in NmState : nm_update_state(st)
    \/ save_cb
    \/ Quit
    \/ Crash

Spec == Init /\ [][Next]_vars

\* The main loop gets to every timer; a login ends, and does not always fail.
Fairness ==
    \A a \in Account :
        /\ WF_vars(connection_disconnect_cb(a))
        /\ WF_vars(do_signon(a))
        /\ SF_vars(set_state_connected(a))
        /\ WF_vars(connection_error_reason(a, TRUE) \/ connection_error_reason(a, FALSE)
                     \/ set_state_connected(a))

LiveSpec == Spec /\ Fairness

-----------------------------------------------------------------------------
(* Properties                                                              *)

\* A deleted account has no connection, timer or dialog left that would use it
\* (purple_accounts_delete frees it).
NothingUsesDeleted ==
    \A a \in Account :
        ~acct[a].exists =>
            /\ is_disconnected(acct[a])
            /\ ~acct[a].timeout /\ ~acct[a].prompt

\* The disconnect timer belongs to a connection: reporting an error never
\* destroys the connection it is reported for, and destroying a connection
\* takes its timer along.
ErrorsLeaveConnection ==
    \A a \in Account : acct[a].disconnect_timeout => ~is_disconnected(acct[a])

\* A connection that wants to die, which set_enabled therefore leaves alone,
\* is going to: it has its disconnect timer, or it registers an account.
DoomedEnds ==
    \A a \in Account :
        Doomed(acct[a]) => acct[a].disconnect_timeout \/ acct[a].registers

\* Only enabled accounts are online, but for what is being registered or is
\* about to be disconnected.
OnlyEnabledConnect ==
    \A a \in Account :
        LET s == acct[a]
        IN  is_disconnected(s) \/ s.enabled \/ s.wants_to_die \/ s.disconnect_timeout

\* Whatever accounts.xml is to keep of an account it has, or save_timer will
\* write it: whether an account exists, is enabled and is to be online, a password
\* to be remembered, a fatal error and that it was overcome.  A crash loses no
\* such change older than the five seconds of the timer.  (Transient errors, and
\* remember_pass while no password is known, are not kept, on purpose.)
ChangesGetSaved ==
    \A a \in Account : acct[a].save \/ disk[a] = account_to_xmlnode(acct[a])

\* An account the user wants to be online, on a working network, is online or
\* on its way: signing on, waiting for its password, or waiting to reconnect.
Wanted(s) ==
    /\ s.exists /\ s.enabled /\ s.online
    /\ nm_state \in {"limited", "connected"}
OnTheWay(s) ==
    \/ ~is_disconnected(s) /\ ~s.disconnect_timeout
    \/ s.prompt
    \/ s.timeout
WantedIsOnTheWay == \A a \in Account : Wanted(acct[a]) => OnTheWay(acct[a])

\* The delay before the next attempt only ever grows until the account is
\* signed on, gives up, or the network comes back (it is then forgotten).
DelayGrows ==
    [][\A a \in Account : acct'[a].delay < acct[a].delay => acct'[a].delay = 0]_vars

\* An error does not lose the password that the user did not want remembered:
\* automatic reconnection need not ask for it again.  (Not across a restart.)
ErrorsKeepPassword ==
    [][\A a \in Account :
          LET s == acct[a]  t == acct'[a] IN
          s.disconnect_timeout /\ ~t.disconnect_timeout /\ ~s.registers
             /\ t.exists /\ t.enabled /\ t.online
          => t.password = s.password]_vars

\* An account that stays wanted gets online, or the user is asked.
WantedGetsOnline ==
    \A a \in Account :
        Wanted(acct[a]) ~> \/ acct[a].state = "connected"
                           \/ acct[a].prompt
                           \/ ~Wanted(acct[a])
=============================================================================
