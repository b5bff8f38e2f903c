------------------------ MODULE AccountSessionProofs ------------------------
(***************************************************************************)
(* The safety properties of AccountSession for any set of accounts and any *)
(* delays.                                                                 *)
(*                                                                         *)
(* The inductive invariant says of every account by itself what is sound,  *)
(* of accounts.xml what can be read back, and of the two together that a   *)
(* save is scheduled while they differ in what accounts.xml is to keep.  A *)
(* lemma for every function of account.c, connection.c and gtkconn.c says  *)
(* that it takes a sound account to a sound one and asks for a save when   *)
(* it changes what accounts.xml keeps.                                     *)
(***************************************************************************)
EXTENDS AccountSession, TLAPS

\* A disconnect timer has its connection, a connection that wants to die ends.
Connected(s) ==
    /\ s.disconnect_timeout => ~is_disconnected(s)
    /\ Doomed(s) => s.disconnect_timeout \/ s.registers

\* Nothing is left of an account that does not exist.
Deleted(s) ==
    /\ s.enabled \/ s.prompt => s.exists
    /\ "delete_doomed" \notin Events /\ ~s.exists => is_disconnected(s) /\ ~s.timeout

\* Only enabled accounts are online.
Permitted(s) ==
    "late_password" \notin Events =>
        is_disconnected(s) \/ s.enabled \/ s.wants_to_die \/ s.disconnect_timeout

Sound(s) == s \in AccountState /\ Connected(s) /\ Deleted(s) /\ Permitted(s)

SoundXml(d) ==
    /\ d \in Saved
    /\ d.enabled => d.exists

IInv ==
    /\ \A a \in Account : Sound(acct[a]) /\ SoundXml(disk[a])
    /\ acct \in [Account -> AccountState] /\ disk \in [Account -> Saved]
    /\ nm_state \in NmState
    /\ ChangesGetSaved

\* From s to t a save is asked for, or nothing is to be saved.
AsksForSave(s, t) ==
    t.save \/ (~s.save /\ account_to_xmlnode(t) = account_to_xmlnode(s))

Grows(s, t) == t.delay < s.delay => t.delay = 0

\* What a function that has nothing to do with reconnecting does.
Steps(s, t) ==
    /\ Sound(t) /\ AsksForSave(s, t)
    /\ t.delay = s.delay /\ t.exists = s.exists /\ t.enabled = s.enabled

-----------------------------------------------------------------------------
(* account.c and connection.c                                              *)


\* A function that changes nothing is a step of a sound account.
LEMMA Stutter ==
    ASSUME NEW s, Sound(s)
    PROVE  Steps(s, s)
  <1>1. s.save \in BOOLEAN
    BY DEF Sound, AccountState
  <1> QED BY <1>1 DEF Steps, AsksForSave

\* _purple_connection_new: only for an enabled account, or to register one.
LEMMA ConnectionNew ==
    ASSUME NEW s, Sound(s), NEW regist \in BOOLEAN, NEW known \in BOOLEAN,
           s.exists, s.enabled \/ regist \/ "late_password" \in Events
    PROVE  Steps(s, connection_new(s, regist, known))
  <1>1. CASE connection_new(s, regist, known) = s
    BY <1>1, Stutter
  <1>2. CASE is_disconnected(s) /\ connection_new(s, regist, known) # s
    <2> DEFINE t == [s EXCEPT !.state = "connecting", !.wants_to_die = regist,
                              !.registers = regist]
    <2>1. connection_new(s, regist, known) = t
      BY <1>2, Zenon DEF connection_new
    <2>2. /\ t \in AccountState
          /\ t.state = "connecting" /\ t.wants_to_die = regist /\ t.registers = regist
          /\ t.exists = s.exists /\ t.enabled = s.enabled /\ t.delay = s.delay
          /\ t.save = s.save /\ t.disconnect_timeout = s.disconnect_timeout
      BY DEF AccountState, Sound
    <2>3. account_to_xmlnode(t) = account_to_xmlnode(s)
      BY DEF AccountState, account_to_xmlnode, Sound
    <2>3a. s.save \in BOOLEAN
      BY DEF AccountState, Sound
    <2> HIDE DEF t
    <2>4. Sound(t)
      BY <2>2, <1>2 DEF Sound, Connected, Deleted, Permitted, Doomed, is_disconnected
    <2>5. AsksForSave(s, t)
      BY <2>2, <2>3, <2>3a DEF AsksForSave
    <2> QED BY <2>1, <2>2, <2>4, <2>5 DEF Steps
  <1> QED BY <1>1, <1>2 DEF connection_new

\* purple_account_connect checks that the account is enabled.
LEMMA AccountConnect ==
    ASSUME NEW s, Sound(s)
    PROVE  Steps(s, account_connect(s))
  <1>1. CASE ~s.enabled
    <2>1. account_connect(s) = s
      BY <1>1, Zenon DEF account_connect
    <2> QED BY <2>1, Stutter
  <1>2. CASE s.enabled /\ s.password
    <2>1. s.exists
      BY <1>2 DEF Sound, Deleted
    <2> QED BY <1>2, <2>1, ConnectionNew DEF account_connect
  <1>3. CASE s.enabled /\ ~s.password
    <2> DEFINE t == [s EXCEPT !.prompt = TRUE]
    <2>1. /\ t \in AccountState
          /\ t.state = s.state /\ t.wants_to_die = s.wants_to_die /\ t.registers = s.registers
          /\ t.exists = s.exists /\ t.enabled = s.enabled /\ t.delay = s.delay
          /\ t.save = s.save /\ t.disconnect_timeout = s.disconnect_timeout
      BY DEF AccountState, Sound
    <2>2. account_to_xmlnode(t) = account_to_xmlnode(s)
      BY DEF AccountState, account_to_xmlnode, Sound
    <2>3. account_connect(s) = t
      BY <1>3, Zenon DEF account_connect
    <2>4. s.save \in BOOLEAN
      BY DEF AccountState, Sound
    <2> HIDE DEF t
    <2>5. Sound(t)
      BY <2>1, <1>3 DEF Sound, Connected, Deleted, Permitted, Doomed, is_disconnected
    <2> QED BY <2>1, <2>2, <2>3, <2>4, <2>5 DEF Steps, AsksForSave
  <1> QED BY <1>1, <1>2, <1>3

\* purple_account_set_password changes nothing but the password, and saves.
LEMMA SetPassword ==
    ASSUME NEW s \in AccountState, NEW known \in BOOLEAN
    PROVE  /\ set_password(s, known) \in AccountState
           /\ set_password(s, known).save = TRUE
           /\ set_password(s, known).enabled = s.enabled
           /\ \A f \in {"exists", "prompt", "state", "wants_to_die", "registers",
                        "disconnect_timeout", "delay", "timeout"} :
                 set_password(s, known)[f] = s[f]
           /\ Sound(s) => Steps(s, set_password(s, known))
  <1> DEFINE t == set_password(s, known)
  <1>1. /\ t \in AccountState
        /\ t.state = s.state /\ t.wants_to_die = s.wants_to_die /\ t.registers = s.registers
        /\ t.exists = s.exists /\ t.enabled = s.enabled /\ t.delay = s.delay
        /\ t.prompt = s.prompt /\ t.timeout = s.timeout
        /\ t.save = TRUE /\ t.disconnect_timeout = s.disconnect_timeout
    BY DEF AccountState, Sound, set_password
  <1> HIDE DEF t
  <1>2. Sound(s) => Steps(s, t)
    BY <1>1 DEF Steps, AsksForSave, Sound, Connected, Deleted, Permitted, Doomed, is_disconnected
  <1> QED BY <1>1, <1>2 DEF t

\* _purple_connection_destroy takes the disconnect timer along.
LEMMA ConnectionDestroy ==
    ASSUME NEW s \in AccountState
    PROVE  LET t == connection_destroy(s)
           IN  /\ t \in AccountState
               /\ t.state = "disconnected" /\ ~t.disconnect_timeout
               /\ t.exists = s.exists /\ t.enabled = s.enabled /\ t.delay = s.delay
               /\ t.prompt = s.prompt /\ t.timeout = s.timeout /\ t.save = s.save
               /\ account_to_xmlnode(t) = account_to_xmlnode(s)
  BY DEF AccountState, connection_destroy, account_to_xmlnode

\* purple_account_disconnect leaves no connection, whatever its state was.
LEMMA AccountDisconnect ==
    ASSUME NEW s \in AccountState, Deleted(s), is_disconnected(s) => ~s.disconnect_timeout
    PROVE  /\ Steps(s, account_disconnect(s))
           /\ is_disconnected(account_disconnect(s))
           /\ account_disconnect(s).timeout = s.timeout
           /\ account_disconnect(s).prompt = s.prompt
           /\ ~account_disconnect(s).disconnect_timeout
  <1>1. CASE is_disconnected(s)
    BY <1>1 DEF account_disconnect, Steps, AsksForSave, Sound, Connected, Permitted, Doomed,
                AccountState
  <1>2. CASE ~is_disconnected(s)
    <2> DEFINE d == connection_destroy(s)  p == set_password(d, FALSE)
    <2>1. account_disconnect(s) = IF s.remember THEN d ELSE p
      BY <1>2, Zenon DEF account_disconnect
    <2>2. /\ d \in AccountState
          /\ d.state = "disconnected" /\ ~d.disconnect_timeout
          /\ d.exists = s.exists /\ d.enabled = s.enabled /\ d.delay = s.delay
          /\ d.prompt = s.prompt /\ d.timeout = s.timeout /\ d.save = s.save
          /\ account_to_xmlnode(d) = account_to_xmlnode(s)
      BY ConnectionDestroy
    <2> HIDE DEF d
    <2>3. Sound(d)
      BY <2>2 DEF Sound, Connected, Deleted, Permitted, Doomed, is_disconnected
    <2>4. AsksForSave(s, d)
      BY <2>2 DEF AsksForSave, AccountState
    <2>5. /\ Steps(d, p)
          /\ p.state = d.state /\ p.disconnect_timeout = d.disconnect_timeout
          /\ p.prompt = d.prompt /\ p.timeout = d.timeout /\ p.save
      BY <2>2, <2>3, SetPassword
    <2> HIDE DEF p
    <2> QED BY <2>1, <2>2, <2>3, <2>4, <2>5 DEF Steps, AsksForSave, is_disconnected
  <1> QED BY <1>1, <1>2

\* Nobody but an existing account is enabled.
LEMMA SetEnabled ==
    ASSUME NEW s, Sound(s), NEW value \in BOOLEAN, value => s.exists
    PROVE  LET t == account_set_enabled(s, value)
           IN  /\ Sound(t) /\ t.save
               /\ t.delay = s.delay /\ t.exists = s.exists /\ t.enabled = value
               /\ ~value /\ ~Doomed(s) => is_disconnected(t) /\ ~t.disconnect_timeout
  <1> DEFINE e == [s EXCEPT !.enabled = value, !.save = TRUE]
  <1>1. /\ e \in AccountState
        /\ e.state = s.state /\ e.wants_to_die = s.wants_to_die /\ e.registers = s.registers
        /\ e.exists = s.exists /\ e.enabled = value /\ e.delay = s.delay /\ e.save
        /\ e.prompt = s.prompt /\ e.timeout = s.timeout
        /\ e.disconnect_timeout = s.disconnect_timeout
    BY DEF AccountState, Sound
  <1>2. account_set_enabled(s, value) =
          IF ~is_disconnected(e) /\ e.wants_to_die THEN e
          ELSE IF value /\ e.online THEN account_connect(e)
          ELSE IF ~value THEN account_disconnect(e) ELSE e
    BY Zenon DEF account_set_enabled
  <1> HIDE DEF e
  <1>3. /\ Connected(e) /\ Deleted(e)
        /\ value \/ Doomed(s) => Permitted(e)
    BY <1>1 DEF Sound, Connected, Deleted, Permitted, Doomed, is_disconnected
  <1>4. CASE Doomed(s)
    BY <1>1, <1>2, <1>3, <1>4 DEF Sound, Doomed, is_disconnected
  <1>5. CASE ~Doomed(s) /\ value
    <2>1. Sound(e)
      BY <1>1, <1>3, <1>5 DEF Sound
    <2>2. Steps(e, account_connect(e))
      BY <2>1, AccountConnect
    <2>3. account_set_enabled(s, value) \in {e, account_connect(e)}
      BY <1>1, <1>2, <1>5 DEF Doomed, is_disconnected
    <2> QED BY <1>1, <1>5, <2>1, <2>2, <2>3 DEF Steps, AsksForSave
  <1>6. CASE ~Doomed(s) /\ ~value
    <2>1. is_disconnected(e) => ~e.disconnect_timeout
      BY <1>3 DEF Connected
    <2>2. /\ Steps(e, account_disconnect(e)) /\ is_disconnected(account_disconnect(e))
          /\ ~account_disconnect(e).disconnect_timeout
      BY <1>1, <1>3, <2>1, AccountDisconnect
    <2>3. account_set_enabled(s, value) = account_disconnect(e)
      BY <1>1, <1>2, <1>6 DEF Doomed, is_disconnected
    <2> QED BY <1>1, <1>6, <2>2, <2>3 DEF Steps, AsksForSave
  <1> QED BY <1>4, <1>5, <1>6

\* Restoring the password after a disconnection asks for a save.
LEMMA DisconnectKeepingPassword ==
    ASSUME NEW s \in AccountState, Deleted(s), is_disconnected(s) => ~s.disconnect_timeout
    PROVE  Steps(s, disconnect_keeping_password(s)) /\ disconnect_keeping_password(s).save
  <1> DEFINE d == account_disconnect(s)
  <1>1. Steps(s, d)
    BY AccountDisconnect
  <1>2. s.password \in BOOLEAN
    BY DEF AccountState
  <1> HIDE DEF d
  <1>3. Sound(d) /\ d \in AccountState
    BY <1>1 DEF Steps, Sound
  <1>4. /\ Steps(d, set_password(d, s.password))
        /\ set_password(d, s.password).save
    BY <1>2, <1>3, SetPassword
  <1> QED BY <1>1, <1>4 DEF Steps, AsksForSave, disconnect_keeping_password, d

-----------------------------------------------------------------------------
(* pidgin/gtkconn.c                                                        *)

\* Freeing the reconnect info stops its timer and nothing else.
LEMMA RemoveAutoRecon ==
    ASSUME NEW s, Sound(s)
    PROVE  LET t == remove_auto_recon(s)
           IN  /\ Sound(t) /\ AsksForSave(s, t)
               /\ t.delay = 0 /\ t.exists = s.exists /\ t.enabled = s.enabled
               /\ ~t.timeout /\ t.state = s.state /\ t.wants_to_die = s.wants_to_die
               /\ t.registers = s.registers /\ t.disconnect_timeout = s.disconnect_timeout
  <1> DEFINE t == remove_auto_recon(s)
  <1>0. 0 \in 0..MAX_RECON_DELAY
    BY DelayAssumption
  <1>1. /\ t \in AccountState
        /\ t.state = s.state /\ t.wants_to_die = s.wants_to_die /\ t.registers = s.registers
        /\ t.exists = s.exists /\ t.enabled = s.enabled /\ t.delay = 0 /\ t.save = s.save
        /\ t.prompt = s.prompt /\ ~t.timeout
        /\ t.disconnect_timeout = s.disconnect_timeout
    BY <1>0 DEF AccountState, Sound, remove_auto_recon
  <1>2. account_to_xmlnode(t) = account_to_xmlnode(s) /\ s.save \in BOOLEAN
    BY DEF AccountState, Sound, remove_auto_recon, account_to_xmlnode
  <1> HIDE DEF t
  <1>3. Sound(t)
    BY <1>1 DEF Sound, Connected, Deleted, Permitted, Doomed, is_disconnected
  <1>4. AsksForSave(s, t)
    BY <1>1, <1>2 DEF AsksForSave
  <1> QED BY <1>1, <1>3, <1>4 DEF t

\* do_signon connects by purple_account_connect only.
LEMMA DoSignonAccount ==
    ASSUME NEW s, Sound(s)
    PROVE  Steps(s, do_signon_account(s))
  <1> DEFINE t == [s EXCEPT !.timeout = FALSE]
  <1>1. /\ t \in AccountState
        /\ t.state = s.state /\ t.wants_to_die = s.wants_to_die /\ t.registers = s.registers
        /\ t.exists = s.exists /\ t.enabled = s.enabled /\ t.delay = s.delay /\ t.save = s.save
        /\ t.prompt = s.prompt /\ ~t.timeout
        /\ t.disconnect_timeout = s.disconnect_timeout
    BY DEF AccountState, Sound
  <1>2. account_to_xmlnode(t) = account_to_xmlnode(s) /\ s.save \in BOOLEAN
    BY DEF AccountState, Sound, account_to_xmlnode
  <1>3. do_signon_account(s) \in {t, account_connect(t)}
    BY Zenon DEF do_signon_account
  <1> HIDE DEF t
  <1>4. Sound(t)
    BY <1>1 DEF Sound, Connected, Deleted, Permitted, Doomed, is_disconnected
  <1>5. Steps(s, t)
    BY <1>1, <1>2, <1>4 DEF Steps, AsksForSave
  <1>6. Steps(t, account_connect(t))
    BY <1>4, AccountConnect
  <1> QED BY <1>3, <1>5, <1>6 DEF Steps, AsksForSave

\* The network's return forgets the delay of the accounts it signs on.
LEMMA NetworkConnected ==
    ASSUME NEW s, Sound(s)
    PROVE  LET t == pidgin_network_connected(s)
           IN  Sound(t) /\ AsksForSave(s, t) /\ Grows(s, t)
  <1> DEFINE r == remove_auto_recon(s)
  <1>1. Sound(r) /\ AsksForSave(s, r) /\ r.delay = 0
    BY RemoveAutoRecon
  <1>2. pidgin_network_connected(s) \in {s, r, do_signon_account(r)}
    BY Zenon DEF pidgin_network_connected
  <1> HIDE DEF r
  <1>3. Steps(r, do_signon_account(r)) /\ Steps(s, s)
    BY <1>1, DoSignonAccount, Stutter
  <1>4. ~(s.delay < s.delay)
    BY DEF Sound, AccountState
  <1> QED BY <1>1, <1>2, <1>3, <1>4 DEF Steps, AsksForSave, Grows

\* The network's loss disconnects and keeps the delay.
LEMMA NetworkDisconnected ==
    ASSUME NEW s, Sound(s)
    PROVE  Steps(s, pidgin_network_disconnected(s))
  <1>1. Steps(s, s)
    BY Stutter
  <1>2. Steps(s, disconnect_keeping_password(s))
    BY DisconnectKeepingPassword DEF Sound, Connected
  <1> QED BY <1>1, <1>2 DEF pidgin_network_disconnected

\* An error is saved when it is set and when it is cleared.
LEMMA SetCurrentError ==
    ASSUME NEW s \in AccountState, NEW err \in {"none", "transient", "fatal"}
    PROVE  LET t == set_current_error(s, err)
           IN  /\ t \in AccountState
               /\ \A f \in {"exists", "enabled", "prompt", "state", "wants_to_die", "registers",
                            "disconnect_timeout", "delay", "timeout"} : t[f] = s[f]
               /\ err # "none" => t.save
               /\ AsksForSave(s, t)
               /\ Sound(s) => Sound(t)
  <1> DEFINE t == set_current_error(s, err)
  <1>1. /\ t \in AccountState
        /\ t.state = s.state /\ t.wants_to_die = s.wants_to_die /\ t.registers = s.registers
        /\ t.exists = s.exists /\ t.enabled = s.enabled /\ t.delay = s.delay
        /\ t.prompt = s.prompt /\ t.timeout = s.timeout
        /\ t.disconnect_timeout = s.disconnect_timeout
        /\ t.save = (s.save \/ err # "none" \/ s.error # "none")
    BY DEF AccountState, set_current_error
  <1>2. err = s.error => account_to_xmlnode(t) = account_to_xmlnode(s)
    BY DEF AccountState, set_current_error, account_to_xmlnode
  <1> HIDE DEF t
  <1>3. AsksForSave(s, t)
    BY <1>1, <1>2 DEF AsksForSave
  <1>4. Sound(s) => Sound(t)
    BY <1>1 DEF Sound, Connected, Deleted, Permitted, Doomed, is_disconnected
  <1> QED BY <1>1, <1>3, <1>4 DEF t

\* The delay is doubled up to its limit.
LEMMA DelaysInRange ==
    ASSUME NEW delay \in 0..MAX_RECON_DELAY, NEW initial \in InitialDelay
    PROVE  LET next == IF delay = 0 THEN initial ELSE Lesser(2 * delay, MAX_RECON_DELAY)
           IN  next \in 0..MAX_RECON_DELAY /\ delay <= next /\ next # 0
  BY DelayAssumption DEF InitialDelay, Lesser

\* An error disables the account or has it reconnect, and always leaves the
\* connection with its disconnect timer.
LEMMA ErrorReason ==
    ASSUME NEW s, Sound(s), ~is_disconnected(s), NEW fatal \in BOOLEAN,
           NEW initial \in InitialDelay
    PROVE  LET t == error_reason(s, fatal, initial)
           IN  Sound(t) /\ AsksForSave(s, t) /\ Grows(s, t)
  <1>0. s.delay \in 0..MAX_RECON_DELAY /\ 0 \in 0..MAX_RECON_DELAY
    BY DelayAssumption DEF Sound, AccountState
  <1>1. CASE s.disconnect_timeout
    <2>1. error_reason(s, fatal, initial) = s
      BY <1>1, Zenon DEF error_reason
    <2>2. Steps(s, s) /\ ~(s.delay < s.delay)
      BY <1>0, Stutter
    <2> QED BY <2>1, <2>2 DEF Steps, Grows
  <1>2. CASE ~s.disconnect_timeout
    <2> DEFINE w == [s EXCEPT !.wants_to_die = fatal]
               r == report_disconnect_reason(w, fatal, initial)
               e == set_current_error(r, IF fatal THEN "fatal" ELSE "transient")
               t == [e EXCEPT !.disconnect_timeout = TRUE]
    <2>1. error_reason(s, fatal, initial) = t
      BY <1>2, Zenon DEF error_reason
    <2>2. /\ w \in AccountState
          /\ w.state = s.state /\ w.wants_to_die = fatal /\ w.registers = s.registers
          /\ w.exists = s.exists /\ w.enabled = s.enabled /\ w.delay = s.delay
          /\ w.prompt = s.prompt /\ w.timeout = s.timeout
      BY DEF Sound, AccountState
    <2>3. r = IF fatal THEN account_set_enabled(remove_auto_recon(w), FALSE)
              ELSE WaitLonger(w, IF w.delay = 0 THEN initial
                                 ELSE Lesser(2 * w.delay, MAX_RECON_DELAY))
      BY Zenon DEF report_disconnect_reason
    <2> HIDE DEF w, r
    <2>4. /\ r \in AccountState
          /\ r.state = s.state /\ r.exists = s.exists /\ r.prompt = s.prompt
          /\ r.enabled => s.enabled
          /\ s.delay <= r.delay \/ r.delay = 0
      <3>1. CASE fatal
        <4> DEFINE g == remove_auto_recon(w)
                   d == [g EXCEPT !.enabled = FALSE, !.save = TRUE]
        <4>1. /\ g \in AccountState
              /\ g.state = s.state /\ g.wants_to_die /\ g.exists = s.exists
              /\ g.prompt = s.prompt /\ g.delay = 0
          BY <1>0, <2>2, <3>1 DEF AccountState, remove_auto_recon
        <4> HIDE DEF g
        <4>2. /\ d \in AccountState
              /\ d.state = g.state /\ d.wants_to_die = g.wants_to_die /\ d.exists = g.exists
              /\ d.prompt = g.prompt /\ d.delay = g.delay /\ d.enabled = FALSE
          BY <4>1 DEF AccountState
        <4>3. account_set_enabled(g, FALSE) =
                IF ~is_disconnected(d) /\ d.wants_to_die THEN d ELSE account_disconnect(d)
          BY Zenon DEF account_set_enabled
        <4> HIDE DEF d
        <4>4. account_set_enabled(g, FALSE) = d
          BY <4>1, <4>2, <4>3 DEF is_disconnected
        <4> QED BY <2>3, <3>1, <4>1, <4>2, <4>4 DEF g
      <3>2. CASE ~fatal
        <4> DEFINE next == IF w.delay = 0 THEN initial ELSE Lesser(2 * w.delay, MAX_RECON_DELAY)
        <4>1. next \in 0..MAX_RECON_DELAY /\ s.delay <= next
          BY <1>0, <2>2, DelaysInRange
        <4>2. r = WaitLonger(w, next)
          BY <2>3, <3>2
        <4> HIDE DEF next
        <4>3. /\ r \in AccountState /\ r.state = w.state /\ r.exists = w.exists
              /\ r.prompt = w.prompt /\ r.enabled = w.enabled /\ r.delay = next
          BY <2>2, <4>1, <4>2 DEF WaitLonger, AccountState
        <4> QED BY <2>2, <4>1, <4>3
      <3> QED BY <3>1, <3>2
    <2>5. /\ e \in AccountState
          /\ e.state = r.state /\ e.exists = r.exists /\ e.prompt = r.prompt
          /\ e.enabled = r.enabled /\ e.delay = r.delay /\ e.save
      BY <2>4, SetCurrentError, Zenon
    <2> HIDE DEF e
    <2>6. /\ t \in AccountState /\ t.disconnect_timeout
          /\ t.state = e.state /\ t.exists = e.exists /\ t.prompt = e.prompt
          /\ t.enabled = e.enabled /\ t.delay = e.delay /\ t.save = e.save
      BY <2>5 DEF AccountState
    <2> HIDE DEF t
    <2>7. Sound(t)
      BY <2>4, <2>5, <2>6 DEF Sound, Connected, Deleted, Permitted, Doomed, is_disconnected
    <2>8. Grows(s, t)
      BY <1>0, <2>4, <2>5, <2>6 DEF Grows, AccountState
    <2> QED BY <2>1, <2>5, <2>6, <2>7, <2>8 DEF AsksForSave
  <1> QED BY <1>1, <1>2

-----------------------------------------------------------------------------
(* accounts.xml                                                            *)

\* Accounts that are loaded are sound; what is not there stays so.
LEMMA Loading ==
    ASSUME NEW d, SoundXml(d)
    PROVE  LET s == parse_account(d)
           IN  /\ Sound(s) /\ s.delay = 0 /\ s.exists = d.exists
               /\ s.save \/ account_to_xmlnode(s) = d
  <1> DEFINE s == parse_account(d)
  <1>1. 0 \in 0..MAX_RECON_DELAY
    BY DelayAssumption
  <1>2. /\ s \in AccountState
        /\ s.state = "disconnected" /\ ~s.wants_to_die /\ ~s.disconnect_timeout
        /\ s.delay = 0 /\ ~s.timeout /\ ~s.prompt
        /\ s.exists = d.exists /\ s.save = d.exists /\ s.enabled = d.enabled
    BY <1>1 DEF SoundXml, Saved, AccountState, parse_account
  <1>3. account_to_xmlnode(s) = d
    BY DEF SoundXml, Saved, parse_account, account_to_xmlnode
  <1> HIDE DEF s
  <1>4. Sound(s)
    BY <1>2 DEF SoundXml, Sound, Connected, Deleted, Permitted, Doomed, is_disconnected
  <1> QED BY <1>2, <1>3, <1>4 DEF s

\* What is saved can be loaded.
LEMMA Saving ==
    ASSUME NEW s, Sound(s)
    PROVE  SoundXml(account_to_xmlnode(s))
  <1> DEFINE d == account_to_xmlnode(s)
  <1>1. /\ d \in Saved /\ d.enabled = s.enabled /\ d.exists = s.exists
    BY DEF Sound, AccountState, Saved, account_to_xmlnode
  <1> HIDE DEF d
  <1> QED BY <1>1 DEF SoundXml, Sound, Deleted, d

-----------------------------------------------------------------------------
(* The steps.                                                              *)

\* The action property DelayGrows, of one step.
DelaysGrow == \A a \in Account : Grows(acct[a], acct'[a])

\* A step of one account that takes it to a sound state.
LEMMA OneAccount ==
    ASSUME IInv, NEW a \in Account, NEW t, Becomes(a, t),
           Sound(t), AsksForSave(acct[a], t), Grows(acct[a], t)
    PROVE  IInv' /\ DelaysGrow
  <1>1. /\ acct' \in [Account -> AccountState]
        /\ \A b \in Account : acct'[b] = IF b = a THEN t ELSE acct[b]
        /\ disk' = disk /\ nm_state' = nm_state
    BY DEF IInv, Becomes, Sound
  <1>2. \A b \in Account : Sound(acct'[b]) /\ SoundXml(disk'[b])
    BY <1>1 DEF IInv
  <1>3. ChangesGetSaved'
    BY <1>1 DEF IInv, ChangesGetSaved, AsksForSave
  <1>4. \A b \in Account : acct[b].delay \in 0..MAX_RECON_DELAY
    BY DEF IInv, Sound, AccountState
  <1>5. DelaysGrow
    BY <1>1, <1>4 DEF DelaysGrow, Grows
  <1> QED BY <1>1, <1>2, <1>3, <1>5 DEF IInv

\* The most frequent way to use it.
LEMMA OneAccountSteps ==
    ASSUME IInv, NEW a \in Account, NEW t, Becomes(a, t), Steps(acct[a], t)
    PROVE  IInv' /\ DelaysGrow
  <1>1. acct[a].delay \in 0..MAX_RECON_DELAY
    BY DEF IInv, Sound, AccountState
  <1>2. Grows(acct[a], t)
    BY <1>1 DEF Steps, Grows
  <1> QED BY <1>2, OneAccount DEF Steps

\* A change to an account that is saved.
LEMMA Edit ==
    ASSUME IInv, NEW a \in Account, NEW t, Becomes(a, t), Sound(t), t.save,
           t.delay = acct[a].delay \/ t.delay = 0
    PROVE  IInv' /\ DelaysGrow
  <1>1. acct[a].delay \in 0..MAX_RECON_DELAY
    BY DEF IInv, Sound, AccountState
  <1> QED BY <1>1, OneAccount DEF AsksForSave, Grows

\* A start from a readable accounts.xml.
LEMMA Restart ==
    ASSUME IInv, \A a \in Account : SoundXml(disk'[a]), disk' \in [Account -> Saved],
           Start(disk'), UNCHANGED nm_state
    PROVE  IInv' /\ DelaysGrow
  <1> DEFINE p(a) == parse_account(disk'[a])
             s(a) == IF network_is_available /\ p(a).online THEN account_connect(p(a)) ELSE p(a)
  <1>1. acct' = [a \in Account |-> s(a)]
    BY Zenon DEF Start
  <1>2. \A a \in Account : s(a) \in {p(a), account_connect(p(a))}
    OBVIOUS
  <1>3. \A a \in Account : /\ Sound(p(a)) /\ p(a).delay = 0
                           /\ p(a).save \/ account_to_xmlnode(p(a)) = disk'[a]
    BY Loading
  <1> HIDE DEF p, s
  <1>4. \A a \in Account : Steps(p(a), account_connect(p(a)))
    BY <1>3, AccountConnect
  <1>5. \A a \in Account : /\ Sound(s(a)) /\ s(a).delay = 0
                           /\ s(a).save \/ account_to_xmlnode(s(a)) = disk'[a]
    BY <1>2, <1>3, <1>4 DEF Steps, AsksForSave
  <1>6. \A a \in Account : acct'[a] = s(a)
    BY <1>1
  <1>7. acct' \in [Account -> AccountState]
    BY <1>1, <1>5 DEF Sound
  <1>8. DelaysGrow
    BY <1>5, <1>6 DEF DelaysGrow, Grows
  <1>9. ChangesGetSaved'
    BY <1>5, <1>6 DEF ChangesGetSaved
  <1> QED BY <1>5, <1>6, <1>7, <1>8, <1>9 DEF IInv

\* The first start, with no accounts.xml.
LEMMA InitSound == Init => IInv
  <1> SUFFICES ASSUME Init PROVE IInv
    OBVIOUS
  <1>1. SoundXml(Nobody) /\ Nobody \in Saved
    BY DEF SoundXml, Saved, Nobody
  <1>2. /\ Sound(parse_account(Nobody))
        /\ parse_account(Nobody).save \/ account_to_xmlnode(parse_account(Nobody)) = Nobody
    BY <1>1, Loading
  <1>3. \A a \in Account : acct[a] = parse_account(Nobody) /\ disk[a] = Nobody
    BY DEF Init
  <1>4. acct \in [Account -> AccountState] /\ disk \in [Account -> Saved]
    BY <1>1, <1>2 DEF Init, Sound
  <1> QED BY <1>1, <1>2, <1>3, <1>4 DEF IInv, Init, ChangesGetSaved

\* What a protocol reports: errors, success, the end of a registration.
LEMMA ProtocolSteps ==
    ASSUME IInv, NEW a \in Account,
           \/ \E fatal \in BOOLEAN : connection_error_reason(a, fatal)
           \/ set_state_connected(a)
           \/ RegistrationEnds(a)
    PROVE  IInv' /\ DelaysGrow
  <1> DEFINE s == acct[a]
  <1>0. Sound(s)
    BY DEF IInv
  <1>1. CASE \E fatal \in BOOLEAN : connection_error_reason(a, fatal)
    <2>1. PICK fatal \in BOOLEAN, initial \in InitialDelay :
             ~is_disconnected(s) /\ Becomes(a, error_reason(s, fatal, initial))
      BY <1>1 DEF connection_error_reason
    <2> QED BY <1>0, <2>1, ErrorReason, OneAccount
  <1>2. CASE set_state_connected(a)
    <2> DEFINE c == [s EXCEPT !.state = "connected"]
               r == remove_auto_recon(c)
               t == set_current_error(r, "none")
    <2>1. s.state = "connecting" /\ Becomes(a, t)
      BY <1>2 DEF set_state_connected
    <2>2. /\ c \in AccountState
          /\ c.state = "connected" /\ c.wants_to_die = s.wants_to_die
          /\ c.registers = s.registers /\ c.disconnect_timeout = s.disconnect_timeout
          /\ c.exists = s.exists /\ c.enabled = s.enabled
          /\ c.prompt = s.prompt /\ c.timeout = s.timeout /\ c.save = s.save
      BY <1>0 DEF Sound, AccountState
    <2>3. account_to_xmlnode(c) = account_to_xmlnode(s)
      BY <1>0 DEF Sound, AccountState, account_to_xmlnode
    <2> HIDE DEF c, s
    <2>4. Sound(c)
      BY <1>0, <2>1, <2>2 DEF Sound, Connected, Deleted, Permitted, Doomed, is_disconnected
    <2>5. Sound(r) /\ AsksForSave(c, r) /\ r.delay = 0
      BY <2>4, RemoveAutoRecon
    <2> HIDE DEF r
    <2>6. Sound(t) /\ AsksForSave(r, t) /\ t.delay = 0
      <3>1. r \in AccountState
        BY <2>5 DEF Sound
      <3> QED BY <2>5, <3>1, SetCurrentError, Zenon
    <2>7. s.save \in BOOLEAN
      BY <1>0 DEF Sound, AccountState
    <2> HIDE DEF t
    <2>8. AsksForSave(s, t) /\ Grows(s, t)
      BY <2>2, <2>3, <2>5, <2>6, <2>7 DEF AsksForSave, Grows
    <2> QED BY <2>1, <2>6, <2>8, OneAccount DEF s
  <1>3. CASE RegistrationEnds(a)
    <2>1. Steps(s, account_disconnect(s))
      BY <1>0, AccountDisconnect DEF Sound, Connected
    <2> QED BY <1>3, <2>1, OneAccountSteps DEF RegistrationEnds
  <1> QED BY <1>1, <1>2, <1>3

\* The timers of an account.
LEMMA TimerSteps ==
    ASSUME IInv, NEW a \in Account, connection_disconnect_cb(a) \/ do_signon(a)
    PROVE  IInv' /\ DelaysGrow
  <1> DEFINE s == acct[a]
  <1>0. Sound(s)
    BY DEF IInv
  <1>1. CASE connection_disconnect_cb(a)
    <2> DEFINE c == [s EXCEPT !.disconnect_timeout = FALSE]
    <2>1. Becomes(a, disconnect_keeping_password(c))
      BY <1>1 DEF connection_disconnect_cb
    <2>2. /\ c \in AccountState /\ c.state = s.state /\ ~c.disconnect_timeout
          /\ c.exists = s.exists /\ c.enabled = s.enabled /\ c.prompt = s.prompt
          /\ c.timeout = s.timeout /\ c.delay = s.delay
      BY <1>0 DEF Sound, AccountState
    <2> HIDE DEF c
    <2>3. Deleted(c)
      BY <1>0, <2>2 DEF Sound, Deleted, is_disconnected
    <2>4. Steps(c, disconnect_keeping_password(c)) /\ disconnect_keeping_password(c).save
      BY <2>2, <2>3, DisconnectKeepingPassword
    <2> QED BY <2>1, <2>2, <2>4, Edit DEF Steps
  <1>2. CASE do_signon(a)
    BY <1>0, <1>2, DoSignonAccount, OneAccountSteps DEF do_signon
  <1> QED BY <1>1, <1>2

\* purple_accounts_delete.
LEMMA DeletionStep ==
    ASSUME IInv, NEW a \in Account, accounts_delete(a)
    PROVE  IInv' /\ DelaysGrow
  <1> DEFINE s == account_set_enabled(acct[a], FALSE)
             n == parse_account(Nobody)
             t == [n EXCEPT !.save = TRUE, !.state = s.state,
                            !.wants_to_die = s.wants_to_die, !.registers = s.registers,
                            !.disconnect_timeout = s.disconnect_timeout]
  <1>1. Becomes(a, t) /\ (~Doomed(acct[a]) \/ "delete_doomed" \in Events)
    BY Zenon DEF accounts_delete
  <1>2. /\ Sound(s) /\ ~s.enabled
        /\ ~Doomed(acct[a]) => is_disconnected(s) /\ ~s.disconnect_timeout
    BY SetEnabled DEF IInv
  <1>3. SoundXml(Nobody) /\ ~Nobody.exists
    BY DEF SoundXml, Saved, Nobody
  <1>4. Sound(n) /\ n.delay = 0 /\ ~n.exists
    BY <1>3, Loading
  <1> HIDE DEF s, n
  <1>5. /\ t \in AccountState /\ t.save /\ t.state = s.state
        /\ t.wants_to_die = s.wants_to_die /\ t.registers = s.registers
        /\ t.disconnect_timeout = s.disconnect_timeout
        /\ t.exists = n.exists /\ t.enabled = n.enabled /\ t.prompt = n.prompt
        /\ t.timeout = n.timeout /\ t.delay = n.delay
    BY <1>2, <1>4 DEF Sound, AccountState
  <1>6. ~n.enabled /\ ~n.prompt /\ ~n.timeout
    BY DEF n, parse_account, Nobody
  <1> HIDE DEF t
  <1>7. Sound(t)
    BY <1>1, <1>2, <1>4, <1>5, <1>6
       DEF Sound, Connected, Deleted, Permitted, Doomed, is_disconnected
  <1> QED BY <1>1, <1>4, <1>5, <1>7, Edit

\* What the user does to one account.
LEMMA UserSteps ==
    ASSUME IInv, NEW a \in Account,
           \/ accounts_add(a)
           \/ \E value \in BOOLEAN : set_enabled(a, value)
           \/ Reconnect(a)
           \/ clear_current_error(a)
           \/ account_register(a)
    PROVE  IInv' /\ DelaysGrow
  <1> DEFINE s == acct[a]
  <1>0. Sound(s) /\ s.delay \in 0..MAX_RECON_DELAY /\ s.password \in BOOLEAN
    BY DEF IInv, Sound, AccountState
  <1>1. CASE accounts_add(a)
    <2>1. PICK known \in BOOLEAN, remember \in BOOLEAN :
             Becomes(a, [parse_account([Nobody EXCEPT !.exists = TRUE, !.online = TRUE])
                            EXCEPT !.password = known, !.remember = remember])
      BY <1>1 DEF accounts_add
    <2> DEFINE d == [Nobody EXCEPT !.exists = TRUE, !.online = TRUE]
               p == [parse_account(d) EXCEPT !.password = known, !.remember = remember]
    <2>2. d \in Saved /\ d.exists /\ ~d.enabled
      BY DEF Saved, Nobody
    <2>3. 0 \in 0..MAX_RECON_DELAY
      BY DelayAssumption
    <2> HIDE DEF d
    <2>4. /\ p \in AccountState
          /\ p.state = "disconnected" /\ ~p.wants_to_die /\ ~p.disconnect_timeout
          /\ p.delay = 0 /\ ~p.timeout /\ ~p.prompt
          /\ p.exists = d.exists /\ p.save = d.exists /\ p.enabled = d.enabled
      BY <2>2, <2>3, ZenonT(60) DEF Saved, AccountState, parse_account
    <2> HIDE DEF p
    <2>5. Sound(p)
      BY <2>2, <2>4 DEF Sound, Connected, Deleted, Permitted, Doomed, is_disconnected
    <2> QED BY <2>1, <2>2, <2>4, <2>5, Edit DEF d, p
  <1>2. CASE \E value \in BOOLEAN : set_enabled(a, value)
    <2>1. PICK value \in BOOLEAN : s.exists /\ Becomes(a, account_set_enabled(s, value))
      BY <1>2 DEF set_enabled
    <2> QED BY <1>0, <2>1, SetEnabled, Edit
  <1>3. CASE Reconnect(a)
    BY <1>0, <1>3, AccountConnect, OneAccountSteps DEF Reconnect
  <1>4. CASE clear_current_error(a)
    <2> DEFINE t == set_current_error(s, "none")
    <2>1. Sound(t) /\ AsksForSave(s, t) /\ t.delay = s.delay
      <3>1. s \in AccountState
        BY <1>0 DEF Sound
      <3> QED BY <1>0, <3>1, SetCurrentError, Zenon
    <2>2. Becomes(a, t)
      BY <1>4 DEF clear_current_error
    <2> HIDE DEF t
    <2>3. Grows(s, t)
      BY <1>0, <2>1 DEF Grows
    <2> QED BY <2>1, <2>2, <2>3, OneAccount
  <1>5. CASE account_register(a)
    <2>1. s.exists /\ Becomes(a, connection_new(s, TRUE, s.password))
      BY <1>5 DEF account_register
    <2>2. Steps(s, connection_new(s, TRUE, s.password))
      BY <1>0, <2>1, ConnectionNew
    <2> QED BY <2>1, <2>2, OneAccountSteps
  <1> QED BY <1>1, <1>2, <1>3, <1>4, <1>5

\* The answers to the request for a password.
LEMMA PasswordSteps ==
    ASSUME IInv, NEW a \in Account, request_password_ok(a) \/ request_password_cancel(a)
    PROVE  IInv' /\ DelaysGrow
  <1> DEFINE s == acct[a]
  <1>0. Sound(s)
    BY DEF IInv
  <1>1. CASE request_password_ok(a)
    <2>1. PICK remember \in BOOLEAN :
             Becomes(a, connection_new(
                 set_password([s EXCEPT !.prompt = FALSE, !.remember = @ \/ remember], TRUE),
                 FALSE, TRUE))
      BY <1>1 DEF request_password_ok
    <2> DEFINE c == [s EXCEPT !.prompt = FALSE, !.remember = @ \/ remember]
               p == set_password(c, TRUE)
    <2>2. s.prompt /\ (s.enabled \/ "late_password" \in Events)
      BY <1>1 DEF request_password_ok
    <2>3. /\ c \in AccountState
          /\ c.state = s.state /\ c.wants_to_die = s.wants_to_die /\ c.registers = s.registers
          /\ c.exists = s.exists /\ c.enabled = s.enabled /\ c.delay = s.delay
          /\ ~c.prompt /\ c.timeout = s.timeout
          /\ c.disconnect_timeout = s.disconnect_timeout
      BY <1>0 DEF Sound, AccountState
    <2> HIDE DEF c
    <2>4. Sound(c)
      BY <1>0, <2>3 DEF Sound, Connected, Deleted, Permitted, Doomed, is_disconnected
    <2>5. Steps(c, p) /\ p.save
      BY <2>3, <2>4, SetPassword
    <2>6. Becomes(a, connection_new(p, FALSE, TRUE))
      BY <2>1 DEF c
    <2> HIDE DEF p
    <2>7. p.exists /\ (p.enabled \/ "late_password" \in Events)
      BY <1>0, <2>2, <2>3, <2>5 DEF Steps, Sound, Deleted
    <2>8. Steps(p, connection_new(p, FALSE, TRUE))
      BY <2>5, <2>7, ConnectionNew DEF Steps
    <2> QED BY <2>3, <2>5, <2>6, <2>8, Edit DEF Steps, AsksForSave
  <1>2. CASE request_password_cancel(a)
    <2> DEFINE c == [s EXCEPT !.prompt = FALSE]
    <2>1. Becomes(a, account_set_enabled(c, FALSE))
      BY <1>2 DEF request_password_cancel
    <2>2. /\ c \in AccountState
          /\ c.state = s.state /\ c.wants_to_die = s.wants_to_die /\ c.registers = s.registers
          /\ c.exists = s.exists /\ c.enabled = s.enabled /\ c.delay = s.delay
          /\ ~c.prompt /\ c.timeout = s.timeout
          /\ c.disconnect_timeout = s.disconnect_timeout
      BY <1>0 DEF Sound, AccountState
    <2> HIDE DEF c
    <2>3. Sound(c)
      BY <1>0, <2>2 DEF Sound, Connected, Deleted, Permitted, Doomed, is_disconnected
    <2> QED BY <2>1, <2>2, <2>3, SetEnabled, Edit
  <1> QED BY <1>1, <1>2

\* Another status.
LEMMA StatusStep ==
    ASSUME IInv, NEW a \in Account, NEW online \in BOOLEAN, change_account_status(a, online)
    PROVE  IInv' /\ DelaysGrow
  <1> DEFINE s == [acct[a] EXCEPT !.online = online, !.save = TRUE]
             t == IF ~s.enabled THEN s
                  ELSE IF online
                  THEN IF is_disconnected(s) /\ network_is_available THEN account_connect(s) ELSE s
                  ELSE IF ~is_disconnected(s) THEN account_disconnect(s)
                  ELSE IF s.remember THEN s ELSE set_password(s, FALSE)
  <1>0. Sound(acct[a])
    BY DEF IInv
  <1>1. Becomes(a, t)
    BY Zenon DEF change_account_status
  <1>2. t \in {s, account_connect(s), account_disconnect(s), set_password(s, FALSE)}
    OBVIOUS
  <1>3. /\ s \in AccountState
        /\ s.state = acct[a].state /\ s.wants_to_die = acct[a].wants_to_die
        /\ s.registers = acct[a].registers /\ s.exists = acct[a].exists
        /\ s.enabled = acct[a].enabled /\ s.delay = acct[a].delay
        /\ s.prompt = acct[a].prompt /\ s.timeout = acct[a].timeout /\ s.save
        /\ s.disconnect_timeout = acct[a].disconnect_timeout
    BY <1>0 DEF Sound, AccountState
  <1> HIDE DEF s
  <1>4. Sound(s)
    BY <1>0, <1>3 DEF Sound, Connected, Deleted, Permitted, Doomed, is_disconnected
  <1>5. /\ Steps(s, account_connect(s)) /\ Steps(s, account_disconnect(s))
        /\ Steps(s, set_password(s, FALSE))
    BY <1>3, <1>4, AccountConnect, AccountDisconnect, SetPassword DEF Sound, Connected
  <1> HIDE DEF t
  <1>6. Sound(t) /\ t.save /\ t.delay = acct[a].delay
    BY <1>2, <1>3, <1>4, <1>5 DEF Steps, AsksForSave
  <1> QED BY <1>1, <1>6, Edit

\* NetworkManager's notices.
LEMMA NetworkStep ==
    ASSUME IInv, NEW st \in NmState, nm_update_state(st)
    PROVE  IInv' /\ DelaysGrow
  <1>1. /\ nm_state' = st /\ disk' = disk
        /\ \/ acct' = [a \in Account |-> pidgin_network_connected(acct[a])]
           \/ acct' = [a \in Account |-> pidgin_network_disconnected(acct[a])]
           \/ acct' = acct
    BY Zenon DEF nm_update_state
  <1>2. \A a \in Account : acct[a].delay \in 0..MAX_RECON_DELAY
    BY DEF IInv, Sound, AccountState
  <1>3. \A a \in Account : Sound(acct[a])
    BY DEF IInv
  <1>4. /\ \A a \in Account : Sound(acct'[a]) /\ AsksForSave(acct[a], acct'[a])
        /\ acct' \in [Account -> AccountState] /\ DelaysGrow
    <2>1. CASE acct' = [a \in Account |-> pidgin_network_connected(acct[a])]
      <3>1. \A a \in Account : /\ Sound(acct'[a]) /\ AsksForSave(acct[a], acct'[a])
                               /\ Grows(acct[a], acct'[a])
        BY <1>3, <2>1, NetworkConnected
      <3>2. acct' \in [Account -> AccountState]
        BY <2>1, <3>1 DEF Sound
      <3> QED BY <3>1, <3>2 DEF DelaysGrow
    <2>2. CASE acct' = [a \in Account |-> pidgin_network_disconnected(acct[a])]
      <3>1. \A a \in Account : Steps(acct[a], acct'[a])
        BY <1>3, <2>2, NetworkDisconnected
      <3>2. acct' \in [Account -> AccountState]
        BY <2>2, <3>1 DEF Steps, Sound
      <3> QED BY <1>2, <3>1, <3>2 DEF DelaysGrow, Grows, Steps
    <2>3. CASE acct' = acct
      <3>1. \A a \in Account : Steps(acct[a], acct'[a])
        BY <1>3, <2>3, Stutter
      <3> QED BY <1>2, <2>3, <3>1 DEF DelaysGrow, Grows, Steps, IInv
    <2> QED BY <1>1, <2>1, <2>2, <2>3
  <1>5. ChangesGetSaved'
    BY <1>1, <1>4 DEF IInv, ChangesGetSaved, AsksForSave
  <1> QED BY <1>1, <1>4, <1>5 DEF IInv

\* save_cb.
LEMMA SaveStep ==
    ASSUME IInv, save_cb
    PROVE  IInv' /\ DelaysGrow
  <1>1. /\ disk' = [a \in Account |-> account_to_xmlnode(acct[a])]
        /\ acct' = [a \in Account |-> [acct[a] EXCEPT !.save = FALSE]]
        /\ nm_state' = nm_state
    BY DEF save_cb
  <1>2. ASSUME NEW a \in Account
        PROVE  /\ Sound(acct'[a]) /\ account_to_xmlnode(acct'[a]) = disk'[a]
               /\ SoundXml(disk'[a]) /\ acct'[a].delay = acct[a].delay
               /\ acct[a].delay \in 0..MAX_RECON_DELAY
    <2> DEFINE s == acct[a]  t == [s EXCEPT !.save = FALSE]
    <2>1. Sound(s) /\ s.delay \in 0..MAX_RECON_DELAY
      BY DEF IInv, Sound, AccountState
    <2>2. /\ t \in AccountState
          /\ t.state = s.state /\ t.wants_to_die = s.wants_to_die /\ t.registers = s.registers
          /\ t.exists = s.exists /\ t.enabled = s.enabled /\ t.delay = s.delay
          /\ t.prompt = s.prompt /\ t.timeout = s.timeout
          /\ t.disconnect_timeout = s.disconnect_timeout
          /\ account_to_xmlnode(t) = account_to_xmlnode(s)
      BY <2>1 DEF Sound, AccountState, account_to_xmlnode
    <2>3. acct'[a] = t /\ disk'[a] = account_to_xmlnode(s)
      BY <1>1
    <2> HIDE DEF s, t
    <2>4. Sound(t)
      BY <2>1, <2>2 DEF Sound, Connected, Deleted, Permitted, Doomed, is_disconnected
    <2>5. SoundXml(account_to_xmlnode(s))
      BY <2>1, Saving
    <2> QED BY <2>1, <2>2, <2>3, <2>4, <2>5 DEF s
  <1>3. acct' \in [Account -> AccountState]
    <2>1. \A a \in Account : acct'[a] \in AccountState
      BY <1>2 DEF Sound
    <2> QED BY <1>1, <2>1
  <1>4. disk' \in [Account -> Saved]
    <2>1. \A a \in Account : disk'[a] \in Saved
      BY <1>2 DEF SoundXml
    <2> QED BY <1>1, <2>1
  <1>5. ChangesGetSaved' /\ DelaysGrow
    BY <1>2 DEF ChangesGetSaved, DelaysGrow, Grows
  <1> QED BY <1>1, <1>2, <1>3, <1>4, <1>5 DEF IInv

\* The end of the program.
LEMMA RestartSteps ==
    ASSUME IInv, Quit \/ Crash
    PROVE  IInv' /\ DelaysGrow
  <1>1. CASE Quit
    <2> DEFINE last == [a \in Account |-> account_disconnect(acct[a])]
    <2>1. /\ disk' = (IF \E a \in Account : last[a].save
                      THEN [a \in Account |-> account_to_xmlnode(last[a])] ELSE disk)
          /\ Start(disk') /\ UNCHANGED nm_state
      BY <1>1, Zenon DEF Quit
    <2>2. \A a \in Account : Steps(acct[a], last[a])
      BY AccountDisconnect DEF IInv, Sound, Connected
    <2>3. \A a \in Account : SoundXml(account_to_xmlnode(last[a]))
      BY <2>2, Saving DEF Steps
    <2> HIDE DEF last
    <2>4. \/ disk' = [a \in Account |-> account_to_xmlnode(last[a])]
          \/ disk' = disk
      BY <2>1
    <2>5. \A a \in Account : SoundXml(disk'[a])
      BY <2>3, <2>4 DEF IInv
    <2>6. disk' \in [Account -> Saved]
      BY <2>3, <2>4 DEF IInv, SoundXml
    <2> QED BY <2>1, <2>5, <2>6, Restart
  <1>2. CASE Crash
    <2>1. Start(disk') /\ disk' = disk /\ UNCHANGED nm_state
      BY <1>2 DEF Crash, Start
    <2> QED BY <2>1, Restart DEF IInv
  <1> QED BY <1>1, <1>2

\* Nothing happens.
LEMMA Stuttering ==
    ASSUME IInv, UNCHANGED vars
    PROVE  IInv' /\ DelaysGrow
  <1>1. acct' = acct /\ disk' = disk /\ nm_state' = nm_state
    BY DEF vars
  <1>2. \A a \in Account : acct[a].delay \in 0..MAX_RECON_DELAY
    BY DEF IInv, Sound, AccountState
  <1> QED BY <1>1, <1>2 DEF IInv, ChangesGetSaved, DelaysGrow, Grows

\* Every step keeps the invariant and never lowers a delay but to forget it.
LEMMA NextSound == IInv /\ [Next]_vars => IInv' /\ DelaysGrow
  <1> SUFFICES ASSUME IInv, [Next]_vars PROVE IInv' /\ DelaysGrow
    OBVIOUS
  <1> QED
    BY ProtocolSteps, TimerSteps, DeletionStep, UserSteps, PasswordSteps, StatusStep,
       NetworkStep, SaveStep, RestartSteps, Stuttering DEF Next

-----------------------------------------------------------------------------
(* The theorems.                                                           *)

\* Every account stays sound and accounts.xml readable, and a save is scheduled
\* while accounts.xml lacks something it is to keep, whatever the protocols, the
\* user and the network do.
THEOREM InductiveInvariant == Spec => []IInv
  <1>1. IInv /\ [Next]_vars => IInv'
    BY NextSound
  <1> QED BY InitSound, <1>1, PTL DEF Spec

\* The variables keep their types: the delay stays within MAX_RECON_DELAY.
THEOREM TypeCorrect == Spec => []TypeOK
  <1>1. IInv => TypeOK
    BY DEF IInv, TypeOK
  <1> QED BY <1>1, InductiveInvariant, PTL

\* Reporting an error never destroys the connection it is reported for.
THEOREM ErrorsSpareConnection == Spec => []ErrorsLeaveConnection
  <1>1. IInv => ErrorsLeaveConnection
    BY DEF IInv, Sound, Connected, ErrorsLeaveConnection
  <1> QED BY <1>1, InductiveInvariant, PTL

\* A connection that set_enabled spares because it wants to die does die.
THEOREM DoomedConnectionsEnd == Spec => []DoomedEnds
  <1>1. IInv => DoomedEnds
    BY DEF IInv, Sound, Connected, DoomedEnds
  <1> QED BY <1>1, InductiveInvariant, PTL

\* save_timer runs whenever accounts.xml lacks something it is to keep: all of an
\* account but its transient errors and a password not to be remembered.
THEOREM NoChangeIsForgotten == Spec => []ChangesGetSaved
  <1>1. IInv => ChangesGetSaved
    BY DEF IInv
  <1> QED BY <1>1, InductiveInvariant, PTL

\* Only enabled accounts are online, if no password is entered for an account
\* that was disabled meanwhile.
THEOREM OnlyEnabledAccountsConnect ==
    ASSUME "late_password" \notin Events
    PROVE  Spec => []OnlyEnabledConnect
  <1>1. IInv => OnlyEnabledConnect
    BY DEF IInv, Sound, Permitted, OnlyEnabledConnect
  <1> QED BY <1>1, InductiveInvariant, PTL

\* Nothing uses a deleted account, if none is deleted whose connection wants
\* to die.
THEOREM DeletionIsSafe ==
    ASSUME "delete_doomed" \notin Events
    PROVE  Spec => []NothingUsesDeleted
  <1>1. IInv => NothingUsesDeleted
    BY DEF IInv, Sound, Deleted, NothingUsesDeleted
  <1> QED BY <1>1, InductiveInvariant, PTL

\* The delay of the automatic reconnection only grows until it is forgotten.
THEOREM ReconnectionBacksOff == Spec => DelayGrows
  <1>1. IInv /\ [Next]_vars =>
          [\A a \in Account : acct'[a].delay < acct[a].delay => acct'[a].delay = 0]_vars
    BY NextSound DEF DelaysGrow, Grows
  <1> QED BY <1>1, InductiveInvariant, PTL DEF Spec, DelayGrows

-----------------------------------------------------------------------------
(* A wanted account is on its way.                                         *)

\* The situations the property leaves out, each of which can strand an account.
Untroubled ==
    Events \cap {"register", "late_password", "edit_doomed", "network_pending",
                 "late_connected", "stall"} = {}

\* A connection that is about to be destroyed will be made again, if the
\* account is enabled, and a disabled account has no other.
Pursued(s) ==
    /\ ~s.registers
    /\ s.enabled /\ s.disconnect_timeout => s.timeout
    /\ ~s.enabled /\ ~is_disconnected(s) => s.wants_to_die

Wants(s) == s.exists /\ s.enabled /\ s.online

Reached == nm_state \in {"limited", "connected"}

\* The invariant.
NobodyStranded ==
    \A a \in Account : /\ Pursued(acct[a])
                       /\ (Reached /\ Wants(acct[a]) => OnTheWay(acct[a]))

\* What a function keeps that takes an account nearer to being online.
Follows(s, t) ==
    /\ Pursued(t)
    /\ t.exists = s.exists /\ t.enabled = s.enabled /\ t.online = s.online
    /\ s.enabled /\ OnTheWay(s) => OnTheWay(t)

\* Equal where it matters here.
Alike(s, t) ==
    /\ t.exists = s.exists /\ t.enabled = s.enabled /\ t.online = s.online
    /\ t.state = s.state /\ t.wants_to_die = s.wants_to_die /\ t.registers = s.registers
    /\ t.disconnect_timeout = s.disconnect_timeout
    /\ t.prompt = s.prompt /\ t.timeout = s.timeout

\* _purple_connection_new, when the password is known.
LEMMA NewOnTheWay ==
    ASSUME NEW s, Sound(s), Pursued(s), s.enabled
    PROVE  LET t == connection_new(s, FALSE, TRUE)
           IN  Follows(s, t) /\ (is_disconnected(s) => OnTheWay(t))
  <1>1. CASE ~is_disconnected(s)
    <2>1. connection_new(s, FALSE, TRUE) = s
      BY <1>1, Zenon DEF connection_new
    <2> QED BY <1>1, <2>1 DEF Follows
  <1>2. CASE is_disconnected(s)
    <2> DEFINE t == [s EXCEPT !.state = "connecting", !.wants_to_die = FALSE,
                              !.registers = FALSE]
    <2>1. connection_new(s, FALSE, TRUE) = t
      BY <1>2, Zenon DEF connection_new
    <2>2. /\ t.state = "connecting" /\ t.registers = FALSE
          /\ t.exists = s.exists /\ t.enabled = s.enabled /\ t.online = s.online
          /\ t.disconnect_timeout = s.disconnect_timeout
      BY DEF AccountState, Sound
    <2> HIDE DEF t
    <2>3. ~s.disconnect_timeout
      BY <1>2 DEF Sound, Connected
    <2> QED BY <2>1, <2>2, <2>3 DEF Follows, Pursued, OnTheWay, is_disconnected
  <1> QED BY <1>1, <1>2

\* purple_account_connect: the account signs on or the user is asked.
LEMMA ConnectOnTheWay ==
    ASSUME NEW s, Sound(s), Pursued(s)
    PROVE  LET t == account_connect(s)
           IN  Follows(s, t) /\ (s.enabled /\ is_disconnected(s) => OnTheWay(t))
  <1>1. CASE ~s.enabled
    <2>1. account_connect(s) = s
      BY <1>1, Zenon DEF account_connect
    <2> QED BY <1>1, <2>1 DEF Follows
  <1>2. CASE s.enabled /\ s.password
    <2>1. account_connect(s) = connection_new(s, FALSE, TRUE)
      BY <1>2, Zenon DEF account_connect
    <2> QED BY <1>2, <2>1, NewOnTheWay
  <1>3. CASE s.enabled /\ ~s.password
    <2> DEFINE t == [s EXCEPT !.prompt = TRUE]
    <2>1. account_connect(s) = t
      BY <1>3, Zenon DEF account_connect
    <2>2. /\ t.prompt = TRUE
          /\ t.state = s.state /\ t.wants_to_die = s.wants_to_die /\ t.registers = s.registers
          /\ t.exists = s.exists /\ t.enabled = s.enabled /\ t.online = s.online
          /\ t.disconnect_timeout = s.disconnect_timeout /\ t.timeout = s.timeout
      BY DEF AccountState, Sound
    <2> HIDE DEF t
    <2> QED BY <2>1, <2>2 DEF Follows, Pursued, OnTheWay, is_disconnected
  <1> QED BY <1>1, <1>2, <1>3

\* purple_account_disconnect: the prompt and the reconnect timer stay.
LEMMA DisconnectAlike ==
    ASSUME NEW s \in AccountState, ~s.registers
    PROVE  LET t == account_disconnect(s)
           IN  /\ is_disconnected(t) /\ ~t.registers
               /\ t.exists = s.exists /\ t.enabled = s.enabled /\ t.online = s.online
               /\ t.prompt = s.prompt /\ t.timeout = s.timeout
               /\ t \in AccountState
               /\ ~s.disconnect_timeout => ~t.disconnect_timeout
               /\ ~is_disconnected(s) => ~t.disconnect_timeout
  <1>1. CASE is_disconnected(s)
    <2>1. account_disconnect(s) = s
      BY <1>1, Zenon DEF account_disconnect
    <2> QED BY <1>1, <2>1
  <1>2. CASE ~is_disconnected(s)
    <2> DEFINE d == connection_destroy(s)  p == set_password(d, FALSE)
    <2>1. account_disconnect(s) = IF s.remember THEN d ELSE p
      BY <1>2, Zenon DEF account_disconnect
    <2>2. /\ d \in AccountState /\ d.state = "disconnected" /\ ~d.registers
          /\ ~d.disconnect_timeout
          /\ d.exists = s.exists /\ d.enabled = s.enabled /\ d.online = s.online
          /\ d.prompt = s.prompt /\ d.timeout = s.timeout
      BY DEF AccountState, connection_destroy
    <2> HIDE DEF d
    <2>3. p \in AccountState /\ Alike(d, p)
      BY <2>2 DEF AccountState, set_password, Alike
    <2> HIDE DEF p
    <2> QED BY <2>1, <2>2, <2>3 DEF Alike, is_disconnected
  <1> QED BY <1>1, <1>2

\* The same, and the password is restored.
LEMMA KeepingPasswordAlike ==
    ASSUME NEW s \in AccountState, ~s.registers
    PROVE  LET t == disconnect_keeping_password(s)
           IN  /\ is_disconnected(t) /\ ~t.registers
               /\ t.exists = s.exists /\ t.enabled = s.enabled /\ t.online = s.online
               /\ t.prompt = s.prompt /\ t.timeout = s.timeout
               /\ ~s.disconnect_timeout => ~t.disconnect_timeout
               /\ ~is_disconnected(s) => ~t.disconnect_timeout
  <1> DEFINE d == account_disconnect(s)  t == set_password(d, s.password)
  <1>1. disconnect_keeping_password(s) = t
    BY Zenon DEF disconnect_keeping_password
  <1>2. /\ is_disconnected(d) /\ ~d.registers
        /\ d.exists = s.exists /\ d.enabled = s.enabled /\ d.online = s.online
        /\ d.prompt = s.prompt /\ d.timeout = s.timeout
        /\ d \in AccountState
        /\ ~s.disconnect_timeout => ~d.disconnect_timeout
        /\ ~is_disconnected(s) => ~d.disconnect_timeout
    BY DisconnectAlike
  <1> HIDE DEF d
  <1>3. Alike(d, t)
    BY <1>2 DEF AccountState, set_password, Alike
  <1> HIDE DEF t
  <1> QED BY <1>1, <1>2, <1>3 DEF Alike, is_disconnected

\* purple_account_set_enabled: what is enabled signs on, what is disabled is
\* disconnected now or wants to die.
LEMMA EnableOnTheWay ==
    ASSUME NEW s, Sound(s), Pursued(s), NEW value \in BOOLEAN,
           value => s.exists /\ ~Doomed(s)
    PROVE  LET t == account_set_enabled(s, value)
           IN  /\ Pursued(t) /\ t.enabled = value
               /\ t.exists = s.exists /\ t.online = s.online
               /\ value /\ s.online /\ (s.enabled => OnTheWay(s)) => OnTheWay(t)
  <1> DEFINE e == [s EXCEPT !.enabled = value, !.save = TRUE]
  <1>1. /\ e \in AccountState
        /\ e.state = s.state /\ e.wants_to_die = s.wants_to_die /\ e.registers = s.registers
        /\ e.exists = s.exists /\ e.enabled = value /\ e.online = s.online
        /\ e.prompt = s.prompt /\ e.timeout = s.timeout
        /\ e.disconnect_timeout = s.disconnect_timeout
    BY DEF AccountState, Sound
  <1>2. account_set_enabled(s, value) =
          IF ~is_disconnected(e) /\ e.wants_to_die THEN e
          ELSE IF value /\ e.online THEN account_connect(e)
          ELSE IF ~value THEN account_disconnect(e) ELSE e
    BY Zenon DEF account_set_enabled
  <1> HIDE DEF e
  <1>3. Connected(e) /\ Deleted(e)
    BY <1>1 DEF Sound, Connected, Deleted, Doomed, is_disconnected
  <1>4. CASE value
    <2>1. Permitted(e)
      BY <1>1, <1>4 DEF Permitted
    <2>2. Sound(e)
      BY <1>1, <1>3, <2>1 DEF Sound
    <2>3. ~s.enabled => is_disconnected(s)
      BY <1>4 DEF Pursued, Doomed
    <2>4. Pursued(e)
      BY <1>1, <1>4, <2>3 DEF Pursued, Sound, Connected, is_disconnected
    <2>5. account_set_enabled(s, value) = IF s.online THEN account_connect(e) ELSE e
      BY <1>1, <1>2, <1>4 DEF Doomed, is_disconnected
    <2>6. Follows(e, account_connect(e)) /\ (is_disconnected(e) => OnTheWay(account_connect(e)))
      BY <1>1, <1>4, <2>2, <2>4, ConnectOnTheWay
    <2>7. OnTheWay(s) => OnTheWay(e)
      BY <1>1 DEF OnTheWay, is_disconnected
    <2>8. is_disconnected(e) <=> is_disconnected(s)
      BY <1>1 DEF is_disconnected
    <2> QED BY <1>1, <1>4, <2>3, <2>4, <2>5, <2>6, <2>7, <2>8 DEF Follows
  <1>5. CASE ~value
    <2>1. account_set_enabled(s, value) = IF Doomed(s) THEN e ELSE account_disconnect(e)
      BY <1>1, <1>2, <1>5 DEF Doomed, is_disconnected
    <2>2. Doomed(s) => Pursued(e)
      BY <1>1, <1>5 DEF Doomed, Pursued, is_disconnected
    <2>3. Pursued(account_disconnect(e)) /\ account_disconnect(e).enabled = value
          /\ account_disconnect(e).exists = s.exists /\ account_disconnect(e).online = s.online
      BY <1>1, <1>5, DisconnectAlike DEF Pursued
    <2> QED BY <1>1, <1>5, <2>1, <2>2, <2>3
  <1> QED BY <1>4, <1>5

\* do_signon, when the disconnect timer has gone off: the account signs on.
LEMMA SignonOnTheWay ==
    ASSUME NEW s, Sound(s), Pursued(s), ~s.disconnect_timeout
    PROVE  LET t == do_signon_account(s)
           IN  /\ Pursued(t)
               /\ t.exists = s.exists /\ t.enabled = s.enabled /\ t.online = s.online
               /\ s.enabled /\ s.online => OnTheWay(t)
  <1> DEFINE e == [s EXCEPT !.timeout = FALSE]
  <1>1. /\ e \in AccountState
        /\ e.state = s.state /\ e.wants_to_die = s.wants_to_die /\ e.registers = s.registers
        /\ e.exists = s.exists /\ e.enabled = s.enabled /\ e.online = s.online
        /\ e.prompt = s.prompt /\ ~e.timeout
        /\ e.disconnect_timeout = s.disconnect_timeout
    BY DEF AccountState, Sound
  <1>2. do_signon_account(s) = IF e.online THEN account_connect(e) ELSE e
    BY Zenon DEF do_signon_account
  <1> HIDE DEF e
  <1>3. Sound(e) /\ Pursued(e)
    BY <1>1 DEF Sound, Connected, Deleted, Permitted, Pursued, Doomed, is_disconnected
  <1>4. ~is_disconnected(e) => OnTheWay(e)
    BY <1>1 DEF OnTheWay
  <1>5. Follows(e, account_connect(e))
        /\ (e.enabled /\ is_disconnected(e) => OnTheWay(account_connect(e)))
    BY <1>3, ConnectOnTheWay
  <1> QED BY <1>1, <1>2, <1>3, <1>4, <1>5 DEF Follows

\* pidgin_connection_network_connected, when no disconnect timer runs.
LEMMA NetworkOnTheWay ==
    ASSUME NEW s, Sound(s), Pursued(s), ~s.disconnect_timeout
    PROVE  LET t == pidgin_network_connected(s)
           IN  Pursued(t) /\ (Wants(t) => OnTheWay(t))
  <1> DEFINE r == remove_auto_recon(s)
  <1>1. Sound(r)
    BY RemoveAutoRecon
  <1>2. /\ r.exists = s.exists /\ r.enabled = s.enabled /\ r.online = s.online
        /\ r.state = s.state /\ r.wants_to_die = s.wants_to_die /\ r.registers = s.registers
        /\ r.disconnect_timeout = s.disconnect_timeout
    BY DEF Sound, AccountState, remove_auto_recon
  <1>3. pidgin_network_connected(s) =
          IF ~s.enabled THEN s ELSE IF is_disconnected(r) THEN do_signon_account(r) ELSE r
    BY Zenon DEF pidgin_network_connected
  <1> HIDE DEF r
  <1>4. Pursued(r)
    BY <1>2 DEF Pursued, is_disconnected
  <1>5. ~is_disconnected(r) => OnTheWay(r)
    BY <1>2 DEF OnTheWay
  <1>6. /\ Pursued(do_signon_account(r))
        /\ Wants(do_signon_account(r)) => OnTheWay(do_signon_account(r))
    BY <1>1, <1>2, <1>4, SignonOnTheWay DEF Wants
  <1> QED BY <1>3, <1>4, <1>5, <1>6 DEF Wants

\* An error disables the account, or has it wait for the next attempt.
LEMMA ErrorOnTheWay ==
    ASSUME NEW s, Sound(s), Pursued(s), ~is_disconnected(s), NEW fatal \in BOOLEAN,
           NEW initial \in InitialDelay
    PROVE  LET t == error_reason(s, fatal, initial)
           IN  t = s \/ (Pursued(t) /\ (t.enabled => t.timeout))
  <1>0. s.delay \in 0..MAX_RECON_DELAY /\ 0 \in 0..MAX_RECON_DELAY
    BY DelayAssumption DEF Sound, AccountState
  <1>1. CASE s.disconnect_timeout
    BY <1>1, Zenon DEF error_reason
  <1>2. CASE ~s.disconnect_timeout
    <2> DEFINE w == [s EXCEPT !.wants_to_die = fatal]
               r == report_disconnect_reason(w, fatal, initial)
               e == set_current_error(r, IF fatal THEN "fatal" ELSE "transient")
               t == [e EXCEPT !.disconnect_timeout = TRUE]
    <2>1. error_reason(s, fatal, initial) = t
      BY <1>2, Zenon DEF error_reason
    <2>2. /\ w \in AccountState
          /\ w.state = s.state /\ w.wants_to_die = fatal /\ w.registers = s.registers
          /\ w.enabled = s.enabled /\ w.delay = s.delay
      BY DEF Sound, AccountState
    <2>3. r = IF fatal THEN account_set_enabled(remove_auto_recon(w), FALSE)
              ELSE WaitLonger(w, IF w.delay = 0 THEN initial
                                 ELSE Lesser(2 * w.delay, MAX_RECON_DELAY))
      BY Zenon DEF report_disconnect_reason
    <2> HIDE DEF w, r
    <2>3a. s.enabled
      BY <1>2 DEF Pursued, Sound, Connected, Doomed
    <2>4. /\ r \in AccountState
          /\ r.state = s.state /\ ~r.registers
          /\ IF fatal THEN ~r.enabled /\ r.wants_to_die ELSE r.enabled /\ r.timeout
      <3>1. CASE fatal
        <4> DEFINE g == remove_auto_recon(w)
                   d == [g EXCEPT !.enabled = FALSE, !.save = TRUE]
        <4>1. /\ g \in AccountState
              /\ g.state = s.state /\ g.wants_to_die /\ g.registers = s.registers
          BY <1>0, <2>2, <3>1 DEF AccountState, remove_auto_recon
        <4> HIDE DEF g
        <4>2. /\ d \in AccountState
              /\ d.state = g.state /\ d.wants_to_die = g.wants_to_die
              /\ d.registers = g.registers /\ d.enabled = FALSE
          BY <4>1 DEF AccountState
        <4>3. account_set_enabled(g, FALSE) =
                IF ~is_disconnected(d) /\ d.wants_to_die THEN d ELSE account_disconnect(d)
          BY Zenon DEF account_set_enabled
        <4> HIDE DEF d
        <4>4. account_set_enabled(g, FALSE) = d
          BY <4>1, <4>2, <4>3 DEF is_disconnected
        <4> QED BY <2>3, <3>1, <4>1, <4>2, <4>4 DEF g, Pursued
      <3>2. CASE ~fatal
        <4> DEFINE next == IF w.delay = 0 THEN initial ELSE Lesser(2 * w.delay, MAX_RECON_DELAY)
        <4>1. next \in 0..MAX_RECON_DELAY
          BY <1>0, <2>2, DelaysInRange
        <4>2. r = WaitLonger(w, next)
          BY <2>3, <3>2
        <4> HIDE DEF next
        <4>3. /\ r \in AccountState /\ r.state = w.state /\ r.registers = w.registers
              /\ r.enabled = w.enabled /\ r.timeout
          BY <2>2, <4>1, <4>2 DEF WaitLonger, AccountState
        <4> QED BY <2>2, <2>3a, <3>2, <4>3 DEF Pursued
      <3> QED BY <3>1, <3>2
    <2>5. /\ e \in AccountState
          /\ e.state = r.state /\ e.wants_to_die = r.wants_to_die /\ e.registers = r.registers
          /\ e.enabled = r.enabled /\ e.timeout = r.timeout
      BY <2>4, SetCurrentError, Zenon
    <2> HIDE DEF e
    <2>6. /\ t.state = e.state /\ t.wants_to_die = e.wants_to_die /\ t.registers = e.registers
          /\ t.enabled = e.enabled /\ t.timeout = e.timeout
      BY <2>5 DEF AccountState
    <2> HIDE DEF t
    <2> QED BY <2>1, <2>4, <2>5, <2>6 DEF Pursued
  <1> QED BY <1>1, <1>2

\* A step of one account.
LEMMA OneOnTheWay ==
    ASSUME IInv, NobodyStranded, NEW a \in Account, NEW t, Becomes(a, t), Pursued(t),
           (Reached /\ Wants(t)) => OnTheWay(t)
    PROVE  NobodyStranded'
  <1>1. /\ \A b \in Account : acct'[b] = IF b = a THEN t ELSE acct[b]
        /\ nm_state' = nm_state
    BY DEF IInv, Becomes
  <1> QED BY <1>1 DEF NobodyStranded, Reached

\* What the protocol reports, and the timers.
LEMMA LoopOnTheWay ==
    ASSUME IInv, NobodyStranded, Untroubled, NEW a \in Account,
           \/ \E fatal \in BOOLEAN : connection_error_reason(a, fatal)
           \/ set_state_connected(a) \/ RegistrationEnds(a)
           \/ connection_disconnect_cb(a) \/ do_signon(a)
    PROVE  NobodyStranded'
  <1> DEFINE s == acct[a]
  <1>0. /\ Sound(s) /\ s \in AccountState /\ Pursued(s)
        /\ Reached /\ Wants(s) => OnTheWay(s)
    BY DEF IInv, Sound, NobodyStranded
  <1>1. CASE \E fatal \in BOOLEAN : connection_error_reason(a, fatal)
    <2>1. PICK fatal \in BOOLEAN, initial \in InitialDelay :
             ~is_disconnected(s) /\ Becomes(a, error_reason(s, fatal, initial))
      BY <1>1 DEF connection_error_reason
    <2> DEFINE t == error_reason(s, fatal, initial)
    <2>2. t = s \/ (Pursued(t) /\ (t.enabled => t.timeout))
      BY <1>0, <2>1, ErrorOnTheWay
    <2> HIDE DEF t
    <2>3. Becomes(a, t)
      BY <2>1 DEF t
    <2> QED BY <1>0, <2>2, <2>3, OneOnTheWay DEF Wants, OnTheWay
  <1>2. CASE set_state_connected(a)
    <2> DEFINE c == [s EXCEPT !.state = "connected"]
               r == remove_auto_recon(c)
               t == set_current_error(r, "none")
    <2>1. s.state = "connecting" /\ ~s.disconnect_timeout /\ Becomes(a, t)
      BY <1>2 DEF set_state_connected, Untroubled
    <2>2. /\ c \in AccountState
          /\ c.state = "connected" /\ c.wants_to_die = s.wants_to_die
          /\ c.registers = s.registers /\ c.disconnect_timeout = s.disconnect_timeout
          /\ c.enabled = s.enabled
      BY <1>0 DEF AccountState
    <2> HIDE DEF c, s
    <2>3. 0 \in 0..MAX_RECON_DELAY
      BY DelayAssumption
    <2>4. /\ r \in AccountState
          /\ r.state = c.state /\ r.wants_to_die = c.wants_to_die
          /\ r.registers = c.registers /\ r.disconnect_timeout = c.disconnect_timeout
          /\ r.enabled = c.enabled
      BY <2>2, <2>3 DEF AccountState, remove_auto_recon
    <2> HIDE DEF r
    <2>5. /\ t.state = r.state /\ t.wants_to_die = r.wants_to_die
          /\ t.registers = r.registers /\ t.disconnect_timeout = r.disconnect_timeout
          /\ t.enabled = r.enabled
      BY <2>4, SetCurrentError, Zenon
    <2> HIDE DEF t
    <2>6. Pursued(t) /\ OnTheWay(t)
      BY <1>0, <2>1, <2>2, <2>4, <2>5 DEF Pursued, OnTheWay, is_disconnected
    <2> QED BY <2>1, <2>6, OneOnTheWay
  <1>3. CASE RegistrationEnds(a)
    BY <1>0, <1>3 DEF RegistrationEnds, Pursued
  <1>4. CASE connection_disconnect_cb(a)
    <2> DEFINE c == [s EXCEPT !.disconnect_timeout = FALSE]
               t == disconnect_keeping_password(c)
    <2>1. Becomes(a, t) /\ s.disconnect_timeout
      BY <1>4 DEF connection_disconnect_cb
    <2>2. /\ c \in AccountState /\ c.registers = s.registers /\ ~c.disconnect_timeout
          /\ c.exists = s.exists /\ c.enabled = s.enabled /\ c.online = s.online
          /\ c.prompt = s.prompt /\ c.timeout = s.timeout
      BY <1>0 DEF AccountState
    <2> HIDE DEF c, s
    <2>3. /\ is_disconnected(t) /\ ~t.registers /\ ~t.disconnect_timeout
          /\ t.exists = c.exists /\ t.enabled = c.enabled /\ t.online = c.online
          /\ t.prompt = c.prompt /\ t.timeout = c.timeout
      BY <1>0, <2>2, KeepingPasswordAlike DEF Pursued
    <2> HIDE DEF t
    <2> QED BY <1>0, <2>1, <2>2, <2>3, OneOnTheWay DEF Pursued, Wants, OnTheWay
  <1>5. CASE do_signon(a)
    <2>1. ~s.disconnect_timeout /\ Becomes(a, do_signon_account(s))
      BY <1>5 DEF do_signon, Untroubled
    <2> DEFINE t == do_signon_account(s)
    <2>2. Pursued(t) /\ t.enabled = s.enabled /\ t.online = s.online
          /\ (s.enabled /\ s.online => OnTheWay(t))
      BY <1>0, <2>1, SignonOnTheWay
    <2> QED BY <2>1, <2>2, OneOnTheWay DEF Wants
  <1> QED BY <1>1, <1>2, <1>3, <1>4, <1>5

\* What the user does.
LEMMA UserOnTheWay ==
    ASSUME IInv, NobodyStranded, Untroubled, NEW a \in Account,
           \/ accounts_add(a) \/ accounts_delete(a)
           \/ \E value \in BOOLEAN : set_enabled(a, value)
           \/ Reconnect(a) \/ clear_current_error(a) \/ account_register(a)
    PROVE  NobodyStranded'
  <1> DEFINE s == acct[a]
  <1>0. /\ Sound(s) /\ s \in AccountState /\ Pursued(s)
        /\ (Reached /\ Wants(s) => OnTheWay(s))
    BY DEF IInv, Sound, NobodyStranded
  <1>1. CASE accounts_add(a)
    <2>1. PICK known \in BOOLEAN, remember \in BOOLEAN :
             Becomes(a, [parse_account([Nobody EXCEPT !.exists = TRUE, !.online = TRUE])
                            EXCEPT !.password = known, !.remember = remember])
      BY <1>1 DEF accounts_add
    <2> DEFINE d == [Nobody EXCEPT !.exists = TRUE, !.online = TRUE]
               t == [parse_account(d) EXCEPT !.password = known, !.remember = remember]
    <2>2. d.enabled = FALSE
      BY DEF Nobody
    <2>3. Becomes(a, t)
      BY <2>1
    <2> HIDE DEF d
    <2>4. t.state = "disconnected" /\ ~t.registers /\ ~t.disconnect_timeout /\ ~t.enabled
      BY <2>2 DEF parse_account
    <2> HIDE DEF t
    <2> QED BY <2>3, <2>4, OneOnTheWay DEF Pursued, Wants, is_disconnected
  <1>2. CASE accounts_delete(a)
    <2> DEFINE e == account_set_enabled(s, FALSE)
               n == parse_account(Nobody)
               t == [n EXCEPT !.save = TRUE, !.state = e.state,
                              !.wants_to_die = e.wants_to_die, !.registers = e.registers,
                              !.disconnect_timeout = e.disconnect_timeout]
    <2>1. Becomes(a, t)
      BY <1>2, Zenon DEF accounts_delete
    <2>2. Pursued(e) /\ e.enabled = FALSE
      BY <1>0, EnableOnTheWay
    <2> HIDE DEF e
    <2>3. /\ t.state = e.state /\ t.wants_to_die = e.wants_to_die
          /\ t.registers = e.registers /\ ~t.enabled
      BY DEF parse_account, Nobody
    <2> HIDE DEF t
    <2> QED BY <2>1, <2>2, <2>3, OneOnTheWay DEF Pursued, Wants, is_disconnected
  <1>3. ASSUME NEW value \in BOOLEAN, set_enabled(a, value)
        PROVE  NobodyStranded'
    <2> DEFINE t == account_set_enabled(s, value)
    <2>1. Becomes(a, t) /\ (value => s.exists /\ ~Doomed(s))
      BY <1>3 DEF set_enabled, Untroubled
    <2>2. /\ Pursued(t) /\ t.enabled = value
          /\ t.exists = s.exists /\ t.online = s.online
          /\ (value /\ s.online /\ (s.enabled => OnTheWay(s)) => OnTheWay(t))
      BY <1>0, <2>1, EnableOnTheWay
    <2> HIDE DEF t
    <2> QED BY <1>0, <2>1, <2>2, OneOnTheWay DEF Wants
  <1>4. CASE Reconnect(a)
    <2> DEFINE t == account_connect(s)
    <2>1. Becomes(a, t) /\ Follows(s, t)
      BY <1>0, <1>4, ConnectOnTheWay DEF Reconnect
    <2> HIDE DEF t
    <2> QED BY <1>0, <2>1, OneOnTheWay DEF Follows, Wants
  <1>5. CASE clear_current_error(a)
    <2> DEFINE t == set_current_error(s, "none")
    <2>1. Becomes(a, t)
      BY <1>5 DEF clear_current_error
    <2>2. Alike(s, t)
      BY <1>0 DEF AccountState, set_current_error, Alike
    <2> HIDE DEF t
    <2> QED BY <1>0, <2>1, <2>2, OneOnTheWay
            DEF Alike, Pursued, Wants, OnTheWay, is_disconnected
  <1>6. CASE account_register(a)
    BY <1>6 DEF account_register, Untroubled
  <1> QED BY <1>1, <1>2, <1>3, <1>4, <1>5, <1>6

\* The answers to the question for the password.
LEMMA PasswordOnTheWay ==
    ASSUME IInv, NobodyStranded, Untroubled, NEW a \in Account,
           request_password_ok(a) \/ request_password_cancel(a)
    PROVE  NobodyStranded'
  <1> DEFINE s == acct[a]
  <1>0. /\ Sound(s) /\ s \in AccountState /\ Pursued(s)
        /\ (Reached /\ Wants(s) => OnTheWay(s))
    BY DEF IInv, Sound, NobodyStranded
  <1>1. CASE request_password_ok(a)
    <2>1. PICK remember \in BOOLEAN :
             Becomes(a, connection_new(set_password([s EXCEPT !.prompt = FALSE,
                           !.remember = @ \/ remember], TRUE), FALSE, TRUE))
      BY <1>1, Zenon DEF request_password_ok
    <2> DEFINE c == [s EXCEPT !.prompt = FALSE, !.remember = @ \/ remember]
               p == set_password(c, TRUE)
               t == connection_new(p, FALSE, TRUE)
    <2>2. s.enabled /\ Becomes(a, t)
      BY <1>1, <2>1 DEF request_password_ok, Untroubled
    <2>3. /\ c \in AccountState /\ ~c.prompt
          /\ c.exists = s.exists /\ c.enabled = s.enabled /\ c.online = s.online
          /\ c.state = s.state /\ c.wants_to_die = s.wants_to_die
          /\ c.registers = s.registers
          /\ c.disconnect_timeout = s.disconnect_timeout /\ c.timeout = s.timeout
      BY <1>0 DEF AccountState
    <2> HIDE DEF c, s
    <2>4. Sound(c)
      BY <1>0, <2>3 DEF Sound, Connected, Deleted, Permitted, Doomed, is_disconnected
    <2>5. Sound(p)
      BY <2>3, <2>4, SetPassword DEF Steps
    <2>6. Alike(c, p)
      BY <2>3 DEF AccountState, set_password, Alike
    <2> HIDE DEF p
    <2>7. Pursued(p) /\ p.enabled
      BY <1>0, <2>2, <2>3, <2>6 DEF Alike, Pursued, is_disconnected
    <2>8. Follows(p, t) /\ (is_disconnected(p) => OnTheWay(t))
      BY <2>5, <2>7, NewOnTheWay
    <2>9. ~is_disconnected(p) => OnTheWay(p)
      BY <2>7 DEF Pursued, OnTheWay
    <2> HIDE DEF t
    <2>10. Pursued(t) /\ OnTheWay(t)
      BY <2>7, <2>8, <2>9 DEF Follows
    <2> QED BY <2>2, <2>10, OneOnTheWay
  <1>2. CASE request_password_cancel(a)
    <2> DEFINE c == [s EXCEPT !.prompt = FALSE]  t == account_set_enabled(c, FALSE)
    <2>1. Becomes(a, t)
      BY <1>2, Zenon DEF request_password_cancel
    <2>2. /\ c \in AccountState /\ ~c.prompt
          /\ c.exists = s.exists /\ c.enabled = s.enabled
          /\ c.state = s.state /\ c.wants_to_die = s.wants_to_die
          /\ c.registers = s.registers
          /\ c.disconnect_timeout = s.disconnect_timeout /\ c.timeout = s.timeout
      BY <1>0 DEF AccountState
    <2> HIDE DEF c, s
    <2>3. Sound(c) /\ Pursued(c)
      BY <1>0, <2>2
      DEF Sound, Connected, Deleted, Permitted, Pursued, Doomed, is_disconnected
    <2>4. Pursued(t) /\ t.enabled = FALSE
      BY <2>3, EnableOnTheWay
    <2> HIDE DEF t
    <2> QED BY <2>1, <2>4, OneOnTheWay DEF Wants
  <1> QED BY <1>1, <1>2

\* Another status is chosen.
LEMMA StatusOnTheWay ==
    ASSUME IInv, NobodyStranded, Untroubled, NEW a \in Account, NEW online \in BOOLEAN,
           change_account_status(a, online)
    PROVE  NobodyStranded'
  <1> DEFINE s == [acct[a] EXCEPT !.online = online, !.save = TRUE]
             t == IF ~s.enabled THEN s
                  ELSE IF online
                  THEN IF is_disconnected(s) /\ network_is_available
                       THEN account_connect(s) ELSE s
                  ELSE IF ~is_disconnected(s) THEN account_disconnect(s)
                  ELSE IF s.remember THEN s ELSE set_password(s, FALSE)
  <1>0. /\ Sound(acct[a]) /\ acct[a] \in AccountState /\ Pursued(acct[a])
    BY DEF IInv, Sound, NobodyStranded
  <1>1. Becomes(a, t)
    BY Zenon DEF change_account_status
  <1>2. /\ s \in AccountState /\ s.online = online
        /\ s.exists = acct[a].exists /\ s.enabled = acct[a].enabled
        /\ s.state = acct[a].state /\ s.wants_to_die = acct[a].wants_to_die
        /\ s.registers = acct[a].registers
        /\ s.disconnect_timeout = acct[a].disconnect_timeout
        /\ s.timeout = acct[a].timeout /\ s.prompt = acct[a].prompt
    BY <1>0 DEF AccountState
  <1> HIDE DEF s
  <1>3. Sound(s) /\ Pursued(s)
    BY <1>0, <1>2
    DEF Sound, Connected, Deleted, Permitted, Pursued, Doomed, is_disconnected
  <1>4. Reached => network_is_available
    BY DEF Reached, network_is_available
  <1>5. CASE ~s.enabled
    <2>1. t = s
      BY <1>5, Zenon
    <2> HIDE DEF t
    <2> QED BY <1>1, <1>3, <1>5, <2>1, OneOnTheWay DEF Wants
  <1>6. CASE s.enabled /\ online
    <2>1. t = IF is_disconnected(s) /\ network_is_available THEN account_connect(s) ELSE s
      BY <1>6, Zenon
    <2>2. /\ Pursued(account_connect(s))
          /\ is_disconnected(s) => OnTheWay(account_connect(s))
      BY <1>3, <1>6, ConnectOnTheWay DEF Follows
    <2>3. ~is_disconnected(s) => OnTheWay(s)
      BY <1>3, <1>6 DEF Pursued, OnTheWay
    <2> HIDE DEF t
    <2> QED BY <1>1, <1>3, <1>4, <2>1, <2>2, <2>3, OneOnTheWay
  <1>7. CASE s.enabled /\ ~online
    <2>1. t \in {account_disconnect(s), s, set_password(s, FALSE)}
      BY <1>7, Zenon
    <2>2. /\ Pursued(account_disconnect(s))
          /\ ~Wants(account_disconnect(s))
      <3> DEFINE d == account_disconnect(s)
      <3>1. /\ is_disconnected(d) /\ ~d.registers
            /\ d.online = s.online /\ d.enabled = s.enabled /\ d.timeout = s.timeout
            /\ ~s.disconnect_timeout => ~d.disconnect_timeout
        BY <1>3, DisconnectAlike DEF Sound, Pursued
      <3> HIDE DEF d
      <3> QED BY <1>2, <1>3, <1>7, <3>1 DEF Pursued, Wants, d
    <2>3. Alike(s, set_password(s, FALSE))
      BY <1>2 DEF AccountState, set_password, Alike
    <2>4. Pursued(set_password(s, FALSE)) /\ ~Wants(set_password(s, FALSE))
      BY <1>2, <1>3, <1>7, <2>3 DEF Alike, Pursued, Wants, is_disconnected
    <2>5. ~Wants(s)
      BY <1>2, <1>7 DEF Wants
    <2> HIDE DEF t
    <2> QED BY <1>1, <1>3, <2>1, <2>2, <2>4, <2>5, OneOnTheWay
  <1> QED BY <1>5, <1>6, <1>7

\* The network comes, goes or changes.
LEMMA NetworkChangeOnTheWay ==
    ASSUME IInv, NobodyStranded, Untroubled, NEW st \in NmState, nm_update_state(st)
    PROVE  NobodyStranded'
  <1>0. \A a \in Account : /\ Sound(acct[a]) /\ acct[a] \in AccountState
                           /\ Pursued(acct[a]) /\ ~acct[a].disconnect_timeout
    BY DEF IInv, Sound, NobodyStranded, nm_update_state, Untroubled
  <1>1. nm_state' = st
    BY DEF nm_update_state
  <1>2. CASE st \in {"limited", "connected"}
    <2>1. acct' = [a \in Account |-> pidgin_network_connected(acct[a])]
      BY <1>2 DEF nm_update_state
    <2>2. \A a \in Account : acct'[a] = pidgin_network_connected(acct[a])
      BY <2>1
    <2>3. \A a \in Account : Pursued(acct'[a]) /\ (Wants(acct'[a]) => OnTheWay(acct'[a]))
      BY <1>0, <2>2, NetworkOnTheWay
    <2> QED BY <2>3 DEF NobodyStranded
  <1>3. CASE st = "disconnected" /\ nm_state \in {"connected", "unknown"}
    <2>1. acct' = [a \in Account |-> pidgin_network_disconnected(acct[a])]
      BY <1>3, Zenon DEF nm_update_state
    <2>2. ASSUME NEW a \in Account
          PROVE  Pursued(acct'[a])
      <3> DEFINE s == acct[a]  d == disconnect_keeping_password(s)
      <3>1. acct'[a] \in {s, d}
        BY <2>1 DEF pidgin_network_disconnected
      <3>2. Pursued(s) /\ s \in AccountState /\ ~s.disconnect_timeout
        BY <1>0
      <3>3. is_disconnected(d) /\ ~d.registers /\ ~d.disconnect_timeout
        BY <3>2, KeepingPasswordAlike DEF Pursued
      <3> HIDE DEF s, d
      <3> QED BY <3>1, <3>2, <3>3 DEF Pursued
    <2> QED BY <1>1, <1>3, <2>2 DEF NobodyStranded, Reached
  <1>4. CASE /\ st \notin {"limited", "connected"}
             /\ ~(st = "disconnected" /\ nm_state \in {"connected", "unknown"})
    <2>1. acct' = acct
      BY <1>4, Zenon DEF nm_update_state
    <2> QED BY <1>0, <1>1, <1>4, <2>1 DEF NobodyStranded, Reached
  <1> QED BY <1>2, <1>3, <1>4

\* Saving changes no account, and a start signs on what is wanted.
LEMMA RestartOnTheWay ==
    ASSUME IInv, NobodyStranded, save_cb \/ Quit \/ Crash
    PROVE  NobodyStranded'
  <1>0. nm_state' = nm_state
    BY DEF save_cb, Quit, Crash
  <1>1. CASE save_cb
    <2>1. \A a \in Account : acct'[a] = [acct[a] EXCEPT !.save = FALSE]
      BY <1>1 DEF save_cb
    <2>2. ASSUME NEW a \in Account
          PROVE  Alike(acct[a], acct'[a])
      <3>1. acct[a] \in AccountState
        BY DEF IInv
      <3> QED BY <2>1, <3>1 DEF AccountState, Alike
    <2> QED BY <1>0, <2>2
            DEF NobodyStranded, Reached, Alike, Pursued, Wants, OnTheWay, is_disconnected
  <1>2. CASE Quit \/ Crash
    <2>0. IInv' /\ Start(disk')
      <3>1. IInv'
        BY <1>2, RestartSteps
      <3> QED BY <1>2, <3>1 DEF Quit, Crash
    <2> SUFFICES ASSUME NEW a \in Account
                 PROVE  /\ Pursued(acct'[a])
                        /\ Reached /\ Wants(acct'[a]) => OnTheWay(acct'[a])
      BY <1>0 DEF NobodyStranded, Reached
    <2> DEFINE p == parse_account(disk'[a])
    <2>1. acct'[a] = IF network_is_available /\ p.online THEN account_connect(p) ELSE p
      BY <2>0, Zenon DEF Start
    <2>2. Sound(p)
      BY <2>0, Loading DEF IInv
    <2>3. p.state = "disconnected" /\ ~p.registers /\ ~p.disconnect_timeout
      BY DEF parse_account
    <2> HIDE DEF p
    <2>4. Pursued(p)
      BY <2>3 DEF Pursued, is_disconnected
    <2>5. /\ Follows(p, account_connect(p))
          /\ p.enabled => OnTheWay(account_connect(p))
      BY <2>2, <2>3, <2>4, ConnectOnTheWay DEF is_disconnected
    <2>6. Reached => network_is_available
      BY DEF Reached, network_is_available
    <2> QED BY <2>1, <2>4, <2>5, <2>6 DEF Follows, Wants
  <1> QED BY <1>1, <1>2

\* An account that the user wants online is online, signing on, waiting for its
\* password or for its next attempt whenever the network works, whatever errors
\* were reported, and across restarts; the situations of Untroubled excepted.
THEOREM WantedAccountsPursued ==
    ASSUME Untroubled
    PROVE  Spec => []WantedIsOnTheWay
  <1>1. Init => NobodyStranded
    <2> SUFFICES ASSUME Init PROVE NobodyStranded
      OBVIOUS
    <2>1. ASSUME NEW a \in Account
          PROVE  Pursued(acct[a]) /\ ~Wants(acct[a])
      <3>1. acct[a] = parse_account(Nobody)
        BY DEF Init
      <3>2. /\ acct[a].state = "disconnected" /\ ~acct[a].registers
            /\ ~acct[a].disconnect_timeout /\ ~acct[a].enabled
        BY <3>1 DEF parse_account, Nobody
      <3> QED BY <3>2 DEF Pursued, Wants, is_disconnected
    <2> QED BY <2>1 DEF NobodyStranded
  <1>2. IInv /\ NobodyStranded /\ [Next]_vars => NobodyStranded'
    <2> SUFFICES ASSUME IInv, NobodyStranded, [Next]_vars
                 PROVE  NobodyStranded'
      OBVIOUS
    <2>1. CASE UNCHANGED vars
      BY <2>1 DEF vars, NobodyStranded, Reached
    <2>2. CASE Next
      BY <2>2, LoopOnTheWay, UserOnTheWay, PasswordOnTheWay, StatusOnTheWay,
         NetworkChangeOnTheWay, RestartOnTheWay DEF Next
    <2> QED BY <2>1, <2>2
  <1>3. NobodyStranded => WantedIsOnTheWay
    BY DEF NobodyStranded, WantedIsOnTheWay, Wanted, Wants, Reached
  <1> QED BY <1>1, <1>2, <1>3, InductiveInvariant, PTL DEF Spec

-----------------------------------------------------------------------------
(* Passwords that are not remembered.                                      *)

\* A connection that reported an error waits for its timer.
Pending(s) == s \in AccountState /\ s.disconnect_timeout /\ ~is_disconnected(s)

\* What a step may do to the password of such a connection's account.
Keeps(s, t) ==
    s.disconnect_timeout /\ ~t.disconnect_timeout /\ ~s.registers
       /\ t.exists /\ t.enabled /\ t.online
    => t.password = s.password

\* Nothing connects an account that has a connection, and signing it on leaves
\* the timer of the connection alone.
LEMMA PendingConnects ==
    ASSUME NEW s, Pending(s)
    PROVE  /\ Pending(account_connect(s))
           /\ \A regist, known \in BOOLEAN : connection_new(s, regist, known) = s
  <1>1. \A regist, known \in BOOLEAN : connection_new(s, regist, known) = s
    BY Zenon DEF Pending, connection_new
  <1>2. account_connect(s) \in {s, [s EXCEPT !.prompt = TRUE]}
    BY <1>1, Zenon DEF account_connect
  <1>3. Pending([s EXCEPT !.prompt = TRUE])
    <2> DEFINE t == [s EXCEPT !.prompt = TRUE]
    <2>1. /\ t \in AccountState
          /\ t.disconnect_timeout = s.disconnect_timeout /\ t.state = s.state
      BY DEF Pending, AccountState
    <2> HIDE DEF t
    <2>2. Pending(t)
      BY <2>1 DEF Pending, is_disconnected
    <2> QED BY <2>2 DEF t
  <1> QED BY <1>1, <1>2, <1>3

\* purple_connection_disconnect_cb and gtkconn.c restore what they took.
LEMMA PasswordRestored ==
    ASSUME NEW s \in AccountState
    PROVE  disconnect_keeping_password(s).password = s.password
  <1> DEFINE d == account_disconnect(s)
  <1>1. d \in AccountState
    <2>1. connection_destroy(s) \in AccountState
      BY ConnectionDestroy
    <2>2. set_password(connection_destroy(s), FALSE) \in AccountState
      BY <2>1, SetPassword
    <2> QED BY <2>1, <2>2 DEF account_disconnect
  <1> HIDE DEF d
  <1>2. set_password(d, s.password).password = s.password
    BY <1>1 DEF set_password, AccountState
  <1> QED BY <1>2 DEF disconnect_keeping_password, d

\* The network's return and loss.
LEMMA NetworkKeeps ==
    ASSUME NEW s, Pending(s)
    PROVE  /\ Keeps(s, pidgin_network_connected(s))
           /\ Keeps(s, pidgin_network_disconnected(s))
  <1>1. Keeps(s, pidgin_network_disconnected(s))
    BY PasswordRestored DEF Pending, Keeps, pidgin_network_disconnected
  <1> DEFINE r == remove_auto_recon(s)
  <1>2. r.disconnect_timeout = s.disconnect_timeout /\ r.state = s.state
    BY DEF Pending, AccountState, remove_auto_recon
  <1>3. pidgin_network_connected(s) =
          IF ~s.enabled THEN s ELSE IF is_disconnected(r) THEN do_signon_account(r) ELSE r
    BY Zenon DEF pidgin_network_connected
  <1> HIDE DEF r
  <1>4. pidgin_network_connected(s) \in {s, r}
    BY <1>2, <1>3 DEF Pending, is_disconnected
  <1>5. Keeps(s, pidgin_network_connected(s))
    BY <1>2, <1>4 DEF Keeps
  <1> QED BY <1>1, <1>5

\* The protocol and the timers.
LEMMA LoopKeeps ==
    ASSUME NEW a \in Account, Pending(acct[a]), acct \in [Account -> AccountState],
           \/ \E fatal \in BOOLEAN : connection_error_reason(a, fatal)
           \/ set_state_connected(a) \/ RegistrationEnds(a)
           \/ connection_disconnect_cb(a) \/ do_signon(a)
    PROVE  Keeps(acct[a], acct'[a])
  <1> DEFINE s == acct[a]
  <1>0. /\ s \in AccountState /\ s.disconnect_timeout
        /\ \A t : Becomes(a, t) => acct'[a] = t
    BY DEF Pending, Becomes
  <1>1. ASSUME NEW fatal \in BOOLEAN, connection_error_reason(a, fatal)
        PROVE  Keeps(s, acct'[a])
    <2>1. PICK initial \in InitialDelay : Becomes(a, error_reason(s, fatal, initial))
      BY <1>1 DEF connection_error_reason
    <2>2. acct'[a] = s
      BY <1>0, <2>1, Zenon DEF error_reason
    <2> QED BY <2>2 DEF Keeps
  <1>2. CASE set_state_connected(a)
    <2> DEFINE c == [s EXCEPT !.state = "connected"]
               r == remove_auto_recon(c)
               t == set_current_error(r, "none")
    <2>1. acct'[a] = t
      BY <1>0, <1>2 DEF set_state_connected
    <2>2. c \in AccountState /\ c.disconnect_timeout = s.disconnect_timeout
      BY <1>0 DEF AccountState
    <2> HIDE DEF c
    <2>3. 0 \in 0..MAX_RECON_DELAY
      BY DelayAssumption
    <2>4. r \in AccountState /\ r.disconnect_timeout = c.disconnect_timeout
      BY <2>2, <2>3 DEF AccountState, remove_auto_recon
    <2> HIDE DEF r
    <2>5. t.disconnect_timeout = r.disconnect_timeout
      BY <2>4 DEF AccountState, set_current_error
    <2> HIDE DEF t
    <2> QED BY <2>1, <2>2, <2>4, <2>5 DEF Keeps
  <1>3. CASE RegistrationEnds(a)
    BY <1>3 DEF RegistrationEnds, Keeps
  <1>4. CASE connection_disconnect_cb(a)
    <2> DEFINE c == [s EXCEPT !.disconnect_timeout = FALSE]
    <2>1. acct'[a] = disconnect_keeping_password(c)
      BY <1>0, <1>4 DEF connection_disconnect_cb
    <2>2. c \in AccountState /\ c.password = s.password
      BY <1>0 DEF AccountState
    <2> HIDE DEF c
    <2> QED BY <2>1, <2>2, PasswordRestored DEF Keeps
  <1>5. CASE do_signon(a)
    <2> DEFINE c == [s EXCEPT !.timeout = FALSE]
    <2>1. acct'[a] = do_signon_account(s)
      BY <1>0, <1>5 DEF do_signon
    <2>2. c \in AccountState /\ c.disconnect_timeout = s.disconnect_timeout /\ c.state = s.state
      BY <1>0 DEF AccountState
    <2>3. do_signon_account(s) \in {c, account_connect(c)}
      BY Zenon DEF do_signon_account
    <2> HIDE DEF c
    <2>4. Pending(c)
      BY <2>2 DEF Pending, is_disconnected
    <2>5. Pending(account_connect(c))
      BY <2>4, PendingConnects
    <2> QED BY <2>1, <2>3, <2>4, <2>5 DEF Pending, Keeps
  <1> QED BY <1>1, <1>2, <1>3, <1>4, <1>5

\* The user, who may take the account offline, disable it or delete it.
LEMMA UserKeeps ==
    ASSUME NEW a \in Account, IInv, Pending(acct[a]),
           \/ accounts_add(a) \/ accounts_delete(a)
           \/ \E value \in BOOLEAN : set_enabled(a, value)
           \/ Reconnect(a) \/ clear_current_error(a) \/ account_register(a)
    PROVE  Keeps(acct[a], acct'[a])
  <1> DEFINE s == acct[a]
  <1>0. /\ Sound(s) /\ s \in AccountState /\ s.disconnect_timeout
        /\ \A t : Becomes(a, t) => acct'[a] = t
    BY DEF IInv, Pending, Becomes
  <1>1. CASE accounts_add(a)
    BY <1>1 DEF accounts_add, Pending
  <1>2. CASE accounts_delete(a)
    <2> DEFINE e == account_set_enabled(s, FALSE)
               n == parse_account(Nobody)
               t == [n EXCEPT !.save = TRUE, !.state = e.state,
                              !.wants_to_die = e.wants_to_die, !.registers = e.registers,
                              !.disconnect_timeout = e.disconnect_timeout]
    <2>1. acct'[a] = t
      BY <1>0, <1>2, Zenon DEF accounts_delete
    <2> HIDE DEF e
    <2>2. ~t.exists
      BY DEF parse_account, Nobody
    <2> HIDE DEF t
    <2> QED BY <2>1, <2>2 DEF Keeps
  <1>3. ASSUME NEW value \in BOOLEAN, set_enabled(a, value)
        PROVE  Keeps(s, acct'[a])
    <2> DEFINE t == account_set_enabled(s, value)
    <2>1. acct'[a] = t /\ s.exists
      BY <1>0, <1>3 DEF set_enabled
    <2>2. t.enabled = value
      BY <1>0, <2>1, SetEnabled
    <2>3. CASE ~value
      BY <2>1, <2>2, <2>3 DEF Keeps
    <2>4. CASE value
      <3> DEFINE e == [s EXCEPT !.enabled = TRUE, !.save = TRUE]
      <3>1. e \in AccountState /\ e.disconnect_timeout = s.disconnect_timeout /\ e.state = s.state
        BY <1>0 DEF AccountState
      <3>2. t \in {e, account_connect(e)}
        BY <2>4, Zenon DEF account_set_enabled
      <3> HIDE DEF e, t
      <3>3. Pending(e)
        BY <3>1 DEF Pending, is_disconnected
      <3>4. Pending(account_connect(e))
        BY <3>3, PendingConnects
      <3> QED BY <2>1, <3>2, <3>3, <3>4 DEF Pending, Keeps
    <2> QED BY <2>3, <2>4
  <1>4. CASE Reconnect(a)
    <2>1. acct'[a] = account_connect(s)
      BY <1>0, <1>4 DEF Reconnect
    <2>2. Pending(account_connect(s))
      BY PendingConnects
    <2> QED BY <2>1, <2>2 DEF Pending, Keeps
  <1>5. CASE clear_current_error(a)
    <2>1. acct'[a] = set_current_error(s, "none")
      BY <1>0, <1>5 DEF clear_current_error
    <2>2. set_current_error(s, "none").disconnect_timeout = s.disconnect_timeout
      BY <1>0 DEF AccountState, set_current_error
    <2> QED BY <2>1, <2>2 DEF Keeps
  <1>6. CASE account_register(a)
    <2>1. acct'[a] = connection_new(s, TRUE, s.password)
      BY <1>0, <1>6 DEF account_register
    <2>2. s.password \in BOOLEAN
      BY <1>0 DEF AccountState
    <2>3. acct'[a] = s
      BY <2>1, <2>2, PendingConnects
    <2> QED BY <2>3 DEF Keeps
  <1> QED BY <1>1, <1>2, <1>3, <1>4, <1>5, <1>6

\* The request for a password is answered while the timer runs.
LEMMA AnswerKeeps ==
    ASSUME NEW a \in Account, IInv, Pending(acct[a]),
           request_password_ok(a) \/ request_password_cancel(a)
    PROVE  Keeps(acct[a], acct'[a])
  <1> DEFINE s == acct[a]
  <1>0. /\ Sound(s) /\ s \in AccountState /\ s.disconnect_timeout
        /\ \A t : Becomes(a, t) => acct'[a] = t
    BY DEF IInv, Pending, Becomes
  <1>1. CASE request_password_ok(a)
    <2>1. PICK remember \in BOOLEAN :
             Becomes(a, connection_new(set_password([s EXCEPT !.prompt = FALSE,
                           !.remember = @ \/ remember], TRUE), FALSE, TRUE))
      BY <1>1, Zenon DEF request_password_ok
    <2> DEFINE c == [s EXCEPT !.prompt = FALSE, !.remember = @ \/ remember]
               p == set_password(c, TRUE)
    <2>2. acct'[a] = connection_new(p, FALSE, TRUE)
      BY <1>0, <2>1
    <2>3. c \in AccountState /\ c.disconnect_timeout = s.disconnect_timeout /\ c.state = s.state
      BY <1>0 DEF AccountState
    <2> HIDE DEF c
    <2>4. p \in AccountState /\ p.disconnect_timeout = c.disconnect_timeout /\ p.state = c.state
      BY <2>3 DEF AccountState, set_password
    <2> HIDE DEF p
    <2>5. Pending(p)
      BY <2>3, <2>4 DEF Pending, is_disconnected
    <2>6. acct'[a] = p
      BY <2>2, <2>5, PendingConnects
    <2> QED BY <2>5, <2>6 DEF Pending, Keeps
  <1>2. CASE request_password_cancel(a)
    <2> DEFINE c == [s EXCEPT !.prompt = FALSE]
    <2>1. acct'[a] = account_set_enabled(c, FALSE)
      BY <1>0, <1>2, Zenon DEF request_password_cancel
    <2>2. /\ c \in AccountState /\ ~c.prompt
          /\ c.exists = s.exists /\ c.enabled = s.enabled
          /\ c.state = s.state /\ c.wants_to_die = s.wants_to_die
          /\ c.registers = s.registers
          /\ c.disconnect_timeout = s.disconnect_timeout /\ c.timeout = s.timeout
      BY <1>0 DEF AccountState
    <2> HIDE DEF c, s
    <2>3. Sound(c)
      BY <1>0, <2>2 DEF Sound, Connected, Deleted, Permitted, Doomed, is_disconnected
    <2>4. account_set_enabled(c, FALSE).enabled = FALSE
      BY <2>3, SetEnabled
    <2> QED BY <2>1, <2>4 DEF Keeps, s
  <1> QED BY <1>1, <1>2

\* Another status is chosen: an account that stays online keeps its timer.
LEMMA StatusKeeps ==
    ASSUME NEW a \in Account, IInv, Pending(acct[a]), NEW online \in BOOLEAN,
           change_account_status(a, online)
    PROVE  Keeps(acct[a], acct'[a])
  <1> DEFINE s == [acct[a] EXCEPT !.online = online, !.save = TRUE]
             t == IF ~s.enabled THEN s
                  ELSE IF online
                  THEN IF is_disconnected(s) /\ network_is_available
                       THEN account_connect(s) ELSE s
                  ELSE IF ~is_disconnected(s) THEN account_disconnect(s)
                  ELSE IF s.remember THEN s ELSE set_password(s, FALSE)
  <1>0. Sound(acct[a]) /\ acct[a] \in AccountState
    BY DEF IInv, Pending
  <1>1. acct'[a] = t
    BY Zenon DEF change_account_status, Becomes, IInv
  <1>2. /\ s \in AccountState /\ s.online = online
        /\ s.state = acct[a].state /\ s.registers = acct[a].registers
        /\ s.disconnect_timeout = acct[a].disconnect_timeout
    BY <1>0 DEF AccountState
  <1> HIDE DEF s
  <1>3. Pending(s)
    BY <1>2 DEF Pending, is_disconnected
  <1>4. CASE ~s.enabled \/ online
    <2>1. t = s
      BY <1>3, <1>4 DEF Pending
    <2> HIDE DEF t
    <2> QED BY <1>1, <1>3, <2>1 DEF Pending, Keeps
  <1>5. CASE s.enabled /\ ~online
    <2>1. t = account_disconnect(s)
      BY <1>3, <1>5 DEF Pending
    <2>2. ~s.registers => account_disconnect(s).online = s.online
      BY <1>2, DisconnectAlike
    <2> HIDE DEF t
    <2> QED BY <1>1, <1>2, <1>5, <2>1, <2>2 DEF Keeps
  <1> QED BY <1>4, <1>5

\* A callback that is about one account.
Moves(a) ==
    \/ \E fatal \in BOOLEAN : connection_error_reason(a, fatal)
    \/ set_state_connected(a) \/ RegistrationEnds(a)
    \/ connection_disconnect_cb(a) \/ do_signon(a)
    \/ accounts_add(a) \/ accounts_delete(a)
    \/ \E value \in BOOLEAN : set_enabled(a, value)
    \/ Reconnect(a) \/ clear_current_error(a) \/ account_register(a)
    \/ request_password_ok(a) \/ request_password_cancel(a)
    \/ \E online \in BOOLEAN : change_account_status(a, online)

\* After an error, what is still enabled and online keeps its password when the
\* connection goes: neither the disconnection nor the network's loss nor what
\* else happens before the timer goes off takes a password that is not to be
\* remembered.  A restart does: accounts.xml does not have it.
THEOREM ErrorsSparePasswords ==
    ASSUME Events \cap {"quit", "crash"} = {}
    PROVE  Spec => ErrorsKeepPassword
  <1>1. IInv /\ [Next]_vars => [\A a \in Account : Keeps(acct[a], acct'[a])]_vars
    <2> SUFFICES ASSUME IInv, [Next]_vars, NEW a \in Account
                 PROVE  Keeps(acct[a], acct'[a])
      OBVIOUS
    <2>0. /\ Sound(acct[a]) /\ acct[a] \in AccountState
          /\ acct \in [Account -> AccountState]
      BY DEF IInv
    <2>1. CASE ~acct[a].disconnect_timeout
      BY <2>1 DEF Keeps
    <2>2. CASE acct'[a] = acct[a]
      BY <2>2 DEF Keeps
    <2>3. CASE acct[a].disconnect_timeout /\ acct'[a] # acct[a]
      <3>1. Pending(acct[a])
        BY <2>0, <2>3 DEF Pending, Sound, Connected
      <3>2. ~UNCHANGED vars /\ ~Quit /\ ~Crash
        BY <2>3 DEF vars, Quit, Crash
      <3>3. CASE \E st \in NmState : nm_update_state(st)
        <4>1. \/ acct'[a] = pidgin_network_connected(acct[a])
              \/ acct'[a] = pidgin_network_disconnected(acct[a])
          BY <2>3, <3>3, Zenon DEF nm_update_state
        <4> QED BY <3>1, <4>1, NetworkKeeps
      <3>4. CASE save_cb
        <4>1. acct'[a] = [acct[a] EXCEPT !.save = FALSE]
          BY <3>4 DEF save_cb
        <4>2. acct'[a].disconnect_timeout = acct[a].disconnect_timeout
          BY <2>0, <4>1 DEF AccountState
        <4> QED BY <4>2 DEF Keeps
      <3>5. ASSUME NEW b \in Account, b # a
            PROVE  \A t : ~Becomes(b, t)
        BY <2>0, <2>3, <3>5 DEF Becomes
      <3>6. \A b \in Account : Moves(b) => b = a
        BY <3>5, Zenon
        DEF Moves, connection_error_reason, set_state_connected, RegistrationEnds,
            connection_disconnect_cb, do_signon, accounts_add, accounts_delete,
            set_enabled, Reconnect, clear_current_error, account_register,
            request_password_ok, request_password_cancel, change_account_status
      <3>7. CASE Moves(a)
        BY <2>0, <3>1, <3>7, LoopKeeps, UserKeeps, AnswerKeeps, StatusKeeps DEF Moves
      <3>8. Moves(a) \/ (\E st \in NmState : nm_update_state(st)) \/ save_cb
        BY <3>2, <3>6 DEF Next, Moves
      <3> QED BY <3>3, <3>4, <3>7, <3>8
    <2> QED BY <2>1, <2>2, <2>3
  <1> QED BY <1>1, InductiveInvariant, PTL DEF Spec, ErrorsKeepPassword, Keeps
=============================================================================
