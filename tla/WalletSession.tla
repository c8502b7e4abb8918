---------------------------- MODULE WalletSession ----------------------------
(***************************************************************************)
(* The wallets on disk, the session of the one that is open, and the       *)
(* daemon behind it. qt_wallet_manager writes and reads three files of a   *)
(* wallet: the seed and the password of the daemon's RPC server, each      *)
(* encrypted with a key derived from the wallet's password, and a          *)
(* configuration with the suffix that asks for camouflage. login hands the *)
(* seed to kdf_service, which starts the daemon and a thread that waits for *)
(* it; logging out marks kdf_service, and the next tick stops the daemon,  *)
(* joins that thread and makes a new one.                                  *)
(*                                                                         *)
(* Abstracted: a key is the password it is derived from, and decrypting    *)
(* with another one is refused; a password is a sequence of parts; a file  *)
(* is written whole; the coins files of a wallet are those of              *)
(* CoinStatusFile, and what the session does once the daemon answers is in *)
(* the other modules. The user is slower than a tick.                      *)
(***************************************************************************)
EXTENDS Integers, Sequences

CONSTANTS
    Names,          \* names of wallets
    Passwords,      \* passwords of wallets
    PinSuffixes,       \* suffixes the user may choose
    DefaultSuffix,  \* wallet_cfg's default_protection_pass
    Seeds,
    NoFile, NoName, Nobody, NoDaemon,
    MaxTries,       \* 30, tries of the init thread
    MaxCommands,    \* bound: what the user does
    MaxEvents       \* bound: failures of the daemon and crashes of the application

\* What passwords and suffixes are put together from.
Parts == UNION {{s[i] : i \in DOMAIN s} : s \in Passwords \union PinSuffixes \union {DefaultSuffix}}

ASSUME SessionAssumption ==
    /\ Passwords \union PinSuffixes \union {DefaultSuffix} \subseteq Seq(Parts)
    /\ NoName \notin Names
    /\ NoDaemon \notin Seeds
    /\ NoFile \notin PinSuffixes \union {DefaultSuffix}
    /\ NoFile \notin [pass : Passwords, secret : Seeds]
    /\ Nobody \notin [name : Names, pass : Passwords, secret : Seeds]
    /\ MaxTries \in Nat \ {0}
    /\ {MaxCommands, MaxEvents} \subseteq Nat

VARIABLES
    seed,       \* <name>.seed: the password it is encrypted with, and the seed
    rpcpass,    \* <name>.rpcpass: the password it is encrypted with
    config,     \* <name>.wallet.json: the suffix
    default,    \* default.wallet
    static,     \* cfg.json: static_rpcpass_enabled
    gui,        \* the screen, what the GUI thread is at, the wallet's name
    login,      \* m_login_status, with what was handed to kdf_service
    suffix,     \* m_wallet_cfg.protection_pass
    kdf,        \* kdf_service: status, running, the init thread and its tries
    daemon,     \* external: the process
    fetched,    \* settings_page: what is being fetched, and the calls under way
    chosen,     \* history: the suffix the user has chosen for a wallet
    excuses,    \* history: what may keep a wallet or a session from its due
    used        \* bound: commands and events so far

disk == <<seed, rpcpass, config, default, static>>
session == <<gui, login, suffix, kdf, daemon, fetched>>
vars == <<disk, session, chosen, excuses, used>>

Contained(s, p) == \E i \in 0..(Len(p) - Len(s)) : SubSeq(p, i + 1, i + Len(s)) = s
Typed == Passwords \union {p \o s : p \in Passwords, s \in PinSuffixes}

Keys == UNION {{SubSeq(t, 1, i) : i \in 0..Len(t)} : t \in Typed}

Spend(what) == used' = [used EXCEPT ![what] = @ + 1]
Command == used.commands < MaxCommands /\ Spend("commands")
Event == used.events < MaxEvents /\ Spend("events")

NewKdf == [status |-> "None", running |-> FALSE, thread |-> "none", marked |-> FALSE]
NoCalls == [busy |-> {}, calls |-> {}]

Init ==
    /\ seed = [n \in Names |-> NoFile]
    /\ rpcpass = [n \in Names |-> NoFile]
    /\ config = [n \in Names |-> NoFile]
    /\ default = NoName
    /\ static = FALSE
    /\ gui = [screen |-> "off", at |-> <<"idle">>, name |-> NoName, pin |-> FALSE, tries |-> 0]
    /\ login = Nobody
    /\ suffix = DefaultSuffix
    /\ kdf = NewKdf
    /\ daemon = [state |-> "none", secret |-> NoDaemon]
    /\ fetched = NoCalls
    /\ chosen = [n \in Names |-> NoFile]
    /\ excuses = {}
    /\ used = [commands |-> 0, events |-> 0]

----------------------------------------------------------------------------
\* run_app: a daemon left by the previous run is killed, and the name of the
\* default wallet is read.
StartApp ==
    /\ gui.screen = "off"
    /\ Command
    /\ gui' = [screen |-> "startup", at |-> <<"idle">>, name |-> default, pin |-> FALSE, tries |-> 0]
    /\ kdf' = NewKdf
    /\ daemon' = [state |-> "none", secret |-> NoDaemon]
    /\ fetched' = NoCalls
    /\ login' = Nobody
    /\ suffix' = DefaultSuffix
    /\ UNCHANGED <<disk, chosen, excuses>>

Idle(screen) == gui.screen = screen /\ gui.at = <<"idle">> /\ ~kdf.marked

\* Seeded fault: a wallet is written over.
MutCreateSeed(n, pass, secret) ==
    /\ Idle("startup")
    /\ Command
    /\ seed' = [seed EXCEPT ![n] = [pass |-> pass, secret |-> secret]]
    /\ gui' = [gui EXCEPT !.at = <<"create", n, pass>>]
    /\ UNCHANGED <<rpcpass, config, default, static, login, suffix, kdf, daemon, fetched, chosen,
                   excuses>>

\* create: the screen refuses a name that has a seed; then the three files are
\* written one after the other.
CreateSeed(n, pass, secret) ==
    /\ Idle("startup")
    /\ seed[n] = NoFile
    /\ Command
    /\ seed' = [seed EXCEPT ![n] = [pass |-> pass, secret |-> secret]]
    /\ gui' = [gui EXCEPT !.at = <<"create", n, pass>>]
    /\ UNCHANGED <<rpcpass, config, default, static, login, suffix, kdf, daemon, fetched, chosen,
                   excuses>>

CreateRest(n, pass) ==
    /\ gui.at = <<"create", n, pass>>
    /\ rpcpass' = [rpcpass EXCEPT ![n] = pass]
    /\ gui' = [gui EXCEPT !.at = <<"configure", n>>]
    /\ UNCHANGED <<seed, config, default, static, login, suffix, kdf, daemon, fetched, chosen,
                   excuses, used>>

CreateConfig(n) ==
    /\ gui.at = <<"configure", n>>
    /\ config' = [config EXCEPT ![n] = DefaultSuffix]
    /\ chosen' = [chosen EXCEPT ![n] = NoFile]
    /\ excuses' = excuses \ {<<"mistyped", n>>, <<"halfway", n>>}
    /\ gui' = [gui EXCEPT !.at = <<"idle">>]
    /\ UNCHANGED <<seed, rpcpass, default, static, login, suffix, kdf, daemon, fetched, used>>

\* login: the suffix is cut from a password that contains it anywhere.
WithPin(n, typed) == Contained(config[n], typed)
Key(n, typed) ==
    IF WithPin(n, typed) THEN SubSeq(typed, 1, Len(typed) - Len(config[n])) ELSE typed

Rewrites(n) == rpcpass[n] = NoFile \/ ~static

\* confirm_password and retrieve_seed: both files open with the key.
Confirmed(n, typed) ==
    n \in Names /\ seed[n] # NoFile /\ seed[n].pass = typed /\ rpcpass[n] = typed

\* What login answers.
Opens(n, typed) ==
    /\ config[n] # NoFile
    /\ seed[n].pass = Key(n, typed)
    /\ Rewrites(n) \/ rpcpass[n] = Key(n, typed)

\* Seeded fault: the key of the file is that of what was typed, suffix included.
MutRpcpassAfter(n, typed) ==
    IF config[n] # NoFile /\ Rewrites(n) THEN [rpcpass EXCEPT ![n] = typed] ELSE rpcpass

\* A new password of the RPC server is encrypted before the seed is looked at.
RpcpassAfter(n, typed) ==
    IF config[n] # NoFile /\ Rewrites(n) THEN [rpcpass EXCEPT ![n] = Key(n, typed)] ELSE rpcpass

\* spawn_kdf_instance: a process that finds the port taken ends at once.
Spawned(secret) ==
    IF daemon.state = "none" THEN [state |-> "starting", secret |-> secret] ELSE daemon

Login(n, typed) ==
    /\ Idle("startup")
    /\ seed[n] # NoFile
    /\ Command
    /\ rpcpass' = RpcpassAfter(n, typed)
    /\ suffix' = IF config[n] = NoFile THEN suffix ELSE config[n]
    /\ IF Opens(n, typed)
       THEN /\ default' = n
            /\ gui' = [gui EXCEPT !.screen = "loading", !.name = n, !.pin = WithPin(n, typed)]
            /\ login' = [name |-> n, pass |-> Key(n, typed), secret |-> seed[n].secret]
            /\ kdf' = [kdf EXCEPT !.status = "initializing_kdf", !.thread = "polling"]
            /\ daemon' = Spawned(seed[n].secret)
            /\ excuses' = (excuses \ {<<"mistyped", n>>}) \union
                            (IF daemon.state = "stopping" THEN {<<"port_taken">>} ELSE {})
       ELSE /\ excuses' = IF rpcpass' # rpcpass THEN excuses \union {<<"mistyped", n>>} ELSE excuses
            /\ UNCHANGED <<default, gui, login, kdf, daemon>>
    /\ UNCHANGED <<seed, config, static, fetched, chosen>>

\* delete_wallet, after confirm_password: from the list of wallets, or of the
\* wallet that is open. It returns after the seed.
DeleteWallet(n, typed) ==
    /\ Idle("startup") \/ (Idle("dashboard") /\ gui.name = n)
    /\ Confirmed(n, typed)
    /\ Command
    /\ seed' = [seed EXCEPT ![n] = NoFile]
    /\ UNCHANGED <<rpcpass, config, default, static, session, chosen, excuses>>

\* Seeded fault: the suffix is not saved.
MutSetEmergencyPassword(s) ==
    /\ Idle("dashboard") /\ login # Nobody
    /\ Command
    /\ suffix' = s
    /\ chosen' = [chosen EXCEPT ![login.name] = s]
    /\ UNCHANGED <<disk, gui, login, kdf, daemon, fetched, excuses>>

\* set_emergency_password: in memory, and in the file of the wallet loaded.
SetEmergencyPassword(s) ==
    /\ Idle("dashboard") /\ login # Nobody
    /\ Command
    /\ suffix' = s
    /\ config' = [config EXCEPT ![login.name] = s]
    /\ chosen' = [chosen EXCEPT ![login.name] = s]
    /\ UNCHANGED <<seed, rpcpass, default, static, gui, login, kdf, daemon, fetched, excuses>>

SetStaticRpcpassEnabled ==
    /\ Idle("dashboard")
    /\ Command
    /\ static' = ~static
    /\ UNCHANGED <<seed, rpcpass, config, default, session, chosen, excuses>>

----------------------------------------------------------------------------
\* retrieve_seed and fetchPublicKey; the first is refused to a wrong password.
Fetch(what) ==
    /\ Idle("dashboard")
    /\ what = "priv_keys" => \E typed \in Typed : Confirmed(gui.name, typed)
    /\ Command
    /\ fetched' = [busy |-> fetched.busy \union {what}, calls |-> fetched.calls \union {what}]
    /\ UNCHANGED <<disk, gui, login, suffix, kdf, daemon, chosen, excuses>>

\* Seeded fault: the flag is not lowered.
MutFetched(what) ==
    /\ what \in fetched.calls
    /\ fetched' = [fetched EXCEPT !.calls = @ \ {what}]
    /\ UNCHANGED <<disk, gui, login, suffix, kdf, daemon, chosen, excuses, used>>

\* Seeded fault: the flag is lowered before the answer.
MutFetchedEarly(what) ==
    /\ what \in fetched.calls
    /\ fetched' = [fetched EXCEPT !.busy = @ \ {what}]
    /\ UNCHANGED <<disk, gui, login, suffix, kdf, daemon, chosen, excuses, used>>

Fetched(what) ==
    /\ what \in fetched.calls
    /\ fetched' = [busy |-> fetched.busy \ {what}, calls |-> fetched.calls \ {what}]
    /\ UNCHANGED <<disk, gui, login, suffix, kdf, daemon, chosen, excuses, used>>

\* A call that fails has no continuation: the flag stays up.
FetchFails(what) ==
    /\ what \in fetched.calls
    /\ Event
    /\ fetched' = [fetched EXCEPT !.calls = @ \ {what}]
    /\ excuses' = excuses \union {<<"unanswered">>}
    /\ UNCHANGED <<disk, gui, login, suffix, kdf, daemon, chosen>>

----------------------------------------------------------------------------
Alive == daemon.state \in {"up", "stopping"}

\* Seeded fault: the thread never gives up.
MutPoll ==
    /\ kdf.thread = "polling"
    /\ kdf' = IF Alive THEN [kdf EXCEPT !.thread = "enabling", !.status = "enabling_coins"] ELSE kdf
    /\ gui' = IF Alive THEN [gui EXCEPT !.screen = "dashboard"] ELSE gui
    /\ UNCHANGED <<disk, login, suffix, daemon, fetched, chosen, excuses, used>>

\* The init thread: the tries are counted in a static, and what is said of the
\* daemon reaches the application only while it is connected.
Poll ==
    /\ kdf.thread = "polling"
    /\ IF Alive
       THEN /\ kdf' = [kdf EXCEPT !.thread = "enabling",
                         !.status = IF gui.at = <<"joining">> THEN @ ELSE "enabling_coins"]
            /\ gui' = IF gui.screen = "loading" THEN [gui EXCEPT !.screen = "dashboard"] ELSE gui
       ELSE /\ gui' = [gui EXCEPT !.tries = @ + 1]
            /\ kdf' = IF gui'.tries = MaxTries THEN [kdf EXCEPT !.thread = "ended"] ELSE kdf
    /\ UNCHANGED <<disk, login, suffix, daemon, fetched, chosen, excuses, used>>

EnableDefaultCoins ==
    /\ kdf.thread = "enabling"
    /\ kdf' = [kdf EXCEPT !.thread = "ended", !.running = TRUE]
    /\ UNCHANGED <<disk, gui, login, suffix, daemon, fetched, chosen, excuses, used>>

\* tick: both default coins are enabled.
Complete ==
    /\ kdf.running /\ kdf.status = "enabling_coins"
    /\ gui.at = <<"idle">>
    /\ kdf' = [kdf EXCEPT !.status = "complete"]
    /\ UNCHANGED <<disk, gui, login, suffix, daemon, fetched, chosen, excuses, used>>

\* application::disconnect.
Disconnect(screen) ==
    /\ gui' = [gui EXCEPT !.screen = screen, !.name = NoName]
    /\ kdf' = [kdf EXCEPT !.status = "None", !.marked = TRUE]
    /\ default' = NoName

Logout ==
    /\ Idle("dashboard") /\ kdf.status # "enabling_coins"
    /\ Command
    /\ Disconnect("startup")
    /\ login' = Nobody
    /\ UNCHANGED <<seed, rpcpass, config, static, suffix, daemon, fetched, chosen, excuses>>

\* handle_exception_pplx_task without internet: the screen has no login page to
\* go to, and stays.
ConnectionDropped ==
    /\ Idle("dashboard") /\ kdf.status # "None"
    /\ Event
    /\ Disconnect("dashboard")
    /\ excuses' = excuses \union {<<"dropped">>}
    /\ UNCHANGED <<seed, rpcpass, config, static, login, suffix, daemon, fetched, chosen>>

\* Closing the window marks kdf_service and runs one frame.
Quit ==
    /\ gui.screen # "off" /\ gui.at = <<"idle">>
    /\ Command
    /\ gui' = [gui EXCEPT !.screen = "closing"]
    /\ kdf' = [kdf EXCEPT !.marked = TRUE]
    /\ UNCHANGED <<disk, login, suffix, daemon, fetched, chosen, excuses>>

Stopping == [daemon EXCEPT !.state = IF @ = "none" THEN @ ELSE "stopping"]

\* Seeded fault: the daemon is not told to stop.
MutStoppedDaemon == daemon

\* A daemon that is running is told to stop, and goes on until it has.
StoppedDaemon == IF kdf.running THEN Stopping ELSE daemon

\* A daemon that is gone cannot be told: the destructor throws.
StopThrows == kdf.marked /\ gui.at = <<"idle">> /\ kdf.running /\ daemon.state = "none"

\* process_one_frame destroys a marked kdf_service: the calls under way are
\* cancelled, and the GUI thread joins the init thread.
Destroy ==
    /\ kdf.marked /\ gui.at = <<"idle">> /\ gui.screen # "off"
    /\ ~StopThrows
    /\ daemon' = StoppedDaemon
    /\ kdf' = [kdf EXCEPT !.running = FALSE]
    /\ fetched' = [fetched EXCEPT !.calls = {}]
    /\ gui' = [gui EXCEPT !.at = <<"joining">>]
    /\ excuses' = excuses \union (IF fetched.calls # {} THEN {<<"unanswered">>} ELSE {})
                    \union (IF ~kdf.running /\ daemon.state # "none" THEN {<<"left_running">>} ELSE {})
    /\ UNCHANGED <<disk, login, suffix, chosen, used>>

\* The thread has ended: a new kdf_service, or the end of the application.
Joined ==
    /\ gui.at = <<"joining">> /\ kdf.thread \in {"none", "ended"}
    /\ kdf' = NewKdf
    /\ IF gui.screen = "closing"
       THEN /\ gui' = [gui EXCEPT !.at = <<"idle">>, !.screen = "off", !.name = NoName]
            /\ login' = Nobody
       ELSE gui' = [gui EXCEPT !.at = <<"idle">>] /\ UNCHANGED login
    /\ UNCHANGED <<disk, suffix, daemon, fetched, chosen, excuses, used>>

\* The application is killed, also while it creates a wallet, or it ends with
\* what the destructor throws.
Crash ==
    /\ gui.screen # "off"
    /\ Event \/ (StopThrows /\ UNCHANGED used)
    /\ gui' = [gui EXCEPT !.screen = "off", !.at = <<"idle">>, !.name = NoName]
    /\ kdf' = NewKdf
    /\ login' = Nobody
    /\ fetched' = NoCalls
    /\ excuses' = excuses \union {<<"halfway", n>> : n \in {m \in Names : gui.at = <<"configure", m>>
                                    \/ \E pass \in Passwords : gui.at = <<"create", m, pass>>}}
    /\ UNCHANGED <<disk, suffix, daemon, chosen>>

\* External: the daemon answers, fails, or has stopped.
DaemonUp ==
    /\ daemon.state = "starting"
    /\ daemon' = [daemon EXCEPT !.state = "up"]
    /\ UNCHANGED <<disk, gui, login, suffix, kdf, fetched, chosen, excuses, used>>

DaemonGone ==
    /\ daemon.state # "none"
    /\ IF daemon.state = "stopping" THEN UNCHANGED used ELSE Event
    /\ daemon' = [state |-> "none", secret |-> NoDaemon]
    /\ UNCHANGED <<disk, gui, login, suffix, kdf, fetched, chosen, excuses>>

UserActs ==
    \/ StartApp
    \/ \E n \in Names, pass \in Passwords, secret \in Seeds : CreateSeed(n, pass, secret)
    \/ \E n \in Names, typed \in Typed : Login(n, typed) \/ DeleteWallet(n, typed)
    \/ \E s \in PinSuffixes : SetEmergencyPassword(s)
    \/ SetStaticRpcpassEnabled
    \/ \E what \in {"priv_keys", "public_key"} : Fetch(what)
    \/ Logout
    \/ Quit

Next ==
    \/ UserActs
    \/ \E n \in Names : CreateConfig(n) \/ \E pass \in Passwords : CreateRest(n, pass)
    \/ \E what \in {"priv_keys", "public_key"} : Fetched(what) \/ FetchFails(what)
    \/ Poll
    \/ EnableDefaultCoins
    \/ Complete
    \/ ConnectionDropped
    \/ Destroy
    \/ Joined
    \/ Crash
    \/ DaemonUp
    \/ DaemonGone

Spec == Init /\ [][Next]_vars

\* The init thread is scheduled, the tick goes on, and a call that is not
\* cancelled is answered.
Fairness ==
    /\ WF_vars(Poll)
    /\ WF_vars(EnableDefaultCoins)
    /\ WF_vars(Destroy)
    /\ WF_vars(Joined)
    /\ \A what \in {"priv_keys", "public_key"} : WF_vars(Fetched(what))

FairSpec == Spec /\ Fairness

----------------------------------------------------------------------------
\* Shapes, and who is busy with what: a thread exists only for a wallet that was
\* handed over, and the daemon has a seed unless there is none.
TypeOK ==
    /\ \A n \in Names :
         /\ seed[n] \in [pass : Passwords, secret : Seeds] \union {NoFile}
         /\ rpcpass[n] \in Keys \union {NoFile}
         /\ config[n] \in PinSuffixes \union {DefaultSuffix, NoFile}
    /\ default \in Names \union {NoName} /\ gui.name \in Names \union {NoName}
    /\ login \in [name : Names, pass : Passwords, secret : Seeds] \union {Nobody}
    /\ kdf.thread # "none" => login # Nobody \/ kdf.marked
    /\ daemon.state = "none" <=> daemon.secret = NoDaemon
    /\ fetched.calls \subseteq fetched.busy
    /\ gui.tries \in 0..MaxTries

\* A wallet that is listed opens with its password, and with its password and
\* the suffix chosen for it, whatever was typed, deleted, created again or
\* changed before: but for a password that contains the suffix (login cuts it
\* from there), a wallet whose creation was cut short, and a wrong password that
\* was tried while the RPC password is rewritten at each login (line 336).
WalletsOpen ==
    \A n \in Names : seed[n] # NoFile /\ gui.at = <<"idle">> =>
        \/ {<<"mistyped", n>>, <<"halfway", n>>} \intersect excuses # {}
        \/ /\ Contained(config[n], seed[n].pass) \/ (Opens(n, seed[n].pass) /\ ~WithPin(n, seed[n].pass))
           /\ chosen[n] # NoFile =>
                Opens(n, seed[n].pass \o chosen[n]) /\ WithPin(n, seed[n].pass \o chosen[n])

\* In a session the screens that ask for the password accept it: both files of
\* the open wallet are encrypted with it, also after a login with the suffix or
\* after another wallet was tried; but for a wallet deleted from within.
SessionConfirms ==
    login # Nobody /\ seed[login.name] # NoFile =>
        Confirmed(login.name, seed[login.name].pass)

\* The daemon that answers has the seed of the wallet that is open: but for one
\* that still stops when the next is started, and one that was not told to stop
\* because it was not yet known to run (destructor of kdf_service).
DaemonServesTheOpenWallet ==
    kdf.running /\ login # Nobody /\ daemon.state = "up" =>
        \/ daemon.secret = login.secret
        \/ {<<"port_taken">>, <<"left_running">>} \intersect excuses # {}

\* What the files, the threads and the daemon do is what a vault does: no seed is
\* written over, a wallet opens only for its password, a wrong one changes nothing
\* that is stored, and kdf_service gets the seed of the wallet that was asked for.
V == INSTANCE Vault WITH NoWallet <- NoFile, wallets <- seed, opened <- login
ImplementsVault == V!Spec

\* The screen of a login ends: the daemon answers or the thread gives up.
LoginEnds ==
    kdf.status = "initializing_kdf" ~> (kdf.status # "initializing_kdf" \/ kdf.thread = "ended")

\* The GUI thread does not wait for the init thread for ever.
JoinEnds == gui.at = <<"joining">> ~> gui.at # <<"joining">>

\* The keys asked for come, unless the call fails or the session ends first: the
\* settings page outlives it, and its flag stays up (retrieve_seed, fetchPublicKey).
FetchEnds ==
    \A what \in {"priv_keys", "public_key"} :
        what \in fetched.busy ~> (what \notin fetched.busy \/ <<"unanswered">> \in excuses)

\* The files of each wallet, the password asked for in a session and the daemon belong
\* together.
SessionIsOfItsWallet == TypeOK /\ WalletsOpen /\ SessionConfirms /\ DaemonServesTheOpenWallet

\* The screens that wait, for the daemon, for its thread and for keys, end.
ScreensEnd == LoginEnds /\ JoinEnds /\ FetchEnds
=============================================================================
