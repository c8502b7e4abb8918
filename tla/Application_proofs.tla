-------------------------- MODULE Application_proofs --------------------------
(***************************************************************************)
(* Proofs about what the application drives, for any values and bounds:    *)
(* the session of a wallet and its files, the orders and swaps that the    *)
(* tick of the application refreshes, and the transactions of the coin     *)
(* that the wallet page shows.                                             *)
(***************************************************************************)
EXTENDS WalletSession, OrdersModel, TransactionsModel, FiniteSetTheorems, SequenceTheorems, TLAPS

-----------------------------------------------------------------------------
(* The inductive invariant.                                                *)

Wallet == [pass : Passwords, secret : Seeds]

At == {<<"idle">>, <<"joining">>} \union {<<"configure", n>> : n \in Names}
        \union {<<"create", x[1], x[2]>> : x \in Names \X Passwords}

\* The sets the variables stay in.
Types ==
    /\ seed \in [Names -> Wallet \union {NoFile}]
    /\ rpcpass \in [Names -> Keys \union {NoFile}]
    /\ config \in [Names -> PinSuffixes \union {DefaultSuffix, NoFile}]
    /\ chosen \in [Names -> PinSuffixes \union {NoFile}]
    /\ default \in Names \union {NoName}
    /\ static \in BOOLEAN
    /\ gui \in [screen : {"off", "startup", "loading", "dashboard", "closing"}, at : At,
                name : Names \union {NoName}, pin : BOOLEAN, tries : 0..MaxTries]
    /\ login \in [name : Names, pass : Passwords, secret : Seeds] \union {Nobody}
    /\ kdf \in [status : {"None", "initializing_kdf", "enabling_coins", "complete"},
                running : BOOLEAN, thread : {"none", "polling", "enabling", "ended"},
                marked : BOOLEAN]
    /\ daemon \in [state : {"none", "starting", "up", "stopping"}, secret : Seeds \union {NoDaemon}]
    /\ fetched \in [busy : SUBSET {"priv_keys", "public_key"},
                    calls : SUBSET {"priv_keys", "public_key"}]

Creating(n) == gui.at = <<"configure", n>> \/ \E pass \in Passwords : gui.at = <<"create", n, pass>>

\* Nobody is logged in where a wallet is chosen or created.
NobodyAtStartup ==
    /\ gui.screen \in {"off", "startup"} => login = Nobody
    /\ (\E n \in Names : Creating(n)) => gui.screen = "startup"

\* The thread and its tries are those of a login.
ThreadIsOfTheLogin ==
    /\ kdf.thread # "none" => login # Nobody \/ kdf.marked
    /\ kdf.thread = "polling" => gui.screen \in {"loading", "closing"} /\ gui.tries < MaxTries
    /\ gui.screen \in {"startup", "dashboard"} => gui.tries < MaxTries

Excused(n) == {<<"mistyped", n>>, <<"halfway", n>>} \intersect excuses # {}

\* The files of a wallet fit together, or it is being created, or there is an excuse.
FilesFit ==
    /\ \A n \in Names : seed[n] # NoFile =>
         \/ Creating(n) \/ Excused(n)
         \/ config[n] # NoFile /\ rpcpass[n] = seed[n].pass
    /\ \A n \in Names : chosen[n] # NoFile => config[n] = chosen[n]
    /\ \A n \in Names : gui.at = <<"configure", n>> => seed[n] # NoFile /\ rpcpass[n] = seed[n].pass
    /\ \A n \in Names, pass \in Passwords :
         gui.at = <<"create", n, pass>> => seed[n] # NoFile /\ seed[n].pass = pass

DaemonExcused == {<<"port_taken">>, <<"left_running">>} \intersect excuses # {}

Serving == daemon.state \in {"starting", "up"}

\* A daemon that starts or answers is the one the login has started, one that is
\* about to be told to stop, or one whose application was killed.
DaemonIsOfTheLogin ==
    /\ daemon.state = "none" <=> daemon.secret = NoDaemon
    /\ Serving /\ login # Nobody => daemon.secret = login.secret \/ DaemonExcused
    /\ Serving /\ login = Nobody =>
         \/ gui.screen = "off"
         \/ kdf.marked /\ gui.at # <<"joining">>
         \/ DaemonExcused

CallsAreBusy == fetched.calls \subseteq fetched.busy

SessionInv ==
    /\ Types
    /\ NobodyAtStartup
    /\ ThreadIsOfTheLogin
    /\ FilesFit
    /\ SessionConfirms
    /\ DaemonIsOfTheLogin
    /\ CallsAreBusy

-----------------------------------------------------------------------------
(* Passwords, suffixes and what the GUI thread is at.                      *)

LEMMA SequenceFacts ==
    /\ \A t \in Typed : t \in Seq(Parts) /\ Len(t) \in Nat
    /\ \A s \in PinSuffixes \union {DefaultSuffix} : s \in Seq(Parts) /\ Len(s) \in Nat
<1>1. \A s \in Passwords \union PinSuffixes \union {DefaultSuffix} : s \in Seq(Parts)
  BY SessionAssumption
<1>2. \A p \in Passwords, s \in PinSuffixes : p \o s \in Seq(Parts)
  BY <1>1, ConcatProperties
<1>3. ASSUME NEW t \in Typed PROVE t \in Seq(Parts)
  <2>1. CASE t \in Passwords
    BY <1>1, <2>1
  <2>2. CASE \E p \in Passwords, s \in PinSuffixes : t = p \o s
    BY <1>2, <2>2
  <2> QED BY <2>1, <2>2 DEF Typed
<1>4. \A t \in Seq(Parts) : Len(t) \in Nat
  BY LenProperties
<1> QED BY <1>1, <1>3, <1>4

LEMMA WholeSubSeq == ASSUME NEW S, NEW s \in Seq(S) PROVE SubSeq(s, 1, Len(s)) = s
<1> DEFINE u == SubSeq(s, 1, Len(s))
<1>1. Len(s) \in Nat /\ \A i \in 1..Len(s) : s[i] \in S
  BY LenProperties, ElementOfSeq
<1>2. u \in Seq(S) /\ Len(u) = Len(s) /\ \A i \in 1..Len(s) : u[i] = s[i]
  BY <1>1, SubSeqProperties
<1> HIDE DEF u
<1>3. u = s
  BY <1>2, SeqEqual
<1> QED BY <1>3 DEF u

\* What login cuts from what was typed is a key.
LEMMA KeyIsKey ==
    ASSUME NEW n \in Names, NEW typed \in Typed, config[n] \in PinSuffixes \union {DefaultSuffix}
    PROVE  Key(n, typed) \in Keys
<1>1. Len(typed) \in Nat /\ Len(config[n]) \in Nat /\ typed \in Seq(Parts)
  BY SequenceFacts
<1>2. ASSUME NEW i \in 0..Len(typed) PROVE SubSeq(typed, 1, i) \in Keys
  BY DEF Keys
<1>3. CASE WithPin(n, typed)
  <2>1. Len(typed) - Len(config[n]) \in 0..Len(typed)
    BY <1>1, <1>3 DEF WithPin, Contained
  <2> QED BY <1>2, <1>3, <2>1 DEF Key
<1>4. CASE ~WithPin(n, typed)
  <2>1. SubSeq(typed, 1, Len(typed)) = typed
    BY <1>1, WholeSubSeq
  <2>2. Len(typed) \in 0..Len(typed)
    BY <1>1
  <2>3. typed \in Keys
    BY <1>2, <2>1, <2>2
  <2> QED BY <1>4, <2>3 DEF Key
<1> QED BY <1>3, <1>4

LEMMA PasswordIsKey == Passwords \subseteq Typed /\ Passwords \subseteq Keys
<1>1. Passwords \subseteq Typed
  BY DEF Typed
<1>2. ASSUME NEW p \in Passwords PROVE p \in Keys
  <2>1. p \in Seq(Parts) /\ Len(p) \in Nat /\ p \in Typed
    BY <1>1, SequenceFacts
  <2>2. SubSeq(p, 1, Len(p)) = p
    BY <2>1, WholeSubSeq
  <2>3. SubSeq(p, 1, Len(p)) \in {SubSeq(p, 1, i) : i \in 0..Len(p)}
    BY <2>1
  <2> QED BY <2>1, <2>2, <2>3 DEF Keys
<1> QED BY <1>1, <1>2

\* Login cuts a suffix that was typed after the password, and nothing more.
LEMMA SuffixIsCut ==
    ASSUME NEW p \in Passwords, NEW s \in PinSuffixes
    PROVE  Contained(s, p \o s) /\ SubSeq(p \o s, 1, Len(p \o s) - Len(s)) = p
<1>1. p \in Seq(Parts) /\ s \in Seq(Parts)
  BY SessionAssumption
<1> DEFINE t == p \o s
<1>2. /\ t \in Seq(Parts) /\ Len(t) = Len(p) + Len(s) /\ Len(p) \in Nat /\ Len(s) \in Nat
      /\ \A i \in 1..Len(p) : t[i] = p[i]
      /\ \A i \in 1..Len(s) : t[Len(p) + i] = s[i]
  BY <1>1, ConcatProperties
<1> HIDE DEF t
<1>3. SubSeq(t, Len(p) + 1, Len(p) + Len(s)) = s
  <2> DEFINE u == SubSeq(t, Len(p) + 1, Len(p) + Len(s))
  <2>1. u \in Seq(Parts) /\ Len(u) = Len(s) /\ \A i \in 1..Len(s) : u[i] = s[i]
    BY <1>2, SubSeqProperties
  <2> HIDE DEF u
  <2>2. u = s
    BY <1>1, <2>1, SeqEqual
  <2> QED BY <2>2 DEF u
<1>4. SubSeq(t, 1, Len(p)) = p
  <2> DEFINE u == SubSeq(t, 1, Len(p))
  <2>1. \A i \in 1..Len(p) : t[i] \in Parts
    BY <1>2, ElementOfSeq
  <2>2. u \in Seq(Parts) /\ Len(u) = Len(p) /\ \A i \in 1..Len(p) : u[i] = t[i]
    BY <1>2, <2>1, SubSeqProperties
  <2>3. \A i \in 1..Len(p) : u[i] = p[i]
    BY <1>2, <2>2
  <2> HIDE DEF u
  <2>4. u = p
    BY <1>1, <2>2, <2>3, SeqEqual
  <2> QED BY <2>4 DEF u
<1>5. Contained(s, t)
  <2>1. Len(p) \in 0..(Len(t) - Len(s))
    BY <1>2
  <2> QED BY <1>3, <2>1, Zenon DEF Contained
<1>6. Len(t) - Len(s) = Len(p)
  BY <1>2
<1> QED BY <1>4, <1>5, <1>6 DEF t

LEMMA AtFacts ==
    /\ <<"idle">> # <<"joining">> /\ <<"idle">> \in At /\ <<"joining">> \in At
    /\ \A n \in Names : /\ <<"configure", n>> \in At
                        /\ <<"configure", n>> # <<"idle">> /\ <<"configure", n>> # <<"joining">>
    /\ \A n \in Names, p \in Passwords :
         /\ <<"create", n, p>> \in At
         /\ <<"create", n, p>> # <<"idle">> /\ <<"create", n, p>> # <<"joining">>
         /\ \A m \in Names : <<"create", n, p>> # <<"configure", m>>
         /\ \A m \in Names, q \in Passwords :
              <<"create", n, p>> = <<"create", m, q>> => n = m /\ p = q
    /\ \A n, m \in Names : <<"configure", n>> = <<"configure", m>> => n = m
<1>1. \A n \in Names, p \in Passwords : <<"create", n, p>> \in At
  <2> SUFFICES ASSUME NEW n \in Names, NEW p \in Passwords PROVE <<"create", n, p>> \in At
    OBVIOUS
  <2>1. <<n, p>> \in Names \X Passwords /\ <<n, p>>[1] = n /\ <<n, p>>[2] = p
    OBVIOUS
  <2> QED BY <2>1 DEF At
<1> QED BY <1>1 DEF At

LEMMA IdleCreatesNothing == gui.at \in {<<"idle">>, <<"joining">>} => \A n \in Names : ~Creating(n)
BY AtFacts DEF Creating

-----------------------------------------------------------------------------
(* Types.                                                                  *)

LEMMA TypesInit == Init => Types
<1> SUFFICES ASSUME Init PROVE Types
  OBVIOUS
<1>1. /\ seed \in [Names -> Wallet \union {NoFile}]
      /\ rpcpass \in [Names -> Keys \union {NoFile}]
      /\ config \in [Names -> PinSuffixes \union {DefaultSuffix, NoFile}]
      /\ chosen \in [Names -> PinSuffixes \union {NoFile}]
  BY DEF Init
<1>2. 0 \in 0..MaxTries
  BY SessionAssumption
<1>3. gui \in [screen : {"off", "startup", "loading", "dashboard", "closing"}, at : At,
              name : Names \union {NoName}, pin : BOOLEAN, tries : 0..MaxTries]
  BY <1>2, AtFacts DEF Init
<1> QED BY <1>1, <1>3 DEF Init, Types, NewKdf, NoCalls

LEMMA TypesFiles ==
    ASSUME Types, [Next]_vars
    PROVE  /\ seed' \in [Names -> Wallet \union {NoFile}]
           /\ rpcpass' \in [Names -> Keys \union {NoFile}]
           /\ config' \in [Names -> PinSuffixes \union {DefaultSuffix, NoFile}]
           /\ chosen' \in [Names -> PinSuffixes \union {NoFile}]
           /\ default' \in Names \union {NoName} /\ static' \in BOOLEAN
<1> USE DEF Types
<1> DEFINE Goal == /\ seed' \in [Names -> Wallet \union {NoFile}]
                   /\ rpcpass' \in [Names -> Keys \union {NoFile}]
                   /\ config' \in [Names -> PinSuffixes \union {DefaultSuffix, NoFile}]
                   /\ chosen' \in [Names -> PinSuffixes \union {NoFile}]
                   /\ default' \in Names \union {NoName} /\ static' \in BOOLEAN
<1>1. ASSUME UNCHANGED <<disk, chosen>> PROVE Goal
  BY <1>1 DEF disk
<1>2. CASE \E n \in Names, pass \in Passwords, secret \in Seeds : CreateSeed(n, pass, secret)
  <2>1. PICK n \in Names, pass \in Passwords, secret \in Seeds : CreateSeed(n, pass, secret)
    BY <1>2
  <2>2. [pass |-> pass, secret |-> secret] \in Wallet
    BY DEF Wallet
  <2> QED BY <2>1, <2>2 DEF CreateSeed
<1>3. CASE \E n \in Names, pass \in Passwords : CreateRest(n, pass)
  BY <1>3, PasswordIsKey DEF CreateRest
<1>4. CASE \E n \in Names : CreateConfig(n)
  BY <1>4 DEF CreateConfig
<1>5. ASSUME NEW n \in Names, NEW typed \in Typed, Login(n, typed) PROVE Goal
  <2>1. rpcpass' \in [Names -> Keys \union {NoFile}]
    <3>1. config[n] # NoFile => Key(n, typed) \in Keys
      BY KeyIsKey
    <3> QED BY <1>5, <3>1 DEF Login, RpcpassAfter
  <2> QED BY <1>5, <2>1 DEF Login
<1>6. CASE \E n \in Names, typed \in Typed : DeleteWallet(n, typed)
  BY <1>6 DEF DeleteWallet
<1>7. CASE \E s \in PinSuffixes : SetEmergencyPassword(s)
  BY <1>7 DEF SetEmergencyPassword
<1>8. CASE SetStaticRpcpassEnabled
  BY <1>8 DEF SetStaticRpcpassEnabled
<1>9. CASE ConnectionDropped \/ Logout
  BY <1>9 DEF ConnectionDropped, Logout, Disconnect
<1>10. CASE StartApp \/ Quit \/ \E what \in {"priv_keys", "public_key"} :
                                  Fetch(what) \/ Fetched(what) \/ FetchFails(what)
  BY <1>1, <1>10 DEF StartApp, Quit, Fetch, Fetched, FetchFails
<1>11. CASE Poll \/ EnableDefaultCoins \/ Complete \/ Destroy \/ Joined \/ Crash \/ DaemonUp \/ DaemonGone
  BY <1>1, <1>11 DEF Poll, EnableDefaultCoins, Complete, Destroy, Joined, Crash, DaemonUp, DaemonGone
<1>12. CASE UNCHANGED vars
  BY <1>1, <1>12 DEF vars
<1> QED BY <1>2, <1>3, <1>4, <1>5, <1>6, <1>7, <1>8, <1>9, <1>10, <1>11, <1>12 DEF Next, UserActs

Screens == [screen : {"off", "startup", "loading", "dashboard", "closing"}, at : At,
            name : Names \union {NoName}, pin : BOOLEAN, tries : 0..MaxTries]

\* A step writes fields of the GUI's record.
LEMMA ScreenType ==
    ASSUME gui \in Screens,
           NEW screen \in {"off", "startup", "loading", "dashboard", "closing"}, NEW at \in At,
           NEW name \in Names \union {NoName}
    PROVE  /\ [gui EXCEPT !.at = at] \in Screens
           /\ [gui EXCEPT !.screen = screen] \in Screens
           /\ [gui EXCEPT !.screen = screen, !.name = name] \in Screens
           /\ [gui EXCEPT !.at = at, !.screen = screen, !.name = name] \in Screens
           /\ [gui EXCEPT !.screen = screen, !.at = at, !.name = name] \in Screens
           /\ \A pin \in BOOLEAN : [gui EXCEPT !.screen = screen, !.name = name, !.pin = pin] \in Screens
           /\ gui.tries < MaxTries => [gui EXCEPT !.tries = @ + 1] \in Screens
<1>1. gui.tries < MaxTries => gui.tries + 1 \in 0..MaxTries
  BY SessionAssumption DEF Screens
<1> QED BY <1>1 DEF Screens

LEMMA TypesSession ==
    ASSUME Types, ThreadIsOfTheLogin, [Next]_vars
    PROVE  /\ gui' \in Screens
           /\ login' \in [name : Names, pass : Passwords, secret : Seeds] \union {Nobody}
           /\ kdf' \in [status : {"None", "initializing_kdf", "enabling_coins", "complete"},
                        running : BOOLEAN, thread : {"none", "polling", "enabling", "ended"},
                        marked : BOOLEAN]
           /\ daemon' \in [state : {"none", "starting", "up", "stopping"},
                           secret : Seeds \union {NoDaemon}]
           /\ fetched' \in [busy : SUBSET {"priv_keys", "public_key"},
                            calls : SUBSET {"priv_keys", "public_key"}]
<1> DEFINE KdfType == [status : {"None", "initializing_kdf", "enabling_coins", "complete"},
                       running : BOOLEAN, thread : {"none", "polling", "enabling", "ended"},
                       marked : BOOLEAN]
           DaemonType == [state : {"none", "starting", "up", "stopping"},
                          secret : Seeds \union {NoDaemon}]
           FetchType == [busy : SUBSET {"priv_keys", "public_key"},
                         calls : SUBSET {"priv_keys", "public_key"}]
           LoginType == [name : Names, pass : Passwords, secret : Seeds] \union {Nobody}
           Goal == /\ gui' \in Screens /\ login' \in LoginType /\ kdf' \in KdfType
                   /\ daemon' \in DaemonType /\ fetched' \in FetchType
<1>0. gui \in Screens /\ login \in LoginType /\ kdf \in KdfType /\ daemon \in DaemonType
      /\ fetched \in FetchType /\ default \in Names \union {NoName}
  BY DEF Types, Screens
<1>a. NewKdf \in KdfType /\ NoCalls \in FetchType
      /\ [state |-> "none", secret |-> NoDaemon] \in DaemonType /\ 0 \in 0..MaxTries
  BY SessionAssumption DEF NewKdf, NoCalls
<1> USE <1>0, <1>a, AtFacts
<1>1. CASE StartApp
  <2>1. gui' \in Screens
    BY <1>1 DEF StartApp, Screens
  <2> QED BY <1>1, <2>1 DEF StartApp
<1>2. ASSUME NEW n \in Names, NEW pass \in Passwords, NEW secret \in Seeds,
             CreateSeed(n, pass, secret)
      PROVE  Goal
  BY <1>2, ScreenType DEF CreateSeed
<1>3. ASSUME NEW n \in Names, NEW pass \in Passwords, CreateRest(n, pass) PROVE Goal
  BY <1>3, ScreenType DEF CreateRest
<1>4. ASSUME NEW n \in Names, CreateConfig(n) PROVE Goal
  BY <1>4, ScreenType DEF CreateConfig
<1>5. ASSUME NEW n \in Names, NEW typed \in Typed, Login(n, typed) PROVE Goal
  <2>1. CASE Opens(n, typed)
    <3>1. seed[n] \in Wallet /\ seed[n].pass = Key(n, typed)
      BY <1>5, <2>1 DEF Login, Opens, Types
    <3>2. [name |-> n, pass |-> Key(n, typed), secret |-> seed[n].secret] \in LoginType
          /\ seed[n].secret \in Seeds
      BY <3>1 DEF Wallet
    <3>3. gui' \in Screens
      <4>1. WithPin(n, typed) \in BOOLEAN
        BY DEF WithPin, Contained
      <4>2. [gui EXCEPT !.screen = "loading", !.name = n, !.pin = WithPin(n, typed)] \in Screens
        BY <4>1, ScreenType
      <4> QED BY <1>5, <2>1, <4>2 DEF Login
    <3>4. Spawned(seed[n].secret) \in DaemonType
      BY <3>2 DEF Spawned
    <3>5. login' = [name |-> n, pass |-> Key(n, typed), secret |-> seed[n].secret]
          /\ kdf' = [kdf EXCEPT !.status = "initializing_kdf", !.thread = "polling"]
          /\ daemon' = Spawned(seed[n].secret) /\ UNCHANGED fetched
      BY <1>5, <2>1 DEF Login
    <3> QED BY <3>2, <3>3, <3>4, <3>5
  <2>2. CASE ~Opens(n, typed)
    BY <1>5, <2>2 DEF Login
  <2> QED BY <2>1, <2>2
<1>6. ASSUME NEW n \in Names, NEW typed \in Typed, DeleteWallet(n, typed) PROVE Goal
  BY <1>6 DEF DeleteWallet, session
<1>7. CASE SetStaticRpcpassEnabled \/ \E s \in PinSuffixes : SetEmergencyPassword(s)
  BY <1>7 DEF SetStaticRpcpassEnabled, SetEmergencyPassword, session
<1>8. ASSUME NEW what \in {"priv_keys", "public_key"}, Fetch(what) \/ Fetched(what) \/ FetchFails(what)
      PROVE  Goal
  BY <1>8 DEF Fetch, Fetched, FetchFails
<1>9. CASE Poll
  <2>1. gui.tries < MaxTries
    BY <1>9 DEF Poll, ThreadIsOfTheLogin
  <2>2. gui' \in Screens
    BY <1>9, <2>1, ScreenType DEF Poll
  <2>3. kdf' \in KdfType
    <3>1. CASE Alive
      <4>1. kdf' = [kdf EXCEPT !.thread = "enabling",
                      !.status = IF gui.at = <<"joining">> THEN kdf.status ELSE "enabling_coins"]
        BY <1>9, <3>1 DEF Poll
      <4>2. (IF gui.at = <<"joining">> THEN kdf.status ELSE "enabling_coins")
              \in {"None", "initializing_kdf", "enabling_coins", "complete"}
        OBVIOUS
      <4> QED BY <4>1, <4>2
    <3>2. CASE ~Alive
      BY <1>9, <3>2 DEF Poll
    <3> QED BY <3>1, <3>2
  <2> QED BY <1>9, <2>2, <2>3 DEF Poll
<1>10. CASE EnableDefaultCoins \/ Complete
  BY <1>10 DEF EnableDefaultCoins, Complete
<1>11. CASE ConnectionDropped \/ Logout
  <2>1. gui' \in Screens
    <3>1. \A screen \in {"startup", "dashboard"} :
            [gui EXCEPT !.screen = screen, !.name = NoName] \in Screens
      BY ScreenType
    <3> QED BY <1>11, <3>1 DEF ConnectionDropped, Logout, Disconnect
  <2> QED BY <1>11, <2>1 DEF ConnectionDropped, Logout, Disconnect
<1>12. CASE Quit
  BY <1>12, ScreenType DEF Quit
<1>13. CASE Destroy
  <2>1. daemon' \in DaemonType
    BY <1>13 DEF Destroy, StoppedDaemon, Stopping
  <2>2. gui' \in Screens
    BY <1>13, ScreenType DEF Destroy
  <2> QED BY <1>13, <2>1, <2>2 DEF Destroy
<1>14. CASE Joined
  <2>1. gui' \in Screens
    <3>1. [gui EXCEPT !.at = <<"idle">>, !.screen = "off", !.name = NoName] \in Screens
          /\ [gui EXCEPT !.at = <<"idle">>] \in Screens
      BY ScreenType
    <3> QED BY <1>14, <3>1 DEF Joined
  <2> QED BY <1>14, <2>1 DEF Joined
<1>15. CASE Crash
  <2>1. gui' \in Screens
    BY <1>15, ScreenType DEF Crash
  <2> QED BY <1>15, <2>1 DEF Crash
<1>16. CASE DaemonUp \/ DaemonGone
  BY <1>16 DEF DaemonUp, DaemonGone
<1>17. CASE UNCHANGED vars
  BY <1>17 DEF vars, session
<1> QED BY <1>1, <1>2, <1>3, <1>4, <1>5, <1>6, <1>7, <1>8, <1>9, <1>10, <1>11, <1>12, <1>13,
           <1>14, <1>15, <1>16, <1>17 DEF Next, UserActs

LEMMA TypesStep == Types /\ ThreadIsOfTheLogin /\ [Next]_vars => Types'
BY TypesFiles, TypesSession DEF Types, Screens

-----------------------------------------------------------------------------
(* What the steps do to the records of the session.                        *)

SameScreen == gui'.screen = gui.screen /\ gui'.tries = gui.tries

SameKdf == kdf'.thread = kdf.thread /\ kdf'.running = kdf.running

LEMMA CreateEffects ==
    ASSUME Types, NEW n \in Names
    PROVE  /\ \A pass \in Passwords, secret \in Seeds : CreateSeed(n, pass, secret) =>
                SameScreen /\ gui'.at = <<"create", n, pass>>
           /\ \A pass \in Passwords : CreateRest(n, pass) =>
                SameScreen /\ gui'.at = <<"configure", n>>
           /\ CreateConfig(n) => SameScreen /\ gui'.at = <<"idle">>
BY DEF Types, CreateSeed, CreateRest, CreateConfig, SameScreen

LEMMA LoginEffects ==
    ASSUME Types, NEW n \in Names, NEW typed \in Typed, Login(n, typed), Opens(n, typed)
    PROVE  /\ gui'.screen = "loading" /\ gui'.at = gui.at /\ gui'.tries = gui.tries
           /\ kdf'.thread = "polling" /\ kdf'.running = kdf.running /\ kdf'.marked = kdf.marked
           /\ login'.name = n /\ login'.pass = Key(n, typed) /\ login'.secret = seed[n].secret
           /\ login' # Nobody
           /\ seed[n] # NoFile /\ seed[n].pass = Key(n, typed) /\ seed[n] \in Wallet
<1>1. seed[n] \in Wallet /\ seed[n] # NoFile /\ seed[n].pass = Key(n, typed)
  BY DEF Types, Login, Opens
<1>2. login' = [name |-> n, pass |-> Key(n, typed), secret |-> seed[n].secret]
  BY DEF Login
<1>3. login' \in [name : Names, pass : Passwords, secret : Seeds]
  BY <1>1, <1>2 DEF Wallet
<1>4. login' # Nobody
  BY <1>3, SessionAssumption
<1>5. kdf' = [kdf EXCEPT !.status = "initializing_kdf", !.thread = "polling"]
      /\ gui' = [gui EXCEPT !.screen = "loading", !.name = n, !.pin = WithPin(n, typed)]
  BY DEF Login
<1> QED BY <1>1, <1>2, <1>4, <1>5 DEF Types

LEMMA ThreadEffects ==
    ASSUME Types
    PROVE  /\ Poll /\ Alive =>
                /\ gui'.screen = (IF gui.screen = "loading" THEN "dashboard" ELSE gui.screen)
                /\ gui'.at = gui.at /\ gui'.tries = gui.tries
                /\ kdf'.thread = "enabling" /\ kdf'.running = kdf.running /\ kdf'.marked = kdf.marked
           /\ Poll /\ ~Alive =>
                /\ gui'.screen = gui.screen /\ gui'.at = gui.at /\ gui'.tries = gui.tries + 1
                /\ kdf'.thread = (IF gui.tries + 1 = MaxTries THEN "ended" ELSE kdf.thread)
                /\ kdf'.running = kdf.running /\ kdf'.marked = kdf.marked
           /\ EnableDefaultCoins => kdf'.thread = "ended" /\ kdf'.running /\ kdf'.marked = kdf.marked
           /\ Complete => SameKdf /\ kdf'.marked = kdf.marked
<1>1. ASSUME Poll, Alive
      PROVE  /\ gui'.screen = (IF gui.screen = "loading" THEN "dashboard" ELSE gui.screen)
             /\ gui'.at = gui.at /\ gui'.tries = gui.tries
             /\ kdf'.thread = "enabling" /\ kdf'.running = kdf.running /\ kdf'.marked = kdf.marked
  <2>1. kdf' = [kdf EXCEPT !.thread = "enabling",
                  !.status = IF gui.at = <<"joining">> THEN kdf.status ELSE "enabling_coins"]
        /\ gui' = IF gui.screen = "loading" THEN [gui EXCEPT !.screen = "dashboard"] ELSE gui
    BY <1>1 DEF Poll
  <2> QED BY <2>1 DEF Types
<1>2. ASSUME Poll, ~Alive
      PROVE  /\ gui'.screen = gui.screen /\ gui'.at = gui.at /\ gui'.tries = gui.tries + 1
             /\ kdf'.thread = (IF gui.tries + 1 = MaxTries THEN "ended" ELSE kdf.thread)
             /\ kdf'.running = kdf.running /\ kdf'.marked = kdf.marked
  BY <1>2 DEF Poll, Types
<1>3. EnableDefaultCoins => kdf'.thread = "ended" /\ kdf'.running /\ kdf'.marked = kdf.marked
  BY DEF EnableDefaultCoins, Types
<1>4. Complete => SameKdf /\ kdf'.marked = kdf.marked
  BY DEF Complete, Types, SameKdf
<1> QED BY <1>1, <1>2, <1>3, <1>4

LEMMA EndEffects ==
    ASSUME Types
    PROVE  /\ \A screen \in {"startup", "dashboard"} : Disconnect(screen) =>
                /\ gui'.screen = screen /\ gui'.at = gui.at /\ gui'.tries = gui.tries
                /\ SameKdf /\ kdf'.marked
           /\ Quit => /\ gui'.screen = "closing" /\ gui'.at = gui.at /\ gui'.tries = gui.tries
                      /\ SameKdf /\ kdf'.marked
           /\ Destroy => /\ SameScreen /\ gui'.at = <<"joining">>
                         /\ kdf'.thread = kdf.thread /\ ~kdf'.running /\ kdf'.marked = kdf.marked
           /\ Joined => /\ gui'.at = <<"idle">> /\ gui'.tries = gui.tries
                        /\ gui'.screen = (IF gui.screen = "closing" THEN "off" ELSE gui.screen)
                        /\ kdf'.thread = "none" /\ ~kdf'.running /\ ~kdf'.marked
           /\ Crash => /\ gui'.at = <<"idle">> /\ gui'.screen = "off" /\ gui'.tries = gui.tries
                       /\ kdf'.thread = "none" /\ ~kdf'.running /\ ~kdf'.marked
           /\ StartApp => /\ gui'.at = <<"idle">> /\ gui'.screen = "startup" /\ gui'.tries = 0
                          /\ kdf'.thread = "none" /\ ~kdf'.running /\ ~kdf'.marked
<1> USE DEF Types, SameScreen, SameKdf, NewKdf
<1>1. ASSUME NEW screen \in {"startup", "dashboard"}, Disconnect(screen)
      PROVE  /\ gui'.screen = screen /\ gui'.at = gui.at /\ gui'.tries = gui.tries
             /\ SameKdf /\ kdf'.marked
  BY <1>1 DEF Disconnect
<1>2. Quit => /\ gui'.screen = "closing" /\ gui'.at = gui.at /\ gui'.tries = gui.tries
              /\ SameKdf /\ kdf'.marked
  BY DEF Quit
<1>3. Destroy => /\ SameScreen /\ gui'.at = <<"joining">>
                 /\ kdf'.thread = kdf.thread /\ ~kdf'.running /\ kdf'.marked = kdf.marked
  BY DEF Destroy
<1>4. ASSUME Joined
      PROVE  /\ gui'.at = <<"idle">> /\ gui'.tries = gui.tries
             /\ gui'.screen = (IF gui.screen = "closing" THEN "off" ELSE gui.screen)
             /\ kdf'.thread = "none" /\ ~kdf'.running /\ ~kdf'.marked
  <2>1. CASE gui.screen = "closing"
    BY <1>4, <2>1 DEF Joined
  <2>2. CASE gui.screen # "closing"
    BY <1>4, <2>2 DEF Joined
  <2> QED BY <2>1, <2>2
<1>5. Crash => /\ gui'.at = <<"idle">> /\ gui'.screen = "off" /\ gui'.tries = gui.tries
               /\ kdf'.thread = "none" /\ ~kdf'.running /\ ~kdf'.marked
  BY DEF Crash
<1>6. StartApp => /\ gui'.at = <<"idle">> /\ gui'.screen = "startup" /\ gui'.tries = 0
                  /\ kdf'.thread = "none" /\ ~kdf'.running /\ ~kdf'.marked
  BY DEF StartApp
<1> QED BY <1>1, <1>2, <1>3, <1>4, <1>5, <1>6

-----------------------------------------------------------------------------
(* Who is logged in, and what the thread is at.                            *)

LEMMA NobodyStep == Types /\ NobodyAtStartup /\ [Next]_vars => NobodyAtStartup'
<1> SUFFICES ASSUME Types, NobodyAtStartup, [Next]_vars PROVE NobodyAtStartup'
  OBVIOUS
<1> USE AtFacts DEF NobodyAtStartup, Creating, SameScreen
<1>1. CASE UNCHANGED <<gui, login>>
  BY <1>1
<1>2. CASE StartApp \/ Crash
  <2>1. login' = Nobody /\ gui'.at = <<"idle">>
    BY <1>2, EndEffects DEF StartApp, Crash
  <2> QED BY <2>1
<1>3. ASSUME NEW n \in Names, NEW pass \in Passwords, NEW secret \in Seeds,
             CreateSeed(n, pass, secret)
      PROVE  NobodyAtStartup'
  BY <1>3, CreateEffects DEF CreateSeed, Idle
<1>4. ASSUME NEW n \in Names, NEW pass \in Passwords, CreateRest(n, pass) PROVE NobodyAtStartup'
  BY <1>4, CreateEffects DEF CreateRest
<1>5. ASSUME NEW n \in Names, CreateConfig(n) PROVE NobodyAtStartup'
  BY <1>5, CreateEffects DEF CreateConfig
<1>6. ASSUME NEW n \in Names, NEW typed \in Typed, Login(n, typed) PROVE NobodyAtStartup'
  <2>1. CASE Opens(n, typed)
    <3>1. gui'.screen = "loading" /\ gui'.at = <<"idle">>
      BY <1>6, <2>1, LoginEffects DEF Login, Idle
    <3> QED BY <3>1
  <2>2. CASE ~Opens(n, typed)
    BY <1>1, <1>6, <2>2 DEF Login
  <2> QED BY <2>1, <2>2
<1>7. CASE Poll
  <2>1. /\ gui'.at = gui.at /\ UNCHANGED login
        /\ \/ gui'.screen = gui.screen
           \/ gui.screen = "loading" /\ gui'.screen = "dashboard"
    BY <1>7, ThreadEffects DEF Poll
  <2> QED BY <2>1
<1>8. CASE Logout \/ ConnectionDropped
  <2>1. gui'.at = <<"idle">>
    BY <1>8, EndEffects DEF Logout, ConnectionDropped, Idle
  <2>2. login' = Nobody \/ gui'.screen = "dashboard"
    BY <1>8, EndEffects DEF Logout, ConnectionDropped
  <2> QED BY <2>1, <2>2
<1>9. CASE Quit \/ Destroy \/ Joined
  <2>1. gui'.at \in {<<"idle">>, <<"joining">>}
    BY <1>9, EndEffects DEF Quit
  <2>2. CASE Quit
    BY <2>1, <2>2, EndEffects DEF Quit
  <2>3. CASE Destroy
    BY <2>1, <2>3, EndEffects DEF Destroy
  <2>4. CASE Joined
    BY <2>1, <2>4, EndEffects DEF Joined
  <2> QED BY <1>9, <2>2, <2>3, <2>4
<1>10. CASE \/ \E n \in Names, typed \in Typed : DeleteWallet(n, typed)
            \/ \E s \in PinSuffixes : SetEmergencyPassword(s)
            \/ SetStaticRpcpassEnabled
            \/ \E what \in {"priv_keys", "public_key"} : Fetch(what) \/ Fetched(what) \/ FetchFails(what)
  BY <1>1, <1>10 DEF DeleteWallet, SetEmergencyPassword, SetStaticRpcpassEnabled, Fetch, Fetched,
               FetchFails, session
<1>11. CASE EnableDefaultCoins \/ Complete \/ DaemonUp \/ DaemonGone \/ UNCHANGED vars
  BY <1>1, <1>11 DEF EnableDefaultCoins, Complete, DaemonUp, DaemonGone, vars, session
<1> QED BY <1>1, <1>2, <1>3, <1>4, <1>5, <1>6, <1>7, <1>8, <1>9, <1>10, <1>11 DEF Next, UserActs

LEMMA ThreadStep ==
    Types /\ NobodyAtStartup /\ ThreadIsOfTheLogin /\ [Next]_vars => ThreadIsOfTheLogin'
<1> SUFFICES ASSUME Types, NobodyAtStartup, ThreadIsOfTheLogin, [Next]_vars
             PROVE  ThreadIsOfTheLogin'
  OBVIOUS
<1> USE DEF ThreadIsOfTheLogin, SameScreen, SameKdf
<1>0. gui.tries \in Nat /\ MaxTries \in Nat \ {0} /\ gui.tries \in 0..MaxTries
  BY SessionAssumption DEF Types
<1>1. CASE UNCHANGED <<gui, login, kdf>>
  BY <1>1
<1>2. CASE StartApp \/ Crash \/ Joined
  <2>1. kdf'.thread = "none"
    BY <1>2, EndEffects
  <2>2. gui'.screen \in {"startup", "dashboard"} => gui'.tries < MaxTries
    BY <1>0, <1>2, EndEffects
  <2> QED BY <2>1, <2>2
<1>3. CASE UNCHANGED <<login, kdf>> /\ SameScreen
  BY <1>3
<1>4. CASE \/ \E n \in Names, pass \in Passwords, secret \in Seeds : CreateSeed(n, pass, secret)
           \/ \E n \in Names, pass \in Passwords : CreateRest(n, pass)
           \/ \E n \in Names : CreateConfig(n)
  BY <1>3, <1>4, CreateEffects DEF CreateSeed, CreateRest, CreateConfig
<1>5. ASSUME NEW n \in Names, NEW typed \in Typed, Login(n, typed) PROVE ThreadIsOfTheLogin'
  <2>1. CASE Opens(n, typed)
    BY <1>5, <2>1, LoginEffects DEF Login, Idle
  <2>2. CASE ~Opens(n, typed)
    BY <1>1, <1>5, <2>2 DEF Login
  <2> QED BY <2>1, <2>2
<1>6. CASE Poll
  <2>1. kdf.thread = "polling" /\ UNCHANGED login
    BY <1>6 DEF Poll
  <2>2. CASE Alive
    BY <1>6, <2>1, <2>2, ThreadEffects
  <2>3. CASE ~Alive
    <3>1. gui.tries + 1 # MaxTries => gui.tries + 1 < MaxTries
      BY <1>0, <2>1
    <3> QED BY <1>6, <2>1, <2>3, <3>1, ThreadEffects
  <2> QED BY <2>2, <2>3
<1>7. CASE EnableDefaultCoins \/ Complete
  BY <1>7, ThreadEffects DEF EnableDefaultCoins, Complete
<1>8. CASE Logout \/ ConnectionDropped
  <2>1. gui.screen = "dashboard" /\ SameKdf /\ kdf'.marked /\ gui'.tries = gui.tries
    BY <1>8, EndEffects DEF Logout, ConnectionDropped, Idle
  <2> QED BY <2>1
<1>9. CASE Quit \/ Destroy
  <2>1. UNCHANGED login
    BY <1>9 DEF Quit, Destroy
  <2> QED BY <1>9, <2>1, EndEffects
<1>10. CASE \/ \E n \in Names, typed \in Typed : DeleteWallet(n, typed)
            \/ \E s \in PinSuffixes : SetEmergencyPassword(s)
            \/ SetStaticRpcpassEnabled
            \/ \E what \in {"priv_keys", "public_key"} : Fetch(what) \/ Fetched(what) \/ FetchFails(what)
  BY <1>1, <1>10 DEF DeleteWallet, SetEmergencyPassword, SetStaticRpcpassEnabled, Fetch, Fetched,
               FetchFails, session
<1>11. CASE DaemonUp \/ DaemonGone \/ UNCHANGED vars
  BY <1>1, <1>11 DEF DaemonUp, DaemonGone, vars, session
<1> QED BY <1>2, <1>4, <1>5, <1>6, <1>7, <1>8, <1>9, <1>10, <1>11 DEF Next, UserActs

-----------------------------------------------------------------------------
(* The files of a wallet.                                                  *)

\* The excuses for a wallet go only when its configuration is written or it opens.
LEMMA ExcusesKept ==
    ASSUME [Next]_vars, NEW m \in Names, Excused(m), ~Excused(m)'
    PROVE  \/ CreateConfig(m)
           \/ \E typed \in Typed : Login(m, typed) /\ Opens(m, typed)
<1>1. ~(excuses \subseteq excuses')
  BY DEF Excused
<1> USE <1>1
<1>2. CASE \E n \in Names : CreateConfig(n)
  <2>1. PICK n \in Names : CreateConfig(n)
    BY <1>2
  <2>2. CASE n = m
    BY <2>1, <2>2
  <2>3. CASE n # m
    <3>1. <<"mistyped", m>> \notin {<<"mistyped", n>>, <<"halfway", n>>}
          /\ <<"halfway", m>> \notin {<<"mistyped", n>>, <<"halfway", n>>}
      BY <2>3
    <3> QED BY <2>1, <3>1 DEF CreateConfig, Excused
  <2> QED BY <2>2, <2>3
<1>3. CASE \E n \in Names, typed \in Typed : Login(n, typed)
  <2>1. PICK n \in Names, typed \in Typed : Login(n, typed)
    BY <1>3
  <2>2. Opens(n, typed)
    BY <2>1 DEF Login
  <2>3. CASE n = m
    BY <2>1, <2>2, <2>3
  <2>4. CASE n # m
    <3>1. <<"mistyped", m>> # <<"mistyped", n>> /\ <<"halfway", m>> # <<"mistyped", n>>
      BY <2>4
    <3> QED BY <2>1, <2>2, <3>1 DEF Login, Excused
  <2> QED BY <2>3, <2>4
<1>4. CASE UNCHANGED vars
  BY <1>4 DEF vars
<1>5. CASE UserActs /\ ~ \E n \in Names, typed \in Typed : Login(n, typed)
  BY <1>5 DEF UserActs, StartApp, CreateSeed, DeleteWallet, SetEmergencyPassword,
              SetStaticRpcpassEnabled, Fetch, Logout, Quit
<1>6. CASE \/ \E n \in Names, pass \in Passwords : CreateRest(n, pass)
           \/ \E what \in {"priv_keys", "public_key"} : Fetched(what) \/ FetchFails(what)
           \/ Poll \/ EnableDefaultCoins \/ Complete \/ ConnectionDropped \/ Destroy
           \/ Joined \/ Crash \/ DaemonUp \/ DaemonGone
  BY <1>6 DEF CreateRest, Fetched, FetchFails, Poll, EnableDefaultCoins, Complete,
              ConnectionDropped, Destroy, Joined, Crash, DaemonUp, DaemonGone
<1> QED BY <1>2, <1>3, <1>4, <1>5, <1>6 DEF Next

\* The steps that leave the files and the GUI thread where they are.
FilesAreLeft == UNCHANGED <<seed, rpcpass, config, chosen>> /\ gui'.at = gui.at

LEMMA FilesKept ==
    ASSUME FilesFit, FilesAreLeft, \A m \in Names : Excused(m) => Excused(m)'
    PROVE  FilesFit'
BY DEF FilesFit, FilesAreLeft, Creating

LEMMA FilesStep == Types /\ NobodyAtStartup /\ FilesFit /\ [Next]_vars => FilesFit'
<1> SUFFICES ASSUME Types, NobodyAtStartup, FilesFit, [Next]_vars PROVE FilesFit'
  OBVIOUS
<1> USE AtFacts
<1>1. ASSUME NEW n \in Names, NEW pass \in Passwords, NEW secret \in Seeds,
             CreateSeed(n, pass, secret)
      PROVE  FilesFit'
  <2>1. /\ gui.at = <<"idle">> /\ gui'.at = <<"create", n, pass>>
        /\ UNCHANGED <<rpcpass, config, chosen, excuses>>
        /\ seed' = [seed EXCEPT ![n] = [pass |-> pass, secret |-> secret]]
    BY <1>1, CreateEffects DEF CreateSeed, Idle
  <2>2. seed'[n].pass = pass /\ seed'[n] # NoFile
    BY <2>1, SessionAssumption DEF Types
  <2>3. \A m \in Names : m # n => seed'[m] = seed[m]
    BY <2>1 DEF Types
  <2>4. Creating(n)' /\ \A m \in Names : ~Creating(m)
    BY <2>1, IdleCreatesNothing DEF Creating
  <2>5. \A m \in Names : Excused(m)' <=> Excused(m)
    BY <2>1 DEF Excused
  <2> QED BY <2>1, <2>2, <2>3, <2>4, <2>5 DEF FilesFit
<1>2. ASSUME NEW n \in Names, NEW pass \in Passwords, CreateRest(n, pass) PROVE FilesFit'
  <2>1. /\ gui.at = <<"create", n, pass>> /\ gui'.at = <<"configure", n>>
        /\ UNCHANGED <<seed, config, chosen, excuses>> /\ rpcpass' = [rpcpass EXCEPT ![n] = pass]
    BY <1>2, CreateEffects DEF CreateRest
  <2>2. rpcpass'[n] = pass /\ \A m \in Names : m # n => rpcpass'[m] = rpcpass[m]
    BY <2>1 DEF Types
  <2>3. Creating(n)' /\ \A m \in Names : m # n => ~Creating(m)
    BY <2>1 DEF Creating
  <2>4. \A m \in Names : Excused(m)' <=> Excused(m)
    BY <2>1 DEF Excused
  <2> QED BY <2>1, <2>2, <2>3, <2>4 DEF FilesFit
<1>3. ASSUME NEW n \in Names, CreateConfig(n) PROVE FilesFit'
  <2>1. /\ gui.at = <<"configure", n>> /\ gui'.at = <<"idle">>
        /\ UNCHANGED <<seed, rpcpass>> /\ config' = [config EXCEPT ![n] = DefaultSuffix]
        /\ chosen' = [chosen EXCEPT ![n] = NoFile]
    BY <1>3, CreateEffects DEF CreateConfig
  <2>2. /\ config'[n] = DefaultSuffix /\ DefaultSuffix # NoFile /\ chosen'[n] = NoFile
        /\ \A m \in Names : m # n => config'[m] = config[m] /\ chosen'[m] = chosen[m]
    BY <2>1, SessionAssumption DEF Types
  <2>3. \A m \in Names : m # n => ~Creating(m)
    BY <2>1 DEF Creating
  <2>4. \A m \in Names : m # n /\ Excused(m) => Excused(m)'
    <3> SUFFICES ASSUME NEW m \in Names, m # n, Excused(m), ~Excused(m)' PROVE FALSE
      OBVIOUS
    <3>1. <<"configure", m>> # <<"configure", n>> /\ <<"configure", m>> # <<"idle">>
      OBVIOUS
    <3> QED BY <1>3, <2>1, <3>1, ExcusesKept DEF CreateConfig, Login, Idle
  <2> QED BY <2>1, <2>2, <2>3, <2>4 DEF FilesFit
<1>4. ASSUME NEW n \in Names, NEW typed \in Typed, Login(n, typed) PROVE FilesFit'
  <2>1. /\ gui.at = <<"idle">> /\ UNCHANGED <<seed, config, chosen>> /\ gui'.at = gui.at
        /\ rpcpass' = RpcpassAfter(n, typed)
    <3>1. gui'.at = gui.at
      BY <1>4, LoginEffects DEF Login
    <3> QED BY <1>4, <3>1 DEF Login, Idle
  <2>2. \A m \in Names : m # n => rpcpass'[m] = rpcpass[m]
    BY <2>1 DEF RpcpassAfter, Types
  <2>3. \A m \in Names : ~Creating(m) /\ ~Creating(m)'
    BY <2>1, IdleCreatesNothing DEF Creating
  <2>4. CASE Opens(n, typed)
    <3>1. config[n] # NoFile /\ rpcpass'[n] = seed[n].pass
      BY <2>1, <2>4 DEF Opens, RpcpassAfter, Types
    <3>2. \A m \in Names : m # n /\ Excused(m) => Excused(m)'
      <4> SUFFICES ASSUME NEW m \in Names, m # n, Excused(m) PROVE Excused(m)'
        OBVIOUS
      <4>1. <<"mistyped", m>> # <<"mistyped", n>> /\ <<"halfway", m>> # <<"mistyped", n>>
        OBVIOUS
      <4>2. excuses \ {<<"mistyped", n>>} \subseteq excuses'
        BY <1>4, <2>4 DEF Login
      <4> QED BY <4>1, <4>2 DEF Excused
    <3> QED BY <2>1, <2>2, <2>3, <3>1, <3>2 DEF FilesFit
  <2>5. CASE ~Opens(n, typed)
    <3>1. excuses' = IF rpcpass' # rpcpass THEN excuses \union {<<"mistyped", n>>} ELSE excuses
      BY <1>4, <2>5 DEF Login
    <3>2. /\ \A m \in Names : Excused(m) => Excused(m)'
          /\ rpcpass' = rpcpass \/ Excused(n)'
      BY <3>1 DEF Excused
    <3> QED BY <2>1, <2>2, <2>3, <3>2 DEF FilesFit
  <2> QED BY <2>4, <2>5
<1>5. ASSUME NEW n \in Names, NEW typed \in Typed, DeleteWallet(n, typed) PROVE FilesFit'
  <2>1. /\ gui.at = <<"idle">> /\ UNCHANGED <<rpcpass, config, chosen, excuses, gui>>
        /\ seed' = [seed EXCEPT ![n] = NoFile]
    BY <1>5 DEF DeleteWallet, Idle, session
  <2>2. seed'[n] = NoFile /\ \A m \in Names : m # n => seed'[m] = seed[m]
    BY <2>1 DEF Types
  <2>3. \A m \in Names : Excused(m)' <=> Excused(m)
    BY <2>1 DEF Excused
  <2>4. \A m \in Names : ~Creating(m)
    BY <2>1, IdleCreatesNothing
  <2> QED BY <2>1, <2>2, <2>3, <2>4 DEF FilesFit
<1>6. ASSUME NEW s \in PinSuffixes, SetEmergencyPassword(s) PROVE FilesFit'
  <2>1. /\ gui.at = <<"idle">> /\ UNCHANGED <<seed, rpcpass, excuses, gui>> /\ login.name \in Names
        /\ config' = [config EXCEPT ![login.name] = s] /\ chosen' = [chosen EXCEPT ![login.name] = s]
    BY <1>6 DEF SetEmergencyPassword, Idle, Types
  <2>2. /\ config'[login.name] = s /\ chosen'[login.name] = s /\ s # NoFile
        /\ \A m \in Names : m # login.name => config'[m] = config[m] /\ chosen'[m] = chosen[m]
    BY <2>1, SessionAssumption DEF Types
  <2>3. \A m \in Names : Excused(m)' <=> Excused(m)
    BY <2>1 DEF Excused
  <2>4. \A m \in Names : ~Creating(m)
    BY <2>1, IdleCreatesNothing
  <2> QED BY <2>1, <2>2, <2>3, <2>4 DEF FilesFit
<1>7. CASE Crash
  <2>1. UNCHANGED <<seed, rpcpass, config, chosen>> /\ gui'.at = <<"idle">>
    BY <1>7, EndEffects DEF Crash, disk
  <2>2. \A m \in Names : Excused(m) \/ Creating(m) => Excused(m)'
    <3> SUFFICES ASSUME NEW m \in Names, Excused(m) \/ Creating(m) PROVE Excused(m)'
      OBVIOUS
    <3> DEFINE Halfway == {k \in Names : gui.at = <<"configure", k>>
                             \/ \E pass \in Passwords : gui.at = <<"create", k, pass>>}
    <3>1. excuses' = excuses \union {<<"halfway", k>> : k \in Halfway}
      BY <1>7 DEF Crash
    <3>2. CASE Excused(m)
      BY <3>1, <3>2 DEF Excused
    <3>3. CASE Creating(m)
      <4>1. m \in Halfway
        BY <3>3 DEF Creating
      <4> HIDE DEF Halfway
      <4>2. <<"halfway", m>> \in excuses'
        BY <3>1, <4>1
      <4> QED BY <4>2 DEF Excused
    <3> QED BY <3>2, <3>3
  <2> QED BY <2>1, <2>2 DEF FilesFit
<1>8. CASE StartApp \/ Destroy \/ Joined
  <2>1. /\ UNCHANGED <<seed, rpcpass, config, chosen>> /\ gui'.at \in {<<"idle">>, <<"joining">>}
        /\ excuses \subseteq excuses'
    BY <1>8, EndEffects DEF StartApp, Destroy, Joined, disk
  <2>2. \A m \in Names : ~Creating(m)
    <3>1. CASE StartApp
      BY <3>1 DEF StartApp, NobodyAtStartup
    <3>2. CASE Destroy \/ Joined
      BY <3>2, IdleCreatesNothing DEF Destroy, Joined
    <3> QED BY <1>8, <3>1, <3>2
  <2>3. \A m \in Names : Excused(m) => Excused(m)'
    BY <2>1 DEF Excused
  <2> QED BY <2>1, <2>2, <2>3 DEF FilesFit
<1>9. ASSUME FilesAreLeft, excuses \subseteq excuses' PROVE FilesFit'
  BY <1>9, FilesKept DEF Excused
<1>10. CASE \/ SetStaticRpcpassEnabled \/ Logout \/ Quit \/ ConnectionDropped
            \/ \E what \in {"priv_keys", "public_key"} : Fetch(what) \/ Fetched(what) \/ FetchFails(what)
  <2>1. gui'.at = gui.at
    BY <1>10, EndEffects DEF SetStaticRpcpassEnabled, Logout, ConnectionDropped, Fetch, Fetched,
                             FetchFails, session
  <2> QED BY <1>9, <1>10, <2>1
          DEF FilesAreLeft, SetStaticRpcpassEnabled, Logout, Quit, ConnectionDropped, Fetch, Fetched,
              FetchFails, disk
<1>11. CASE Poll \/ EnableDefaultCoins \/ Complete \/ DaemonUp \/ DaemonGone
  <2>1. gui'.at = gui.at
    BY <1>11, ThreadEffects DEF EnableDefaultCoins, Complete, DaemonUp, DaemonGone
  <2> QED BY <1>9, <1>11, <2>1
          DEF FilesAreLeft, Poll, EnableDefaultCoins, Complete, DaemonUp, DaemonGone, disk
<1>12. CASE UNCHANGED vars
  BY <1>9, <1>12 DEF FilesAreLeft, vars, disk, session
<1> QED BY <1>1, <1>2, <1>3, <1>4, <1>5, <1>6, <1>7, <1>8, <1>10, <1>11, <1>12 DEF Next, UserActs

-----------------------------------------------------------------------------
(* The password of the session, its daemon and its calls.                  *)

LEMMA ConfirmStep ==
    Types /\ NobodyAtStartup /\ SessionConfirms /\ [Next]_vars => SessionConfirms'
<1> SUFFICES ASSUME Types, NobodyAtStartup, SessionConfirms, [Next]_vars,
                    login' # Nobody, seed'[login'.name] # NoFile
             PROVE  login'.name \in Names /\ rpcpass'[login'.name] = seed'[login'.name].pass
  BY DEF SessionConfirms, Confirmed
<1> DEFINE Goal == login'.name \in Names /\ rpcpass'[login'.name] = seed'[login'.name].pass
<1>1. ASSUME UNCHANGED <<seed, rpcpass, login>> PROVE Goal
  BY <1>1 DEF SessionConfirms, Confirmed
<1>2. ASSUME gui.screen = "startup", login' = login PROVE FALSE
  BY <1>2 DEF NobodyAtStartup
<1>3. CASE \E n \in Names, pass \in Passwords, secret \in Seeds : CreateSeed(n, pass, secret)
  BY <1>2, <1>3 DEF CreateSeed, Idle
<1>4. CASE \E n \in Names, pass \in Passwords : CreateRest(n, pass)
  <2>1. PICK n \in Names, pass \in Passwords : CreateRest(n, pass)
    BY <1>4
  <2>2. gui.screen = "startup"
    BY <2>1 DEF CreateRest, NobodyAtStartup, Creating
  <2> QED BY <1>2, <2>1, <2>2 DEF CreateRest
<1>5. ASSUME NEW n \in Names, NEW typed \in Typed, Login(n, typed) PROVE Goal
  <2>1. CASE Opens(n, typed)
    <3>1. login'.name = n /\ seed[n].pass = Key(n, typed) /\ seed' = seed
          /\ rpcpass' = RpcpassAfter(n, typed)
      BY <1>5, <2>1, LoginEffects DEF Login
    <3>2. rpcpass'[n] = Key(n, typed)
      BY <2>1, <3>1 DEF Opens, RpcpassAfter, Types
    <3> QED BY <3>1, <3>2
  <2>2. CASE ~Opens(n, typed)
    BY <1>2, <1>5, <2>2 DEF Login, Idle
  <2> QED BY <2>1, <2>2
<1>6. ASSUME NEW n \in Names, NEW typed \in Typed, DeleteWallet(n, typed) PROVE Goal
  <2>1. login' = login /\ rpcpass' = rpcpass /\ seed' = [seed EXCEPT ![n] = NoFile]
    BY <1>6 DEF DeleteWallet, session
  <2>2. seed'[n] = NoFile /\ \A m \in Names : m # n => seed'[m] = seed[m]
    BY <2>1 DEF Types
  <2>3. login.name \in Names
    BY <2>1 DEF Types
  <2> QED BY <2>1, <2>2, <2>3 DEF SessionConfirms, Confirmed
<1>7. CASE StartApp \/ Logout \/ Crash
  BY <1>7 DEF StartApp, Logout, Crash
<1>8. CASE Joined
  BY <1>1, <1>8 DEF Joined, disk
<1>9. CASE UserActs /\ ~ StartApp /\ ~ Logout
           /\ ~ (\E n \in Names, pass \in Passwords, secret \in Seeds : CreateSeed(n, pass, secret))
           /\ ~ (\E n \in Names, typed \in Typed : Login(n, typed) \/ DeleteWallet(n, typed))
  BY <1>1, <1>9 DEF UserActs, SetEmergencyPassword, SetStaticRpcpassEnabled, Fetch, Quit, disk, session
<1>10. CASE \/ \E n \in Names : CreateConfig(n)
            \/ \E what \in {"priv_keys", "public_key"} : Fetched(what) \/ FetchFails(what)
  BY <1>1, <1>10 DEF CreateConfig, Fetched, FetchFails, disk
<1>11. CASE \/ Poll \/ EnableDefaultCoins \/ Complete \/ ConnectionDropped \/ Destroy
            \/ DaemonUp \/ DaemonGone \/ UNCHANGED vars
  BY <1>1, <1>11 DEF Poll, EnableDefaultCoins, Complete, ConnectionDropped, Destroy, DaemonUp,
               DaemonGone, vars, disk, session
<1> QED BY <1>3, <1>4, <1>5, <1>6, <1>7, <1>8, <1>9, <1>10, <1>11 DEF Next, UserActs

\* What excuses the daemon stays for good.
LEMMA DaemonStaysExcused == ASSUME [Next]_vars, DaemonExcused PROVE DaemonExcused'
<1>1. ASSUME excuses \subseteq excuses' PROVE DaemonExcused'
  BY <1>1 DEF DaemonExcused
<1>2. CASE \E n \in Names : CreateConfig(n)
  <2>1. PICK n \in Names : CreateConfig(n)
    BY <1>2
  <2>2. {<<"port_taken">>, <<"left_running">>} \intersect {<<"mistyped", n>>, <<"halfway", n>>} = {}
    OBVIOUS
  <2> QED BY <2>1, <2>2 DEF CreateConfig, DaemonExcused
<1>3. CASE \E n \in Names, typed \in Typed : Login(n, typed)
  <2>1. PICK n \in Names, typed \in Typed : Login(n, typed)
    BY <1>3
  <2>2. {<<"port_taken">>, <<"left_running">>} \intersect {<<"mistyped", n>>} = {}
    OBVIOUS
  <2>3. excuses \ {<<"mistyped", n>>} \subseteq excuses'
    BY <2>1 DEF Login
  <2> QED BY <2>2, <2>3 DEF DaemonExcused
<1>4. CASE UserActs /\ ~ \E n \in Names, typed \in Typed : Login(n, typed)
  BY <1>1, <1>4 DEF UserActs, StartApp, CreateSeed, DeleteWallet, SetEmergencyPassword,
              SetStaticRpcpassEnabled, Fetch, Logout, Quit
<1>5. CASE \/ \E n \in Names, pass \in Passwords : CreateRest(n, pass)
           \/ \E what \in {"priv_keys", "public_key"} : Fetched(what) \/ FetchFails(what)
           \/ Poll \/ EnableDefaultCoins \/ Complete \/ ConnectionDropped \/ Destroy
           \/ Joined \/ Crash \/ DaemonUp \/ DaemonGone \/ UNCHANGED vars
  BY <1>1, <1>5 DEF CreateRest, Fetched, FetchFails, Poll, EnableDefaultCoins, Complete,
              ConnectionDropped, Destroy, Joined, Crash, DaemonUp, DaemonGone, vars
<1> QED BY <1>2, <1>3, <1>4, <1>5 DEF Next

LEMMA DaemonEffects ==
    ASSUME Types
    PROVE  /\ Stopping.state = (IF daemon.state = "none" THEN "none" ELSE "stopping")
           /\ Stopping.secret = daemon.secret
           /\ \A secret \in Seeds :
                daemon.state = "none" => /\ Spawned(secret).state = "starting"
                                         /\ Spawned(secret).secret = secret
           /\ DaemonUp => /\ daemon.state = "starting" /\ daemon'.state = "up"
                          /\ daemon'.secret = daemon.secret
BY DEF Types, Stopping, Spawned, DaemonUp

LEMMA DaemonStep ==
    Types /\ NobodyAtStartup /\ DaemonIsOfTheLogin /\ [Next]_vars => DaemonIsOfTheLogin'
<1> SUFFICES ASSUME Types, NobodyAtStartup, DaemonIsOfTheLogin, [Next]_vars
             PROVE  DaemonIsOfTheLogin'
  OBVIOUS
<1> USE AtFacts DEF DaemonIsOfTheLogin, Serving
<1>0. DaemonExcused => DaemonExcused'
  BY DaemonStaysExcused
<1>1. ASSUME UNCHANGED <<daemon, login>>, gui'.screen = "off" <=> gui.screen = "off",
             kdf'.marked = kdf.marked, gui'.at = <<"joining">> => gui.at = <<"joining">>
      PROVE  DaemonIsOfTheLogin'
  BY <1>0, <1>1
<1>2. ASSUME UNCHANGED <<daemon, login, gui, kdf>> PROVE DaemonIsOfTheLogin'
  BY <1>1, <1>2
<1>3. CASE StartApp \/ DaemonGone
  <2>1. daemon' = [state |-> "none", secret |-> NoDaemon]
    BY <1>3 DEF StartApp, DaemonGone
  <2> QED BY <2>1
<1>4. ASSUME NEW n \in Names, NEW pass \in Passwords, NEW secret \in Seeds,
             CreateSeed(n, pass, secret)
      PROVE  DaemonIsOfTheLogin'
  <2>1. gui'.screen = gui.screen /\ gui'.at # <<"joining">>
    BY <1>4, CreateEffects DEF SameScreen
  <2>2. UNCHANGED <<daemon, login, kdf>>
    BY <1>4 DEF CreateSeed
  <2> QED BY <1>1, <2>1, <2>2
<1>5. ASSUME NEW n \in Names, NEW typed \in Typed, Login(n, typed) PROVE DaemonIsOfTheLogin'
  <2>1. CASE Opens(n, typed)
    <3>1. /\ login'.secret = seed[n].secret /\ seed[n] \in Wallet /\ login' # Nobody
          /\ daemon' = Spawned(seed[n].secret)
      BY <1>5, <2>1, LoginEffects DEF Login
    <3>2. seed[n].secret \in Seeds /\ seed[n].secret # NoDaemon
      BY <3>1, SessionAssumption DEF Wallet
    <3>3. CASE daemon.state = "none"
      BY <3>1, <3>2, <3>3, DaemonEffects
    <3>4. CASE daemon.state # "none"
      <4>1. daemon' = daemon
        BY <3>1, <3>4 DEF Spawned
      <4>2. Serving => DaemonExcused
        BY <1>5 DEF Login, Idle, NobodyAtStartup
      <4> QED BY <1>0, <3>1, <4>1, <4>2
    <3> QED BY <3>3, <3>4
  <2>2. CASE ~Opens(n, typed)
    BY <1>2, <1>5, <2>2 DEF Login
  <2> QED BY <2>1, <2>2
<1>6. CASE Poll
  <2>1. /\ gui'.at = gui.at /\ UNCHANGED <<daemon, login>> /\ kdf'.marked = kdf.marked
        /\ gui'.screen = "off" <=> gui.screen = "off"
    BY <1>6, ThreadEffects DEF Poll
  <2> QED BY <1>1, <2>1
<1>7. CASE EnableDefaultCoins \/ Complete
  <2>1. UNCHANGED <<gui, daemon, login>> /\ kdf'.marked = kdf.marked
    BY <1>7, ThreadEffects DEF EnableDefaultCoins, Complete
  <2> QED BY <1>1, <2>1
<1>8. CASE Logout \/ ConnectionDropped \/ Quit
  <2>1. /\ gui'.at = <<"idle">> /\ kdf'.marked /\ daemon' = daemon
        /\ login' = login \/ login' = Nobody
    BY <1>8, EndEffects DEF Logout, ConnectionDropped, Quit, Idle
  <2> QED BY <1>0, <2>1
<1>9. CASE Destroy
  <2>1. daemon' = StoppedDaemon
    BY <1>9 DEF Destroy
  <2>2. CASE kdf.running
    BY <2>1, <2>2, DaemonEffects DEF StoppedDaemon
  <2>3. CASE ~kdf.running
    <3>1. daemon' = daemon
      BY <2>1, <2>3 DEF StoppedDaemon
    <3>2. daemon.state # "none" => DaemonExcused'
      BY <1>9, <2>3 DEF Destroy, DaemonExcused
    <3> QED BY <3>1, <3>2
  <2> QED BY <2>2, <2>3
<1>10. CASE Joined
  <2>1. /\ gui.at = <<"joining">> /\ daemon' = daemon
        /\ gui'.screen = (IF gui.screen = "closing" THEN "off" ELSE gui.screen)
        /\ login' = IF gui.screen = "closing" THEN Nobody ELSE login
    BY <1>10, EndEffects DEF Joined
  <2> QED BY <1>0, <2>1
<1>11. CASE Crash
  <2>1. gui'.screen = "off" /\ login' = Nobody /\ daemon' = daemon
    BY <1>11, EndEffects DEF Crash
  <2> QED BY <2>1
<1>12. CASE DaemonUp
  <2>1. UNCHANGED <<gui, login, kdf>> /\ daemon.state = "starting" /\ daemon'.state = "up"
        /\ daemon'.secret = daemon.secret
    BY <1>12, DaemonEffects DEF DaemonUp
  <2> QED BY <1>0, <2>1
<1>13. CASE \/ \E n \in Names, typed \in Typed : DeleteWallet(n, typed)
            \/ \E s \in PinSuffixes : SetEmergencyPassword(s)
            \/ SetStaticRpcpassEnabled
            \/ \E what \in {"priv_keys", "public_key"} : Fetch(what) \/ Fetched(what) \/ FetchFails(what)
            \/ UNCHANGED vars
  BY <1>2, <1>13 DEF DeleteWallet, SetEmergencyPassword, SetStaticRpcpassEnabled, Fetch, Fetched,
               FetchFails, session, vars
<1>14. CASE \E n \in Names : CreateConfig(n)
  <2>1. PICK n \in Names : CreateConfig(n)
    BY <1>14
  <2>2. gui'.screen = gui.screen /\ gui'.at # <<"joining">>
    BY <2>1, CreateEffects DEF SameScreen
  <2> QED BY <1>1, <2>1, <2>2 DEF CreateConfig
<1>15. CASE \E n \in Names, pass \in Passwords : CreateRest(n, pass)
  <2>1. PICK n \in Names, pass \in Passwords : CreateRest(n, pass)
    BY <1>15
  <2>2. gui'.screen = gui.screen /\ gui'.at # <<"joining">>
    BY <2>1, CreateEffects DEF SameScreen
  <2> QED BY <1>1, <2>1, <2>2 DEF CreateRest
<1> QED BY <1>3, <1>4, <1>5, <1>6, <1>7, <1>8, <1>9, <1>10, <1>11, <1>12, <1>13, <1>14, <1>15
        DEF Next, UserActs

LEMMA CallsStep == Types /\ CallsAreBusy /\ [Next]_vars => CallsAreBusy'
<1> SUFFICES ASSUME Types, CallsAreBusy, [Next]_vars PROVE CallsAreBusy'
  OBVIOUS
<1> USE DEF CallsAreBusy, Types
<1>1. CASE \E what \in {"priv_keys", "public_key"} : Fetch(what) \/ Fetched(what) \/ FetchFails(what)
  BY <1>1 DEF Fetch, Fetched, FetchFails
<1>2. CASE StartApp \/ Crash \/ Destroy
  BY <1>2 DEF StartApp, Crash, Destroy, NoCalls
<1>3. CASE UNCHANGED fetched
  BY <1>3
<1>4. CASE UserActs /\ ~StartApp /\ ~ \E what \in {"priv_keys", "public_key"} : Fetch(what)
  BY <1>3, <1>4 DEF UserActs, CreateSeed, Login, DeleteWallet, SetEmergencyPassword,
              SetStaticRpcpassEnabled, Logout, Quit, session
<1>5. CASE \/ \E n \in Names : CreateConfig(n) \/ \E pass \in Passwords : CreateRest(n, pass)
           \/ Poll \/ EnableDefaultCoins \/ Complete \/ ConnectionDropped
           \/ Joined \/ DaemonUp \/ DaemonGone \/ UNCHANGED vars
  BY <1>3, <1>5 DEF CreateConfig, CreateRest, Poll, EnableDefaultCoins, Complete,
              ConnectionDropped, Joined, DaemonUp, DaemonGone, vars, session
<1> QED BY <1>1, <1>2, <1>4, <1>5 DEF Next, UserActs

-----------------------------------------------------------------------------
(* The theorem.                                                            *)

LEMMA SessionInit == Init => SessionInv
<1> SUFFICES ASSUME Init PROVE SessionInv
  OBVIOUS
<1>1. Types
  BY TypesInit
<1>2. \A n \in Names : seed[n] = NoFile /\ chosen[n] = NoFile
  BY DEF Init
<1>3. gui.at = <<"idle">> /\ gui.screen = "off" /\ login = Nobody
  BY DEF Init
<1>4. \A n \in Names : gui.at # <<"configure", n>> /\ \A p \in Passwords : gui.at # <<"create", n, p>>
  BY <1>3, AtFacts
<1>5. NobodyAtStartup /\ FilesFit /\ SessionConfirms
  BY <1>2, <1>3, <1>4 DEF NobodyAtStartup, FilesFit, SessionConfirms, Creating
<1>6. ThreadIsOfTheLogin /\ DaemonIsOfTheLogin /\ CallsAreBusy
  BY DEF Init, NewKdf, NoCalls, ThreadIsOfTheLogin, DaemonIsOfTheLogin, CallsAreBusy, Serving
<1> QED BY <1>1, <1>5, <1>6 DEF SessionInv

LEMMA SessionStep == SessionInv /\ [Next]_vars => SessionInv'
BY TypesStep, NobodyStep, ThreadStep, FilesStep, ConfirmStep, DaemonStep, CallsStep DEF SessionInv

\* Where the files of a wallet fit together, it opens with its password and with
\* its password and suffix.
LEMMA FitsOpens ==
    ASSUME Types, FilesFit, NEW n \in Names, seed[n] # NoFile, gui.at = <<"idle">>, ~Excused(n)
    PROVE  /\ Contained(config[n], seed[n].pass) \/ (Opens(n, seed[n].pass) /\ ~WithPin(n, seed[n].pass))
           /\ chosen[n] # NoFile =>
                Opens(n, seed[n].pass \o chosen[n]) /\ WithPin(n, seed[n].pass \o chosen[n])
<1>1. /\ config[n] # NoFile /\ rpcpass[n] = seed[n].pass /\ seed[n].pass \in Passwords
      /\ chosen[n] # NoFile => config[n] = chosen[n] /\ chosen[n] \in PinSuffixes
  BY IdleCreatesNothing DEF FilesFit, Types, Wallet
<1>2. ASSUME NEW typed, Key(n, typed) = seed[n].pass PROVE Opens(n, typed)
  BY <1>1, <1>2 DEF Opens
<1>3. ASSUME ~Contained(config[n], seed[n].pass)
      PROVE  Opens(n, seed[n].pass) /\ ~WithPin(n, seed[n].pass)
  BY <1>2, <1>3 DEF WithPin, Key
<1>4. ASSUME chosen[n] # NoFile
      PROVE  Opens(n, seed[n].pass \o chosen[n]) /\ WithPin(n, seed[n].pass \o chosen[n])
  <2> DEFINE typed == seed[n].pass \o chosen[n]
  <2>1. Contained(config[n], typed) /\ SubSeq(typed, 1, Len(typed) - Len(config[n])) = seed[n].pass
    BY <1>1, <1>4, SuffixIsCut
  <2> HIDE DEF typed
  <2>2. WithPin(n, typed) /\ Key(n, typed) = seed[n].pass
    BY <2>1 DEF WithPin, Key
  <2>3. Opens(n, typed)
    BY <1>2, <2>2
  <2> QED BY <2>2, <2>3 DEF typed
<1> QED BY <1>3, <1>4

LEMMA SessionImplies == SessionInv => SessionIsOfItsWallet
<1> SUFFICES ASSUME SessionInv PROVE SessionIsOfItsWallet
  OBVIOUS
<1> USE DEF SessionInv
<1>1. TypeOK
  <2>1. \A n \in Names : /\ seed[n] \in [pass : Passwords, secret : Seeds] \union {NoFile}
                         /\ rpcpass[n] \in Keys \union {NoFile}
                         /\ config[n] \in PinSuffixes \union {DefaultSuffix, NoFile}
    BY DEF Types, Wallet
  <2>2. /\ default \in Names \union {NoName} /\ gui.name \in Names \union {NoName}
        /\ login \in [name : Names, pass : Passwords, secret : Seeds] \union {Nobody}
        /\ gui.tries \in 0..MaxTries
    BY DEF Types
  <2> QED BY <2>1, <2>2 DEF TypeOK, ThreadIsOfTheLogin, DaemonIsOfTheLogin, CallsAreBusy
<1>2. WalletsOpen
  <2> SUFFICES ASSUME NEW n \in Names, seed[n] # NoFile, gui.at = <<"idle">>, ~Excused(n)
               PROVE  /\ Contained(config[n], seed[n].pass)
                          \/ (Opens(n, seed[n].pass) /\ ~WithPin(n, seed[n].pass))
                      /\ chosen[n] # NoFile =>
                           Opens(n, seed[n].pass \o chosen[n]) /\ WithPin(n, seed[n].pass \o chosen[n])
    BY Zenon DEF WalletsOpen, Excused
  <2> QED BY FitsOpens
<1>3. DaemonServesTheOpenWallet
  BY DEF DaemonServesTheOpenWallet, DaemonIsOfTheLogin, Serving, DaemonExcused
<1> QED BY <1>1, <1>2, <1>3 DEF SessionIsOfItsWallet

\* For any wallets, passwords and suffixes and any number of tries: a wallet that is
\* listed opens with its password and with its suffix, the screens of a session
\* accept the password of the open wallet, and the daemon that answers has its seed,
\* but for the excuses that are named (qt_wallet_manager::login and create,
\* kdf_service's destructor).
THEOREM FilesAndDaemonFollowTheWallet == Spec => []SessionIsOfItsWallet
<1>1. Init => SessionInv
  BY SessionInit
<1>2. SessionInv /\ [Next]_vars => SessionInv'
  BY SessionStep
<1>3. SessionInv => SessionIsOfItsWallet
  BY SessionImplies
<1> QED BY <1>1, <1>2, <1>3, PTL DEF Spec

-----------------------------------------------------------------------------
(* The refinement: each step is one of the vault's, or leaves it as it is. *)

LEMMA VaultInit == Init => V!Init
BY DEF Init, V!Init

LEMMA VaultStep == Types /\ NobodyAtStartup /\ [Next]_vars => [V!Next]_(V!vars)
<1> SUFFICES ASSUME Types, NobodyAtStartup, [Next]_vars PROVE [V!Next]_(V!vars)
  OBVIOUS
<1>1. ASSUME UNCHANGED <<seed, login>> PROVE [V!Next]_(V!vars)
  BY <1>1 DEF V!vars
<1>2. ASSUME UNCHANGED seed, login' = Nobody PROVE [V!Next]_(V!vars)
  BY <1>2 DEF V!Next, V!Close, V!vars
<1>3. ASSUME NEW n \in Names, NEW pass \in Passwords, NEW secret \in Seeds,
             CreateSeed(n, pass, secret)
      PROVE  V!Next
  <2>1. V!Create(n, pass, secret)
    BY <1>3 DEF CreateSeed, V!Create
  <2> QED BY <2>1 DEF V!Next
<1>4. ASSUME NEW n \in Names, NEW typed \in Typed, DeleteWallet(n, typed) PROVE V!Next
  <2>1. V!Delete(n)
    BY <1>4 DEF DeleteWallet, Confirmed, V!Delete, session
  <2> QED BY <2>1 DEF V!Next
<1>5. ASSUME NEW n \in Names, NEW typed \in Typed, Login(n, typed) PROVE [V!Next]_(V!vars)
  <2>1. CASE Opens(n, typed)
    <3>1. /\ seed[n] \in Wallet /\ seed[n] # NoFile /\ seed[n].pass = Key(n, typed)
      BY <1>5, <2>1, LoginEffects
    <3>2. /\ login' = [name |-> n, pass |-> Key(n, typed), secret |-> seed[n].secret]
          /\ seed' = seed /\ login = Nobody
      BY <1>5, <2>1 DEF Login, Idle, NobodyAtStartup
    <3>3. Key(n, typed) \in Passwords
      BY <3>1 DEF Wallet
    <3>4. V!Open(n, Key(n, typed))
      BY <3>1, <3>2 DEF V!Open
    <3> QED BY <3>3, <3>4 DEF V!Next
  <2>2. CASE ~Opens(n, typed)
    BY <1>1, <1>5, <2>2 DEF Login
  <2> QED BY <2>1, <2>2
<1>6. CASE StartApp \/ Logout \/ Crash
  BY <1>2, <1>6 DEF StartApp, Logout, Crash, disk
<1>7. CASE Joined
  BY <1>1, <1>2, <1>7 DEF Joined, disk
<1>8. CASE \/ \E s \in PinSuffixes : SetEmergencyPassword(s)
           \/ \E what \in {"priv_keys", "public_key"} : Fetch(what)
           \/ SetStaticRpcpassEnabled \/ Quit
  BY <1>1, <1>8 DEF SetEmergencyPassword, SetStaticRpcpassEnabled, Fetch, Quit, disk, session
<1>9. CASE \/ \E n \in Names : CreateConfig(n) \/ \E pass \in Passwords : CreateRest(n, pass)
           \/ \E what \in {"priv_keys", "public_key"} : Fetched(what) \/ FetchFails(what)
  BY <1>1, <1>9 DEF CreateConfig, CreateRest, Fetched, FetchFails, disk
<1>10. CASE \/ Poll \/ EnableDefaultCoins \/ Complete \/ ConnectionDropped \/ Destroy
            \/ DaemonUp \/ DaemonGone \/ UNCHANGED vars
  BY <1>1, <1>10 DEF Poll, EnableDefaultCoins, Complete, ConnectionDropped, Destroy, DaemonUp,
               DaemonGone, vars, disk, session
<1> QED BY <1>3, <1>4, <1>5, <1>6, <1>7, <1>8, <1>9, <1>10 DEF Next, UserActs

\* Whatever the wallets and passwords, the wallet manager and the session are a
\* vault: no seed is written over, a wallet opens for its own password only, one at
\* a time, and what is open is what was stored (qt_wallet_manager, logout).
THEOREM SessionImplementsVault == Spec => ImplementsVault
<1>1. Init => SessionInv /\ V!Init
  BY SessionInit, VaultInit
<1>2. SessionInv /\ [Next]_vars => SessionInv'
  BY SessionStep
<1>3. SessionInv /\ [Next]_vars => [V!Next]_(V!vars)
  BY VaultStep DEF SessionInv
<1> QED BY <1>1, <1>2, <1>3, PTL DEF Spec, ImplementsVault, V!Spec

-----------------------------------------------------------------------------
(* Sequences: what a selection and a removal leave.                        *)

LEMMA SeqOfFunction ==
  ASSUME NEW S, NEW n \in Nat, NEW f \in [1..n -> S]
  PROVE  f \in Seq(S) /\ Len(f) = n
<1>1. f \in Seq(S)
  BY SeqDef
<1> QED BY <1>1, LenProperties

\* Where what is selected stood: in the order it has, each place once.
Takes(p, o, s, at) ==
  /\ p \in [1..Len(o) -> at]
  /\ \A k \in 1..Len(o) : o[k] = s[p[k]]
  /\ \A j, k \in 1..Len(o) : j < k => p[j] < p[k]
  /\ \A i \in at : \E k \in 1..Len(o) : p[k] = i

LEMMA SelectAtIs ==
  ASSUME NEW S, NEW s \in Seq(S), NEW at \in SUBSET (1..Len(s))
  PROVE  /\ SelectAt(s, at) \in Seq(S) /\ Len(SelectAt(s, at)) = Cardinality(at)
         /\ \E p : Takes(p, SelectAt(s, at), s, at)
<1> DEFINE n == Cardinality(at)
           before(i) == {x \in at : x < i}
           rank == [i \in at |-> Cardinality(before(i))]
<1>1. Len(s) \in Nat /\ (\A i \in 1..Len(s) : s[i] \in S) /\ \A i \in at : i \in Nat
  BY LenProperties, ElementOfSeq
<1>2. IsFiniteSet(at) /\ n \in Nat
  <2>1. IsFiniteSet(1..Len(s))
    BY <1>1, FS_Interval
  <2>2. IsFiniteSet(at)
    BY <2>1, FS_Subset
  <2> QED BY <2>2, FS_CardinalityType
<1>3. ASSUME NEW i \in at
      PROVE  IsFiniteSet(before(i)) /\ Cardinality(before(i)) \in 0..(n - 1)
  <2>1. IsFiniteSet(before(i)) /\ Cardinality(before(i)) \in Nat /\ Cardinality(before(i)) <= n
    BY <1>2, FS_Subset, FS_CardinalityType
  <2>2. Cardinality(before(i)) # n
    <3>1. i \notin before(i)
      BY <1>1
    <3>2. before(i) \in SUBSET at
      OBVIOUS
    <3>3. Cardinality(at) = Cardinality(before(i)) => at = before(i)
      BY <1>2, <3>2, FS_Subset
    <3> QED BY <3>1, <3>3
  <2> QED BY <1>2, <2>1, <2>2
<1>4. ASSUME NEW i \in at, NEW j \in at, j < i
      PROVE  rank[j] < rank[i]
  <2>0. i \in Nat /\ j \in Nat /\ \A k \in at : k \in Nat
    BY <1>1
  <2>1. before(j) \in SUBSET before(i) /\ j \in before(i) /\ j \notin before(j)
    <3>1. \A x \in before(j) : x \in at /\ x < i
      BY <2>0, <1>4
    <3>2. j \in before(i) /\ j \notin before(j)
      BY <2>0, <1>4
    <3>3. \A x \in before(j) : x \in before(i)
      BY <3>1
    <3> QED BY <3>2, <3>3
  <2>2. IsFiniteSet(before(i)) /\ Cardinality(before(i)) \in Nat /\ Cardinality(before(j)) \in Nat
    <3>1. \A k \in at : IsFiniteSet(before(k)) /\ Cardinality(before(k)) \in 0..(n - 1)
      BY <1>3
    <3>2. \A x \in 0..(n - 1) : x \in Nat
      BY <1>2
    <3> HIDE DEF before
    <3> QED BY <3>1, <3>2
  <2> HIDE DEF before
  <2>3. Cardinality(before(j)) <= Cardinality(before(i)) /\ Cardinality(before(i)) # Cardinality(before(j))
    BY <2>1, <2>2, FS_Subset
  <2> QED BY <2>2, <2>3
<1>5. rank \in Injection(at, 0..(n - 1))
  <2>1. rank \in [at -> 0..(n - 1)]
    BY <1>3
  <2>2. \A i, j \in at : i # j => rank[i] # rank[j]
    <3> SUFFICES ASSUME NEW i \in at, NEW j \in at, i # j PROVE rank[i] # rank[j]
      OBVIOUS
    <3>1. rank[i] \in Nat /\ rank[j] \in Nat
      BY <2>1, <1>2
    <3>2. i < j \/ j < i
      BY <1>1
    <3> HIDE DEF rank
    <3> QED BY <1>4, <3>1, <3>2
  <2> HIDE DEF rank
  <2> QED BY <2>1, <2>2 DEF Injection, IsInjective
<1>6. rank \in Surjection(at, 0..(n - 1))
  <2>1. IsFiniteSet(0..(n - 1)) /\ Cardinality(0..(n - 1)) = n
    <3>1. 0 \in Int /\ n - 1 \in Int /\ (0 > n - 1 => n = 0)
      BY <1>2
    <3>2. IsFiniteSet(0..(n - 1)) /\ Cardinality(0..(n - 1)) = IF 0 > n - 1 THEN 0 ELSE n - 1 - 0 + 1
      BY <3>1, FS_Interval
    <3> HIDE DEF n
    <3> QED BY <1>2, <3>1, <3>2
  <2> HIDE DEF rank
  <2> QED BY <1>5, <2>1, FS_Injection
<1>7. \A k \in 1..n : \E i \in at : rank[i] = k - 1
  <2> SUFFICES ASSUME NEW k \in 1..n PROVE \E i \in at : rank[i] = k - 1
    OBVIOUS
  <2>1. k - 1 \in 0..(n - 1)
    BY <1>2
  <2> HIDE DEF rank
  <2> QED BY <1>6, <2>1 DEF Surjection
<1> DEFINE p == [k \in 1..n |-> CHOOSE i \in at : Cardinality({j \in at : j < i}) = k - 1]
<1>8. \A k \in 1..n : p[k] \in at /\ rank[p[k]] = k - 1
  <2> SUFFICES ASSUME NEW k \in 1..n PROVE p[k] \in at /\ rank[p[k]] = k - 1
    OBVIOUS
  <2>1. \E i \in at : Cardinality({j \in at : j < i}) = k - 1
    BY <1>7
  <2>2. p[k] \in at /\ Cardinality({j \in at : j < p[k]}) = k - 1
    BY <2>1
  <2> HIDE DEF p
  <2> QED BY <2>2
<1>9. p \in [1..n -> at]
  BY <1>8
<1>10. SelectAt(s, at) = [k \in 1..n |-> s[p[k]]]
  <2> DEFINE o == [k \in 1..n |-> s[CHOOSE i \in at : Cardinality({j \in at : j < i}) = k - 1]]
  <2>1. SelectAt(s, at) \in {o}
    <3> DEFINE os == {[k \in 1..Cardinality(q) |-> t[CHOOSE i \in q : Cardinality({j \in q : j < i}) = k - 1]]
                       : t \in {s}, q \in {at}}
    <3>1. os = {o}
      OBVIOUS
    <3>2. SelectAt(s, at) = CHOOSE x \in os : TRUE
      BY DEF SelectAt
    <3> HIDE DEF os, o
    <3> QED BY <3>1, <3>2
  <2>2. o = [k \in 1..n |-> s[p[k]]]
    OBVIOUS
  <2> HIDE DEF o
  <2> QED BY <2>1, <2>2
<1>11. SelectAt(s, at) \in [1..n -> S]
  <2> HIDE DEF p, n
  <2> QED BY <1>1, <1>9, <1>10
<1>12. SelectAt(s, at) \in Seq(S) /\ Len(SelectAt(s, at)) = n
  BY <1>2, <1>11, SeqOfFunction
<1>13. \A j, k \in 1..n : j < k => p[j] < p[k]
  <2> SUFFICES ASSUME NEW j \in 1..n, NEW k \in 1..n, j < k PROVE p[j] < p[k]
    OBVIOUS
  <2>1. p[j] \in at /\ p[k] \in at /\ rank[p[j]] = j - 1 /\ rank[p[k]] = k - 1
    BY <1>8
  <2> HIDE DEF p, rank
  <2>2. p[j] \in Nat /\ p[k] \in Nat
    BY <2>1, <1>1
  <2>3. CASE p[k] < p[j]
    <3>1. rank[p[k]] < rank[p[j]]
      BY <1>4, <2>1, <2>3
    <3> QED BY <3>1, <2>1
  <2>4. CASE p[k] = p[j]
    BY <2>1, <2>4, <1>2
  <2> QED BY <2>2, <2>3, <2>4
<1>14. \A i \in at : \E k \in 1..n : p[k] = i
  <2> SUFFICES ASSUME NEW i \in at PROVE \E k \in 1..n : p[k] = i
    OBVIOUS
  <2>1. rank[i] \in 0..(n - 1)
    BY <1>5 DEF Injection
  <2> DEFINE k == rank[i] + 1
  <2>2. k \in 1..n /\ k - 1 = rank[i]
    BY <2>1, <1>2
  <2>3. p[k] \in at /\ rank[p[k]] = rank[i]
    BY <1>8, <2>2
  <2>4. p[k] = i
    <3> HIDE DEF p, rank, k
    <3> QED BY <1>5, <2>3 DEF Injection, IsInjective
  <2> QED BY <2>2, <2>4
<1>15. /\ \A k \in 1..n : SelectAt(s, at)[k] = s[p[k]]
       /\ \A j, k \in 1..n : j < k => p[j] < p[k]
       /\ \A i \in at : \E k \in 1..n : p[k] = i
  BY <1>10, <1>13, <1>14
<1> HIDE DEF p
<1>16. Takes(p, SelectAt(s, at), s, at)
  BY <1>9, <1>12, <1>15 DEF Takes
<1> QED BY <1>12, <1>16
LEMMA RemoveAtIs ==
  ASSUME NEW S, NEW s \in Seq(S), NEW k \in 1..Len(s)
  PROVE  /\ RemoveAt(s, k) \in Seq(S)
         /\ Len(RemoveAt(s, k)) = Len(s) - 1
         /\ \A i \in 1..(Len(s) - 1) : RemoveAt(s, k)[i] = s[IF i < k THEN i ELSE i + 1]
<1> DEFINE a == SubSeq(s, 1, k - 1)
           b == SubSeq(s, k + 1, Len(s))
<1>1. Len(s) \in Nat /\ k \in Nat /\ 1 <= k /\ k <= Len(s) /\ \A i \in 1..Len(s) : s[i] \in S
  BY LenProperties, ElementOfSeq
<1>2. /\ a \in Seq(S) /\ Len(a) = k - 1 /\ \A i \in 1..(k - 1) : a[i] = s[i]
  <2>1. \A i \in 1..(k - 1) : s[i] \in S
    BY <1>1
  <2>2. /\ a \in Seq(S) /\ Len(a) = IF 1 <= k - 1 THEN k - 1 - 1 + 1 ELSE 0
        /\ \A i \in 1..(k - 1 - 1 + 1) : a[i] = s[1 + i - 1]
    BY <1>1, <2>1, SubSeqProperties
  <2> QED BY <1>1, <2>2
<1>3. /\ b \in Seq(S) /\ Len(b) = Len(s) - k /\ \A i \in 1..(Len(s) - k) : b[i] = s[k + i]
  <2>1. \A i \in (k + 1)..Len(s) : s[i] \in S
    BY <1>1
  <2>2. /\ b \in Seq(S) /\ Len(b) = IF k + 1 <= Len(s) THEN Len(s) - (k + 1) + 1 ELSE 0
        /\ \A i \in 1..(Len(s) - (k + 1) + 1) : b[i] = s[k + 1 + i - 1]
    BY <1>1, <2>1, SubSeqProperties
  <2> QED BY <1>1, <2>2
<1> HIDE DEF a, b
<1>4. /\ a \o b \in Seq(S) /\ Len(a \o b) = Len(a) + Len(b)
      /\ \A i \in 1..(Len(a) + Len(b)) : (a \o b)[i] = IF i <= Len(a) THEN a[i] ELSE b[i - Len(a)]
  BY <1>2, <1>3, ConcatProperties
<1>5. ASSUME NEW i \in 1..(Len(s) - 1)
      PROVE  (a \o b)[i] = s[IF i < k THEN i ELSE i + 1]
  <2>1. (a \o b)[i] = IF i <= k - 1 THEN a[i] ELSE b[i - (k - 1)]
    BY <1>1, <1>2, <1>3, <1>4
  <2>2. CASE i < k
    BY <1>1, <1>2, <2>1, <2>2
  <2>3. CASE ~(i < k)
    <3>1. i - (k - 1) \in 1..(Len(s) - k) /\ k + (i - (k - 1)) = i + 1
      BY <1>1, <2>3
    <3> QED BY <1>1, <1>3, <2>1, <2>3, <3>1
  <2> QED BY <2>2, <2>3
<1>6. RemoveAt(s, k) = a \o b
  BY DEF RemoveAt, a, b
<1>7. Len(a) + Len(b) = Len(s) - 1
  BY <1>1, <1>2, <1>3
<1> QED BY <1>4, <1>5, <1>6, <1>7

-----------------------------------------------------------------------------
(* Orders and swaps: types, and what rows are.                             *)

OrderAsks == [page : Nat \ {0}, limit : Limits, filter : Filters, reset : BOOLEAN]
OrderModels == [page : Nat, limit : Limits, filter : Filters, nb_pages : Nat, rows : Seq(Row),
                order_ids : SUBSET Orders, swap_ids : SUBSET SwapIds]
OrderSnapshots == [page : Nat \ {0}, limit : Limits, filter : Filters, nb_pages : Nat, rows : Seq(Row)]
Guis == [model : OrderModels, busy : BOOLEAN, snapshot : OrderSnapshots, asks : Seq(OrderAsks)]
OrderFetches == [pc : {"sent", "begun", "answered"}, ask : OrderAsks, open : SUBSET Orders,
                 contents : OrderContents]

\* Two rows have an id only if the earlier is an order and the later the swap it became.
Paired(rows) ==
  \A i, j \in DOMAIN rows : i < j /\ rows[i].id = rows[j].id => rows[i].kind = "order" /\ rows[j].kind = "swap"

FinishedPass(rows, filter) == \A row \in ToSet(rows) : row.status = "finished" => row.id \in Passes(filter)
SwapIdsOf(c) == IdsOf(c.rows, "swap")

\* What a snapshot holds.
Sound(c) == Paired(c.rows) /\ FinishedPass(c.rows, c.filter) /\ OrderIdsOf(c) \subseteq Orders

LEMMA OrdersParameters ==
  /\ NoFilter \in Filters /\ FirstLimit \in Limits /\ Limits \subseteq Nat \ {0}
  /\ Pages \subseteq Nat \ {0} /\ Orders \subseteq SwapIds /\ ToSet(OldSwaps) \subseteq SwapIds
BY OrdersAssumption DEF SwapIds

\* The members of a sequence are what stands at its places.
LEMMA RowsOf ==
  ASSUME NEW S, NEW s \in Seq(S)
  PROVE  /\ Len(s) \in Nat /\ DOMAIN s = 1..Len(s) /\ \A i \in 1..Len(s) : s[i] \in S
         /\ ToSet(s) \subseteq S /\ \A x : x \in ToSet(s) <=> \E i \in 1..Len(s) : x = s[i]
BY LenProperties, ElementOfSeq DEF ToSet

LEMMA IdsAre ==
  ASSUME NEW rs \in Seq(Row), NEW kind
  PROVE  /\ IdsOf(rs, kind) \subseteq SwapIds
         /\ \A id : id \in IdsOf(rs, kind) <=> \E row \in ToSet(rs) : row.kind = kind /\ row.id = id
<1>1. /\ DOMAIN rs = 1..Len(rs) /\ ToSet(rs) \subseteq Row
      /\ \A x : x \in ToSet(rs) <=> \E i \in 1..Len(rs) : x = rs[i]
  BY RowsOf
<1>2. ASSUME NEW id
      PROVE  id \in IdsOf(rs, kind) <=> \E row \in ToSet(rs) : row.kind = kind /\ row.id = id
  <2>1. id \in IdsOf(rs, kind) <=> \E i \in 1..Len(rs) : rs[i].kind = kind /\ rs[i].id = id
    BY <1>1 DEF IdsOf
  <2> QED BY <1>1, <2>1
<1>3. \A row \in Row : row.id \in SwapIds
  BY DEF Row
<1> QED BY <1>1, <1>2, <1>3

LEMMA ConcatOf ==
  ASSUME NEW S, NEW s \in Seq(S), NEW t \in Seq(S)
  PROVE  s \o t \in Seq(S) /\ ToSet(s \o t) = ToSet(s) \cup ToSet(t)
<1>1. /\ s \o t \in Seq(S) /\ Len(s \o t) = Len(s) + Len(t)
      /\ \A i \in 1..(Len(s) + Len(t)) : (s \o t)[i] = IF i <= Len(s) THEN s[i] ELSE t[i - Len(s)]
  BY ConcatProperties
<1>2. Len(s) \in Nat /\ Len(t) \in Nat
  BY LenProperties
<1>3. ASSUME NEW i \in 1..(Len(s) + Len(t))
      PROVE  (s \o t)[i] \in ToSet(s) \cup ToSet(t)
  <2>1. CASE i <= Len(s)
    BY <1>1, <1>2, <2>1, RowsOf
  <2>2. CASE ~(i <= Len(s))
    <3>1. i - Len(s) \in 1..Len(t) /\ (s \o t)[i] = t[i - Len(s)]
      BY <1>1, <1>2, <2>2
    <3> QED BY <3>1, RowsOf
  <2> QED BY <2>1, <2>2
<1>4. ASSUME NEW i \in 1..Len(s) PROVE s[i] \in ToSet(s \o t)
  <2>1. i \in 1..Len(s \o t) /\ (s \o t)[i] = s[i]
    BY <1>1, <1>2
  <2> QED BY <1>1, <2>1, RowsOf
<1>5. ASSUME NEW i \in 1..Len(t) PROVE t[i] \in ToSet(s \o t)
  <2>1. Len(s) + i \in 1..Len(s \o t) /\ (s \o t)[Len(s) + i] = t[i]
    BY <1>1, <1>2
  <2> QED BY <1>1, <2>1, RowsOf
<1>6. /\ \A x : x \in ToSet(s) <=> \E i \in 1..Len(s) : x = s[i]
      /\ \A x : x \in ToSet(t) <=> \E i \in 1..Len(t) : x = t[i]
  BY RowsOf
<1>7. \A x : x \in ToSet(s \o t) <=> \E i \in 1..Len(s \o t) : x = (s \o t)[i]
  BY <1>1, RowsOf
<1>8. ToSet(s \o t) \subseteq ToSet(s) \cup ToSet(t)
  BY <1>1, <1>3, <1>7
<1>9. ToSet(s) \subseteq ToSet(s \o t) /\ ToSet(t) \subseteq ToSet(s \o t)
  BY <1>4, <1>5, <1>6
<1> QED BY <1>1, <1>8, <1>9

\* What of a sequence is in a set, in the order it had.
LEMMA SelectInIs ==
  ASSUME NEW S, NEW s \in Seq(S), NEW T
  PROVE  /\ SelectIn(s, T) \in Seq(S) /\ ToSet(SelectIn(s, T)) = ToSet(s) \cap T
         /\ \E p \in [1..Len(SelectIn(s, T)) -> 1..Len(s)] :
               /\ \A k \in 1..Len(SelectIn(s, T)) : SelectIn(s, T)[k] = s[p[k]]
               /\ \A j, k \in 1..Len(SelectIn(s, T)) : j < k => p[j] < p[k]
<1> DEFINE at == {i \in DOMAIN s : s[i] \in T}
           o == SelectAt(s, at)
<1>1. SelectIn(s, T) = o
  BY DEF SelectIn
<1>2. /\ DOMAIN s = 1..Len(s) /\ at \in SUBSET (1..Len(s))
      /\ \A x : x \in ToSet(s) <=> \E i \in 1..Len(s) : x = s[i]
  BY RowsOf
<1>3. o \in Seq(S) /\ \E p : Takes(p, o, s, at)
  BY <1>2, SelectAtIs
<1>4. PICK p : Takes(p, o, s, at)
  BY <1>3
<1>5. \A x : x \in ToSet(o) <=> \E i \in 1..Len(o) : x = o[i]
  BY <1>3, RowsOf
<1>6. ASSUME NEW x \in ToSet(o) PROVE x \in ToSet(s) \cap T
  <2>1. PICK k \in 1..Len(o) : x = o[k]
    BY <1>5
  <2>2. p[k] \in at /\ x = s[p[k]]
    BY <1>4, <2>1 DEF Takes
  <2> QED BY <1>2, <2>2
<1>7. ASSUME NEW x \in ToSet(s) \cap T PROVE x \in ToSet(o)
  <2>1. PICK i \in at : x = s[i]
    BY <1>2
  <2>2. PICK k \in 1..Len(o) : p[k] = i
    BY <1>4 DEF Takes
  <2>3. o[k] = s[i]
    BY <1>4, <2>2 DEF Takes
  <2> QED BY <1>5, <2>1, <2>3
<1>8. /\ p \in [1..Len(o) -> 1..Len(s)]
      /\ \A k \in 1..Len(o) : o[k] = s[p[k]]
      /\ \A j, k \in 1..Len(o) : j < k => p[j] < p[k]
  <2> HIDE DEF o, at
  <2> QED BY <1>2, <1>4 DEF Takes
<1> HIDE DEF o
<1> QED BY <1>1, <1>3, <1>6, <1>7, <1>8

-----------------------------------------------------------------------------
(* What the rows are after orders are removed and rows added.              *)

LEMMA NewRowsAre ==
  ASSUME NEW c \in OrderContents, NEW kind, NEW known
  PROVE  /\ NewRows(c, kind, known) \in Seq(Row)
         /\ \A row : row \in ToSet(NewRows(c, kind, known))
                       <=> row \in ToSet(c.rows) /\ row.kind = kind /\ row.id \notin known
         /\ Paired(c.rows) => Paired(NewRows(c, kind, known))
<1> DEFINE new == NewRows(c, kind, known)
           T == {row \in ToSet(c.rows) : row.kind = kind /\ row.id \notin known}
<1>1. c.rows \in Seq(Row) /\ new = SelectIn(c.rows, T)
  BY DEF OrderContents, NewRows
<1>2. /\ new \in Seq(Row) /\ ToSet(new) = ToSet(c.rows) \cap T
      /\ \E p \in [1..Len(new) -> 1..Len(c.rows)] :
            /\ \A k \in 1..Len(new) : new[k] = c.rows[p[k]]
            /\ \A j, k \in 1..Len(new) : j < k => p[j] < p[k]
  <2> HIDE DEF T
  <2>1. /\ SelectIn(c.rows, T) \in Seq(Row)
        /\ ToSet(SelectIn(c.rows, T)) = ToSet(c.rows) \cap T
        /\ \E p \in [1..Len(SelectIn(c.rows, T)) -> 1..Len(c.rows)] :
              /\ \A k \in 1..Len(SelectIn(c.rows, T)) : SelectIn(c.rows, T)[k] = c.rows[p[k]]
              /\ \A j, k \in 1..Len(SelectIn(c.rows, T)) : j < k => p[j] < p[k]
    <3>1. c.rows \in Seq(Row)
      BY <1>1
    <3> QED BY ONLY <3>1, SelectInIs, Zenon
  <2> HIDE DEF new
  <2> QED BY ONLY <1>1, <2>1, Zenon
<1>3. ASSUME Paired(c.rows) PROVE Paired(new)
  <2>1. PICK p \in [1..Len(new) -> 1..Len(c.rows)] :
            /\ \A k \in 1..Len(new) : new[k] = c.rows[p[k]]
            /\ \A j, k \in 1..Len(new) : j < k => p[j] < p[k]
    BY <1>2
  <2>2. DOMAIN new = 1..Len(new) /\ DOMAIN c.rows = 1..Len(c.rows)
    BY <1>1, <1>2, RowsOf
  <2> HIDE DEF new
  <2> QED BY <1>3, <2>1, <2>2 DEF Paired
<1>4. \A row : row \in ToSet(new) <=> row \in ToSet(c.rows) /\ row.kind = kind /\ row.id \notin known
  <2> HIDE DEF new
  <2> QED BY <1>2
<1> QED BY <1>2, <1>3, <1>4

LEMMA PairedConcat ==
  ASSUME NEW r \in Seq(Row), NEW s \in Seq(Row), Paired(r), Paired(s),
         \A a \in ToSet(r), b \in ToSet(s) : a.id = b.id => a.kind = "order" /\ b.kind = "swap"
  PROVE  Paired(r \o s)
<1>1. /\ r \o s \in Seq(Row) /\ Len(r \o s) = Len(r) + Len(s) /\ DOMAIN (r \o s) = 1..Len(r \o s)
      /\ \A i \in 1..(Len(r) + Len(s)) : (r \o s)[i] = IF i <= Len(r) THEN r[i] ELSE s[i - Len(r)]
  BY ConcatProperties, LenProperties
<1>2. /\ Len(r) \in Nat /\ Len(s) \in Nat /\ DOMAIN r = 1..Len(r) /\ DOMAIN s = 1..Len(s)
      /\ \A i \in 1..Len(r) : r[i] \in ToSet(r)
      /\ \A i \in 1..Len(s) : s[i] \in ToSet(s)
  BY RowsOf
<1> SUFFICES ASSUME NEW i \in 1..(Len(r) + Len(s)), NEW j \in 1..(Len(r) + Len(s)), i < j,
                    (r \o s)[i].id = (r \o s)[j].id
             PROVE  (r \o s)[i].kind = "order" /\ (r \o s)[j].kind = "swap"
  BY <1>1 DEF Paired
<1>3. CASE j <= Len(r)
  <2>1. i \in 1..Len(r) /\ j \in 1..Len(r) /\ (r \o s)[i] = r[i] /\ (r \o s)[j] = r[j]
    BY <1>1, <1>2, <1>3
  <2> QED BY <1>2, <2>1 DEF Paired
<1>4. CASE i <= Len(r) /\ ~(j <= Len(r))
  <2>1. i \in 1..Len(r) /\ j - Len(r) \in 1..Len(s) /\ (r \o s)[i] = r[i] /\ (r \o s)[j] = s[j - Len(r)]
    BY <1>1, <1>2, <1>4
  <2> QED BY <1>2, <2>1
<1>5. CASE ~(i <= Len(r))
  <2>1. /\ i - Len(r) \in 1..Len(s) /\ j - Len(r) \in 1..Len(s) /\ i - Len(r) < j - Len(r)
        /\ (r \o s)[i] = s[i - Len(r)] /\ (r \o s)[j] = s[j - Len(r)]
    BY <1>1, <1>2, <1>5
  <2> QED BY <1>2, <2>1 DEF Paired
<1> QED BY <1>3, <1>4, <1>5

LEMMA GuiFields ==
  ASSUME NEW st \in Guis
  PROVE  /\ st.model \in OrderModels /\ st.busy \in BOOLEAN /\ st.snapshot \in OrderSnapshots
         /\ st.asks \in Seq(OrderAsks)
         /\ st.model.page \in Nat /\ st.model.limit \in Limits /\ st.model.filter \in Filters
         /\ st.model.nb_pages \in Nat /\ st.model.rows \in Seq(Row)
         /\ st.model.order_ids \subseteq Orders /\ st.model.swap_ids \subseteq SwapIds
         /\ st.snapshot.rows \in Seq(Row) /\ st.snapshot \in OrderContents
BY DEF Guis, OrderModels, OrderSnapshots, OrderContents

\* RemoveOrders takes the rows of orders that are not there any more.
LEMMA OrdersRemoved ==
  ASSUME NEW st \in Guis, NEW present
  PROVE  LET n == RemoveOrders(st, present)
         IN  /\ n \in Guis /\ n.busy = st.busy /\ n.snapshot = st.snapshot /\ n.asks = st.asks
             /\ n.model.filter = st.model.filter /\ n.model.swap_ids = st.model.swap_ids
             /\ ToSet(n.model.rows) \subseteq ToSet(st.model.rows)
             /\ Paired(st.model.rows) /\ st.model.order_ids = IdsOf(st.model.rows, "order") =>
                  /\ Paired(n.model.rows)
                  /\ n.model.order_ids = st.model.order_ids \cap present
                  /\ IdsOf(n.model.rows, "order") = n.model.order_ids
                  /\ IdsOf(n.model.rows, "swap") = IdsOf(st.model.rows, "swap")
<1> DEFINE rows == st.model.rows
           gone == st.model.order_ids \ present
           keep == {i \in DOMAIN rows : rows[i].id \notin gone \/ ~IsFirst(rows, i)}
           taken == {rows[i].id : i \in DOMAIN rows \ keep}
           new == SelectAt(rows, keep)
           n == RemoveOrders(st, present)
<1>1. n = [st EXCEPT !.model.rows = new, !.model.order_ids = @ \ taken]
  BY DEF RemoveOrders
<1>2. rows \in Seq(Row) /\ DOMAIN rows = 1..Len(rows) /\ Len(rows) \in Nat
  BY GuiFields, RowsOf
<1>3. new \in Seq(Row) /\ \E p : Takes(p, new, rows, keep)
  <2>1. keep \in SUBSET (1..Len(rows))
    BY <1>2
  <2> HIDE DEF keep
  <2> QED BY <1>2, <2>1, SelectAtIs
<1>4. /\ n \in Guis /\ n.busy = st.busy /\ n.snapshot = st.snapshot /\ n.asks = st.asks
      /\ n.model.filter = st.model.filter /\ n.model.swap_ids = st.model.swap_ids
      /\ n.model.rows = new /\ n.model.order_ids = st.model.order_ids \ taken
  <2> HIDE DEF new, taken, n
  <2> QED BY <1>1, <1>3, GuiFields DEF Guis, OrderModels
<1>5. PICK p : Takes(p, new, rows, keep)
  BY <1>3
<1>6. /\ \A x : x \in ToSet(new) <=> \E i \in 1..Len(new) : x = new[i]
      /\ \A x : x \in ToSet(rows) <=> \E i \in 1..Len(rows) : x = rows[i]
      /\ DOMAIN new = 1..Len(new) /\ keep \subseteq 1..Len(rows)
  <2>1. keep \subseteq 1..Len(rows)
    BY <1>2
  <2> HIDE DEF new, rows
  <2> QED BY <1>2, <1>3, <2>1, RowsOf
<1>7. \A x : x \in ToSet(new) <=> \E i \in keep : x = rows[i]
  <2> HIDE DEF new, rows, keep
  <2>1. ASSUME NEW x \in ToSet(new) PROVE \E i \in keep : x = rows[i]
    <3>1. PICK k \in 1..Len(new) : x = new[k]
      BY <1>6
    <3>2. p[k] \in keep /\ x = rows[p[k]]
      BY <1>5, <3>1 DEF Takes
    <3> QED BY <3>2
  <2>2. ASSUME NEW i \in keep PROVE rows[i] \in ToSet(new)
    <3>1. PICK k \in 1..Len(new) : p[k] = i
      BY <1>5 DEF Takes
    <3>2. new[k] = rows[i]
      BY <1>5, <3>1 DEF Takes
    <3> QED BY <1>6, <3>2
  <2> QED BY <2>1, <2>2
<1>8. ToSet(new) \subseteq ToSet(rows)
  <2> HIDE DEF new, rows, keep
  <2> QED BY <1>6, <1>7
<1>9. ASSUME Paired(rows), st.model.order_ids = IdsOf(rows, "order")
      PROVE  /\ Paired(new) /\ st.model.order_ids \ taken = st.model.order_ids \cap present
             /\ IdsOf(new, "order") = st.model.order_ids \cap present
             /\ IdsOf(new, "swap") = IdsOf(rows, "swap")
  <2>1. Paired(new)
    <3> SUFFICES ASSUME NEW a \in 1..Len(new), NEW b \in 1..Len(new), a < b, new[a].id = new[b].id
                 PROVE  new[a].kind = "order" /\ new[b].kind = "swap"
      BY <1>6 DEF Paired
    <3> HIDE DEF new, rows, keep
    <3>1. /\ p[a] \in 1..Len(rows) /\ p[b] \in 1..Len(rows) /\ p[a] < p[b]
          /\ new[a] = rows[p[a]] /\ new[b] = rows[p[b]]
      BY <1>5, <1>6 DEF Takes
    <3> QED BY <1>2, <1>9, <3>1 DEF Paired
  <2>2. \A id : id \in IdsOf(rows, "order") <=> \E i \in 1..Len(rows) : rows[i].kind = "order" /\ rows[i].id = id
    BY <1>2 DEF IdsOf
  <2>3. \A id : id \in IdsOf(rows, "swap") <=> \E i \in 1..Len(rows) : rows[i].kind = "swap" /\ rows[i].id = id
    BY <1>2 DEF IdsOf
  <2>4. \A kind, id : id \in IdsOf(new, kind) <=> \E i \in keep : rows[i].kind = kind /\ rows[i].id = id
    <3>1. \A kind, id : id \in IdsOf(new, kind) <=> \E k \in 1..Len(new) : new[k].kind = kind /\ new[k].id = id
      BY <1>6 DEF IdsOf
    <3> HIDE DEF new, rows, keep
    <3> SUFFICES ASSUME NEW kind, NEW id
                 PROVE  id \in IdsOf(new, kind) <=> \E i \in keep : rows[i].kind = kind /\ rows[i].id = id
      OBVIOUS
    <3>2. \A k \in 1..Len(new) : p[k] \in keep /\ new[k] = rows[p[k]]
      BY <1>5 DEF Takes
    <3>3. ASSUME NEW i \in keep PROVE \E k \in 1..Len(new) : new[k] = rows[i]
      BY <1>5 DEF Takes
    <3>4. id \in IdsOf(new, kind) => \E i \in keep : rows[i].kind = kind /\ rows[i].id = id
      BY <3>1, <3>2
    <3>5. ASSUME NEW i \in keep, rows[i].kind = kind, rows[i].id = id PROVE id \in IdsOf(new, kind)
      BY <3>1, <3>3, <3>5
    <3> QED BY <3>4, <3>5
  <2>5. ASSUME NEW i \in 1..Len(rows), rows[i].id \in gone, IsFirst(rows, i)
        PROVE  rows[i].kind = "order"
    <3>1. PICK j \in 1..Len(rows) : rows[j].kind = "order" /\ rows[j].id = rows[i].id
      BY <1>9, <2>2, <2>5
    <3>2. ~(j < i)
      BY <2>5, <3>1, <1>2 DEF IsFirst
    <3>3. CASE i < j
      BY <1>2, <1>9, <3>1, <3>3 DEF Paired
    <3> QED BY <1>2, <3>1, <3>2, <3>3
  <2>6. ASSUME NEW i \in 1..Len(rows), rows[i].kind = "order"
        PROVE  IsFirst(rows, i)
    <3> SUFFICES ASSUME NEW j \in 1..(i - 1), rows[j].id = rows[i].id PROVE FALSE
      BY DEF IsFirst
    <3>1. j \in 1..Len(rows) /\ j < i
      BY <1>2
    <3> QED BY <1>2, <1>9, <2>6, <3>1 DEF Paired
  <2>7. taken = gone
    <3>1. \A i : i \in DOMAIN rows \ keep <=> i \in 1..Len(rows) /\ rows[i].id \in gone /\ IsFirst(rows, i)
      BY <1>2
    <3>2. ASSUME NEW id \in gone PROVE id \in taken
      <4>1. PICK j \in 1..Len(rows) : rows[j].kind = "order" /\ rows[j].id = id
        BY <1>9, <2>2
      <4>2. j \in DOMAIN rows \ keep
        BY <2>6, <3>1, <4>1
      <4> QED BY <4>1, <4>2
    <3>3. taken \subseteq gone
      BY <3>1
    <3> QED BY <3>2, <3>3
  <2>8. IdsOf(new, "order") = st.model.order_ids \cap present
    <3>1. ASSUME NEW id \in IdsOf(new, "order") PROVE id \in st.model.order_ids \cap present
      <4>1. PICK i \in keep : rows[i].kind = "order" /\ rows[i].id = id
        BY <2>4
      <4>2. id \in st.model.order_ids /\ IsFirst(rows, i)
        BY <4>1, <1>6, <1>9, <2>2, <2>6
      <4>3. id \notin gone
        BY <4>1, <4>2
      <4> QED BY <4>2, <4>3
    <3>2. ASSUME NEW id \in st.model.order_ids \cap present PROVE id \in IdsOf(new, "order")
      <4>1. PICK i \in 1..Len(rows) : rows[i].kind = "order" /\ rows[i].id = id
        BY <1>9, <2>2
      <4>2. i \in keep
        BY <1>2, <4>1
      <4> QED BY <2>4, <4>1, <4>2
    <3> QED BY <3>1, <3>2
  <2>9. IdsOf(new, "swap") = IdsOf(rows, "swap")
    <3>1. ASSUME NEW id \in IdsOf(new, "swap") PROVE id \in IdsOf(rows, "swap")
      BY <1>6, <2>3, <2>4
    <3>2. ASSUME NEW id \in IdsOf(rows, "swap") PROVE id \in IdsOf(new, "swap")
      <4>1. PICK i \in 1..Len(rows) : rows[i].kind = "swap" /\ rows[i].id = id
        BY <2>3
      <4>2. i \in keep
        BY <1>2, <2>5, <4>1
      <4> QED BY <2>4, <4>1, <4>2
    <3> QED BY <3>1, <3>2
  <2> QED BY <2>1, <2>7, <2>8, <2>9
<1>10. ToSet(n.model.rows) \subseteq ToSet(rows)
  BY <1>4, <1>8
<1>11. Paired(rows) /\ st.model.order_ids = IdsOf(rows, "order") =>
         /\ Paired(n.model.rows) /\ n.model.order_ids = st.model.order_ids \cap present
         /\ IdsOf(n.model.rows, "order") = n.model.order_ids
         /\ IdsOf(n.model.rows, "swap") = IdsOf(rows, "swap")
  <2> HIDE DEF new, taken, n
  <2> QED BY <1>4, <1>9
<1> QED BY <1>4, <1>10, <1>11

\* The registries name the rows of the model.
RowsNamed(m) ==
  Paired(m.rows) /\ m.order_ids = IdsOf(m.rows, "order") /\ m.swap_ids = IdsOf(m.rows, "swap")

\* A swap gets the status of the answer, and nothing else changes.
LEMMA SwapsUpdated ==
  ASSUME NEW rows \in Seq(Row), NEW c \in OrderContents, NEW known
  PROVE  LET n == UpdateSwaps(rows, c, known)
         IN  /\ n \in Seq(Row) /\ Len(n) = Len(rows)
             /\ \A i \in 1..Len(rows) : n[i].id = rows[i].id /\ n[i].kind = rows[i].kind
             /\ Paired(rows) => Paired(n)
             /\ \A kind : IdsOf(n, kind) = IdsOf(rows, kind)
             /\ \A f : FinishedPass(rows, f) /\ FinishedPass(c.rows, f) => FinishedPass(n, f)
<1> DEFINE news(i) == {row \in ToSet(c.rows) : row.kind = "swap" /\ row.id = rows[i].id}
           n == UpdateSwaps(rows, c, known)
<1>1. /\ Len(rows) \in Nat /\ DOMAIN rows = 1..Len(rows) /\ \A i \in 1..Len(rows) : rows[i] \in Row
      /\ \A x : x \in ToSet(rows) <=> \E i \in 1..Len(rows) : x = rows[i]
  BY RowsOf
<1>2. ToSet(c.rows) \subseteq Row
  <2>1. c.rows \in Seq(Row)
    BY DEF OrderContents
  <2> QED BY <2>1, RowsOf
<1>3. n = [i \in 1..Len(rows) |->
             IF rows[i].id \in known /\ news(i) # {} /\ IsFirst(rows, i)
             THEN [rows[i] EXCEPT !.status = (CHOOSE row \in news(i) : TRUE).status] ELSE rows[i]]
  BY <1>1 DEF UpdateSwaps
<1>4. ASSUME NEW i \in 1..Len(rows)
      PROVE  /\ n[i] \in Row /\ n[i].id = rows[i].id /\ n[i].kind = rows[i].kind
             /\ \/ n[i] = rows[i]
                \/ \E row \in ToSet(c.rows) : row.id = n[i].id /\ row.status = n[i].status
  <2> DEFINE row == CHOOSE row \in news(i) : TRUE
  <2>1. CASE rows[i].id \in known /\ news(i) # {} /\ IsFirst(rows, i)
    <3>1. row \in ToSet(c.rows) /\ row.id = rows[i].id /\ row \in Row
      BY <2>1, <1>2
    <3>2. n[i] = [rows[i] EXCEPT !.status = row.status]
      BY <1>3, <2>1
    <3> HIDE DEF row, n
    <3>3. rows[i] \in Row
      BY <1>1
    <3>4. /\ n[i] \in Row /\ n[i].id = rows[i].id /\ n[i].kind = rows[i].kind /\ n[i].status = row.status
      BY <3>1, <3>2, <3>3 DEF Row
    <3> QED BY <3>1, <3>4
  <2>2. CASE ~(rows[i].id \in known /\ news(i) # {} /\ IsFirst(rows, i))
    <3>1. n[i] = rows[i]
      BY <1>3, <2>2
    <3> HIDE DEF n
    <3> QED BY <1>1, <3>1
  <2> QED BY <2>1, <2>2
<1>5. n \in Seq(Row) /\ Len(n) = Len(rows)
  <2>1. n \in [1..Len(rows) -> Row]
    <3>1. \A i \in 1..Len(rows) : n[i] \in Row
      BY <1>4
    <3>2. DOMAIN n = 1..Len(rows) /\ n = [i \in DOMAIN n |-> n[i]]
      BY <1>3
    <3> HIDE DEF n
    <3> QED BY <3>1, <3>2
  <2> HIDE DEF n
  <2> QED BY <1>1, <2>1, SeqOfFunction
<1> HIDE DEF n
<1>6. DOMAIN n = 1..Len(rows) /\ \A x : x \in ToSet(n) <=> \E i \in 1..Len(rows) : x = n[i]
  BY <1>5, RowsOf
<1>7. Paired(rows) => Paired(n)
  BY <1>1, <1>4, <1>6 DEF Paired
<1>8. ASSUME NEW kind PROVE IdsOf(n, kind) = IdsOf(rows, kind)
  BY <1>1, <1>4, <1>6 DEF IdsOf
<1>9. ASSUME NEW f, FinishedPass(rows, f), FinishedPass(c.rows, f) PROVE FinishedPass(n, f)
  <2> SUFFICES ASSUME NEW i \in 1..Len(rows), n[i].status = "finished" PROVE n[i].id \in Passes(f)
    BY <1>6 DEF FinishedPass
  <2>1. CASE n[i] = rows[i]
    BY <1>1, <1>9, <2>1 DEF FinishedPass
  <2>2. CASE \E row \in ToSet(c.rows) : row.id = n[i].id /\ row.status = n[i].status
    BY <1>9, <2>2 DEF FinishedPass
  <2> QED BY <1>4, <2>1, <2>2
<1>10. n = UpdateSwaps(rows, c, known)
  BY DEF n
<1>11. \A i \in 1..Len(rows) : n[i].id = rows[i].id /\ n[i].kind = rows[i].kind
  BY <1>4
<1>12. /\ \A kind : IdsOf(n, kind) = IdsOf(rows, kind)
       /\ \A f : FinishedPass(rows, f) /\ FinishedPass(c.rows, f) => FinishedPass(n, f)
  BY <1>8, <1>9
<1> QED BY <1>5, <1>7, <1>10, <1>11, <1>12

\* What update_or_insert does with the orders of an answer.
LEMMA OrdersInserted ==
  ASSUME NEW st \in Guis, NEW c \in OrderContents, Sound(c)
  PROVE  LET n == UpdateOrInsertOrders(st, c)
         IN  /\ n \in Guis /\ n.busy = st.busy /\ n.snapshot = st.snapshot /\ n.asks = st.asks
             /\ n.model.filter = st.model.filter /\ n.model.swap_ids = st.model.swap_ids
             /\ ToSet(n.model.rows) \subseteq ToSet(st.model.rows) \cup ToSet(c.rows)
             /\ RowsNamed(st.model) /\ st.model.swap_ids \cap OrderIdsOf(c) \subseteq st.model.order_ids =>
                  RowsNamed(n.model) /\ n.model.order_ids = OrderIdsOf(c)
<1> DEFINE new == NewRows(c, "order", st.model.order_ids)
           mid == [st EXCEPT !.model.rows = @ \o new, !.model.order_ids = @ \cup OrderIdsOf(c)]
           n == RemoveOrders(mid, OrderIdsOf(c))
<1>1. /\ new \in Seq(Row) /\ (Paired(c.rows) => Paired(new))
      /\ \A row : row \in ToSet(new) <=> row \in ToSet(c.rows) /\ row.kind = "order" /\ row.id \notin st.model.order_ids
  BY NewRowsAre
<1>2. st.model.rows \in Seq(Row) /\ c.rows \in Seq(Row) /\ OrderIdsOf(c) \subseteq Orders /\ Paired(c.rows)
  BY GuiFields DEF OrderContents, Sound
<1> HIDE DEF new
<1>3. /\ st.model.rows \o new \in Seq(Row) /\ ToSet(st.model.rows \o new) = ToSet(st.model.rows) \cup ToSet(new)
  BY <1>1, <1>2, ConcatOf
<1>4. /\ mid \in Guis /\ mid.busy = st.busy /\ mid.snapshot = st.snapshot /\ mid.asks = st.asks
      /\ mid.model.filter = st.model.filter /\ mid.model.swap_ids = st.model.swap_ids
      /\ mid.model.rows = st.model.rows \o new
      /\ mid.model.order_ids = st.model.order_ids \cup OrderIdsOf(c)
  BY <1>2, <1>3, GuiFields DEF Guis, OrderModels
<1>5. n = UpdateOrInsertOrders(st, c)
  BY DEF UpdateOrInsertOrders, new
<1> HIDE DEF mid
<1>6. /\ n \in Guis /\ n.busy = st.busy /\ n.snapshot = st.snapshot /\ n.asks = st.asks
      /\ n.model.filter = st.model.filter /\ n.model.swap_ids = st.model.swap_ids
      /\ ToSet(n.model.rows) \subseteq ToSet(mid.model.rows)
      /\ Paired(mid.model.rows) /\ mid.model.order_ids = IdsOf(mid.model.rows, "order") =>
           /\ Paired(n.model.rows) /\ n.model.order_ids = mid.model.order_ids \cap OrderIdsOf(c)
           /\ IdsOf(n.model.rows, "order") = n.model.order_ids
           /\ IdsOf(n.model.rows, "swap") = IdsOf(mid.model.rows, "swap")
  <2>1. /\ n \in Guis /\ n.busy = mid.busy /\ n.snapshot = mid.snapshot /\ n.asks = mid.asks
        /\ n.model.filter = mid.model.filter /\ n.model.swap_ids = mid.model.swap_ids
        /\ ToSet(n.model.rows) \subseteq ToSet(mid.model.rows)
        /\ Paired(mid.model.rows) /\ mid.model.order_ids = IdsOf(mid.model.rows, "order") =>
             /\ Paired(n.model.rows) /\ n.model.order_ids = mid.model.order_ids \cap OrderIdsOf(c)
             /\ IdsOf(n.model.rows, "order") = n.model.order_ids
             /\ IdsOf(n.model.rows, "swap") = IdsOf(mid.model.rows, "swap")
    BY <1>4, OrdersRemoved
  <2> QED BY <1>4, <2>1
<1> HIDE DEF n
<1>7. ToSet(n.model.rows) \subseteq ToSet(st.model.rows) \cup ToSet(c.rows)
  BY <1>1, <1>3, <1>4, <1>6
<1>8. ASSUME RowsNamed(st.model), st.model.swap_ids \cap OrderIdsOf(c) \subseteq st.model.order_ids
      PROVE  RowsNamed(n.model) /\ n.model.order_ids = OrderIdsOf(c)
  <2>1. \A kind, id : id \in IdsOf(st.model.rows, kind) <=> \E row \in ToSet(st.model.rows) : row.kind = kind /\ row.id = id
    BY <1>2, IdsAre
  <2>2. \A kind, id : id \in IdsOf(mid.model.rows, kind) <=> \E row \in ToSet(mid.model.rows) : row.kind = kind /\ row.id = id
    <3>1. mid.model.rows \in Seq(Row)
      BY <1>3, <1>4
    <3> SUFFICES ASSUME NEW kind
                 PROVE  \A id : id \in IdsOf(mid.model.rows, kind) <=> \E row \in ToSet(mid.model.rows) : row.kind = kind /\ row.id = id
      OBVIOUS
    <3> QED BY ONLY <3>1, IdsAre
  <2>3. \A id : id \in OrderIdsOf(c) <=> \E row \in ToSet(c.rows) : row.kind = "order" /\ row.id = id
    BY <1>2, IdsAre DEF OrderIdsOf
  <2>4. ToSet(st.model.rows) \subseteq Row
    BY <1>2, RowsOf
  <2>5. Paired(mid.model.rows)
    <3>1. ASSUME NEW a \in ToSet(st.model.rows), NEW b \in ToSet(new), a.id = b.id PROVE FALSE
      <4>1. b.id \in OrderIdsOf(c) /\ b.id \notin st.model.order_ids
        BY <1>1, <2>3
      <4>2. a.kind = "order" \/ a.kind = "swap"
        BY <2>4 DEF Row
      <4>3. CASE a.kind = "order"
        BY <1>8, <2>1, <3>1, <4>1, <4>3 DEF RowsNamed
      <4>4. CASE a.kind = "swap"
        BY <1>8, <2>1, <3>1, <4>1, <4>4 DEF RowsNamed
      <4> QED BY <4>2, <4>3, <4>4
    <3>2. Paired(st.model.rows) /\ Paired(new)
      BY <1>1, <1>2, <1>8 DEF RowsNamed
    <3> QED BY <1>1, <1>2, <1>4, <3>1, <3>2, PairedConcat
  <2>6. mid.model.order_ids = IdsOf(mid.model.rows, "order")
    <3>1. ASSUME NEW id \in mid.model.order_ids PROVE id \in IdsOf(mid.model.rows, "order")
      <4>1. CASE id \in st.model.order_ids
        BY <1>3, <1>4, <1>8, <2>1, <2>2, <4>1 DEF RowsNamed
      <4>2. CASE id \notin st.model.order_ids
        <5>1. PICK row \in ToSet(c.rows) : row.kind = "order" /\ row.id = id
          BY <1>4, <2>3, <3>1, <4>2
        <5>2. row \in ToSet(mid.model.rows)
          BY <1>1, <1>3, <1>4, <4>2, <5>1
        <5> QED BY <2>2, <5>1, <5>2
      <4> QED BY <4>1, <4>2
    <3>2. ASSUME NEW id \in IdsOf(mid.model.rows, "order") PROVE id \in mid.model.order_ids
      <4>1. PICK row \in ToSet(mid.model.rows) : row.kind = "order" /\ row.id = id
        BY <2>2
      <4>2. CASE row \in ToSet(st.model.rows)
        BY <1>4, <1>8, <2>1, <4>1, <4>2 DEF RowsNamed
      <4>3. CASE row \in ToSet(new)
        BY <1>1, <1>4, <2>3, <4>1, <4>3
      <4> QED BY <1>3, <1>4, <4>1, <4>2, <4>3
    <3> QED BY <3>1, <3>2
  <2>7. IdsOf(mid.model.rows, "swap") = st.model.swap_ids
    <3>1. ASSUME NEW id PROVE id \in IdsOf(mid.model.rows, "swap") <=> id \in IdsOf(st.model.rows, "swap")
      <4>1. \A row \in ToSet(new) : row.kind # "swap"
        BY <1>1
      <4> QED BY <1>3, <1>4, <2>1, <2>2, <4>1
    <3> QED BY <1>8, <3>1 DEF RowsNamed
  <2> QED BY <1>4, <1>6, <2>5, <2>6, <2>7 DEF RowsNamed
<1> QED BY <1>5, <1>6, <1>7, <1>8

\* What update_or_insert does with the swaps of an answer.
LEMMA SwapsInserted ==
  ASSUME NEW st \in Guis, NEW c \in OrderContents, Sound(c)
  PROVE  LET n == UpdateOrInsertSwaps(st, c)
         IN  /\ n \in Guis /\ n.busy = st.busy /\ n.snapshot = st.snapshot /\ n.asks = st.asks
             /\ n.model.filter = st.model.filter /\ n.model.order_ids = st.model.order_ids
             /\ n.model.swap_ids = st.model.swap_ids \cup SwapIdsOf(c)
             /\ \A f : FinishedPass(st.model.rows, f) /\ FinishedPass(c.rows, f) => FinishedPass(n.model.rows, f)
             /\ RowsNamed(st.model) => RowsNamed(n.model)
<1> DEFINE new == NewRows(c, "swap", st.model.swap_ids)
           upd == UpdateSwaps(st.model.rows, c, st.model.swap_ids)
           n == UpdateOrInsertSwaps(st, c)
<1>1. /\ new \in Seq(Row) /\ (Paired(c.rows) => Paired(new))
      /\ \A row : row \in ToSet(new) <=> row \in ToSet(c.rows) /\ row.kind = "swap" /\ row.id \notin st.model.swap_ids
  BY NewRowsAre
<1>2. st.model.rows \in Seq(Row) /\ c.rows \in Seq(Row) /\ OrderIdsOf(c) \subseteq Orders /\ Paired(c.rows)
  BY GuiFields DEF OrderContents, Sound
<1>3. /\ upd \in Seq(Row)
      /\ Paired(st.model.rows) => Paired(upd)
      /\ \A kind : IdsOf(upd, kind) = IdsOf(st.model.rows, kind)
      /\ \A f : FinishedPass(st.model.rows, f) /\ FinishedPass(c.rows, f) => FinishedPass(upd, f)
  BY <1>2, SwapsUpdated
<1>4. SwapIdsOf(c) \subseteq SwapIds /\ \A id : id \in SwapIdsOf(c) <=> \E row \in ToSet(c.rows) : row.kind = "swap" /\ row.id = id
  BY <1>2, IdsAre DEF SwapIdsOf
<1>5. n = [st EXCEPT !.model.rows = upd \o new, !.model.swap_ids = @ \cup SwapIdsOf(c)]
  BY DEF UpdateOrInsertSwaps, SwapIdsOf
<1> HIDE DEF new, upd, n
<1>6. upd \o new \in Seq(Row) /\ ToSet(upd \o new) = ToSet(upd) \cup ToSet(new)
  BY <1>1, <1>3, ConcatOf
<1>7. /\ n \in Guis /\ n.busy = st.busy /\ n.snapshot = st.snapshot /\ n.asks = st.asks
      /\ n.model.filter = st.model.filter /\ n.model.order_ids = st.model.order_ids
      /\ n.model.swap_ids = st.model.swap_ids \cup SwapIdsOf(c) /\ n.model.rows = upd \o new
  BY <1>4, <1>5, <1>6, GuiFields DEF Guis, OrderModels
<1>8. ASSUME NEW f, FinishedPass(st.model.rows, f), FinishedPass(c.rows, f)
      PROVE  FinishedPass(n.model.rows, f)
  <2>1. FinishedPass(upd, f)
    BY <1>3, <1>8
  <2> QED BY <1>1, <1>6, <1>7, <1>8, <2>1 DEF FinishedPass
<1>9. ASSUME RowsNamed(st.model) PROVE RowsNamed(n.model)
  <2>1. \A kind, id : id \in IdsOf(upd, kind) <=> \E row \in ToSet(upd) : row.kind = kind /\ row.id = id
    <3> SUFFICES ASSUME NEW kind
                 PROVE  \A id : id \in IdsOf(upd, kind) <=> \E row \in ToSet(upd) : row.kind = kind /\ row.id = id
      OBVIOUS
    <3> QED BY ONLY <1>3, IdsAre
  <2>2. \A kind, id : id \in IdsOf(upd \o new, kind) <=> \E row \in ToSet(upd \o new) : row.kind = kind /\ row.id = id
    <3> SUFFICES ASSUME NEW kind
                 PROVE  \A id : id \in IdsOf(upd \o new, kind) <=> \E row \in ToSet(upd \o new) : row.kind = kind /\ row.id = id
      OBVIOUS
    <3> QED BY ONLY <1>6, IdsAre
  <2>3. Paired(upd) /\ IdsOf(upd, "order") = st.model.order_ids /\ IdsOf(upd, "swap") = st.model.swap_ids
    BY <1>3, <1>9 DEF RowsNamed
  <2>4. ToSet(upd) \subseteq Row
    BY <1>3, RowsOf
  <2>5. Paired(upd \o new)
    <3>1. ASSUME NEW a \in ToSet(upd), NEW b \in ToSet(new), a.id = b.id
          PROVE  a.kind = "order" /\ b.kind = "swap"
      <4>1. b.kind = "swap" /\ b.id \notin st.model.swap_ids
        BY <1>1
      <4>2. a.kind = "order" \/ a.kind = "swap"
        BY <2>4 DEF Row
      <4>3. a.kind # "swap"
        BY <2>1, <2>3, <3>1, <4>1
      <4> QED BY <4>1, <4>2, <4>3
    <3>2. Paired(new)
      BY <1>1, <1>2
    <3> QED BY <1>1, <1>3, <2>3, <3>1, <3>2, PairedConcat
  <2>6. ASSUME NEW id PROVE id \in IdsOf(upd \o new, "order") <=> id \in st.model.order_ids
    <3>1. \A row \in ToSet(new) : row.kind # "order"
      BY <1>1
    <3> QED BY <1>6, <2>1, <2>2, <2>3, <3>1
  <2>7. ASSUME NEW id PROVE id \in IdsOf(upd \o new, "swap") <=> id \in st.model.swap_ids \cup SwapIdsOf(c)
    <3>1. ASSUME id \in IdsOf(upd \o new, "swap") PROVE id \in st.model.swap_ids \cup SwapIdsOf(c)
      <4>1. PICK row \in ToSet(upd \o new) : row.kind = "swap" /\ row.id = id
        BY <2>2, <3>1
      <4> QED BY <1>1, <1>4, <1>6, <2>1, <2>3, <4>1
    <3>2. ASSUME id \in st.model.swap_ids PROVE id \in IdsOf(upd \o new, "swap")
      BY <1>6, <2>1, <2>2, <2>3, <3>2
    <3>3. ASSUME id \in SwapIdsOf(c), id \notin st.model.swap_ids PROVE id \in IdsOf(upd \o new, "swap")
      BY <1>1, <1>4, <1>6, <2>2, <3>3
    <3> QED BY <3>1, <3>2, <3>3
  <2>8. IdsOf(upd \o new, "order") = st.model.order_ids /\ IdsOf(upd \o new, "swap") = st.model.swap_ids \cup SwapIdsOf(c)
    BY <2>6, <2>7
  <2> QED BY <1>7, <2>5, <2>8 DEF RowsNamed
<1>10. n = UpdateOrInsertSwaps(st, c)
  BY DEF n
<1>11. \A f : FinishedPass(st.model.rows, f) /\ FinishedPass(c.rows, f) => FinishedPass(n.model.rows, f)
  BY <1>8
<1> QED BY <1>7, <1>9, <1>10, <1>11

\* init_model takes the snapshot as it is.
LEMMA ModelInitialised ==
  ASSUME NEW st \in Guis, NEW c \in OrderSnapshots, Sound(c)
  PROVE  LET n == InitModel(st, c)
         IN  /\ n \in Guis /\ n.busy = st.busy /\ n.snapshot = st.snapshot /\ n.asks = st.asks
             /\ \/ n = st
                \/ /\ n.model.filter = c.filter /\ n.model.rows = c.rows
                   /\ n.model.swap_ids = SwapIdsOf(c) /\ n.model.order_ids = OrderIdsOf(c)
                   /\ RowsNamed(n.model)
<1> DEFINE m == [page |-> c.page, limit |-> c.limit, filter |-> c.filter, nb_pages |-> c.nb_pages,
                 rows |-> c.rows, order_ids |-> OrderIdsOf(c), swap_ids |-> SwapIdsOf(c)]
           n == InitModel(st, c)
<1>1. CASE c.rows = <<>>
  <2>1. n = st
    BY <1>1 DEF InitModel
  <2> QED BY <2>1
<1>2. CASE c.rows # <<>>
  <2>1. n = [st EXCEPT !.model = m]
    BY <1>2 DEF InitModel, OrderIdsOf, SwapIdsOf
  <2>2. c.rows \in Seq(Row) /\ c.page \in Nat /\ c.limit \in Limits /\ c.filter \in Filters /\ c.nb_pages \in Nat
    BY DEF OrderSnapshots
  <2>3. OrderIdsOf(c) \subseteq Orders /\ SwapIdsOf(c) \subseteq SwapIds
    BY <2>2, IdsAre DEF Sound, SwapIdsOf
  <2>4. m \in OrderModels
    BY <2>2, <2>3 DEF OrderModels
  <2>5. /\ m.filter = c.filter /\ m.rows = c.rows /\ m.swap_ids = SwapIdsOf(c) /\ m.order_ids = OrderIdsOf(c)
        /\ RowsNamed(m)
    BY DEF RowsNamed, Sound, OrderIdsOf, SwapIdsOf
  <2> HIDE DEF m, n
  <2>6. /\ n \in Guis /\ n.busy = st.busy /\ n.snapshot = st.snapshot /\ n.asks = st.asks /\ n.model = m
    BY <2>1, <2>4 DEF Guis
  <2> QED BY <2>5, <2>6 DEF n
<1> QED BY <1>1, <1>2

-----------------------------------------------------------------------------
(* What turning a page, a new limit and a new filter leave behind.         *)

\* The rows and what is asked for stay; or the rows go, and a page is asked for
\* with the filter of the model.
AsBefore(st, n) ==
  /\ n.snapshot = st.snapshot /\ n.asks = st.asks /\ n.model.rows = st.model.rows
  /\ n.model.order_ids = st.model.order_ids /\ n.model.swap_ids = st.model.swap_ids
Anew(st, n) ==
  /\ n.model.rows = <<>> /\ n.model.order_ids = {} /\ n.model.swap_ids = {}
  /\ n.snapshot.rows = <<>> /\ n.snapshot.filter = n.model.filter
  /\ \A a \in ToSet(n.asks) : a \in ToSet(st.asks) \/ a.filter = n.model.filter
Turned(st, n) == n \in Guis /\ n.model.filter = st.model.filter /\ (AsBefore(st, n) \/ Anew(st, n))

LEMMA TurnedTwice ==
  ASSUME NEW a, NEW b, NEW c, Turned(a, b), Turned(b, c)
  PROVE  Turned(a, c)
<1>1. c \in Guis /\ b.model.filter = a.model.filter /\ c.model.filter = b.model.filter
  BY DEF Turned
<1>2. CASE Anew(b, c) /\ Anew(a, b)
  BY <1>1, <1>2 DEF Turned, Anew
<1>3. CASE Anew(b, c) /\ AsBefore(a, b)
  BY <1>1, <1>3 DEF Turned, Anew, AsBefore
<1>4. CASE AsBefore(b, c) /\ Anew(a, b)
  BY <1>1, <1>4 DEF Turned, Anew, AsBefore
<1>5. CASE AsBefore(b, c) /\ AsBefore(a, b)
  BY <1>1, <1>5 DEF Turned, AsBefore
<1> QED BY <1>2, <1>3, <1>4, <1>5 DEF Turned

LEMMA ModelReset ==
  ASSUME NEW st \in Guis, NEW page \in Nat \ {0}
  PROVE  Turned(st, ResetAndAsk(st, page)) /\ Anew(st, ResetAndAsk(st, page))
<1> DEFINE m == ResetBackend(st.model)
           ask == [page |-> page, limit |-> m.limit, filter |-> m.filter, reset |-> TRUE]
           mid == [st EXCEPT !.busy = TRUE, !.model = ResetBackend(@)]
           e == EmptyContents(page, m.limit, m.filter)
           n == ResetAndAsk(st, page)
<1>1. st.model \in OrderModels /\ st.asks \in Seq(OrderAsks) /\ st.snapshot \in OrderSnapshots
  BY GuiFields
<1>2. <<>> \in Seq(Row) /\ ToSet(<<>>) = {}
  BY EmptySeq DEF ToSet
<1>3. /\ m \in OrderModels /\ m.rows = <<>> /\ m.order_ids = {} /\ m.swap_ids = {}
      /\ m.filter = st.model.filter
  <2>1. m = [st.model EXCEPT !.page = 1, !.nb_pages = 1, !.rows = <<>>, !.order_ids = {}, !.swap_ids = {}]
    BY DEF ResetBackend
  <2> HIDE DEF m, ask, mid, e, n
  <2>2. /\ m.rows = <<>> /\ m.order_ids = {} /\ m.swap_ids = {} /\ m.filter = st.model.filter
    BY ONLY <1>1, <2>1 DEF OrderModels
  <2>3. m \in OrderModels
    BY ONLY <1>1, <1>2, <2>1 DEF OrderModels
  <2> QED BY <2>2, <2>3
<1>4. mid \in Guis /\ mid.model = m /\ mid.asks = st.asks /\ mid.snapshot = st.snapshot
  <2>1. mid = [st EXCEPT !.busy = TRUE, !.model = m]
    BY DEF Guis
  <2> HIDE DEF mid, m
  <2> QED BY <1>3, <2>1 DEF Guis
<1>5. n = [mid EXCEPT !.snapshot = e, !.asks = Append(@, ask)]
  <2>1. n = SetPagination(mid, page)
    BY DEF ResetAndAsk
  <2>2. n = [mid EXCEPT !.snapshot = EmptyContents(page, mid.model.limit, mid.model.filter),
                        !.asks = Append(@, [page |-> page, limit |-> mid.model.limit,
                                            filter |-> mid.model.filter, reset |-> TRUE])]
    BY <2>1 DEF SetPagination
  <2> HIDE DEF mid, m, n
  <2> QED BY <1>4, <2>2
<1> HIDE DEF m, mid
<1>6. ask \in OrderAsks /\ ask.filter = m.filter
  BY <1>3 DEF OrderModels, OrderAsks
<1>7. e \in OrderSnapshots /\ e.rows = <<>> /\ e.filter = m.filter
  BY <1>2, <1>3 DEF EmptyContents, OrderModels, OrderSnapshots
<1>8. Append(st.asks, ask) \in Seq(OrderAsks) /\ \A a \in ToSet(Append(st.asks, ask)) : a \in ToSet(st.asks) \/ a = ask
  <2> HIDE DEF ask
  <2>1. /\ Append(st.asks, ask) \in Seq(OrderAsks) /\ Len(Append(st.asks, ask)) = Len(st.asks) + 1
        /\ \A i \in 1..Len(st.asks) : Append(st.asks, ask)[i] = st.asks[i]
        /\ Append(st.asks, ask)[Len(st.asks) + 1] = ask
    BY <1>1, <1>6, AppendProperties
  <2>2. /\ Len(st.asks) \in Nat /\ \A x : x \in ToSet(st.asks) <=> \E i \in 1..Len(st.asks) : x = st.asks[i]
    BY <1>1, RowsOf
  <2>0. Append(st.asks, ask) \in Seq(OrderAsks)
    BY <2>1
  <2>3. \A x : x \in ToSet(Append(st.asks, ask)) <=> \E i \in 1..Len(Append(st.asks, ask)) : x = Append(st.asks, ask)[i]
    BY ONLY <2>0, RowsOf
  <2>4. ASSUME NEW i \in 1..(Len(st.asks) + 1) PROVE Append(st.asks, ask)[i] \in ToSet(st.asks) \/ Append(st.asks, ask)[i] = ask
    <3>1. CASE i <= Len(st.asks)
      <4>1. i \in 1..Len(st.asks)
        BY <2>2, <3>1
      <4> QED BY <2>1, <2>2, <4>1
    <3>2. CASE i = Len(st.asks) + 1
      BY <2>1, <3>2
    <3> QED BY <2>2, <3>1, <3>2
  <2> QED BY <2>1, <2>3, <2>4
<1> HIDE DEF ask, e, n
<1>9. n \in Guis /\ n.model = m /\ n.snapshot = e /\ n.asks = Append(st.asks, ask)
  BY <1>4, <1>5, <1>7, <1>8 DEF Guis
<1>10. Anew(st, n) /\ n.model.filter = st.model.filter
  BY <1>3, <1>6, <1>7, <1>8, <1>9 DEF Anew
<1>11. n = ResetAndAsk(st, page)
  BY DEF n
<1> QED BY <1>9, <1>10, <1>11 DEF Turned

LEMMA KeptIsTurned ==
  ASSUME NEW st \in Guis PROVE Turned(st, st)
BY DEF Turned, AsBefore

LEMMA PageTurned ==
  ASSUME NEW st \in Guis, NEW page \in Nat \ {0}
  PROVE  Turned(st, SetCurrentPage(st, page))
BY ModelReset, KeptIsTurned DEF SetCurrentPage

LEMMA LimitTurned ==
  ASSUME NEW st \in Guis, NEW limit \in Limits
  PROVE  Turned(st, SetLimitNbElements(st, limit))
<1> DEFINE limited == [st EXCEPT !.model.limit = limit]
<1>1. limited \in Guis /\ Turned(st, limited)
  <2>1. /\ limited \in Guis /\ limited.model.filter = st.model.filter /\ limited.snapshot = st.snapshot
        /\ limited.asks = st.asks /\ limited.model.rows = st.model.rows
        /\ limited.model.order_ids = st.model.order_ids /\ limited.model.swap_ids = st.model.swap_ids
    BY DEF Guis, OrderModels
  <2> HIDE DEF limited
  <2> QED BY <2>1 DEF Turned, AsBefore
<1> HIDE DEF limited
<1>2. 1 \in Nat \ {0}
  OBVIOUS
<1>3. Turned(st, ResetAndAsk(limited, 1)) /\ Turned(st, SetCurrentPage(limited, 1))
  BY <1>1, <1>2, ModelReset, PageTurned, TurnedTwice
<1>4. SetLimitNbElements(st, limit) \in {st, ResetAndAsk(limited, 1), SetCurrentPage(limited, 1)}
  BY DEF SetLimitNbElements, limited
<1> QED BY <1>3, <1>4, KeptIsTurned

LEMMA CommonDataTurned ==
  ASSUME NEW st \in Guis, NEW c \in OrderSnapshots
  PROVE  Turned(st, SetCommonData(st, c))
<1> DEFINE a == [st EXCEPT !.model.nb_pages = c.nb_pages]
           b == SetLimitNbElements(a, c.limit)
<1>1. c.nb_pages \in Nat /\ c.limit \in Limits /\ c.page \in Nat \ {0}
  BY DEF OrderSnapshots
<1>2. a \in Guis /\ Turned(st, a)
  <2>1. /\ a \in Guis /\ a.model.filter = st.model.filter /\ a.snapshot = st.snapshot
        /\ a.asks = st.asks /\ a.model.rows = st.model.rows
        /\ a.model.order_ids = st.model.order_ids /\ a.model.swap_ids = st.model.swap_ids
    BY <1>1 DEF Guis, OrderModels
  <2> HIDE DEF a
  <2> QED BY <2>1 DEF Turned, AsBefore
<1>3. SetCommonData(st, c) = SetCurrentPage(b, c.page)
  BY DEF SetCommonData
<1> HIDE DEF a
<1>4. Turned(st, b) /\ b \in Guis
  <2>1. Turned(a, b)
    BY <1>1, <1>2, LimitTurned
  <2> HIDE DEF b
  <2> QED BY <1>2, <2>1, TurnedTwice DEF Turned
<1> HIDE DEF b
<1>5. Turned(b, SetCurrentPage(b, c.page))
  BY <1>1, <1>4, PageTurned
<1> QED BY <1>3, <1>4, <1>5, TurnedTwice

\* A filter is chosen in the history, where a filter goes with a reset.
LEMMA FilterTurned ==
  ASSUME NEW st \in Guis, NEW filter \in Filters, is_history
  PROVE  LET n == SetFilteringInfos(st, filter)
         IN  n = st \/ (n \in Guis /\ Anew(st, n) /\ ~st.busy)
<1> DEFINE f == [st EXCEPT !.model.filter = filter]
           r == ResetAndAsk(f, 1)
           n == SetFilteringInfos(st, filter)
<1>1. f \in Guis /\ f.asks = st.asks /\ f.model.page = st.model.page
  BY DEF Guis, OrderModels
<1>2. 1 \in Nat \ {0}
  OBVIOUS
<1>3. n \in {st, r, [r EXCEPT !.busy = FALSE]} /\ (n # st => ~st.busy)
  <2>1. CASE st.busy
    BY <2>1 DEF SetFilteringInfos
  <2>2. CASE ~st.busy /\ st.model.page = 1
    BY <2>2 DEF SetFilteringInfos
  <2>3. CASE ~st.busy /\ st.model.page # 1
    <3>1. n = SetCurrentPage(f, 1)
      BY <2>3 DEF SetFilteringInfos
    <3> HIDE DEF f, n, r
    <3>2. n = ResetAndAsk(f, 1)
      BY <1>1, <2>3, <3>1 DEF SetCurrentPage
    <3> QED BY <2>3, <3>2 DEF r
  <2> QED BY <2>1, <2>2, <2>3
<1> HIDE DEF f
<1>4. r \in Guis /\ Anew(f, r)
  <2>1. Turned(f, r) /\ Anew(f, r)
    BY <1>1, <1>2, ModelReset
  <2> HIDE DEF r
  <2> QED BY <2>1 DEF Turned
<1> HIDE DEF r, n
<1>5. Anew(st, r)
  BY <1>1, <1>4 DEF Anew
<1>6. CASE n = [r EXCEPT !.busy = FALSE]
  <2>1. n \in Guis /\ n.model = r.model /\ n.snapshot = r.snapshot /\ n.asks = r.asks
    BY <1>4, <1>6 DEF Guis
  <2> QED BY <1>3, <1>5, <2>1 DEF Anew, n
<1>7. CASE n # [r EXCEPT !.busy = FALSE]
  BY <1>3, <1>4, <1>5, <1>7 DEF n
<1> QED BY <1>6, <1>7

-----------------------------------------------------------------------------
(* What every handler of the GUI thread keeps.                             *)

\* The registries name the rows, and a swap of the model which the snapshot has
\* as an order is an order of the model as well.
Agreeing(m, c) == RowsNamed(m) /\ m.swap_ids \cap OrderIdsOf(c) \subseteq m.order_ids

\* The snapshot is of the filter of the model, whose finished swaps pass it.
PassedBy(m, c) == c.filter = m.filter /\ FinishedPass(m.rows, m.filter)

Follows(st, n) ==
  /\ n \in Guis /\ (Sound(st.snapshot) => Sound(n.snapshot))
  /\ SwapIdsOf(n.snapshot) \subseteq SwapIdsOf(st.snapshot)
  /\ n.model.swap_ids \subseteq st.model.swap_ids \cup SwapIdsOf(st.snapshot)
  /\ Agreeing(st.model, st.snapshot) => Agreeing(n.model, n.snapshot)

AsksOf(st, n) == \A a \in ToSet(n.asks) : a \in ToSet(st.asks) \/ a.filter = n.model.filter

FilterKept(st, n) ==
  PassedBy(st.model, st.snapshot) =>
    PassedBy(n.model, n.snapshot) /\ n.model.filter = st.model.filter /\ AsksOf(st, n)

LEMMA NoRows ==
  /\ <<>> \in Seq(Row) /\ ToSet(<<>>) = {} /\ Paired(<<>>) /\ \A kind : IdsOf(<<>>, kind) = {}
  /\ \A f : FinishedPass(<<>>, f)
BY EmptySeq DEF ToSet, Paired, IdsOf, FinishedPass

LEMMA AnewFollows ==
  ASSUME NEW st, NEW n \in Guis, Anew(st, n)
  PROVE  Follows(st, n) /\ PassedBy(n.model, n.snapshot) /\ AsksOf(st, n)
<1>1. /\ n.model.rows = <<>> /\ n.model.order_ids = {} /\ n.model.swap_ids = {}
      /\ n.snapshot.rows = <<>> /\ n.snapshot.filter = n.model.filter /\ AsksOf(st, n)
  BY DEF Anew, AsksOf
<1>2. SwapIdsOf(n.snapshot) = {} /\ OrderIdsOf(n.snapshot) = {} /\ Sound(n.snapshot)
  BY <1>1, NoRows DEF SwapIdsOf, OrderIdsOf, Sound
<1>3. RowsNamed(n.model) /\ FinishedPass(n.model.rows, n.model.filter)
  BY <1>1, NoRows DEF RowsNamed
<1> QED BY <1>1, <1>2, <1>3 DEF Follows, Agreeing, PassedBy

LEMMA TurnedFollows ==
  ASSUME NEW st \in Guis, NEW n, Turned(st, n)
  PROVE  Follows(st, n) /\ FilterKept(st, n)
<1>1. n \in Guis /\ n.model.filter = st.model.filter
  BY DEF Turned
<1>2. CASE Anew(st, n)
  BY <1>1, <1>2, AnewFollows DEF FilterKept
<1>3. CASE AsBefore(st, n)
  <2>1. /\ n.snapshot = st.snapshot /\ n.asks = st.asks /\ n.model.rows = st.model.rows
        /\ n.model.order_ids = st.model.order_ids /\ n.model.swap_ids = st.model.swap_ids
    BY <1>3 DEF AsBefore
  <2>2. RowsNamed(st.model) => RowsNamed(n.model)
    BY <2>1 DEF RowsNamed
  <2> QED BY <1>1, <2>1, <2>2 DEF Follows, FilterKept, Agreeing, PassedBy, AsksOf
<1> QED BY <1>2, <1>3 DEF Turned

LEMMA Refreshed ==
  ASSUME NEW st \in Guis, Sound(st.snapshot), NEW reset \in BOOLEAN
  PROVE  Follows(st, RefreshOrInsert(st, reset)) /\ FilterKept(st, RefreshOrInsert(st, reset))
<1> DEFINE now == NotBusyAfter(st, reset)
           c == st.snapshot
           n == RefreshOrInsert(st, reset)
<1>1. /\ now \in Guis /\ now.model = st.model /\ now.snapshot = c /\ now.asks = st.asks
  BY DEF NotBusyAfter, Guis
<1>2. c \in OrderSnapshots /\ c \in OrderContents /\ Sound(c) /\ st.model \in OrderModels
  BY GuiFields
<1> DEFINE mid == SetCommonData(now, c)
           ins == UpdateOrInsertOrders(mid, c)
           upd == UpdateOrInsertSwaps(ins, c)
<1>3. n \in {now, InitModel(now, c), upd}
  <2>1. n = CASE now.busy -> now
              [] ~now.busy /\ now.model.rows = <<>> -> InitModel(now, now.snapshot)
              [] OTHER -> UpdateOrInsertSwaps(UpdateOrInsertOrders(SetCommonData(now, now.snapshot), now.snapshot), now.snapshot)
    BY DEF RefreshOrInsert
  <2> HIDE DEF now, n
  <2>2. n = CASE now.busy -> now
              [] ~now.busy /\ now.model.rows = <<>> -> InitModel(now, c)
              [] OTHER -> upd
    BY <1>1, <2>1
  <2> HIDE DEF upd
  <2> QED BY <2>2
<1> HIDE DEF now, n
<1>4. CASE n = now
  <2>1. Turned(st, n)
    BY <1>1, <1>4 DEF Turned, AsBefore
  <2> QED BY <2>1, TurnedFollows DEF n
<1>5. CASE n = InitModel(now, c)
  <2>1. /\ n \in Guis /\ n.snapshot = now.snapshot /\ n.asks = now.asks
        /\ \/ n = now
           \/ /\ n.model.filter = c.filter /\ n.model.rows = c.rows
              /\ n.model.swap_ids = SwapIdsOf(c) /\ n.model.order_ids = OrderIdsOf(c)
              /\ RowsNamed(n.model)
    BY <1>1, <1>2, <1>5, ModelInitialised
  <2>2. CASE n # now
    <3>1. /\ n \in Guis /\ n.snapshot = c /\ n.asks = st.asks
          /\ n.model.filter = c.filter /\ n.model.rows = c.rows
          /\ n.model.swap_ids = SwapIdsOf(c) /\ n.model.order_ids = OrderIdsOf(c)
          /\ RowsNamed(n.model)
      BY <1>1, <2>1, <2>2
    <3>2. FinishedPass(n.model.rows, n.model.filter)
      BY <1>2, <3>1 DEF Sound
    <3>3. Follows(st, n)
      BY <1>2, <3>1 DEF Follows, Agreeing
    <3>4. FilterKept(st, n)
      BY <3>1, <3>2 DEF FilterKept, PassedBy, AsksOf
    <3> QED BY <3>3, <3>4 DEF n
  <2> QED BY <1>4, <2>2
<1>6. CASE n = upd
  <2> HIDE DEF c
  <2>1. Turned(now, mid) /\ mid \in Guis
    BY <1>1, <1>2, CommonDataTurned DEF Turned
  <2> HIDE DEF mid
  <2>2. /\ ins \in Guis /\ ins.snapshot = mid.snapshot /\ ins.asks = mid.asks
        /\ ins.model.filter = mid.model.filter /\ ins.model.swap_ids = mid.model.swap_ids
        /\ ToSet(ins.model.rows) \subseteq ToSet(mid.model.rows) \cup ToSet(c.rows)
        /\ RowsNamed(mid.model) /\ mid.model.swap_ids \cap OrderIdsOf(c) \subseteq mid.model.order_ids =>
             RowsNamed(ins.model) /\ ins.model.order_ids = OrderIdsOf(c)
    BY <1>2, <2>1, OrdersInserted
  <2> HIDE DEF ins
  <2>3. /\ n \in Guis /\ n.snapshot = ins.snapshot /\ n.asks = ins.asks
        /\ n.model.filter = ins.model.filter /\ n.model.order_ids = ins.model.order_ids
        /\ n.model.swap_ids = ins.model.swap_ids \cup SwapIdsOf(c)
        /\ \A f : FinishedPass(ins.model.rows, f) /\ FinishedPass(c.rows, f) => FinishedPass(n.model.rows, f)
        /\ RowsNamed(ins.model) => RowsNamed(n.model)
    BY <1>2, <1>6, <2>2, SwapsInserted
  <2>4. n.model.filter = st.model.filter
    BY <1>1, <2>1, <2>2, <2>3 DEF Turned
  <2>5. ASSUME PassedBy(st.model, c) PROVE FinishedPass(n.model.rows, n.model.filter)
    <3>1. FinishedPass(c.rows, n.model.filter)
      BY <1>2, <2>4, <2>5 DEF Sound, PassedBy
    <3>2. FinishedPass(mid.model.rows, n.model.filter)
      <4>1. CASE AsBefore(now, mid)
        BY <1>1, <2>4, <2>5, <4>1 DEF AsBefore, PassedBy
      <4>2. CASE Anew(now, mid)
        BY <4>2, NoRows DEF Anew
      <4> QED BY <2>1, <4>1, <4>2 DEF Turned
    <3>3. FinishedPass(ins.model.rows, n.model.filter)
      BY <2>2, <3>1, <3>2 DEF FinishedPass
    <3> QED BY <2>3, <3>1, <3>3
  <2>6. CASE AsBefore(now, mid)
    <3>1. /\ n.snapshot = c /\ n.asks = st.asks /\ mid.model.rows = st.model.rows
          /\ mid.model.order_ids = st.model.order_ids /\ mid.model.swap_ids = st.model.swap_ids
      BY <1>1, <2>2, <2>3, <2>6 DEF AsBefore
    <3>2. Agreeing(st.model, c) => Agreeing(n.model, c)
      <4> SUFFICES ASSUME Agreeing(st.model, c) PROVE Agreeing(n.model, c)
        OBVIOUS
      <4>1. RowsNamed(mid.model) /\ mid.model.swap_ids \cap OrderIdsOf(c) \subseteq mid.model.order_ids
        BY <3>1 DEF Agreeing, RowsNamed
      <4> QED BY <2>2, <2>3, <4>1 DEF Agreeing
    <3>3. n.model.swap_ids = st.model.swap_ids \cup SwapIdsOf(c)
      BY <2>2, <2>3, <3>1
    <3>4. Follows(st, n)
      BY <1>2, <2>3, <3>1, <3>2, <3>3 DEF Follows, c
    <3>5. FilterKept(st, n)
      BY <2>4, <2>5, <3>1 DEF FilterKept, PassedBy, AsksOf, c
    <3> QED BY <3>4, <3>5 DEF n
  <2>7. CASE Anew(now, mid)
    <3>1. /\ mid.model.rows = <<>> /\ mid.model.order_ids = {} /\ mid.model.swap_ids = {}
          /\ n.snapshot.rows = <<>> /\ n.snapshot.filter = n.model.filter
          /\ \A a \in ToSet(n.asks) : a \in ToSet(st.asks) \/ a.filter = n.model.filter
      BY <1>1, <2>2, <2>3, <2>7 DEF Anew
    <3>2. RowsNamed(mid.model)
      BY <3>1, NoRows DEF RowsNamed
    <3>3. RowsNamed(n.model) /\ n.model.swap_ids = SwapIdsOf(c)
      BY <2>2, <2>3, <3>1, <3>2
    <3>4. SwapIdsOf(n.snapshot) = {} /\ OrderIdsOf(n.snapshot) = {} /\ Sound(n.snapshot)
      BY <3>1, NoRows DEF SwapIdsOf, OrderIdsOf, Sound
    <3>5. Follows(st, n)
      BY <2>3, <3>3, <3>4 DEF Follows, Agreeing, c
    <3>6. FilterKept(st, n)
      BY <2>4, <2>5, <3>1 DEF FilterKept, PassedBy, AsksOf, c
    <3> QED BY <3>5, <3>6 DEF n
  <2> QED BY <2>1, <2>6, <2>7 DEF Turned
<1> QED BY <1>3, <1>4, <1>5, <1>6 DEF n

-----------------------------------------------------------------------------
(* What an answer holds.                                                   *)

Distinct(s) == \A i, j \in 1..Len(s) : s[i] = s[j] => i = j

LEMMA DistinctSelection ==
  ASSUME NEW S, NEW s \in Seq(S), Distinct(s), NEW T
  PROVE  Distinct(SelectIn(s, T))
<1> DEFINE o == SelectIn(s, T)
<1>1. /\ o \in Seq(S)
      /\ \E p \in [1..Len(o) -> 1..Len(s)] :
            /\ \A k \in 1..Len(o) : o[k] = s[p[k]]
            /\ \A j, k \in 1..Len(o) : j < k => p[j] < p[k]
  BY SelectInIs
<1> HIDE DEF o
<1>2. PICK p \in [1..Len(o) -> 1..Len(s)] :
            /\ \A k \in 1..Len(o) : o[k] = s[p[k]]
            /\ \A j, k \in 1..Len(o) : j < k => p[j] < p[k]
  BY <1>1
<1>3. Len(s) \in Nat /\ Len(o) \in Nat
  BY <1>1, LenProperties
<1>4. ASSUME NEW j \in 1..Len(o), NEW k \in 1..Len(o), o[j] = o[k] PROVE j = k
  <2>1. p[j] = p[k]
    BY <1>2, <1>4 DEF Distinct
  <2>2. p[j] \in Nat /\ ~(j < k) /\ ~(k < j)
    BY <1>2, <1>3, <2>1
  <2> QED BY <1>3, <2>2
<1>5. Distinct(o)
  BY <1>4 DEF Distinct
<1> QED BY <1>5 DEF o

LEMMA DistinctConcat ==
  ASSUME NEW S, NEW s \in Seq(S), NEW t \in Seq(S), Distinct(s), Distinct(t), ToSet(s) \cap ToSet(t) = {}
  PROVE  Distinct(s \o t)
<1>1. /\ Len(s \o t) = Len(s) + Len(t)
      /\ \A i \in 1..(Len(s) + Len(t)) : (s \o t)[i] = IF i <= Len(s) THEN s[i] ELSE t[i - Len(s)]
  BY ConcatProperties
<1>2. /\ Len(s) \in Nat /\ Len(t) \in Nat
      /\ \A i \in 1..Len(s) : s[i] \in ToSet(s)
      /\ \A i \in 1..Len(t) : t[i] \in ToSet(t)
  BY RowsOf
<1> SUFFICES ASSUME NEW i \in 1..(Len(s) + Len(t)), NEW j \in 1..(Len(s) + Len(t)), (s \o t)[i] = (s \o t)[j]
             PROVE  i = j
  BY <1>1 DEF Distinct
<1>3. ASSUME NEW k \in 1..(Len(s) + Len(t))
      PROVE  \/ k \in 1..Len(s) /\ (s \o t)[k] = s[k] /\ (s \o t)[k] \in ToSet(s)
             \/ k - Len(s) \in 1..Len(t) /\ (s \o t)[k] = t[k - Len(s)] /\ (s \o t)[k] \in ToSet(t)
  <2>1. CASE k <= Len(s)
    BY <1>1, <1>2, <2>1
  <2>2. CASE ~(k <= Len(s))
    <3>1. k - Len(s) \in 1..Len(t) /\ (s \o t)[k] = t[k - Len(s)]
      BY <1>1, <1>2, <2>2
    <3> QED BY <1>2, <3>1
  <2> QED BY <2>1, <2>2
<1>4. CASE i \in 1..Len(s) /\ (s \o t)[i] = s[i] /\ (s \o t)[i] \in ToSet(s)
  <2>1. j \in 1..Len(s) /\ (s \o t)[j] = s[j]
    BY <1>3, <1>4
  <2> QED BY <1>4, <2>1 DEF Distinct
<1>5. CASE i - Len(s) \in 1..Len(t) /\ (s \o t)[i] = t[i - Len(s)] /\ (s \o t)[i] \in ToSet(t)
  <2>1. j - Len(s) \in 1..Len(t) /\ (s \o t)[j] = t[j - Len(s)]
    BY <1>3, <1>5
  <2>2. i - Len(s) = j - Len(s)
    BY <1>5, <2>1 DEF Distinct
  <2> QED BY <1>2, <2>2
<1> QED BY <1>3, <1>4, <1>5

\* The swaps of the daemon, each once.
SwapsListed == kdf_swaps \in Seq(SwapIds) /\ Distinct(kdf_swaps)

LEMMA PassingIs ==
  ASSUME SwapsListed, NEW filter
  PROVE  /\ Passing(filter) \in Seq(SwapIds) /\ Distinct(Passing(filter))
         /\ ToSet(Passing(filter)) = ToSet(kdf_swaps) \cap Passes(filter)
BY SelectInIs, DistinctSelection DEF Passing, SwapsListed

LEMMA LimitsArePositive ==
  ASSUME NEW limit \in Limits
  PROVE  limit \in Nat /\ 1 <= limit /\ limit > 0
<1>1. limit \in Nat \ {0}
  BY OrdersParameters
<1> QED BY ONLY <1>1

LEMMA PageIs ==
  ASSUME SwapsListed, NEW ask \in OrderAsks
  PROVE  /\ PageOf(ask) \in Seq(SwapIds) /\ Distinct(PageOf(ask))
         /\ ToSet(PageOf(ask)) \subseteq ToSet(kdf_swaps) \cap Passes(ask.filter)
<1> DEFINE s == Passing(ask.filter)
           last == ask.page * ask.limit
           a == last - ask.limit + 1
           b == IF last < Len(s) THEN last ELSE Len(s)
           o == SubSeq(s, a, b)
<1>1. /\ s \in Seq(SwapIds) /\ Distinct(s) /\ ToSet(s) = ToSet(kdf_swaps) \cap Passes(ask.filter)
  BY PassingIs
<1> HIDE DEF s
<1>2. Len(s) \in Nat /\ (\A i \in 1..Len(s) : s[i] \in SwapIds) /\ \A x : x \in ToSet(s) <=> \E i \in 1..Len(s) : x = s[i]
  BY <1>1, RowsOf
<1>3. a \in Int /\ b \in Int /\ 1 <= a /\ b <= Len(s)
  <2>1. ask.page \in Nat /\ 1 <= ask.page /\ ask.limit \in Nat /\ 1 <= ask.limit
    <3>1. ask.page \in Nat \ {0} /\ ask.limit \in Limits
      BY DEF OrderAsks
    <3> QED BY <3>1, LimitsArePositive
  <2>2. \A p, l \in Nat : 1 <= p => p * l \in Nat /\ l <= p * l
    OBVIOUS
  <2>3. last \in Nat /\ ask.limit <= last
    BY <2>1, <2>2
  <2> HIDE DEF last
  <2> QED BY <1>2, <2>1, <2>3
<1> HIDE DEF last, a, b
<1>4. \A i \in a..b : i \in 1..Len(s) /\ s[i] \in SwapIds
  BY <1>2, <1>3
<1>5. /\ o \in Seq(SwapIds) /\ Len(o) = (IF a <= b THEN b - a + 1 ELSE 0)
      /\ \A i \in 1..(b - a + 1) : o[i] = s[a + i - 1]
  BY <1>3, <1>4, SubSeqProperties
<1> HIDE DEF o
<1>6. \A i \in 1..Len(o) : a + i - 1 \in 1..Len(s) /\ o[i] = s[a + i - 1] /\ i \in Nat
  <2> SUFFICES ASSUME NEW i \in 1..Len(o) PROVE a + i - 1 \in 1..Len(s) /\ o[i] = s[a + i - 1] /\ i \in Nat
    OBVIOUS
  <2>1. a <= b /\ i \in 1..(b - a + 1)
    BY <1>3, <1>5
  <2> QED BY <1>2, <1>3, <1>5, <2>1
<1>7. Distinct(o)
  <2> SUFFICES ASSUME NEW i \in 1..Len(o), NEW j \in 1..Len(o), o[i] = o[j] PROVE i = j
    BY DEF Distinct
  <2>1. a + i - 1 = a + j - 1
    BY <1>1, <1>6 DEF Distinct
  <2> QED BY <1>3, <1>6, <2>1
<1>8. ToSet(o) \subseteq ToSet(s)
  <2>1. \A x : x \in ToSet(o) <=> \E i \in 1..Len(o) : x = o[i]
    BY <1>5, RowsOf
  <2> QED BY <1>2, <1>6, <2>1
<1>9. PageOf(ask) = o
  BY DEF PageOf, o, s, last, a, b
<1> QED BY <1>1, <1>5, <1>7, <1>8, <1>9

LEMMA OrderRowsAre ==
  ASSUME NEW open \in SUBSET Orders
  PROVE  /\ OrderRows(open) \in Seq(Row) /\ Paired(OrderRows(open))
         /\ \A row \in ToSet(OrderRows(open)) : row.kind = "order" /\ row.status = "open" /\ row.id \in open
<1> DEFINE rowOf(id) == [id |-> id, kind |-> "order", status |-> "open"]
           rs == {rowOf(id) : id \in open}
           o == OrderRows(open)
<1>1. IsFiniteSet(rs)
  <2>1. IsFiniteSet(open)
    BY OrdersAssumption, FS_Subset
  <2> DEFINE f == [id \in open |-> rowOf(id)]
  <2>2. f \in Surjection(open, rs)
    BY DEF Surjection
  <2> HIDE DEF f, rs
  <2> QED BY <2>1, <2>2, FS_Surjection
<1>2. \A r \in rs : r \in Row /\ r.kind = "order" /\ r.status = "open" /\ r.id \in open
  BY OrdersParameters DEF Row
<1>3. \A r, q \in rs : r.id = q.id => r = q
  OBVIOUS
<1> HIDE DEF rs
<1>4. Cardinality(rs) \in Nat /\ \E f : f \in [1..Cardinality(rs) -> rs] /\ IsInjective(f)
  <2>1. Cardinality(rs) \in Nat /\ ExistsBijection(1..Cardinality(rs), rs)
    BY <1>1, FS_CardinalityType
  <2> QED BY <2>1 DEF ExistsBijection, Bijection, Injection, IsInjective
<1>5. o \in [1..Cardinality(rs) -> rs] /\ IsInjective(o)
  <2>1. o = CHOOSE f \in [1..Cardinality(rs) -> rs] : IsInjective(f)
    BY DEF OrderRows, SetToSeq, rs
  <2> HIDE DEF o
  <2> QED BY <1>4, <2>1
<1> HIDE DEF o
<1>6. o \in Seq(Row) /\ Len(o) = Cardinality(rs)
  <2>1. o \in [1..Cardinality(rs) -> Row]
    BY <1>2, <1>5
  <2> QED BY <1>4, <2>1, SeqOfFunction
<1>7. /\ DOMAIN o = 1..Len(o) /\ \A x : x \in ToSet(o) <=> \E i \in 1..Len(o) : x = o[i]
  BY <1>6, RowsOf
<1>8. \A row \in ToSet(o) : row.kind = "order" /\ row.status = "open" /\ row.id \in open
  BY <1>2, <1>5, <1>6, <1>7
<1>9. Paired(o)
  <2> SUFFICES ASSUME NEW i \in 1..Len(o), NEW j \in 1..Len(o), i < j, o[i].id = o[j].id PROVE FALSE
    BY <1>7 DEF Paired
  <2>1. o[i] = o[j]
    BY <1>3, <1>5, <1>6
  <2>2. i = j
    BY <1>5, <1>7, <2>1 DEF IsInjective
  <2>3. Len(o) \in Nat
    BY <1>6, LenProperties
  <2> QED BY <2>2, <2>3
<1> QED BY <1>6, <1>8, <1>9 DEF o

LEMMA ContentsAre ==
  ASSUME SwapsListed, ongoing \subseteq ToSet(kdf_swaps), NEW f \in OrderFetches, NEW page \in Nat \ {0},
         NEW recent \in Seq(SwapIds), Distinct(recent),
         ToSet(recent) \subseteq ToSet(kdf_swaps) \cap Passes(f.ask.filter)
  PROVE  LET c == PageContents(f, page, recent)
         IN  /\ c \in OrderSnapshots /\ Sound(c) /\ c.filter = f.ask.filter
             /\ OrderIdsOf(c) \subseteq f.open /\ SwapIdsOf(c) \subseteq ToSet(kdf_swaps)
<1> DEFINE active == SelectIn(kdf_swaps, ongoing)
           others == SelectIn(recent, SwapIds \ ongoing)
           ids == active \o others
           swaps == [k \in DOMAIN ids |-> SwapRow(ids[k])]
           orders == OrderRows(f.open)
           nb == IF recent = <<>> THEN 1 ELSE NbPages(f.ask)
           c == PageContents(f, page, recent)
<1>1. kdf_swaps \in Seq(SwapIds) /\ Distinct(kdf_swaps) /\ ToSet(kdf_swaps) \subseteq SwapIds
  BY RowsOf DEF SwapsListed
<1>2. active \in Seq(SwapIds) /\ Distinct(active) /\ ToSet(active) = ToSet(kdf_swaps) \cap ongoing
  BY <1>1, SelectInIs, DistinctSelection
<1>3. others \in Seq(SwapIds) /\ Distinct(others) /\ ToSet(others) = ToSet(recent) \cap (SwapIds \ ongoing)
  BY SelectInIs, DistinctSelection
<1>4. f.open \in SUBSET Orders /\ f.ask \in OrderAsks /\ f.ask.limit \in Limits /\ f.ask.filter \in Filters
  BY DEF OrderFetches, OrderAsks
<1>5. /\ orders \in Seq(Row) /\ Paired(orders)
      /\ \A row \in ToSet(orders) : row.kind = "order" /\ row.status = "open" /\ row.id \in f.open
  BY <1>4, OrderRowsAre
<1>6. nb \in Nat
  <2>1. NbPages(f.ask) \in Nat
    <3> DEFINE n == Len(Passing(f.ask.filter))
    <3>1. n \in Nat
      BY PassingIs, LenProperties
    <3>2. f.ask.limit \in Nat /\ f.ask.limit > 0
      BY <1>4, LimitsArePositive
    <3>3. NbPages(f.ask) = (n + f.ask.limit - 1) \div f.ask.limit
      BY DEF NbPages
    <3> HIDE DEF n
    <3>4. \A a \in Nat, l \in Nat \ {0} : a \div l \in Nat
      OBVIOUS
    <3>5. n + f.ask.limit - 1 \in Nat
      BY <3>1, <3>2
    <3> QED BY <3>2, <3>3, <3>4, <3>5
  <2> QED BY <2>1
<1>7. c = [page |-> page, limit |-> f.ask.limit, filter |-> f.ask.filter, nb_pages |-> nb,
           rows |-> orders \o swaps]
  BY DEF PageContents
<1> HIDE DEF active, others, orders, nb, c
<1>8. ids \in Seq(SwapIds) /\ Distinct(ids) /\ ToSet(ids) = ToSet(active) \cup ToSet(others)
  <2>1. ToSet(active) \cap ToSet(others) = {}
    BY <1>2, <1>3
  <2> QED BY <1>2, <1>3, <2>1, ConcatOf, DistinctConcat
<1> HIDE DEF ids
<1>9. Len(ids) \in Nat /\ DOMAIN ids = 1..Len(ids) /\ (\A i \in 1..Len(ids) : ids[i] \in SwapIds /\ ids[i] \in ToSet(ids))
  BY <1>8, RowsOf
<1>10. \A id \in SwapIds : SwapRow(id) \in Row /\ SwapRow(id).id = id /\ SwapRow(id).kind = "swap"
                           /\ (SwapRow(id).status = "finished" => id \notin ongoing)
  BY DEF SwapRow, StatusOf, Row
<1>11. swaps \in Seq(Row) /\ Len(swaps) = Len(ids) /\ \A i \in 1..Len(ids) : swaps[i] = SwapRow(ids[i])
  <2>1. swaps \in [1..Len(ids) -> Row]
    BY <1>9, <1>10
  <2>2. \A i \in 1..Len(ids) : swaps[i] = SwapRow(ids[i])
    BY <1>9
  <2> HIDE DEF swaps
  <2> QED BY <1>9, <2>1, <2>2, SeqOfFunction
<1> HIDE DEF swaps
<1>12. /\ DOMAIN swaps = 1..Len(ids) /\ \A x : x \in ToSet(swaps) <=> \E i \in 1..Len(ids) : x = swaps[i]
  BY <1>11, RowsOf
<1>13. Paired(swaps)
  <2> SUFFICES ASSUME NEW i \in 1..Len(ids), NEW j \in 1..Len(ids), i < j, swaps[i].id = swaps[j].id PROVE FALSE
    BY <1>12 DEF Paired
  <2>1. ids[i] = ids[j]
    BY <1>9, <1>10, <1>11
  <2>2. i = j
    BY <1>8, <2>1 DEF Distinct
  <2> QED BY <1>9, <2>2
<1>14. \A row \in ToSet(swaps) : /\ row.kind = "swap" /\ row.id \in ToSet(kdf_swaps)
                                 /\ (row.status = "finished" => row.id \in Passes(f.ask.filter))
  <2> SUFFICES ASSUME NEW i \in 1..Len(ids)
               PROVE  /\ swaps[i].kind = "swap" /\ swaps[i].id \in ToSet(kdf_swaps)
                      /\ (swaps[i].status = "finished" => swaps[i].id \in Passes(f.ask.filter))
    BY <1>12
  <2>1. ids[i] \in SwapIds /\ ids[i] \in ToSet(active) \cup ToSet(others) /\ swaps[i] = SwapRow(ids[i])
    BY <1>8, <1>9, <1>11
  <2> QED BY <1>2, <1>3, <1>10, <2>1
<1>15. /\ orders \o swaps \in Seq(Row) /\ ToSet(orders \o swaps) = ToSet(orders) \cup ToSet(swaps)
  BY <1>5, <1>11, ConcatOf
<1>16. Paired(orders \o swaps)
  BY <1>5, <1>11, <1>13, <1>14, PairedConcat
<1>17. c \in OrderSnapshots /\ c.rows = orders \o swaps /\ c.filter = f.ask.filter
  BY <1>4, <1>6, <1>7, <1>15 DEF OrderSnapshots
<1>18. FinishedPass(c.rows, c.filter)
  <2> SUFFICES ASSUME NEW row \in ToSet(orders) \cup ToSet(swaps), row.status = "finished"
               PROVE  row.id \in Passes(f.ask.filter)
    BY <1>15, <1>17 DEF FinishedPass
  <2> QED BY <1>5, <1>14
<1>19. OrderIdsOf(c) \subseteq f.open
  <2>1. \A id : id \in OrderIdsOf(c) <=> \E row \in ToSet(orders) \cup ToSet(swaps) : row.kind = "order" /\ row.id = id
    <3>1. /\ c.rows \in Seq(Row) /\ ToSet(c.rows) = ToSet(orders) \cup ToSet(swaps)
      BY <1>15, <1>17
    <3> QED BY ONLY <3>1, IdsAre DEF OrderIdsOf
  <2> QED BY <1>5, <1>14, <2>1
<1>20. SwapIdsOf(c) \subseteq ToSet(kdf_swaps)
  <2>1. \A id : id \in SwapIdsOf(c) <=> \E row \in ToSet(orders) \cup ToSet(swaps) : row.kind = "swap" /\ row.id = id
    <3>1. /\ c.rows \in Seq(Row) /\ ToSet(c.rows) = ToSet(orders) \cup ToSet(swaps)
      BY <1>15, <1>17
    <3> QED BY ONLY <3>1, IdsAre DEF SwapIdsOf
  <2> QED BY <1>5, <1>14, <2>1
<1>21. Sound(c)
  BY <1>4, <1>16, <1>17, <1>18, <1>19 DEF Sound
<1> QED BY <1>17, <1>19, <1>20, <1>21 DEF c

-----------------------------------------------------------------------------
(* The batches: who was begun before whom, and what an answer may hold.    *)

\* Of two batches, the earlier waits whenever the later does.
Lined(f, g) == g.pc = "sent" => f.pc = "sent"

\* Of two batches answered one at a time, the earlier is answered before the
\* later begins, which finds no open order that is a swap of the earlier.
TakesTurns(f, g) == f.pc # "begun" /\ (f.pc = "answered" => g.open \cap SwapIdsOf(f.contents) = {})

Line(fs) == \A i, j \in 1..Len(fs) : i < j => Lined(fs[i], fs[j])
Turns(fs) == \A i, j \in 1..Len(fs) : i < j => TakesTurns(fs[i], fs[j])

\* The swaps of an answer are swaps the daemon has.
AnswerSound(f) ==
  f.pc = "answered" =>
    /\ f.contents \in OrderSnapshots /\ Sound(f.contents) /\ f.contents.filter = f.ask.filter
    /\ OrderIdsOf(f.contents) \subseteq f.open /\ SwapIdsOf(f.contents) \subseteq ToSet(kdf_swaps)

LEMMA BatchSent ==
  ASSUME NEW ask \in OrderAsks
  PROVE  Sent(ask) \in OrderFetches /\ Sent(ask).pc = "sent" /\ Sent(ask).ask = ask
<1>1. EmptyContents(1, 1, NoFilter) \in OrderContents
  BY NoRows, OrdersParameters DEF EmptyContents, OrderContents
<1> QED BY <1>1 DEF Sent, OrderFetches

LEMMA SentBefore ==
  ASSUME NEW fs \in Seq(OrderFetches), NEW asks \in Seq(OrderAsks)
  PROVE  LET gs == [i \in DOMAIN asks |-> Sent(asks[i])] \o fs
         IN  /\ gs \in Seq(OrderFetches)
             /\ \A f \in ToSet(gs) : f \in ToSet(fs) \/ (f.pc = "sent" /\ f.ask \in ToSet(asks))
             /\ (Line(fs) => Line(gs)) /\ (Turns(fs) => Turns(gs))
<1> DEFINE s == [i \in DOMAIN asks |-> Sent(asks[i])]
           gs == s \o fs
<1>1. /\ Len(asks) \in Nat /\ DOMAIN asks = 1..Len(asks) /\ \A i \in 1..Len(asks) : asks[i] \in OrderAsks /\ asks[i] \in ToSet(asks)
  BY RowsOf
<1>2. \A i \in 1..Len(asks) : s[i] \in OrderFetches /\ s[i].pc = "sent" /\ s[i].ask \in ToSet(asks)
  BY <1>1, BatchSent
<1>3. s \in Seq(OrderFetches) /\ Len(s) = Len(asks)
  <2>1. s \in [1..Len(asks) -> OrderFetches]
    BY <1>1, BatchSent
  <2> HIDE DEF s
  <2> QED BY <1>1, <2>1, SeqOfFunction
<1> HIDE DEF s
<1>4. /\ gs \in Seq(OrderFetches) /\ Len(gs) = Len(s) + Len(fs) /\ ToSet(gs) = ToSet(s) \cup ToSet(fs)
      /\ \A i \in 1..(Len(s) + Len(fs)) : gs[i] = IF i <= Len(s) THEN s[i] ELSE fs[i - Len(s)]
  BY <1>3, ConcatProperties, ConcatOf
<1> HIDE DEF gs
<1>5. \A f \in ToSet(s) : f.pc = "sent" /\ f.ask \in ToSet(asks)
  <2>1. \A f : f \in ToSet(s) <=> \E i \in 1..Len(s) : f = s[i]
    BY <1>3, RowsOf
  <2> QED BY <1>2, <1>3, <2>1
<1>6. Len(fs) \in Nat
  BY LenProperties
<1>7. ASSUME NEW i \in 1..Len(gs), NEW j \in 1..Len(gs), i < j
      PROVE  \/ gs[i].pc = "sent"
             \/ i - Len(s) \in 1..Len(fs) /\ j - Len(s) \in 1..Len(fs) /\ i - Len(s) < j - Len(s)
                /\ gs[i] = fs[i - Len(s)] /\ gs[j] = fs[j - Len(s)]
  <2>1. CASE i <= Len(s)
    <3>1. i \in 1..Len(asks) /\ gs[i] = s[i]
      BY <1>1, <1>3, <1>4, <1>6, <2>1
    <3> QED BY <1>2, <3>1
  <2>2. CASE ~(i <= Len(s))
    BY <1>1, <1>3, <1>4, <1>6, <1>7, <2>2
  <2> QED BY <2>1, <2>2
<1>8. Line(fs) => Line(gs)
  <2> SUFFICES ASSUME Line(fs), NEW i \in 1..Len(gs), NEW j \in 1..Len(gs), i < j PROVE Lined(gs[i], gs[j])
    BY DEF Line
  <2>1. CASE gs[i].pc = "sent"
    BY <2>1 DEF Lined
  <2>2. CASE gs[i].pc # "sent"
    BY <1>7, <2>2 DEF Line
  <2> QED BY <2>1, <2>2
<1>9. Turns(fs) => Turns(gs)
  <2> SUFFICES ASSUME Turns(fs), NEW i \in 1..Len(gs), NEW j \in 1..Len(gs), i < j PROVE TakesTurns(gs[i], gs[j])
    BY DEF Turns
  <2>1. CASE gs[i].pc = "sent"
    BY <2>1 DEF TakesTurns
  <2>2. CASE gs[i].pc # "sent"
    BY <1>7, <2>2 DEF Turns
  <2> QED BY <2>1, <2>2
<1> QED BY <1>4, <1>5, <1>8, <1>9 DEF gs, s

LEMMA BatchGone ==
  ASSUME NEW fs \in Seq(OrderFetches), NEW k \in 1..Len(fs)
  PROVE  LET gs == RemoveAt(fs, k)
         IN  /\ gs \in Seq(OrderFetches) /\ ToSet(gs) \subseteq ToSet(fs)
             /\ (Line(fs) => Line(gs)) /\ (Turns(fs) => Turns(gs))
<1> DEFINE gs == RemoveAt(fs, k)
           at(i) == IF i < k THEN i ELSE i + 1
<1>1. /\ gs \in Seq(OrderFetches) /\ Len(gs) = Len(fs) - 1
      /\ \A i \in 1..(Len(fs) - 1) : gs[i] = fs[at(i)]
  BY RemoveAtIs
<1> HIDE DEF gs
<1>2. Len(fs) \in Nat /\ k \in Nat
  BY LenProperties
<1>3. \A i \in 1..Len(gs) : at(i) \in 1..Len(fs) /\ gs[i] = fs[at(i)] /\ at(i) \in Nat
  BY <1>1, <1>2
<1>4. \A i, j \in 1..Len(gs) : i < j => at(i) < at(j)
  BY <1>1, <1>2
<1> HIDE DEF at
<1>5. ToSet(gs) \subseteq ToSet(fs)
  <2>1. /\ \A f : f \in ToSet(gs) <=> \E i \in 1..Len(gs) : f = gs[i]
        /\ \A f : f \in ToSet(fs) <=> \E i \in 1..Len(fs) : f = fs[i]
    BY <1>1, RowsOf
  <2> QED BY <1>3, <2>1
<1>6. (Line(fs) => Line(gs)) /\ (Turns(fs) => Turns(gs))
  BY <1>3, <1>4 DEF Line, Turns
<1> QED BY <1>1, <1>5, <1>6 DEF gs

LEMMA BatchLast ==
  ASSUME NEW fs \in Seq(OrderFetches), NEW g \in OrderFetches, g.pc # "sent"
  PROVE  LET gs == Append(fs, g)
         IN  /\ gs \in Seq(OrderFetches) /\ \A f \in ToSet(gs) : f \in ToSet(fs) \/ f = g
             /\ Line(fs) => Line(gs)
             /\ Turns(fs) /\ (\A f \in ToSet(fs) : TakesTurns(f, g)) => Turns(gs)
<1> DEFINE gs == Append(fs, g)
<1>1. /\ gs \in Seq(OrderFetches) /\ Len(gs) = Len(fs) + 1
      /\ \A i \in 1..Len(fs) : gs[i] = fs[i]
      /\ gs[Len(fs) + 1] = g
  BY AppendProperties
<1> HIDE DEF gs
<1>2. Len(fs) \in Nat /\ \A f : f \in ToSet(fs) <=> \E i \in 1..Len(fs) : f = fs[i]
  BY RowsOf
<1>3. \A f : f \in ToSet(gs) <=> \E i \in 1..Len(gs) : f = gs[i]
  BY <1>1, RowsOf
<1>4. \A i \in 1..Len(gs) : i \in 1..Len(fs) \/ i = Len(fs) + 1
  BY <1>1, <1>2
<1>5. \A f \in ToSet(gs) : f \in ToSet(fs) \/ f = g
  BY <1>1, <1>2, <1>3, <1>4
<1>6. \A i, j \in 1..Len(gs) : i < j => i \in 1..Len(fs)
  BY <1>1, <1>2
<1>7. Line(fs) => Line(gs)
  <2> SUFFICES ASSUME Line(fs), NEW i \in 1..Len(gs), NEW j \in 1..Len(gs), i < j PROVE Lined(gs[i], gs[j])
    BY DEF Line
  <2>1. CASE j = Len(fs) + 1
    BY <1>1, <2>1 DEF Lined
  <2>2. CASE j \in 1..Len(fs)
    BY <1>1, <1>6, <2>2 DEF Line
  <2> QED BY <1>4, <2>1, <2>2
<1>8. ASSUME Turns(fs), \A f \in ToSet(fs) : TakesTurns(f, g) PROVE Turns(gs)
  <2> SUFFICES ASSUME NEW i \in 1..Len(gs), NEW j \in 1..Len(gs), i < j PROVE TakesTurns(gs[i], gs[j])
    BY DEF Turns
  <2>0. i \in 1..Len(fs) /\ gs[i] = fs[i] /\ fs[i] \in ToSet(fs)
    BY <1>1, <1>2, <1>6
  <2>1. CASE j = Len(fs) + 1
    BY <1>1, <1>8, <2>0, <2>1
  <2>2. CASE j \in 1..Len(fs)
    BY <1>1, <1>8, <2>0, <2>2 DEF Turns
  <2> QED BY <1>4, <2>1, <2>2
<1> QED BY <1>1, <1>5, <1>7, <1>8 DEF gs

\* A batch that has begun is answered.
LEMMA BatchAnswered ==
  ASSUME NEW fs \in Seq(OrderFetches), NEW k \in 1..Len(fs), fs[k].pc = "begun", NEW c \in OrderSnapshots
  PROVE  LET gs == [fs EXCEPT ![k].pc = "answered", ![k].contents = c]
             g  == [fs[k] EXCEPT !.pc = "answered", !.contents = c]
         IN  /\ gs \in Seq(OrderFetches) /\ \A f \in ToSet(gs) : f \in ToSet(fs) \/ f = g
             /\ g.pc = "answered" /\ g.contents = c /\ g.open = fs[k].open /\ g.ask = fs[k].ask
             /\ (Line(fs) => Line(gs)) /\ (Turns(fs) => Turns(gs))
<1> DEFINE gs == [fs EXCEPT ![k].pc = "answered", ![k].contents = c]
           g  == [fs[k] EXCEPT !.pc = "answered", !.contents = c]
<1>1. /\ Len(fs) \in Nat /\ DOMAIN fs = 1..Len(fs) /\ (\A i \in 1..Len(fs) : fs[i] \in OrderFetches)
      /\ \A f : f \in ToSet(fs) <=> \E i \in 1..Len(fs) : f = fs[i]
  BY RowsOf
<1>2. c \in OrderContents
  BY DEF OrderSnapshots, OrderContents
<1>3. g \in OrderFetches /\ g.pc = "answered" /\ g.contents = c /\ g.open = fs[k].open /\ g.ask = fs[k].ask
  <2>1. fs[k] \in OrderFetches
    BY <1>1
  <2> QED BY <1>2, <2>1 DEF OrderFetches
<1>4. gs = [fs EXCEPT ![k] = g]
  BY <1>1
<1> HIDE DEF g, gs
<1>5. gs \in [1..Len(fs) -> OrderFetches] /\ gs[k] = g /\ \A i \in 1..Len(fs) : i # k => gs[i] = fs[i]
  <2>1. fs \in [1..Len(fs) -> OrderFetches]
    BY <1>1, LenProperties
  <2> QED BY <1>3, <1>4, <2>1
<1>6. gs \in Seq(OrderFetches) /\ Len(gs) = Len(fs)
  BY <1>1, <1>5, SeqOfFunction
<1>7. \A f \in ToSet(gs) : f \in ToSet(fs) \/ f = g
  <2>1. \A f : f \in ToSet(gs) <=> \E i \in 1..Len(gs) : f = gs[i]
    BY <1>6, RowsOf
  <2> QED BY <1>1, <1>5, <1>6, <2>1
<1>8. Line(fs) => Line(gs)
  <2> SUFFICES ASSUME Line(fs), NEW i \in 1..Len(fs), NEW j \in 1..Len(fs), i < j PROVE Lined(gs[i], gs[j])
    BY <1>6 DEF Line
  <2>1. Lined(fs[i], fs[j])
    BY DEF Line
  <2>2. i # j
    BY <1>1
  <2> QED BY <1>3, <1>5, <2>1, <2>2 DEF Lined
<1>9. Turns(fs) => Turns(gs)
  <2> SUFFICES ASSUME Turns(fs), NEW i \in 1..Len(fs), NEW j \in 1..Len(fs), i < j PROVE TakesTurns(gs[i], gs[j])
    BY <1>6 DEF Turns
  <2>1. TakesTurns(fs[i], fs[j])
    BY DEF Turns
  <2>2. i # k
    BY <2>1 DEF TakesTurns
  <2>3. gs[j].open = fs[j].open
    BY <1>3, <1>5
  <2> QED BY <1>5, <2>1, <2>2, <2>3 DEF TakesTurns
<1> QED BY <1>3, <1>6, <1>7, <1>8, <1>9 DEF g, gs

-----------------------------------------------------------------------------
(* The inductive invariant.                                                *)

OrdersTyped ==
  /\ model \in OrderModels
  /\ fetching_busy \in BOOLEAN /\ is_history \in BOOLEAN /\ recovering \in BOOLEAN
  /\ snapshot \in OrderSnapshots
  /\ fetches \in Seq(OrderFetches)
  /\ actions_queue \in Seq(BOOLEAN)

\* The daemon has a swap once, and no open order with the id of a swap.
DaemonSound ==
  /\ SwapsListed
  /\ ongoing \subseteq ToSet(kdf_swaps)
  /\ kdf_orders \subseteq Orders /\ kdf_orders \cap ToSet(kdf_swaps) = {}

\* What the model, the snapshot and the answers name, the daemon has.
HeldSound ==
  /\ Sound(snapshot)
  /\ SwapIdsOf(snapshot) \cup model.swap_ids \subseteq ToSet(kdf_swaps)
  /\ \A f \in ToSet(fetches) : AnswerSound(f)

\* No batch under way has an open order the model or the snapshot has as a swap.
NoneIsBehind ==
  \A f \in ToSet(fetches) : f.pc # "sent" => f.open \cap (model.swap_ids \cup SwapIdsOf(snapshot)) = {}

InTurn == ordersExcuses \cap {"overtaken", "interleaved"} = {}
HeldInTurn == InTurn => Turns(fetches) /\ NoneIsBehind /\ Agreeing(model, snapshot)

FiltersAgree ==
  ordersExcuses = {} =>
    PassedBy(model, snapshot) /\ \A f \in ToSet(fetches) : f.ask.filter = model.filter

OrdersInv == OrdersTyped /\ DaemonSound /\ HeldSound /\ Line(fetches) /\ HeldInTurn /\ FiltersAgree

LEMMA GuiIs ==
  ASSUME OrdersTyped
  PROVE  /\ OrdersGui \in Guis /\ OrdersGui.model = model /\ OrdersGui.busy = fetching_busy
         /\ OrdersGui.snapshot = snapshot /\ OrdersGui.asks = <<>> /\ ToSet(OrdersGui.asks) = {}
<1>1. <<>> \in Seq(OrderAsks) /\ ToSet(<<>>) = {}
  BY EmptySeq DEF ToSet
<1> QED BY <1>1 DEF OrdersTyped, OrdersGui, Guis

\* An excuse stays.
LEMMA ExcusesStay ==
  ASSUME NEW why, NEW if \in BOOLEAN, Excuse(why, if)
  PROVE  /\ InTurn' => InTurn /\ ~(if /\ why \in {"overtaken", "interleaved"})
         /\ ordersExcuses' = {} => ordersExcuses = {} /\ ~if
BY DEF Excuse, InTurn

\* What a handler of the GUI thread leaves behind.
LEMMA GuiStep ==
  ASSUME OrdersInv, NEW n, Follows(OrdersGui, n), CommitModel(n), UNCHANGED daemonVars,
         actions_queue' \in Seq(BOOLEAN), is_history' \in BOOLEAN, recovering' \in BOOLEAN,
         InTurn' => InTurn,
         ordersExcuses' = {} =>
           /\ PassedBy(n.model, n.snapshot)
           /\ \A f \in ToSet(fetches) : f.ask.filter = n.model.filter
           /\ \A a \in ToSet(n.asks) : a.filter = n.model.filter
  PROVE  OrdersInv'
<1>1. /\ n \in Guis /\ (Sound(snapshot) => Sound(n.snapshot))
      /\ SwapIdsOf(n.snapshot) \subseteq SwapIdsOf(snapshot)
      /\ n.model.swap_ids \subseteq model.swap_ids \cup SwapIdsOf(snapshot)
      /\ Agreeing(model, snapshot) => Agreeing(n.model, n.snapshot)
  BY GuiIs DEF Follows, OrdersInv
<1>2. /\ model' = n.model /\ fetching_busy' = n.busy /\ snapshot' = n.snapshot
      /\ fetches' = [i \in DOMAIN n.asks |-> Sent(n.asks[i])] \o fetches
  BY DEF CommitModel
<1>3. n.model \in OrderModels /\ n.busy \in BOOLEAN /\ n.snapshot \in OrderSnapshots /\ n.asks \in Seq(OrderAsks)
  BY <1>1, GuiFields
<1>4. kdf_orders' = kdf_orders /\ kdf_swaps' = kdf_swaps /\ ongoing' = ongoing
  BY DEF daemonVars
<1>5. fetches \in Seq(OrderFetches)
  BY DEF OrdersInv, OrdersTyped
<1>6. /\ fetches' \in Seq(OrderFetches)
      /\ \A f \in ToSet(fetches') : f \in ToSet(fetches) \/ (f.pc = "sent" /\ f.ask \in ToSet(n.asks))
      /\ (Line(fetches) => Line(fetches')) /\ (Turns(fetches) => Turns(fetches'))
  BY <1>2, <1>3, <1>5, SentBefore
<1>7. OrdersTyped'
  BY <1>2, <1>3, <1>6 DEF OrdersTyped
<1>8. DaemonSound'
  BY <1>4 DEF OrdersInv, DaemonSound, SwapsListed
<1>9. HeldSound'
  <2>1. Sound(snapshot) /\ SwapIdsOf(snapshot) \cup model.swap_ids \subseteq ToSet(kdf_swaps) /\ \A f \in ToSet(fetches) : AnswerSound(f)
    BY DEF OrdersInv, HeldSound
  <2>2. Sound(snapshot') /\ SwapIdsOf(snapshot') \cup model'.swap_ids \subseteq ToSet(kdf_swaps')
    BY <1>1, <1>2, <1>4, <2>1
  <2>3. ASSUME NEW f \in ToSet(fetches') PROVE AnswerSound(f)'
    BY <1>4, <1>6, <2>1 DEF AnswerSound
  <2> QED BY <2>2, <2>3 DEF HeldSound
<1>10. Line(fetches')
  BY <1>6 DEF OrdersInv
<1>11. HeldInTurn'
  <2> SUFFICES ASSUME InTurn' PROVE Turns(fetches') /\ NoneIsBehind' /\ Agreeing(model', snapshot')
    BY DEF HeldInTurn
  <2>1. Turns(fetches) /\ NoneIsBehind /\ Agreeing(model, snapshot)
    BY DEF OrdersInv, HeldInTurn
  <2>2. NoneIsBehind'
    BY <1>1, <1>2, <1>6, <2>1 DEF NoneIsBehind
  <2> QED BY <1>1, <1>2, <1>6, <2>1, <2>2
<1>12. FiltersAgree'
  <2> SUFFICES ASSUME ordersExcuses' = {}
               PROVE  PassedBy(model', snapshot') /\ \A f \in ToSet(fetches') : f.ask.filter = model'.filter
    BY DEF FiltersAgree
  <2> QED BY <1>2, <1>6
<1> QED BY <1>7, <1>8, <1>9, <1>10, <1>11, <1>12 DEF OrdersInv

\* Batches are sent, begun, answered and lost; the model and the snapshot stay.
LEMMA BatchStep ==
  ASSUME OrdersInv, UNCHANGED <<model, fetching_busy, is_history, recovering, snapshot, actions_queue, daemonVars>>,
         fetches' \in Seq(OrderFetches), Line(fetches'),
         InTurn' => InTurn /\ Turns(fetches'),
         ordersExcuses' = {} => ordersExcuses = {},
         \A f \in ToSet(fetches') :
            \/ f \in ToSet(fetches)
            \/ /\ AnswerSound(f)
               /\ InTurn' /\ f.pc # "sent" => f.open \cap (model.swap_ids \cup SwapIdsOf(snapshot)) = {}
               /\ ordersExcuses' = {} => f.ask.filter = model.filter
  PROVE  OrdersInv'
<1>1. /\ model' = model /\ fetching_busy' = fetching_busy /\ is_history' = is_history /\ recovering' = recovering
      /\ snapshot' = snapshot /\ actions_queue' = actions_queue
      /\ kdf_orders' = kdf_orders /\ kdf_swaps' = kdf_swaps /\ ongoing' = ongoing
  BY DEF daemonVars
<1>2. OrdersTyped'
  BY <1>1 DEF OrdersInv, OrdersTyped
<1>3. DaemonSound'
  BY <1>1 DEF OrdersInv, DaemonSound, SwapsListed
<1>4. HeldSound'
  <2>1. \A f \in ToSet(fetches) : AnswerSound(f)
    BY DEF OrdersInv, HeldSound
  <2>2. ASSUME NEW f \in ToSet(fetches') PROVE AnswerSound(f)'
    <3>1. AnswerSound(f)
      BY <2>1
    <3> QED BY <1>1, <3>1 DEF AnswerSound
  <2> QED BY <1>1, <2>2 DEF OrdersInv, HeldSound
<1>5. HeldInTurn'
  <2> SUFFICES ASSUME InTurn' PROVE Turns(fetches') /\ NoneIsBehind' /\ Agreeing(model', snapshot')
    BY DEF HeldInTurn
  <2>1. NoneIsBehind /\ Agreeing(model, snapshot)
    BY DEF OrdersInv, HeldInTurn
  <2>2. NoneIsBehind'
    BY <1>1, <2>1 DEF NoneIsBehind
  <2> QED BY <1>1, <2>1, <2>2
<1>6. FiltersAgree'
  BY <1>1 DEF OrdersInv, FiltersAgree
<1> QED BY <1>2, <1>3, <1>4, <1>5, <1>6 DEF OrdersInv

\* The daemon, the buttons and the commands: nothing held changes.
LEMMA OutsideStep ==
  ASSUME OrdersInv, UNCHANGED <<model, fetching_busy, snapshot, fetches, actions_queue, ordersExcuses>>,
         is_history' \in BOOLEAN, recovering' \in BOOLEAN,
         DaemonSound', ToSet(kdf_swaps) \subseteq ToSet(kdf_swaps')
  PROVE  OrdersInv'
<1>1. OrdersTyped'
  BY DEF OrdersInv, OrdersTyped
<1>2. HeldSound'
  <2>1. ASSUME NEW f \in ToSet(fetches) PROVE AnswerSound(f)'
    <3>1. AnswerSound(f)
      BY DEF OrdersInv, HeldSound
    <3> QED BY <3>1 DEF AnswerSound
  <2> QED BY <2>1 DEF OrdersInv, HeldSound
<1>3. HeldInTurn'
  BY DEF OrdersInv, HeldInTurn, InTurn, NoneIsBehind
<1>4. FiltersAgree'
  BY DEF OrdersInv, FiltersAgree
<1>5. Line(fetches')
  BY DEF OrdersInv
<1> QED BY <1>1, <1>2, <1>3, <1>4, <1>5 DEF OrdersInv

LEMMA OrdersInitInv ==
  ASSUME OrdersInit
  PROVE  OrdersInv
<1>1. /\ model = [page |-> 1, limit |-> FirstLimit, filter |-> NoFilter,
                  nb_pages |-> 1, rows |-> <<>>, order_ids |-> {}, swap_ids |-> {}]
      /\ fetching_busy = FALSE /\ is_history = FALSE /\ recovering = FALSE
      /\ snapshot = [page |-> 1, limit |-> FirstLimit, filter |-> NoFilter, nb_pages |-> 1, rows |-> <<>>]
      /\ fetches = <<>> /\ actions_queue = <<>>
      /\ kdf_orders = Orders /\ kdf_swaps = OldSwaps /\ ongoing = {}
  BY DEF OrdersInit, EmptyContents
<1>2. /\ model.filter = NoFilter /\ model.rows = <<>> /\ model.order_ids = {} /\ model.swap_ids = {}
      /\ snapshot.filter = NoFilter /\ snapshot.rows = <<>>
  BY <1>1
<1>3. fetches \in Seq(OrderFetches) /\ actions_queue \in Seq(BOOLEAN) /\ Len(fetches) = 0 /\ ToSet(fetches) = {}
  BY <1>1, EmptySeq DEF ToSet
<1>4. model \in OrderModels /\ snapshot \in OrderSnapshots
  BY <1>1, NoRows, OrdersParameters DEF OrderModels, OrderSnapshots
<1>5. OrdersTyped
  BY <1>1, <1>3, <1>4 DEF OrdersTyped
<1>6. SwapsListed
  <2>1. OldSwaps \in Seq(ToSet(OldSwaps)) /\ IsInjective(OldSwaps)
    BY OrdersAssumption
  <2>2. Len(OldSwaps) \in Nat /\ DOMAIN OldSwaps = 1..Len(OldSwaps) /\ \A i \in 1..Len(OldSwaps) : OldSwaps[i] \in SwapIds
    BY <2>1, RowsOf, OrdersParameters
  <2>3. OldSwaps \in [1..Len(OldSwaps) -> SwapIds]
    BY <2>1, <2>2, LenProperties
  <2>4. OldSwaps \in Seq(SwapIds)
    BY <2>2, <2>3, SeqOfFunction
  <2> QED BY <1>1, <2>1, <2>2, <2>4 DEF SwapsListed, Distinct, IsInjective
<1>7. DaemonSound
  BY <1>1, <1>6, OrdersAssumption DEF DaemonSound
<1>8. SwapIdsOf(snapshot) = {} /\ OrderIdsOf(snapshot) = {} /\ Sound(snapshot)
  BY <1>2, NoRows DEF SwapIdsOf, OrderIdsOf, Sound
<1>9. HeldSound
  BY <1>2, <1>3, <1>8 DEF HeldSound
<1>10. Line(fetches) /\ Turns(fetches)
  BY <1>3 DEF Line, Turns
<1>11. Agreeing(model, snapshot) /\ NoneIsBehind
  BY <1>2, <1>3, NoRows DEF Agreeing, RowsNamed, NoneIsBehind
<1>12. FiltersAgree
  BY <1>2, <1>3, NoRows DEF FiltersAgree, PassedBy
<1> QED BY <1>5, <1>7, <1>9, <1>10, <1>11, <1>12 DEF OrdersInv, HeldInTurn

\* The user turns a page, chooses a limit or enters the history.
LEMMA UserTurns ==
  ASSUME OrdersInv, NEW n, Turned(OrdersGui, n), CommitModel(n), Excuse("overlapped", UnderWay),
         UNCHANGED <<recovering, actions_queue, daemonVars>>, is_history' \in BOOLEAN
  PROVE  OrdersInv'
<1>1. OrdersTyped
  BY DEF OrdersInv
<1>2. /\ OrdersGui \in Guis /\ OrdersGui.model = model /\ OrdersGui.busy = fetching_busy
      /\ OrdersGui.snapshot = snapshot /\ OrdersGui.asks = <<>> /\ ToSet(OrdersGui.asks) = {}
  BY <1>1, GuiIs
<1>3. Follows(OrdersGui, n) /\ FilterKept(OrdersGui, n)
  BY <1>2, TurnedFollows
<1>4. (InTurn' => InTurn) /\ (ordersExcuses' = {} => ordersExcuses = {})
  <2>1. UnderWay \in BOOLEAN
    BY <1>1 DEF OrdersTyped, UnderWay
  <2> QED BY <2>1, ExcusesStay
<1>5. actions_queue' \in Seq(BOOLEAN) /\ recovering' \in BOOLEAN /\ UNCHANGED daemonVars
  BY <1>1 DEF OrdersTyped
<1>6. ASSUME ordersExcuses' = {}
      PROVE  /\ PassedBy(n.model, n.snapshot)
             /\ \A f \in ToSet(fetches) : f.ask.filter = n.model.filter
             /\ \A a \in ToSet(n.asks) : a.filter = n.model.filter
  <2>1. PassedBy(model, snapshot) /\ \A f \in ToSet(fetches) : f.ask.filter = model.filter
    BY <1>4, <1>6 DEF OrdersInv, FiltersAgree
  <2> QED BY <1>2, <1>3, <2>1 DEF FilterKept, AsksOf
<1> QED BY <1>3, <1>4, <1>5, <1>6, GuiStep

LEMMA ChoosePageKeeps ==
  ASSUME OrdersInv, NEW page \in Pages, ChoosePage(page)
  PROVE  OrdersInv'
<1>1. OrdersTyped /\ OrdersGui \in Guis /\ page \in Nat \ {0}
  BY GuiIs, OrdersParameters DEF OrdersInv
<1>2. Turned(OrdersGui, SetCurrentPage(OrdersGui, page))
  BY <1>1, PageTurned
<1>3. /\ CommitModel(SetCurrentPage(OrdersGui, page)) /\ Excuse("overlapped", UnderWay)
      /\ UNCHANGED <<recovering, actions_queue, daemonVars>> /\ is_history' \in BOOLEAN
  BY <1>1 DEF ChoosePage, Chosen, OrdersTyped
<1> QED BY <1>2, <1>3, UserTurns

LEMMA ChooseLimitKeeps ==
  ASSUME OrdersInv, NEW limit \in Limits, ChooseLimit(limit)
  PROVE  OrdersInv'
<1>1. OrdersTyped /\ OrdersGui \in Guis
  BY GuiIs DEF OrdersInv
<1>2. Turned(OrdersGui, SetLimitNbElements(OrdersGui, limit))
  BY <1>1, LimitTurned
<1>3. /\ CommitModel(SetLimitNbElements(OrdersGui, limit)) /\ Excuse("overlapped", UnderWay)
      /\ UNCHANGED <<recovering, actions_queue, daemonVars>> /\ is_history' \in BOOLEAN
  BY <1>1 DEF ChooseLimit, Chosen, OrdersTyped
<1> QED BY <1>2, <1>3, UserTurns

LEMMA ChooseHistoryKeeps ==
  ASSUME OrdersInv, ChooseHistory
  PROVE  OrdersInv'
<1>1. OrdersTyped /\ OrdersGui \in Guis /\ 1 \in Nat \ {0}
  BY GuiIs DEF OrdersInv
<1>2. Turned(OrdersGui, SetCurrentPage(OrdersGui, 1))
  BY <1>1, PageTurned
<1>3. /\ CommitModel(SetCurrentPage(OrdersGui, 1)) /\ Excuse("overlapped", UnderWay)
      /\ UNCHANGED <<recovering, actions_queue, daemonVars>> /\ is_history' \in BOOLEAN
  BY DEF ChooseHistory, Chosen
<1> QED BY <1>2, <1>3, UserTurns

\* A filter chosen while nothing is under way finds no batch of the one before.
LEMMA ChooseFilterKeeps ==
  ASSUME OrdersInv, NEW filter \in Filters, ChooseFilter(filter)
  PROVE  OrdersInv'
<1> DEFINE n == SetFilteringInfos(OrdersGui, filter)
<1>1. OrdersTyped /\ is_history
  BY DEF OrdersInv, ChooseFilter
<1>2. /\ OrdersGui \in Guis /\ OrdersGui.model = model /\ OrdersGui.busy = fetching_busy
      /\ OrdersGui.snapshot = snapshot /\ OrdersGui.asks = <<>> /\ ToSet(OrdersGui.asks) = {}
  BY <1>1, GuiIs
<1>3. n = OrdersGui \/ (n \in Guis /\ Anew(OrdersGui, n) /\ ~fetching_busy)
  BY <1>1, <1>2, FilterTurned
<1>4. CommitModel(n) /\ Excuse("overlapped", UnderWay) /\ UNCHANGED <<is_history, recovering, actions_queue, daemonVars>>
  BY DEF ChooseFilter, Chosen
<1> HIDE DEF n
<1>5. (InTurn' => InTurn) /\ (ordersExcuses' = {} => ordersExcuses = {} /\ ~UnderWay)
  <2>1. UnderWay \in BOOLEAN
    BY <1>1 DEF OrdersTyped, UnderWay
  <2> QED BY <1>4, <2>1, ExcusesStay
<1>6. actions_queue' \in Seq(BOOLEAN) /\ is_history' \in BOOLEAN /\ recovering' \in BOOLEAN /\ UNCHANGED daemonVars
  BY <1>1, <1>4 DEF OrdersTyped
<1>7. Follows(OrdersGui, n)
  BY <1>2, <1>3, AnewFollows, KeptIsTurned, TurnedFollows
<1>8. ASSUME ordersExcuses' = {}
      PROVE  /\ PassedBy(n.model, n.snapshot)
             /\ \A f \in ToSet(fetches) : f.ask.filter = n.model.filter
             /\ \A a \in ToSet(n.asks) : a.filter = n.model.filter
  <2>1. PassedBy(model, snapshot)
    BY <1>5, <1>8 DEF OrdersInv, FiltersAgree
  <2>2. ToSet(fetches) = {}
    BY <1>5, <1>8 DEF UnderWay, ToSet
  <2>3. CASE n = OrdersGui
    BY <1>2, <2>1, <2>2, <2>3
  <2>4. CASE n \in Guis /\ Anew(OrdersGui, n)
    <3>1. PassedBy(n.model, n.snapshot) /\ AsksOf(OrdersGui, n)
      BY <2>4, AnewFollows
    <3> QED BY <1>2, <2>2, <3>1 DEF AsksOf
  <2> QED BY <1>3, <2>3, <2>4
<1> QED BY <1>4, <1>5, <1>6, <1>7, <1>8, GuiStep

\* application::tick, and what orders_model does with the snapshot.
LEMMA TickKeeps ==
  ASSUME OrdersInv, Tick
  PROVE  OrdersInv'
<1> DEFINE n == RefreshOrInsert(OrdersGui, Head(actions_queue))
<1>1. OrdersTyped
  BY DEF OrdersInv
<1>2. /\ OrdersGui \in Guis /\ OrdersGui.model = model /\ OrdersGui.busy = fetching_busy
      /\ OrdersGui.snapshot = snapshot /\ OrdersGui.asks = <<>> /\ ToSet(OrdersGui.asks) = {}
  BY <1>1, GuiIs
<1>3. Head(actions_queue) \in BOOLEAN /\ Tail(actions_queue) \in Seq(BOOLEAN)
  BY <1>1, HeadTailProperties DEF Tick, OrdersTyped
<1>4. Follows(OrdersGui, n) /\ FilterKept(OrdersGui, n)
  BY <1>2, <1>3, Refreshed DEF OrdersInv, HeldSound
<1>5. /\ CommitModel(n) /\ actions_queue' = Tail(actions_queue)
      /\ UNCHANGED <<is_history, recovering, daemonVars, ordersExcuses>>
  BY DEF Tick
<1> HIDE DEF n
<1>6. actions_queue' \in Seq(BOOLEAN) /\ is_history' \in BOOLEAN /\ recovering' \in BOOLEAN /\ UNCHANGED daemonVars
  BY <1>1, <1>3, <1>5 DEF OrdersTyped
<1>7. (InTurn' => InTurn) /\ (ordersExcuses' = {} => ordersExcuses = {})
  BY <1>5 DEF InTurn
<1>8. ASSUME ordersExcuses' = {}
      PROVE  /\ PassedBy(n.model, n.snapshot)
             /\ \A f \in ToSet(fetches) : f.ask.filter = n.model.filter
             /\ \A a \in ToSet(n.asks) : a.filter = n.model.filter
  <2>1. PassedBy(model, snapshot) /\ \A f \in ToSet(fetches) : f.ask.filter = model.filter
    BY <1>7, <1>8 DEF OrdersInv, FiltersAgree
  <2> QED BY <1>2, <1>4, <2>1 DEF FilterKept, AsksOf
<1> QED BY <1>4, <1>5, <1>6, <1>7, <1>8, GuiStep

\* A batch that is sent again asks for what the snapshot is of.
LEMMA SentAgain ==
  ASSUME OrdersInv, fetches' = <<Sent(AskAgain)>> \o fetches,
         UNCHANGED <<model, fetching_busy, is_history, recovering, snapshot, actions_queue, daemonVars, ordersExcuses>>
  PROVE  OrdersInv'
<1>1. AskAgain \in OrderAsks /\ AskAgain.filter = snapshot.filter
  BY DEF OrdersInv, OrdersTyped, OrderSnapshots, AskAgain, OrderAsks
<1> DEFINE asks == <<AskAgain>>
           gs == [i \in DOMAIN asks |-> Sent(asks[i])] \o fetches
<1>2. asks \in Seq(OrderAsks) /\ ToSet(asks) = {AskAgain} /\ [i \in DOMAIN asks |-> Sent(asks[i])] = <<Sent(AskAgain)>>
  BY <1>1 DEF ToSet
<1>3. fetches \in Seq(OrderFetches)
  BY DEF OrdersInv, OrdersTyped
<1>4. fetches' = gs
  BY <1>2
<1>5. /\ gs \in Seq(OrderFetches)
      /\ \A f \in ToSet(gs) : f \in ToSet(fetches) \/ (f.pc = "sent" /\ f.ask \in ToSet(asks))
      /\ (Line(fetches) => Line(gs)) /\ (Turns(fetches) => Turns(gs))
  BY <1>2, <1>3, SentBefore
<1> HIDE DEF gs, asks
<1>6. ASSUME NEW f \in ToSet(fetches'), f \notin ToSet(fetches)
      PROVE  /\ AnswerSound(f)
             /\ InTurn' /\ f.pc # "sent" => f.open \cap (model.swap_ids \cup SwapIdsOf(snapshot)) = {}
             /\ ordersExcuses' = {} => f.ask.filter = model.filter
  <2>1. f.pc = "sent" /\ f.ask = AskAgain
    BY <1>2, <1>4, <1>5, <1>6
  <2> QED BY <1>1, <2>1 DEF AnswerSound, OrdersInv, FiltersAgree, PassedBy
<1>7. Line(fetches') /\ (InTurn' => InTurn /\ Turns(fetches'))
  BY <1>4, <1>5 DEF OrdersInv, HeldInTurn, InTurn
<1>8. fetches' \in Seq(OrderFetches) /\ (ordersExcuses' = {} => ordersExcuses = {})
  BY <1>4, <1>5
<1>9. \A f \in ToSet(fetches') :
            \/ f \in ToSet(fetches)
            \/ /\ AnswerSound(f)
               /\ InTurn' /\ f.pc # "sent" => f.open \cap (model.swap_ids \cup SwapIdsOf(snapshot)) = {}
               /\ ordersExcuses' = {} => f.ask.filter = model.filter
  BY <1>6
<1>10. UNCHANGED <<model, fetching_busy, is_history, recovering, snapshot, actions_queue, daemonVars>>
  OBVIOUS
<1> QED BY <1>7, <1>8, <1>9, <1>10, BatchStep

\* Batches of the line, and what holds of each.
LEMMA BatchIs ==
  ASSUME OrdersInv, NEW i \in DOMAIN fetches
  PROVE  /\ fetches \in Seq(OrderFetches) /\ i \in 1..Len(fetches) /\ DOMAIN fetches = 1..Len(fetches)
         /\ Len(fetches) \in Nat
         /\ fetches[i] \in OrderFetches /\ fetches[i] \in ToSet(fetches)
         /\ \A f : f \in ToSet(fetches) <=> \E j \in 1..Len(fetches) : f = fetches[j]
<1>1. fetches \in Seq(OrderFetches)
  BY DEF OrdersInv, OrdersTyped
<1> QED BY <1>1, RowsOf

LEMMA KdfBeginsKeeps ==
  ASSUME OrdersInv, NEW i \in DOMAIN fetches, KdfBegins(i)
  PROVE  OrdersInv'
<1> DEFINE g == [fetches[i] EXCEPT !.pc = "begun", !.open = kdf_orders]
           fs == RemoveAt(fetches, i)
           gs == Append(fs, g)
<1>1. /\ fetches \in Seq(OrderFetches) /\ i \in 1..Len(fetches) /\ fetches[i] \in OrderFetches
      /\ fetches[i] \in ToSet(fetches)
      /\ \A f : f \in ToSet(fetches) <=> \E j \in 1..Len(fetches) : f = fetches[j]
  BY BatchIs
<1>2. kdf_orders \subseteq Orders /\ kdf_orders \cap ToSet(kdf_swaps) = {}
  BY DEF OrdersInv, DaemonSound
<1>3. g \in OrderFetches /\ g.pc = "begun" /\ g.open = kdf_orders /\ g.ask = fetches[i].ask
  BY <1>1, <1>2 DEF OrderFetches
<1>4. fetches' = gs /\ Excuse("interleaved", \E j \in DOMAIN fetches : fetches[j].pc = "begun")
      /\ UNCHANGED <<model, fetching_busy, is_history, recovering, snapshot, actions_queue, daemonVars>>
  BY DEF KdfBegins
<1> HIDE DEF g
<1>5. /\ fs \in Seq(OrderFetches) /\ ToSet(fs) \subseteq ToSet(fetches)
      /\ (Line(fetches) => Line(fs)) /\ (Turns(fetches) => Turns(fs))
  BY <1>1, BatchGone
<1> HIDE DEF fs
<1>6. /\ gs \in Seq(OrderFetches) /\ \A f \in ToSet(gs) : f \in ToSet(fs) \/ f = g
      /\ Line(fs) => Line(gs)
      /\ Turns(fs) /\ (\A f \in ToSet(fs) : TakesTurns(f, g)) => Turns(gs)
  <2>1. g.pc # "sent"
    BY <1>3
  <2> QED BY <1>3, <1>5, <2>1, BatchLast
<1> HIDE DEF gs
<1>7. /\ InTurn' => InTurn /\ ~\E j \in DOMAIN fetches : fetches[j].pc = "begun"
      /\ ordersExcuses' = {} => ordersExcuses = {}
  BY <1>4, ExcusesStay
<1>8. InTurn' => Turns(gs)
  <2> SUFFICES ASSUME InTurn' PROVE Turns(gs)
    OBVIOUS
  <2>1. Turns(fs)
    BY <1>5, <1>7 DEF OrdersInv, HeldInTurn
  <2>2. ASSUME NEW f \in ToSet(fs) PROVE TakesTurns(f, g)
    <3>1. f \in ToSet(fetches) /\ f.pc # "begun"
      <4>1. f \in ToSet(fetches) /\ \E j \in 1..Len(fetches) : f = fetches[j]
        BY <1>1, <1>5
      <4>2. DOMAIN fetches = 1..Len(fetches)
        BY BatchIs
      <4> QED BY <1>7, <4>1, <4>2
    <3>2. f.pc = "answered" => SwapIdsOf(f.contents) \subseteq ToSet(kdf_swaps)
      BY <3>1 DEF OrdersInv, HeldSound, AnswerSound
    <3> QED BY <1>2, <1>3, <3>1, <3>2 DEF TakesTurns
  <2> QED BY <1>6, <2>1, <2>2
<1>9. /\ AnswerSound(g)
      /\ InTurn' /\ g.pc # "sent" => g.open \cap (model.swap_ids \cup SwapIdsOf(snapshot)) = {}
      /\ ordersExcuses' = {} => g.ask.filter = model.filter
  <2>1. SwapIdsOf(snapshot) \cup model.swap_ids \subseteq ToSet(kdf_swaps)
    BY DEF OrdersInv, HeldSound
  <2>2. AnswerSound(g)
    BY <1>3 DEF AnswerSound
  <2>3. g.open \cap (model.swap_ids \cup SwapIdsOf(snapshot)) = {}
    BY <1>2, <1>3, <2>1
  <2>4. ordersExcuses' = {} => g.ask.filter = model.filter
    BY <1>1, <1>3, <1>7 DEF OrdersInv, FiltersAgree
  <2> QED BY <2>2, <2>3, <2>4
<1>10. \A f \in ToSet(fetches') :
            \/ f \in ToSet(fetches)
            \/ /\ AnswerSound(f)
               /\ InTurn' /\ f.pc # "sent" => f.open \cap (model.swap_ids \cup SwapIdsOf(snapshot)) = {}
               /\ ordersExcuses' = {} => f.ask.filter = model.filter
  BY <1>4, <1>5, <1>6, <1>9
<1>11. Line(fetches') /\ fetches' \in Seq(OrderFetches) /\ (InTurn' => InTurn /\ Turns(fetches'))
  BY <1>4, <1>5, <1>6, <1>7, <1>8 DEF OrdersInv
<1>12. ordersExcuses' = {} => ordersExcuses = {}
  BY <1>7
<1>13. UNCHANGED <<model, fetching_busy, is_history, recovering, snapshot, actions_queue, daemonVars>>
  BY <1>4
<1> QED BY <1>10, <1>11, <1>12, <1>13, BatchStep

\* An answer, whatever page of the swaps it holds.
LEMMA AnswerKeeps ==
  ASSUME OrdersInv, NEW i \in DOMAIN fetches, fetches[i].pc = "begun",
         NEW page \in Nat \ {0}, NEW recent \in Seq(SwapIds), Distinct(recent),
         ToSet(recent) \subseteq ToSet(kdf_swaps) \cap Passes(fetches[i].ask.filter),
         fetches' = [fetches EXCEPT ![i].pc = "answered", ![i].contents = PageContents(fetches[i], page, recent)],
         ordersExcuses \subseteq ordersExcuses',
         UNCHANGED <<model, fetching_busy, is_history, recovering, snapshot, actions_queue, daemonVars>>
  PROVE  OrdersInv'
<1> DEFINE c == PageContents(fetches[i], page, recent)
           g == [fetches[i] EXCEPT !.pc = "answered", !.contents = c]
           gs == [fetches EXCEPT ![i].pc = "answered", ![i].contents = c]
<1>1. fetches \in Seq(OrderFetches) /\ i \in 1..Len(fetches) /\ fetches[i] \in OrderFetches /\ fetches[i] \in ToSet(fetches)
  BY BatchIs
<1>2. /\ c \in OrderSnapshots /\ Sound(c) /\ c.filter = fetches[i].ask.filter
      /\ OrderIdsOf(c) \subseteq fetches[i].open /\ SwapIdsOf(c) \subseteq ToSet(kdf_swaps)
  BY <1>1, ContentsAre DEF OrdersInv, DaemonSound
<1>3. fetches' = gs
  OBVIOUS
<1> HIDE DEF c
<1>4. /\ gs \in Seq(OrderFetches) /\ \A f \in ToSet(gs) : f \in ToSet(fetches) \/ f = g
      /\ g.pc = "answered" /\ g.contents = c /\ g.open = fetches[i].open /\ g.ask = fetches[i].ask
      /\ (Line(fetches) => Line(gs)) /\ (Turns(fetches) => Turns(gs))
  BY <1>1, <1>2, BatchAnswered
<1> HIDE DEF g, gs
<1>5. (InTurn' => InTurn) /\ (ordersExcuses' = {} => ordersExcuses = {})
  BY DEF InTurn
<1>6. /\ AnswerSound(g)
      /\ InTurn' /\ g.pc # "sent" => g.open \cap (model.swap_ids \cup SwapIdsOf(snapshot)) = {}
      /\ ordersExcuses' = {} => g.ask.filter = model.filter
  <2>1. AnswerSound(g)
    BY <1>2, <1>4 DEF AnswerSound
  <2>2. InTurn' => g.open \cap (model.swap_ids \cup SwapIdsOf(snapshot)) = {}
    BY <1>1, <1>4, <1>5 DEF OrdersInv, HeldInTurn, NoneIsBehind
  <2>3. ordersExcuses' = {} => g.ask.filter = model.filter
    BY <1>1, <1>4, <1>5 DEF OrdersInv, FiltersAgree
  <2> QED BY <2>1, <2>2, <2>3
<1>7. \A f \in ToSet(fetches') :
            \/ f \in ToSet(fetches)
            \/ /\ AnswerSound(f)
               /\ InTurn' /\ f.pc # "sent" => f.open \cap (model.swap_ids \cup SwapIdsOf(snapshot)) = {}
               /\ ordersExcuses' = {} => f.ask.filter = model.filter
  BY <1>3, <1>4, <1>6
<1>8. Line(fetches') /\ fetches' \in Seq(OrderFetches) /\ (InTurn' => InTurn /\ Turns(fetches'))
  BY <1>3, <1>4, <1>5 DEF OrdersInv, HeldInTurn
<1>9. UNCHANGED <<model, fetching_busy, is_history, recovering, snapshot, actions_queue, daemonVars>>
  OBVIOUS
<1> QED BY <1>5, <1>7, <1>8, <1>9, BatchStep

LEMMA KdfAnswersKeeps ==
  ASSUME OrdersInv, NEW i \in DOMAIN fetches, KdfAnswers(i)
  PROVE  OrdersInv'
<1> DEFINE ask == fetches[i].ask
<1>1. ask \in OrderAsks /\ ask.page \in Nat \ {0}
  BY BatchIs DEF OrderFetches, OrderAsks
<1>2. /\ PageOf(ask) \in Seq(SwapIds) /\ Distinct(PageOf(ask))
      /\ ToSet(PageOf(ask)) \subseteq ToSet(kdf_swaps) \cap Passes(ask.filter)
  BY <1>1, PageIs DEF OrdersInv, DaemonSound
<1>3. /\ fetches[i].pc = "begun"
      /\ fetches' = [fetches EXCEPT ![i].pc = "answered", ![i].contents = PageContents(fetches[i], ask.page, PageOf(ask))]
      /\ ordersExcuses \subseteq ordersExcuses'
      /\ UNCHANGED <<model, fetching_busy, is_history, recovering, snapshot, actions_queue, daemonVars>>
  BY DEF KdfAnswers
<1> QED BY <1>1, <1>2, <1>3, AnswerKeeps

LEMMA KdfRefusesKeeps ==
  ASSUME OrdersInv, NEW i \in DOMAIN fetches, KdfRefusesSwaps(i)
  PROVE  OrdersInv'
<1>1. <<>> \in Seq(SwapIds) /\ Distinct(<<>>) /\ ToSet(<<>>) = {} /\ 1 \in Nat \ {0}
  BY EmptySeq DEF Distinct, ToSet
<1>2. /\ fetches[i].pc = "begun"
      /\ fetches' = [fetches EXCEPT ![i].pc = "answered", ![i].contents = PageContents(fetches[i], 1, <<>>)]
      /\ ordersExcuses \subseteq ordersExcuses'
      /\ UNCHANGED <<model, fetching_busy, is_history, recovering, snapshot, actions_queue, daemonVars>>
  BY DEF KdfRefusesSwaps, Mishap, Excuse
<1> QED BY <1>1, <1>2, AnswerKeeps

LEMMA FetchLostKeeps ==
  ASSUME OrdersInv, NEW i \in DOMAIN fetches, FetchLost(i)
  PROVE  OrdersInv'
<1>1. fetches \in Seq(OrderFetches) /\ i \in 1..Len(fetches)
  BY BatchIs
<1>2. /\ fetches' = RemoveAt(fetches, i) /\ ordersExcuses \subseteq ordersExcuses'
      /\ UNCHANGED <<model, fetching_busy, is_history, recovering, snapshot, actions_queue, daemonVars>>
  BY DEF FetchLost, Mishap, Excuse
<1>3. /\ fetches' \in Seq(OrderFetches) /\ ToSet(fetches') \subseteq ToSet(fetches)
      /\ (Line(fetches) => Line(fetches')) /\ (Turns(fetches) => Turns(fetches'))
  BY <1>1, <1>2, BatchGone
<1>4. (InTurn' => InTurn) /\ (ordersExcuses' = {} => ordersExcuses = {})
  BY <1>2 DEF InTurn
<1>5. Line(fetches') /\ (InTurn' => InTurn /\ Turns(fetches'))
  BY <1>3, <1>4 DEF OrdersInv, HeldInTurn
<1>6. \A f \in ToSet(fetches') : f \in ToSet(fetches)
  BY <1>3
<1>7. UNCHANGED <<model, fetching_busy, is_history, recovering, snapshot, actions_queue, daemonVars>>
  BY <1>2
<1> QED BY <1>3, <1>4, <1>5, <1>6, <1>7, BatchStep

\* The first answer of the line replaces the snapshot: no order of a later batch
\* is a swap of it, and none of its orders is a swap of the model.
LEMMA StoreReplyKeeps ==
  ASSUME OrdersInv, NEW i \in DOMAIN fetches, StoreReply(i)
  PROVE  OrdersInv'
<1> DEFINE c == fetches[i].contents
           gs == RemoveAt(fetches, i)
<1>1. /\ fetches \in Seq(OrderFetches) /\ i \in 1..Len(fetches) /\ fetches[i] \in OrderFetches
      /\ fetches[i] \in ToSet(fetches) /\ Len(fetches) \in Nat
  BY BatchIs
<1>2. /\ fetches[i].pc = "answered" /\ snapshot' = c /\ fetches' = gs
      /\ actions_queue' = Append(actions_queue, fetches[i].ask.reset)
      /\ Excuse("overtaken", \E j \in 1..(i - 1) : fetches[j].pc # "sent")
      /\ UNCHANGED <<model, fetching_busy, is_history, recovering, daemonVars>>
  BY DEF StoreReply
<1>3. /\ c \in OrderSnapshots /\ Sound(c) /\ c.filter = fetches[i].ask.filter
      /\ OrderIdsOf(c) \subseteq fetches[i].open /\ SwapIdsOf(c) \subseteq ToSet(kdf_swaps)
  BY <1>1, <1>2 DEF OrdersInv, HeldSound, AnswerSound
<1>4. /\ gs \in Seq(OrderFetches) /\ ToSet(gs) \subseteq ToSet(fetches)
      /\ (Line(fetches) => Line(gs)) /\ (Turns(fetches) => Turns(gs))
  BY <1>1, BatchGone
<1>5. /\ Len(gs) = Len(fetches) - 1
      /\ \A k \in 1..(Len(fetches) - 1) : gs[k] = fetches[IF k < i THEN k ELSE k + 1]
  BY <1>1, RemoveAtIs
<1> HIDE DEF c, gs
<1>6. /\ InTurn' => InTurn /\ \A j \in 1..(i - 1) : fetches[j].pc = "sent"
      /\ ordersExcuses' = {} => ordersExcuses = {}
  BY <1>2, ExcusesStay
<1>7. model' = model /\ kdf_swaps' = kdf_swaps /\ kdf_orders' = kdf_orders /\ ongoing' = ongoing
  BY <1>2 DEF daemonVars
<1>8. OrdersTyped'
  <2>1. actions_queue' \in Seq(BOOLEAN)
    <3>1. fetches[i].ask.reset \in BOOLEAN
      BY <1>1 DEF OrderFetches, OrderAsks
    <3>2. actions_queue \in Seq(BOOLEAN)
      BY DEF OrdersInv, OrdersTyped
    <3> QED BY <1>2, <3>1, <3>2, AppendProperties
  <2> QED BY <1>2, <1>3, <1>4, <2>1 DEF OrdersInv, OrdersTyped
<1>9. DaemonSound'
  BY <1>7 DEF OrdersInv, DaemonSound, SwapsListed
<1>10. HeldSound'
  <2>1. ASSUME NEW f \in ToSet(gs) PROVE AnswerSound(f)'
    <3>1. AnswerSound(f)
      BY <1>4 DEF OrdersInv, HeldSound
    <3> QED BY <1>7, <3>1 DEF AnswerSound
  <2>2. Sound(c) /\ SwapIdsOf(c) \cup model.swap_ids \subseteq ToSet(kdf_swaps)
    BY <1>3 DEF OrdersInv, HeldSound
  <2> QED BY <1>2, <1>7, <2>1, <2>2 DEF HeldSound
<1>11. Line(fetches')
  BY <1>2, <1>4 DEF OrdersInv
<1>12. HeldInTurn'
  <2> SUFFICES ASSUME InTurn' PROVE Turns(fetches') /\ NoneIsBehind' /\ Agreeing(model', snapshot')
    BY DEF HeldInTurn
  <2>1. /\ InTurn /\ (\A j \in 1..(i - 1) : fetches[j].pc = "sent")
        /\ Turns(fetches) /\ NoneIsBehind /\ Agreeing(model, snapshot)
    BY <1>6 DEF OrdersInv, HeldInTurn
  <2>2. ASSUME NEW f \in ToSet(gs), f.pc # "sent"
        PROVE  f.open \cap (model.swap_ids \cup SwapIdsOf(c)) = {}
    <3>1. f.open \cap model.swap_ids = {}
      BY <1>4, <2>1, <2>2 DEF NoneIsBehind
    <3>2. PICK k \in 1..(Len(fetches) - 1) : f = gs[k]
      BY <1>4, <1>5, RowsOf
    <3>3. f = fetches[IF k < i THEN k ELSE k + 1]
      BY <1>5, <3>2
    <3>4. ~(k < i)
      <4>1. k < i => k \in 1..(i - 1)
        BY <1>1
      <4> QED BY <2>1, <2>2, <3>3, <4>1
    <3>5. f = fetches[k + 1] /\ k + 1 \in 1..Len(fetches) /\ i < k + 1
      BY <1>1, <3>3, <3>4
    <3>6. TakesTurns(fetches[i], f)
      BY <1>1, <2>1, <3>5 DEF Turns
    <3> QED BY <1>2, <3>1, <3>6 DEF TakesTurns, c
  <2>3. NoneIsBehind'
    BY <1>2, <1>7, <2>2 DEF NoneIsBehind
  <2>4. Agreeing(model, c)
    <3>1. fetches[i].open \cap model.swap_ids = {}
      BY <1>1, <1>2, <2>1 DEF NoneIsBehind
    <3> QED BY <1>3, <2>1, <3>1 DEF Agreeing
  <2> QED BY <1>2, <1>4, <1>7, <2>1, <2>3, <2>4
<1>13. FiltersAgree'
  <2> SUFFICES ASSUME ordersExcuses' = {}
               PROVE  PassedBy(model', snapshot') /\ \A f \in ToSet(fetches') : f.ask.filter = model'.filter
    BY DEF FiltersAgree
  <2>1. PassedBy(model, snapshot) /\ \A f \in ToSet(fetches) : f.ask.filter = model.filter
    BY <1>6 DEF OrdersInv, FiltersAgree
  <2>2. c.filter = model.filter
    BY <1>1, <1>3, <2>1
  <2> QED BY <1>2, <1>4, <1>7, <2>1, <2>2 DEF PassedBy
<1> QED BY <1>8, <1>9, <1>10, <1>11, <1>12, <1>13 DEF OrdersInv

\* An order that is matched leaves the orders and heads the swaps.
LEMMA KdfMatchesKeeps ==
  ASSUME OrdersInv, NEW id \in Orders, KdfMatches(id)
  PROVE  OrdersInv'
<1>1. /\ SwapsListed /\ ongoing \subseteq ToSet(kdf_swaps) /\ kdf_orders \subseteq Orders
      /\ kdf_orders \cap ToSet(kdf_swaps) = {}
  BY DEF OrdersInv, DaemonSound
<1>2. /\ id \in kdf_orders /\ kdf_orders' = kdf_orders \ {id} /\ kdf_swaps' = <<id>> \o kdf_swaps
      /\ ongoing' = ongoing \cup {id}
      /\ UNCHANGED <<model, fetching_busy, snapshot, fetches, actions_queue, ordersExcuses>>
      /\ is_history' = is_history /\ recovering' = recovering
  BY DEF KdfMatches
<1>3. kdf_swaps \in Seq(SwapIds) /\ Distinct(kdf_swaps)
  BY <1>1 DEF SwapsListed
<1>4. id \in SwapIds /\ id \notin ToSet(kdf_swaps)
  BY <1>1, <1>2, OrdersParameters
<1> DEFINE one == <<id>>
<1>5. one \in Seq(SwapIds) /\ ToSet(one) = {id} /\ Distinct(one)
  <2>1. one \in Seq(SwapIds) /\ Len(one) = 1 /\ one[1] = id
    BY <1>4
  <2> HIDE DEF one
  <2> QED BY <2>1, RowsOf DEF Distinct
<1> HIDE DEF one
<1>6. one \o kdf_swaps \in Seq(SwapIds) /\ ToSet(one \o kdf_swaps) = {id} \cup ToSet(kdf_swaps)
  BY <1>3, <1>5, ConcatOf
<1>7. Distinct(one \o kdf_swaps)
  BY <1>3, <1>4, <1>5, DistinctConcat
<1>8. DaemonSound' /\ ToSet(kdf_swaps) \subseteq ToSet(kdf_swaps')
  BY <1>1, <1>2, <1>4, <1>6, <1>7 DEF DaemonSound, SwapsListed, one
<1>9. is_history' \in BOOLEAN /\ recovering' \in BOOLEAN
  BY <1>2 DEF OrdersInv, OrdersTyped
<1> QED BY <1>2, <1>8, <1>9, OutsideStep

\* The daemon finishes a swap or cancels orders; a command starts or ends.
LEMMA OthersKeep ==
  ASSUME OrdersInv,
         \/ LeaveHistory \/ (\E ids \in SUBSET Orders : CancelOrders(ids)) \/ RecoverFund
         \/ KdfCancels \/ FundRecovered \/ (\E id \in Orders : KdfFinishes(id))
  PROVE  OrdersInv'
<1>1. /\ UNCHANGED <<model, fetching_busy, snapshot, fetches, actions_queue, ordersExcuses>>
      /\ kdf_swaps' = kdf_swaps /\ kdf_orders' \subseteq kdf_orders /\ ongoing' \subseteq ongoing
      /\ is_history' \in {is_history, FALSE} /\ recovering' \in {recovering, TRUE, FALSE}
  <2>1. CASE LeaveHistory
    BY <2>1 DEF LeaveHistory, daemonVars
  <2>2. CASE \E ids \in SUBSET Orders : CancelOrders(ids)
    BY <2>2 DEF CancelOrders, daemonVars
  <2>3. CASE RecoverFund
    BY <2>3 DEF RecoverFund, daemonVars
  <2>4. CASE KdfCancels
    BY <2>4 DEF KdfCancels
  <2>5. CASE FundRecovered
    BY <2>5 DEF FundRecovered, daemonVars
  <2>6. CASE \E id \in Orders : KdfFinishes(id)
    BY <2>6 DEF KdfFinishes
  <2> QED BY <2>1, <2>2, <2>3, <2>4, <2>5, <2>6
<1>2. is_history' \in BOOLEAN /\ recovering' \in BOOLEAN
  BY <1>1 DEF OrdersInv, OrdersTyped
<1>3. DaemonSound' /\ ToSet(kdf_swaps) \subseteq ToSet(kdf_swaps')
  BY <1>1 DEF OrdersInv, DaemonSound, SwapsListed
<1> QED BY <1>1, <1>2, <1>3, OutsideStep

LEMMA BatchKeeps ==
  ASSUME OrdersInv, NEW i \in DOMAIN fetches, Batch(i)
  PROVE  OrdersInv'
BY KdfBeginsKeeps, KdfAnswersKeeps, KdfRefusesKeeps, FetchLostKeeps, StoreReplyKeeps DEF Batch

LEMMA OrdersStutter ==
  ASSUME OrdersInv, UNCHANGED ordersVars
  PROVE  OrdersInv'
<1>1. /\ UNCHANGED <<model, fetching_busy, snapshot, fetches, actions_queue, ordersExcuses>>
      /\ is_history' = is_history /\ recovering' = recovering
      /\ kdf_orders' = kdf_orders /\ kdf_swaps' = kdf_swaps /\ ongoing' = ongoing
  BY DEF ordersVars
<1>2. is_history' \in BOOLEAN /\ recovering' \in BOOLEAN
  BY <1>1 DEF OrdersInv, OrdersTyped
<1>3. DaemonSound' /\ ToSet(kdf_swaps) \subseteq ToSet(kdf_swaps')
  BY <1>1 DEF OrdersInv, DaemonSound, SwapsListed
<1> QED BY <1>1, <1>2, <1>3, OutsideStep

LEMMA OrdersNextInv ==
  ASSUME OrdersInv, [OrdersNext]_ordersVars
  PROVE  OrdersInv'
<1>1. CASE User
  <2>1. ASSUME NEW page \in Pages, ChoosePage(page) PROVE OrdersInv'
    BY <2>1, ChoosePageKeeps
  <2>2. ASSUME NEW limit \in Limits, ChooseLimit(limit) PROVE OrdersInv'
    BY <2>2, ChooseLimitKeeps
  <2>3. ASSUME NEW filter \in Filters, ChooseFilter(filter) PROVE OrdersInv'
    BY <2>3, ChooseFilterKeeps
  <2> QED BY <1>1, <2>1, <2>2, <2>3, ChooseHistoryKeeps, OthersKeep DEF User
<1>2. CASE FetchOrders
  BY <1>2, SentAgain DEF FetchOrders
<1>3. CASE Cancelled
  BY <1>3, SentAgain DEF Cancelled
<1>4. CASE \E i \in DOMAIN fetches : Batch(i)
  BY <1>4, BatchKeeps
<1>5. CASE Tick
  BY <1>5, TickKeeps
<1>6. ASSUME NEW id \in Orders, KdfMatches(id) PROVE OrdersInv'
  BY <1>6, KdfMatchesKeeps
<1>7. CASE KdfCancels \/ FundRecovered \/ \E id \in Orders : KdfFinishes(id)
  BY <1>7, OthersKeep
<1>8. CASE UNCHANGED ordersVars
  BY <1>8, OrdersStutter
<1> QED BY <1>1, <1>2, <1>3, <1>4, <1>5, <1>6, <1>7, <1>8 DEF OrdersNext

LEMMA OrdersInvAgrees ==
  ASSUME OrdersInv
  PROVE  OrderRowsAgree
<1>1. OrdersTypeOK
  <2>1. OrdersTyped /\ ongoing \subseteq ToSet(kdf_swaps)
    BY DEF OrdersInv, DaemonSound
  <2>2. snapshot \in OrderContents
    BY <2>1 DEF OrdersTyped, OrderSnapshots, OrderContents
  <2>3. \A i \in DOMAIN fetches : fetches[i].contents \in OrderContents
    BY BatchIs DEF OrderFetches
  <2> QED BY <2>1, <2>2, <2>3 DEF OrdersTyped, OrdersTypeOK, OrderModels
<1>2. RegistriesNameTheRows
  <2> SUFFICES ASSUME InTurn
               PROVE  /\ Named(model.rows) /\ model.order_ids = IdsOf(model.rows, "order")
                      /\ model.swap_ids = IdsOf(model.rows, "swap")
    BY DEF RegistriesNameTheRows, InTurn
  <2>1. RowsNamed(model)
    BY DEF OrdersInv, HeldInTurn, Agreeing
  <2>2. Named(model.rows)
    <3>1. DOMAIN model.rows \subseteq Nat
      <4>1. model.rows \in Seq(Row)
        BY DEF OrdersInv, OrdersTyped, OrderModels
      <4> QED BY <4>1, RowsOf
    <3> SUFFICES ASSUME NEW i \in DOMAIN model.rows, NEW j \in DOMAIN model.rows, i # j,
                        model.rows[i].id = model.rows[j].id, model.rows[i].kind = model.rows[j].kind
                 PROVE  FALSE
      BY DEF Named
    <3>2. i < j \/ j < i
      BY <3>1
    <3>3. \A a, b \in DOMAIN model.rows : a < b /\ model.rows[a].id = model.rows[b].id =>
             model.rows[a].kind = "order" /\ model.rows[b].kind = "swap"
      BY <2>1 DEF RowsNamed, Paired
    <3>4. "order" # "swap"
      OBVIOUS
    <3> QED BY <3>2, <3>3, <3>4
  <2> QED BY <2>1, <2>2 DEF RowsNamed
<1>3. FinishedRowsPassTheFilter
  BY DEF OrdersInv, FiltersAgree, PassedBy, FinishedPass, FinishedRowsPassTheFilter
<1> QED BY <1>1, <1>2, <1>3 DEF OrderRowsAgree

\* The rows of orders_model, its two registries and its filter describe one snapshot,
\* whatever the orders, the pages and the filters, and however many batches there are:
\* the registries name the rows, each once, unless a batch began before an earlier one
\* was answered or was stored before it; and, without an excuse, the finished swaps
\* pass the filter (orders_model::refresh_or_insert, update_or_insert_orders,
\* update_or_insert_swaps; kdf_service::batch_fetch_orders_and_swap).
THEOREM OrderRowsAlwaysAgree == OrdersSpec => []OrderRowsAgree
<1>1. OrdersInit => OrdersInv
  BY OrdersInitInv
<1>2. OrdersInv /\ [OrdersNext]_ordersVars => OrdersInv'
  BY OrdersNextInv
<1>3. OrdersInv => OrderRowsAgree
  BY OrdersInvAgrees
<1> QED BY <1>1, <1>2, <1>3, PTL DEF OrdersSpec

-----------------------------------------------------------------------------
(* Orders and swaps: who turns the pages.                                  *)

\* The number of a page the history of the choice reaches.
Reaches(n, c, swaps) == n =< 1 \/ (n - 1) * c.limit < Len(SelectIn(swaps, Passes(c.filter)))

\* Page, limit and filter are the chosen ones.
AsChosen(x, c) == x.page = c.page /\ x.limit = c.limit /\ x.filter = c.filter

\* The answer for the choice: a page beyond the first has rows.
Filled(x, c, swaps) == AsChosen(x, c) /\ Reaches(x.nb_pages, c, swaps) /\ (x.page # 1 => x.rows # <<>>)

\* What is held and asked for is of the choice; only while it waits, without
\* rows, for the page that was chosen, the model is at another, the first.
PagesTurn(m, busy, s, fs, queue, c, swaps) ==
  /\ Reaches(c.page, c, swaps)
  /\ m.limit = c.limit /\ Reaches(m.nb_pages, c, swaps)
  /\ m.page # c.page => m.page = 1 /\ m.rows = <<>> /\ busy
  /\ AsChosen(s, c) /\ Reaches(s.nb_pages, c, swaps) /\ (queue # <<>> => Filled(s, c, swaps))
  /\ \A f \in ToSet(fs) : AsChosen(f.ask, c) /\ (f.pc = "answered" => Filled(f.contents, c, swaps))

\* What the user may have chosen.
OrderChoices == [page : Nat \ {0}, limit : Limits, filter : Filters]

\* Unless something is excused, pages turn as the user chose.
PagesInv ==
  /\ choice \in OrderChoices
  /\ ordersExcuses = {} =>
       PagesTurn(model, fetching_busy, snapshot, fetches, actions_queue, choice, kdf_swaps)

\* A new swap, put first, leaves no choice with fewer swaps than it had.
LEMMA SelectionGrows ==
  ASSUME NEW S, NEW s \in Seq(S), NEW x \in S, NEW T
  PROVE  /\ Len(SelectIn(s, T)) \in Nat /\ Len(SelectIn(<<x>> \o s, T)) \in Nat
         /\ Len(SelectIn(s, T)) <= Len(SelectIn(<<x>> \o s, T))
<1> DEFINE t == <<x>> \o s
           a == {i \in DOMAIN s : s[i] \in T}
           b == {i \in DOMAIN t : t[i] \in T}
<1>1. Len(s) \in Nat /\ DOMAIN s = 1..Len(s)
  BY LenProperties
<1>2. /\ t \in Seq(S) /\ Len(t) = Len(s) + 1 /\ DOMAIN t = 1..Len(t)
      /\ \A i \in 1..Len(s) : t[i + 1] = s[i]
  OBVIOUS
<1>3. Len(SelectIn(s, T)) = Cardinality(a)
  BY <1>1, SelectAtIs DEF SelectIn
<1>4. Len(SelectIn(t, T)) = Cardinality(b)
  <2> HIDE DEF t
  <2>1. b \in SUBSET (1..Len(t))
    BY <1>2
  <2> QED BY <1>2, <2>1, SelectAtIs DEF SelectIn
<1>5. IsFiniteSet(b) /\ IsFiniteSet(a)
  <2> HIDE DEF t
  <2>1. IsFiniteSet(1..Len(t)) /\ IsFiniteSet(1..Len(s))
    BY <1>1, <1>2, FS_Interval
  <2> QED BY <1>1, <1>2, <2>1, FS_Subset
<1> DEFINE f == [i \in a |-> i + 1]
<1>6. f \in Injection(a, b)
  <2>1. \A i \in a : i \in 1..Len(s) /\ i + 1 \in b
    <3> HIDE DEF t
    <3> QED BY <1>1, <1>2
  <2>2. f \in [a -> b]
    BY <2>1
  <2>3. \A i, j \in a : f[i] = f[j] => i = j
    BY <1>1
  <2> HIDE DEF f, a, b
  <2> QED BY <2>2, <2>3 DEF Injection, IsInjective
<1>7. Cardinality(a) <= Cardinality(b) /\ Cardinality(a) \in Nat /\ Cardinality(b) \in Nat
  <2> HIDE DEF a, b, f
  <2> QED BY <1>5, <1>6, FS_Injection, FS_CardinalityType
<1> QED BY <1>3, <1>4, <1>7

\* A page the daemon has stays there when an order is matched.
LEMMA ReachesStill ==
  ASSUME SwapsListed, NEW id \in SwapIds, NEW n, NEW c \in OrderChoices, n \in Nat, Reaches(n, c, kdf_swaps)
  PROVE  Reaches(n, c, <<id>> \o kdf_swaps)
<1> DEFINE a == Len(SelectIn(kdf_swaps, Passes(c.filter)))
           b == Len(SelectIn(<<id>> \o kdf_swaps, Passes(c.filter)))
<1>1. a \in Nat /\ b \in Nat /\ a <= b
  BY SelectionGrows DEF SwapsListed
<1>2. n =< 1 \/ (n - 1) * c.limit < a
  BY DEF Reaches
<1>3. (n - 1) * c.limit \in Int
  <2>1. c.limit \in Limits
    BY DEF OrderChoices
  <2> QED BY <2>1, LimitsArePositive
<1> DEFINE m == (n - 1) * c.limit
<1> HIDE DEF a, b, m
<1>4. n =< 1 \/ m < b
  BY <1>1, <1>2, <1>3 DEF m
<1> QED BY <1>4 DEF Reaches, b, m

\* A history that reaches a page reaches every page before it.
LEMMA PageBefore ==
  ASSUME NEW p \in Nat \ {0}, NEW n \in Nat, NEW c \in OrderChoices, NEW swaps,
         Len(SelectIn(swaps, Passes(c.filter))) \in Nat, p <= n, Reaches(n, c, swaps)
  PROVE  Reaches(p, c, swaps)
<1> DEFINE a == Len(SelectIn(swaps, Passes(c.filter)))
<1>1. c.limit \in Nat /\ 1 <= c.limit
  <2>1. c.limit \in Limits
    BY DEF OrderChoices
  <2> QED BY <2>1, LimitsArePositive
<1>2. CASE n =< 1
  BY <1>2 DEF Reaches
<1>3. CASE ~(n =< 1)
  <2>1. (n - 1) * c.limit < a
    BY <1>3 DEF Reaches
  <2>2. \A i, j, l \in Nat : i <= j => i * l <= j * l
    OBVIOUS
  <2>3. (p - 1) * c.limit <= (n - 1) * c.limit /\ (p - 1) * c.limit \in Int /\ (n - 1) * c.limit \in Int
    <3>1. p - 1 \in Nat /\ n - 1 \in Nat /\ p - 1 <= n - 1
      OBVIOUS
    <3> QED BY <1>1, <2>2, <3>1
  <2> DEFINE y == (p - 1) * c.limit
             z == (n - 1) * c.limit
  <2> HIDE DEF a, y, z
  <2>4. y < a
    <3>1. a \in Nat
      BY DEF a
    <3> QED BY <2>1, <2>3, <3>1 DEF y, z
  <2> QED BY <2>4 DEF Reaches, a, y
<1> QED BY <1>2, <1>3

\* The daemon's count of the pages counts no page it does not reach.
LEMMA CountedPages ==
  ASSUME SwapsListed, NEW ask \in OrderAsks
  PROVE  NbPages(ask) \in Nat /\ Reaches(NbPages(ask), ask, kdf_swaps)
<1> DEFINE a == Len(SelectIn(kdf_swaps, Passes(ask.filter)))
           l == ask.limit
           n == (a + l - 1) \div l
<1>1. l \in Nat /\ 1 <= l
  <2>1. ask.limit \in Limits
    BY DEF OrderAsks
  <2> QED BY <2>1, LimitsArePositive
<1>2. a \in Nat
  BY PassingIs, LenProperties DEF Passing
<1>3. NbPages(ask) = n
  BY DEF NbPages, Passing
<1> HIDE DEF a, l
<1>4. n \in Nat /\ n * l <= a + l - 1
  <2>1. \A x \in Nat, y \in Nat \ {0} : x \div y \in Nat /\ y * (x \div y) <= x
    OBVIOUS
  <2>2. a + l - 1 \in Nat /\ l \in Nat \ {0}
    BY <1>1, <1>2
  <2>3. l * n <= a + l - 1 /\ n \in Nat
    BY <2>1, <2>2
  <2> HIDE DEF n
  <2> QED BY <1>1, <2>3
<1> HIDE DEF n
<1>5. (n - 1) * l = n * l - l /\ n * l \in Int
  BY <1>1, <1>4
<1>6. (n - 1) * l < a
  BY <1>1, <1>2, <1>4, <1>5
<1> QED BY <1>3, <1>4, <1>6 DEF Reaches, a, l

\* A page the history reaches, beyond the first, has swaps on it.
LEMMA PageIsThere ==
  ASSUME SwapsListed, NEW ask \in OrderAsks, Reaches(ask.page, ask, kdf_swaps), ask.page # 1
  PROVE  PageOf(ask) # <<>>
<1> DEFINE s == Passing(ask.filter)
           last == ask.page * ask.limit
           a == last - ask.limit + 1
           b == IF last < Len(s) THEN last ELSE Len(s)
           o == SubSeq(s, a, b)
<1>1. s \in Seq(SwapIds) /\ Len(s) \in Nat /\ \A i \in 1..Len(s) : s[i] \in SwapIds
  BY PassingIs, RowsOf
<1>2. (ask.page - 1) * ask.limit < Len(s)
  <2>1. ~(ask.page =< 1)
    BY DEF OrderAsks
  <2> QED BY <2>1 DEF Reaches, Passing
<1> HIDE DEF s
<1>3. a \in Int /\ b \in Int /\ 1 <= a /\ b <= Len(s) /\ a <= b
  <2>1. ask.page \in Nat /\ 1 <= ask.page /\ ask.limit \in Nat /\ 1 <= ask.limit
    <3>1. ask.page \in Nat \ {0} /\ ask.limit \in Limits
      BY DEF OrderAsks
    <3> QED BY <3>1, LimitsArePositive
  <2>2. \A p, l \in Nat : 1 <= p => p * l \in Nat /\ l <= p * l /\ (p - 1) * l = p * l - l
    OBVIOUS
  <2>3. last \in Nat /\ ask.limit <= last /\ last - ask.limit < Len(s)
    BY <1>2, <2>1, <2>2
  <2> HIDE DEF last
  <2> QED BY <1>1, <2>1, <2>3
<1> HIDE DEF last, a, b
<1>4. \A i \in a..b : s[i] \in SwapIds
  BY <1>1, <1>3
<1>5. Len(o) = b - a + 1
  BY <1>1, <1>3, <1>4, SubSeqProperties
<1>6. PageOf(ask) = o
  BY DEF PageOf, o, s, last, a, b
<1> HIDE DEF o
<1>7. Len(o) # 0
  BY <1>3, <1>5
<1> QED BY <1>6, <1>7

\* What the daemon answers is for the batch, and a page it has has rows.
LEMMA AnswerFilled ==
  ASSUME SwapsListed, ongoing \subseteq ToSet(kdf_swaps), NEW f \in OrderFetches,
         Reaches(f.ask.page, f.ask, kdf_swaps)
  PROVE  Filled(PageContents(f, f.ask.page, PageOf(f.ask)), f.ask, kdf_swaps)
<1> DEFINE recent == PageOf(f.ask)
           active == SelectIn(kdf_swaps, ongoing)
           others == SelectIn(recent, SwapIds \ ongoing)
           ids == active \o others
           swaps == [k \in DOMAIN ids |-> SwapRow(ids[k])]
           orders == OrderRows(f.open)
           nb == IF recent = <<>> THEN 1 ELSE NbPages(f.ask)
           c == PageContents(f, f.ask.page, recent)
<1>1. f.ask \in OrderAsks /\ f.open \in SUBSET Orders
  BY DEF OrderFetches
<1>2. /\ recent \in Seq(SwapIds) /\ ToSet(recent) \subseteq ToSet(kdf_swaps)
      /\ (f.ask.page # 1 => recent # <<>>)
  BY <1>1, PageIs, PageIsThere
<1>3. c = [page |-> f.ask.page, limit |-> f.ask.limit, filter |-> f.ask.filter, nb_pages |-> nb,
           rows |-> orders \o swaps]
  BY DEF PageContents
<1>4. Reaches(nb, f.ask, kdf_swaps)
  <2>1. Reaches(1, f.ask, kdf_swaps)
    BY DEF Reaches
  <2> HIDE DEF recent
  <2> QED BY <1>1, <2>1, CountedPages
<1>5. kdf_swaps \in Seq(SwapIds)
  BY DEF SwapsListed
<1> HIDE DEF recent, nb, c
<1>6. /\ active \in Seq(SwapIds) /\ ToSet(active) = ToSet(kdf_swaps) \cap ongoing
      /\ others \in Seq(SwapIds) /\ ToSet(others) = ToSet(recent) \cap (SwapIds \ ongoing)
  BY <1>2, <1>5, SelectInIs
<1>7. orders \in Seq(Row)
  BY <1>1, OrderRowsAre
<1> HIDE DEF active, others, orders
<1>8. ids \in Seq(SwapIds) /\ ToSet(ids) = ToSet(active) \cup ToSet(others)
  BY <1>6, ConcatOf
<1> HIDE DEF ids
<1>9. Len(ids) \in Nat /\ DOMAIN ids = 1..Len(ids) /\ \A i \in 1..Len(ids) : ids[i] \in SwapIds
  BY <1>8, RowsOf
<1>10. swaps \in Seq(Row) /\ Len(swaps) = Len(ids)
  <2>1. \A id \in SwapIds : SwapRow(id) \in Row
    BY DEF SwapRow, StatusOf, Row
  <2>2. swaps \in [1..Len(ids) -> Row]
    BY <1>9, <2>1
  <2> HIDE DEF swaps
  <2> QED BY <1>9, <2>2, SeqOfFunction
<1> HIDE DEF swaps
<1>11. recent # <<>> => orders \o swaps # <<>>
  <2> SUFFICES ASSUME recent # <<>> PROVE orders \o swaps # <<>>
    OBVIOUS
  <2>1. /\ Len(recent) \in Nat /\ Len(recent) # 0
        /\ \A x : x \in ToSet(recent) <=> \E i \in 1..Len(recent) : x = recent[i]
    BY <1>2, RowsOf, EmptySeq
  <2>2. 1 \in 1..Len(recent)
    BY <2>1
  <2>3. recent[1] \in ToSet(recent)
    BY <2>1, <2>2
  <2>4. recent[1] \in SwapIds /\ recent[1] \in ToSet(kdf_swaps)
    BY <1>2, <2>2, <2>3, ElementOfSeq
  <2>5. recent[1] \in ToSet(ids)
    BY <1>6, <1>8, <2>3, <2>4
  <2>6. Len(ids) # 0
    <3>1. \E i \in 1..Len(ids) : recent[1] = ids[i]
      BY <1>8, <2>5, RowsOf
    <3> QED BY <1>9, <3>1
  <2>7. Len(orders \o swaps) = Len(orders) + Len(swaps) /\ Len(orders) \in Nat
    BY <1>7, <1>10, ConcatProperties, LenProperties
  <2>8. Len(orders \o swaps) # 0
    BY <1>9, <1>10, <2>6, <2>7
  <2> QED BY <2>8
<1>12. c.page = f.ask.page /\ c.limit = f.ask.limit /\ c.filter = f.ask.filter /\ c.nb_pages = nb /\ c.rows = orders \o swaps
  BY <1>3
<1>13. Filled(c, f.ask, kdf_swaps)
  BY <1>2, <1>4, <1>11, <1>12 DEF Filled, AsChosen
<1> QED BY <1>13 DEF c, recent

\* What a page that is asked for leaves behind.
LEMMA PageAsked ==
  ASSUME NEW st \in Guis, NEW page \in Nat \ {0}, st.asks = <<>>
  PROVE  LET n == ResetAndAsk(st, page)
         IN  /\ n \in Guis /\ n.busy = TRUE /\ n.model.page = 1 /\ n.model.nb_pages = 1 /\ n.model.rows = <<>>
             /\ n.model.limit = st.model.limit /\ n.model.filter = st.model.filter
             /\ n.snapshot = EmptyContents(page, st.model.limit, st.model.filter)
             /\ \A a \in ToSet(n.asks) : a.page = page /\ a.limit = st.model.limit /\ a.filter = st.model.filter
<1> DEFINE m == ResetBackend(st.model)
           ask == [page |-> page, limit |-> m.limit, filter |-> m.filter, reset |-> TRUE]
           mid == [st EXCEPT !.busy = TRUE, !.model = ResetBackend(@)]
           n == ResetAndAsk(st, page)
<1>1. st.model \in OrderModels
  BY GuiFields
<1>2. m = [st.model EXCEPT !.page = 1, !.nb_pages = 1, !.rows = <<>>, !.order_ids = {}, !.swap_ids = {}]
  BY DEF ResetBackend
<1>3. /\ m.page = 1 /\ m.nb_pages = 1 /\ m.rows = <<>> /\ m.limit = st.model.limit /\ m.filter = st.model.filter
  <2> HIDE DEF m
  <2> QED BY <1>1, <1>2 DEF OrderModels
<1>4. mid = [st EXCEPT !.busy = TRUE, !.model = m]
  BY DEF Guis
<1> HIDE DEF m, mid
<1>5. mid.model = m /\ mid.busy = TRUE /\ mid.asks = <<>> /\ mid = [model |-> m, busy |-> TRUE, snapshot |-> st.snapshot, asks |-> <<>>]
  BY <1>4 DEF Guis
<1>6. n = [mid EXCEPT !.snapshot = EmptyContents(page, mid.model.limit, mid.model.filter),
                      !.asks = Append(@, [page |-> page, limit |-> mid.model.limit,
                                          filter |-> mid.model.filter, reset |-> TRUE])]
  BY DEF ResetAndAsk, SetPagination, mid, m
<1> DEFINE e == EmptyContents(page, m.limit, m.filter)
<1> HIDE DEF e, ask
<1>7. n = [mid EXCEPT !.snapshot = e, !.asks = Append(@, ask)]
  BY <1>5, <1>6 DEF e, ask
<1> HIDE DEF n
<1>8. n.model = m /\ n.busy = TRUE /\ n.snapshot = e /\ n.asks = Append(<<>>, ask)
  BY <1>5, <1>7
<1>9. Append(<<>>, ask) = <<ask>> /\ ToSet(<<ask>>) = {ask}
  BY DEF ToSet
<1>10. ask.page = page /\ ask.limit = m.limit /\ ask.filter = m.filter
  BY DEF ask
<1>11. n \in Guis
  BY ModelReset DEF Turned, n
<1> QED BY <1>3, <1>8, <1>9, <1>10, <1>11 DEF e, n

\* The first page is there, and for it an answer needs no rows.
LEMMA EmptyIsAsked ==
  ASSUME NEW c \in OrderChoices, NEW swaps, NEW page, NEW limit, NEW filter,
         page = c.page, limit = c.limit, filter = c.filter
  PROVE  /\ AsChosen(EmptyContents(page, limit, filter), c)
         /\ Reaches(EmptyContents(page, limit, filter).nb_pages, c, swaps)
BY DEF EmptyContents, AsChosen, Reaches

\* The record d is the choice of a page, a limit and a filter.
IsChoice(d, page, limit, filter) ==
  d \in OrderChoices /\ d.page = page /\ d.limit = limit /\ d.filter = filter

\* What the user chooses while nothing is under way is asked for, or was there.
LEMMA PageIsAsked ==
  ASSUME OrdersInv, NEW st \in Guis, st.asks = <<>>, NEW page \in Nat \ {0},
         NEW n \in {ResetAndAsk(st, page), [ResetAndAsk(st, page) EXCEPT !.busy = FALSE]},
         n.busy = FALSE => page = 1,
         CommitModel(n), actions_queue' = actions_queue, kdf_swaps' = kdf_swaps,
         IsChoice(choice', page, st.model.limit, st.model.filter),
         ordersExcuses' = {} => ~UnderWay /\ Reaches(page, choice', kdf_swaps)
  PROVE  PagesInv' /\ model'.page = 1
<1> DEFINE r == ResetAndAsk(st, page)
           e == EmptyContents(page, st.model.limit, st.model.filter)
<1>1. /\ r \in Guis /\ r.busy = TRUE /\ r.model.page = 1 /\ r.model.nb_pages = 1 /\ r.model.rows = <<>>
      /\ r.model.limit = st.model.limit /\ r.model.filter = st.model.filter
      /\ r.snapshot = e
      /\ \A a \in ToSet(r.asks) : a.page = page /\ a.limit = st.model.limit /\ a.filter = st.model.filter
  BY PageAsked
<1>2. n \in {r, [r EXCEPT !.busy = FALSE]}
  OBVIOUS
<1> HIDE DEF r
<1>3. n \in Guis /\ n.model = r.model /\ n.snapshot = e /\ n.asks = r.asks /\ (page # 1 => n.busy)
  BY <1>1, <1>2 DEF Guis
<1>4. st.model.limit \in Limits /\ st.model.filter \in Filters
  BY GuiFields DEF OrderModels
<1>5. choice' \in OrderChoices /\ choice'.page = page /\ choice'.limit = st.model.limit /\ choice'.filter = st.model.filter
  BY DEF IsChoice
<1>6. /\ model' = n.model /\ fetching_busy' = n.busy /\ snapshot' = e
      /\ fetches' = [i \in DOMAIN n.asks |-> Sent(n.asks[i])] \o fetches
  BY <1>3 DEF CommitModel
<1>7. fetches \in Seq(OrderFetches) /\ n.asks \in Seq(OrderAsks)
  BY <1>3, GuiFields DEF OrdersInv, OrdersTyped
<1>8. \A f \in ToSet(fetches') : f \in ToSet(fetches) \/ (f.pc = "sent" /\ f.ask \in ToSet(n.asks))
  BY <1>6, <1>7, SentBefore
<1>9. ASSUME ordersExcuses' = {}
      PROVE  PagesTurn(model', fetching_busy', snapshot', fetches', actions_queue', choice', kdf_swaps')
  <2>1. fetches = <<>> /\ actions_queue' = <<>> /\ Reaches(page, choice', kdf_swaps)
    BY <1>9 DEF UnderWay
  <2>2. ToSet(fetches) = {}
    BY <2>1 DEF ToSet
  <2>3. \A f \in ToSet(fetches') : AsChosen(f.ask, choice') /\ f.pc # "answered"
    BY <1>1, <1>3, <1>5, <1>8, <2>2 DEF AsChosen
  <2>4. AsChosen(snapshot', choice') /\ Reaches(snapshot'.nb_pages, choice', kdf_swaps)
    BY <1>5, <1>6, EmptyIsAsked
  <2>5. /\ model'.page = 1 /\ model'.rows = <<>> /\ model'.limit = choice'.limit
        /\ model'.page # choice'.page => fetching_busy'
    BY <1>1, <1>3, <1>5, <1>6
  <2>6. Reaches(model'.nb_pages, choice', kdf_swaps)
    BY <1>1, <1>3, <1>6 DEF Reaches
  <2> QED BY <1>5, <2>1, <2>3, <2>4, <2>5, <2>6 DEF PagesTurn
<1> QED BY <1>1, <1>3, <1>5, <1>6, <1>9 DEF PagesInv

\* With nothing under way the model is at the choice.
LEMMA AtTheChoice ==
  ASSUME OrdersInv, PagesInv, ordersExcuses = {}, ~UnderWay
  PROVE  /\ model.page = choice.page /\ model.limit = choice.limit /\ model.filter = choice.filter
         /\ ~fetching_busy /\ fetches = <<>> /\ actions_queue = <<>>
<1>1. PagesTurn(model, fetching_busy, snapshot, fetches, actions_queue, choice, kdf_swaps)
  BY DEF PagesInv
<1>2. model.filter = snapshot.filter
  BY DEF OrdersInv, FiltersAgree, PassedBy
<1> QED BY <1>1, <1>2 DEF PagesTurn, AsChosen, UnderWay

\* Choosing one of page, limit and filter leaves the other two as they were.
LEMMA FieldsOfChoice ==
  ASSUME PagesInv, NEW page \in Nat \ {0}, NEW limit \in Limits, NEW filter \in Filters
  PROVE  /\ IsChoice([choice EXCEPT !.page = page], page, choice.limit, choice.filter)
         /\ IsChoice([choice EXCEPT !.limit = limit, !.page = page], page, limit, choice.filter)
         /\ IsChoice([choice EXCEPT !.filter = filter, !.page = page], page, choice.limit, filter)
<1>1. choice \in OrderChoices
  BY DEF PagesInv
<1>2. IsChoice([choice EXCEPT !.page = page], page, choice.limit, choice.filter)
  BY <1>1 DEF OrderChoices, IsChoice
<1>3. IsChoice([choice EXCEPT !.limit = limit, !.page = page], page, limit, choice.filter)
  BY <1>1 DEF OrderChoices, IsChoice
<1>4. IsChoice([choice EXCEPT !.filter = filter, !.page = page], page, choice.limit, filter)
  BY <1>1 DEF OrderChoices, IsChoice
<1> QED BY <1>2, <1>3, <1>4

\* A choice with an excuse: nothing is promised any more.
LEMMA ExcusedChoice ==
  ASSUME choice' \in OrderChoices, ordersExcuses' # {}
  PROVE  PagesInv'
BY DEF PagesInv

\* A choice made while an answer is under way is excused from then on.
LEMMA ExcusesOfChoices ==
  ASSUME OrdersInv, Excuse("overlapped", UnderWay)
  PROVE  ordersExcuses' = {} => ordersExcuses = {} /\ ~UnderWay
<1>1. UnderWay \in BOOLEAN
  BY DEF UnderWay, OrdersInv, OrdersTyped
<1> QED BY <1>1, ExcusesStay

\* orders_model::set_current_page asks for the page, and shows the first until it comes.
LEMMA ChoosePageTurns ==
  ASSUME OrdersInv, PagesInv, NEW page \in Pages, ChoosePage(page)
  PROVE  PagesInv' /\ (ordersExcuses' = {} => model'.page = 1)
<1>1. page \in Nat \ {0} /\ OrdersTyped
  BY OrdersParameters DEF OrdersInv
<1>0. IsChoice([choice EXCEPT !.page = page], page, choice.limit, choice.filter)
  BY <1>1, FieldsOfChoice DEF PagesInv, OrderChoices
<1>2. /\ page # choice.page /\ page =< model.nb_pages
      /\ CommitModel(SetCurrentPage(OrdersGui, page)) /\ Excuse("overlapped", UnderWay)
      /\ IsChoice(choice', page, choice.limit, choice.filter)
      /\ actions_queue' = actions_queue /\ kdf_swaps' = kdf_swaps
  BY <1>0 DEF ChoosePage, Chosen, daemonVars
<1>3. ordersExcuses' = {} => ordersExcuses = {} /\ ~UnderWay
  BY <1>2, ExcusesOfChoices
<1>4. CASE ordersExcuses' # {}
  BY <1>1, <1>2, <1>4, ExcusedChoice DEF IsChoice
<1>5. CASE ordersExcuses' = {}
  <2>1. model.page = choice.page /\ model.limit = choice.limit /\ model.filter = choice.filter
    BY <1>3, <1>5, AtTheChoice
  <2>2. OrdersGui \in Guis /\ OrdersGui.asks = <<>> /\ OrdersGui.model = model
    BY <1>1, GuiIs
  <2>3. CommitModel(ResetAndAsk(OrdersGui, page))
    BY <1>2, <2>1, <2>2 DEF SetCurrentPage
  <2>4. Reaches(page, choice', kdf_swaps)
    <3>1. Reaches(model.nb_pages, choice, kdf_swaps)
      BY <1>3, <1>5 DEF PagesInv, PagesTurn
    <3>2. model.nb_pages \in Nat
      BY <1>1 DEF OrdersTyped, OrderModels
    <3>3. Len(SelectIn(kdf_swaps, Passes(choice.filter))) \in Nat
      BY PassingIs, LenProperties DEF Passing, OrdersInv, DaemonSound
    <3>4. Reaches(page, choice, kdf_swaps)
      BY <1>1, <1>2, <3>1, <3>2, <3>3, PageBefore DEF PagesInv
    <3>5. choice'.limit = choice.limit /\ choice'.filter = choice.filter
      BY <1>2 DEF IsChoice
    <3> QED BY <3>4, <3>5 DEF Reaches
  <2>5. ResetAndAsk(OrdersGui, page).busy = TRUE
    BY <1>1, <2>2, PageAsked
  <2> QED BY <1>1, <1>2, <1>3, <1>5, <2>1, <2>2, <2>3, <2>4, <2>5, PageIsAsked
<1> QED BY <1>4, <1>5

\* Entering the history asks for its first page, and turns to no other.
LEMMA ChooseHistoryTurns ==
  ASSUME OrdersInv, PagesInv, ChooseHistory
  PROVE  PagesInv' /\ (ordersExcuses' = {} => model'.page \in {1, model.page})
<1>1. 1 \in Nat \ {0} /\ OrdersTyped
  BY DEF OrdersInv
<1>0. IsChoice([choice EXCEPT !.page = 1], 1, choice.limit, choice.filter)
  BY <1>1, FieldsOfChoice DEF PagesInv, OrderChoices
<1>2. /\ CommitModel(SetCurrentPage(OrdersGui, 1)) /\ Excuse("overlapped", UnderWay)
      /\ IsChoice(choice', 1, choice.limit, choice.filter)
      /\ actions_queue' = actions_queue /\ kdf_swaps' = kdf_swaps
  BY <1>0 DEF ChooseHistory, Chosen, daemonVars
<1>3. ordersExcuses' = {} => ordersExcuses = {} /\ ~UnderWay
  BY <1>2, ExcusesOfChoices
<1>4. CASE ordersExcuses' # {}
  BY <1>1, <1>2, <1>4, ExcusedChoice DEF IsChoice
<1>5. CASE ordersExcuses' = {}
  <2>1. model.page = choice.page /\ model.limit = choice.limit /\ model.filter = choice.filter
    BY <1>3, <1>5, AtTheChoice
  <2>2. OrdersGui \in Guis /\ OrdersGui.asks = <<>> /\ OrdersGui.model = model
        /\ OrdersGui.busy = fetching_busy /\ OrdersGui.snapshot = snapshot
    BY <1>1, GuiIs
  <2>3. CASE model.page = 1
    <3>1. choice' = choice
      <4>1. choice' = [choice EXCEPT !.page = 1] /\ choice \in OrderChoices
        BY DEF ChooseHistory, Chosen, PagesInv
      <4> QED BY <2>1, <2>3, <4>1 DEF OrderChoices
    <3>2. CommitModel(OrdersGui)
      BY <1>2, <2>2, <2>3 DEF SetCurrentPage
    <3>3. /\ model' = model /\ fetching_busy' = fetching_busy /\ snapshot' = snapshot
          /\ fetches' = [i \in DOMAIN OrdersGui.asks |-> Sent(OrdersGui.asks[i])] \o fetches
      BY <2>2, <3>2 DEF CommitModel
    <3>4. ToSet(fetches') \subseteq ToSet(fetches)
      <4>1. fetches \in Seq(OrderFetches) /\ OrdersGui.asks \in Seq(OrderAsks)
        BY <2>2, GuiFields DEF OrdersInv, OrdersTyped
      <4>2. \A f \in ToSet(fetches') : f \in ToSet(fetches) \/ f.ask \in ToSet(OrdersGui.asks)
        BY <3>3, <4>1, SentBefore
      <4>3. ToSet(OrdersGui.asks) = {}
        BY <1>1, GuiIs
      <4> QED BY <4>2, <4>3
    <3>5. PagesTurn(model, fetching_busy, snapshot, fetches, actions_queue, choice, kdf_swaps)
      BY <1>3, <1>5 DEF PagesInv
    <3>6. PagesTurn(model', fetching_busy', snapshot', fetches', actions_queue', choice', kdf_swaps')
      BY <1>2, <3>1, <3>3, <3>4, <3>5 DEF PagesTurn
    <3> QED BY <3>1, <3>3, <3>6 DEF PagesInv
  <2>4. CASE model.page # 1
    <3>1. CommitModel(ResetAndAsk(OrdersGui, 1))
      BY <1>2, <2>2, <2>4 DEF SetCurrentPage
    <3>2. Reaches(1, choice', kdf_swaps)
      BY DEF Reaches
    <3>3. ResetAndAsk(OrdersGui, 1).busy = TRUE
      BY <1>1, <2>2, PageAsked
    <3> QED BY <1>1, <1>2, <1>3, <1>5, <2>1, <2>2, <3>1, <3>2, <3>3, PageIsAsked
  <2> QED BY <2>3, <2>4
<1> QED BY <1>4, <1>5

\* orders_model::set_limit_nb_elements asks for the first page again.
LEMMA ChooseLimitTurns ==
  ASSUME OrdersInv, PagesInv, NEW limit \in Limits, ChooseLimit(limit)
  PROVE  PagesInv' /\ (ordersExcuses' = {} => model'.page = 1)
<1> DEFINE limited == [OrdersGui EXCEPT !.model.limit = limit]
<1>1. 1 \in Nat \ {0} /\ OrdersTyped
  BY DEF OrdersInv
<1>2. IsChoice([choice EXCEPT !.limit = limit, !.page = 1], 1, limit, choice.filter)
  BY <1>1, FieldsOfChoice DEF PagesInv, OrderChoices
<1>3. /\ limit # choice.limit
      /\ CommitModel(SetLimitNbElements(OrdersGui, limit)) /\ Excuse("overlapped", UnderWay)
      /\ IsChoice(choice', 1, limit, choice.filter)
      /\ actions_queue' = actions_queue /\ kdf_swaps' = kdf_swaps
  BY <1>2 DEF ChooseLimit, Chosen, daemonVars
<1>4. ordersExcuses' = {} => ordersExcuses = {} /\ ~UnderWay
  BY <1>3, ExcusesOfChoices
<1>5. CASE ordersExcuses' # {}
  BY <1>3, <1>5, ExcusedChoice DEF IsChoice
<1>6. CASE ordersExcuses' = {}
  <2>1. model.limit = choice.limit /\ model.filter = choice.filter
    BY <1>4, <1>6, AtTheChoice
  <2>2. OrdersGui \in Guis /\ OrdersGui.asks = <<>> /\ OrdersGui.model = model
    BY <1>1, GuiIs
  <2>3. /\ limited \in Guis /\ limited.asks = <<>> /\ limited.model.limit = limit
        /\ limited.model.filter = model.filter /\ limited.model.page = model.page
    BY <2>2 DEF Guis, OrderModels
  <2>4. SetLimitNbElements(OrdersGui, limit) = ResetAndAsk(limited, 1)
    <3>1. SetLimitNbElements(OrdersGui, limit) =
            CASE limit = OrdersGui.model.limit -> OrdersGui
              [] limit # OrdersGui.model.limit /\ OrdersGui.model.page = 1 -> ResetAndAsk(limited, 1)
              [] OTHER -> SetCurrentPage(limited, 1)
      BY DEF SetLimitNbElements
    <3> HIDE DEF limited
    <3>2. CASE model.page = 1
      BY <1>3, <2>1, <2>2, <3>1, <3>2
    <3>3. CASE model.page # 1
      <4>1. SetLimitNbElements(OrdersGui, limit) = SetCurrentPage(limited, 1)
        BY <1>3, <2>1, <2>2, <3>1, <3>3
      <4> QED BY <2>3, <3>3, <4>1 DEF SetCurrentPage
    <3> QED BY <3>2, <3>3
  <2> HIDE DEF limited
  <2>5. Reaches(1, choice', kdf_swaps)
    BY DEF Reaches
  <2>6. ResetAndAsk(limited, 1).busy = TRUE
    BY <1>1, <2>3, PageAsked
  <2>7. CommitModel(ResetAndAsk(limited, 1)) /\ IsChoice(choice', 1, limited.model.limit, limited.model.filter)
    BY <1>3, <2>1, <2>3, <2>4
  <2> QED BY <1>1, <1>3, <1>4, <1>6, <2>3, <2>5, <2>6, <2>7, PageIsAsked
<1> QED BY <1>5, <1>6

\* orders_model::set_filtering_infos asks for the first page of the filter.
LEMMA ChooseFilterTurns ==
  ASSUME OrdersInv, PagesInv, NEW filter \in Filters, ChooseFilter(filter)
  PROVE  PagesInv' /\ (ordersExcuses' = {} => model'.page = 1)
<1> DEFINE filtered == [OrdersGui EXCEPT !.model.filter = filter]
           n == SetFilteringInfos(OrdersGui, filter)
           r == ResetAndAsk(filtered, 1)
<1>1. 1 \in Nat \ {0} /\ OrdersTyped
  BY DEF OrdersInv
<1>2. IsChoice([choice EXCEPT !.filter = filter, !.page = 1], 1, choice.limit, filter)
  BY <1>1, FieldsOfChoice DEF PagesInv, OrderChoices
<1>3. /\ is_history /\ CommitModel(n) /\ Excuse("overlapped", UnderWay)
      /\ IsChoice(choice', 1, choice.limit, filter)
      /\ actions_queue' = actions_queue /\ kdf_swaps' = kdf_swaps
  BY <1>2 DEF ChooseFilter, Chosen, daemonVars
<1>4. ordersExcuses' = {} => ordersExcuses = {} /\ ~UnderWay
  BY <1>3, ExcusesOfChoices
<1>5. CASE ordersExcuses' # {}
  BY <1>3, <1>5, ExcusedChoice DEF IsChoice
<1>6. CASE ordersExcuses' = {}
  <2>1. model.limit = choice.limit /\ ~fetching_busy
    BY <1>4, <1>6, AtTheChoice
  <2>2. OrdersGui \in Guis /\ OrdersGui.asks = <<>> /\ OrdersGui.model = model /\ OrdersGui.busy = fetching_busy
    BY <1>1, GuiIs
  <2>3. /\ filtered \in Guis /\ filtered.asks = <<>> /\ filtered.model.limit = model.limit
        /\ filtered.model.filter = filter /\ filtered.model.page = model.page
    BY <2>2 DEF Guis, OrderModels
  <2>4. n \in {r, [r EXCEPT !.busy = FALSE]}
    <3>1. n = CASE OrdersGui.busy -> OrdersGui
                [] ~OrdersGui.busy /\ OrdersGui.model.page = 1 /\ is_history -> [r EXCEPT !.busy = FALSE]
                [] OTHER -> SetCurrentPage(filtered, 1)
      BY DEF SetFilteringInfos
    <3> HIDE DEF filtered, n
    <3>2. CASE model.page = 1
      <4> HIDE DEF r
      <4> QED BY <1>3, <2>1, <2>2, <3>1, <3>2
    <3>3. CASE model.page # 1
      <4>1. n = SetCurrentPage(filtered, 1)
        <5> HIDE DEF r
        <5> QED BY <2>1, <2>2, <3>1, <3>3
      <4> QED BY <2>3, <3>3, <4>1 DEF SetCurrentPage
    <3> QED BY <3>2, <3>3
  <2> HIDE DEF filtered, n
  <2>5. Reaches(1, choice', kdf_swaps)
    BY DEF Reaches
  <2>6. IsChoice(choice', 1, filtered.model.limit, filtered.model.filter)
    BY <1>3, <2>1, <2>3
  <2> QED BY <1>1, <1>3, <1>4, <1>6, <2>3, <2>4, <2>5, <2>6, PageIsAsked
<1> QED BY <1>5, <1>6

\* New rows and ids leave the page, the limit and the number of pages.
LEMMA InsertsTurnNoPage ==
  ASSUME NEW st \in Guis, NEW c \in OrderContents, Sound(c),
         NEW n \in {UpdateOrInsertOrders(st, c), UpdateOrInsertSwaps(st, c)}
  PROVE  n.model.page = st.model.page /\ n.model.limit = st.model.limit /\ n.model.nb_pages = st.model.nb_pages
<1>1. CASE n = UpdateOrInsertSwaps(st, c)
  <2> DEFINE rows == UpdateSwaps(st.model.rows, c, st.model.swap_ids) \o NewRows(c, "swap", st.model.swap_ids)
             ids == st.model.swap_ids \cup IdsOf(c.rows, "swap")
  <2>1. n = [st EXCEPT !.model.rows = rows, !.model.swap_ids = ids]
    BY <1>1 DEF UpdateOrInsertSwaps, Guis, OrderModels
  <2> HIDE DEF rows, ids
  <2> QED BY <2>1 DEF Guis, OrderModels
<1>2. CASE n = UpdateOrInsertOrders(st, c)
  <2> DEFINE new == NewRows(c, "order", st.model.order_ids)
             mid == [st EXCEPT !.model.rows = @ \o new, !.model.order_ids = @ \cup OrderIdsOf(c)]
             gone == mid.model.order_ids \ OrderIdsOf(c)
             kept == {i \in DOMAIN mid.model.rows : mid.model.rows[i].id \notin gone \/ ~IsFirst(mid.model.rows, i)}
             out == [mid EXCEPT !.model.rows = SelectAt(mid.model.rows, kept),
                                !.model.order_ids = @ \ {mid.model.rows[i].id : i \in DOMAIN mid.model.rows \ kept}]
  <2>1. n = out
    BY <1>2 DEF UpdateOrInsertOrders, RemoveOrders
  <2>2. st.model \in OrderModels /\ st.model.rows \in Seq(Row) /\ new \in Seq(Row) /\ OrderIdsOf(c) \subseteq Orders
    BY GuiFields, NewRowsAre DEF Sound, OrderModels
  <2> HIDE DEF new
  <2>3. st.model.rows \o new \in Seq(Row)
    BY <2>2, ConcatOf
  <2>4. /\ mid \in Guis /\ mid.model.page = st.model.page /\ mid.model.limit = st.model.limit
        /\ mid.model.nb_pages = st.model.nb_pages
    BY <2>2, <2>3 DEF Guis, OrderModels
  <2> HIDE DEF mid, gone, kept
  <2> DEFINE rows == SelectAt(mid.model.rows, kept)
             ids == mid.model.order_ids \ {mid.model.rows[i].id : i \in DOMAIN mid.model.rows \ kept}
  <2>5. out = [mid EXCEPT !.model.rows = rows, !.model.order_ids = ids]
    BY <2>4 DEF Guis, OrderModels
  <2> HIDE DEF out, rows, ids
  <2>6. n.model.page = mid.model.page /\ n.model.limit = mid.model.limit /\ n.model.nb_pages = mid.model.nb_pages
    BY <2>1, <2>4, <2>5 DEF Guis, OrderModels
  <2> QED BY <2>4, <2>6
<1> QED BY <1>1, <1>2

\* The model follows the snapshot of the choice without asking for another page.
LEMMA RefreshTurns ==
  ASSUME NEW st \in Guis, st.asks = <<>>, Sound(st.snapshot), NEW reset \in BOOLEAN, NEW fs, NEW queue,
         queue # <<>>, NEW c \in OrderChoices, NEW swaps,
         PagesTurn(st.model, st.busy, st.snapshot, fs, queue, c, swaps)
  PROVE  LET n == RefreshOrInsert(st, reset)
         IN  /\ n \in Guis /\ n.snapshot = st.snapshot /\ n.asks = <<>>
             /\ \A q : (q # <<>> => queue # <<>>) =>
                  PagesTurn(n.model, n.busy, n.snapshot, fs, q, c, swaps)
<1> DEFINE now == NotBusyAfter(st, reset)
           s == st.snapshot
           n == RefreshOrInsert(st, reset)
<1>1. now \in Guis /\ now.model = st.model /\ now.snapshot = s /\ now.asks = <<>> /\ (now.busy => st.busy)
  BY DEF NotBusyAfter, Guis
<1>2. s \in OrderSnapshots /\ s \in OrderContents /\ st.model \in OrderModels
  BY GuiFields
<1>3. /\ Reaches(c.page, c, swaps) /\ st.model.limit = c.limit /\ Reaches(st.model.nb_pages, c, swaps)
      /\ (st.model.page # c.page => st.model.page = 1 /\ st.model.rows = <<>> /\ st.busy)
      /\ AsChosen(s, c) /\ Reaches(s.nb_pages, c, swaps) /\ Filled(s, c, swaps)
      /\ \A f \in ToSet(fs) : AsChosen(f.ask, c) /\ (f.pc = "answered" => Filled(f.contents, c, swaps))
  BY DEF PagesTurn
<1> DEFINE mid == SetCommonData(now, s)
           ins == UpdateOrInsertOrders(mid, s)
           upd == UpdateOrInsertSwaps(ins, s)
<1>4. n = CASE now.busy -> now
            [] ~now.busy /\ now.model.rows = <<>> -> InitModel(now, now.snapshot)
            [] OTHER -> UpdateOrInsertSwaps(UpdateOrInsertOrders(SetCommonData(now, now.snapshot), now.snapshot), now.snapshot)
  BY DEF RefreshOrInsert
<1> HIDE DEF now, n
\* It is enough that the model is at the choice, or where it was and busy.
<1>5. ASSUME n \in Guis, n.snapshot = s, n.asks = <<>>, n.model.limit = c.limit, Reaches(n.model.nb_pages, c, swaps),
             n.model.page # c.page => n.model.page = 1 /\ n.model.rows = <<>> /\ n.busy
      PROVE  /\ n \in Guis /\ n.snapshot = s /\ n.asks = <<>>
             /\ \A q : (q # <<>> => queue # <<>>) => PagesTurn(n.model, n.busy, n.snapshot, fs, q, c, swaps)
  BY <1>3, <1>5 DEF PagesTurn
<1>6. CASE now.busy
  <2>1. n = now
    BY <1>4, <1>6
  <2> QED BY <1>1, <1>3, <1>5, <1>6, <2>1 DEF n
<1>7. CASE ~now.busy /\ st.model.rows = <<>>
  <2>1. n = InitModel(now, s)
    BY <1>1, <1>4, <1>7
  <2>2. CASE s.rows = <<>>
    <3>1. n = now
      BY <2>1, <2>2 DEF InitModel
    <3>2. c.page = 1
      BY <1>3, <2>2 DEF Filled, AsChosen
    <3> QED BY <1>1, <1>3, <1>5, <3>1, <3>2 DEF n
  <2>3. CASE s.rows # <<>>
    <3>1. n \in Guis /\ n.snapshot = s /\ n.asks = <<>>
      BY <1>1, <1>2, <2>1, ModelInitialised
    <3>2. n.model.page = s.page /\ n.model.limit = s.limit /\ n.model.nb_pages = s.nb_pages
      <4> DEFINE m == [page |-> s.page, limit |-> s.limit, filter |-> s.filter, nb_pages |-> s.nb_pages,
                       rows |-> s.rows, order_ids |-> IdsOf(s.rows, "order"), swap_ids |-> IdsOf(s.rows, "swap")]
      <4>1. n = [now EXCEPT !.model = m]
        BY <2>1, <2>3 DEF InitModel
      <4>2. m.page = s.page /\ m.limit = s.limit /\ m.nb_pages = s.nb_pages
        OBVIOUS
      <4> HIDE DEF m, s
      <4>3. n.model = m
        BY <1>1, <4>1 DEF Guis
      <4> QED BY <4>2, <4>3
    <3> HIDE DEF s
    <3> QED BY <1>3, <1>5, <3>1, <3>2 DEF AsChosen, n, s
  <2> QED BY <2>2, <2>3
<1>8. CASE ~now.busy /\ st.model.rows # <<>>
  <2>1. n = upd
    BY <1>1, <1>4, <1>8
  <2>2. st.model.page = c.page
    BY <1>3, <1>8
  <2> DEFINE a == [now EXCEPT !.model.nb_pages = s.nb_pages]
  <2>3. /\ a \in Guis /\ a.model.limit = c.limit /\ a.model.page = c.page /\ a.model.nb_pages = s.nb_pages
        /\ a.snapshot = s /\ a.asks = <<>>
    <3>1. s.nb_pages \in Nat
      BY <1>2 DEF OrderSnapshots
    <3> HIDE DEF s
    <3> QED BY <1>1, <1>2, <1>3, <2>2, <3>1 DEF Guis, OrderModels
  <2>4. mid = a
    <3>1. mid = SetCurrentPage(SetLimitNbElements(a, s.limit), s.page)
      BY DEF SetCommonData
    <3> HIDE DEF a, mid
    <3>2. s.limit = a.model.limit /\ s.page = a.model.page
      BY <1>3, <2>3 DEF AsChosen
    <3>3. SetLimitNbElements(a, s.limit) = a
      BY <3>2 DEF SetLimitNbElements
    <3> QED BY <3>1, <3>2, <3>3 DEF SetCurrentPage
  <2> HIDE DEF a, mid
  <2>5. /\ ins.model.limit = a.model.limit /\ ins.model.page = a.model.page /\ ins.model.nb_pages = a.model.nb_pages
        /\ ins.snapshot = a.snapshot /\ ins.asks = a.asks /\ ins \in Guis
    <3>1. a \in Guis /\ s \in OrderContents /\ Sound(s) /\ ins = UpdateOrInsertOrders(a, s)
      BY <1>2, <2>3, <2>4 DEF ins
    <3> HIDE DEF s, ins
    <3> QED BY <3>1, OrdersInserted, InsertsTurnNoPage
  <2> HIDE DEF ins
  <2>6. /\ upd.model.limit = ins.model.limit /\ upd.model.page = ins.model.page /\ upd.model.nb_pages = ins.model.nb_pages
        /\ upd.snapshot = ins.snapshot /\ upd.asks = ins.asks /\ upd \in Guis
    <3>1. ins \in Guis /\ s \in OrderContents /\ Sound(s) /\ upd = UpdateOrInsertSwaps(ins, s)
      BY <1>2, <2>5 DEF upd
    <3> HIDE DEF s, upd
    <3> QED BY <3>1, SwapsInserted, InsertsTurnNoPage
  <2> HIDE DEF upd
  <2> QED BY <1>3, <1>5, <2>1, <2>3, <2>5, <2>6 DEF n
<1> QED BY <1>1, <1>6, <1>7, <1>8 DEF n

\* application::tick.
LEMMA TickTurns ==
  ASSUME OrdersInv, PagesInv, Tick
  PROVE  PagesInv' /\ choice' = choice
<1> DEFINE n == RefreshOrInsert(OrdersGui, Head(actions_queue))
<1>1. OrdersTyped /\ Sound(snapshot)
  BY DEF OrdersInv, HeldSound
<1>2. /\ OrdersGui \in Guis /\ OrdersGui.model = model /\ OrdersGui.busy = fetching_busy
      /\ OrdersGui.snapshot = snapshot /\ OrdersGui.asks = <<>>
  BY <1>1, GuiIs
<1>3. Head(actions_queue) \in BOOLEAN /\ actions_queue # <<>>
  BY <1>1, HeadTailProperties DEF Tick, OrdersTyped
<1>4. /\ CommitModel(n) /\ choice' = choice /\ ordersExcuses' = ordersExcuses /\ kdf_swaps' = kdf_swaps
  BY DEF Tick, daemonVars
<1> HIDE DEF n
<1>5. ASSUME ordersExcuses' = {}
      PROVE  PagesTurn(model', fetching_busy', snapshot', fetches', actions_queue', choice', kdf_swaps')
  <2>1. PagesTurn(model, fetching_busy, snapshot, fetches, actions_queue, choice, kdf_swaps) /\ choice \in OrderChoices
    BY <1>4, <1>5 DEF PagesInv
  <2>2. PagesTurn(OrdersGui.model, OrdersGui.busy, OrdersGui.snapshot, fetches, actions_queue, choice, kdf_swaps)
    BY <1>2, <2>1
  <2>3. /\ n \in Guis /\ n.snapshot = OrdersGui.snapshot /\ n.asks = <<>>
        /\ \A q : (q # <<>> => actions_queue # <<>>) =>
             PagesTurn(n.model, n.busy, n.snapshot, fetches, q, choice, kdf_swaps)
    BY <1>1, <1>2, <1>3, <2>1, <2>2, RefreshTurns DEF n
  <2>4. PagesTurn(n.model, n.busy, n.snapshot, fetches, actions_queue', choice, kdf_swaps)
    BY <1>3, <2>3
  <2>5. /\ model' = n.model /\ fetching_busy' = n.busy /\ snapshot' = n.snapshot
        /\ fetches' = [i \in DOMAIN n.asks |-> Sent(n.asks[i])] \o fetches
    BY <1>4 DEF CommitModel
  <2>6. ToSet(fetches') \subseteq ToSet(fetches)
    <3>1. fetches \in Seq(OrderFetches) /\ n.asks \in Seq(OrderAsks)
      BY <1>1, <2>3, GuiFields DEF OrdersTyped
    <3>2. \A f \in ToSet(fetches') : f \in ToSet(fetches) \/ f.ask \in ToSet(n.asks)
      BY <2>5, <3>1, SentBefore
    <3>3. ToSet(n.asks) = {}
      BY <2>3 DEF ToSet
    <3> QED BY <3>2, <3>3
  <2> QED BY <1>4, <2>4, <2>5, <2>6 DEF PagesTurn
<1> QED BY <1>4, <1>5 DEF PagesInv

\* Batches are sent, begun, answered and lost: each is of the choice.
LEMMA BatchTurns ==
  ASSUME PagesInv, UNCHANGED <<model, fetching_busy, snapshot, actions_queue, choice, kdf_swaps>>,
         ordersExcuses' = {} => ordersExcuses = {},
         \A f \in ToSet(fetches') :
            \/ f \in ToSet(fetches)
            \/ ordersExcuses' = {} =>
                 AsChosen(f.ask, choice) /\ (f.pc = "answered" => Filled(f.contents, choice, kdf_swaps))
  PROVE  PagesInv'
<1> SUFFICES ASSUME ordersExcuses' = {}
             PROVE  PagesTurn(model, fetching_busy, snapshot, fetches', actions_queue, choice, kdf_swaps)
  BY DEF PagesInv
<1>1. PagesTurn(model, fetching_busy, snapshot, fetches, actions_queue, choice, kdf_swaps)
  BY DEF PagesInv
<1> QED BY <1>1 DEF PagesTurn

\* A batch sent for what was last asked for is of the choice.
LEMMA SentAgainTurns ==
  ASSUME OrdersInv, PagesInv, fetches' = <<Sent(AskAgain)>> \o fetches,
         UNCHANGED <<model, fetching_busy, snapshot, actions_queue, choice, kdf_swaps, ordersExcuses>>
  PROVE  PagesInv'
<1>1. /\ AskAgain \in OrderAsks /\ AskAgain.page = snapshot.page /\ AskAgain.limit = snapshot.limit
      /\ AskAgain.filter = snapshot.filter
  BY DEF OrdersInv, OrdersTyped, OrderSnapshots, AskAgain, OrderAsks
<1> DEFINE asks == <<AskAgain>>
           gs == [i \in DOMAIN asks |-> Sent(asks[i])] \o fetches
<1>2. asks \in Seq(OrderAsks) /\ ToSet(asks) = {AskAgain} /\ [i \in DOMAIN asks |-> Sent(asks[i])] = <<Sent(AskAgain)>>
  BY <1>1 DEF ToSet
<1>3. fetches' = gs /\ fetches \in Seq(OrderFetches)
  BY <1>2 DEF OrdersInv, OrdersTyped
<1> HIDE DEF asks
<1>4. \A f \in ToSet(fetches') : f \in ToSet(fetches) \/ (f.pc = "sent" /\ f.ask = AskAgain)
  BY <1>2, <1>3, SentBefore
<1>5. ordersExcuses' = {} => AsChosen(AskAgain, choice)
  BY <1>1 DEF PagesInv, PagesTurn, AsChosen
<1>6. \A f \in ToSet(fetches') :
            \/ f \in ToSet(fetches)
            \/ ordersExcuses' = {} =>
                 AsChosen(f.ask, choice) /\ (f.pc = "answered" => Filled(f.contents, choice, kdf_swaps))
  BY <1>4, <1>5
<1> QED BY <1>6, BatchTurns

\* A batch the daemon begins keeps what it asks for.
LEMMA KdfBeginsTurns ==
  ASSUME OrdersInv, PagesInv, NEW i \in DOMAIN fetches, KdfBegins(i)
  PROVE  PagesInv'
<1> DEFINE g == [fetches[i] EXCEPT !.pc = "begun", !.open = kdf_orders]
           fs == RemoveAt(fetches, i)
           gs == Append(fs, g)
<1>1. /\ fetches \in Seq(OrderFetches) /\ i \in 1..Len(fetches) /\ fetches[i] \in OrderFetches
      /\ fetches[i] \in ToSet(fetches)
  BY BatchIs
<1>2. kdf_orders \subseteq Orders
  BY DEF OrdersInv, DaemonSound
<1>3. g \in OrderFetches /\ g.pc = "begun" /\ g.ask = fetches[i].ask
  BY <1>1, <1>2 DEF OrderFetches
<1>4. fetches' = gs /\ Excuse("interleaved", \E j \in DOMAIN fetches : fetches[j].pc = "begun")
      /\ UNCHANGED <<model, fetching_busy, snapshot, actions_queue, choice, kdf_swaps>>
  BY DEF KdfBegins, daemonVars
<1> HIDE DEF g
<1>5. fs \in Seq(OrderFetches) /\ ToSet(fs) \subseteq ToSet(fetches)
  BY <1>1, BatchGone
<1> HIDE DEF fs
<1>6. \A f \in ToSet(gs) : f \in ToSet(fs) \/ f = g
  <2>1. g.pc # "sent"
    BY <1>3
  <2> QED BY <1>3, <1>5, <2>1, BatchLast
<1> HIDE DEF gs
<1>7. ordersExcuses' = {} => ordersExcuses = {}
  BY <1>4, ExcusesStay
<1>8. ordersExcuses' = {} => AsChosen(g.ask, choice) /\ g.pc # "answered"
  BY <1>1, <1>3, <1>7 DEF PagesInv, PagesTurn
<1>9. \A f \in ToSet(fetches') :
            \/ f \in ToSet(fetches)
            \/ ordersExcuses' = {} =>
                 AsChosen(f.ask, choice) /\ (f.pc = "answered" => Filled(f.contents, choice, kdf_swaps))
  BY <1>4, <1>5, <1>6, <1>8
<1> QED BY <1>4, <1>7, <1>9, BatchTurns

\* The answer of the daemon is of the choice the batch was sent for.
LEMMA KdfAnswersTurns ==
  ASSUME OrdersInv, PagesInv, NEW i \in DOMAIN fetches, KdfAnswers(i)
  PROVE  PagesInv'
<1> DEFINE ask == fetches[i].ask
           c == PageContents(fetches[i], ask.page, PageOf(ask))
           g == [fetches[i] EXCEPT !.pc = "answered", !.contents = c]
           gs == [fetches EXCEPT ![i].pc = "answered", ![i].contents = c]
<1>1. /\ fetches \in Seq(OrderFetches) /\ i \in 1..Len(fetches) /\ fetches[i] \in OrderFetches
      /\ fetches[i] \in ToSet(fetches)
  BY BatchIs
<1>2. ask \in OrderAsks /\ ask.page \in Nat \ {0}
  BY <1>1 DEF OrderFetches, OrderAsks
<1>3. /\ SwapsListed /\ ongoing \subseteq ToSet(kdf_swaps)
  BY DEF OrdersInv, DaemonSound
<1>4. c \in OrderSnapshots
  <2>1. /\ PageOf(ask) \in Seq(SwapIds) /\ Distinct(PageOf(ask))
        /\ ToSet(PageOf(ask)) \subseteq ToSet(kdf_swaps) \cap Passes(ask.filter)
    BY <1>2, <1>3, PageIs
  <2> QED BY <1>1, <1>2, <1>3, <2>1, ContentsAre
<1>5. /\ fetches' = gs /\ ordersExcuses' = ordersExcuses
      /\ UNCHANGED <<model, fetching_busy, snapshot, actions_queue, choice, kdf_swaps>>
  BY DEF KdfAnswers, daemonVars
<1>6. ASSUME ordersExcuses' = {} PROVE AsChosen(ask, choice) /\ Filled(c, choice, kdf_swaps)
  <2>1. AsChosen(ask, choice) /\ Reaches(choice.page, choice, kdf_swaps)
    BY <1>1, <1>5, <1>6 DEF PagesInv, PagesTurn
  <2>2. Reaches(ask.page, ask, kdf_swaps)
    BY <2>1 DEF AsChosen, Reaches
  <2>3. Filled(c, ask, kdf_swaps)
    BY <1>1, <1>3, <2>2, AnswerFilled
  <2> HIDE DEF c, ask
  <2> QED BY <2>1, <2>3 DEF Filled, AsChosen, Reaches
<1> HIDE DEF c
<1>7. /\ \A f \in ToSet(gs) : f \in ToSet(fetches) \/ f = g
      /\ g.contents = c /\ g.ask = ask
  BY <1>1, <1>4, BatchAnswered DEF KdfAnswers
<1> HIDE DEF g, gs
<1>8. \A f \in ToSet(fetches') :
            \/ f \in ToSet(fetches)
            \/ ordersExcuses' = {} =>
                 AsChosen(f.ask, choice) /\ (f.pc = "answered" => Filled(f.contents, choice, kdf_swaps))
  BY <1>5, <1>6, <1>7
<1> QED BY <1>5, <1>8, BatchTurns

\* The answer that is stored is of the choice.
LEMMA StoreReplyTurns ==
  ASSUME OrdersInv, PagesInv, NEW i \in DOMAIN fetches, StoreReply(i)
  PROVE  PagesInv'
<1>1. /\ fetches \in Seq(OrderFetches) /\ i \in 1..Len(fetches) /\ fetches[i] \in ToSet(fetches)
  BY BatchIs
<1>2. /\ fetches[i].pc = "answered" /\ snapshot' = fetches[i].contents /\ fetches' = RemoveAt(fetches, i)
      /\ Excuse("overtaken", \E j \in 1..(i - 1) : fetches[j].pc # "sent")
      /\ UNCHANGED <<model, fetching_busy, choice, kdf_swaps>>
  BY DEF StoreReply, daemonVars
<1>3. ToSet(fetches') \subseteq ToSet(fetches)
  BY <1>1, <1>2, BatchGone
<1>4. ordersExcuses' = {} => ordersExcuses = {}
  BY <1>2, ExcusesStay
<1>5. ASSUME ordersExcuses' = {}
      PROVE  PagesTurn(model', fetching_busy', snapshot', fetches', actions_queue', choice', kdf_swaps')
  <2>1. PagesTurn(model, fetching_busy, snapshot, fetches, actions_queue, choice, kdf_swaps)
    BY <1>4, <1>5 DEF PagesInv
  <2>2. Filled(snapshot', choice, kdf_swaps)
    BY <1>1, <1>2, <2>1 DEF PagesTurn
  <2>3. AsChosen(snapshot', choice) /\ Reaches(snapshot'.nb_pages, choice, kdf_swaps)
    BY <2>2 DEF Filled
  <2> QED BY <1>2, <1>3, <2>1, <2>2, <2>3 DEF PagesTurn
<1> QED BY <1>2, <1>5 DEF PagesInv

\* A batch lost or refused is excused from then on.
LEMMA LostAndRefusedTurn ==
  ASSUME PagesInv, NEW i \in DOMAIN fetches, KdfRefusesSwaps(i) \/ FetchLost(i)
  PROVE  PagesInv'
<1>1. choice' = choice /\ ordersExcuses' # {}
  BY DEF KdfRefusesSwaps, FetchLost, Mishap, Excuse
<1> QED BY <1>1 DEF PagesInv

\* An order that is matched: no page goes.
LEMMA KdfMatchesTurns ==
  ASSUME OrdersInv, PagesInv, NEW id \in Orders, KdfMatches(id)
  PROVE  PagesInv'
<1>1. /\ kdf_swaps' = <<id>> \o kdf_swaps
      /\ UNCHANGED <<model, fetching_busy, snapshot, fetches, actions_queue, choice, ordersExcuses>>
  BY DEF KdfMatches
<1>2. SwapsListed /\ id \in SwapIds
  BY OrdersParameters DEF OrdersInv, DaemonSound
<1> DEFINE more == <<id>> \o kdf_swaps
<1>3. ASSUME ordersExcuses = {}
      PROVE  PagesTurn(model, fetching_busy, snapshot, fetches, actions_queue, choice, more)
  <2>1. PagesTurn(model, fetching_busy, snapshot, fetches, actions_queue, choice, kdf_swaps) /\ choice \in OrderChoices
    BY <1>3 DEF PagesInv
  <2>2. choice.page \in Nat /\ model.nb_pages \in Nat /\ snapshot.nb_pages \in Nat
    BY <2>1 DEF OrderChoices, OrdersInv, OrdersTyped, OrderModels, OrderSnapshots
  <2>3. \A n \in Nat : Reaches(n, choice, kdf_swaps) => Reaches(n, choice, more)
    BY <1>2, <2>1, ReachesStill
  <2> HIDE DEF more
  <2>4. ASSUME NEW f \in ToSet(fetches), f.pc = "answered" PROVE Filled(f.contents, choice, more)
    <3>1. f.contents.nb_pages \in Nat
      <4>1. f.contents \in OrderSnapshots
        BY <2>4 DEF OrdersInv, HeldSound, AnswerSound
      <4> QED BY <4>1 DEF OrderSnapshots
    <3> QED BY <2>1, <2>3, <2>4, <3>1 DEF PagesTurn, Filled
  <2>5. actions_queue # <<>> => Filled(snapshot, choice, more)
    BY <2>1, <2>2, <2>3 DEF PagesTurn, Filled
  <2>6. \A f \in ToSet(fetches) : AsChosen(f.ask, choice)
    BY <2>1 DEF PagesTurn
  <2> QED BY <2>1, <2>2, <2>3, <2>4, <2>5, <2>6 DEF PagesTurn
<1> QED BY <1>1, <1>3 DEF PagesInv

\* Cancelling, recovering and what the daemon finishes turn no page.
LEMMA OthersTurn ==
  ASSUME PagesInv,
         \/ LeaveHistory \/ (\E ids \in SUBSET Orders : CancelOrders(ids)) \/ RecoverFund
         \/ KdfCancels \/ FundRecovered \/ (\E id \in Orders : KdfFinishes(id))
         \/ UNCHANGED ordersVars
  PROVE  PagesInv' /\ model' = model
<1>1. UNCHANGED <<model, fetching_busy, snapshot, fetches, actions_queue, ordersExcuses, choice, kdf_swaps>>
  <2>1. CASE LeaveHistory
    BY <2>1 DEF LeaveHistory, daemonVars
  <2>2. CASE \E ids \in SUBSET Orders : CancelOrders(ids)
    BY <2>2 DEF CancelOrders, daemonVars
  <2>3. CASE RecoverFund
    BY <2>3 DEF RecoverFund, daemonVars
  <2>4. CASE KdfCancels
    BY <2>4 DEF KdfCancels
  <2>5. CASE FundRecovered
    BY <2>5 DEF FundRecovered, daemonVars
  <2>6. CASE \E id \in Orders : KdfFinishes(id)
    BY <2>6 DEF KdfFinishes
  <2>7. CASE UNCHANGED ordersVars
    BY <2>7 DEF ordersVars
  <2> QED BY <2>1, <2>2, <2>3, <2>4, <2>5, <2>6, <2>7
<1> QED BY <1>1 DEF PagesInv

\* At the start the first page is chosen, shown and not yet asked for.
LEMMA PagesInitInv ==
  ASSUME OrdersInit
  PROVE  PagesInv
<1>1. /\ choice = [page |-> 1, limit |-> FirstLimit, filter |-> NoFilter]
      /\ model.page = 1 /\ model.limit = FirstLimit /\ model.nb_pages = 1
      /\ fetches = <<>> /\ actions_queue = <<>>
      /\ snapshot = EmptyContents(1, FirstLimit, NoFilter)
  BY DEF OrdersInit
<1>2. choice \in OrderChoices /\ choice.page = 1 /\ choice.limit = FirstLimit /\ choice.filter = NoFilter
  BY <1>1, OrdersParameters DEF OrderChoices
<1>3. AsChosen(snapshot, choice) /\ Reaches(snapshot.nb_pages, choice, kdf_swaps)
  BY <1>1, <1>2, EmptyIsAsked
<1>4. Reaches(1, choice, kdf_swaps) /\ ToSet(fetches) = {}
  BY <1>1 DEF Reaches, ToSet
<1> QED BY <1>1, <1>2, <1>3, <1>4 DEF PagesInv, PagesTurn

\* The page of the model is turned where the choice is, or to the first.
LEMMA PagesNextInv ==
  ASSUME OrdersInv, PagesInv, [OrdersNext]_ordersVars
  PROVE  /\ PagesInv'
         /\ model'.page # model.page => model'.page \in {1, choice.page} \/ ordersExcuses' # {}
<1>1. CASE User
  <2> DEFINE kept == PagesInv' /\ (ordersExcuses' = {} => model'.page \in {1, model.page})
  <2>1. ASSUME NEW page \in Pages, ChoosePage(page) PROVE kept
    BY <2>1, ChoosePageTurns
  <2>2. ASSUME NEW limit \in Limits, ChooseLimit(limit) PROVE kept
    BY <2>2, ChooseLimitTurns
  <2>3. ASSUME NEW filter \in Filters, ChooseFilter(filter) PROVE kept
    BY <2>3, ChooseFilterTurns
  <2>4. ASSUME ChooseHistory PROVE kept
    BY <2>4, ChooseHistoryTurns
  <2>5. ASSUME LeaveHistory \/ (\E ids \in SUBSET Orders : CancelOrders(ids)) \/ RecoverFund PROVE kept
    BY <2>5, OthersTurn
  <2>6. kept
    <3> HIDE DEF kept
    <3> QED BY <1>1, <2>1, <2>2, <2>3, <2>4, <2>5 DEF User
  <2> QED BY <2>6
<1>2. CASE FetchOrders \/ Cancelled
  <2>1. /\ fetches' = <<Sent(AskAgain)>> \o fetches
        /\ UNCHANGED <<model, fetching_busy, snapshot, actions_queue, choice, kdf_swaps, ordersExcuses>>
    BY <1>2 DEF FetchOrders, Cancelled, daemonVars
  <2> QED BY <2>1, SentAgainTurns
<1>3. ASSUME NEW i \in DOMAIN fetches, Batch(i)
      PROVE  PagesInv' /\ model' = model
  <2>1. model' = model
    BY <1>3 DEF Batch, KdfBegins, KdfAnswers, KdfRefusesSwaps, FetchLost, StoreReply
  <2> QED BY <1>3, <2>1, KdfBeginsTurns, KdfAnswersTurns, LostAndRefusedTurn, StoreReplyTurns DEF Batch
<1>4. CASE Tick
  <2>1. PagesInv' /\ choice' = choice
    BY <1>4, TickTurns
  <2>2. ordersExcuses' = {} => model'.page = choice'.page \/ model'.page = 1
    BY <2>1 DEF PagesInv, PagesTurn
  <2> QED BY <2>1, <2>2
<1>5. ASSUME NEW id \in Orders, KdfMatches(id)
      PROVE  PagesInv' /\ model' = model
  BY <1>5, KdfMatchesTurns DEF KdfMatches
<1>6. CASE KdfCancels \/ FundRecovered \/ (\E id \in Orders : KdfFinishes(id)) \/ UNCHANGED ordersVars
  BY <1>6, OthersTurn
<1> QED BY <1>1, <1>2, <1>3, <1>4, <1>5, <1>6 DEF OrdersNext

\* orders_model turns to a page other than the first only because the user chose it:
\* whatever the orders, the pages, the limits and the filters, the answer for a page
\* the daemon counted has rows, also after orders were matched, and a snapshot stored
\* while nothing overlapped is of the choice, so that refresh_or_insert forces no page
\* of its own (orders_model::set_common_data, init_model).
THEOREM PagesAlwaysTurnedByTheUser == OrdersSpec => PagesAreTurnedByTheUser
<1>1. OrdersInit => OrdersInv /\ PagesInv
  BY OrdersInitInv, PagesInitInv
<1>2. OrdersInv /\ PagesInv /\ [OrdersNext]_ordersVars => (OrdersInv /\ PagesInv)'
  BY OrdersNextInv, PagesNextInv
<1>3. OrdersInv /\ PagesInv /\ [OrdersNext]_ordersVars
        => [model'.page # model.page => model'.page \in {1, choice.page} \/ ordersExcuses' # {}]_ordersVars
  BY PagesNextInv
<1> QED BY <1>1, <1>2, <1>3, PTL DEF OrdersSpec, PagesAreTurnedByTheUser

-----------------------------------------------------------------------------
(* The transactions a page shows.                                          *)

\* What the daemon tells of a coin: the newest first, those that wait before
\* the others and no more of them than a page shows.
IsHistory(h, c) ==
  /\ \A i \in 1..Len(h) : h[i].id = <<c, Len(h) + 1 - i>>
  /\ \A i \in 1..Len(h) : h[i].unconfirmed => i <= PageSize /\ \A j \in 1..i : h[j].unconfirmed

OfSome(h) == h = NoHistory \/ \E c \in ShownCoins : IsHistory(h, c)

\* What is stored and what calls carry was the history of some coin, unless
\* histories were mixed or crowded.
Histories ==
  txExcuses \cap {"mixed", "crowded"} = {} =>
    /\ \A c \in ShownCoins : IsHistory(txHistory[c], c)
    /\ \A k \in TxKeys : OfSome(txStored[k])
    /\ \A i \in TxSlots : OfSome(txCalls[i].txs)

\* Rows are of the newest transactions of the coin, and those of the newest
\* page are shown.
RowsAre(p) ==
  /\ TxIds(p.data) = {p.ticker} \X (1..Len(p.data))
  /\ \A k \in 1..Len(p.data) :
       k > Len(p.data) - PageSize => \E i \in 1..p.shown : p.data[i].id = <<p.ticker, k>>

Answers == Seq(Transaction) \union {NoHistory}
PlaceNames == {"free", "asked", "answered", "stored", "named", "read"}
Calls == [at : PlaceNames, coin : ShownCoins \union {"none"}, txs : Answers, overtaken : BOOLEAN]
PageRecords == [ticker : ShownCoins, data : Seq(Transaction), shown : Nat, busy : BOOLEAN, failed : BOOLEAN]
PageSound(p) ==
  /\ p \in PageRecords
  /\ p.shown \in 0..Len(p.data)
  /\ p.shown >= Smaller(PageSize, Len(p.data))

TxShapes ==
  /\ txHistory \in [ShownCoins -> Seq(Transaction)]
  /\ txStored \in [TxKeys -> Answers]
  /\ txCalls \in [TxSlots -> Calls]
  /\ \A i \in TxSlots : txCalls[i].at # "free" => txCalls[i].coin \in ShownCoins
  /\ txExcuses \in SUBSET {"raced", "mixed", "crowded"}

\* Nothing is told of another coin.
OfCoin(h, c) == TxIds(h) \subseteq {c} \X (1..MaxTx)
Tells(h, c) == h = NoHistory \/ OfCoin(h, c)

\* A call carries what is of its coin. From the time its answer is stored it is
\* what is stored that is, and from the comparison on its coin is the one shown,
\* unless the call was overtaken.
CallIsOwn(call) ==
  /\ call.at = "answered" => Tells(call.txs, call.coin)
  /\ call.at \in {"stored", "named"} /\ ~call.overtaken => Tells(txStored[TxKey(call.coin)], call.coin)
  /\ call.at \in {"named", "read"} /\ ~call.overtaken => walletPage.ticker = call.coin
  /\ call.at = "read" /\ ~call.overtaken => Tells(call.txs, call.coin)

OwnInv ==
  /\ \A c \in ShownCoins : OfCoin(txHistory[c], c)
  /\ \A i \in TxSlots : CallIsOwn(txCalls[i])

RowsInv == txExcuses = {} => RowsAre(walletPage)
TxInv == TxShapes /\ PageSound(walletPage) /\ Histories /\ RowsInv /\ RowsAreOfTheTicker

-----------------------------------------------------------------------------
LEMMA TxSequence ==
  ASSUME NEW s \in Seq(Transaction)
  PROVE  /\ Len(s) \in Nat /\ DOMAIN s = 1..Len(s) /\ s \in [1..Len(s) -> Transaction]
         /\ \A i \in 1..Len(s) : s[i] \in Transaction /\ s[i].id \in ShownCoins \X (1..MaxTx)
                                 /\ s[i].unconfirmed \in BOOLEAN
<1>1. Len(s) \in Nat /\ DOMAIN s = 1..Len(s) /\ s \in [1..Len(s) -> Transaction]
  BY LenProperties
<1>2. \A i \in 1..Len(s) : s[i] \in Transaction
  BY <1>1
<1> QED BY <1>1, <1>2 DEF Transaction

LEMMA TxIdsAre ==
  ASSUME NEW s \in Seq(Transaction)
  PROVE  /\ \A x : x \in TxIds(s) <=> \E i \in 1..Len(s) : s[i].id = x
         /\ TxIds(s) \subseteq ShownCoins \X (1..MaxTx)
  BY TxSequence DEF TxIds

LEMMA JoinedIs ==
  ASSUME NEW s \in Seq(Transaction), NEW t \in Seq(Transaction)
  PROVE  /\ s \o t \in Seq(Transaction) /\ Len(s \o t) = Len(s) + Len(t)
         /\ \A i \in 1..Len(s) : (s \o t)[i] = s[i]
         /\ \A i \in 1..Len(t) : (s \o t)[Len(s) + i] = t[i]
<1>1. Len(s) \in Nat /\ Len(t) \in Nat
  BY TxSequence
<1>2. /\ s \o t \in Seq(Transaction) /\ Len(s \o t) = Len(s) + Len(t)
      /\ \A i \in 1..Len(s) + Len(t) : (s \o t)[i] = IF i <= Len(s) THEN s[i] ELSE t[i - Len(s)]
  BY ConcatProperties
<1>3. ASSUME NEW i \in 1..Len(s) PROVE (s \o t)[i] = s[i]
  BY <1>1, <1>2
<1>4. ASSUME NEW i \in 1..Len(t) PROVE (s \o t)[Len(s) + i] = t[i]
  <2>1. Len(s) + i \in 1..Len(s) + Len(t) /\ ~(Len(s) + i <= Len(s)) /\ Len(s) + i - Len(s) = i
    BY <1>1
  <2> QED BY <1>2, <2>1
<1> QED BY <1>2, <1>3, <1>4

LEMMA Part ==
  ASSUME NEW s \in Seq(Transaction), NEW m \in Nat \ {0}, NEW n \in Nat, n <= Len(s), m <= n + 1
  PROVE  /\ SubSeq(s, m, n) \in Seq(Transaction) /\ Len(SubSeq(s, m, n)) = n - m + 1
         /\ \A i \in 1..(n - m + 1) : SubSeq(s, m, n)[i] = s[m + i - 1]
<1>1. \A i \in m..n : s[i] \in Transaction
  BY TxSequence
<1>2. m \in Int /\ n \in Int /\ (~(m <= n) => n - m + 1 = 0)
  OBVIOUS
<1>3. /\ SubSeq(s, m, n) \in Seq(Transaction)
      /\ Len(SubSeq(s, m, n)) = IF m <= n THEN n - m + 1 ELSE 0
      /\ \A i \in 1..n - m + 1 : SubSeq(s, m, n)[i] = s[m + i - 1]
  BY <1>1, <1>2, SubSeqProperties
<1> QED BY <1>2, <1>3

LEMMA SmallerIs ==
  ASSUME NEW m \in Int, NEW n \in Int
  PROVE  Smaller(m, n) \in Int /\ Smaller(m, n) <= m /\ Smaller(m, n) <= n /\ (Smaller(m, n) = m \/ Smaller(m, n) = n)
  BY DEF Smaller

LEMMA Successors == \A m, n \in Nat : m <= n => m + 1 <= n + 1
  OBVIOUS

LEMMA SizeIs == PageSize \in Nat \ {0} /\ MaxTx \in Nat
  BY TransactionsAssumption DEF TransactionsAssumption
-----------------------------------------------------------------------------
(* transactions_model: what each of its functions leaves.                  *)

\* A page of which only the rows changed.
Kept(p, q) == q \in PageRecords /\ q.ticker = p.ticker

LEMMA FetchMoreIs ==
  ASSUME NEW p, p \in PageRecords, p.shown \in 0..Len(p.data)
  PROVE  /\ Kept(p, FetchMore(p)) /\ FetchMore(p).data = p.data
         /\ FetchMore(p).shown \in p.shown..Len(p.data)
<1> DEFINE more == Smaller(PageSize, Len(p.data) - p.shown)
<1>1. p.data \in Seq(Transaction) /\ p.shown \in Nat /\ Len(p.data) \in Nat
  BY TxSequence DEF PageRecords
<1>2. more \in Nat /\ more <= Len(p.data) - p.shown
  BY <1>1, SizeIs, SmallerIs DEF Smaller
<1>3. FetchMore(p) = [p EXCEPT !.shown = p.shown + more]
  BY DEF FetchMore
<1>4. p.shown + more \in Nat
  BY <1>1, <1>2
<1> HIDE DEF more
<1>5. FetchMore(p) \in PageRecords /\ FetchMore(p).ticker = p.ticker /\ FetchMore(p).data = p.data
      /\ FetchMore(p).shown = p.shown + more
  BY <1>3, <1>4 DEF PageRecords
<1> QED BY <1>1, <1>2, <1>5 DEF Kept

LEMMA ResetIs ==
  ASSUME NEW p, PageSound(p)
  PROVE  PageSound(Reset(p)) /\ Reset(p).data = <<>> /\ Reset(p).shown = 0 /\ Reset(p).ticker = p.ticker
<1>1. <<>> \in Seq(Transaction) /\ Len(<<>>) = 0
  BY EmptySeq
<1>2. Reset(p) \in PageRecords /\ Reset(p).data = <<>> /\ Reset(p).shown = 0 /\ Reset(p).ticker = p.ticker
  BY <1>1 DEF Reset, PageRecords, PageSound
<1>3. Smaller(PageSize, 0) = 0
  BY SizeIs DEF Smaller
<1> QED BY <1>1, <1>2, <1>3 DEF PageSound

\* The first rows.
LEMMA FirstRows ==
  ASSUME NEW p, PageSound(p), p.data = <<>>, NEW new \in Seq(Transaction)
  PROVE  LET q == InitTransactions(p, new)
         IN  PageSound(q) /\ q.ticker = p.ticker /\ q.data = new /\ q.shown = Smaller(PageSize, Len(new))
<1>1. Len(new) \in Nat
  BY TxSequence
<1>2. Smaller(PageSize, Len(new)) \in 0..Len(new)
  BY <1>1, SizeIs DEF Smaller
<1> DEFINE q == InitTransactions(p, new)
<1>3. q = [p EXCEPT !.data = new, !.shown = Smaller(PageSize, Len(new))]
  BY DEF InitTransactions
<1>4. Smaller(PageSize, Len(new)) \in Nat
  BY <1>2
<1>5. q \in PageRecords /\ q.ticker = p.ticker /\ q.data = new /\ q.shown = Smaller(PageSize, Len(new))
  BY <1>3, <1>4 DEF PageRecords, PageSound
<1>6. Smaller(PageSize, Len(new)) >= Smaller(PageSize, Len(new))
  BY <1>4
<1> QED BY <1>2, <1>5, <1>6 DEF PageSound

\* More rows: none goes away, the new ones are shown and what was shown stays so.
LEMMA MoreRows ==
  ASSUME NEW p, PageSound(p), p.data # <<>>, NEW new \in Seq(Transaction)
  PROVE  LET q == InitTransactions(p, new)
         IN  /\ PageSound(q) /\ q.ticker = p.ticker
             /\ Len(q.data) = Len(p.data) + Len(new)
             /\ TxIds(q.data) = TxIds(p.data) \union TxIds(new)
             /\ \A i \in 1..p.shown : \E j \in 1..q.shown : q.data[j] = p.data[i]
             /\ \A i \in 1..Len(new) : \E j \in 1..q.shown : q.data[j] = new[i]
<1> DEFINE at == Smaller(PageSize, Len(p.data))
           head == SubSeq(p.data, 1, at)
           tail == SubSeq(p.data, at + 1, Len(p.data))
           first == head \o new
           all == first \o tail
           after == [p EXCEPT !.data = all, !.shown = p.shown + Len(new)]
           q == InitTransactions(p, new)
<1>1. /\ p.data \in Seq(Transaction) /\ Len(p.data) \in Nat /\ Len(new) \in Nat /\ p.shown \in Nat
      /\ p.shown <= Len(p.data) /\ at <= p.shown
  BY TxSequence DEF PageSound, PageRecords
<1>2. at \in Nat /\ at <= Len(p.data)
  BY <1>1, SizeIs DEF Smaller
<1> HIDE DEF at
<1>3. /\ head \in Seq(Transaction) /\ Len(head) = at
      /\ \A i \in 1..at : head[i] = p.data[i]
  <2>1. /\ head \in Seq(Transaction) /\ Len(head) = at - 1 + 1
        /\ \A i \in 1..(at - 1 + 1) : head[i] = p.data[1 + i - 1]
    BY <1>1, <1>2, Part
  <2>2. at - 1 + 1 = at /\ \A i \in 1..at : 1 + i - 1 = i
    BY <1>2
  <2> HIDE DEF head
  <2> QED BY <2>1, <2>2
<1>4. /\ tail \in Seq(Transaction) /\ Len(tail) = Len(p.data) - at
      /\ \A i \in 1..(Len(p.data) - at) : tail[i] = p.data[at + i]
  <2>1. at + 1 \in Nat \ {0} /\ at + 1 <= Len(p.data) + 1 /\ Len(p.data) <= Len(p.data)
    BY <1>1, <1>2
  <2>2. /\ tail \in Seq(Transaction) /\ Len(tail) = Len(p.data) - (at + 1) + 1
        /\ \A i \in 1..(Len(p.data) - (at + 1) + 1) : tail[i] = p.data[at + 1 + i - 1]
    BY <1>1, <2>1, Part
  <2>3. Len(p.data) - (at + 1) + 1 = Len(p.data) - at /\ \A i \in 1..(Len(p.data) - at) : at + 1 + i - 1 = at + i
    BY <1>1, <1>2
  <2> HIDE DEF tail
  <2> QED BY <2>2, <2>3
<1> HIDE DEF head, tail
<1>5. /\ first \in Seq(Transaction) /\ Len(first) = at + Len(new)
      /\ \A i \in 1..at : first[i] = p.data[i]
      /\ \A i \in 1..Len(new) : first[at + i] = new[i]
  BY <1>3, JoinedIs
<1> HIDE DEF first
<1>6. /\ all \in Seq(Transaction) /\ Len(all) = at + Len(new) + (Len(p.data) - at)
      /\ \A i \in 1..(at + Len(new)) : all[i] = first[i]
      /\ \A i \in 1..(Len(p.data) - at) : all[at + Len(new) + i] = tail[i]
  <2>1. /\ all \in Seq(Transaction) /\ Len(all) = Len(first) + Len(tail)
        /\ \A i \in 1..Len(first) : all[i] = first[i]
        /\ \A i \in 1..Len(tail) : all[Len(first) + i] = tail[i]
    BY <1>4, <1>5, JoinedIs
  <2> HIDE DEF all
  <2> QED BY <2>1, <1>4, <1>5
<1> HIDE DEF all
<1>7. Len(all) = Len(p.data) + Len(new)
  <2>1. Len(all) = at + Len(new) + (Len(p.data) - at)
    BY <1>6
  <2> QED BY <2>1, <1>1, <1>2
<1>8. /\ \A i \in 1..at : all[i] = p.data[i]
      /\ \A i \in 1..Len(new) : all[at + i] = new[i]
      /\ \A i \in 1..(Len(p.data) - at) : all[at + Len(new) + i] = p.data[at + i]
  <2>1. ASSUME NEW i \in 1..at PROVE all[i] = p.data[i]
    <3>1. i \in 1..(at + Len(new))
      BY <1>1, <1>2
    <3> QED BY <3>1, <1>5, <1>6
  <2>2. ASSUME NEW i \in 1..Len(new) PROVE all[at + i] = new[i]
    <3>1. at + i \in 1..(at + Len(new))
      BY <1>1, <1>2
    <3> QED BY <3>1, <1>5, <1>6
  <2> QED BY <2>1, <2>2, <1>4, <1>6
<1>9. after \in PageRecords /\ after.data = all /\ after.shown = p.shown + Len(new) /\ after.ticker = p.ticker
  <2>1. p.shown + Len(new) \in Nat /\ all \in Seq(Transaction) /\ p \in PageRecords
    BY <1>1, <1>6 DEF PageSound
  <2> QED BY <2>1 DEF PageRecords
<1>10. q = IF Len(after.data) >= PageSize THEN FetchMore(after) ELSE after
  BY <1>1 DEF InitTransactions, at, head, tail, first, all
<1> HIDE DEF after, q
<1>11. after.shown \in 0..Len(after.data)
  BY <1>1, <1>7, <1>9
<1>12. Smaller(PageSize, Len(after.data)) \in Nat /\ Smaller(PageSize, Len(after.data)) <= PageSize
  BY <1>1, <1>7, <1>9, SizeIs DEF Smaller
<1>13. /\ q \in PageRecords /\ q.data = all /\ q.ticker = p.ticker
       /\ q.shown \in (p.shown + Len(new))..Len(all)
  <2>1. CASE Len(after.data) >= PageSize
    <3>2. q = FetchMore(after)
      BY <1>10, <2>1
    <3> QED BY <1>9, <1>11, <3>2, FetchMoreIs DEF Kept
  <2>2. CASE ~(Len(after.data) >= PageSize)
    <3>1. q = after
      BY <1>10, <2>2
    <3>2. p.shown + Len(new) \in (p.shown + Len(new))..Len(all)
      BY <1>1, <1>7
    <3> QED BY <1>9, <3>1, <3>2
  <2> QED BY <2>1, <2>2
<1>14. q.shown >= Smaller(PageSize, Len(all))
  <2>1. CASE PageSize < Len(p.data)
    <3>1. at = PageSize
      BY <2>1 DEF at, Smaller
    <3>2. Smaller(PageSize, Len(all)) <= PageSize
      BY <1>9, <1>12
    <3> QED BY <3>1, <3>2, <1>1, <1>9, <1>12, <1>13, SizeIs
  <2>2. CASE ~(PageSize < Len(p.data))
    <3>1. at = Len(p.data)
      BY <2>2 DEF at, Smaller
    <3>2. Smaller(PageSize, Len(all)) <= Len(all)
      BY <1>1, <1>7, SizeIs DEF Smaller
    <3> QED BY <3>1, <3>2, <1>1, <1>7, <1>9, <1>12, <1>13
  <2> QED BY <2>1, <2>2
<1>15. PageSound(q)
  <2>1. q.shown \in 0..Len(q.data)
    BY <1>1, <1>13
  <2> QED BY <2>1, <1>13, <1>14 DEF PageSound
<1>16. \A i \in 1..Len(p.data) : \E j \in 1..Len(all) : all[j] = p.data[i] /\ (i <= p.shown => j <= p.shown + Len(new))
  <2> SUFFICES ASSUME NEW i \in 1..Len(p.data)
               PROVE  \E j \in 1..Len(all) : all[j] = p.data[i] /\ (i <= p.shown => j <= p.shown + Len(new))
    OBVIOUS
  <2>1. CASE i <= at
    <3>1. i \in 1..at /\ i \in 1..Len(all) /\ i <= p.shown + Len(new)
      BY <2>1, <1>1, <1>2, <1>7
    <3> QED BY <3>1, <1>8
  <2>2. CASE ~(i <= at)
    <3> DEFINE k == i - at
    <3>1. /\ k \in 1..(Len(p.data) - at) /\ at + k = i
          /\ at + Len(new) + k \in 1..Len(all)
          /\ (i <= p.shown => at + Len(new) + k <= p.shown + Len(new))
      BY <2>2, <1>1, <1>2, <1>7
    <3> HIDE DEF k
    <3> QED BY <3>1, <1>8
  <2> QED BY <2>1, <2>2
<1>17. \A i \in 1..Len(new) : \E j \in 1..q.shown : all[j] = new[i]
  <2> SUFFICES ASSUME NEW i \in 1..Len(new) PROVE \E j \in 1..q.shown : all[j] = new[i]
    OBVIOUS
  <2>1. at + i \in 1..q.shown
    BY <1>1, <1>2, <1>13
  <2> QED BY <2>1, <1>8
<1>18. \A i \in 1..p.shown : \E j \in 1..q.shown : all[j] = p.data[i]
  <2> SUFFICES ASSUME NEW i \in 1..p.shown PROVE \E j \in 1..q.shown : all[j] = p.data[i]
    OBVIOUS
  <2>1. i \in 1..Len(p.data) /\ i <= p.shown
    BY <1>1
  <2>2. PICK j \in 1..Len(all) : all[j] = p.data[i] /\ j <= p.shown + Len(new)
    BY <1>16, <2>1
  <2>3. j \in 1..q.shown
    BY <2>2, <1>1, <1>7, <1>13
  <2> QED BY <2>2, <2>3
<1>19. \A j \in 1..Len(all) : (\E i \in 1..Len(p.data) : all[j] = p.data[i]) \/ (\E i \in 1..Len(new) : all[j] = new[i])
  <2> SUFFICES ASSUME NEW j \in 1..Len(all)
               PROVE  (\E i \in 1..Len(p.data) : all[j] = p.data[i]) \/ (\E i \in 1..Len(new) : all[j] = new[i])
    OBVIOUS
  <2>1. CASE j <= at
    <3>1. j \in 1..at /\ j \in 1..Len(p.data)
      BY <2>1, <1>1, <1>2, <1>7
    <3> QED BY <3>1, <1>8
  <2>2. CASE ~(j <= at) /\ j <= at + Len(new)
    <3> DEFINE i == j - at
    <3>1. i \in 1..Len(new) /\ at + i = j
      BY <2>2, <1>1, <1>2, <1>7
    <3> HIDE DEF i
    <3> QED BY <3>1, <1>8
  <2>3. CASE ~(j <= at + Len(new))
    <3> DEFINE i == j - at - Len(new)
    <3>1. i \in 1..(Len(p.data) - at) /\ at + Len(new) + i = j /\ at + i \in 1..Len(p.data)
      BY <2>3, <1>1, <1>2, <1>7
    <3> HIDE DEF i
    <3> QED BY <3>1, <1>8
  <2> QED BY <2>1, <2>2, <2>3, <1>1, <1>2
<1>20. TxIds(all) = TxIds(p.data) \union TxIds(new)
  <2>1. ASSUME NEW x \in TxIds(all) PROVE x \in TxIds(p.data) \union TxIds(new)
    <3>1. PICK j \in 1..Len(all) : all[j].id = x
      BY <1>6, TxIdsAre
    <3>2. (\E i \in 1..Len(p.data) : all[j] = p.data[i]) \/ (\E i \in 1..Len(new) : all[j] = new[i])
      BY <1>19
    <3>3. (\E i \in 1..Len(p.data) : p.data[i].id = x) \/ (\E i \in 1..Len(new) : new[i].id = x)
      BY <3>1, <3>2
    <3> QED BY <1>1, <3>3, TxIdsAre
  <2>2. ASSUME NEW x \in TxIds(p.data) PROVE x \in TxIds(all)
    <3>1. PICK i \in 1..Len(p.data) : p.data[i].id = x
      BY <1>1, TxIdsAre
    <3>2. PICK j \in 1..Len(all) : all[j] = p.data[i]
      BY <1>16
    <3> QED BY <1>6, <3>1, <3>2, TxIdsAre
  <2>3. ASSUME NEW x \in TxIds(new) PROVE x \in TxIds(all)
    <3>1. PICK i \in 1..Len(new) : new[i].id = x
      BY TxIdsAre
    <3>2. PICK j \in 1..q.shown : all[j] = new[i]
      BY <1>17
    <3>3. j \in 1..Len(all)
      BY <1>1, <1>7, <1>13
    <3> QED BY <1>6, <3>1, <3>2, <3>3, TxIdsAre
  <2> QED BY <2>1, <2>2, <2>3
<1> QED BY <1>7, <1>13, <1>15, <1>17, <1>18, <1>20 DEF q

\* An update changes what rows say, not which transactions they are of.
LEMMA UpdateIs ==
  ASSUME NEW p, PageSound(p), NEW txs \in Seq(Transaction)
  PROVE  LET q == UpdateTransactions(p, txs)
         IN  /\ PageSound(q) /\ q.ticker = p.ticker /\ q.shown = p.shown
             /\ Len(q.data) = Len(p.data) /\ \A i \in 1..Len(p.data) : q.data[i].id = p.data[i].id
<1> DEFINE new == [i \in DOMAIN p.data |->
                     IF i <= p.shown /\ IsFirstRow(p, i) /\ p.data[i].id \in TxIds(txs)
                     THEN CHOOSE tx \in Range(txs) : tx.id = p.data[i].id
                     ELSE p.data[i]]
           q == UpdateTransactions(p, txs)
<1>1. p.data \in Seq(Transaction) /\ Len(p.data) \in Nat /\ DOMAIN p.data = 1..Len(p.data)
      /\ \A i \in 1..Len(p.data) : p.data[i] \in Transaction
  BY TxSequence DEF PageSound, PageRecords
<1>2. ASSUME NEW i \in 1..Len(p.data) PROVE new[i] \in Transaction /\ new[i].id = p.data[i].id
  <2>1. CASE i <= p.shown /\ IsFirstRow(p, i) /\ p.data[i].id \in TxIds(txs)
    <3>1. PICK j \in 1..Len(txs) : txs[j].id = p.data[i].id
      BY <2>1, TxIdsAre
    <3>2. /\ Range(txs) = {txs[k] : k \in 1..Len(txs)}
          /\ \A k \in 1..Len(txs) : txs[k] \in Transaction
      BY TxSequence DEF Range
    <3>3. \A tx \in Range(txs) : tx \in Transaction
      BY <3>2
    <3>4. \E tx \in Range(txs) : tx.id = p.data[i].id
      BY <3>1, <3>2
    <3>5. new[i] = CHOOSE tx \in Range(txs) : tx.id = p.data[i].id
      BY <1>1, <2>1
    <3> HIDE DEF new
    <3> QED BY <3>3, <3>4, <3>5
  <2>2. CASE ~(i <= p.shown /\ IsFirstRow(p, i) /\ p.data[i].id \in TxIds(txs))
    BY <1>1, <2>2
  <2> QED BY <2>1, <2>2
<1>3. new \in [1..Len(p.data) -> Transaction]
  <2>1. DOMAIN new = 1..Len(p.data) /\ new = [i \in DOMAIN new |-> new[i]]
    BY <1>1
  <2> HIDE DEF new
  <2> QED BY <1>2, <2>1
<1>4. q = [p EXCEPT !.data = new]
  BY DEF UpdateTransactions
<1> HIDE DEF new, q
<1>5. new \in Seq(Transaction) /\ Len(new) = Len(p.data)
  BY <1>1, <1>3, SeqOfFunction
<1>6. q \in PageRecords /\ q.ticker = p.ticker /\ q.shown = p.shown /\ q.data = new
  BY <1>4, <1>5 DEF PageSound, PageRecords
<1>7. PageSound(q)
  BY <1>5, <1>6 DEF PageSound
<1> QED BY <1>2, <1>5, <1>6, <1>7 DEF q

\* The places in an answer of what waits and is not shown.
Waits(p, txs) == {i \in 1..Len(txs) : (\A j \in 1..i : txs[j].unconfirmed) /\ ~IsShown(p, txs[i])}

LEMMA MissingIs ==
  ASSUME NEW p, NEW txs \in Seq(Transaction)
  PROVE  /\ Missing(p, txs) \in Seq(Transaction) /\ Len(Missing(p, txs)) = Cardinality(Waits(p, txs))
         /\ \A k \in 1..Len(Missing(p, txs)) : \E i \in Waits(p, txs) : Missing(p, txs)[k] = txs[i]
         /\ \A i \in Waits(p, txs) : \E k \in 1..Len(Missing(p, txs)) : Missing(p, txs)[k] = txs[i]
<1> DEFINE at == Waits(p, txs)
           m == Missing(p, txs)
<1>1. m = SelectAt(txs, at)
  BY TxSequence DEF Missing, Waits
<1>2. at \in SUBSET (1..Len(txs))
  BY DEF Waits
<1> HIDE DEF m, at
<1>3. /\ m \in Seq(Transaction) /\ Len(m) = Cardinality(at)
      /\ \E t : Takes(t, m, txs, at)
  BY <1>1, <1>2, SelectAtIs
<1>4. /\ \A k \in 1..Len(m) : \E i \in at : m[k] = txs[i]
      /\ \A i \in at : \E k \in 1..Len(m) : m[k] = txs[i]
  <2>1. PICK t : Takes(t, m, txs, at)
    BY <1>3
  <2> QED BY <2>1 DEF Takes
<1> QED BY <1>3, <1>4 DEF m, at

\* The rows that update_or_insert_transactions adds.
ToInit(p, txs) ==
  IF Len(txs) = Len(p.data) THEN <<>>
  ELSE IF Missing(p, txs) # <<>> THEN Missing(p, txs) ELSE SubSeq(txs, 1, Len(txs) - Len(p.data))

LEMMA ToInitIs ==
  ASSUME NEW p, PageSound(p), NEW txs \in Seq(Transaction), Len(txs) >= Len(p.data)
  PROVE  /\ ToInit(p, txs) \in Seq(Transaction)
         /\ \A k \in 1..Len(ToInit(p, txs)) : \E i \in 1..Len(txs) : ToInit(p, txs)[k] = txs[i]
         /\ Len(txs) > Len(p.data) => ToInit(p, txs) # <<>>
<1> DEFINE n == Len(txs) - Len(p.data)
           s == SubSeq(txs, 1, n)
           m == Missing(p, txs)
<1>1. Len(p.data) \in Nat /\ Len(txs) \in Nat
  BY TxSequence DEF PageSound, PageRecords
<1>2. n \in Nat /\ n <= Len(txs) /\ n - 1 + 1 = n
  BY <1>1
<1>3. /\ s \in Seq(Transaction) /\ Len(s) = n
      /\ \A k \in 1..n : s[k] = txs[k]
  <2>1. /\ s \in Seq(Transaction) /\ Len(s) = n - 1 + 1
        /\ \A k \in 1..(n - 1 + 1) : s[k] = txs[1 + k - 1]
    <3> HIDE DEF n
    <3>1. 1 \in Nat \ {0} /\ 1 <= n + 1
      BY <1>2
    <3> QED BY <1>2, <3>1, Part
  <2>2. \A k \in 1..n : 1 + k - 1 = k
    BY <1>2
  <2> HIDE DEF s, n
  <2> QED BY <1>2, <2>1, <2>2
<1>4. /\ m \in Seq(Transaction)
      /\ \A k \in 1..Len(m) : \E i \in 1..Len(txs) : m[k] = txs[i]
  <2>1. m \in Seq(Transaction) /\ \A k \in 1..Len(m) : \E i \in Waits(p, txs) : m[k] = txs[i]
    BY MissingIs
  <2>2. \A i \in Waits(p, txs) : i \in 1..Len(txs)
    BY DEF Waits
  <2> HIDE DEF m
  <2> QED BY <2>1, <2>2
<1>5. <<>> \in Seq(Transaction) /\ Len(<<>>) = 0
  BY EmptySeq
<1>6. ToInit(p, txs) = IF Len(txs) = Len(p.data) THEN <<>> ELSE IF m # <<>> THEN m ELSE s
  BY DEF ToInit
<1>7. \A k \in 1..n : k \in 1..Len(txs)
  BY <1>1, <1>2
<1>8. Len(txs) > Len(p.data) => Len(s) # 0
  BY <1>1, <1>3
<1> HIDE DEF s, m, n
<1>9. CASE Len(txs) = Len(p.data)
  BY <1>1, <1>5, <1>6, <1>9
<1>10. CASE Len(txs) # Len(p.data) /\ m # <<>>
  BY <1>4, <1>6, <1>10
<1>11. CASE Len(txs) # Len(p.data) /\ m = <<>>
  BY <1>3, <1>5, <1>6, <1>7, <1>8, <1>11
<1> QED BY <1>9, <1>10, <1>11

Added(p, txs) == IF Len(txs) < Len(p.data) THEN <<>> ELSE ToInit(p, txs)

\* A page with the rows it had, whatever they say, and some more.
Extends(p, q, new) ==
  /\ PageSound(q) /\ q.ticker = p.ticker
  /\ new \in Seq(Transaction)
  /\ Len(q.data) = Len(p.data) + Len(new)
  /\ TxIds(q.data) = TxIds(p.data) \union TxIds(new)
  /\ \A i \in 1..p.shown : \E j \in 1..q.shown : q.data[j].id = p.data[i].id
  /\ \A i \in 1..Len(new) : \E j \in 1..q.shown : q.data[j].id = new[i].id

LEMMA TakenIs ==
  ASSUME NEW p, PageSound(p), p.data # <<>>, NEW txs \in Seq(Transaction)
  PROVE  Extends(p, UpdateOrInsertTransactions(p, txs), Added(p, txs))
<1> DEFINE diff == Len(txs) - Len(p.data)
           rest == SubSeq(txs, diff + 1, Len(txs))
           updated == UpdateTransactions(p, rest)
           q == UpdateOrInsertTransactions(p, txs)
           new == Added(p, txs)
<1>1. p.data \in Seq(Transaction) /\ Len(p.data) \in Nat /\ Len(txs) \in Nat /\ p.shown \in 0..Len(p.data)
  BY TxSequence DEF PageSound, PageRecords
<1>2. <<>> \in Seq(Transaction) /\ Len(<<>>) = 0 /\ TxIds(<<>>) = {}
  <2>1. <<>> \in Seq(Transaction) /\ Len(<<>>) = 0
    BY EmptySeq
  <2>2. TxIds(<<>>) = {}
    BY DEF TxIds
  <2> QED BY <2>1, <2>2
<1>3. CASE Len(txs) < Len(p.data)
  <2>1. diff < 0
    BY <1>1, <1>3
  <2>2. q = p
    BY <2>1 DEF UpdateOrInsertTransactions
  <2>3. new = <<>>
    BY <1>3 DEF Added
  <2>4. \A i \in 1..p.shown : p.data[i].id = p.data[i].id
    OBVIOUS
  <2> HIDE DEF q, new
  <2>5. Extends(p, p, <<>>)
    <3>1. TxIds(p.data) = TxIds(p.data) \union {} /\ Len(p.data) = Len(p.data) + 0
      BY <1>1
    <3>2. \A i \in 1..0 : FALSE
      OBVIOUS
    <3> QED BY <1>2, <3>1, <3>2 DEF Extends
  <2> QED BY <2>2, <2>3, <2>5 DEF q, new
<1>4. CASE ~(Len(txs) < Len(p.data))
  <2>1. diff \in Nat /\ diff + 1 \in Nat \ {0} /\ diff + 1 <= Len(txs) + 1 /\ Len(txs) <= Len(txs) /\ ~(diff < 0)
        /\ (diff = 0 <=> Len(txs) = Len(p.data)) /\ Len(txs) >= Len(p.data)
    <3> HIDE DEF q, new, updated, rest, diff
    <3>1. Len(txs) \in Nat /\ Len(p.data) \in Nat /\ ~(Len(txs) < Len(p.data)) /\ diff = Len(txs) - Len(p.data)
      BY <1>1, <1>4 DEF diff
    <3>2. diff \in Nat
      BY ONLY <3>1
    <3>3. diff + 1 \in Nat \ {0} /\ ~(diff < 0)
      BY ONLY <3>2
    <3>4. Len(txs) <= Len(txs) /\ Len(txs) >= Len(p.data)
      BY ONLY <3>1
    <3>6. diff <= Len(txs)
      BY ONLY <3>1
    <3>7. diff + 1 <= Len(txs) + 1
      BY ONLY <3>1, <3>2, <3>6, Successors
    <3>5. diff = 0 <=> Len(txs) = Len(p.data)
      BY ONLY <3>1
    <3> QED BY <3>2, <3>3, <3>4, <3>5, <3>7
  <2>2. rest \in Seq(Transaction)
    <3> HIDE DEF diff
    <3> QED BY <1>1, <2>1, Part
  <2>3. new = ToInit(p, txs)
    BY <1>4 DEF Added
  <2>4. q = IF new = <<>> THEN updated ELSE InitTransactions(updated, new)
    BY <2>1, <2>3 DEF UpdateOrInsertTransactions, ToInit
  <2>5. new \in Seq(Transaction)
    BY <2>1, <2>3, ToInitIs
  <2> HIDE DEF rest
  <2>6. /\ PageSound(updated) /\ updated.ticker = p.ticker /\ updated.shown = p.shown
        /\ Len(updated.data) = Len(p.data) /\ \A i \in 1..Len(p.data) : updated.data[i].id = p.data[i].id
    BY <2>2, UpdateIs
  <2> HIDE DEF updated, new, q
  <2>7. updated.data \in Seq(Transaction)
    BY <2>6 DEF PageSound, PageRecords
  <2>8. updated.data # <<>>
    <3>1. Len(p.data) # 0
      BY <1>1, EmptySeq
    <3> QED BY <3>1, <2>6, <1>2
  <2>9. TxIds(updated.data) = TxIds(p.data)
    <3>1. \A x : x \in TxIds(updated.data) <=> \E i \in 1..Len(updated.data) : updated.data[i].id = x
      BY <2>7, TxIdsAre
    <3>2. \A x : x \in TxIds(p.data) <=> \E i \in 1..Len(p.data) : p.data[i].id = x
      BY <1>1, TxIdsAre
    <3>3. \A x : x \in TxIds(updated.data) <=> x \in TxIds(p.data)
      BY <3>1, <3>2, <2>6
    <3> QED BY <3>3
  <2>10. \A i \in 1..p.shown : i \in 1..Len(p.data)
    BY <1>1
  <2>11. CASE new = <<>>
    <3>1. q = updated
      BY <2>4, <2>11
    <3>2. \A i \in 1..p.shown : \E j \in 1..q.shown : q.data[j].id = p.data[i].id
      BY <3>1, <2>6, <2>10
    <3>3. TxIds(q.data) = TxIds(p.data) \union TxIds(new) /\ Len(q.data) = Len(p.data) + Len(new)
      BY <1>1, <1>2, <2>6, <2>9, <2>11, <3>1
    <3>4. \A i \in 1..Len(new) : FALSE
      BY <1>2, <2>11
    <3>5. Extends(p, q, new)
      BY <2>5, <2>6, <3>1, <3>2, <3>3, <3>4 DEF Extends
    <3> QED BY <3>5 DEF q, new
  <2>12. CASE new # <<>>
    <3>1. q = InitTransactions(updated, new)
      BY <2>4, <2>12
    <3>2. /\ PageSound(q) /\ q.ticker = updated.ticker
          /\ Len(q.data) = Len(updated.data) + Len(new)
          /\ TxIds(q.data) = TxIds(updated.data) \union TxIds(new)
          /\ \A i \in 1..updated.shown : \E j \in 1..q.shown : q.data[j] = updated.data[i]
          /\ \A i \in 1..Len(new) : \E j \in 1..q.shown : q.data[j] = new[i]
      BY <2>5, <2>6, <2>8, <3>1, MoreRows
    <3>3. \A i \in 1..p.shown : \E j \in 1..q.shown : q.data[j].id = p.data[i].id
      BY <3>2, <2>6, <2>10
    <3>4. \A i \in 1..Len(new) : \E j \in 1..q.shown : q.data[j].id = new[i].id
      BY <3>2
    <3>5. Extends(p, q, new)
      BY <2>5, <2>6, <2>9, <3>2, <3>3, <3>4 DEF Extends
    <3> QED BY <3>5 DEF q, new
  <2> QED BY <2>11, <2>12
<1> QED BY <1>3, <1>4

-----------------------------------------------------------------------------
(* Whose the rows are.                                                     *)

\* The page has a row of another coin.
LEMMA NoRowsAre == ASSUME NEW p, p.data = <<>> PROVE RowsAre(p)
<1>1. Len(p.data) = 0 /\ TxIds(p.data) = {}
  BY EmptySeq DEF TxIds
<1>2. 1..0 = {}
  OBVIOUS
<1> QED BY <1>1, <1>2 DEF RowsAre

LEMMA HistoryIds ==
  ASSUME NEW h \in Seq(Transaction), NEW c, IsHistory(h, c)
  PROVE  TxIds(h) = {c} \X (1..Len(h))
<1>1. Len(h) \in Nat
  BY TxSequence
<1>2. ASSUME NEW x \in TxIds(h) PROVE x \in {c} \X (1..Len(h))
  <2>1. PICK i \in 1..Len(h) : h[i].id = x
    BY TxIdsAre
  <2>2. x = <<c, Len(h) + 1 - i>> /\ Len(h) + 1 - i \in 1..Len(h)
    <3>1. h[i].id = <<c, Len(h) + 1 - i>>
      BY DEF IsHistory
    <3>2. Len(h) + 1 - i \in 1..Len(h)
      BY <1>1
    <3> QED BY <2>1, <3>1, <3>2
  <2> QED BY <2>2
<1>3. ASSUME NEW k \in 1..Len(h) PROVE <<c, k>> \in TxIds(h)
  <2> DEFINE i == Len(h) + 1 - k
  <2>1. i \in 1..Len(h) /\ Len(h) + 1 - i = k
    BY <1>1
  <2> HIDE DEF i
  <2>2. h[i].id = <<c, k>>
    BY <2>1 DEF IsHistory
  <2> QED BY <2>1, <2>2, TxIdsAre
<1>4. ASSUME NEW x \in {c} \X (1..Len(h)) PROVE x \in TxIds(h)
  <2>1. PICK k \in 1..Len(h) : x = <<c, k>>
    OBVIOUS
  <2> QED BY <1>3, <2>1
<1> QED BY <1>2, <1>4

LEMMA FirstAre ==
  ASSUME NEW p, PageSound(p), p.data = <<>>, NEW txs \in Seq(Transaction), NEW c, IsHistory(txs, c)
  PROVE  RowsAre(InitTransactions(p, txs)) \/ Strangers(InitTransactions(p, txs))
<1> DEFINE q == InitTransactions(p, txs)
<1>1. q.ticker = p.ticker /\ q.data = txs /\ q.shown = Smaller(PageSize, Len(txs))
  BY FirstRows
<1>2. Len(txs) \in Nat /\ TxIds(txs) = {c} \X (1..Len(txs))
  BY TxSequence, HistoryIds
<1> HIDE DEF q
<1>3. CASE txs = <<>>
  BY <1>1, <1>3, NoRowsAre DEF q
<1>4. CASE txs # <<>> /\ c # p.ticker
  <2>1. 1 \in 1..Len(txs)
    BY <1>2, <1>4, EmptySeq
  <2>2. <<c, 1>> \in TxIds(txs)
    BY <1>2, <2>1
  <2>3. <<c, 1>> \notin {p.ticker} \X (1..MaxTx)
    BY <1>4
  <2>4. Strangers(q)
    BY <1>1, <2>2, <2>3 DEF Strangers
  <2> QED BY <2>4 DEF q
<1>5. CASE c = p.ticker
  <2>1. ASSUME NEW k \in 1..Len(txs), k > Len(txs) - PageSize
        PROVE  \E i \in 1..q.shown : txs[i].id = <<c, k>>
    <3> DEFINE i == Len(txs) + 1 - k
    <3>1. i \in 1..Len(txs) /\ i <= PageSize /\ Len(txs) + 1 - i = k
      BY <1>2, <2>1, SizeIs
    <3> HIDE DEF i
    <3>2. i \in 1..q.shown
      BY <1>1, <1>2, <3>1, SizeIs DEF Smaller
    <3>3. txs[i].id = <<c, k>>
      BY <3>1 DEF IsHistory
    <3> QED BY <3>2, <3>3
  <2>2. RowsAre(q)
    BY <1>1, <1>2, <1>5, <2>1 DEF RowsAre
  <2> QED BY <2>2 DEF q
<1> QED BY <1>3, <1>4, <1>5

\* What is added is what is new, and all of it.
LEMMA AddedAre ==
  ASSUME NEW p, PageSound(p), p.data # <<>>, RowsAre(p),
         NEW txs \in Seq(Transaction), IsHistory(txs, p.ticker), ~SomeWait(p, txs),
         Len(txs) > Len(p.data)
  PROVE  /\ Len(Added(p, txs)) = Len(txs) - Len(p.data)
         /\ \A k \in 1..Len(Added(p, txs)) : \E i \in 1..(Len(txs) - Len(p.data)) : Added(p, txs)[k] = txs[i]
         /\ \A i \in 1..(Len(txs) - Len(p.data)) : \E k \in 1..Len(Added(p, txs)) : Added(p, txs)[k] = txs[i]
<1> DEFINE t == p.ticker
           m == Len(p.data)
           n == Len(txs)
           d == n - m
           new == Added(p, txs)
           W == Waits(p, txs)
           M == Missing(p, txs)
           S == SubSeq(txs, 1, d)
<1>1. p.data \in Seq(Transaction) /\ m \in Nat /\ n \in Nat /\ n > m /\ p.shown \in 0..m
  BY TxSequence DEF PageSound, PageRecords
<1>2. d \in Nat /\ d >= 1 /\ d <= n /\ d = n - m
  BY <1>1
<1>3. p.shown > 0
  <2>1. m # 0
    BY <1>1, EmptySeq
  <2>2. Smaller(PageSize, m) > 0
    BY <1>1, <2>1, SizeIs DEF Smaller
  <2>3. p.shown >= Smaller(PageSize, m) /\ p.shown \in Int /\ Smaller(PageSize, m) \in Int
    <3>1. PageSize \in Int /\ m \in Int /\ p.shown \in Int /\ p.shown >= Smaller(PageSize, m)
      BY <1>1, SizeIs DEF PageSound
    <3>2. Smaller(PageSize, m) \in Int
      BY <3>1, SmallerIs
    <3> QED BY <3>1, <3>2
  <2> QED BY <2>2, <2>3
<1>4. new = IF M # <<>> THEN M ELSE S
  BY <1>1 DEF Added, ToInit
<1>5. \A i \in 1..n : txs[i].id = <<t, n + 1 - i>>
  BY DEF IsHistory
<1>6. TxIds(p.data) = {t} \X (1..m)
  BY DEF RowsAre
<1>7. DOMAIN txs = 1..n
  BY TxSequence
<1>8. M \in Seq(Transaction) /\ Len(M) = Cardinality(W)
      /\ (\A k \in 1..Len(M) : \E i \in W : M[k] = txs[i])
      /\ (\A i \in W : \E k \in 1..Len(M) : M[k] = txs[i])
  BY MissingIs
<1> HIDE DEF new, M, S, d, W
<1>9. \A i \in 1..n : txs[i].id \notin TxIds(p.data) <=> i <= d
  <2> SUFFICES ASSUME NEW i \in 1..n PROVE txs[i].id \notin TxIds(p.data) <=> i <= d
    OBVIOUS
  <2>1. n + 1 - i \in 1..m <=> ~(i <= d)
    BY <1>1, <1>2
  <2>2. <<t, n + 1 - i>> \in {t} \X (1..m) <=> n + 1 - i \in 1..m
    OBVIOUS
  <2>3. txs[i].id = <<t, n + 1 - i>>
    BY <1>5
  <2> QED BY <1>6, <2>1, <2>2, <2>3
<1>10. \A i \in 1..d : i \in 1..n /\ txs[i].id \notin TxIds(p.data)
  BY <1>1, <1>2, <1>9
<1>11. (\A i \in 1..d : txs[i].unconfirmed) \/ (\A i \in 1..d : ~txs[i].unconfirmed)
  <2> SUFFICES ASSUME NEW i \in 1..d, NEW j \in 1..d, txs[i].unconfirmed, ~txs[j].unconfirmed PROVE FALSE
    OBVIOUS
  <2>1. /\ i \in {k \in DOMAIN txs : txs[k].id \notin TxIds(p.data)}
        /\ j \in {k \in DOMAIN txs : txs[k].id \notin TxIds(p.data)}
    BY <1>7, <1>10
  <2> QED BY <1>3, <2>1 DEF SomeWait
<1>12. \A x : x \in TxIds(p.data) <=> \E i \in 1..m : p.data[i].id = x
  BY <1>1, TxIdsAre
<1>13. CASE \A i \in 1..d : txs[i].unconfirmed
  <2>1. ASSUME NEW i \in 1..d PROVE i \in W
    <3>1. \A j \in 1..i : j \in 1..d
      BY <1>2
    <3>2. ~IsShown(p, txs[i])
      <4>1. SUFFICES ASSUME NEW j \in 1..p.shown, p.data[j].id = txs[i].id PROVE FALSE
        BY DEF IsShown
      <4>2. j \in 1..m
        BY <1>1
      <4> QED BY <1>10, <1>12, <4>1, <4>2
    <3> QED BY <1>10, <1>13, <3>1, <3>2 DEF W, Waits
  <2>2. ASSUME NEW i \in W PROVE i \in 1..d
    <3>1. i \in 1..n /\ txs[i].unconfirmed /\ ~IsShown(p, txs[i])
      <4>1. i \in 1..n /\ (\A j \in 1..i : txs[j].unconfirmed) /\ ~IsShown(p, txs[i])
        BY <2>2 DEF W, Waits
      <4>2. i \in 1..i
        BY <4>1
      <4> QED BY <4>1, <4>2
    <3>2. i <= PageSize
      BY <3>1 DEF IsHistory
    <3>3. SUFFICES ASSUME ~(i <= d) PROVE FALSE
      BY <3>1, <1>1, <1>2
    <3> DEFINE k == n + 1 - i
    <3>4. k \in 1..m /\ k > m - PageSize /\ n + 1 - i = k
      BY <1>1, <1>2, <3>1, <3>2, <3>3, SizeIs
    <3> HIDE DEF k
    <3>5. PICK j \in 1..p.shown : p.data[j].id = <<t, k>>
      BY <3>4 DEF RowsAre
    <3>6. txs[i].id = <<t, k>>
      BY <1>5, <3>1, <3>4
    <3> QED BY <3>1, <3>5, <3>6 DEF IsShown
  <2>3. W = 1..d
    BY <2>1, <2>2
  <2>4. Cardinality(W) = d
    <3>1. 1 \in Int /\ d \in Int /\ ~(1 > d) /\ d - 1 + 1 = d
      BY <1>2
    <3>2. Cardinality(1..d) = IF 1 > d THEN 0 ELSE d - 1 + 1
      BY <3>1, FS_Interval
    <3> QED BY <2>3, <3>1, <3>2
  <2>5. M # <<>>
    BY <1>2, <1>8, <2>4, EmptySeq
  <2>6. new = M
    BY <1>4, <2>5
  <2> QED BY <1>8, <2>3, <2>4, <2>6 DEF new, d
<1>14. CASE \A i \in 1..d : ~txs[i].unconfirmed
  <2>1. ~txs[1].unconfirmed
    BY <1>2, <1>14
  <2>2. W = {}
    <3> SUFFICES ASSUME NEW i \in W PROVE FALSE
      OBVIOUS
    <3>1. i \in 1..n /\ \A j \in 1..i : txs[j].unconfirmed
      BY DEF W, Waits
    <3>2. 1 \in 1..i
      BY <3>1
    <3> QED BY <2>1, <3>1, <3>2
  <2>3. Len(M) = 0
    BY <1>8, <2>2, FS_EmptySet
  <2>4. M = <<>>
    BY <1>8, <2>3, EmptySeq
  <2>5. new = S
    BY <1>4, <2>4
  <2>6. Len(S) = d /\ \A i \in 1..d : S[i] = txs[i]
    <3>1. 1 \in Nat \ {0} /\ d \in Nat /\ d <= Len(txs) /\ 1 <= d + 1
      BY <1>1, <1>2
    <3>2. Len(S) = d - 1 + 1 /\ \A i \in 1..(d - 1 + 1) : S[i] = txs[1 + i - 1]
      BY <3>1, Part DEF S
    <3>3. d - 1 + 1 = d /\ \A i \in 1..d : 1 + i - 1 = i
      BY <1>2
    <3> QED BY <3>2, <3>3
  <2> QED BY <2>5, <2>6 DEF new, d
<1> QED BY <1>11, <1>13, <1>14

LEMMA TakenAre ==
  ASSUME NEW p, PageSound(p), p.data # <<>>, RowsAre(p),
         NEW txs \in Seq(Transaction), NEW c, IsHistory(txs, c), ~SomeWait(p, txs)
  PROVE  \/ RowsAre(UpdateOrInsertTransactions(p, txs))
         \/ Strangers(UpdateOrInsertTransactions(p, txs))
<1> DEFINE q == UpdateOrInsertTransactions(p, txs)
           new == Added(p, txs)
           t == p.ticker
           m == Len(p.data)
           n == Len(txs)
<1>1. Extends(p, q, new)
  BY TakenIs
<1>2. p.data \in Seq(Transaction) /\ m \in Nat /\ n \in Nat /\ new \in Seq(Transaction)
  BY <1>1, TxSequence DEF PageSound, PageRecords, Extends
<1>3. TxIds(p.data) = {t} \X (1..m)
      /\ \A k \in 1..m : k > m - PageSize => \E i \in 1..p.shown : p.data[i].id = <<t, k>>
  BY DEF RowsAre
<1>4. /\ q.ticker = t /\ Len(q.data) = m + Len(new)
      /\ TxIds(q.data) = TxIds(p.data) \union TxIds(new)
      /\ \A i \in 1..p.shown : \E j \in 1..q.shown : q.data[j].id = p.data[i].id
      /\ \A i \in 1..Len(new) : \E j \in 1..q.shown : q.data[j].id = new[i].id
  BY <1>1 DEF Extends
<1>5. \A k \in 1..m : k > m - PageSize => \E j \in 1..q.shown : q.data[j].id = <<t, k>>
  BY <1>3, <1>4
<1>6. n <= m => new = <<>>
  BY <1>2 DEF Added, ToInit
<1>7. n > m => new # <<>> /\ \A k \in 1..Len(new) : \E i \in 1..n : new[k] = txs[i]
  <2> SUFFICES ASSUME n > m PROVE new # <<>> /\ \A k \in 1..Len(new) : \E i \in 1..n : new[k] = txs[i]
    OBVIOUS
  <2>1. n >= m /\ ~(n < m)
    BY <1>2
  <2>2. new = ToInit(p, txs)
    BY <2>1 DEF Added
  <2> QED BY <2>1, <2>2, ToInitIs
<1> HIDE DEF q
<1>8. CASE n <= m
  <2>1. new = <<>>
    BY <1>6, <1>8
  <2>2. Len(new) = 0 /\ TxIds(new) = {}
    BY <2>1, EmptySeq DEF TxIds
  <2> HIDE DEF new
  <2>3. Len(q.data) = m /\ TxIds(q.data) = {t} \X (1..m)
    BY <1>2, <1>3, <1>4, <2>2
  <2>4. RowsAre(q)
    BY <1>4, <1>5, <2>3 DEF RowsAre
  <2> QED BY <2>4 DEF q
<1>9. CASE n > m /\ c # t
  <2> HIDE DEF new
  <2>1. 1 \in 1..Len(new)
    BY <1>2, <1>7, <1>9, EmptySeq
  <2>2. PICK i \in 1..n : new[1] = txs[i]
    BY <1>7, <1>9, <2>1
  <2>3. new[1].id = <<c, n + 1 - i>>
    BY <2>2 DEF IsHistory
  <2>4. <<c, n + 1 - i>> \in TxIds(new)
    BY <1>2, <2>1, <2>3, TxIdsAre
  <2>5. <<c, n + 1 - i>> \notin {t} \X (1..MaxTx)
    BY <1>9
  <2>6. Strangers(q)
    BY <1>4, <2>4, <2>5 DEF Strangers
  <2> QED BY <2>6 DEF q
<1>10. CASE n > m /\ c = t
  <2>1. /\ Len(new) = n - m
        /\ \A k \in 1..Len(new) : \E i \in 1..(n - m) : new[k] = txs[i]
        /\ \A i \in 1..(n - m) : \E k \in 1..Len(new) : new[k] = txs[i]
    BY <1>10, AddedAre
  <2> HIDE DEF new
  <2>2. \A i \in 1..(n - m) : i \in 1..n /\ txs[i].id = <<t, n + 1 - i>>
    <3>1. \A i \in 1..(n - m) : i \in 1..n
      BY <1>2, <1>10
    <3> QED BY <1>10, <3>1 DEF IsHistory
  <2>3. ASSUME NEW k \in 1..n, k > m PROVE \E j \in 1..Len(new) : new[j].id = <<t, k>>
    <3> DEFINE i == n + 1 - k
    <3>1. i \in 1..(n - m) /\ n + 1 - i = k
      BY <1>2, <2>3
    <3> HIDE DEF i
    <3> QED BY <2>1, <2>2, <3>1
  <2>4. ASSUME NEW k \in 1..Len(new) PROVE \E i \in 1..n : i > m /\ new[k].id = <<t, i>>
    <3>1. PICK i \in 1..(n - m) : new[k] = txs[i]
      BY <2>1
    <3>2. n + 1 - i \in 1..n /\ n + 1 - i > m
      BY <1>2, <1>10
    <3> QED BY <2>2, <3>1, <3>2
  <2>5. Len(q.data) = n
    BY <1>2, <1>4, <2>1
  <2>6. TxIds(q.data) = {t} \X (1..n)
    <3>1. ASSUME NEW x \in TxIds(q.data) PROVE x \in {t} \X (1..n)
      <4>1. CASE x \in TxIds(p.data)
        <5>1. \A k \in 1..m : k \in 1..n
          BY <1>2, <1>10
        <5> QED BY <1>3, <4>1, <5>1
      <4>2. CASE x \in TxIds(new)
        <5>1. PICK k \in 1..Len(new) : new[k].id = x
          BY <1>2, <4>2, TxIdsAre
        <5>2. PICK i \in 1..n : new[k].id = <<t, i>>
          BY <2>4
        <5> QED BY <5>1, <5>2
      <4> QED BY <1>4, <3>1, <4>1, <4>2
    <3>2. ASSUME NEW k \in 1..n PROVE <<t, k>> \in TxIds(q.data)
      <4>1. CASE k > m
        BY <1>2, <1>4, <2>3, <4>1, TxIdsAre
      <4>2. CASE ~(k > m)
        <5>1. k \in 1..m
          BY <1>2, <4>2
        <5> QED BY <1>3, <1>4, <5>1
      <4> QED BY <4>1, <4>2
    <3>3. ASSUME NEW x \in {t} \X (1..n) PROVE x \in TxIds(q.data)
      <4>1. PICK k \in 1..n : x = <<t, k>>
        OBVIOUS
      <4> QED BY <3>2, <4>1
    <3> QED BY <3>1, <3>3
  <2>7. ASSUME NEW k \in 1..n, k > n - PageSize PROVE \E j \in 1..q.shown : q.data[j].id = <<t, k>>
    <3>1. CASE k > m
      BY <1>4, <2>3, <3>1
    <3>2. CASE ~(k > m)
      <4>1. k \in 1..m /\ k > m - PageSize
        BY <1>2, <1>10, <2>7, <3>2, SizeIs
      <4> QED BY <1>5, <4>1
    <3> QED BY <3>1, <3>2
  <2>8. RowsAre(q)
    BY <1>4, <2>5, <2>6, <2>7 DEF RowsAre
  <2> QED BY <2>8 DEF q
<1>11. n <= m \/ n > m
  BY <1>2
<1> QED BY <1>8, <1>9, <1>10, <1>11

-----------------------------------------------------------------------------
(* The histories of the daemon.                                            *)

LEMMA MempoolIs ==
  ASSUME NEW h \in Seq(Transaction)
  PROVE  /\ InMempool(h) \in 0..Len(h)
         /\ \A i \in 1..Len(h) : (\A j \in 1..i : h[j].unconfirmed) => i <= InMempool(h)
         /\ InMempool(h) = 0 => \A i \in 1..Len(h) : ~h[i].unconfirmed
<1> DEFINE W == {i \in 1..Len(h) : h[i].unconfirmed}
<1>1. Len(h) \in Nat /\ InMempool(h) = Cardinality(W)
  BY TxSequence DEF InMempool
<1>2. /\ IsFiniteSet(1..Len(h)) /\ Cardinality(1..Len(h)) = Len(h)
      /\ \A i \in 1..Len(h) : IsFiniteSet(1..i) /\ Cardinality(1..i) = i
  <2>1. ASSUME NEW n \in Nat PROVE IsFiniteSet(1..n) /\ Cardinality(1..n) = n
    <3>1. 1 \in Int /\ n \in Int /\ (1 > n => n = 0) /\ n - 1 + 1 = n
      OBVIOUS
    <3>2. IsFiniteSet(1..n) /\ Cardinality(1..n) = IF 1 > n THEN 0 ELSE n - 1 + 1
      BY <3>1, FS_Interval
    <3> QED BY <3>1, <3>2
  <2>2. \A i \in 1..Len(h) : i \in Nat
    OBVIOUS
  <2> QED BY <1>1, <2>1, <2>2
<1>3. W \in SUBSET (1..Len(h))
  OBVIOUS
<1> HIDE DEF W
<1>4. IsFiniteSet(W) /\ Cardinality(W) \in Nat /\ Cardinality(W) <= Len(h)
  <2>1. IsFiniteSet(W) /\ Cardinality(W) <= Cardinality(1..Len(h))
    BY <1>2, <1>3, FS_Subset
  <2> QED BY <1>2, <2>1, FS_CardinalityType
<1>5. ASSUME NEW i \in 1..Len(h), \A j \in 1..i : h[j].unconfirmed PROVE i <= Cardinality(W)
  <2>1. 1..i \in SUBSET W
    <3>1. \A j \in 1..i : j \in 1..Len(h)
      BY <1>1
    <3> QED BY <1>5, <3>1 DEF W
  <2>2. Cardinality(1..i) <= Cardinality(W)
    BY <1>4, <2>1, FS_Subset
  <2> QED BY <1>2, <2>2
<1>6. ASSUME Cardinality(W) = 0, NEW i \in 1..Len(h) PROVE ~h[i].unconfirmed
  <2>1. W = {}
    BY <1>4, <1>6, FS_EmptySet
  <2> QED BY <2>1 DEF W
<1> QED BY <1>1, <1>4, <1>5, <1>6

\* A history with one more, the newest.
LEMMA Prepended ==
  ASSUME NEW c, NEW h \in Seq(Transaction), IsHistory(h, c),
         NEW g \in Seq(Transaction), Len(g) = Len(h) + 1,
         g[1].id = <<c, Len(h) + 1>>, \A i \in 1..Len(h) : g[i + 1] = h[i],
         g[1].unconfirmed => InMempool(h) < PageSize, ~g[1].unconfirmed => InMempool(h) = 0
  PROVE  IsHistory(g, c)
<1>1. Len(h) \in Nat /\ InMempool(h) \in Nat
  BY TxSequence, MempoolIs
<1>2. ASSUME NEW i \in 1..Len(g) PROVE i = 1 \/ \E k \in 1..Len(h) : i = k + 1 /\ g[i] = h[k]
  <2>1. CASE i # 1
    <3>1. i - 1 \in 1..Len(h) /\ i = i - 1 + 1
      BY <1>1, <2>1
    <3> QED BY <3>1
  <2> QED BY <2>1
<1>3. ASSUME NEW i \in 1..Len(g) PROVE g[i].id = <<c, Len(g) + 1 - i>>
  <2>1. CASE i = 1
    <3>1. Len(g) + 1 - 1 = Len(h) + 1
      BY <1>1
    <3> QED BY <2>1, <3>1
  <2>2. CASE i # 1
    <3>1. PICK k \in 1..Len(h) : i = k + 1 /\ g[i] = h[k]
      BY <1>2, <2>2
    <3>2. h[k].id = <<c, Len(h) + 1 - k>>
      BY DEF IsHistory
    <3>3. Len(g) + 1 - i = Len(h) + 1 - k
      BY <1>1, <3>1
    <3> QED BY <3>1, <3>2, <3>3
  <2> QED BY <2>1, <2>2
<1>4. ASSUME NEW i \in 1..Len(g), g[i].unconfirmed
      PROVE  i <= PageSize /\ \A j \in 1..i : g[j].unconfirmed
  <2>1. CASE i = 1
    BY <1>4, <2>1, SizeIs
  <2>2. CASE i # 1
    <3>1. PICK k \in 1..Len(h) : i = k + 1 /\ g[i] = h[k]
      BY <1>2, <2>2
    <3>2. \A j \in 1..k : h[j].unconfirmed
      BY <1>4, <3>1 DEF IsHistory
    <3>3. k <= InMempool(h) /\ InMempool(h) # 0
      BY <3>2, <1>1, <1>4, <3>1, MempoolIs
    <3>4. g[1].unconfirmed /\ k < PageSize
      BY <3>3, <1>1, SizeIs
    <3>5. i <= PageSize
      BY <3>1, <3>4, SizeIs
    <3>6. ASSUME NEW j \in 1..i PROVE g[j].unconfirmed
      <4>1. j \in 1..Len(g)
        BY <1>1
      <4>2. CASE j # 1
        <5>1. PICK l \in 1..Len(h) : j = l + 1 /\ g[j] = h[l]
          BY <1>2, <4>1, <4>2
        <5>2. l \in 1..k
          BY <3>1, <5>1
        <5> QED BY <3>2, <5>1, <5>2
      <4> QED BY <3>4, <4>2
    <3> QED BY <3>5, <3>6
  <2> QED BY <2>1, <2>2
<1> QED BY <1>3, <1>4 DEF IsHistory

LEMMA OneIs ==
  ASSUME NEW x \in Transaction
  PROVE  <<x>> \in Seq(Transaction) /\ Len(<<x>>) = 1 /\ (<<x>>)[1] = x
  OBVIOUS

LEMMA FreshIs ==
  ASSUME TxShapes, NEW c \in ShownCoins, Len(txHistory[c]) < MaxTx, NEW b \in BOOLEAN
  PROVE  [id |-> Fresh(c), unconfirmed |-> b] \in Transaction
<1>1. txHistory[c] \in Seq(Transaction)
  BY DEF TxShapes
<1>2. Len(txHistory[c]) + 1 \in 1..MaxTx
  BY <1>1, TxSequence, SizeIs
<1> QED BY <1>2 DEF Fresh, Transaction

\* When only the history of a coin changes, it is enough that the new one is one.
LEMMA HistoryChanges ==
  ASSUME TxInv, NEW c \in ShownCoins, NEW g \in Seq(Transaction),
         txHistory' = [txHistory EXCEPT ![c] = g],
         txExcuses' \in SUBSET {"raced", "mixed", "crowded"}, txExcuses \subseteq txExcuses',
         (txExcuses' \cap {"mixed", "crowded"} = {} /\ IsHistory(txHistory[c], c)) => IsHistory(g, c),
         UNCHANGED <<txStored, walletPage, txCalls>>
  PROVE  TxInv'
<1>1. TxShapes'
  BY DEF TxInv, TxShapes
<1>2. Histories'
  <2> SUFFICES ASSUME txExcuses' \cap {"mixed", "crowded"} = {}
               PROVE  /\ \A d \in ShownCoins : IsHistory(txHistory'[d], d)
                      /\ \A k \in TxKeys : OfSome(txStored[k])
                      /\ \A i \in TxSlots : OfSome(txCalls[i].txs)
    BY DEF Histories, OfSome, IsHistory
  <2>1. txExcuses \cap {"mixed", "crowded"} = {}
    OBVIOUS
  <2>2. /\ \A d \in ShownCoins : IsHistory(txHistory[d], d)
        /\ \A k \in TxKeys : OfSome(txStored[k])
        /\ \A i \in TxSlots : OfSome(txCalls[i].txs)
    BY <2>1 DEF TxInv, Histories
  <2>3. \A d \in ShownCoins : txHistory'[d] = IF d = c THEN g ELSE txHistory[d]
    BY DEF TxInv, TxShapes
  <2> QED BY <2>2, <2>3
<1>3. PageSound(walletPage)' /\ RowsInv' /\ RowsAreOfTheTicker'
  <2>1. txExcuses' = {} => txExcuses = {}
    OBVIOUS
  <2>2. "raced" \in txExcuses => "raced" \in txExcuses'
    OBVIOUS
  <2> QED BY <2>1, <2>2 DEF TxInv, PageSound, RowsInv, RowsAre, RowsAreOfTheTicker
<1> QED BY <1>1, <1>2, <1>3 DEF TxInv

LEMMA ArrivesKeeps == ASSUME TxInv, NEW c \in ShownCoins, Arrives(c) PROVE TxInv'
<1> DEFINE h == txHistory[c]
           x == [id |-> Fresh(c), unconfirmed |-> TRUE]
           g == <<x>> \o h
<1>1. h \in Seq(Transaction) /\ Len(h) \in Nat /\ Len(h) < MaxTx /\ c \in DOMAIN txHistory
  BY TxSequence DEF TxInv, TxShapes, Arrives
<1>2. x \in Transaction
  BY <1>1, FreshIs DEF TxInv
<1>3. txHistory' = [txHistory EXCEPT ![c] = g]
  BY <1>1 DEF Arrives
<1>4. /\ txExcuses' = txExcuses \union (IF InMempool(h) >= PageSize THEN {"crowded"} ELSE {})
      /\ UNCHANGED <<txStored, walletPage, txCalls>>
  BY DEF Arrives
<1>5. x.id = <<c, Len(h) + 1>> /\ x.unconfirmed = TRUE
  BY DEF Fresh
<1> HIDE DEF x, h
<1>6. <<x>> \in Seq(Transaction) /\ Len(<<x>>) = 1 /\ (<<x>>)[1] = x
  BY <1>2, OneIs
<1>7. /\ g \in Seq(Transaction) /\ Len(g) = 1 + Len(h)
      /\ \A i \in 1..1 : g[i] = (<<x>>)[i]
      /\ \A i \in 1..Len(h) : g[1 + i] = h[i]
  BY <1>1, <1>6, JoinedIs
<1> HIDE DEF g
<1>8. Len(g) = Len(h) + 1 /\ g[1] = x /\ \A i \in 1..Len(h) : g[i + 1] = h[i]
  <2>1. \A i \in 1..Len(h) : 1 + i = i + 1
    BY <1>1
  <2> QED BY <1>1, <1>6, <1>7, <2>1
<1>9. txExcuses' \in SUBSET {"raced", "mixed", "crowded"} /\ txExcuses \subseteq txExcuses'
  BY <1>4 DEF TxInv, TxShapes
<1>10. ASSUME txExcuses' \cap {"mixed", "crowded"} = {}, IsHistory(h, c) PROVE IsHistory(g, c)
  <2>1. ~(InMempool(h) >= PageSize)
    BY <1>4, <1>10
  <2>2. InMempool(h) < PageSize
    BY <1>1, <2>1, MempoolIs, SizeIs
  <2> QED BY <1>1, <1>5, <1>7, <1>8, <1>10, <2>2, Prepended
<1> QED BY <1>3, <1>4, <1>7, <1>9, <1>10, HistoryChanges DEF h

LEMMA ArrivesConfirmedKeeps == ASSUME TxInv, NEW c \in ShownCoins, ArrivesConfirmed(c) PROVE TxInv'
<1> DEFINE h == txHistory[c]
           u == InMempool(h)
           x == [id |-> Fresh(c), unconfirmed |-> FALSE]
           head == SubSeq(h, 1, u)
           tail == SubSeq(h, u + 1, Len(h))
           first == head \o <<x>>
           g == first \o tail
<1>1. h \in Seq(Transaction) /\ Len(h) \in Nat /\ Len(h) < MaxTx /\ c \in DOMAIN txHistory
  BY TxSequence DEF TxInv, TxShapes, ArrivesConfirmed
<1>2. x \in Transaction
  BY <1>1, FreshIs DEF TxInv
<1>3. txHistory' = [txHistory EXCEPT ![c] = g]
  BY <1>1 DEF ArrivesConfirmed
<1>4. /\ txExcuses' = IF u > 0 THEN txExcuses \union {"mixed"} ELSE txExcuses
      /\ UNCHANGED <<txStored, walletPage, txCalls>>
  BY DEF ArrivesConfirmed
<1>5. x.id = <<c, Len(h) + 1>> /\ x.unconfirmed = FALSE
  BY DEF Fresh
<1>6. u \in Nat /\ u <= Len(h)
  BY <1>1, MempoolIs
<1> HIDE DEF x, h
<1>7. <<x>> \in Seq(Transaction) /\ Len(<<x>>) = 1 /\ (<<x>>)[1] = x
  BY <1>2, OneIs
<1> HIDE DEF u
<1>8. head \in Seq(Transaction) /\ Len(head) = u
  <2>1. 1 \in Nat \ {0} /\ 1 <= u + 1 /\ u - 1 + 1 = u
    BY <1>6
  <2>2. head \in Seq(Transaction) /\ Len(head) = u - 1 + 1
    BY <1>1, <1>6, <2>1, Part
  <2> QED BY <2>1, <2>2
<1>9. /\ tail \in Seq(Transaction) /\ Len(tail) = Len(h) - u
      /\ u = 0 => \A i \in 1..Len(h) : tail[i] = h[i]
  <2>1. u + 1 \in Nat \ {0} /\ u + 1 <= Len(h) + 1 /\ Len(h) <= Len(h) /\ Len(h) \in Nat
    BY <1>1, <1>6, Successors
  <2>2. /\ tail \in Seq(Transaction) /\ Len(tail) = Len(h) - (u + 1) + 1
        /\ \A i \in 1..(Len(h) - (u + 1) + 1) : tail[i] = h[u + 1 + i - 1]
    BY <1>1, <2>1, Part
  <2>3. /\ Len(h) - (u + 1) + 1 = Len(h) - u
        /\ u = 0 => Len(h) - u = Len(h) /\ \A i \in 1..Len(h) : u + 1 + i - 1 = i
    BY <1>1, <1>6
  <2> HIDE DEF tail
  <2> QED BY <2>2, <2>3
<1> HIDE DEF head, tail
<1>10. /\ first \in Seq(Transaction) /\ Len(first) = u + 1
       /\ \A i \in 1..1 : first[u + i] = (<<x>>)[i]
  BY <1>7, <1>8, JoinedIs
<1> HIDE DEF first
<1>11. /\ g \in Seq(Transaction) /\ Len(g) = Len(first) + Len(tail)
       /\ \A i \in 1..Len(first) : g[i] = first[i]
       /\ \A i \in 1..Len(tail) : g[Len(first) + i] = tail[i]
  BY <1>9, <1>10, JoinedIs
<1> HIDE DEF g
<1>12. txExcuses' \in SUBSET {"raced", "mixed", "crowded"} /\ txExcuses \subseteq txExcuses'
  BY <1>4 DEF TxInv, TxShapes
<1>13. ASSUME txExcuses' \cap {"mixed", "crowded"} = {}, IsHistory(h, c) PROVE IsHistory(g, c)
  <2>1. u = 0
    BY <1>4, <1>6, <1>13
  <2>2. Len(first) = 1 /\ Len(tail) = Len(h) /\ Len(g) = Len(h) + 1
    BY <2>1, <1>1, <1>9, <1>10, <1>11
  <2>3. g[1] = x
    <3>1. 1 \in 1..1 /\ u + 1 = 1
      BY <2>1
    <3>2. first[1] = x
      BY <3>1, <1>7, <1>10
    <3> QED BY <3>1, <3>2, <2>2, <1>11
  <2>4. \A i \in 1..Len(h) : g[i + 1] = h[i]
    <3>1. \A i \in 1..Len(h) : 1 + i = i + 1
      BY <1>1
    <3> QED BY <2>1, <2>2, <3>1, <1>9, <1>11
  <2> QED BY <1>1, <1>5, <1>11, <1>13, <2>1, <2>2, <2>3, <2>4, Prepended DEF u
<1> QED BY <1>3, <1>4, <1>11, <1>12, <1>13, HistoryChanges DEF h

LEMMA ConfirmsKeeps == ASSUME TxInv, NEW c \in ShownCoins, Confirms(c) PROVE TxInv'
<1> DEFINE h == txHistory[c]
           u == InMempool(h)
           x == [h[u] EXCEPT !.unconfirmed = FALSE]
           g == [h EXCEPT ![u] = x]
<1>1. h \in Seq(Transaction) /\ Len(h) \in Nat /\ c \in DOMAIN txHistory
  BY TxSequence DEF TxInv, TxShapes
<1>2. u \in 1..Len(h)
  BY <1>1, MempoolIs DEF Confirms
<1>3. txHistory' = [txHistory EXCEPT ![c] = g]
  BY <1>1 DEF Confirms
<1>4. x \in Transaction /\ x.id = h[u].id /\ x.unconfirmed = FALSE
  <2>1. h[u] \in Transaction
    BY <1>1, <1>2, TxSequence
  <2> HIDE DEF h, u
  <2> QED BY <2>1 DEF Transaction
<1>5. /\ g \in Seq(Transaction) /\ Len(g) = Len(h)
      /\ \A i \in 1..Len(h) : g[i] = IF i = u THEN x ELSE h[i]
  <2> HIDE DEF h, u, x
  <2> QED BY <1>1, <1>2, <1>4, ExceptSeq
<1>6. txExcuses' = txExcuses /\ UNCHANGED <<txStored, walletPage, txCalls>>
  BY DEF Confirms
<1> HIDE DEF g, x, h
<1>7. ASSUME IsHistory(h, c) PROVE IsHistory(g, c)
  <2>1. ASSUME NEW i \in 1..Len(g) PROVE g[i].id = <<c, Len(g) + 1 - i>>
    BY <1>4, <1>5, <1>7 DEF IsHistory
  <2>2. ASSUME NEW i \in 1..Len(g), g[i].unconfirmed
        PROVE  i <= PageSize /\ \A j \in 1..i : g[j].unconfirmed
    <3>1. i \in 1..Len(h) /\ i # u /\ h[i].unconfirmed
      BY <1>4, <1>5, <2>2
    <3>2. i <= PageSize /\ \A j \in 1..i : h[j].unconfirmed
      BY <1>7, <3>1 DEF IsHistory
    <3>3. i <= u
      BY <1>1, <3>1, <3>2, MempoolIs
    <3>4. \A j \in 1..i : j \in 1..Len(h) /\ j # u
      BY <1>1, <1>2, <3>1, <3>3
    <3> QED BY <1>5, <3>2, <3>4
  <2> QED BY <2>1, <2>2 DEF IsHistory
<1>8. txExcuses' \in SUBSET {"raced", "mixed", "crowded"} /\ txExcuses \subseteq txExcuses'
  BY <1>6 DEF TxInv, TxShapes
<1> QED BY <1>3, <1>5, <1>6, <1>7, <1>8, HistoryChanges DEF h

-----------------------------------------------------------------------------
(* Calls and the page.                                                     *)

\* A call that was made of some coin, and what it carries.
CallIs(call) == call \in Calls /\ (call.at # "free" => call.coin \in ShownCoins)

LEMMA NothingIs ==
  ASSUME TxInv
  PROVE  /\ <<>> \in Answers /\ <<>> \in Seq(Transaction) /\ IsHistory(<<>>, walletPage.ticker)
         /\ walletPage.ticker \in ShownCoins /\ OfSome(<<>>) /\ CallIs(FreeCall)
<1>1. <<>> \in Seq(Transaction) /\ Len(<<>>) = 0
  BY EmptySeq
<1>2. walletPage.ticker \in ShownCoins
  BY DEF TxInv, PageSound, PageRecords
<1>3. IsHistory(<<>>, walletPage.ticker)
  BY <1>1 DEF IsHistory
<1>4. FreeCall \in Calls /\ FreeCall.at = "free"
  BY <1>1 DEF FreeCall, Calls, Answers, PlaceNames
<1> QED BY <1>1, <1>2, <1>3, <1>4 DEF OfSome, CallIs, Answers

\* The others are as they were, but for being overtaken.
LEMMA CallsThenAre ==
  ASSUME TxInv, NEW i \in TxSlots, NEW call, CallIs(call), NEW late
  PROVE  LET calls == CallsThen(i, call, late)
         IN  /\ calls \in [TxSlots -> Calls] /\ calls[i] = call
             /\ \A j \in TxSlots \ {i} :
                  /\ calls[j].at = txCalls[j].at /\ calls[j].coin = txCalls[j].coin /\ calls[j].txs = txCalls[j].txs
                  /\ calls[j].overtaken = (txCalls[j].overtaken \/ j \in late)
<1> DEFINE calls == CallsThen(i, call, late)
           other(j) == [txCalls[j] EXCEPT !.overtaken = @ \/ j \in late]
<1>1. call \in Calls /\ txCalls \in [TxSlots -> Calls]
  BY DEF CallIs, TxInv, TxShapes
<1>2. ASSUME NEW j \in TxSlots
      PROVE  /\ other(j) \in Calls
             /\ other(j).at = txCalls[j].at /\ other(j).coin = txCalls[j].coin /\ other(j).txs = txCalls[j].txs
             /\ other(j).overtaken = (txCalls[j].overtaken \/ j \in late)
  <2>1. txCalls[j] \in Calls
    BY <1>1
  <2>2. (txCalls[j].overtaken \/ j \in late) \in BOOLEAN
    OBVIOUS
  <2> QED BY <2>1, <2>2 DEF Calls
<1>3. calls = [j \in TxSlots |-> IF j = i THEN call ELSE other(j)]
  BY DEF CallsThen
<1> HIDE DEF other, calls
<1> QED BY <1>1, <1>2, <1>3 DEF calls

LEMMA CallBecomes ==
  ASSUME TxInv, NEW i \in TxSlots, NEW call
  PROVE  [txCalls EXCEPT ![i] = call] = CallsThen(i, call, {})
<1>1. txCalls \in [TxSlots -> Calls]
  BY DEF TxInv, TxShapes
<1>2. ASSUME NEW j \in TxSlots PROVE txCalls[j] = [txCalls[j] EXCEPT !.overtaken = @ \/ j \in {}]
  <2>1. txCalls[j] \in Calls
    BY <1>1
  <2>2. (txCalls[j].overtaken \/ j \in {}) = txCalls[j].overtaken
    BY <2>1 DEF Calls
  <2> QED BY <2>1, <2>2 DEF Calls
<1> QED BY <1>1, <1>2 DEF CallsThen

\* When only a call changes, others are overtaken and nothing but "raced" is
\* forgiven, it is enough that what the call carries is of some coin.
LEMMA CallsChange ==
  ASSUME TxInv, NEW i \in TxSlots, NEW call, CallIs(call), NEW late,
         txCalls' = CallsThen(i, call, late),
         txExcuses' \in SUBSET {"raced", "mixed", "crowded"}, txExcuses \subseteq txExcuses' \union {"raced"},
         (txExcuses' \cap {"mixed", "crowded"} = {} /\ Histories) => OfSome(call.txs),
         UNCHANGED <<txStored, txHistory>>
  PROVE  TxShapes' /\ Histories'
<1>1. /\ txCalls' \in [TxSlots -> Calls] /\ txCalls'[i] = call
      /\ \A j \in TxSlots \ {i} : txCalls'[j].at = txCalls[j].at /\ txCalls'[j].coin = txCalls[j].coin
                                 /\ txCalls'[j].txs = txCalls[j].txs
  BY CallsThenAre
<1>2. TxShapes'
  <2>1. \A j \in TxSlots : txCalls'[j].at # "free" => txCalls'[j].coin \in ShownCoins
    BY <1>1 DEF CallIs, TxInv, TxShapes
  <2> QED BY <1>1, <2>1 DEF TxInv, TxShapes
<1>3. Histories'
  <2> SUFFICES ASSUME txExcuses' \cap {"mixed", "crowded"} = {}
               PROVE  /\ \A d \in ShownCoins : IsHistory(txHistory[d], d)
                      /\ \A k \in TxKeys : OfSome(txStored[k])
                      /\ \A j \in TxSlots : OfSome(txCalls'[j].txs)
    BY DEF Histories, OfSome, IsHistory
  <2>1. txExcuses \cap {"mixed", "crowded"} = {}
    OBVIOUS
  <2>2. /\ \A d \in ShownCoins : IsHistory(txHistory[d], d)
        /\ \A k \in TxKeys : OfSome(txStored[k])
        /\ \A j \in TxSlots : OfSome(txCalls[j].txs)
    BY <2>1 DEF TxInv, Histories
  <2>3. OfSome(call.txs)
    BY DEF TxInv
  <2>4. \A j \in TxSlots : OfSome(txCalls'[j].txs)
    BY <1>1, <2>2, <2>3
  <2> QED BY <2>2, <2>4
<1> QED BY <1>2, <1>3

LEMMA CallChanges ==
  ASSUME TxInv, NEW i \in TxSlots, NEW call, CallIs(call),
         txCalls' = [txCalls EXCEPT ![i] = call],
         txExcuses' \in SUBSET {"raced", "mixed", "crowded"}, txExcuses \subseteq txExcuses' \union {"raced"},
         (txExcuses' \cap {"mixed", "crowded"} = {} /\ Histories) => OfSome(call.txs),
         UNCHANGED <<txStored, txHistory>>
  PROVE  TxShapes' /\ Histories'
<1>1. txCalls' = CallsThen(i, call, {})
  BY CallBecomes
<1> QED BY <1>1, CallsChange

\* The page and what is said of it stay.
PageStays == UNCHANGED <<walletPage, txExcuses>>

LEMMA PageStaying ==
  ASSUME TxInv, PageStays
  PROVE  PageSound(walletPage)' /\ RowsInv' /\ RowsAreOfTheTicker'
  BY DEF TxInv, PageStays, PageSound, RowsInv, RowsAre, RowsAreOfTheTicker

\* The page is emptied, for a coin.
Emptied(c) ==
  /\ c \in ShownCoins
  /\ walletPage' \in {[Reset(walletPage) EXCEPT !.ticker = c, !.busy = b] : b \in BOOLEAN}
  /\ txExcuses' = txExcuses \ {"raced"}

LEMMA PageEmptied ==
  ASSUME TxInv, NEW c, Emptied(c)
  PROVE  /\ PageSound(walletPage)' /\ RowsInv' /\ RowsAreOfTheTicker'
         /\ txExcuses' \in SUBSET {"raced", "mixed", "crowded"} /\ txExcuses \subseteq txExcuses' \union {"raced"}
<1>1. PICK b \in BOOLEAN : walletPage' = [Reset(walletPage) EXCEPT !.ticker = c, !.busy = b]
  BY DEF Emptied
<1> DEFINE r == Reset(walletPage)
<1>2. PageSound(r) /\ r.data = <<>> /\ r.shown = 0
  BY ResetIs DEF TxInv
<1> HIDE DEF r
<1>3. walletPage' \in PageRecords /\ walletPage'.data = r.data /\ walletPage'.shown = r.shown
  <2>1. walletPage' = [r EXCEPT !.ticker = c, !.busy = b] /\ c \in ShownCoins
    BY <1>1 DEF r, Emptied
  <2> QED BY <1>2, <2>1 DEF PageSound, PageRecords
<1>4. PageSound(walletPage')
  BY <1>2, <1>3 DEF PageSound
<1>5. RowsAre(walletPage')
  BY <1>2, <1>3, NoRowsAre
<1>6. \A j \in DOMAIN walletPage'.data : FALSE
  BY <1>2, <1>3
<1>7. RowsAreOfTheTicker'
  BY <1>6 DEF RowsAreOfTheTicker
<1>8. PageSound(walletPage)' /\ RowsInv'
  BY <1>4, <1>5 DEF PageSound, Smaller, RowsInv, RowsAre, PageRecords, TxIds
<1>9. txExcuses' \in SUBSET {"raced", "mixed", "crowded"} /\ txExcuses \subseteq txExcuses' \union {"raced"}
  BY DEF Emptied, TxInv, TxShapes
<1> QED BY <1>7, <1>8, <1>9

LEMMA HistoriesStay ==
  ASSUME TxInv, UNCHANGED <<txHistory, txStored, txCalls, txExcuses>>
  PROVE  TxShapes' /\ Histories'
<1>1. TxShapes'
  BY DEF TxInv, TxShapes
<1>2. Histories'
  <2> SUFFICES ASSUME txExcuses \cap {"mixed", "crowded"} = {}
               PROVE  /\ \A d \in ShownCoins : IsHistory(txHistory[d], d)
                      /\ \A k \in TxKeys : OfSome(txStored[k])
                      /\ \A j \in TxSlots : OfSome(txCalls[j].txs)
    BY DEF Histories, OfSome, IsHistory
  <2> QED BY DEF TxInv, Histories
<1> QED BY <1>1, <1>2

LEMMA CallFields ==
  ASSUME TxInv, NEW i \in TxSlots
  PROVE  /\ CallIs(txCalls[i])
         /\ (txExcuses \cap {"mixed", "crowded"} = {} => OfSome(txCalls[i].txs))
         /\ txCalls \in [TxSlots -> Calls]
  BY DEF TxInv, TxShapes, Histories, CallIs, Calls

LEMMA AskedIs ==
  ASSUME TxInv, NEW c \in ShownCoins
  PROVE  LET call == [FreeCall EXCEPT !.at = "asked", !.coin = c] IN CallIs(call) /\ OfSome(call.txs)
<1> DEFINE call == [FreeCall EXCEPT !.at = "asked", !.coin = c]
<1>1. CallIs(FreeCall) /\ OfSome(<<>>) /\ FreeCall.txs = <<>>
  BY NothingIs DEF FreeCall
<1>2. call \in Calls /\ call.coin = c /\ call.txs = <<>>
  <2>1. FreeCall \in Calls
    BY <1>1 DEF CallIs
  <2>2. "asked" \in PlaceNames
    BY DEF PlaceNames
  <2> QED BY <1>1, <2>1, <2>2 DEF Calls
<1> HIDE DEF call
<1> QED BY <1>1, <1>2 DEF CallIs, call

LEMMA SetCurrentTickerKeeps ==
  ASSUME TxInv, NEW i \in TxSlots, NEW c \in ShownCoins, SetCurrentTicker(c, i)
  PROVE  TxInv'
<1> DEFINE call == [FreeCall EXCEPT !.at = "asked", !.coin = c]
<1>1. /\ txCalls' = CallsThen(i, call, Compared)
      /\ Emptied(c) /\ UNCHANGED <<txStored, txHistory>>
  BY DEF SetCurrentTicker, Emptied
<1>2. CallIs(call) /\ OfSome(call.txs)
  BY AskedIs
<1> HIDE DEF call
<1> QED BY <1>1, <1>2, PageEmptied, CallsChange DEF TxInv

\* A call goes on, and what it then carries is of some coin if histories are.
LEMMA CallGoesOn ==
  ASSUME TxInv, NEW i \in TxSlots, NEW call, CallIs(call),
         txCalls' = [txCalls EXCEPT ![i] = call],
         Histories /\ txExcuses \cap {"mixed", "crowded"} = {} => OfSome(call.txs),
         UNCHANGED <<txStored, txHistory>>, PageStays
  PROVE  TxInv'
<1>1. txExcuses' \in SUBSET {"raced", "mixed", "crowded"} /\ txExcuses \subseteq txExcuses' \union {"raced"}
      /\ txExcuses' = txExcuses
  BY DEF TxInv, TxShapes, PageStays
<1>2. TxShapes' /\ Histories'
  BY <1>1, CallChanges
<1> QED BY <1>2, PageStaying DEF TxInv

LEMMA CallMoves ==
  ASSUME TxInv, NEW i \in TxSlots, NEW place \in PlaceNames, NEW txs \in Answers, txCalls[i].at # "free"
  PROVE  CallIs([txCalls[i] EXCEPT !.at = place, !.txs = txs])
         /\ CallIs([txCalls[i] EXCEPT !.at = place])
         /\ [txCalls[i] EXCEPT !.at = place].txs = txCalls[i].txs
<1>1. txCalls[i] \in Calls /\ txCalls[i].coin \in ShownCoins
  BY CallFields DEF CallIs
<1> QED BY <1>1 DEF CallIs, Calls

LEMMA CallsKeep ==
  ASSUME TxInv, NEW i \in TxSlots,
         FetchInfos(i) \/ HistoryAnswered(i) \/ CallFails(i) \/ GetTxHistory(i)
  PROVE  TxInv'
<1>1. txCalls \in [TxSlots -> Calls]
  BY CallFields
<1>2. CASE FetchInfos(i)
  <2> DEFINE call == [FreeCall EXCEPT !.at = "asked", !.coin = walletPage.ticker]
  <2>1. CallIs(call) /\ OfSome(call.txs)
    BY NothingIs, AskedIs
  <2>2. txCalls' = [txCalls EXCEPT ![i] = call] /\ UNCHANGED <<txStored, txHistory>> /\ PageStays
    BY <1>2 DEF FetchInfos, PageStays
  <2> HIDE DEF call
  <2> QED BY <2>1, <2>2, CallGoesOn
<1>3. CASE HistoryAnswered(i)
  <2> DEFINE h == txHistory[txCalls[i].coin]
             call == [txCalls[i] EXCEPT !.at = "answered", !.txs = h]
  <2>1. txCalls[i].at # "free" /\ txCalls[i].coin \in ShownCoins
    BY <1>3, CallFields DEF HistoryAnswered, CallIs
  <2>2. h \in Seq(Transaction) /\ h \in Answers /\ "answered" \in PlaceNames
    BY <2>1 DEF TxInv, TxShapes, Answers, PlaceNames
  <2>3. Histories /\ txExcuses \cap {"mixed", "crowded"} = {} => OfSome(h)
    BY <2>1 DEF Histories, OfSome
  <2>4. txCalls' = [txCalls EXCEPT ![i] = call] /\ UNCHANGED <<txStored, txHistory>> /\ PageStays
    BY <1>1, <1>3 DEF HistoryAnswered, PageStays
  <2>5. CallIs(call) /\ call.txs = h
    <3> HIDE DEF h
    <3>1. h \in Answers /\ "answered" \in PlaceNames /\ txCalls[i].at # "free"
      BY <2>1, <2>2
    <3>2. CallIs([txCalls[i] EXCEPT !.at = "answered", !.txs = h])
      BY <3>1, CallMoves
    <3>3. [txCalls[i] EXCEPT !.at = "answered", !.txs = h].txs = h
      <4>1. txCalls[i] \in Calls
        BY <1>1
      <4> QED BY <4>1 DEF Calls
    <3> QED BY <3>2, <3>3
  <2> HIDE DEF call
  <2> QED BY <2>3, <2>4, <2>5, CallGoesOn
<1>4. CASE CallFails(i)
  <2>1. txCalls' = [txCalls EXCEPT ![i] = FreeCall] /\ UNCHANGED <<txStored, txHistory>> /\ PageStays
    BY <1>4 DEF CallFails, PageStays
  <2>2. CallIs(FreeCall) /\ OfSome(FreeCall.txs)
    BY NothingIs DEF FreeCall
  <2> QED BY <2>1, <2>2, CallGoesOn
<1>5. CASE GetTxHistory(i)
  <2> DEFINE k == TxKey(walletPage.ticker)
             h == txStored[k]
             call == [txCalls[i] EXCEPT !.at = "read", !.txs = h]
  <2>1. k \in TxKeys
    BY NothingIs DEF TxKey, TxKeys
  <2>2. h \in Answers /\ "read" \in PlaceNames /\ txCalls[i].at # "free"
    BY <1>5, <2>1 DEF TxInv, TxShapes, PlaceNames, GetTxHistory
  <2>3. Histories /\ txExcuses \cap {"mixed", "crowded"} = {} => OfSome(h)
    BY <2>1 DEF Histories
  <2>4. txCalls' = [txCalls EXCEPT ![i] = call] /\ UNCHANGED <<txStored, txHistory>> /\ PageStays
    BY <1>1, <1>5 DEF GetTxHistory, PageStays
  <2>5. CallIs(call) /\ call.txs = h
    <3> HIDE DEF h
    <3>1. CallIs([txCalls[i] EXCEPT !.at = "read", !.txs = h])
      BY <2>2, CallMoves
    <3>2. [txCalls[i] EXCEPT !.at = "read", !.txs = h].txs = h
      <4>1. txCalls[i] \in Calls
        BY <1>1
      <4> QED BY <4>1 DEF Calls
    <3> QED BY <3>1, <3>2
  <2> HIDE DEF call
  <2> QED BY <2>3, <2>4, <2>5, CallGoesOn
<1> QED BY <1>2, <1>3, <1>4, <1>5

LEMMA ProcessTxAnswerKeeps == ASSUME TxInv, NEW i \in TxSlots, ProcessTxAnswer(i) PROVE TxInv'
<1> DEFINE call == [txCalls[i] EXCEPT !.at = "stored"]
           k == TxKey(txCalls[i].coin)
           txs == txCalls[i].txs
<1>1. txCalls \in [TxSlots -> Calls] /\ txCalls[i].at # "free" /\ txCalls[i].coin \in ShownCoins /\ txs \in Answers
  BY CallFields DEF ProcessTxAnswer, CallIs, Calls
<1>2. "stored" \in PlaceNames /\ <<>> \in Answers
  BY NothingIs DEF PlaceNames
<1>3. CallIs(call) /\ call.txs = txs
  BY <1>1, <1>2, CallMoves
<1>4. k \in TxKeys
  BY <1>1 DEF TxKey, TxKeys
<1>5. /\ txStored' = [txStored EXCEPT ![k] = txs] /\ txCalls' = CallsThen(i, call, Overwritten(i))
      /\ UNCHANGED txHistory /\ PageStays
  BY <1>1 DEF ProcessTxAnswer, PageStays
<1>6. txExcuses \cap {"mixed", "crowded"} = {} => OfSome(txs)
  BY CallFields
<1> HIDE DEF call, k, txs
<1>7. /\ txCalls' \in [TxSlots -> Calls] /\ txCalls'[i] = call
      /\ \A j \in TxSlots \ {i} : txCalls'[j].at = txCalls[j].at /\ txCalls'[j].coin = txCalls[j].coin
                                 /\ txCalls'[j].txs = txCalls[j].txs
  BY <1>3, <1>5, CallsThenAre
<1>8. TxShapes'
  <2>1. \A j \in TxSlots : txCalls'[j].at # "free" => txCalls'[j].coin \in ShownCoins
    BY <1>3, <1>7 DEF CallIs, TxInv, TxShapes
  <2>2. txStored' \in [TxKeys -> Answers]
    BY <1>1, <1>4, <1>5 DEF TxInv, TxShapes
  <2> QED BY <1>5, <1>7, <2>1, <2>2 DEF TxInv, TxShapes, PageStays
<1>9. Histories'
  <2> SUFFICES ASSUME txExcuses \cap {"mixed", "crowded"} = {}
               PROVE  /\ \A d \in ShownCoins : IsHistory(txHistory[d], d)
                      /\ \A l \in TxKeys : OfSome(txStored'[l])
                      /\ \A j \in TxSlots : OfSome(txCalls'[j].txs)
    BY <1>5 DEF Histories, OfSome, IsHistory, PageStays
  <2>1. /\ \A d \in ShownCoins : IsHistory(txHistory[d], d)
        /\ \A l \in TxKeys : OfSome(txStored[l])
        /\ \A j \in TxSlots : OfSome(txCalls[j].txs)
    BY DEF TxInv, Histories
  <2>2. \A l \in TxKeys : txStored'[l] = IF l = k THEN txs ELSE txStored[l]
    BY <1>4, <1>5 DEF TxInv, TxShapes
  <2>3. \A j \in TxSlots : OfSome(txCalls'[j].txs)
    BY <1>3, <1>6, <1>7, <2>1
  <2> QED BY <1>6, <2>1, <2>2, <2>3
<1> QED BY <1>5, <1>8, <1>9, PageStaying DEF TxInv

LEMMA RefusedKeeps == ASSUME TxInv, NEW i \in TxSlots, KdfRefuses(i) PROVE TxInv'
<1>1. /\ txCalls' = [txCalls EXCEPT ![i] = FreeCall] /\ UNCHANGED <<txStored, txHistory>>
      /\ walletPage' = [Reset(walletPage) EXCEPT !.busy = FALSE]
      /\ txExcuses' = txExcuses \ {"raced"}
  BY DEF KdfRefuses
<1>2. Emptied(walletPage.ticker)
  <2> DEFINE r == Reset(walletPage)
  <2>1. r \in PageRecords /\ r.ticker = walletPage.ticker
    BY ResetIs DEF TxInv, PageSound
  <2> HIDE DEF r
  <2>2. [r EXCEPT !.busy = FALSE] = [r EXCEPT !.ticker = walletPage.ticker, !.busy = FALSE]
    BY <2>1 DEF PageRecords
  <2>3. walletPage' = [r EXCEPT !.ticker = walletPage.ticker, !.busy = FALSE]
    BY <1>1, <2>2 DEF r
  <2> QED BY <1>1, <2>3, NothingIs DEF Emptied, r
<1>3. CallIs(FreeCall) /\ OfSome(FreeCall.txs)
  BY NothingIs DEF FreeCall
<1>4. /\ PageSound(walletPage)' /\ RowsInv' /\ RowsAreOfTheTicker'
      /\ txExcuses' \in SUBSET {"raced", "mixed", "crowded"} /\ txExcuses \subseteq txExcuses' \union {"raced"}
  BY <1>2, PageEmptied
<1>5. TxShapes' /\ Histories'
  BY <1>1, <1>3, <1>4, CallChanges
<1> QED BY <1>4, <1>5 DEF TxInv

LEMMA OnTxFetchFinishedKeeps == ASSUME TxInv, NEW i \in TxSlots, OnTxFetchFinished(i) PROVE TxInv'
<1>1. txCalls \in [TxSlots -> Calls]
  BY CallFields
<1>2. CASE txCalls[i].coin = walletPage.ticker
  <2> DEFINE call == [txCalls[i] EXCEPT !.at = "named"]
  <2>1. txCalls[i].at # "free" /\ "named" \in PlaceNames /\ <<>> \in Answers
    BY NothingIs DEF OnTxFetchFinished, PlaceNames
  <2>2. CallIs(call) /\ call.txs = txCalls[i].txs
    BY <2>1, CallMoves
  <2>3. txCalls' = [txCalls EXCEPT ![i] = call] /\ UNCHANGED <<txStored, txHistory>> /\ PageStays
    BY <1>1, <1>2 DEF OnTxFetchFinished, PageStays
  <2>4. txExcuses \cap {"mixed", "crowded"} = {} => OfSome(txCalls[i].txs)
    BY CallFields
  <2> HIDE DEF call
  <2> QED BY <2>2, <2>3, <2>4, CallGoesOn
<1>3. CASE txCalls[i].coin # walletPage.ticker
  <2>1. /\ txCalls' = [txCalls EXCEPT ![i] = FreeCall] /\ UNCHANGED <<txStored, txHistory>>
        /\ walletPage' = [Reset(walletPage) EXCEPT !.busy = FALSE]
        /\ txExcuses' = txExcuses \ {"raced"}
    BY <1>3 DEF OnTxFetchFinished
  <2>2. Emptied(walletPage.ticker)
    <3> DEFINE r == Reset(walletPage)
    <3>1. r \in PageRecords /\ r.ticker = walletPage.ticker
      BY ResetIs DEF TxInv, PageSound
    <3> HIDE DEF r
    <3>2. [r EXCEPT !.busy = FALSE] = [r EXCEPT !.ticker = walletPage.ticker, !.busy = FALSE]
      BY <3>1 DEF PageRecords
    <3>3. walletPage' = [r EXCEPT !.ticker = walletPage.ticker, !.busy = FALSE]
      BY <2>1, <3>2 DEF r
    <3> QED BY <2>1, <3>3, NothingIs DEF Emptied, r
  <2>3. CallIs(FreeCall) /\ OfSome(FreeCall.txs)
    BY NothingIs DEF FreeCall
  <2>4. /\ PageSound(walletPage)' /\ RowsInv' /\ RowsAreOfTheTicker'
        /\ txExcuses' \in SUBSET {"raced", "mixed", "crowded"} /\ txExcuses \subseteq txExcuses' \union {"raced"}
    BY <2>2, PageEmptied
  <2>5. TxShapes' /\ Histories'
    BY <2>1, <2>3, <2>4, CallChanges
  <2> QED BY <2>4, <2>5 DEF TxInv
<1> QED BY <1>2, <1>3

-----------------------------------------------------------------------------
(* on_tx_fetch_finished gives the page what is stored.                     *)

\* Flags of a page say nothing of its rows.
LEMMA SameRows ==
  ASSUME NEW p, PageSound(p), NEW b \in BOOLEAN, NEW busy \in BOOLEAN
  PROVE  LET q == [p EXCEPT !.failed = b, !.busy = busy]
         IN  PageSound(q) /\ q.ticker = p.ticker /\ q.data = p.data /\ q.shown = p.shown
<1> DEFINE q == [p EXCEPT !.failed = b, !.busy = busy]
<1>1. q \in PageRecords /\ q.ticker = p.ticker /\ q.data = p.data /\ q.shown = p.shown
  BY DEF PageSound, PageRecords
<1> HIDE DEF q
<1>2. PageSound(q)
  BY <1>1 DEF PageSound
<1> QED BY <1>1, <1>2 DEF q

Given(p, txs) == IF p.shown = 0 THEN InitTransactions(p, txs) ELSE UpdateOrInsertTransactions(p, txs)

LEMMA AddedOf ==
  ASSUME NEW p, PageSound(p), NEW txs \in Seq(Transaction)
  PROVE  TxIds(Added(p, txs)) \subseteq TxIds(txs)
<1>1. Len(p.data) \in Nat /\ Len(txs) \in Nat
  BY TxSequence DEF PageSound, PageRecords
<1>2. CASE Len(txs) < Len(p.data)
  BY <1>2 DEF Added, TxIds
<1>3. CASE ~(Len(txs) < Len(p.data))
  <2> DEFINE new == Added(p, txs)
  <2>1. Len(txs) >= Len(p.data) /\ new = ToInit(p, txs)
    BY <1>1, <1>3 DEF Added
  <2>2. new \in Seq(Transaction) /\ \A k \in 1..Len(new) : \E i \in 1..Len(txs) : new[k] = txs[i]
    BY <2>1, ToInitIs
  <2> HIDE DEF new
  <2>3. ASSUME NEW x \in TxIds(new) PROVE x \in TxIds(txs)
    <3>1. PICK k \in 1..Len(new) : new[k].id = x
      BY <2>2, TxIdsAre
    <3>2. PICK i \in 1..Len(txs) : new[k] = txs[i]
      BY <2>2
    <3> QED BY <3>1, <3>2, TxIdsAre
  <2> QED BY <2>3 DEF new
<1> QED BY <1>2, <1>3

LEMMA GivenIs ==
  ASSUME NEW p, PageSound(p), NEW txs \in Seq(Transaction)
  PROVE  /\ PageSound(Given(p, txs)) /\ Given(p, txs).ticker = p.ticker
         /\ \A c : RowsAre(p) /\ IsHistory(txs, c) /\ ~SomeWait(p, txs)
                     => RowsAre(Given(p, txs)) \/ Strangers(Given(p, txs))
         /\ TxIds(Given(p, txs).data) \subseteq TxIds(p.data) \union TxIds(txs)
<1>1. Len(p.data) \in Nat /\ p.data \in Seq(Transaction) /\ p.shown \in 0..Len(p.data)
      /\ p.shown >= Smaller(PageSize, Len(p.data))
  BY TxSequence DEF PageSound, PageRecords
<1>2. p.shown = 0 <=> p.data = <<>>
  <2>1. p.shown = 0 => Len(p.data) = 0
    BY <1>1, SizeIs DEF Smaller
  <2>2. Len(p.data) = 0 <=> p.data = <<>>
    BY <1>1, EmptySeq
  <2> QED BY <1>1, <2>1, <2>2
<1>3. CASE p.shown = 0
  <2>1. Given(p, txs) = InitTransactions(p, txs) /\ p.data = <<>>
    BY <1>2, <1>3 DEF Given
  <2>2. PageSound(InitTransactions(p, txs)) /\ InitTransactions(p, txs).ticker = p.ticker
        /\ InitTransactions(p, txs).data = txs
    BY <2>1, FirstRows
  <2> QED BY <2>1, <2>2, FirstAre
<1>4. CASE p.shown # 0
  <2>1. Given(p, txs) = UpdateOrInsertTransactions(p, txs) /\ p.data # <<>>
    BY <1>2, <1>4 DEF Given
  <2>2. /\ PageSound(UpdateOrInsertTransactions(p, txs)) /\ UpdateOrInsertTransactions(p, txs).ticker = p.ticker
        /\ TxIds(UpdateOrInsertTransactions(p, txs).data) = TxIds(p.data) \union TxIds(Added(p, txs))
    BY <2>1, TakenIs DEF Extends
  <2>3. TxIds(Added(p, txs)) \subseteq TxIds(txs)
    BY AddedOf
  <2> QED BY <2>1, <2>2, <2>3, TakenAre
<1> QED BY <1>3, <1>4

\* Rows of the coin shown, in two ways.
LEMMA PageOfCoin ==
  ASSUME TxInv, "raced" \notin txExcuses
  PROVE  OfCoin(walletPage.data, walletPage.ticker)
<1> DEFINE d == walletPage.data
<1>1. d \in Seq(Transaction) /\ \A i \in DOMAIN d : d[i].id[1] = walletPage.ticker
  BY DEF TxInv, RowsAreOfTheTicker, PageSound, PageRecords
<1>2. ASSUME NEW x \in TxIds(d) PROVE x \in {walletPage.ticker} \X (1..MaxTx)
  <2>1. PICK i \in 1..Len(d) : d[i].id = x
    BY <1>1, TxIdsAre
  <2>2. i \in DOMAIN d /\ d[i].id \in ShownCoins \X (1..MaxTx)
    BY <1>1, TxSequence
  <2>3. x[1] = walletPage.ticker /\ x \in ShownCoins \X (1..MaxTx)
    BY <1>1, <2>1, <2>2
  <2> QED BY <2>3
<1> QED BY <1>2 DEF OfCoin

\* What a thread that was not overtaken has read.
LEMMA ReadIsOwn ==
  ASSUME TxInv, OwnInv, NEW i \in TxSlots, txCalls[i].at = "read", ~txCalls[i].overtaken
  PROVE  OfCoin(IF txCalls[i].txs = NoHistory THEN <<>> ELSE txCalls[i].txs, walletPage.ticker)
<1>1. Tells(txCalls[i].txs, txCalls[i].coin) /\ txCalls[i].coin = walletPage.ticker
  BY DEF OwnInv, CallIsOwn
<1>2. OfCoin(<<>>, walletPage.ticker)
  BY DEF OfCoin, TxIds
<1> QED BY <1>1, <1>2 DEF Tells

LEMMA UpdateModelKeeps == ASSUME TxInv, OwnInv, NEW i \in TxSlots, UpdateModel(i) PROVE TxInv'
<1> DEFINE none == txCalls[i].txs = NoHistory
           txs == IF none THEN <<>> ELSE txCalls[i].txs
           g == Given(walletPage, txs)
<1>1. /\ walletPage' = [g EXCEPT !.failed = none, !.busy = FALSE]
      /\ txCalls' = [txCalls EXCEPT ![i] = FreeCall] /\ UNCHANGED <<txStored, txHistory>>
  BY DEF UpdateModel, Given
<1>2. txExcuses' = txExcuses
         \union (IF txCalls[i].overtaken /\ Strangers(walletPage') THEN {"raced"} ELSE {})
         \union (IF SomeWait(walletPage, txCalls[i].txs) THEN {"mixed"} ELSE {})
  BY DEF UpdateModel
<1>3. txs \in Seq(Transaction)
  BY NothingIs, CallFields DEF CallIs, Calls, Answers
<1>4. txExcuses \cap {"mixed", "crowded"} = {} => \E c : IsHistory(txs, c)
  BY NothingIs, CallFields DEF OfSome
<1>5. ~SomeWait(walletPage, txCalls[i].txs) => ~SomeWait(walletPage, txs)
  <2>1. CASE none
    <3>1. txs = <<>> /\ DOMAIN (<<>>) = {}
      BY <2>1
    <3>2. ~SomeWait(walletPage, <<>>)
      BY <3>1 DEF SomeWait
    <3> QED BY <3>1, <3>2
  <2>2. CASE ~none
    BY <2>2
  <2> QED BY <2>1, <2>2
<1> HIDE DEF txs
<1>6. /\ PageSound(g) /\ g.ticker = walletPage.ticker
      /\ \A c : RowsAre(walletPage) /\ IsHistory(txs, c) /\ ~SomeWait(walletPage, txs) => RowsAre(g) \/ Strangers(g)
      /\ TxIds(g.data) \subseteq TxIds(walletPage.data) \union TxIds(txs)
  BY <1>3, GivenIs DEF TxInv
<1> HIDE DEF g
<1>7. none \in BOOLEAN /\ FALSE \in BOOLEAN
  OBVIOUS
<1> HIDE DEF none
<1>8. /\ PageSound(walletPage') /\ walletPage'.ticker = g.ticker /\ walletPage'.data = g.data
      /\ walletPage'.shown = g.shown
  BY <1>1, <1>6, <1>7, SameRows
<1>9. /\ txExcuses' \in SUBSET {"raced", "mixed", "crowded"} /\ txExcuses \subseteq txExcuses' \union {"raced"}
  BY <1>2 DEF TxInv, TxShapes
<1>10. CallIs(FreeCall) /\ OfSome(FreeCall.txs)
  BY NothingIs DEF FreeCall
<1>11. TxShapes' /\ Histories'
  BY <1>1, <1>9, <1>10, CallChanges
<1>12. ASSUME "raced" \notin txExcuses' PROVE ~Strangers(walletPage')
  <2>1. CASE txCalls[i].overtaken
    BY <1>2, <1>12, <2>1
  <2>2. CASE ~txCalls[i].overtaken
    <3>1. OfCoin(walletPage.data, walletPage.ticker)
      BY <1>2, <1>12, PageOfCoin DEF TxInv
    <3>2. OfCoin(txs, walletPage.ticker)
      BY <2>2, ReadIsOwn DEF txs, none, UpdateModel
    <3> QED BY <1>6, <1>8, <3>1, <3>2 DEF OfCoin, Strangers
  <2> QED BY <2>1, <2>2
<1>13. RowsAreOfTheTicker'
  <2> SUFFICES ASSUME "raced" \notin txExcuses', NEW j \in DOMAIN walletPage'.data
               PROVE  walletPage'.data[j].id[1] = walletPage'.ticker
    BY DEF RowsAreOfTheTicker
  <2>1. walletPage'.data[j].id \in TxIds(walletPage'.data)
    BY DEF TxIds
  <2>2. walletPage'.data[j].id \in {walletPage'.ticker} \X (1..MaxTx)
    BY <1>12, <2>1 DEF Strangers
  <2> QED BY <1>6, <1>8, <2>2
<1>14. txExcuses' = {} => RowsAre(walletPage')
  <2> SUFFICES ASSUME txExcuses' = {} PROVE RowsAre(walletPage')
    OBVIOUS
  <2>1. txExcuses = {} /\ ~SomeWait(walletPage, txCalls[i].txs) /\ "raced" \notin txExcuses'
    BY <1>2
  <2>2. RowsAre(walletPage) /\ \E c : IsHistory(txs, c)
    BY <1>4, <2>1 DEF TxInv, RowsInv
  <2>3. RowsAre(g) \/ Strangers(g)
    BY <1>5, <1>6, <2>1, <2>2
  <2>4. ~Strangers(g)
    BY <1>6, <1>8, <1>12, <2>1 DEF Strangers
  <2> QED BY <1>8, <2>3, <2>4 DEF RowsAre
<1>15. PageSound(walletPage)' /\ RowsInv'
  BY <1>8, <1>14 DEF PageSound, Smaller, RowsInv, RowsAre, PageRecords, TxIds
<1> QED BY <1>11, <1>13, <1>15 DEF TxInv

LEMMA ScrollKeeps == ASSUME TxInv, Scroll PROVE TxInv'
<1> DEFINE p == walletPage
           q == FetchMore(walletPage)
<1>1. walletPage' = q /\ UNCHANGED <<txHistory, txStored, txCalls, txExcuses>>
  BY DEF Scroll
<1>2. /\ p \in PageRecords /\ p.shown \in 0..Len(p.data) /\ p.shown >= Smaller(PageSize, Len(p.data))
      /\ Len(p.data) \in Nat
  BY TxSequence DEF TxInv, PageSound, PageRecords
<1>3. q \in PageRecords /\ q.ticker = p.ticker /\ q.data = p.data /\ q.shown \in p.shown..Len(p.data)
  BY <1>2, FetchMoreIs DEF Kept
<1> HIDE DEF q
<1>4. PageSound(q)
  <2>1. Smaller(PageSize, Len(p.data)) \in Int
    BY <1>2, SizeIs DEF Smaller
  <2>2. q.shown \in 0..Len(q.data) /\ q.shown >= Smaller(PageSize, Len(q.data))
    BY <1>2, <1>3, <2>1
  <2> QED BY <1>3, <2>2 DEF PageSound
<1>5. RowsAre(p) => RowsAre(q)
  <2>1. \A i \in 1..p.shown : i \in 1..q.shown
    BY <1>2, <1>3
  <2> QED BY <1>3, <2>1 DEF RowsAre
<1>6. TxShapes' /\ Histories'
  BY <1>1, HistoriesStay
<1>7. RowsAreOfTheTicker'
  BY <1>1, <1>3 DEF TxInv, RowsAreOfTheTicker
<1>8. RowsInv'
  <2>1. txExcuses' = {} => RowsAre(walletPage')
    BY <1>1, <1>5 DEF TxInv, RowsInv
  <2> QED BY <2>1 DEF RowsInv, RowsAre, TxIds
<1>9. PageSound(walletPage)'
  BY <1>1, <1>4 DEF PageSound, Smaller, PageRecords
<1> QED BY <1>6, <1>7, <1>8, <1>9 DEF TxInv

-----------------------------------------------------------------------------
LEMMA TxInitially == TxInit => TxInv
<1> SUFFICES ASSUME TxInit PROVE TxInv
  OBVIOUS
<1>1. PICK m \in [ShownCoins -> OldTxs] :
        txHistory = [c \in ShownCoins |-> [i \in 1..m[c] |-> [id |-> <<c, m[c] + 1 - i>>, unconfirmed |-> FALSE]]]
  BY DEF TxInit
<1>2. \A c \in ShownCoins : m[c] \in Nat /\ m[c] <= MaxTx
  <2>1. \A n \in OldTxs : n \in Nat /\ n <= MaxTx
    BY TransactionsAssumption, SizeIs DEF TransactionsAssumption
  <2>2. \A c \in ShownCoins : m[c] \in OldTxs
    OBVIOUS
  <2> QED BY <2>1, <2>2
<1>3. ASSUME NEW c \in ShownCoins PROVE txHistory[c] \in Seq(Transaction) /\ IsHistory(txHistory[c], c)
  <2> DEFINE n == m[c]
             h == [i \in 1..n |-> [id |-> <<c, n + 1 - i>>, unconfirmed |-> FALSE]]
  <2> n \in Nat /\ n <= MaxTx
    BY <1>2
  <2>5. txHistory[c] = h
    BY <1>1
  <2> HIDE DEF n
  <2>1. \A i \in 1..n : [id |-> <<c, n + 1 - i>>, unconfirmed |-> FALSE] \in Transaction
    <3>1. \A i \in 1..n : n + 1 - i \in 1..MaxTx
      BY <1>2, SizeIs
    <3> QED BY <3>1 DEF Transaction
  <2>2. h \in [1..n -> Transaction]
    BY <2>1
  <2>3. h \in Seq(Transaction) /\ Len(h) = n
    <3> HIDE DEF h
    <3> QED BY <1>2, <2>2, SeqOfFunction
  <2>4. \A i \in 1..n : h[i].id = <<c, n + 1 - i>> /\ ~h[i].unconfirmed
    OBVIOUS
  <2> HIDE DEF h
  <2> QED BY <2>3, <2>4, <2>5 DEF IsHistory
<1>4. txHistory \in [ShownCoins -> Seq(Transaction)]
  <2>1. txHistory = [c \in ShownCoins |-> txHistory[c]]
    BY <1>1
  <2> QED BY <1>3, <2>1
<1>5. txStored \in [TxKeys -> Answers] /\ \A k \in TxKeys : txStored[k] = NoHistory
  BY DEF TxInit, Answers
<1>6. walletPage \in PageRecords /\ walletPage.data = <<>> /\ walletPage.shown = 0
  <2>1. <<>> \in Seq(Transaction) /\ 0 \in Nat /\ FALSE \in BOOLEAN
    BY EmptySeq
  <2>2. walletPage \in [ticker : ShownCoins, data : {<<>>}, shown : {0}, busy : {FALSE}, failed : {FALSE}]
    BY DEF TxInit
  <2> QED BY <2>1, <2>2 DEF PageRecords
<1>7. txCalls = [i \in TxSlots |-> FreeCall] /\ txExcuses = {}
  BY DEF TxInit
<1>8. PageSound(walletPage)
  <2>1. Len(walletPage.data) = 0 /\ Smaller(PageSize, 0) = 0
    BY <1>6, EmptySeq, SizeIs DEF Smaller
  <2> QED BY <1>6, <2>1 DEF PageSound
<1>9. RowsAre(walletPage)
  BY <1>6, NoRowsAre
<1>10. RowsAreOfTheTicker
  BY <1>6 DEF RowsAreOfTheTicker
<1>11. FreeCall \in Calls /\ FreeCall.at = "free" /\ IsHistory(FreeCall.txs, walletPage.ticker)
  <2>1. <<>> \in Seq(Transaction) /\ Len(<<>>) = 0
    BY EmptySeq
  <2>2. IsHistory(<<>>, walletPage.ticker)
    BY <2>1 DEF IsHistory
  <2> QED BY <2>1, <2>2 DEF FreeCall, Calls, Answers, PlaceNames
<1>12. TxShapes
  BY <1>4, <1>5, <1>7, <1>11 DEF TxShapes, Calls
<1>13. Histories
  <2>1. walletPage.ticker \in ShownCoins
    BY <1>6 DEF PageRecords
  <2>2. \A i \in TxSlots : OfSome(txCalls[i].txs)
    BY <1>7, <1>11, <2>1 DEF OfSome
  <2>3. \A k \in TxKeys : OfSome(txStored[k])
    BY <1>5 DEF OfSome
  <2> QED BY <1>3, <2>2, <2>3 DEF Histories
<1> QED BY <1>8, <1>9, <1>10, <1>12, <1>13 DEF TxInv, RowsInv

-----------------------------------------------------------------------------
(* What calls carry is of their coin.                                      *)

LEMMA OwnCallGoesOn ==
  ASSUME TxInv, OwnInv, NEW i \in TxSlots, NEW call, CallIs(call), CallIsOwn(call),
         txCalls' = [txCalls EXCEPT ![i] = call],
         walletPage'.ticker = walletPage.ticker, UNCHANGED <<txHistory, txStored>>
  PROVE  OwnInv'
<1>1. \A j \in TxSlots : txCalls'[j] = IF j = i THEN call ELSE txCalls[j]
  BY DEF TxInv, TxShapes
<1>2. \A j \in TxSlots : CallIsOwn(txCalls'[j])
  BY <1>1 DEF OwnInv
<1> QED BY <1>2 DEF OwnInv, CallIsOwn

LEMMA FreeIsOwn == ASSUME TxInv PROVE CallIs(FreeCall) /\ CallIsOwn(FreeCall)
<1>1. FreeCall.at = "free"
  BY DEF FreeCall
<1> QED BY <1>1, NothingIs DEF CallIsOwn

\* A call that is asked for.
LEMMA AskedIsOwn ==
  ASSUME TxInv, NEW c \in ShownCoins
  PROVE  LET call == [FreeCall EXCEPT !.at = "asked", !.coin = c] IN CallIs(call) /\ call.at = "asked" /\ CallIsOwn(call)
<1> DEFINE call == [FreeCall EXCEPT !.at = "asked", !.coin = c]
<1>1. call.at = "asked"
  BY DEF FreeCall
<1>2. CallIs(call)
  BY AskedIs
<1> HIDE DEF call
<1> QED BY <1>1, <1>2 DEF CallIsOwn, call

LEMMA MovedIs ==
  ASSUME TxInv, NEW i \in TxSlots, NEW place \in PlaceNames, NEW txs \in Answers, txCalls[i].at # "free"
  PROVE  LET call == [txCalls[i] EXCEPT !.at = place, !.txs = txs]
         IN  /\ CallIs(call) /\ call.at = place /\ call.txs = txs
             /\ call.coin = txCalls[i].coin /\ call.overtaken = txCalls[i].overtaken
<1>1. txCalls[i] \in Calls /\ txCalls[i].coin \in ShownCoins
  BY CallFields DEF CallIs
<1> QED BY <1>1 DEF CallIs, Calls

LEMMA PlacedIs ==
  ASSUME TxInv, NEW i \in TxSlots, NEW place \in PlaceNames, txCalls[i].at # "free"
  PROVE  LET call == [txCalls[i] EXCEPT !.at = place]
         IN  /\ CallIs(call) /\ call.at = place /\ call.txs = txCalls[i].txs
             /\ call.coin = txCalls[i].coin /\ call.overtaken = txCalls[i].overtaken
<1>1. txCalls[i] \in Calls /\ txCalls[i].coin \in ShownCoins
  BY CallFields DEF CallIs
<1> QED BY <1>1 DEF CallIs, Calls

LEMMA OwnCallsKeep ==
  ASSUME TxInv, OwnInv, NEW i \in TxSlots,
         FetchInfos(i) \/ HistoryAnswered(i) \/ CallFails(i) \/ GetTxHistory(i) \/ KdfRefuses(i) \/ UpdateModel(i)
  PROVE  OwnInv'
<1>1. txCalls \in [TxSlots -> Calls] /\ walletPage.ticker \in ShownCoins
  BY CallFields, NothingIs
<1>2. CASE FetchInfos(i)
  <2> DEFINE call == [FreeCall EXCEPT !.at = "asked", !.coin = walletPage.ticker]
  <2>1. CallIs(call) /\ CallIsOwn(call)
    BY <1>1, AskedIsOwn
  <2>2. txCalls' = [txCalls EXCEPT ![i] = call] /\ UNCHANGED <<txHistory, txStored, walletPage>>
    BY <1>2 DEF FetchInfos
  <2> HIDE DEF call
  <2> QED BY <2>1, <2>2, OwnCallGoesOn
<1>3. CASE HistoryAnswered(i)
  <2> DEFINE h == txHistory[txCalls[i].coin]
             call == [txCalls[i] EXCEPT !.at = "answered", !.txs = h]
  <2>1. txCalls[i].at # "free" /\ txCalls[i].coin \in ShownCoins
    BY <1>3, CallFields DEF HistoryAnswered, CallIs
  <2>2. h \in Answers /\ "answered" \in PlaceNames /\ OfCoin(h, txCalls[i].coin)
    BY <2>1 DEF TxInv, TxShapes, Answers, PlaceNames, OwnInv
  <2>3. txCalls' = [txCalls EXCEPT ![i] = call] /\ UNCHANGED <<txHistory, txStored, walletPage>>
    BY <1>1, <1>3 DEF HistoryAnswered
  <2> HIDE DEF h
  <2>4. /\ CallIs(call) /\ call.at = "answered" /\ call.txs = h /\ call.coin = txCalls[i].coin
    BY <2>1, <2>2, MovedIs
  <2> HIDE DEF call
  <2>5. CallIsOwn(call)
    BY <2>2, <2>4 DEF CallIsOwn, Tells
  <2> QED BY <2>3, <2>4, <2>5, OwnCallGoesOn
<1>4. CASE CallFails(i)
  <2>1. txCalls' = [txCalls EXCEPT ![i] = FreeCall] /\ UNCHANGED <<txHistory, txStored, walletPage>>
    BY <1>4 DEF CallFails
  <2> QED BY <2>1, FreeIsOwn, OwnCallGoesOn
<1>5. CASE GetTxHistory(i)
  <2> DEFINE h == txStored[TxKey(walletPage.ticker)]
             call == [txCalls[i] EXCEPT !.at = "read", !.txs = h]
  <2>1. TxKey(walletPage.ticker) \in TxKeys
    BY <1>1 DEF TxKey, TxKeys
  <2>2. h \in Answers /\ "read" \in PlaceNames /\ txCalls[i].at = "named"
    BY <1>5, <2>1 DEF TxInv, TxShapes, PlaceNames, GetTxHistory
  <2>3. txCalls' = [txCalls EXCEPT ![i] = call] /\ UNCHANGED <<txHistory, txStored, walletPage>>
    BY <1>1, <1>5 DEF GetTxHistory
  <2>4. ~txCalls[i].overtaken => Tells(h, txCalls[i].coin) /\ walletPage.ticker = txCalls[i].coin
    BY <2>2 DEF OwnInv, CallIsOwn
  <2> HIDE DEF h
  <2>5. /\ CallIs(call) /\ call.at = "read" /\ call.txs = h
        /\ call.coin = txCalls[i].coin /\ call.overtaken = txCalls[i].overtaken
    BY <2>2, MovedIs
  <2> HIDE DEF call
  <2>6. CallIsOwn(call)
    BY <2>4, <2>5 DEF CallIsOwn
  <2> QED BY <2>3, <2>5, <2>6, OwnCallGoesOn
<1>6. CASE KdfRefuses(i)
  <2>1. txCalls' = [txCalls EXCEPT ![i] = FreeCall] /\ UNCHANGED <<txHistory, txStored>>
        /\ walletPage' = [Reset(walletPage) EXCEPT !.busy = FALSE]
    BY <1>6 DEF KdfRefuses
  <2>2. walletPage'.ticker = walletPage.ticker
    <3>1. PageSound(Reset(walletPage)) /\ Reset(walletPage).ticker = walletPage.ticker
      BY ResetIs DEF TxInv
    <3> QED BY <2>1, <3>1 DEF PageSound, PageRecords
  <2> QED BY <2>1, <2>2, FreeIsOwn, OwnCallGoesOn
<1>7. CASE UpdateModel(i)
  <2> DEFINE none == txCalls[i].txs = NoHistory
             txs == IF none THEN <<>> ELSE txCalls[i].txs
             g == Given(walletPage, txs)
  <2>1. /\ walletPage' = [g EXCEPT !.failed = none, !.busy = FALSE]
        /\ txCalls' = [txCalls EXCEPT ![i] = FreeCall] /\ UNCHANGED <<txStored, txHistory>>
    BY <1>7 DEF UpdateModel, Given
  <2>2. txs \in Seq(Transaction)
    BY NothingIs, CallFields DEF CallIs, Calls, Answers
  <2> HIDE DEF txs
  <2>3. PageSound(g) /\ g.ticker = walletPage.ticker
    BY <2>2, GivenIs DEF TxInv
  <2> HIDE DEF g
  <2>4. none \in BOOLEAN /\ FALSE \in BOOLEAN
    OBVIOUS
  <2> HIDE DEF none
  <2>5. walletPage'.ticker = walletPage.ticker
    BY <2>1, <2>3, <2>4, SameRows
  <2> QED BY <2>1, <2>5, FreeIsOwn, OwnCallGoesOn
<1> QED BY <1>2, <1>3, <1>4, <1>5, <1>6, <1>7

LEMMA OwnFinishedKeeps ==
  ASSUME TxInv, OwnInv, NEW i \in TxSlots, OnTxFetchFinished(i)
  PROVE  OwnInv'
<1>1. txCalls \in [TxSlots -> Calls] /\ txCalls[i].at = "stored" /\ UNCHANGED <<txHistory, txStored>>
  BY CallFields DEF OnTxFetchFinished
<1>2. CASE txCalls[i].coin = walletPage.ticker
  <2> DEFINE call == [txCalls[i] EXCEPT !.at = "named"]
  <2>1. txCalls' = [txCalls EXCEPT ![i] = call] /\ UNCHANGED walletPage
    BY <1>1, <1>2 DEF OnTxFetchFinished
  <2>2. "named" \in PlaceNames /\ txCalls[i].at # "free"
    BY <1>1 DEF PlaceNames
  <2>3. /\ CallIs(call) /\ call.at = "named" /\ call.txs = txCalls[i].txs
        /\ call.coin = txCalls[i].coin /\ call.overtaken = txCalls[i].overtaken
    BY <2>2, PlacedIs
  <2>4. ~txCalls[i].overtaken => Tells(txStored[TxKey(txCalls[i].coin)], txCalls[i].coin)
    BY <1>1 DEF OwnInv, CallIsOwn
  <2> HIDE DEF call
  <2>5. CallIsOwn(call)
    BY <1>2, <2>3, <2>4 DEF CallIsOwn
  <2> QED BY <1>1, <2>1, <2>3, <2>5, OwnCallGoesOn
<1>3. CASE txCalls[i].coin # walletPage.ticker
  <2>1. /\ txCalls' = [txCalls EXCEPT ![i] = FreeCall]
        /\ walletPage' = [Reset(walletPage) EXCEPT !.busy = FALSE]
    BY <1>3 DEF OnTxFetchFinished
  <2>2. walletPage'.ticker = walletPage.ticker
    <3>1. PageSound(Reset(walletPage)) /\ Reset(walletPage).ticker = walletPage.ticker
      BY ResetIs DEF TxInv
    <3> QED BY <2>1, <3>1 DEF PageSound, PageRecords
  <2> QED BY <1>1, <2>1, <2>2, FreeIsOwn, OwnCallGoesOn
<1> QED BY <1>2, <1>3

\* Who chooses another coin overtakes the calls that have compared it.
LEMMA OwnChoiceKeeps ==
  ASSUME TxInv, OwnInv, NEW i \in TxSlots, NEW c \in ShownCoins, SetCurrentTicker(c, i)
  PROVE  OwnInv'
<1> DEFINE call == [FreeCall EXCEPT !.at = "asked", !.coin = c]
<1>1. txCalls' = CallsThen(i, call, Compared) /\ UNCHANGED <<txHistory, txStored>>
  BY DEF SetCurrentTicker
<1>2. CallIs(call) /\ call.at = "asked"
  BY AskedIsOwn
<1> HIDE DEF call
<1>3. /\ txCalls'[i] = call
      /\ \A j \in TxSlots \ {i} :
           /\ txCalls'[j].at = txCalls[j].at /\ txCalls'[j].coin = txCalls[j].coin /\ txCalls'[j].txs = txCalls[j].txs
           /\ txCalls'[j].overtaken = (txCalls[j].overtaken \/ j \in Compared)
  BY <1>1, <1>2, CallsThenAre
<1>4. ASSUME NEW j \in TxSlots PROVE CallIsOwn(txCalls[j])'
  <2>1. CASE j = i
    BY <1>2, <1>3, <2>1 DEF CallIsOwn
  <2>2. CASE j # i
    <3>1. /\ txCalls'[j].at = txCalls[j].at /\ txCalls'[j].coin = txCalls[j].coin /\ txCalls'[j].txs = txCalls[j].txs
          /\ ~txCalls'[j].overtaken => ~txCalls[j].overtaken /\ txCalls[j].at \notin {"named", "read"}
      BY <1>3, <2>2 DEF Compared
    <3>2. CallIsOwn(txCalls[j])
      BY DEF OwnInv
    <3> QED BY <1>1, <3>1, <3>2 DEF CallIsOwn
  <2> QED BY <2>1, <2>2
<1> QED BY <1>1, <1>4 DEF OwnInv

\* What is stored under the key of other coins overtakes the calls for them.
LEMMA OwnAnswerKeeps ==
  ASSUME TxInv, OwnInv, NEW i \in TxSlots, ProcessTxAnswer(i)
  PROVE  OwnInv'
<1> DEFINE call == [txCalls[i] EXCEPT !.at = "stored"]
           late == Overwritten(i)
<1>1. /\ txCalls' = CallsThen(i, call, late) /\ UNCHANGED <<txHistory, walletPage>>
      /\ txStored' = [txStored EXCEPT ![TxKey(txCalls[i].coin)] = txCalls[i].txs]
  BY DEF ProcessTxAnswer
<1>2. txCalls[i].at = "answered" /\ "stored" \in PlaceNames /\ txCalls[i].at # "free"
  BY DEF ProcessTxAnswer, PlaceNames
<1>3. /\ CallIs(call) /\ call.at = "stored" /\ call.txs = txCalls[i].txs
      /\ call.coin = txCalls[i].coin /\ call.overtaken = txCalls[i].overtaken
  BY <1>2, PlacedIs
<1>4. Tells(txCalls[i].txs, txCalls[i].coin) /\ txCalls[i].coin \in ShownCoins
  BY <1>2, CallFields DEF OwnInv, CallIsOwn, CallIs
<1> HIDE DEF call
<1>5. /\ txCalls'[i] = call
      /\ \A j \in TxSlots \ {i} :
           /\ txCalls'[j].at = txCalls[j].at /\ txCalls'[j].coin = txCalls[j].coin /\ txCalls'[j].txs = txCalls[j].txs
           /\ txCalls'[j].overtaken = (txCalls[j].overtaken \/ j \in late)
  BY <1>1, <1>3, CallsThenAre
<1>6. \A c \in ShownCoins : TxKey(c) \in TxKeys
  BY DEF TxKey, TxKeys
<1>7. \A c \in ShownCoins : txStored'[TxKey(c)] =
         IF TxKey(c) = TxKey(txCalls[i].coin) THEN txCalls[i].txs ELSE txStored[TxKey(c)]
  BY <1>1, <1>4, <1>6 DEF TxInv, TxShapes
<1>8. ASSUME NEW j \in TxSlots PROVE CallIsOwn(txCalls[j])'
  <2>1. CASE j = i
    <3>1. txStored'[TxKey(txCalls[i].coin)] = txCalls[i].txs
      BY <1>4, <1>7
    <3> QED BY <1>3, <1>4, <1>5, <2>1, <3>1 DEF CallIsOwn
  <2>2. CASE j # i
    <3> DEFINE c == txCalls[j].coin
    <3>1. /\ txCalls'[j].at = txCalls[j].at /\ txCalls'[j].coin = c /\ txCalls'[j].txs = txCalls[j].txs
          /\ txCalls'[j].overtaken = (txCalls[j].overtaken \/ j \in late)
      BY <1>5, <2>2
    <3>2. CallIsOwn(txCalls[j])
      BY DEF OwnInv
    <3>3. ASSUME txCalls[j].at \in {"stored", "named"}, ~txCalls'[j].overtaken
          PROVE  Tells(txStored'[TxKey(c)], c)
      <4>1. ~txCalls[j].overtaken /\ j \notin late
        BY <3>1, <3>3
      <4>2. c \in ShownCoins /\ Tells(txStored[TxKey(c)], c)
        BY <3>2, <3>3, <4>1, CallFields DEF CallIs, CallIsOwn
      <4>3. CASE TxKey(c) = TxKey(txCalls[i].coin)
        <5>1. c = txCalls[i].coin
          BY <3>3, <4>1, <4>3 DEF late, Overwritten
        <5> QED BY <1>4, <1>7, <4>2, <4>3, <5>1
      <4>4. CASE TxKey(c) # TxKey(txCalls[i].coin)
        BY <1>7, <4>2, <4>4
      <4> QED BY <4>3, <4>4
    <3> HIDE DEF late
    <3> QED BY <1>1, <3>1, <3>2, <3>3 DEF CallIsOwn
  <2> QED BY <2>1, <2>2
<1> QED BY <1>1, <1>8 DEF OwnInv

\* What happens to the transactions of a coin is told of this coin.
LEMMA JoinedOf ==
  ASSUME NEW s \in Seq(Transaction), NEW t \in Seq(Transaction), NEW c, OfCoin(s, c), OfCoin(t, c)
  PROVE  s \o t \in Seq(Transaction) /\ OfCoin(s \o t, c)
<1> DEFINE g == s \o t
<1>1. /\ g \in Seq(Transaction) /\ Len(g) = Len(s) + Len(t)
      /\ \A i \in 1..Len(s) : g[i] = s[i]
      /\ \A i \in 1..Len(t) : g[Len(s) + i] = t[i]
  BY JoinedIs
<1>2. Len(s) \in Nat /\ Len(t) \in Nat
  BY TxSequence
<1> HIDE DEF g
<1>3. ASSUME NEW x \in TxIds(g) PROVE x \in TxIds(s) \union TxIds(t)
  <2>1. PICK i \in 1..Len(g) : g[i].id = x
    BY <1>1, TxIdsAre
  <2>2. CASE i <= Len(s)
    <3>1. i \in 1..Len(s)
      BY <1>2, <2>2
    <3> QED BY <1>1, <2>1, <3>1, TxIdsAre
  <2>3. CASE ~(i <= Len(s))
    <3> DEFINE k == i - Len(s)
    <3>1. k \in 1..Len(t) /\ Len(s) + k = i
      BY <1>1, <1>2, <2>3
    <3> HIDE DEF k
    <3> QED BY <1>1, <2>1, <3>1, TxIdsAre
  <2> QED BY <2>2, <2>3
<1> QED BY <1>1, <1>3 DEF OfCoin, g

LEMMA PartOf ==
  ASSUME NEW s \in Seq(Transaction), NEW m \in Nat \ {0}, NEW n \in Nat, n <= Len(s), m <= n + 1,
         NEW c, OfCoin(s, c)
  PROVE  SubSeq(s, m, n) \in Seq(Transaction) /\ OfCoin(SubSeq(s, m, n), c)
<1> DEFINE g == SubSeq(s, m, n)
<1>1. /\ g \in Seq(Transaction) /\ Len(g) = n - m + 1
      /\ \A i \in 1..(n - m + 1) : g[i] = s[m + i - 1]
  BY Part
<1>2. Len(s) \in Nat
  BY TxSequence
<1> HIDE DEF g
<1>3. ASSUME NEW x \in TxIds(g) PROVE x \in TxIds(s)
  <2>1. PICK i \in 1..Len(g) : g[i].id = x
    BY <1>1, TxIdsAre
  <2>2. m + i - 1 \in 1..Len(s) /\ i \in 1..(n - m + 1)
    BY <1>1, <1>2
  <2> QED BY <1>1, <2>1, <2>2, TxIdsAre
<1> QED BY <1>1, <1>3 DEF OfCoin, g

LEMMA OneOf ==
  ASSUME TxInv, NEW c \in ShownCoins, Len(txHistory[c]) < MaxTx, NEW b \in BOOLEAN
  PROVE  LET s == <<[id |-> Fresh(c), unconfirmed |-> b]>> IN s \in Seq(Transaction) /\ OfCoin(s, c)
<1> DEFINE x == [id |-> Fresh(c), unconfirmed |-> b]
           s == <<x>>
<1>1. x \in Transaction /\ x.id = <<c, Len(txHistory[c]) + 1>>
  BY FreshIs DEF TxInv, Fresh
<1>2. x.id \in {c} \X (1..MaxTx)
  BY <1>1 DEF Transaction
<1> HIDE DEF x
<1>3. s \in Seq(Transaction) /\ Len(s) = 1 /\ s[1] = x
  BY <1>1, OneIs
<1> HIDE DEF s
<1>4. ASSUME NEW y \in TxIds(s) PROVE y = x.id
  <2>1. PICK i \in 1..Len(s) : s[i].id = y
    BY <1>3, TxIdsAre
  <2>2. i = 1
    BY <1>3
  <2> QED BY <1>3, <2>1, <2>2
<1> QED BY <1>2, <1>3, <1>4 DEF OfCoin, s, x

LEMMA OwnHistoryKeeps ==
  ASSUME TxInv, OwnInv, NEW c \in ShownCoins, Arrives(c) \/ ArrivesConfirmed(c) \/ Confirms(c)
  PROVE  OwnInv'
<1> DEFINE h == txHistory[c]
           u == InMempool(h)
<1>1. UNCHANGED <<txStored, walletPage, txCalls>>
  BY DEF Arrives, ArrivesConfirmed, Confirms
<1>2. h \in Seq(Transaction) /\ Len(h) \in Nat /\ c \in DOMAIN txHistory /\ OfCoin(h, c)
  BY TxSequence DEF TxInv, TxShapes, OwnInv
<1>3. u \in Nat /\ u <= Len(h)
  BY <1>2, MempoolIs
<1>4. \E g \in Seq(Transaction) : txHistory' = [txHistory EXCEPT ![c] = g] /\ OfCoin(g, c)
  <2>1. CASE Arrives(c)
    <3> DEFINE s == <<[id |-> Fresh(c), unconfirmed |-> TRUE]>>
    <3>1. txHistory' = [txHistory EXCEPT ![c] = s \o h] /\ Len(h) < MaxTx
      BY <1>2, <2>1 DEF Arrives
    <3>2. s \in Seq(Transaction) /\ OfCoin(s, c)
      BY <3>1, OneOf
    <3> HIDE DEF s, h
    <3> QED BY <1>2, <3>1, <3>2, JoinedOf
  <2>2. CASE ArrivesConfirmed(c)
    <3> DEFINE s == <<[id |-> Fresh(c), unconfirmed |-> FALSE]>>
               head == SubSeq(h, 1, u)
               tail == SubSeq(h, u + 1, Len(h))
    <3>1. txHistory' = [txHistory EXCEPT ![c] = head \o s \o tail] /\ Len(h) < MaxTx
      BY <1>2, <2>2 DEF ArrivesConfirmed
    <3>2. s \in Seq(Transaction) /\ OfCoin(s, c)
      BY <3>1, OneOf
    <3> HIDE DEF s, h, u
    <3>3. 1 \in Nat \ {0} /\ 1 <= u + 1 /\ u + 1 \in Nat \ {0} /\ u + 1 <= Len(h) + 1 /\ Len(h) <= Len(h)
      BY <1>2, <1>3
    <3>4. head \in Seq(Transaction) /\ OfCoin(head, c)
      BY <1>2, <1>3, <3>3, PartOf
    <3>5. tail \in Seq(Transaction) /\ OfCoin(tail, c)
      BY <1>2, <1>3, <3>3, PartOf
    <3> HIDE DEF head, tail
    <3>6. head \o s \in Seq(Transaction) /\ OfCoin(head \o s, c)
      BY <3>2, <3>4, JoinedOf
    <3> QED BY <3>1, <3>5, <3>6, JoinedOf
  <2>3. CASE Confirms(c)
    <3> DEFINE x == [h[u] EXCEPT !.unconfirmed = FALSE]
               g == [h EXCEPT ![u] = x]
    <3>1. txHistory' = [txHistory EXCEPT ![c] = g] /\ u \in 1..Len(h)
      BY <1>2, <1>3, <2>3 DEF Confirms
    <3>2. x \in Transaction /\ x.id = h[u].id
      <4>1. h[u] \in Transaction
        BY <1>2, <3>1, TxSequence
      <4> HIDE DEF h, u
      <4> QED BY <4>1 DEF Transaction
    <3> HIDE DEF h, u, x
    <3>3. /\ g \in Seq(Transaction) /\ Len(g) = Len(h)
          /\ \A i \in 1..Len(h) : g[i] = IF i = u THEN x ELSE h[i]
      BY <1>2, <3>1, <3>2, ExceptSeq
    <3> HIDE DEF g
    <3>4. \A i \in 1..Len(h) : g[i].id = h[i].id
      BY <3>2, <3>3
    <3>5. TxIds(g) \subseteq TxIds(h)
      BY <1>2, <3>3, <3>4, TxIdsAre
    <3> QED BY <1>2, <3>1, <3>3, <3>5 DEF OfCoin
  <2> QED BY <2>1, <2>2, <2>3
<1>5. \A d \in ShownCoins : OfCoin(txHistory'[d], d)
  <2>1. PICK g \in Seq(Transaction) : txHistory' = [txHistory EXCEPT ![c] = g] /\ OfCoin(g, c)
    BY <1>4
  <2>2. \A d \in ShownCoins : txHistory'[d] = IF d = c THEN g ELSE txHistory[d]
    BY <2>1 DEF TxInv, TxShapes
  <2> QED BY <2>1, <2>2 DEF OwnInv
<1> QED BY <1>1, <1>5 DEF OwnInv, CallIsOwn

LEMMA OwnScrollKeeps == ASSUME TxInv, OwnInv, Scroll PROVE OwnInv'
<1>1. walletPage' = FetchMore(walletPage) /\ UNCHANGED <<txHistory, txStored, txCalls>>
  BY DEF Scroll
<1>2. walletPage \in PageRecords /\ walletPage.shown \in 0..Len(walletPage.data)
  BY DEF TxInv, PageSound
<1>3. walletPage'.ticker = walletPage.ticker
  BY <1>1, <1>2, FetchMoreIs DEF Kept
<1> QED BY <1>1, <1>3 DEF OwnInv, CallIsOwn

LEMMA OwnInitially == ASSUME TxInit, TxInv PROVE OwnInv
<1>1. txCalls = [i \in TxSlots |-> FreeCall]
  BY DEF TxInit
<1>2. \A i \in TxSlots : CallIsOwn(txCalls[i])
  BY <1>1, FreeIsOwn
<1>3. PICK n \in [ShownCoins -> OldTxs] :
        txHistory = [c \in ShownCoins |-> [i \in 1..n[c] |-> [id |-> <<c, n[c] + 1 - i>>, unconfirmed |-> FALSE]]]
  BY DEF TxInit
<1>4. ASSUME NEW c \in ShownCoins PROVE OfCoin(txHistory[c], c)
  <2> DEFINE h == txHistory[c]
  <2>1. h = [i \in 1..n[c] |-> [id |-> <<c, n[c] + 1 - i>>, unconfirmed |-> FALSE]]
    BY <1>3
  <2>2. h \in Seq(Transaction)
    BY DEF TxInv, TxShapes
  <2> HIDE DEF h
  <2>4. \A i \in DOMAIN h : h[i].id[1] = c
    <3> DEFINE r(i) == [id |-> <<c, n[c] + 1 - i>>, unconfirmed |-> FALSE]
    <3>1. \A i : r(i).id[1] = c
      OBVIOUS
    <3>2. h = [i \in 1..n[c] |-> r(i)]
      BY <2>1
    <3> HIDE DEF r
    <3> QED BY <3>1, <3>2
  <2>3. ASSUME NEW x \in TxIds(h) PROVE x \in {c} \X (1..MaxTx)
    <3>1. PICK i \in 1..Len(h) : h[i].id = x
      BY <2>2, TxIdsAre
    <3>2. h[i].id \in ShownCoins \X (1..MaxTx) /\ h[i].id[1] = c
      BY <2>2, <2>4, TxSequence
    <3> QED BY <3>1, <3>2
  <2> QED BY <2>3 DEF OfCoin, h
<1> QED BY <1>2, <1>4 DEF OwnInv

LEMMA TxStep == TxInv /\ OwnInv /\ [TxNext]_txVars => (TxInv /\ OwnInv)'
<1> SUFFICES ASSUME TxInv, OwnInv, [TxNext]_txVars PROVE TxInv' /\ OwnInv'
  OBVIOUS
<1>1. CASE UNCHANGED txVars
  BY <1>1, HistoriesStay, PageStaying DEF txVars, PageStays, TxInv, OwnInv, CallIsOwn
<1>2. CASE \E i \in TxSlots, coin \in ShownCoins : SetCurrentTicker(coin, i)
  BY <1>2, SetCurrentTickerKeeps, OwnChoiceKeeps
<1>3. CASE \E i \in TxSlots : FetchInfos(i) \/ HistoryAnswered(i) \/ CallFails(i) \/ GetTxHistory(i)
  BY <1>3, CallsKeep, OwnCallsKeep
<1>4. CASE \E i \in TxSlots : KdfRefuses(i) \/ ProcessTxAnswer(i)
  BY <1>4, RefusedKeeps, ProcessTxAnswerKeeps, OwnCallsKeep, OwnAnswerKeeps
<1>5. CASE \E i \in TxSlots : OnTxFetchFinished(i) \/ UpdateModel(i)
  BY <1>5, OnTxFetchFinishedKeeps, UpdateModelKeeps, OwnFinishedKeeps, OwnCallsKeep
<1>6. CASE Scroll
  BY <1>6, ScrollKeeps, OwnScrollKeeps
<1>7. CASE \E coin \in ShownCoins : Arrives(coin) \/ ArrivesConfirmed(coin) \/ Confirms(coin)
  BY <1>7, ArrivesKeeps, ArrivesConfirmedKeeps, ConfirmsKeeps, OwnHistoryKeeps
<1> QED BY <1>1, <1>2, <1>3, <1>4, <1>5, <1>6, <1>7 DEF TxNext

LEMMA TxInvIsEnough == TxInv => HistoryIsOfTheCoin
<1> SUFFICES ASSUME TxInv PROVE HistoryIsOfTheCoin
  OBVIOUS
<1>1. TxTypeOK
  BY DEF TxInv, TxShapes, PageSound, PageRecords, TxTypeOK, Answers
<1>2. NoRowTwice
  <2> SUFFICES ASSUME txExcuses = {} PROVE Cardinality(TxIds(walletPage.data)) = Len(walletPage.data)
    BY DEF NoRowTwice
  <2> DEFINE m == Len(walletPage.data)
             t == walletPage.ticker
  <2>1. m \in Nat /\ TxIds(walletPage.data) = {t} \X (1..m)
    BY TxSequence DEF TxInv, RowsInv, RowsAre, PageSound, PageRecords
  <2>2. IsFiniteSet(1..m) /\ Cardinality(1..m) = m
    <3>1. 1 \in Int /\ m \in Int /\ (1 > m => m = 0) /\ m - 1 + 1 = m
      BY <2>1
    <3>2. IsFiniteSet(1..m) /\ Cardinality(1..m) = IF 1 > m THEN 0 ELSE m - 1 + 1
      BY <3>1, FS_Interval
    <3> HIDE DEF m
    <3> QED BY <2>1, <3>1, <3>2
  <2>3. IsFiniteSet({t}) /\ Cardinality({t}) = 1
    BY FS_Singleton
  <2> HIDE DEF m, t
  <2>4. Cardinality({t} \X (1..m)) = 1 * m
    BY <2>2, <2>3, FS_Product
  <2> QED BY <2>1, <2>4 DEF m
<1> QED BY <1>1, <1>2 DEF TxInv, HistoryIsOfTheCoin

\* Whatever the coins, the page and the answers that overtake each other,
\* transactions_model holds each transaction once and those of the coin shown only,
\* but for the excuses that NoRowTwice and RowsAreOfTheTicker name.
THEOREM HistoryIsAlwaysOfTheCoin == TxSpec => []HistoryIsOfTheCoin
<1>1. TxInit => TxInv /\ OwnInv
  BY TxInitially, OwnInitially
<1> QED BY <1>1, TxStep, TxInvIsEnough, PTL DEF TxSpec
=============================================================================
