--------------------------- MODULE CoinStatusFile ---------------------------
(***************************************************************************)
(* The files that keep a wallet's coins: <version>-coins.<wallet>.json     *)
(* (main), custom-tokens.<wallet>.json (custom), and the main file of the  *)
(* version before (old).  update_coin_status, add_new_coin,                *)
(* remove_custom_coin and reset_coin_cfg each read a file, change what     *)
(* they read and write the whole of it back.  The GUI thread runs one of   *)
(* them at a time; the workers of shielded coins run update_coin_status    *)
(* beside it, and no lock covers the files.  The process may end at any    *)
(* moment.                                                                 *)
(*                                                                         *)
(* Abstracted: all fields of a coin but "active"; coins.json, which only   *)
(* the GUI thread writes; whether a document is indented; custom coins     *)
(* that an old version kept in its main file.                              *)
(***************************************************************************)
EXTENDS Integers, FiniteSets

CONSTANTS
    MainCoins,    \* tickers of the main file
    CustomCoins,  \* tickers the user may add
    DefaultCoins, \* g_default_coins, active whenever they are loaded
    PrimaryDexCoins, \* those of them that are never disabled
    ShieldedCoins,\* coins whose activation runs in a worker of its own
    OldActive,    \* active coins of the version before
    Gui,          \* the GUI thread
    MaxLogins,    \* bound: logins per behaviour
    MaxCommands   \* bound: changes begun per behaviour

ASSUME StatusFileAssumption ==
    /\ IsFiniteSet(MainCoins) /\ IsFiniteSet(CustomCoins)
    /\ MainCoins \cap CustomCoins = {}
    /\ PrimaryDexCoins \subseteq DefaultCoins
    /\ DefaultCoins \subseteq MainCoins
    /\ ShieldedCoins \subseteq MainCoins \ DefaultCoins
    /\ OldActive \subseteq MainCoins
    /\ Gui \notin ShieldedCoins
    /\ MaxLogins \in Nat
    /\ MaxCommands \in Nat

VARIABLES
    phase,     \* of the process: down, in a login, or up
    registry,  \* m_coins_informations: the tickers, and those active
    files,     \* the two files
    old,       \* whether the file of the version before is there
    writer,    \* per thread: the function it is in, and its locals
    added,     \* history: coins added since the login
    overlapped,\* history: two changes ran at once since the login
    logins,    \* bound
    commands   \* bound

history == <<added, overlapped>>
bounds == <<logins, commands>>
vars == <<phase, registry, files, old, writer, history, bounds>>

-----------------------------------------------------------------------------
(* Seeded faults: each replaces one definition below, to show that a        *)
(* property notices it.                                                    *)

MutOpenFails == [doc |-> [known |-> {}, active |-> {}], size |-> 0 - 1]

MutUnrepaired(file) == file

MutRemovedBeforeWriting == writer[Gui].pc = "fillMain"

MutOnlyTheNewCoin(w, doc) ==
    IF writer[w].op = "add" THEN [known |-> writer[w].todo, active |-> writer[w].todo] ELSE doc

MutCustomLeftOut(w) ==
    CASE writer[w].op = "upgrade" -> "removeOld"
      [] writer[w].op = "reset"   -> "readCustom"
      [] OTHER                    -> "idle"

-----------------------------------------------------------------------------
Coins == MainCoins \cup CustomCoins

Threads == {Gui} \cup ShieldedCoins

\* A JSON document: its tickers and the active ones.  null counts as empty.
Docs == [known: SUBSET Coins, active: SUBSET Coins]

EmptyDoc == [known |-> {}, active |-> {}]

DefaultDoc == [known |-> MainCoins, active |-> DefaultCoins]

\* "false" is a character longer than "true", an entry longer than any flags.
Size(doc) ==
    1 + Cardinality(doc.known) * (1 + Cardinality(Coins)) + Cardinality(doc.known \ doc.active)

\* A file: the document at its start, and its size.
Truncated == [doc |-> EmptyDoc, size |-> 0]

FileOf(doc) == [doc |-> doc, size |-> Size(doc)]

\* A write starts at the beginning and cuts nothing off: what another thread
\* wrote since the truncation sticks out behind a shorter document.
Over(file, doc) ==
    [doc |-> doc, size |-> IF file.size > Size(doc) THEN file.size ELSE Size(doc)]

\* What nlohmann::json::accept takes.
Whole(file) == file.size = Size(file.doc)

\* read_json_file: null unless the file is there and accepted.
Contents(file) == IF Whole(file) THEN file.doc ELSE EmptyDoc

Marked(doc, tickers, status) ==
    [doc EXCEPT !.active = IF status THEN doc.active \cup tickers ELSE doc.active \ tickers]

Idle == [pc |-> "idle", op |-> "none", todo |-> {}, status |-> FALSE,
         main |-> EmptyDoc, custom |-> EmptyDoc]

AllIdle == \A w \in Threads : writer[w].pc = "idle"

Goto(w, pc) == writer' = [writer EXCEPT ![w].pc = pc]

Init ==
    /\ phase = "down"
    /\ registry = EmptyDoc
    /\ files = [main |-> Truncated, custom |-> Truncated]
    /\ old \in BOOLEAN
    /\ writer = [w \in Threads |-> Idle]
    /\ added = {}
    /\ overlapped = FALSE
    /\ logins = 0
    /\ commands = 0

-----------------------------------------------------------------------------
(* The process.                                                            *)

\* Everything but the files is lost.
Ends ==
    /\ phase' = "down"
    /\ registry' = EmptyDoc
    /\ writer' = [w \in Threads |-> Idle]
    /\ UNCHANGED <<files, old, history, bounds>>

Stop == phase # "down" /\ Ends

\* qt_wallet_manager::login puts the default file in place of one that is not
\* accepted.
Repaired(file) == IF Whole(file) THEN file ELSE FileOf(DefaultDoc)

\* check_for_reconfiguration: the flags of the version before.
Upgraded(doc) == [doc EXCEPT !.active = OldActive \cap doc.known]

Login ==
    /\ phase = "down"
    /\ logins < MaxLogins
    /\ phase' = "login"
    /\ files' = [files EXCEPT !.main = Repaired(files.main)]
    /\ writer' = [writer EXCEPT ![Gui] =
         IF old THEN [@ EXCEPT !.pc = "truncMain", !.op = "upgrade",
                               !.main = Upgraded(Contents(Repaired(files.main)))]
                ELSE [@ EXCEPT !.pc = "load"]]
    /\ added' = {}
    /\ overlapped' = FALSE
    /\ logins' = logins + 1
    /\ UNCHANGED <<registry, old, commands>>

\* The old file goes when the new one is written.
OldIsDone == writer[Gui].pc = "removeOld"

RemoveOld ==
    /\ writer[Gui].op = "upgrade"
    /\ OldIsDone
    /\ old' = FALSE
    /\ Goto(Gui, "load")
    /\ UNCHANGED <<phase, registry, files, history, bounds>>

\* retrieve_coins_informations: both files, the default coins made active.
Load ==
    /\ writer[Gui].pc = "load"
    /\ LET main == Contents(files.main)
           custom == Contents(files.custom)
       IN registry' = [known |-> main.known \cup custom.known,
                       active |-> main.active \cup custom.active \cup (DefaultCoins \cap main.known)]
    /\ phase' = "up"
    /\ writer' = [writer EXCEPT ![Gui] = Idle]
    /\ UNCHANGED <<files, old, history, bounds>>

-----------------------------------------------------------------------------
(* The commands.                                                           *)

Begins(w, pc, op, todo, status) ==
    /\ phase = "up"
    /\ writer[w].pc = "idle"
    /\ commands < MaxCommands
    /\ writer' = [writer EXCEPT ![w] =
         [pc |-> pc, op |-> op, todo |-> todo, status |-> status, main |-> EmptyDoc, custom |-> EmptyDoc]]
    /\ overlapped' = (overlapped \/ ~ AllIdle)
    /\ commands' = commands + 1
    /\ UNCHANGED <<phase, registry, files, old, added, logins>>

\* kdf_service::update: enabled coins that are not active.
MarkActive(tickers) ==
    /\ tickers # {}
    /\ tickers \subseteq registry.known \ registry.active
    /\ Begins(Gui, "readMain", "update", tickers, TRUE)

\* disable_multiple_coins.
DisableCoins(tickers) ==
    /\ tickers # {}
    /\ tickers \subseteq registry.known \ PrimaryDexCoins
    /\ Begins(Gui, "readMain", "update", tickers, FALSE)

\* enable_zhtlc: a worker marks its coin inactive.
WorkerUpdates(c) ==
    /\ c \in registry.known
    /\ Begins(c, "readMain", "update", {c}, FALSE)

\* add_new_coin: the registry learns of the coin at the next login.
AddCoin(c) ==
    /\ c \notin registry.known
    /\ Begins(Gui, "readCustom", "add", {c}, TRUE)

\* remove_custom_coin: the menu disables the coin first.
RemoveCoin(c) ==
    /\ c \in registry.known \ registry.active
    /\ Begins(Gui, "readCustom", "remove", {c}, FALSE)

\* reset_coin_cfg, which restarts the application at its end.
ResetCoins == Begins(Gui, "readMain", "reset", {}, FALSE)

-----------------------------------------------------------------------------
(* Reading and changing.                                                   *)

ReadMain(w) ==
    /\ writer[w].pc = "readMain"
    /\ writer[w].op = "update"
    /\ writer' = [writer EXCEPT ![w] = [@ EXCEPT !.pc = "readCustom", !.main = Contents(files.main)]]
    /\ UNCHANGED <<phase, registry, files, old, history, bounds>>

\* reset_coin_cfg reads the active coins and copies the default file over.
ReadForReset ==
    /\ writer[Gui].pc = "readMain"
    /\ writer[Gui].op = "reset"
    /\ Whole(files.main)
    /\ writer' = [writer EXCEPT ![Gui] = [@ EXCEPT !.pc = "truncMain",
                    !.main = Marked(DefaultDoc, MainCoins \cap files.main.doc.active, TRUE)]]
    /\ files' = [files EXCEPT !.main = FileOf(DefaultDoc)]
    /\ UNCHANGED <<phase, registry, old, history, bounds>>

\* What each function does to the custom tokens it has read.
ChangedCustom(w, doc) ==
    CASE writer[w].op = "add"    -> [known |-> doc.known \cup writer[w].todo,
                                     active |-> doc.active \cup writer[w].todo]
      [] writer[w].op = "remove" -> [known |-> doc.known \ writer[w].todo,
                                     active |-> doc.active \ writer[w].todo]
      [] writer[w].op = "reset"  -> [doc EXCEPT !.active = {}]
      [] OTHER                   -> doc

ReadCustom(w) ==
    /\ writer[w].pc = "readCustom"
    /\ (writer[w].op = "remove") => (writer[w].todo \subseteq Contents(files.custom).known)
    /\ writer' = [writer EXCEPT ![w] = [@ EXCEPT
                    !.pc = IF writer[w].op = "update" THEN "apply" ELSE "truncCustom",
                    !.custom = ChangedCustom(w, Contents(files.custom))]]
    /\ registry' = IF writer[w].op = "remove"
                   THEN [known |-> registry.known \ writer[w].todo,
                         active |-> registry.active \ writer[w].todo]
                   ELSE registry
    /\ UNCHANGED <<phase, files, old, history, bounds>>

\* One ticker of update_coin_status, under the shared lock of the registry; a
\* ticker missing from what was read throws.
Missing(w, c) ==
    IF c \in CustomCoins THEN c \notin writer[w].custom.known ELSE c \notin writer[w].main.known

Apply(w, c) ==
    /\ writer[w].pc = "apply"
    /\ c \in writer[w].todo
    /\ ~ Missing(w, c)
    /\ LET s == writer[w].status IN
       /\ registry' = Marked(registry, {c}, s)
       /\ writer' = [writer EXCEPT ![w] = [@ EXCEPT
                       !.pc = IF writer[w].todo = {c} THEN "truncMain" ELSE "apply",
                       !.todo = writer[w].todo \ {c},
                       !.main = IF c \in CustomCoins THEN writer[w].main ELSE Marked(writer[w].main, {c}, s),
                       !.custom = IF c \in CustomCoins THEN Marked(writer[w].custom, {c}, s) ELSE writer[w].custom]]
    /\ UNCHANGED <<phase, files, old, history, bounds>>

\* The places where a file that is not accepted makes a function throw.
Throws(w) ==
    \/ writer[w].pc = "apply" /\ \E c \in writer[w].todo : Missing(w, c)
    \/ writer[w].pc = "readMain" /\ writer[w].op = "reset" /\ ~ Whole(files.main)
    \/ writer[w].pc = "readCustom" /\ writer[w].op = "remove"
          /\ ~ (writer[w].todo \subseteq Contents(files.custom).known)

\* In the GUI thread nothing catches it.
GuiThrows == Throws(Gui) /\ Ends

\* A worker catches it, or the task that holds it ends the process.
WorkerThrows(c) ==
    /\ Throws(c)
    /\ \/ Ends
       \/ /\ writer' = [writer EXCEPT ![c] = Idle]
          /\ UNCHANGED <<phase, registry, files, old, history, bounds>>

-----------------------------------------------------------------------------
(* Writing: opening a file truncates it.                                   *)

TruncateMain(w) ==
    /\ writer[w].pc = "truncMain"
    /\ files' = [files EXCEPT !.main = Truncated]
    /\ Goto(w, "fillMain")
    /\ UNCHANGED <<phase, registry, old, history, bounds>>

\* update_coin_status writes the custom file only when it holds something.
AfterMain(w) ==
    CASE writer[w].op = "upgrade" -> "removeOld"
      [] writer[w].op = "reset"   -> "readCustom"
      [] OTHER -> IF writer[w].custom.known = {} THEN "idle" ELSE "truncCustom"

FillMain(w) ==
    /\ writer[w].pc = "fillMain"
    /\ files' = [files EXCEPT !.main = Over(files.main, writer[w].main)]
    /\ writer' = [writer EXCEPT ![w] =
                    IF AfterMain(w) = "idle" THEN Idle ELSE [@ EXCEPT !.pc = AfterMain(w)]]
    /\ UNCHANGED <<phase, registry, old, history, bounds>>

TruncateCustom(w) ==
    /\ writer[w].pc = "truncCustom"
    /\ files' = [files EXCEPT !.custom = Truncated]
    /\ Goto(w, "fillCustom")
    /\ UNCHANGED <<phase, registry, old, history, bounds>>

\* reset_coin_cfg goes on to restart the application.
FillCustom(w) ==
    /\ writer[w].pc = "fillCustom"
    /\ files' = [files EXCEPT !.custom = Over(files.custom, writer[w].custom)]
    /\ writer' = [writer EXCEPT ![w] = IF writer[w].op = "reset" THEN [@ EXCEPT !.pc = "restart"] ELSE Idle]
    /\ added' = CASE writer[w].op = "add"    -> added \cup writer[w].todo
                  [] writer[w].op = "remove" -> added \ writer[w].todo
                  [] OTHER                   -> added
    /\ UNCHANGED <<phase, registry, old, overlapped, bounds>>

-----------------------------------------------------------------------------
Command ==
    \/ \E tickers \in SUBSET Coins : MarkActive(tickers) \/ DisableCoins(tickers)
    \/ \E c \in ShieldedCoins : WorkerUpdates(c)
    \/ \E c \in CustomCoins : AddCoin(c) \/ RemoveCoin(c)
    \/ ResetCoins

Works(w) ==
    \/ ReadMain(w) \/ ReadCustom(w) \/ (\E c \in Coins : Apply(w, c))
    \/ TruncateMain(w) \/ FillMain(w) \/ TruncateCustom(w) \/ FillCustom(w)

Next ==
    \/ Stop \/ Login \/ RemoveOld \/ Load
    \/ Command \/ ReadForReset \/ GuiThrows
    \/ \E w \in Threads : Works(w)
    \/ \E c \in ShieldedCoins : WorkerThrows(c)

Spec == Init /\ [][Next]_vars

-----------------------------------------------------------------------------
(* Properties.                                                             *)

Pcs == {"idle", "load", "removeOld", "readMain", "readCustom", "apply",
        "truncMain", "fillMain", "truncCustom", "fillCustom", "restart"}

\* Every variable has its type.
TypeOK ==
    /\ phase \in {"down", "login", "up"}
    /\ registry \in Docs
    /\ files \in [main: [doc: Docs, size: Nat], custom: [doc: Docs, size: Nat]]
    /\ old \in BOOLEAN
    /\ writer \in [Threads -> [pc: Pcs, op: {"none", "upgrade", "update", "add", "remove", "reset"},
                               todo: SUBSET Coins, status: BOOLEAN, main: Docs, custom: Docs]]
    /\ added \subseteq Coins
    /\ overlapped \in BOOLEAN
    /\ logins \in 0..MaxLogins
    /\ commands \in 0..MaxCommands

\* A coin is saved as it is in the registry; a default coin may be saved
\* inactive, since loading makes it active.
SavedAs(c, doc) ==
    /\ c \in doc.known
    /\ (c \in doc.active) => (c \in registry.active)
    /\ (c \in registry.active) => (c \in doc.active \cup DefaultCoins)

Agree ==
    \A c \in registry.known :
      SavedAs(c, Contents(IF c \in CustomCoins THEN files.custom ELSE files.main))

\* "Mark coins as active internally, and updates the coins file": between two
\* updates the registry and the files agree.
SavedIsRegistry == phase = "up" /\ AllIdle => Agree

\* Changes that do not overlap keep the registry and the files in agreement,
\* whenever the process ends and whatever it left in the files.
SerialChangesAgree == ~ overlapped => SavedIsRegistry

\* Nobody is between the truncation of the main file and its end.
NotWriting == \A w \in Threads : writer[w].pc # "fillMain"

\* "Coins file updated": unless it is being written the file is accepted.
FileStaysWhole == phase = "up" /\ NotWriting => Whole(files.main)

\* Changes that do not overlap leave the main file whole.
SerialChangesKeepWhole == ~ overlapped => FileStaysWhole

\* "Adding entry : {} to adex current wallet coins file": it stays there.
AddedCoinIsKept == phase = "up" /\ AllIdle => added \subseteq Contents(files.custom).known

\* Without an overlap it does.
SerialAddsAreKept == ~ overlapped => AddedCoinIsKept

\* The old file only goes when its flags are in the new one, at whatever step
\* of the upgrade the process ended before.
UpgradeKeepsSettings == [][old /\ ~ old' => Contents(files.main).active = OldActive]_vars

\* Changes by update_coin_status and the other writers that do not overlap keep the
\* files whole, in agreement with the registry and with the tokens added.
SerialChangesHold ==
    TypeOK /\ SerialChangesAgree /\ SerialChangesKeepWhole /\ SerialAddsAreKept
=============================================================================
