---------------------------- MODULE Records_proofs ---------------------------
(***************************************************************************)
(* Proofs about what is kept by records of several parts, for any coins,   *)
(* logins and commands: that changes of the coin files that do not overlap *)
(* hold, whenever the process ends, and that an upgrade keeps its settings;*)
(* for any names and addresses, that the contacts of the address book are  *)
(* what was entered for them; and, for any prices and orders, that the rows*)
(* of the orderbook, and what it says of the order picked, are of the last *)
(* answer of the daemon.                                                   *)
(***************************************************************************)
EXTENDS CoinStatusFile, Addressbook, OrderbookRows, FiniteSetTheorems, SequenceTheorems, WellFoundedInduction, TLAPS

-----------------------------------------------------------------------------
(* The coin files: the inductive invariant.                                *)

DocsOf(S) == [known : SUBSET S, active : SUBSET S]

Ops == {"none", "upgrade", "update", "add", "remove", "reset"}

Writers == [pc : Pcs, op : Ops, todo : SUBSET Coins, status : BOOLEAN,
            main : DocsOf(MainCoins), custom : DocsOf(CustomCoins)]

\* The main file holds coins of the main file only, and the other custom coins.
FileTypes ==
    /\ phase \in {"down", "login", "up"}
    /\ registry \in Docs
    /\ files \in [main : [doc : DocsOf(MainCoins), size : Nat],
                  custom : [doc : DocsOf(CustomCoins), size : Nat]]
    /\ old \in BOOLEAN
    /\ writer \in [Threads -> Writers]
    /\ added \subseteq Coins
    /\ overlapped \in BOOLEAN
    /\ logins \in 0..MaxLogins /\ commands \in 0..MaxCommands

\* What a thread is at belongs to the function it runs.
TaskFits(w) ==
    /\ writer[w].op = "upgrade" \/ writer[w].pc = "load" => phase = "login"
    /\ writer[w].op = "add" => writer[w].todo \subseteq CustomCoins
    /\ writer[w].pc = "readMain" => writer[w].op \in {"update", "reset"}
    /\ writer[w].pc = "apply" => writer[w].op = "update"
    /\ writer[w].pc \in {"truncMain", "fillMain"} => writer[w].op \in {"update", "reset", "upgrade"}
    /\ writer[w].pc \in {"readCustom", "truncCustom", "fillCustom"} =>
         writer[w].op \in {"update", "add", "remove", "reset"}
    /\ writer[w].pc = "removeOld" => writer[w].op = "upgrade"
    /\ writer[w].pc = "restart" => writer[w].op = "reset"

\* Which thread runs which function, and when.
ThreadsFit ==
    /\ phase = "down" => AllIdle
    /\ phase = "login" => /\ \A w \in ShieldedCoins : writer[w].pc = "idle"
                          /\ added = {} /\ ~overlapped
                          /\ \/ writer[Gui].pc = "load"
                             \/ /\ writer[Gui].pc \in {"truncMain", "fillMain", "removeOld"}
                                /\ writer[Gui].op = "upgrade"
    /\ phase = "up" => writer[Gui].pc \notin {"load", "removeOld"}
    /\ \A w \in ShieldedCoins : writer[w].op \in {"none", "update"}
    /\ \A w \in Threads : TaskFits(w)

Serial == phase = "up" /\ ~overlapped

Busy(w) == writer[w].pc # "idle"

\* While changes do not overlap there is one writer, it finds the file it writes
\* truncated, and what it changes is what it began with.
OneWriter ==
    Serial =>
      /\ \A v, w \in Threads : Busy(v) /\ Busy(w) => v = w
      /\ \A w \in Threads :
           /\ writer[w].pc = "fillMain" => files.main = Truncated
           /\ writer[w].pc = "fillCustom" => files.custom = Truncated
           /\ writer[w].op = "update" /\ Busy(w) => writer[w].todo \subseteq registry.known
           /\ writer[w].op = "add" /\ Busy(w) => writer[w].todo \cap registry.known = {}

\* The main file in a login, and while changes do not overlap.
LoginIsWhole ==
    phase = "login" => IF writer[Gui].pc = "fillMain" THEN files.main = Truncated ELSE Whole(files.main)

MainIsWhole == Serial /\ NotWriting => Whole(files.main)

MainSaved(doc) == \A c \in registry.known \ CustomCoins : SavedAs(c, doc)
CustomSaved(doc) == \A c \in registry.known \cap CustomCoins : SavedAs(c, doc)

\* Where the entries are that a change has not written yet.
MainDoc(w) ==
    IF writer[w].pc \in {"readCustom", "apply", "truncMain", "fillMain"} /\ writer[w].op = "update"
    THEN writer[w].main ELSE Contents(files.main)
CustomDoc(w) ==
    IF writer[w].pc \in {"apply", "truncMain", "fillMain", "truncCustom", "fillCustom"}
    THEN writer[w].custom ELSE Contents(files.custom)
AddedThen(w) ==
    IF writer[w].pc \in {"truncCustom", "fillCustom"}
    THEN CASE writer[w].op = "add" -> added \cup writer[w].todo
           [] writer[w].op = "remove" -> added \ writer[w].todo
           [] OTHER -> added
    ELSE added

SavedNow == /\ MainSaved(Contents(files.main)) /\ CustomSaved(Contents(files.custom))
            /\ added \subseteq Contents(files.custom).known
HeldBy(w) == /\ MainSaved(MainDoc(w)) /\ CustomSaved(CustomDoc(w))
             /\ AddedThen(w) \subseteq CustomDoc(w).known

\* Between changes, and at each step of one, the registry agrees with what is
\* saved or about to be.
SavedOrHeld ==
    Serial => /\ AllIdle => SavedNow
              /\ \A w \in Threads : Busy(w) /\ writer[w].op # "reset" => HeldBy(w)

\* Until the old file is removed nothing but an upgrade has written.
OldComesAlong ==
    old => /\ phase # "up"
           /\ Whole(files.main) => files.main.doc.known = MainCoins
           /\ phase = "login" =>
                /\ writer[Gui].op = "upgrade" /\ writer[Gui].pc # "load"
                /\ writer[Gui].main.known = MainCoins /\ writer[Gui].main.active = OldActive
                /\ writer[Gui].pc = "removeOld" => files.main.doc = writer[Gui].main

FileInv ==
    /\ FileTypes
    /\ ThreadsFit
    /\ OneWriter
    /\ LoginIsWhole
    /\ MainIsWhole
    /\ SavedOrHeld
    /\ OldComesAlong

-----------------------------------------------------------------------------
(* Documents and files.                                                    *)

LEMMA DocTypes ==
    /\ DocsOf(MainCoins) \subseteq Docs /\ DocsOf(CustomCoins) \subseteq Docs
    /\ EmptyDoc \in DocsOf(MainCoins) /\ EmptyDoc \in DocsOf(CustomCoins)
    /\ DefaultDoc \in DocsOf(MainCoins)
    /\ MainCoins \cup CustomCoins = Coins /\ ShieldedCoins \subseteq MainCoins
BY StatusFileAssumption DEF DocsOf, Docs, EmptyDoc, DefaultDoc, Coins

LEMMA SizeIsPositive == ASSUME NEW doc \in Docs PROVE Size(doc) \in Nat \ {0}
<1>1. IsFiniteSet(Coins)
  BY StatusFileAssumption, FS_Union DEF Coins
<1>2. IsFiniteSet(doc.known) /\ IsFiniteSet(doc.known \ doc.active)
  <2>1. doc.known \subseteq Coins /\ doc.known \ doc.active \subseteq Coins
    BY DEF Docs
  <2> QED BY <1>1, <2>1, FS_Subset
<1>3. Cardinality(Coins) \in Nat /\ Cardinality(doc.known) \in Nat
      /\ Cardinality(doc.known \ doc.active) \in Nat
  BY <1>1, <1>2, FS_CardinalityType
<1>4. \A a, b, c \in Nat : 1 + a * (1 + b) + c \in Nat \ {0}
  <2>1. \A a, b \in Nat : a * (1 + b) \in Nat
    OBVIOUS
  <2>2. \A p, c \in Nat : 1 + p + c \in Nat \ {0}
    OBVIOUS
  <2> QED BY <2>1, <2>2
<1>5. Size(doc) = 1 + Cardinality(doc.known) * (1 + Cardinality(Coins)) + Cardinality(doc.known \ doc.active)
  BY DEF Size
<1> QED BY <1>3, <1>4, <1>5

\* What is written into a truncated file is read again, and a truncated file is
\* not accepted.
LEMMA FileFacts ==
    /\ ~Whole(Truncated) /\ Truncated.doc = EmptyDoc
    /\ \A doc \in Docs : /\ Whole(FileOf(doc)) /\ FileOf(doc).doc = doc
                         /\ Contents(FileOf(doc)) = doc
                         /\ Over(Truncated, doc) = FileOf(doc)
                         /\ FileOf(doc).size \in Nat
<1>1. EmptyDoc \in Docs
  BY DocTypes
<1>2. \A doc \in Docs : Size(doc) \in Nat \ {0}
  BY SizeIsPositive
<1>3. Truncated.size = 0 /\ Truncated.doc = EmptyDoc
  BY DEF Truncated
<1>4. ~Whole(Truncated)
  BY <1>1, <1>2, <1>3 DEF Whole
<1>5. ASSUME NEW doc \in Docs
      PROVE  /\ Whole(FileOf(doc)) /\ FileOf(doc).doc = doc /\ Contents(FileOf(doc)) = doc
             /\ Over(Truncated, doc) = FileOf(doc) /\ FileOf(doc).size \in Nat
  <2>1. FileOf(doc).doc = doc /\ FileOf(doc).size = Size(doc)
    BY DEF FileOf
  <2>2. Whole(FileOf(doc))
    BY <2>1 DEF Whole
  <2>3. ~(0 > Size(doc))
    BY <1>2
  <2>4. Over(Truncated, doc) = FileOf(doc)
    BY <1>3, <2>3 DEF Over, FileOf
  <2> QED BY <1>2, <2>1, <2>2, <2>4 DEF Contents
<1> QED BY <1>3, <1>4, <1>5

LEMMA ContentsType ==
    ASSUME FileTypes
    PROVE  /\ Contents(files.main) \in DocsOf(MainCoins) /\ Contents(files.custom) \in DocsOf(CustomCoins)
           /\ Repaired(files.main) \in [doc : DocsOf(MainCoins), size : Nat]
           /\ Whole(Repaired(files.main)) /\ Contents(Repaired(files.main)) = Repaired(files.main).doc
           /\ Whole(files.main) => Repaired(files.main) = files.main
           /\ ~Whole(files.main) => Repaired(files.main).doc = DefaultDoc
<1>1. files.main.doc \in DocsOf(MainCoins) /\ files.custom.doc \in DocsOf(CustomCoins)
      /\ files.main \in [doc : DocsOf(MainCoins), size : Nat]
  BY DEF FileTypes
<1>2. /\ FileOf(DefaultDoc) \in [doc : DocsOf(MainCoins), size : Nat]
      /\ Whole(FileOf(DefaultDoc)) /\ FileOf(DefaultDoc).doc = DefaultDoc
  <2>1. FileOf(DefaultDoc).size \in Nat /\ FileOf(DefaultDoc).doc \in DocsOf(MainCoins)
    BY DocTypes, FileFacts
  <2>2. FileOf(DefaultDoc) = [doc |-> FileOf(DefaultDoc).doc, size |-> FileOf(DefaultDoc).size]
    BY DEF FileOf
  <2> QED BY <2>1, <2>2, DocTypes, FileFacts
<1> QED BY <1>1, <1>2, DocTypes DEF Repaired, Contents

\* The documents a step makes.
LEMMA MadeDocs ==
    ASSUME NEW S, NEW doc \in DocsOf(S), NEW set, NEW status \in BOOLEAN
    PROVE  /\ set \subseteq S => Marked(doc, set, status) \in DocsOf(S)
           /\ Marked(doc, set, FALSE) \in DocsOf(S)
           /\ Marked(doc, set, status).known = doc.known
           /\ Marked(doc, set, status).active = (IF status THEN doc.active \cup set ELSE doc.active \ set)
BY DEF DocsOf, Marked

-----------------------------------------------------------------------------
(* What the steps do to a thread.                                          *)

Others(w) == \A v \in Threads : v # w => writer'[v] = writer[v]

SameTask(w) == /\ writer'[w].op = writer[w].op /\ writer'[w].todo = writer[w].todo
               /\ writer'[w].status = writer[w].status
SameDocs(w) == writer'[w].main = writer[w].main /\ writer'[w].custom = writer[w].custom

IdleNow(w) == writer'[w] = Idle

LEMMA IdleFacts == Idle.pc = "idle" /\ Idle.op = "none" /\ Idle.todo = {} /\ Idle \in Writers
BY DocTypes DEF Idle, Writers, Pcs, Ops

LEMMA GuiIsThread == Gui \in Threads /\ ShieldedCoins \subseteq Threads /\ Gui \notin ShieldedCoins
BY StatusFileAssumption DEF Threads

LEMMA GotoEffects ==
    ASSUME FileTypes, NEW w \in Threads, NEW pc, Goto(w, pc)
    PROVE  Others(w) /\ writer'[w].pc = pc /\ SameTask(w) /\ SameDocs(w)
BY DEF FileTypes, Goto, Others, SameTask, SameDocs, Writers

LEMMA BeginEffects ==
    ASSUME FileTypes, NEW w \in Threads, NEW pc, NEW op, NEW todo, NEW status,
           Begins(w, pc, op, todo, status)
    PROVE  /\ Others(w) /\ writer'[w].pc = pc /\ writer'[w].op = op /\ writer'[w].todo = todo
           /\ writer'[w].status = status /\ writer'[w].main = EmptyDoc /\ writer'[w].custom = EmptyDoc
           /\ phase = "up" /\ ~Busy(w) /\ overlapped' = (overlapped \/ ~AllIdle)
           /\ UNCHANGED <<phase, registry, files, old, added, logins>>
BY DEF FileTypes, Begins, Others, Busy

LEMMA ReadMainEffects ==
    ASSUME FileTypes, NEW w \in Threads, ReadMain(w)
    PROVE  /\ Others(w) /\ writer'[w].pc = "readCustom" /\ SameTask(w)
           /\ writer'[w].main = Contents(files.main) /\ writer'[w].custom = writer[w].custom
           /\ UNCHANGED <<phase, registry, files, old, history, bounds>>
           /\ writer[w].pc = "readMain" /\ writer[w].op = "update"
BY DEF FileTypes, ReadMain, Others, SameTask, Writers

LEMMA ReadForResetEffects ==
    ASSUME FileTypes, ReadForReset
    PROVE  /\ Others(Gui) /\ writer'[Gui].pc = "truncMain" /\ SameTask(Gui)
           /\ writer'[Gui].main = Marked(DefaultDoc, MainCoins \cap files.main.doc.active, TRUE)
           /\ writer'[Gui].custom = writer[Gui].custom
           /\ files'.main = FileOf(DefaultDoc) /\ files'.custom = files.custom
           /\ UNCHANGED <<phase, registry, old, history, bounds>>
           /\ writer[Gui].pc = "readMain" /\ writer[Gui].op = "reset"
BY GuiIsThread DEF FileTypes, ReadForReset, Others, SameTask, Writers

LEMMA ReadCustomEffects ==
    ASSUME FileTypes, NEW w \in Threads, ReadCustom(w)
    PROVE  /\ Others(w) /\ SameTask(w)
           /\ writer'[w].pc = (IF writer[w].op = "update" THEN "apply" ELSE "truncCustom")
           /\ writer'[w].main = writer[w].main
           /\ writer'[w].custom = ChangedCustom(w, Contents(files.custom))
           /\ UNCHANGED <<phase, files, old, history, bounds>>
           /\ writer[w].pc = "readCustom"
           /\ writer[w].op # "remove" => registry' = registry
           /\ writer[w].op = "remove" => /\ registry'.known = registry.known \ writer[w].todo
                                         /\ registry'.active = registry.active \ writer[w].todo
<1>1. writer' = [writer EXCEPT ![w] = [writer[w] EXCEPT
                    !.pc = IF writer[w].op = "update" THEN "apply" ELSE "truncCustom",
                    !.custom = ChangedCustom(w, Contents(files.custom))]]
  BY DEF ReadCustom
<1>2. Others(w) /\ SameTask(w) /\ writer'[w].main = writer[w].main
      /\ writer'[w].pc = (IF writer[w].op = "update" THEN "apply" ELSE "truncCustom")
      /\ writer'[w].custom = ChangedCustom(w, Contents(files.custom))
  BY <1>1 DEF FileTypes, Others, SameTask, Writers
<1>3. /\ UNCHANGED <<phase, files, old, history, bounds>>
      /\ writer[w].pc = "readCustom"
      /\ writer[w].op # "remove" => registry' = registry
      /\ writer[w].op = "remove" => registry' = [known |-> registry.known \ writer[w].todo,
                                                 active |-> registry.active \ writer[w].todo]
  BY DEF ReadCustom
<1> QED BY <1>2, <1>3

LEMMA ApplyEffects ==
    ASSUME FileTypes, NEW w \in Threads, NEW c, Apply(w, c)
    PROVE  /\ Others(w) /\ writer'[w].op = writer[w].op /\ writer'[w].status = writer[w].status
           /\ writer'[w].pc = (IF writer[w].todo = {c} THEN "truncMain" ELSE "apply")
           /\ writer'[w].todo = writer[w].todo \ {c}
           /\ c \in CustomCoins => /\ writer'[w].main = writer[w].main
                                   /\ writer'[w].custom = Marked(writer[w].custom, {c}, writer[w].status)
           /\ c \notin CustomCoins => /\ writer'[w].custom = writer[w].custom
                                      /\ writer'[w].main = Marked(writer[w].main, {c}, writer[w].status)
           /\ registry' = Marked(registry, {c}, writer[w].status)
           /\ UNCHANGED <<phase, files, old, history, bounds>>
           /\ writer[w].pc = "apply" /\ c \in writer[w].todo /\ ~Missing(w, c)
<1> DEFINE s == writer[w].status
           M == IF c \in CustomCoins THEN writer[w].main ELSE Marked(writer[w].main, {c}, s)
           C == IF c \in CustomCoins THEN Marked(writer[w].custom, {c}, s) ELSE writer[w].custom
           P == IF writer[w].todo = {c} THEN "truncMain" ELSE "apply"
<1>1. writer' = [writer EXCEPT ![w] = [writer[w] EXCEPT !.pc = P, !.todo = writer[w].todo \ {c},
                    !.main = M, !.custom = C]]
      /\ registry' = Marked(registry, {c}, s) /\ UNCHANGED <<phase, files, old, history, bounds>>
      /\ writer[w].pc = "apply" /\ c \in writer[w].todo /\ ~Missing(w, c)
  BY DEF Apply
<1> HIDE DEF M, C, P
<1>2. /\ Others(w) /\ writer'[w].op = writer[w].op /\ writer'[w].status = writer[w].status
      /\ writer'[w].pc = P /\ writer'[w].todo = writer[w].todo \ {c}
      /\ writer'[w].main = M /\ writer'[w].custom = C
  BY <1>1 DEF FileTypes, Others, Writers
<1> QED BY <1>1, <1>2 DEF M, C, P

LEMMA FillMainEffects ==
    ASSUME FileTypes, NEW w \in Threads, FillMain(w)
    PROVE  /\ Others(w)
           /\ files'.main = Over(files.main, writer[w].main) /\ files'.custom = files.custom
           /\ AfterMain(w) = "idle" => IdleNow(w)
           /\ AfterMain(w) # "idle" => writer'[w].pc = AfterMain(w) /\ SameTask(w) /\ SameDocs(w)
           /\ UNCHANGED <<phase, registry, old, history, bounds>>
           /\ writer[w].pc = "fillMain"
<1>1. /\ writer' = [writer EXCEPT ![w] =
                      IF AfterMain(w) = "idle" THEN Idle ELSE [writer[w] EXCEPT !.pc = AfterMain(w)]]
      /\ files' = [files EXCEPT !.main = Over(files.main, writer[w].main)]
      /\ UNCHANGED <<phase, registry, old, history, bounds>> /\ writer[w].pc = "fillMain"
  BY DEF FillMain
<1>2. CASE AfterMain(w) = "idle"
  BY <1>1, <1>2 DEF FileTypes, Others, IdleNow
<1>3. CASE AfterMain(w) # "idle"
  <2> DEFINE A == AfterMain(w)
  <2>1. writer' = [writer EXCEPT ![w] = [writer[w] EXCEPT !.pc = A]] /\ A # "idle"
    BY <1>1, <1>3
  <2> HIDE DEF A
  <2>2. Others(w) /\ writer'[w].pc = A /\ SameTask(w) /\ SameDocs(w)
    BY <2>1 DEF FileTypes, Others, SameTask, SameDocs, Writers
  <2> QED BY <1>1, <2>1, <2>2 DEF A, FileTypes
<1> QED BY <1>2, <1>3

LEMMA FillCustomEffects ==
    ASSUME FileTypes, NEW w \in Threads, FillCustom(w)
    PROVE  /\ Others(w)
           /\ files'.custom = Over(files.custom, writer[w].custom) /\ files'.main = files.main
           /\ writer[w].op # "reset" => IdleNow(w)
           /\ writer[w].op = "reset" => writer'[w].pc = "restart" /\ SameTask(w) /\ SameDocs(w)
           /\ UNCHANGED <<phase, registry, old, overlapped, bounds>>
           /\ writer[w].pc = "fillCustom"
           /\ added' = AddedThen(w)
<1>1. /\ writer' = [writer EXCEPT ![w] =
                      IF writer[w].op = "reset" THEN [writer[w] EXCEPT !.pc = "restart"] ELSE Idle]
      /\ files' = [files EXCEPT !.custom = Over(files.custom, writer[w].custom)]
      /\ UNCHANGED <<phase, registry, old, overlapped, bounds>> /\ writer[w].pc = "fillCustom"
  BY DEF FillCustom
<1>2. CASE writer[w].op = "reset"
  BY <1>1, <1>2 DEF FileTypes, Others, SameTask, SameDocs, Writers, FillCustom, AddedThen
<1>3. CASE writer[w].op # "reset"
  BY <1>1, <1>3 DEF FileTypes, Others, IdleNow, FillCustom, AddedThen
<1> QED BY <1>2, <1>3

LEMMA EndsEffects ==
    ASSUME Ends
    PROVE  /\ phase' = "down" /\ registry' = EmptyDoc /\ \A w \in Threads : IdleNow(w)
           /\ UNCHANGED <<files, old, history, bounds>>
BY DEF Ends, IdleNow

LEMMA LoginEffects ==
    ASSUME FileTypes, Login
    PROVE  /\ Others(Gui) /\ phase = "down" /\ phase' = "login"
           /\ files'.main = Repaired(files.main) /\ files'.custom = files.custom
           /\ writer'[Gui].todo = writer[Gui].todo /\ writer'[Gui].custom = writer[Gui].custom
           /\ old => /\ writer'[Gui].pc = "truncMain" /\ writer'[Gui].op = "upgrade"
                     /\ writer'[Gui].main = Upgraded(Contents(Repaired(files.main)))
           /\ ~old => writer'[Gui].pc = "load" /\ writer'[Gui].op = writer[Gui].op
           /\ added' = {} /\ overlapped' = FALSE /\ UNCHANGED <<registry, old, commands>>
<1> USE GuiIsThread DEF FileTypes, Others, Writers
<1>1. CASE old
  <2>1. writer' = [writer EXCEPT ![Gui] = [writer[Gui] EXCEPT !.pc = "truncMain", !.op = "upgrade",
                               !.main = Upgraded(Contents(Repaired(files.main)))]]
        /\ files' = [files EXCEPT !.main = Repaired(files.main)]
    BY <1>1 DEF Login
  <2> QED BY <1>1, <2>1 DEF Login
<1>2. CASE ~old
  <2>1. writer' = [writer EXCEPT ![Gui] = [writer[Gui] EXCEPT !.pc = "load"]]
        /\ files' = [files EXCEPT !.main = Repaired(files.main)]
    BY <1>2 DEF Login
  <2> QED BY <1>2, <2>1 DEF Login
<1> QED BY <1>1, <1>2

LEMMA LoadEffects ==
    ASSUME FileTypes, Load
    PROVE  /\ Others(Gui) /\ IdleNow(Gui) /\ phase' = "up" /\ writer[Gui].pc = "load"
           /\ registry'.known = Contents(files.main).known \cup Contents(files.custom).known
           /\ registry'.active = Contents(files.main).active \cup Contents(files.custom).active
                                  \cup (DefaultCoins \cap Contents(files.main).known)
           /\ UNCHANGED <<files, old, history, bounds>>
BY GuiIsThread DEF FileTypes, Load, Others, IdleNow

-----------------------------------------------------------------------------
(* Types and threads.                                                      *)

LEMMA FileTypesInit == Init => FileTypes
<1> SUFFICES ASSUME Init PROVE FileTypes
  OBVIOUS
<1>1. Truncated \in [doc : DocsOf(MainCoins), size : Nat]
      /\ Truncated \in [doc : DocsOf(CustomCoins), size : Nat]
  BY DocTypes DEF Truncated
<1>2. files \in [main : [doc : DocsOf(MainCoins), size : Nat],
                 custom : [doc : DocsOf(CustomCoins), size : Nat]]
  BY <1>1 DEF Init
<1>3. registry \in Docs
  BY DocTypes DEF Init
<1>4. writer \in [Threads -> Writers]
  BY IdleFacts DEF Init
<1>5. /\ phase = "down" /\ old \in BOOLEAN /\ added = {} /\ overlapped = FALSE
      /\ logins \in 0..MaxLogins /\ commands \in 0..MaxCommands
  BY StatusFileAssumption DEF Init
<1> QED BY <1>2, <1>3, <1>4, <1>5 DEF FileTypes

LEMMA FileTypesWriter ==
    ASSUME FileTypes, ThreadsFit, [Next]_vars
    PROVE  writer' \in [Threads -> Writers]
<1> USE GuiIsThread, DocTypes
<1>0. writer \in [Threads -> Writers] /\ registry \in Docs
  BY DEF FileTypes
<1>a. ASSUME NEW w \in Threads, NEW r \in Writers, writer' = [writer EXCEPT ![w] = r]
      PROVE  writer' \in [Threads -> Writers]
  BY <1>0, <1>a
<1>1. CASE UNCHANGED writer
  BY <1>0, <1>1
<1>2. CASE Ends
  BY <1>2, IdleFacts DEF Ends
<1>3. CASE Login
  <2>1. old => Upgraded(Contents(Repaired(files.main))) \in DocsOf(MainCoins)
    BY ContentsType, StatusFileAssumption DEF Upgraded, DocsOf
  <2>2. CASE old
    <3>1. writer' = [writer EXCEPT ![Gui] = [writer[Gui] EXCEPT !.pc = "truncMain", !.op = "upgrade",
                               !.main = Upgraded(Contents(Repaired(files.main)))]]
      BY <1>3, <2>2 DEF Login
    <3>2. [writer[Gui] EXCEPT !.pc = "truncMain", !.op = "upgrade",
             !.main = Upgraded(Contents(Repaired(files.main)))] \in Writers
      BY <1>0, <2>1, <2>2 DEF Writers, Pcs, Ops
    <3> QED BY <1>a, <3>1, <3>2
  <2>3. CASE ~old
    <3>1. writer' = [writer EXCEPT ![Gui] = [writer[Gui] EXCEPT !.pc = "load"]]
      BY <1>3, <2>3 DEF Login
    <3>2. [writer[Gui] EXCEPT !.pc = "load"] \in Writers
      BY <1>0 DEF Writers, Pcs
    <3> QED BY <1>a, <3>1, <3>2
  <2> QED BY <2>2, <2>3
<1>4. ASSUME NEW w \in Threads, NEW pc \in Pcs, Goto(w, pc) PROVE writer' \in [Threads -> Writers]
  <2>1. [writer[w] EXCEPT !.pc = pc] \in Writers
    BY <1>0 DEF Writers
  <2>2. writer' = [writer EXCEPT ![w] = [writer[w] EXCEPT !.pc = pc]]
    BY <1>0, <1>4 DEF Goto, Writers
  <2> QED BY <1>a, <2>1, <2>2
<1>5. CASE RemoveOld \/ \E w \in Threads : TruncateMain(w) \/ TruncateCustom(w)
  <2>1. {"load", "fillMain", "fillCustom"} \subseteq Pcs
    BY DEF Pcs
  <2> QED BY <1>4, <1>5, <2>1 DEF RemoveOld, TruncateMain, TruncateCustom
<1>6. CASE Load \/ \E c \in ShieldedCoins : writer' = [writer EXCEPT ![c] = Idle]
  BY <1>a, <1>6, IdleFacts DEF Load
<1>7. ASSUME NEW w \in Threads, NEW pc \in {"readMain", "readCustom"}, NEW op \in Ops,
             NEW todo \in SUBSET Coins, NEW status \in BOOLEAN, Begins(w, pc, op, todo, status)
      PROVE  writer' \in [Threads -> Writers]
  <2>1. [pc |-> pc, op |-> op, todo |-> todo, status |-> status, main |-> EmptyDoc, custom |-> EmptyDoc]
          \in Writers
    BY DEF Writers, Pcs
  <2> QED BY <1>7, <1>a, <2>1 DEF Begins
<1>8. CASE Command
  <2>1. {"update", "add", "remove", "reset"} \subseteq Ops
    BY DEF Ops
  <2>2. CASE \E tickers \in SUBSET Coins : MarkActive(tickers) \/ DisableCoins(tickers)
    BY <1>7, <2>1, <2>2 DEF MarkActive, DisableCoins
  <2>3. CASE \E c \in ShieldedCoins : WorkerUpdates(c)
    <3>1. PICK c \in ShieldedCoins : WorkerUpdates(c)
      BY <2>3
    <3>2. {c} \in SUBSET Coins
      OBVIOUS
    <3> QED BY <1>7, <2>1, <3>1, <3>2 DEF WorkerUpdates
  <2>4. CASE \E c \in CustomCoins : AddCoin(c) \/ RemoveCoin(c)
    <3>1. PICK c \in CustomCoins : AddCoin(c) \/ RemoveCoin(c)
      BY <2>4
    <3>2. {c} \in SUBSET Coins
      OBVIOUS
    <3> QED BY <1>7, <2>1, <3>1, <3>2 DEF AddCoin, RemoveCoin
  <2>5. CASE ResetCoins
    <3>1. {} \in SUBSET Coins
      OBVIOUS
    <3> QED BY <1>7, <2>1, <2>5, <3>1 DEF ResetCoins
  <2> QED BY <1>8, <2>2, <2>3, <2>4, <2>5 DEF Command
<1>9. ASSUME NEW w \in Threads, ReadMain(w) PROVE writer' \in [Threads -> Writers]
  <2>1. [writer[w] EXCEPT !.pc = "readCustom", !.main = Contents(files.main)] \in Writers
    BY <1>0, ContentsType DEF Writers, Pcs
  <2>2. writer' = [writer EXCEPT ![w] = [writer[w] EXCEPT !.pc = "readCustom", !.main = Contents(files.main)]]
    BY <1>9 DEF ReadMain
  <2> QED BY <1>a, <2>1, <2>2
<1>10. CASE ReadForReset
  <2> DEFINE doc == Marked(DefaultDoc, MainCoins \cap files.main.doc.active, TRUE)
  <2>1. doc \in DocsOf(MainCoins)
    BY MadeDocs
  <2>2. writer' = [writer EXCEPT ![Gui] = [writer[Gui] EXCEPT !.pc = "truncMain", !.main = doc]]
    BY <1>10 DEF ReadForReset
  <2> HIDE DEF doc
  <2>3. [writer[Gui] EXCEPT !.pc = "truncMain", !.main = doc] \in Writers
    BY <1>0, <2>1 DEF Writers, Pcs
  <2> QED BY <1>a, <2>2, <2>3
<1>11. ASSUME NEW w \in Threads, ReadCustom(w) PROVE writer' \in [Threads -> Writers]
  <2> DEFINE doc == ChangedCustom(w, Contents(files.custom))
             pc == IF writer[w].op = "update" THEN "apply" ELSE "truncCustom"
  <2>1. Contents(files.custom) \in DocsOf(CustomCoins)
    BY ContentsType
  <2>2. writer[w].op = "add" => writer[w].todo \subseteq CustomCoins
    BY DEF ThreadsFit, TaskFits
  <2>3. doc \in DocsOf(CustomCoins)
    BY <2>1, <2>2 DEF ChangedCustom, DocsOf
  <2>4. pc \in Pcs
    BY DEF Pcs
  <2>5. writer' = [writer EXCEPT ![w] = [writer[w] EXCEPT !.pc = pc, !.custom = doc]]
    BY <1>11 DEF ReadCustom
  <2> HIDE DEF doc, pc
  <2>6. [writer[w] EXCEPT !.pc = pc, !.custom = doc] \in Writers
    BY <1>0, <2>3, <2>4 DEF Writers
  <2> QED BY <1>a, <2>5, <2>6
<1>12. ASSUME NEW w \in Threads, NEW c \in Coins, Apply(w, c) PROVE writer' \in [Threads -> Writers]
  <2> DEFINE s == writer[w].status
             M == IF c \in CustomCoins THEN writer[w].main ELSE Marked(writer[w].main, {c}, s)
             C == IF c \in CustomCoins THEN Marked(writer[w].custom, {c}, s) ELSE writer[w].custom
             P == IF writer[w].todo = {c} THEN "truncMain" ELSE "apply"
  <2>1. writer[w] \in Writers /\ s \in BOOLEAN
        /\ writer[w].main \in DocsOf(MainCoins) /\ writer[w].custom \in DocsOf(CustomCoins)
    BY <1>0 DEF Writers
  <2>2. M \in DocsOf(MainCoins) /\ C \in DocsOf(CustomCoins) /\ P \in Pcs
    <3>1. CASE c \in CustomCoins
      <4>0. {c} \subseteq CustomCoins
        BY <3>1
      <4>1. Marked(writer[w].custom, {c}, s) \in DocsOf(CustomCoins)
        BY <2>1, <4>0, MadeDocs, Zenon
      <4> QED BY <2>1, <3>1, <4>1 DEF Pcs
    <3>2. CASE c \notin CustomCoins
      <4>0. {c} \subseteq MainCoins
        BY <3>2
      <4>1. Marked(writer[w].main, {c}, s) \in DocsOf(MainCoins)
        BY <2>1, <4>0, MadeDocs, Zenon
      <4> QED BY <2>1, <3>2, <4>1 DEF Pcs
    <3> QED BY <3>1, <3>2
  <2>3. writer' = [writer EXCEPT ![w] = [writer[w] EXCEPT !.pc = P, !.todo = writer[w].todo \ {c},
                    !.main = M, !.custom = C]]
    BY <1>12 DEF Apply
  <2> HIDE DEF M, C, P
  <2>4. [writer[w] EXCEPT !.pc = P, !.todo = writer[w].todo \ {c}, !.main = M, !.custom = C] \in Writers
    BY <2>1, <2>2 DEF Writers
  <2> QED BY <1>a, <2>3, <2>4
<1>13. ASSUME NEW w \in Threads, FillMain(w) PROVE writer' \in [Threads -> Writers]
  <2> DEFINE A == AfterMain(w)
  <2>1. A \in Pcs
    BY DEF AfterMain, Pcs
  <2>2. writer' = [writer EXCEPT ![w] = IF A = "idle" THEN Idle ELSE [writer[w] EXCEPT !.pc = A]]
    BY <1>13 DEF FillMain
  <2> HIDE DEF A
  <2>3. (IF A = "idle" THEN Idle ELSE [writer[w] EXCEPT !.pc = A]) \in Writers
    BY <1>0, <2>1, IdleFacts DEF Writers
  <2> QED BY <1>a, <2>2, <2>3
<1>14. ASSUME NEW w \in Threads, FillCustom(w) PROVE writer' \in [Threads -> Writers]
  <2>1. writer' = [writer EXCEPT ![w] =
                     IF writer[w].op = "reset" THEN [writer[w] EXCEPT !.pc = "restart"] ELSE Idle]
    BY <1>14 DEF FillCustom
  <2>2. (IF writer[w].op = "reset" THEN [writer[w] EXCEPT !.pc = "restart"] ELSE Idle) \in Writers
    BY <1>0, IdleFacts DEF Writers, Pcs
  <2> QED BY <1>a, <2>1, <2>2
<1>15. CASE Stop \/ GuiThrows \/ \E c \in ShieldedCoins : WorkerThrows(c)
  BY <1>2, <1>6, <1>15 DEF Stop, GuiThrows, WorkerThrows
<1>16. CASE UNCHANGED vars
  BY <1>1, <1>16 DEF vars
<1> QED BY <1>3, <1>5, <1>6, <1>8, <1>9, <1>10, <1>11, <1>12, <1>13, <1>14, <1>15, <1>16
        DEF Next, Works

\* A file after a step.
MainFile == [doc : DocsOf(MainCoins), size : Nat]
CustomFile == [doc : DocsOf(CustomCoins), size : Nat]

LEMMA OverType ==
    ASSUME NEW S, NEW doc \in DocsOf(S), DocsOf(S) \subseteq Docs, NEW file, file.size \in Nat
    PROVE  Over(file, doc) \in [doc : DocsOf(S), size : Nat]
BY SizeIsPositive DEF Over

LEMMA FileTypesFiles ==
    ASSUME FileTypes, [Next]_vars
    PROVE  files' \in [main : MainFile, custom : CustomFile]
<1> USE GuiIsThread, DocTypes
<1>0. files \in [main : MainFile, custom : CustomFile] /\ writer \in [Threads -> Writers]
  BY DEF FileTypes, MainFile, CustomFile
<1>a. Truncated \in MainFile /\ Truncated \in CustomFile
  BY DEF Truncated, MainFile, CustomFile
<1>b. ASSUME NEW f \in MainFile, files' = [files EXCEPT !.main = f]
      PROVE  files' \in [main : MainFile, custom : CustomFile]
  BY <1>0, <1>b
<1>c. ASSUME NEW f \in CustomFile, files' = [files EXCEPT !.custom = f]
      PROVE  files' \in [main : MainFile, custom : CustomFile]
  BY <1>0, <1>c
<1>1. CASE UNCHANGED files
  BY <1>0, <1>1
<1>2. CASE Login
  <2>1. Repaired(files.main) \in MainFile
    BY ContentsType DEF MainFile
  <2> QED BY <1>2, <1>b, <2>1 DEF Login
<1>3. CASE ReadForReset
  <2>1. FileOf(DefaultDoc) \in MainFile
    <3>1. FileOf(DefaultDoc).size \in Nat /\ FileOf(DefaultDoc).doc \in DocsOf(MainCoins)
      BY FileFacts
    <3> QED BY <3>1 DEF FileOf, MainFile
  <2> QED BY <1>3, <1>b, <2>1 DEF ReadForReset
<1>4. ASSUME NEW w \in Threads, TruncateMain(w) \/ TruncateCustom(w)
      PROVE  files' \in [main : MainFile, custom : CustomFile]
  BY <1>4, <1>a, <1>b, <1>c DEF TruncateMain, TruncateCustom
<1>5. ASSUME NEW w \in Threads, FillMain(w) PROVE files' \in [main : MainFile, custom : CustomFile]
  <2>1. writer[w].main \in DocsOf(MainCoins) /\ files.main.size \in Nat
    BY <1>0 DEF Writers, MainFile
  <2>2. Over(files.main, writer[w].main) \in MainFile
    BY <2>1, OverType DEF MainFile
  <2> QED BY <1>5, <1>b, <2>2 DEF FillMain
<1>6. ASSUME NEW w \in Threads, FillCustom(w) PROVE files' \in [main : MainFile, custom : CustomFile]
  <2>1. writer[w].custom \in DocsOf(CustomCoins) /\ files.custom.size \in Nat
    BY <1>0 DEF Writers, CustomFile
  <2>2. Over(files.custom, writer[w].custom) \in CustomFile
    BY <2>1, OverType DEF CustomFile
  <2> QED BY <1>6, <1>c, <2>2 DEF FillCustom
<1>7. CASE \/ Stop \/ RemoveOld \/ Load \/ GuiThrows
           \/ \E c \in ShieldedCoins : WorkerThrows(c)
  BY <1>1, <1>7 DEF Stop, RemoveOld, Load, GuiThrows, WorkerThrows, Ends
<1>8. CASE Command
  BY <1>1, <1>8 DEF Command, MarkActive, DisableCoins, WorkerUpdates, AddCoin, RemoveCoin, ResetCoins, Begins
<1>9. CASE \E w \in Threads : ReadMain(w) \/ ReadCustom(w) \/ \E c \in Coins : Apply(w, c)
  BY <1>1, <1>9 DEF ReadMain, ReadCustom, Apply
<1>10. CASE UNCHANGED vars
  BY <1>1, <1>10 DEF vars
<1> QED BY <1>2, <1>3, <1>4, <1>5, <1>6, <1>7, <1>8, <1>9, <1>10 DEF Next, Works

LEMMA FileTypesRest ==
    ASSUME FileTypes, [Next]_vars
    PROVE  /\ phase' \in {"down", "login", "up"} /\ registry' \in Docs /\ old' \in BOOLEAN
           /\ added' \subseteq Coins /\ overlapped' \in BOOLEAN
           /\ logins' \in 0..MaxLogins /\ commands' \in 0..MaxCommands
<1> USE GuiIsThread, DocTypes
<1> DEFINE Goal == /\ phase' \in {"down", "login", "up"} /\ registry' \in Docs /\ old' \in BOOLEAN
                   /\ added' \subseteq Coins /\ overlapped' \in BOOLEAN
                   /\ logins' \in 0..MaxLogins /\ commands' \in 0..MaxCommands
<1>0. /\ phase \in {"down", "login", "up"} /\ registry \in Docs /\ old \in BOOLEAN
      /\ added \subseteq Coins /\ overlapped \in BOOLEAN
      /\ logins \in 0..MaxLogins /\ commands \in 0..MaxCommands
      /\ writer \in [Threads -> Writers] /\ MaxLogins \in Nat /\ MaxCommands \in Nat
  BY StatusFileAssumption DEF FileTypes
<1>1. CASE UNCHANGED <<phase, registry, old, history, bounds>>
  BY <1>0, <1>1 DEF history, bounds
<1>2. CASE Ends
  BY <1>0, <1>2 DEF Ends, history, bounds
<1>3. CASE Login
  <2>1. logins + 1 \in 0..MaxLogins
    BY <1>0, <1>3 DEF Login
  <2> QED BY <1>0, <1>3, <2>1 DEF Login
<1>4. CASE RemoveOld
  BY <1>0, <1>4 DEF RemoveOld, history, bounds
<1>5. CASE Load
  <2>1. registry' \in Docs
    BY <1>5, ContentsType, LoadEffects DEF Load, Docs, DocsOf
  <2> QED BY <1>0, <1>5, <2>1 DEF Load, history, bounds
<1>6. ASSUME NEW w \in Threads, NEW pc, NEW op, NEW todo, NEW status, Begins(w, pc, op, todo, status)
      PROVE  Goal
  <2>1. commands + 1 \in 0..MaxCommands
    BY <1>0, <1>6 DEF Begins
  <2> QED BY <1>0, <1>6, <2>1 DEF Begins, AllIdle
<1>7. CASE Command
  BY <1>6, <1>7 DEF Command, MarkActive, DisableCoins, WorkerUpdates, AddCoin, RemoveCoin, ResetCoins
<1>8. ASSUME NEW w \in Threads, ReadCustom(w) PROVE Goal
  <2>1. registry' \in Docs
    BY <1>0, <1>8 DEF ReadCustom, Docs
  <2> QED BY <1>0, <1>8, <2>1 DEF ReadCustom, history, bounds
<1>9. ASSUME NEW w \in Threads, NEW c \in Coins, Apply(w, c) PROVE Goal
  <2>1. writer[w].status \in BOOLEAN /\ registry' = Marked(registry, {c}, writer[w].status)
    BY <1>0, <1>9 DEF Apply, Writers
  <2>2. Docs = DocsOf(Coins)
    BY DEF Docs, DocsOf
  <2>3. {c} \subseteq Coins /\ registry \in DocsOf(Coins)
    BY <1>0, <2>2
  <2>4. registry' \in Docs
    BY <2>1, <2>2, <2>3, MadeDocs, Zenon
  <2> QED BY <1>0, <1>9, <2>4 DEF Apply, history, bounds
<1>10. ASSUME NEW w \in Threads, FillCustom(w) PROVE Goal
  <2>1. added' \subseteq Coins
    BY <1>0, <1>10 DEF FillCustom, Writers
  <2> QED BY <1>0, <1>10, <2>1 DEF FillCustom, bounds
<1>11. CASE ReadForReset \/ \E w \in Threads : ReadMain(w) \/ TruncateMain(w) \/ FillMain(w) \/ TruncateCustom(w)
  BY <1>1, <1>11 DEF ReadForReset, ReadMain, TruncateMain, FillMain, TruncateCustom
<1>12. CASE Stop \/ GuiThrows \/ \E c \in ShieldedCoins : WorkerThrows(c)
  BY <1>1, <1>2, <1>12 DEF Stop, GuiThrows, WorkerThrows
<1>13. CASE UNCHANGED vars
  BY <1>1, <1>13 DEF vars
<1> QED BY <1>3, <1>4, <1>5, <1>7, <1>8, <1>9, <1>10, <1>11, <1>12, <1>13 DEF Next, Works

LEMMA FileTypesStep == FileTypes /\ ThreadsFit /\ [Next]_vars => FileTypes'
BY FileTypesWriter, FileTypesFiles, FileTypesRest DEF FileTypes, MainFile, CustomFile

LEMMA ThreadsInit == Init => ThreadsFit
<1> SUFFICES ASSUME Init PROVE ThreadsFit
  OBVIOUS
<1>1. \A w \in Threads : writer[w].pc = "idle" /\ writer[w].op = "none"
  BY IdleFacts DEF Init
<1> QED BY <1>1, GuiIsThread DEF Init, ThreadsFit, TaskFits, AllIdle

\* A worker runs only while the application is up, the GUI thread also in a login.
LEMMA WhoRuns ==
    ASSUME FileTypes, ThreadsFit, NEW w \in Threads, Busy(w)
    PROVE  /\ phase # "down"
           /\ w \in ShieldedCoins => phase = "up"
           /\ phase = "login" => w = Gui /\ writer[w].pc \in {"load", "truncMain", "fillMain", "removeOld"}
           /\ phase = "up" => writer[w].pc \notin {"load", "removeOld"}
BY GuiIsThread DEF FileTypes, ThreadsFit, TaskFits, AllIdle, Busy, Threads

LEMMA ThreadsUp ==
    ASSUME FileTypes, ThreadsFit, phase = "up", phase' = "up", NEW w \in Threads, Others(w),
           w \in ShieldedCoins => writer'[w].op \in {"none", "update"},
           writer'[w].pc \notin {"load", "removeOld"}, TaskFits(w)'
    PROVE  ThreadsFit'
<1>1. \A v \in Threads : TaskFits(v)'
  BY DEF ThreadsFit, TaskFits, Others
<1>2. \A v \in ShieldedCoins : writer'[v].op \in {"none", "update"}
  BY GuiIsThread DEF ThreadsFit, Others
<1>3. writer'[Gui].pc \notin {"load", "removeOld"}
  BY GuiIsThread DEF ThreadsFit, Others
<1> QED BY <1>1, <1>2, <1>3 DEF ThreadsFit

LEMMA ThreadsEnd == ASSUME Ends PROVE ThreadsFit'
BY EndsEffects, IdleFacts, GuiIsThread DEF IdleNow, ThreadsFit, TaskFits, AllIdle

LEMMA ThreadsStep == FileTypes /\ ThreadsFit /\ [Next]_vars => ThreadsFit'
<1> SUFFICES ASSUME FileTypes, ThreadsFit, [Next]_vars PROVE ThreadsFit'
  OBVIOUS
<1> USE GuiIsThread
<1>1. CASE Stop \/ GuiThrows
  BY <1>1, ThreadsEnd DEF Stop, GuiThrows
<1>2. CASE Login
  <2>1. \A w \in Threads : TaskFits(w)'
    BY <1>2, LoginEffects DEF ThreadsFit, TaskFits, AllIdle, Others
  <2>2. \A w \in ShieldedCoins : writer'[w] = writer[w] /\ writer[w].pc = "idle"
    BY <1>2, LoginEffects DEF ThreadsFit, AllIdle, Others
  <2> QED BY <1>2, <2>1, <2>2, LoginEffects DEF ThreadsFit
<1>3. CASE RemoveOld
  <2>1. Others(Gui) /\ writer'[Gui].pc = "load" /\ SameTask(Gui) /\ phase' = phase
        /\ added' = added /\ overlapped' = overlapped /\ writer[Gui].pc = "removeOld"
    BY <1>3, GotoEffects DEF RemoveOld, OldIsDone, history
  <2>2. phase = "login"
    BY <2>1, WhoRuns DEF Busy, ThreadsFit, FileTypes
  <2>3. \A w \in Threads : TaskFits(w)'
    BY <2>1 DEF ThreadsFit, TaskFits, SameTask, Others
  <2> QED BY <2>1, <2>2, <2>3 DEF ThreadsFit, Others
<1>4. CASE Load
  <2>1. \A w \in Threads : w # Gui => writer'[w] = writer[w] /\ writer[w].pc = "idle"
    BY <1>4, LoadEffects, WhoRuns DEF Busy, FileTypes, Others
  <2>2. phase = "login"
    BY <1>4, LoadEffects, WhoRuns DEF Busy, FileTypes
  <2>3. writer'[Gui] = Idle /\ phase' = "up"
    BY <1>4, LoadEffects DEF IdleNow
  <2>4. \A w \in Threads : TaskFits(w)'
    BY <2>1, <2>3, <2>2, IdleFacts, StatusFileAssumption DEF ThreadsFit, TaskFits, Threads
  <2> QED BY <2>1, <2>3, <2>4, IdleFacts DEF ThreadsFit
<1>5. ASSUME NEW w \in Threads, NEW pc \in {"readMain", "readCustom"}, NEW op, NEW todo, NEW status,
             Begins(w, pc, op, todo, status),
             w \in ShieldedCoins => op = "update",
             op \in {"update", "reset"} \/ (pc = "readCustom" /\ op \in {"add", "remove"}),
             op = "add" => todo \subseteq CustomCoins
      PROVE  ThreadsFit'
  <2>1. TaskFits(w)'
    BY <1>5, BeginEffects DEF TaskFits
  <2> QED BY <1>5, <2>1, BeginEffects, ThreadsUp
<1>6. CASE Command
  <2>1. CASE \E tickers \in SUBSET Coins : MarkActive(tickers) \/ DisableCoins(tickers)
    BY <1>5, <2>1 DEF MarkActive, DisableCoins
  <2>2. CASE \E c \in ShieldedCoins : WorkerUpdates(c)
    BY <1>5, <2>2 DEF WorkerUpdates
  <2>3. CASE \E c \in CustomCoins : AddCoin(c) \/ RemoveCoin(c)
    <3>1. PICK c \in CustomCoins : AddCoin(c) \/ RemoveCoin(c)
      BY <2>3
    <3>2. {c} \subseteq CustomCoins
      OBVIOUS
    <3> QED BY <1>5, <3>1, <3>2 DEF AddCoin, RemoveCoin
  <2>4. CASE ResetCoins
    BY <1>5, <2>4 DEF ResetCoins
  <2> QED BY <1>6, <2>1, <2>2, <2>3, <2>4 DEF Command
<1>7. ASSUME NEW w \in Threads, ReadMain(w) PROVE ThreadsFit'
  <2>1. phase = "up"
    BY <1>7, ReadMainEffects, WhoRuns DEF Busy, FileTypes
  <2>2. TaskFits(w)'
    BY <1>7, ReadMainEffects DEF TaskFits, ThreadsFit, SameTask
  <2>3. w \in ShieldedCoins => writer'[w].op \in {"none", "update"}
    BY <1>7, ReadMainEffects DEF SameTask
  <2> QED BY <1>7, <2>1, <2>2, <2>3, ReadMainEffects, ThreadsUp
<1>8. CASE ReadForReset
  <2>1. phase = "up"
    BY <1>8, ReadForResetEffects, WhoRuns DEF Busy, FileTypes
  <2>2. TaskFits(Gui)'
    BY <1>8, ReadForResetEffects DEF TaskFits, ThreadsFit, SameTask
  <2> QED BY <1>8, <2>1, <2>2, ReadForResetEffects, ThreadsUp
<1>9. ASSUME NEW w \in Threads, ReadCustom(w) PROVE ThreadsFit'
  <2>1. phase = "up"
    BY <1>9, ReadCustomEffects, WhoRuns DEF Busy, FileTypes
  <2>2. TaskFits(w)'
    BY <1>9, ReadCustomEffects DEF TaskFits, ThreadsFit, SameTask
  <2>3. w \in ShieldedCoins => writer'[w].op \in {"none", "update"}
    BY <1>9, ReadCustomEffects DEF SameTask, ThreadsFit
  <2> QED BY <1>9, <2>1, <2>2, <2>3, ReadCustomEffects, ThreadsUp
<1>10. ASSUME NEW w \in Threads, NEW c \in Coins, Apply(w, c) PROVE ThreadsFit'
  <2>1. phase = "up" /\ writer[w].op = "update"
    BY <1>10, ApplyEffects, WhoRuns DEF Busy, FileTypes, ThreadsFit, TaskFits
  <2>2. TaskFits(w)'
    BY <1>10, <2>1, ApplyEffects DEF TaskFits, ThreadsFit
  <2>3. w \in ShieldedCoins => writer'[w].op \in {"none", "update"}
    BY <1>10, <2>1, ApplyEffects
  <2> QED BY <1>10, <2>1, <2>2, <2>3, ApplyEffects, ThreadsUp
<1>11. ASSUME NEW w \in Threads, TruncateMain(w) PROVE ThreadsFit'
  <2>1. Others(w) /\ writer'[w].pc = "fillMain" /\ SameTask(w) /\ phase' = phase
        /\ added' = added /\ overlapped' = overlapped /\ writer[w].pc = "truncMain"
    BY <1>11, GotoEffects DEF TruncateMain, history
  <2>2. TaskFits(w)'
    BY <2>1 DEF TaskFits, ThreadsFit, SameTask
  <2>3. CASE phase = "up"
    BY <2>1, <2>2, <2>3, ThreadsUp DEF ThreadsFit, SameTask
  <2>4. CASE phase = "login"
    <3>1. w = Gui
      BY <2>1, <2>4, WhoRuns DEF Busy
    <3>2. \A v \in Threads : TaskFits(v)'
      BY <2>1, <2>2 DEF TaskFits, ThreadsFit, Others
    <3> QED BY <2>1, <2>4, <3>1, <3>2 DEF ThreadsFit, Others, SameTask
  <2> QED BY <2>1, <2>3, <2>4, WhoRuns DEF Busy, FileTypes
<1>12. ASSUME NEW w \in Threads, FillMain(w) PROVE ThreadsFit'
  <2>1. Others(w) /\ phase' = phase /\ added' = added /\ overlapped' = overlapped
        /\ writer[w].pc = "fillMain"
    BY <1>12, FillMainEffects DEF history
  <2>2. TaskFits(w)' /\ (w \in ShieldedCoins => writer'[w].op \in {"none", "update"})
        /\ (AfterMain(w) # "removeOld" => writer'[w].pc # "removeOld") /\ writer'[w].pc # "load"
    <3>1. CASE AfterMain(w) = "idle"
      BY <1>12, <2>1, <3>1, FillMainEffects, IdleFacts DEF IdleNow, TaskFits
    <3>2. CASE AfterMain(w) # "idle"
      <4>1. writer'[w].pc = AfterMain(w) /\ SameTask(w)
        BY <1>12, <3>2, FillMainEffects
      <4>2. writer[w].op = "upgrade" => AfterMain(w) = "removeOld"
        BY DEF AfterMain
      <4>3. writer[w].op # "upgrade" => AfterMain(w) \in {"readCustom", "truncCustom", "idle"}
        BY DEF AfterMain
      <4> QED BY <2>1, <4>1, <4>2, <4>3 DEF ThreadsFit, TaskFits, SameTask
    <3> QED BY <3>1, <3>2
  <2>3. writer[w].op = "upgrade" <=> AfterMain(w) = "removeOld"
    BY DEF AfterMain
  <2>4. CASE phase = "up"
    <3>1. writer[w].op # "upgrade"
      BY <2>4 DEF ThreadsFit, TaskFits
    <3> QED BY <2>1, <2>2, <2>3, <2>4, <3>1, ThreadsUp
  <2>5. CASE phase = "login"
    <3>1. w = Gui /\ writer[w].op = "upgrade"
      BY <2>1, <2>5, WhoRuns DEF Busy, ThreadsFit
    <3>2. \A v \in Threads : TaskFits(v)'
      BY <2>1, <2>2 DEF TaskFits, ThreadsFit, Others
    <3>3. writer'[Gui].pc = "removeOld" /\ writer'[Gui].op = "upgrade"
      BY <1>12, <2>3, <3>1, FillMainEffects DEF SameTask
    <3> QED BY <2>1, <2>5, <3>1, <3>2, <3>3 DEF ThreadsFit, Others
  <2> QED BY <2>1, <2>4, <2>5, WhoRuns DEF Busy, FileTypes
<1>13. ASSUME NEW w \in Threads, TruncateCustom(w) PROVE ThreadsFit'
  <2>1. Others(w) /\ writer'[w].pc = "fillCustom" /\ SameTask(w) /\ phase' = phase
        /\ writer[w].pc = "truncCustom"
    BY <1>13, GotoEffects DEF TruncateCustom
  <2>2. phase = "up"
    BY <2>1, WhoRuns DEF Busy, FileTypes
  <2>3. TaskFits(w)' /\ (w \in ShieldedCoins => writer'[w].op \in {"none", "update"})
    BY <2>1 DEF TaskFits, ThreadsFit, SameTask
  <2> QED BY <2>1, <2>2, <2>3, ThreadsUp
<1>14. ASSUME NEW w \in Threads, FillCustom(w) PROVE ThreadsFit'
  <2>1. phase = "up" /\ phase' = phase /\ Others(w)
    BY <1>14, FillCustomEffects, WhoRuns DEF Busy, FileTypes
  <2>2. CASE writer[w].op # "reset"
    BY <1>14, <2>1, <2>2, FillCustomEffects, IdleFacts, ThreadsUp DEF IdleNow, TaskFits
  <2>3. CASE writer[w].op = "reset"
    <3>1. writer'[w].pc = "restart" /\ SameTask(w)
      BY <1>14, <2>3, FillCustomEffects
    <3> QED BY <2>1, <2>3, <3>1, ThreadsUp DEF TaskFits, ThreadsFit, SameTask
  <2> QED BY <2>2, <2>3
<1>15. ASSUME NEW c \in ShieldedCoins, WorkerThrows(c) PROVE ThreadsFit'
  <2>1. CASE Ends
    BY <2>1, ThreadsEnd
  <2>2. CASE ~Ends
    <3>1. Others(c) /\ IdleNow(c) /\ phase' = phase /\ Busy(c) /\ c \in Threads
      BY <1>15, <2>2 DEF WorkerThrows, Throws, Others, IdleNow, FileTypes, Busy
    <3>2. phase = "up"
      BY <3>1, WhoRuns DEF FileTypes
    <3> QED BY <3>1, <3>2, IdleFacts, ThreadsUp DEF IdleNow, TaskFits
  <2> QED BY <2>1, <2>2
<1>16. CASE UNCHANGED vars
  BY <1>16 DEF vars, history, ThreadsFit, TaskFits, AllIdle
<1> QED BY <1>1, <1>2, <1>3, <1>4, <1>6, <1>7, <1>8, <1>9, <1>10, <1>11, <1>12, <1>13, <1>14, <1>15, <1>16
        DEF Next, Works

-----------------------------------------------------------------------------
(* Changes that do not overlap.                                            *)

SerialInv == OneWriter /\ MainIsWhole /\ SavedOrHeld

LEMMA OthersIdle ==
    ASSUME OneWriter, Serial, NEW w \in Threads, Busy(w)
    PROVE  \A v \in Threads : v # w => writer[v].pc = "idle"
BY DEF OneWriter, Busy

LEMMA FilesAreDocs ==
    ASSUME FileTypes
    PROVE  /\ \A w \in Threads : /\ writer[w].main \in DocsOf(MainCoins) /\ writer[w].main \in Docs
                                 /\ writer[w].custom \in DocsOf(CustomCoins) /\ writer[w].custom \in Docs
                                 /\ writer[w].status \in BOOLEAN /\ writer[w].todo \subseteq Coins
           /\ registry.known \subseteq Coins
BY DocTypes DEF FileTypes, Writers, Docs

\* What a step of the one writer has to leave for the invariant.
LEMMA SerialKept ==
    ASSUME FileTypes, FileTypes', SerialInv, Serial, Serial', NEW w \in Threads, Busy(w), Others(w),
           writer'[w].pc = "fillMain" => files'.main = Truncated,
           writer'[w].pc # "fillMain" => Whole(files'.main),
           writer'[w].pc = "fillCustom" => files'.custom = Truncated,
           writer'[w].op = "update" /\ Busy(w)' => writer'[w].todo \subseteq registry'.known,
           writer'[w].op = "add" /\ Busy(w)' => writer'[w].todo \cap registry'.known = {},
           Busy(w)' /\ writer'[w].op # "reset" => HeldBy(w)',
           ~Busy(w)' => SavedNow'
    PROVE  SerialInv'
<1>1. \A v \in Threads : v # w => writer'[v] = writer[v] /\ writer'[v].pc = "idle"
  BY OthersIdle DEF SerialInv, Others
<1>2. OneWriter'
  BY <1>1 DEF OneWriter, Busy
<1>3. MainIsWhole'
  BY DEF MainIsWhole, NotWriting
<1>4. SavedOrHeld'
  <2>1. AllIdle' => ~Busy(w)'
    BY DEF AllIdle, Busy
  <2>2. \A v \in Threads : Busy(v)' => v = w
    BY <1>1 DEF Busy
  <2> QED BY <2>1, <2>2 DEF SavedOrHeld
<1> QED BY <1>2, <1>3, <1>4 DEF SerialInv

\* What the invariant says of the writer.
LEMMA SerialHere ==
    ASSUME FileTypes, ThreadsFit, SerialInv, Serial, NEW w \in Threads, Busy(w)
    PROVE  /\ writer[w].pc # "fillMain" => Whole(files.main)
           /\ writer[w].pc = "fillMain" => files.main = Truncated
           /\ writer[w].pc = "fillCustom" => files.custom = Truncated
           /\ writer[w].op = "update" => writer[w].todo \subseteq registry.known
           /\ writer[w].op = "add" => writer[w].todo \cap registry.known = {}
           /\ writer[w].op # "reset" => HeldBy(w)
<1>1. \A v \in Threads : v # w => writer[v].pc = "idle"
  BY OthersIdle DEF SerialInv
<1>2. writer[w].pc # "fillMain" => NotWriting
  BY <1>1 DEF NotWriting
<1> QED BY <1>2 DEF SerialInv, OneWriter, MainIsWhole, SavedOrHeld

LEMMA SerialReadMain ==
    ASSUME FileTypes, FileTypes', ThreadsFit, SerialInv, Serial', NEW w \in Threads, ReadMain(w)
    PROVE  SerialInv'
<1>1. Serial /\ Busy(w)
  BY ReadMainEffects DEF Serial, Busy, history
<1>2. HeldBy(w)'
  <2>1. HeldBy(w)
    BY <1>1, SerialHere, ReadMainEffects
  <2>2. MainDoc(w)' = MainDoc(w) /\ CustomDoc(w)' = CustomDoc(w) /\ AddedThen(w)' = AddedThen(w)
        /\ registry' = registry
    BY ReadMainEffects DEF MainDoc, CustomDoc, AddedThen, SameTask, history
  <2> QED BY <2>1, <2>2 DEF HeldBy, MainSaved, CustomSaved, SavedAs
<1>3. Whole(files'.main) /\ writer'[w].todo \subseteq registry'.known
  BY <1>1, SerialHere, ReadMainEffects DEF SameTask
<1> QED BY <1>1, <1>2, <1>3, ReadMainEffects, SerialKept DEF SameTask, Busy

LEMMA SerialReset ==
    ASSUME FileTypes, FileTypes', ThreadsFit, SerialInv, Serial', ReadForReset
    PROVE  SerialInv'
<1>1. Serial /\ Busy(Gui) /\ Gui \in Threads
  BY ReadForResetEffects, GuiIsThread DEF Serial, Busy, history
<1>2. Whole(files'.main)
  BY ReadForResetEffects, FileFacts, DocTypes
<1>3. writer'[Gui].op = "reset" /\ writer'[Gui].pc = "truncMain"
  BY ReadForResetEffects DEF SameTask
<1> QED BY <1>1, <1>2, <1>3, ReadForResetEffects, SerialKept DEF Busy

LEMMA SerialReadCustom ==
    ASSUME FileTypes, FileTypes', ThreadsFit, SerialInv, Serial', NEW w \in Threads, ReadCustom(w)
    PROVE  SerialInv'
<1> DEFINE custom == Contents(files.custom)
<1>1. Serial /\ Busy(w) /\ Others(w) /\ SameTask(w) /\ UNCHANGED <<files, added>>
      /\ writer[w].pc = "readCustom"
  BY ReadCustomEffects DEF Serial, Busy, history
<1>2. Whole(files'.main)
  BY <1>1, SerialHere
<1>3. writer[w].op \in {"update", "add", "remove", "reset"}
  BY <1>1 DEF ThreadsFit, TaskFits
<1>4. writer[w].op # "reset" =>
        MainSaved(MainDoc(w)) /\ CustomSaved(custom) /\ added \subseteq custom.known
  BY <1>1, SerialHere DEF HeldBy, CustomDoc, AddedThen
<1>5. CASE writer[w].op = "update"
  <2>1. writer'[w].pc = "apply" /\ registry' = registry
        /\ writer'[w].main = writer[w].main /\ writer'[w].custom = custom
    BY <1>5, ReadCustomEffects DEF ChangedCustom
  <2>2. MainDoc(w)' = MainDoc(w) /\ CustomDoc(w)' = custom /\ AddedThen(w)' = added
    BY <1>1, <1>5, <2>1 DEF MainDoc, CustomDoc, AddedThen, SameTask
  <2>3. HeldBy(w)'
    BY <1>4, <1>5, <2>1, <2>2 DEF HeldBy, MainSaved, CustomSaved, SavedAs
  <2>4. writer'[w].todo \subseteq registry'.known
    BY <1>1, <1>5, <2>1, SerialHere DEF SameTask
  <2> QED BY <1>1, <1>2, <1>5, <2>1, <2>3, <2>4, SerialKept DEF SameTask, Busy
<1>6. CASE writer[w].op = "add"
  <2>1. writer'[w].pc = "truncCustom" /\ registry' = registry
        /\ writer'[w].custom = [known |-> custom.known \cup writer[w].todo,
                                active |-> custom.active \cup writer[w].todo]
    BY <1>6, ReadCustomEffects DEF ChangedCustom
  <2>2. writer[w].todo \cap registry.known = {}
    BY <1>1, <1>6, SerialHere
  <2>3. /\ MainDoc(w)' = MainDoc(w) /\ CustomDoc(w)'.known = custom.known \cup writer[w].todo
        /\ CustomDoc(w)'.active = custom.active \cup writer[w].todo
        /\ AddedThen(w)' = added \cup writer[w].todo
    BY <1>1, <1>6, <2>1 DEF MainDoc, CustomDoc, AddedThen, SameTask
  <2>4. HeldBy(w)'
    BY <1>4, <1>6, <2>1, <2>2, <2>3 DEF HeldBy, MainSaved, CustomSaved, SavedAs
  <2> QED BY <1>1, <1>2, <1>6, <2>1, <2>2, <2>4, SerialKept DEF SameTask, Busy
<1>7. CASE writer[w].op = "remove"
  <2>1. writer'[w].pc = "truncCustom" /\ registry'.known = registry.known \ writer[w].todo
        /\ registry'.active = registry.active \ writer[w].todo
        /\ writer'[w].custom = [known |-> custom.known \ writer[w].todo,
                                active |-> custom.active \ writer[w].todo]
    BY <1>7, ReadCustomEffects DEF ChangedCustom
  <2>3. /\ MainDoc(w)' = MainDoc(w) /\ CustomDoc(w)'.known = custom.known \ writer[w].todo
        /\ CustomDoc(w)'.active = custom.active \ writer[w].todo
        /\ AddedThen(w)' = added \ writer[w].todo
    BY <1>1, <1>7, <2>1 DEF MainDoc, CustomDoc, AddedThen, SameTask
  <2>4. HeldBy(w)'
    BY <1>4, <1>7, <2>1, <2>3 DEF HeldBy, MainSaved, CustomSaved, SavedAs
  <2> QED BY <1>1, <1>2, <1>7, <2>1, <2>4, SerialKept DEF SameTask, Busy
<1>8. CASE writer[w].op = "reset"
  <2>1. writer'[w].pc = "truncCustom"
    BY <1>8, ReadCustomEffects
  <2> QED BY <1>1, <1>2, <1>8, <2>1, SerialKept DEF SameTask, Busy
<1> QED BY <1>3, <1>5, <1>6, <1>7, <1>8

LEMMA SerialApply ==
    ASSUME FileTypes, FileTypes', ThreadsFit, SerialInv, Serial', NEW w \in Threads, NEW c \in Coins,
           Apply(w, c)
    PROVE  SerialInv'
<1>1. /\ Serial /\ Busy(w) /\ Others(w) /\ UNCHANGED <<files, added>>
      /\ writer[w].pc = "apply" /\ writer[w].op = "update" /\ writer'[w].op = "update"
      /\ writer'[w].pc \in {"apply", "truncMain"} /\ c \in writer[w].todo
  BY ApplyEffects DEF Serial, Busy, history, ThreadsFit, TaskFits
<1>2. Whole(files'.main)
  BY <1>1, SerialHere
<1>3. /\ MainSaved(writer[w].main) /\ CustomSaved(writer[w].custom)
      /\ added \subseteq writer[w].custom.known /\ writer[w].todo \subseteq registry.known
  BY <1>1, SerialHere DEF HeldBy, MainDoc, CustomDoc, AddedThen
<1>4. MainDoc(w)' = writer'[w].main /\ CustomDoc(w)' = writer'[w].custom /\ AddedThen(w)' = added
  BY <1>1 DEF MainDoc, CustomDoc, AddedThen
<1>5. \A doc \in Docs : /\ Marked(doc, {c}, writer[w].status).known = doc.known
                        /\ Marked(doc, {c}, writer[w].status).active =
                             (IF writer[w].status THEN doc.active \cup {c} ELSE doc.active \ {c})
  BY DEF Marked, Docs
<1>6. /\ registry'.known = registry.known
      /\ registry'.active = (IF writer[w].status THEN registry.active \cup {c} ELSE registry.active \ {c})
  <2>1. registry' = Marked(registry, {c}, writer[w].status) /\ registry \in Docs
    BY ApplyEffects DEF FileTypes
  <2> QED BY <1>5, <2>1
<1>7. writer[w].main \in Docs /\ writer[w].custom \in Docs
  BY FilesAreDocs
<1>8. HeldBy(w)'
  <2>1. CASE c \in CustomCoins
    <3>1. /\ writer'[w].main = writer[w].main /\ writer'[w].custom.known = writer[w].custom.known
          /\ writer'[w].custom.active = (IF writer[w].status THEN writer[w].custom.active \cup {c}
                                         ELSE writer[w].custom.active \ {c})
      BY <1>5, <1>7, <2>1, ApplyEffects
    <3>2. MainSaved(writer[w].main)'
      BY <1>3, <1>6, <2>1, <3>1 DEF MainSaved, SavedAs
    <3>3. CustomSaved(writer[w].custom)'
      BY <1>3, <1>6, <2>1, <3>1 DEF CustomSaved, SavedAs
    <3> QED BY <1>3, <1>4, <3>1, <3>2, <3>3 DEF HeldBy
  <2>2. CASE c \notin CustomCoins
    <3>1. /\ writer'[w].custom = writer[w].custom /\ writer'[w].main.known = writer[w].main.known
          /\ writer'[w].main.active = (IF writer[w].status THEN writer[w].main.active \cup {c}
                                       ELSE writer[w].main.active \ {c})
      BY <1>5, <1>7, <2>2, ApplyEffects
    <3>2. MainSaved(writer[w].main)'
      BY <1>3, <1>6, <2>2, <3>1 DEF MainSaved, SavedAs
    <3>3. CustomSaved(writer[w].custom)'
      BY <1>3, <1>6, <2>2, <3>1 DEF CustomSaved, SavedAs
    <3> QED BY <1>3, <1>4, <3>1, <3>2, <3>3 DEF HeldBy
  <2> QED BY <2>1, <2>2
<1>9. writer'[w].todo \subseteq registry'.known
  BY <1>3, <1>6, ApplyEffects
<1> QED BY <1>1, <1>2, <1>8, <1>9, SerialKept DEF Busy

LEMMA SerialTruncate ==
    ASSUME FileTypes, FileTypes', ThreadsFit, SerialInv, Serial', NEW w \in Threads,
           TruncateMain(w) \/ TruncateCustom(w)
    PROVE  SerialInv'
<1>1. /\ Others(w) /\ SameTask(w) /\ SameDocs(w) /\ Busy(w) /\ Busy(w)'
      /\ UNCHANGED <<phase, registry, overlapped, added>>
  BY GotoEffects DEF TruncateMain, TruncateCustom, Busy, history
<1>2. Serial
  BY <1>1 DEF Serial
<1>3. writer[w].op = "update" => writer'[w].todo \subseteq registry'.known
  BY <1>1, <1>2, SerialHere DEF SameTask
<1>4. writer[w].op = "add" => writer'[w].todo \cap registry'.known = {}
  BY <1>1, <1>2, SerialHere DEF SameTask
<1>5. writer[w].op # "reset" => HeldBy(w)
  BY <1>1, <1>2, SerialHere
<1>6. CASE TruncateMain(w)
  <2>1. writer[w].pc = "truncMain" /\ writer'[w].pc = "fillMain" /\ writer[w].op \in {"update", "reset"}
    BY <1>2, <1>6, GotoEffects DEF TruncateMain, ThreadsFit, TaskFits, Serial
  <2>2. files'.main = Truncated /\ files'.custom = files.custom
    BY <1>6 DEF TruncateMain, FileTypes
  <2>3. writer[w].op # "reset" =>
          MainDoc(w)' = MainDoc(w) /\ CustomDoc(w)' = CustomDoc(w) /\ AddedThen(w)' = AddedThen(w)
    BY <1>1, <2>1, <2>2 DEF MainDoc, CustomDoc, AddedThen, SameTask, SameDocs
  <2>4. writer[w].op # "reset" => HeldBy(w)'
    BY <1>1, <1>5, <2>3 DEF HeldBy, MainSaved, CustomSaved, SavedAs
  <2> QED BY <1>1, <1>2, <1>3, <1>4, <2>1, <2>2, <2>4, SerialKept DEF SameTask
<1>7. CASE TruncateCustom(w)
  <2>1. writer[w].pc = "truncCustom" /\ writer'[w].pc = "fillCustom"
    BY <1>7, GotoEffects DEF TruncateCustom
  <2>2. files'.custom = Truncated /\ files'.main = files.main /\ Whole(files.main)
    BY <1>1, <1>2, <1>7, <2>1, SerialHere DEF TruncateCustom, FileTypes
  <2>3. MainDoc(w)' = MainDoc(w) /\ CustomDoc(w)' = CustomDoc(w) /\ AddedThen(w)' = AddedThen(w)
    BY <1>1, <2>1, <2>2 DEF MainDoc, CustomDoc, AddedThen, SameTask, SameDocs
  <2>4. writer[w].op # "reset" => HeldBy(w)'
    BY <1>1, <1>5, <2>3 DEF HeldBy, MainSaved, CustomSaved, SavedAs
  <2> QED BY <1>1, <1>2, <1>3, <1>4, <2>1, <2>2, <2>4, SerialKept DEF SameTask
<1> QED BY <1>6, <1>7

LEMMA SerialFillMain ==
    ASSUME FileTypes, FileTypes', ThreadsFit, SerialInv, Serial', NEW w \in Threads, FillMain(w)
    PROVE  SerialInv'
<1>1. /\ Others(w) /\ Busy(w) /\ writer[w].pc = "fillMain" /\ UNCHANGED <<phase, registry, overlapped, added>>
      /\ files'.custom = files.custom
  BY FillMainEffects DEF Busy, history
<1>2. Serial
  BY <1>1 DEF Serial
<1>3. files'.main = FileOf(writer[w].main) /\ Whole(files'.main) /\ Contents(files'.main) = writer[w].main
  BY <1>1, <1>2, SerialHere, FillMainEffects, FilesAreDocs, FileFacts
<1>4. writer[w].op \in {"update", "reset"}
  BY <1>1, <1>2 DEF ThreadsFit, TaskFits, Serial
<1>5. CASE writer[w].op = "reset"
  <2>1. writer'[w].pc = "readCustom" /\ SameTask(w)
    BY <1>5, FillMainEffects DEF AfterMain
  <2> QED BY <1>1, <1>2, <1>3, <1>5, <2>1, SerialKept DEF SameTask, Busy
<1>6. CASE writer[w].op = "update"
  <2>1. /\ MainSaved(writer[w].main) /\ CustomSaved(writer[w].custom)
        /\ added \subseteq writer[w].custom.known /\ writer[w].todo \subseteq registry.known
    BY <1>1, <1>2, <1>6, SerialHere DEF HeldBy, MainDoc, CustomDoc, AddedThen
  <2>2. MainSaved(Contents(files.main))'
    BY <1>1, <1>3, <2>1 DEF MainSaved, SavedAs
  <2>3. CASE writer[w].custom.known = {}
    <3>1. writer'[w].pc = "idle"
      BY <1>6, <2>3, FillMainEffects, IdleFacts DEF AfterMain, IdleNow
    <3>2. CustomSaved(Contents(files.custom))'
      BY <1>1, <2>1, <2>3 DEF CustomSaved, SavedAs
    <3>3. SavedNow'
      BY <1>1, <2>1, <2>2, <2>3, <3>2 DEF SavedNow
    <3>4. writer'[w].op = "none"
      BY <1>6, <2>3, FillMainEffects, IdleFacts DEF AfterMain, IdleNow
    <3> QED BY <1>1, <1>2, <1>3, <3>1, <3>3, <3>4, SerialKept DEF Busy
  <2>4. CASE writer[w].custom.known # {}
    <3>1. writer'[w].pc = "truncCustom" /\ SameTask(w) /\ SameDocs(w)
      BY <1>6, <2>4, FillMainEffects DEF AfterMain
    <3>2. /\ MainDoc(w)' = Contents(files.main)' /\ CustomDoc(w)' = writer[w].custom
          /\ AddedThen(w)' = added
      BY <1>1, <1>6, <3>1 DEF MainDoc, CustomDoc, AddedThen, SameTask, SameDocs
    <3>3. CustomSaved(writer[w].custom)'
      BY <1>1, <2>1, <3>1 DEF CustomSaved, SavedAs, SameDocs
    <3>4. HeldBy(w)'
      BY <2>1, <2>2, <3>1, <3>2, <3>3 DEF HeldBy, SameDocs
    <3> QED BY <1>1, <1>2, <1>3, <1>6, <2>1, <3>1, <3>4, SerialKept DEF SameTask, Busy
  <2> QED BY <2>3, <2>4
<1> QED BY <1>4, <1>5, <1>6

LEMMA SerialFillCustom ==
    ASSUME FileTypes, FileTypes', ThreadsFit, SerialInv, Serial', NEW w \in Threads, FillCustom(w)
    PROVE  SerialInv'
<1>1. /\ Others(w) /\ Busy(w) /\ writer[w].pc = "fillCustom" /\ UNCHANGED <<phase, registry, overlapped>>
      /\ files'.main = files.main /\ added' = AddedThen(w)
  BY FillCustomEffects DEF Busy
<1>2. Serial
  BY <1>1 DEF Serial
<1>3. /\ Whole(files'.main) /\ files'.custom = FileOf(writer[w].custom)
      /\ Contents(files'.custom) = writer[w].custom
  BY <1>1, <1>2, SerialHere, FillCustomEffects, FilesAreDocs, FileFacts
<1>4. CASE writer[w].op = "reset"
  <2>1. writer'[w].pc = "restart" /\ SameTask(w)
    BY <1>4, FillCustomEffects
  <2> QED BY <1>1, <1>2, <1>3, <1>4, <2>1, SerialKept DEF SameTask, Busy
<1>5. CASE writer[w].op # "reset"
  <2>1. writer'[w].pc = "idle" /\ writer'[w].op = "none"
    BY <1>5, FillCustomEffects, IdleFacts DEF IdleNow
  <2>2. MainSaved(Contents(files.main)) /\ CustomSaved(writer[w].custom)
        /\ AddedThen(w) \subseteq writer[w].custom.known
    BY <1>1, <1>2, <1>5, SerialHere DEF HeldBy, MainDoc, CustomDoc
  <2>3. SavedNow'
    BY <1>1, <1>3, <2>2 DEF SavedNow, MainSaved, CustomSaved, SavedAs
  <2> QED BY <1>1, <1>2, <1>3, <2>1, <2>3, SerialKept DEF Busy
<1> QED BY <1>4, <1>5

\* A change begins where none runs.
LEMMA SerialBegins ==
    ASSUME FileTypes, FileTypes', SerialInv, Serial', NEW w \in Threads,
           NEW pc \in {"readMain", "readCustom"}, NEW op, NEW todo, NEW status,
           Begins(w, pc, op, todo, status),
           pc = "readCustom" => op # "update",
           op = "update" => todo \subseteq registry.known,
           op = "add" => todo \cap registry.known = {}
    PROVE  SerialInv'
<1>1. /\ Serial /\ AllIdle /\ Others(w) /\ writer'[w].pc = pc /\ writer'[w].op = op /\ writer'[w].todo = todo
      /\ UNCHANGED <<registry, files, added>>
  BY BeginEffects DEF Serial
<1>2. \A v \in Threads : v # w => writer'[v].pc = "idle"
  BY <1>1 DEF AllIdle, Others
<1>3. Whole(files.main) /\ SavedNow
  BY <1>1 DEF SerialInv, MainIsWhole, SavedOrHeld, NotWriting, AllIdle
<1>4. OneWriter'
  BY <1>1, <1>2 DEF OneWriter, Busy
<1>5. MainIsWhole'
  BY <1>1, <1>3 DEF MainIsWhole
<1>6. HeldBy(w)'
  <2>1. MainDoc(w)' = Contents(files.main) /\ CustomDoc(w)' = Contents(files.custom)
        /\ AddedThen(w)' = added
    BY <1>1 DEF MainDoc, CustomDoc, AddedThen
  <2> QED BY <1>1, <1>3, <2>1 DEF HeldBy, SavedNow, MainSaved, CustomSaved, SavedAs
<1>7. SavedOrHeld'
  <2>1. ~AllIdle'
    BY <1>1 DEF AllIdle
  <2> QED BY <1>2, <1>6, <2>1 DEF SavedOrHeld, Busy
<1> QED BY <1>4, <1>5, <1>7 DEF SerialInv

\* A login ends with what the files hold.
LEMMA SerialLoad == ASSUME FileTypes, ThreadsFit, LoginIsWhole, Load PROVE SerialInv'
<1>1. phase = "login" /\ UNCHANGED <<files, added>> /\ writer[Gui].pc = "load"
  BY LoadEffects, WhoRuns, GuiIsThread DEF Busy, FileTypes, history
<1>2. \A w \in Threads : writer'[w].pc = "idle" /\ writer'[w].op \in {"none", "update"}
  BY <1>1, LoadEffects, GuiIsThread, IdleFacts DEF ThreadsFit, Others, IdleNow, Threads
<1>3. Whole(files.main) /\ added = {}
  BY <1>1 DEF LoginIsWhole, ThreadsFit
<1>4. SavedNow'
  <2>0. PICK m, k : m = Contents(files.main) /\ k = Contents(files.custom)
    OBVIOUS
  <2>1. /\ registry'.known = m.known \cup k.known
        /\ registry'.active = m.active \cup k.active \cup (DefaultCoins \cap m.known)
    BY <2>0, LoadEffects
  <2>2. /\ m.known \subseteq MainCoins /\ m.active \subseteq MainCoins
        /\ k.known \subseteq CustomCoins /\ k.active \subseteq CustomCoins
        /\ MainCoins \cap CustomCoins = {} /\ DefaultCoins \subseteq MainCoins
    BY <2>0, ContentsType, StatusFileAssumption DEF DocsOf
  <2>3. Contents(files.main)' = m /\ Contents(files.custom)' = k
    BY <1>1, <2>0
  <2>4. MainSaved(m)' /\ CustomSaved(k)'
    BY <2>1, <2>2 DEF MainSaved, CustomSaved, SavedAs
  <2>5. added' \subseteq k.known
    BY <1>1, <1>3
  <2> QED BY <1>1, <2>3, <2>4, <2>5 DEF SavedNow
<1> QED BY <1>1, <1>2, <1>3, <1>4 DEF SerialInv, OneWriter, MainIsWhole, SavedOrHeld, Busy

\* A worker finds what it looks for, so it does not throw.
LEMMA SerialDoesNotThrow ==
    ASSUME FileTypes, ThreadsFit, SerialInv, Serial, NEW c \in ShieldedCoins
    PROVE  ~Throws(c)
<1> SUFFICES ASSUME Throws(c) PROVE FALSE
  OBVIOUS
<1>1. c \in Threads /\ Busy(c) /\ writer[c].op \in {"none", "update"}
  BY GuiIsThread DEF Throws, Busy, ThreadsFit
<1>2. writer[c].pc = "apply"
  BY <1>1 DEF Throws
<1>3. PICK d \in writer[c].todo : Missing(c, d)
  BY <1>1, <1>2 DEF Throws
<1>4. writer[c].op = "update"
  BY <1>1, <1>2 DEF ThreadsFit, TaskFits
<1>5. MainSaved(writer[c].main) /\ CustomSaved(writer[c].custom) /\ d \in registry.known
  BY <1>1, <1>2, <1>3, <1>4, SerialHere DEF HeldBy, MainDoc, CustomDoc
<1> QED BY <1>3, <1>5 DEF Missing, MainSaved, CustomSaved, SavedAs

LEMMA SerialStep ==
    FileTypes /\ FileTypes' /\ ThreadsFit /\ LoginIsWhole /\ SerialInv /\ [Next]_vars => SerialInv'
<1> SUFFICES ASSUME FileTypes, FileTypes', ThreadsFit, LoginIsWhole, SerialInv, [Next]_vars, Serial'
             PROVE  SerialInv'
  BY DEF SerialInv, OneWriter, MainIsWhole, SavedOrHeld
<1> USE GuiIsThread
<1>1. ASSUME phase' # "up" PROVE FALSE
  BY <1>1 DEF Serial
<1>2. CASE Stop \/ GuiThrows \/ Login
  BY <1>1, <1>2 DEF Stop, GuiThrows, Ends, Login
<1>3. CASE RemoveOld
  <2>1. writer[Gui].pc = "removeOld" /\ phase' = phase
    BY <1>3 DEF RemoveOld, OldIsDone
  <2> QED BY <1>1, <2>1 DEF ThreadsFit
<1>4. CASE Load
  BY <1>4, SerialLoad
<1>5. CASE Command
  <2>1. CASE \E tickers \in SUBSET Coins : MarkActive(tickers) \/ DisableCoins(tickers)
    <3>1. PICK tickers \in SUBSET Coins : MarkActive(tickers) \/ DisableCoins(tickers)
      BY <2>1
    <3>2. tickers \subseteq registry.known
      BY <3>1 DEF MarkActive, DisableCoins
    <3> QED BY <3>1, <3>2, SerialBegins DEF MarkActive, DisableCoins
  <2>2. CASE \E c \in ShieldedCoins : WorkerUpdates(c)
    <3>1. PICK c \in ShieldedCoins : WorkerUpdates(c)
      BY <2>2
    <3>2. {c} \subseteq registry.known
      BY <3>1 DEF WorkerUpdates
    <3> QED BY <3>1, <3>2, SerialBegins DEF WorkerUpdates
  <2>3. CASE \E c \in CustomCoins : AddCoin(c) \/ RemoveCoin(c)
    <3>1. PICK c \in CustomCoins : AddCoin(c) \/ RemoveCoin(c)
      BY <2>3
    <3>2. AddCoin(c) => {c} \cap registry.known = {}
      BY DEF AddCoin
    <3> QED BY <3>1, <3>2, SerialBegins DEF AddCoin, RemoveCoin
  <2>4. CASE ResetCoins
    BY <2>4, SerialBegins DEF ResetCoins
  <2> QED BY <1>5, <2>1, <2>2, <2>3, <2>4 DEF Command
<1>6. CASE ReadForReset
  BY <1>6, SerialReset
<1>7. CASE \E w \in Threads : Works(w)
  BY <1>7, SerialReadMain, SerialReadCustom, SerialApply, SerialTruncate, SerialFillMain,
     SerialFillCustom DEF Works
<1>8. CASE \E c \in ShieldedCoins : WorkerThrows(c)
  <2>1. PICK c \in ShieldedCoins : WorkerThrows(c)
    BY <1>8
  <2>2. CASE Ends
    BY <1>1, <2>2 DEF Ends
  <2>3. CASE ~Ends
    <3>1. Serial
      BY <2>1, <2>3 DEF WorkerThrows, Serial, history
    <3> QED BY <2>1, <3>1, SerialDoesNotThrow DEF WorkerThrows
  <2> QED BY <2>2, <2>3
<1>9. CASE UNCHANGED vars
  BY <1>9 DEF vars, history, SerialInv, OneWriter, MainIsWhole, SavedOrHeld, Serial, Busy, NotWriting,
              AllIdle, SavedNow, HeldBy, MainDoc, CustomDoc, AddedThen, MainSaved, CustomSaved, SavedAs
<1> QED BY <1>2, <1>3, <1>4, <1>5, <1>6, <1>7, <1>8, <1>9 DEF Next

-----------------------------------------------------------------------------
(* The login, and the upgrade in it.                                       *)

\* In a login only the GUI thread runs, and only to repair, upgrade and load.
LEMMA LoginSteps ==
    ASSUME FileTypes, ThreadsFit, [Next]_vars, phase' = "login"
    PROVE  \/ Login
           \/ phase = "login" /\ (RemoveOld \/ TruncateMain(Gui) \/ FillMain(Gui) \/ UNCHANGED vars)
<1> SUFFICES ASSUME ~Login
             PROVE  phase = "login" /\ (RemoveOld \/ TruncateMain(Gui) \/ FillMain(Gui) \/ UNCHANGED vars)
  OBVIOUS
<1>1. CASE Stop \/ GuiThrows \/ Load \/ Command
  BY <1>1 DEF Stop, GuiThrows, Ends, Load, Command, MarkActive, DisableCoins, WorkerUpdates,
              AddCoin, RemoveCoin, ResetCoins, Begins
<1>2. CASE RemoveOld
  BY <1>2 DEF RemoveOld
<1>3. CASE ReadForReset
  BY <1>3, WhoRuns, GuiIsThread DEF ReadForReset, Busy
<1>4. CASE \E w \in Threads : Works(w)
  <2>1. PICK w \in Threads : Works(w)
    BY <1>4
  <2>2. phase = "login"
    BY <2>1 DEF Works, ReadMain, ReadCustom, Apply, TruncateMain, FillMain, TruncateCustom, FillCustom
  <2>3. Busy(w)
    BY <2>1 DEF Busy, Works, ReadMain, ReadCustom, Apply, TruncateMain, FillMain, TruncateCustom, FillCustom
  <2>4. w = Gui /\ writer[w].pc \in {"load", "truncMain", "fillMain", "removeOld"}
    BY <2>2, <2>3, WhoRuns
  <2> QED BY <2>1, <2>2, <2>4 DEF Works, ReadMain, ReadCustom, Apply, TruncateCustom, FillCustom
<1>5. CASE \E c \in ShieldedCoins : WorkerThrows(c)
  <2>1. PICK c \in ShieldedCoins : WorkerThrows(c)
    BY <1>5
  <2>2. c \in Threads /\ Busy(c)
    BY <2>1, GuiIsThread DEF WorkerThrows, Throws, Busy
  <2>3. phase = "up"
    BY <2>2, WhoRuns
  <2> QED BY <2>1, <2>3 DEF WorkerThrows, Ends
<1>6. CASE UNCHANGED vars
  BY <1>6 DEF vars
<1> QED BY <1>1, <1>2, <1>3, <1>4, <1>5, <1>6 DEF Next

LEMMA TruncateMainEffects ==
    ASSUME FileTypes, TruncateMain(Gui)
    PROVE  /\ Others(Gui) /\ writer'[Gui].pc = "fillMain" /\ SameTask(Gui) /\ SameDocs(Gui)
           /\ files'.main = Truncated /\ UNCHANGED <<phase, old>> /\ writer[Gui].pc = "truncMain"
BY GotoEffects, GuiIsThread DEF TruncateMain, FileTypes

LEMMA RemoveOldEffects ==
    ASSUME FileTypes, RemoveOld
    PROVE  /\ Others(Gui) /\ writer'[Gui].pc = "load" /\ SameTask(Gui) /\ SameDocs(Gui)
           /\ UNCHANGED <<phase, files>> /\ old' = FALSE
           /\ writer[Gui].pc = "removeOld" /\ writer[Gui].op = "upgrade"
BY GotoEffects, GuiIsThread DEF RemoveOld, OldIsDone

\* The upgrade writes its document whole, and goes on to remove the old file.
LEMMA UpgradeFills ==
    ASSUME FileTypes, ThreadsFit, LoginIsWhole, phase = "login", FillMain(Gui)
    PROVE  /\ files'.main = FileOf(writer[Gui].main) /\ Whole(files'.main)
           /\ files'.main.doc = writer[Gui].main
           /\ writer'[Gui].pc = "removeOld" /\ SameTask(Gui) /\ SameDocs(Gui)
           /\ UNCHANGED <<phase, old>> /\ writer[Gui].op = "upgrade"
<1>1. writer[Gui].pc = "fillMain" /\ writer[Gui].op = "upgrade"
  BY FillMainEffects, GuiIsThread DEF ThreadsFit
<1>2. files.main = Truncated /\ writer[Gui].main \in Docs
  BY <1>1, FilesAreDocs, GuiIsThread DEF LoginIsWhole
<1>3. AfterMain(Gui) = "removeOld"
  BY <1>1 DEF AfterMain
<1> QED BY <1>1, <1>2, <1>3, FileFacts, FillMainEffects, GuiIsThread

LEMMA LoginIsWholeStep ==
    FileTypes /\ ThreadsFit /\ LoginIsWhole /\ [Next]_vars => LoginIsWhole'
<1> SUFFICES ASSUME FileTypes, ThreadsFit, LoginIsWhole, [Next]_vars, phase' = "login" PROVE LoginIsWhole'
  BY DEF LoginIsWhole
<1>1. CASE Login
  <2>1. Whole(files'.main)
    BY <1>1, LoginEffects, ContentsType
  <2>2. writer'[Gui].pc # "fillMain"
    BY <1>1, LoginEffects
  <2> QED BY <2>1, <2>2 DEF LoginIsWhole
<1>2. CASE phase = "login" /\ RemoveOld
  BY <1>2, RemoveOldEffects DEF LoginIsWhole
<1>3. CASE phase = "login" /\ TruncateMain(Gui)
  BY <1>3, TruncateMainEffects DEF LoginIsWhole
<1>4. CASE phase = "login" /\ FillMain(Gui)
  BY <1>4, UpgradeFills DEF LoginIsWhole
<1>5. CASE phase = "login" /\ UNCHANGED vars
  BY <1>5 DEF vars, LoginIsWhole
<1> QED BY <1>1, <1>2, <1>3, <1>4, <1>5, LoginSteps

\* A step that leaves the process down or down again changes no file.
LEMMA DownSteps ==
    ASSUME FileTypes, ThreadsFit, [Next]_vars, phase # "up", phase' # "up", phase' # "login"
    PROVE  UNCHANGED <<files, old>>
<1>1. CASE Stop \/ GuiThrows \/ Load \/ Command \/ Login
  BY <1>1 DEF Stop, GuiThrows, Ends, Load, Login, Command, MarkActive, DisableCoins, WorkerUpdates,
              AddCoin, RemoveCoin, ResetCoins, Begins
<1>2. CASE RemoveOld
  <2>1. Busy(Gui) /\ phase' = phase
    BY <1>2 DEF RemoveOld, OldIsDone, Busy
  <2> QED BY <2>1, WhoRuns, GuiIsThread DEF FileTypes
<1>3. CASE ReadForReset
  BY <1>3, WhoRuns, GuiIsThread DEF ReadForReset, Busy, FileTypes
<1>4. CASE \E w \in Threads : Works(w)
  <2>1. PICK w \in Threads : Works(w)
    BY <1>4
  <2>2. phase' = phase /\ Busy(w)
    BY <2>1 DEF Busy, Works, ReadMain, ReadCustom, Apply, TruncateMain, FillMain, TruncateCustom, FillCustom
  <2> QED BY <2>2, WhoRuns DEF FileTypes
<1>5. CASE \E c \in ShieldedCoins : WorkerThrows(c)
  BY <1>5 DEF WorkerThrows, Ends
<1>6. CASE UNCHANGED vars
  BY <1>6 DEF vars
<1> QED BY <1>1, <1>2, <1>3, <1>4, <1>5, <1>6 DEF Next

\* Once the old file is gone no step brings it back, and it does not go while
\* the application is up.
LEMMA OldSteps == ASSUME FileTypes, ThreadsFit, [Next]_vars, old' PROVE old
<1>1. UNCHANGED old \/ old' = FALSE
  BY DEF Next, Stop, GuiThrows, Ends, Login, RemoveOld, Load, Command, MarkActive, DisableCoins,
         WorkerUpdates, AddCoin, RemoveCoin, ResetCoins, Begins, ReadForReset, Works, ReadMain, ReadCustom,
         Apply, TruncateMain, FillMain, TruncateCustom, FillCustom, WorkerThrows, vars
<1> QED BY <1>1

LEMMA OldComesAlongStep ==
    FileTypes /\ ThreadsFit /\ LoginIsWhole /\ OldComesAlong /\ [Next]_vars => OldComesAlong'
<1> SUFFICES ASSUME FileTypes, ThreadsFit, LoginIsWhole, OldComesAlong, [Next]_vars, old'
             PROVE  OldComesAlong'
  BY DEF OldComesAlong
<1>1. old /\ phase # "up" /\ (Whole(files.main) => files.main.doc.known = MainCoins)
  BY OldSteps DEF OldComesAlong
<1>2. phase' # "up"
  <2>1. CASE Load
    <3>1. phase = "login"
      BY <2>1, LoadEffects, WhoRuns, GuiIsThread, <1>1 DEF Busy, FileTypes
    <3> QED BY <1>1, <2>1, <3>1, LoadEffects DEF OldComesAlong
  <2>2. CASE ~Load
    BY <1>1, <2>2 DEF Next, Stop, GuiThrows, Ends, Login, RemoveOld, Command, MarkActive, DisableCoins,
         WorkerUpdates, AddCoin, RemoveCoin, ResetCoins, Begins, ReadForReset, Works, ReadMain, ReadCustom,
         Apply, TruncateMain, FillMain, TruncateCustom, FillCustom, WorkerThrows, vars
  <2> QED BY <2>1, <2>2
<1>3. CASE phase' # "login"
  BY <1>1, <1>2, <1>3, DownSteps DEF OldComesAlong
<1>4. CASE phase' = "login" /\ Login
  <2>1. /\ Whole(files'.main) /\ files'.main = Repaired(files.main) /\ files'.main.doc.known = MainCoins
        /\ Contents(Repaired(files.main)) = files'.main.doc
    BY <1>1, <1>4, LoginEffects, ContentsType DEF DefaultDoc
  <2>2. /\ writer'[Gui].pc = "truncMain" /\ writer'[Gui].op = "upgrade"
        /\ writer'[Gui].main = Upgraded(files'.main.doc)
    BY <1>1, <1>4, <2>1, LoginEffects
  <2>3. files'.main.doc \in DocsOf(MainCoins)
    BY <2>1, ContentsType
  <2>4. writer'[Gui].main.known = MainCoins /\ writer'[Gui].main.active = OldActive
    BY <2>1, <2>2, <2>3, StatusFileAssumption DEF Upgraded, DocsOf
  <2> QED BY <1>2, <2>1, <2>2, <2>4 DEF OldComesAlong
<1>5. CASE phase = "login" /\ RemoveOld
  BY <1>5, RemoveOldEffects
<1>6. CASE phase = "login" /\ TruncateMain(Gui)
  BY <1>2, <1>6, TruncateMainEffects, FileFacts DEF OldComesAlong, SameTask, SameDocs
<1>7. CASE phase = "login" /\ FillMain(Gui)
  BY <1>1, <1>2, <1>7, UpgradeFills DEF OldComesAlong, SameTask, SameDocs
<1>8. CASE phase = "login" /\ UNCHANGED vars
  BY <1>8 DEF vars, OldComesAlong
<1> QED BY <1>3, <1>4, <1>5, <1>6, <1>7, <1>8, LoginSteps

-----------------------------------------------------------------------------
(* The theorems about the coin files.                                      *)

LEMMA FileInit == Init => FileInv
<1> SUFFICES ASSUME Init PROVE FileInv
  OBVIOUS
<1>1. phase = "down" /\ files.main = Truncated
  BY DEF Init
<1>2. FileTypes /\ ThreadsFit
  BY FileTypesInit, ThreadsInit
<1>3. OldComesAlong
  BY <1>1, FileFacts DEF OldComesAlong
<1> QED BY <1>1, <1>2, <1>3 DEF FileInv, OneWriter, LoginIsWhole, MainIsWhole, SavedOrHeld, Serial

LEMMA FileStep == FileInv /\ [Next]_vars => FileInv'
<1> SUFFICES ASSUME FileInv, [Next]_vars PROVE FileInv'
  OBVIOUS
<1>1. FileTypes' /\ ThreadsFit'
  BY FileTypesStep, ThreadsStep DEF FileInv
<1>2. LoginIsWhole' /\ OldComesAlong'
  BY LoginIsWholeStep, OldComesAlongStep DEF FileInv
<1>3. SerialInv'
  BY <1>1, SerialStep DEF FileInv, SerialInv
<1> QED BY <1>1, <1>2, <1>3 DEF FileInv, SerialInv

LEMMA FileInvHolds == FileInv => SerialChangesHold
<1> SUFFICES ASSUME FileInv PROVE SerialChangesHold
  OBVIOUS
<1>1. TypeOK
  <2>1. \A w \in Threads : writer[w] \in [pc : Pcs, op : Ops, todo : SUBSET Coins, status : BOOLEAN,
                                          main : Docs, custom : Docs]
    BY DocTypes DEF FileInv, FileTypes, Writers
  <2>2. writer \in [Threads -> [pc : Pcs, op : Ops, todo : SUBSET Coins, status : BOOLEAN,
                                main : Docs, custom : Docs]]
    BY <2>1 DEF FileInv, FileTypes
  <2>3. files \in [main : [doc : Docs, size : Nat], custom : [doc : Docs, size : Nat]]
    BY DocTypes DEF FileInv, FileTypes
  <2> QED BY <2>2, <2>3 DEF TypeOK, FileInv, FileTypes, Ops
<1>2. ASSUME ~overlapped, phase = "up", AllIdle PROVE SavedNow
  BY <1>2 DEF FileInv, SavedOrHeld, Serial
<1>3. SerialChangesAgree
  BY <1>2 DEF SerialChangesAgree, SavedIsRegistry, Agree, SavedNow, MainSaved, CustomSaved
<1>4. SerialAddsAreKept
  BY <1>2 DEF SerialAddsAreKept, AddedCoinIsKept, SavedNow
<1>5. SerialChangesKeepWhole
  BY DEF FileInv, MainIsWhole, Serial, SerialChangesKeepWhole, FileStaysWhole
<1> QED BY <1>1, <1>3, <1>4, <1>5 DEF SerialChangesHold

\* Whatever the coins and however often the process ends, changes of the files
\* that do not overlap keep them whole, in agreement with the registry, and with
\* the tokens added.
THEOREM SerialChangesAlwaysHold == Spec => []SerialChangesHold
<1>1. Spec => []FileInv
  BY FileInit, FileStep, PTL DEF Spec
<1> QED BY <1>1, FileInvHolds, PTL

\* The file of the version before goes only when its active coins are in the new
\* one, at whatever steps the upgrade was interrupted before.
THEOREM UpgradesKeepSettings == Spec => UpgradeKeepsSettings
<1> DEFINE Kept == old /\ ~old' => Contents(files.main).active = OldActive
<1>1. Spec => []FileInv
  BY FileInit, FileStep, PTL DEF Spec
<1>2. FileInv /\ [Next]_vars => [Kept]_vars
  <2> SUFFICES ASSUME FileInv, [Next]_vars, old, ~old' PROVE Contents(files.main).active = OldActive
    OBVIOUS
  <2>1. RemoveOld
    BY DEF Next, Stop, GuiThrows, Ends, Login, Load, Command, MarkActive, DisableCoins,
         WorkerUpdates, AddCoin, RemoveCoin, ResetCoins, Begins, ReadForReset, Works, ReadMain, ReadCustom,
         Apply, TruncateMain, FillMain, TruncateCustom, FillCustom, WorkerThrows, vars
  <2>2. writer[Gui].pc = "removeOld" /\ phase = "login"
    BY <2>1, RemoveOldEffects, GuiIsThread DEF FileInv, ThreadsFit, TaskFits
  <2>3. Whole(files.main) /\ files.main.doc.active = OldActive
    BY <2>2 DEF FileInv, LoginIsWhole, OldComesAlong
  <2> QED BY <2>3 DEF Contents
<1> HIDE DEF Kept
<1>3. Spec => [][Kept]_vars
  BY <1>1, <1>2, PTL DEF Spec
<1> QED BY <1>3 DEF UpgradeKeepsSettings, Kept

-----------------------------------------------------------------------------
(* The address book: the inductive invariant.                              *)

StoredContacts == [name : ContactNames, entries : SUBSET Entries, tags : SUBSET Tags]
ShownContacts == [id : 1..MaxEdits, name : ContactNames, entries : SUBSET Entries, tags : SUBSET Tags]
AddressForms == [open : BOOLEAN, edited : Entries \cup {NoEntry}, type : AddressTypes,
                 key : AddressKeys \cup {""}, value : AddressValues \cup {""}]

BookTypes ==
  /\ data \in Seq(StoredContacts) /\ bookFile = data
  /\ contacts \in Seq(ShownContacts) /\ editing \in 0..Len(contacts)
  /\ form \in AddressForms /\ (form.open => editing # 0)
  /\ sent \in (AddressTypes \X (AddressValues \cup {""})) \cup {NoRequest}
  /\ validating \in BOOLEAN /\ validating = (sent # NoRequest)
  /\ touched \in BOOLEAN /\ collided \in BOOLEAN /\ edits \in 0..MaxEdits

\* Validated, and told apart by type and key.
SoundEntries(entries) ==
  /\ \A e \in entries : IF e.checked THEN <<e.type, e.value>> \in ValidAddresses ELSE e.late
  /\ \A e, f \in entries : EntryId(e.type, e.key) = EntryId(f.type, f.key) => e = f

AllSound ==
  /\ \A i \in 1..Len(data) : SoundEntries(data[i].entries)
  /\ \A i \in 1..Len(contacts) : SoundEntries(contacts[i].entries)

\* The daemon is asked about what the form holds until the form is touched.
RequestStands == validating /\ ~touched => sent = <<form.type, form.value>>

\* Contact models are the contacts of the manager, one by one.
RowsMatch ==
  /\ Len(contacts) = Len(data)
  /\ \A i \in 1..Len(data) : data[i].name = contacts[i].name
NamesDiffer == \A i, j \in 1..Len(data) : data[i].name = data[j].name => i = j
IdsDiffer ==
  /\ \A i \in 1..Len(contacts) : contacts[i].id <= edits
  /\ \A i, j \in 1..Len(contacts) : contacts[i].id = contacts[j].id => i = j
EnteredForIt ==
  \A i \in 1..Len(data) :
    /\ \A e \in data[i].entries : e.by = contacts[i].id
    /\ \A e \in contacts[i].entries : e.by = contacts[i].id
ShownIsStored ==
  \A i \in 1..Len(data) : editing # i /\ contacts[i].id \notin unsaved =>
    data[i].entries = contacts[i].entries /\ data[i].tags = contacts[i].tags

RowsAreOwn == RowsMatch /\ NamesDiffer /\ IdsDiffer /\ EnteredForIt /\ ShownIsStored
BookInv == BookTypes /\ AllSound /\ RequestStands /\ (~collided => RowsAreOwn)

-----------------------------------------------------------------------------
LEMMA LeastNumber ==
    ASSUME NEW T \in SUBSET Nat, T # {}
    PROVE  \E m \in T : \A n \in T : m <= n
<1>1. \E m \in T : \A n \in T : <<n, m>> \notin OpToRel(<, Nat)
  BY NatLessThanWellFounded, WFMin
<1>2. PICK m \in T : \A n \in T : <<n, m>> \notin OpToRel(<, Nat)
  BY <1>1
<1>3. \A n \in T : ~(n < m)
  BY <1>2 DEF OpToRel
<1> QED BY <1>3

\* The first contact of a name is one that has it, if there is one.
LEMMA FirstFound ==
  ASSUME NEW list, Len(list) \in Nat, NEW name
  PROVE  /\ (\E i \in 1..Len(list) : list[i].name = name) =>
              FirstIn(list, name) \in 1..Len(list) /\ list[FirstIn(list, name)].name = name
         /\ ~(\E i \in 1..Len(list) : list[i].name = name) => FirstIn(list, name) = 0
<1> DEFINE having == {i \in 1..Len(list) : list[i].name = name}
<1>1. FirstIn(list, name) = IF having # {} THEN CHOOSE x \in having : \A y \in having : x =< y ELSE 0
  BY Zenon DEF FirstIn, SelectInSeq, Min
<1>2. having # {} => \E x \in having : \A y \in having : x =< y
  <2>1. having \subseteq Nat
    OBVIOUS
  <2> HIDE DEF having
  <2> QED BY <2>1, LeastNumber
<1>3. having # {} => FirstIn(list, name) \in having
  <2> HIDE DEF having
  <2> QED BY <1>1, <1>2
<1> QED BY <1>1, <1>3

LEMMA SeqOfFunction ==
  ASSUME NEW S, NEW n \in Nat, NEW f \in [1..n -> S]
  PROVE  f \in Seq(S) /\ Len(f) = n
<1>1. f \in Seq(S)
  BY SeqDef
<1> QED BY <1>1, LenProperties

LEMMA RemoveAtIs ==
  ASSUME NEW S, NEW s \in Seq(S), NEW k \in 1..Len(s)
  PROVE  /\ RemoveAt(s, k) \in Seq(S)
         /\ Len(RemoveAt(s, k)) = Len(s) - 1
         /\ \A i \in 1..(Len(s) - 1) : RemoveAt(s, k)[i] = s[IF i < k THEN i ELSE i + 1]
<1> DEFINE a == SubSeq(s, 1, k - 1)
           b == SubSeq(s, k + 1, Len(s))
<1>1. Len(s) \in Nat /\ k \in Nat /\ 1 <= k /\ k <= Len(s) /\ \A i \in 1..Len(s) : s[i] \in S
  BY LenProperties, ElementOfSeq
<1>2. /\ a \in Seq(S) /\ Len(a) = k - 1 /\ \A i \in 1..(k - 1) : a[i] = s[i]
  <2>1. \A i \in 1..(k - 1) : s[i] \in S
    BY <1>1
  <2>2. /\ a \in Seq(S) /\ Len(a) = IF 1 <= k - 1 THEN k - 1 - 1 + 1 ELSE 0
        /\ \A i \in 1..(k - 1 - 1 + 1) : a[i] = s[1 + i - 1]
    BY <1>1, <2>1, SubSeqProperties
  <2> QED BY <1>1, <2>2
<1>3. /\ b \in Seq(S) /\ Len(b) = Len(s) - k /\ \A i \in 1..(Len(s) - k) : b[i] = s[k + i]
  <2>1. \A i \in (k + 1)..Len(s) : s[i] \in S
    BY <1>1
  <2>2. /\ b \in Seq(S) /\ Len(b) = IF k + 1 <= Len(s) THEN Len(s) - (k + 1) + 1 ELSE 0
        /\ \A i \in 1..(Len(s) - (k + 1) + 1) : b[i] = s[k + 1 + i - 1]
    BY <1>1, <2>1, SubSeqProperties
  <2> QED BY <1>1, <2>2
<1> HIDE DEF a, b
<1>4. /\ a \o b \in Seq(S) /\ Len(a \o b) = Len(a) + Len(b)
      /\ \A i \in 1..(Len(a) + Len(b)) : (a \o b)[i] = IF i <= Len(a) THEN a[i] ELSE b[i - Len(a)]
  BY <1>2, <1>3, ConcatProperties
<1>5. ASSUME NEW i \in 1..(Len(s) - 1)
      PROVE  (a \o b)[i] = s[IF i < k THEN i ELSE i + 1]
  <2>1. (a \o b)[i] = IF i <= k - 1 THEN a[i] ELSE b[i - (k - 1)]
    BY <1>1, <1>2, <1>3, <1>4
  <2>2. CASE i < k
    BY <1>1, <1>2, <2>1, <2>2
  <2>3. CASE ~(i < k)
    <3>1. i - (k - 1) \in 1..(Len(s) - k) /\ k + (i - (k - 1)) = i + 1
      BY <1>1, <2>3
    <3> QED BY <1>1, <1>3, <2>1, <2>3, <3>1
  <2> QED BY <2>2, <2>3
<1>6. RemoveAt(s, k) = a \o b
  BY DEF RemoveAt, a, b
<1>7. Len(a) + Len(b) = Len(s) - 1
  BY <1>1, <1>2, <1>3
<1> QED BY <1>4, <1>5, <1>6, <1>7

\* Kept rows keep their place apart from the one that goes.
LEMMA PlaceAfter ==
  ASSUME NEW n \in Nat, NEW k \in 1..n, NEW i \in 1..(n - 1)
  PROVE  /\ (IF i < k THEN i ELSE i + 1) \in 1..n
         /\ (IF i < k THEN i ELSE i + 1) # k
         /\ \A j \in 1..(n - 1) :
              (IF i < k THEN i ELSE i + 1) = (IF j < k THEN j ELSE j + 1) => i = j
  OBVIOUS

LEMMA BookLengths ==
  ASSUME BookTypes
  PROVE  /\ Len(data) \in Nat /\ Len(contacts) \in Nat
         /\ DOMAIN data = 1..Len(data) /\ DOMAIN contacts = 1..Len(contacts)
         /\ \A i \in 1..Len(data) : data[i] \in StoredContacts
         /\ \A i \in 1..Len(contacts) : contacts[i] \in ShownContacts
         /\ edits \in Nat /\ MaxEdits \in Nat
<1>1. data \in Seq(StoredContacts) /\ contacts \in Seq(ShownContacts) /\ edits \in 0..MaxEdits
  BY DEF BookTypes
<1>2. MaxEdits \in Nat
  BY AddressbookAssumption DEF AddressbookAssumption
<1>3. /\ Len(data) \in Nat /\ DOMAIN data = 1..Len(data)
      /\ \A i \in 1..Len(data) : data[i] \in StoredContacts
  BY <1>1, LenProperties, ElementOfSeq
<1>4. /\ Len(contacts) \in Nat /\ DOMAIN contacts = 1..Len(contacts)
      /\ \A i \in 1..Len(contacts) : contacts[i] \in ShownContacts
  BY <1>1, LenProperties, ElementOfSeq
<1> QED BY <1>1, <1>2, <1>3, <1>4

LEMMA UpTo ==
  ASSUME NEW m \in Nat, NEW n \in 0..m
  PROVE  n \in Nat /\ n \in Int /\ n <= n /\ 0 \in 0..m
  OBVIOUS

LEMMA PlacesUpTo ==
  ASSUME NEW m \in Nat
  PROVE  0 \in 0..m /\ \A n \in 1..m : n \in 0..m /\ n # 0
  OBVIOUS

LEMMA BookNumbers ==
  ASSUME BookTypes
  PROVE  /\ Len(contacts) \in Nat /\ MaxEdits \in Nat /\ edits \in Nat /\ edits <= MaxEdits
         /\ edits \in 0..MaxEdits /\ (editing # 0 => editing \in 1..Len(contacts))
         /\ \A i \in 1..Len(contacts) : contacts[i].id \in Nat
<1>1. editing \in 0..Len(contacts) /\ edits \in 0..MaxEdits
  BY DEF BookTypes
<1>2. Len(contacts) \in Nat /\ MaxEdits \in Nat /\ \A i \in 1..Len(contacts) : contacts[i] \in ShownContacts
  BY BookLengths
<1>3. \A i \in 1..Len(contacts) : contacts[i].id \in 1..MaxEdits
  BY <1>2 DEF ShownContacts
<1> QED BY <1>1, <1>2, <1>3

LEMMA Identifiers ==
  ASSUME BookTypes, IdsDiffer, edits' \in Int, edits <= edits'
  PROVE  \A i \in 1..Len(contacts) : contacts[i].id <= edits'
<1>1. /\ edits \in Nat /\ \A i \in 1..Len(contacts) : contacts[i].id \in Nat
      /\ \A i \in 1..Len(contacts) : contacts[i].id <= edits
  BY BookNumbers DEF IdsDiffer
<1> QED BY <1>1

\* has_contact tells whether a contact has the name.
LEMMA HasContact ==
  ASSUME BookTypes, NEW name
  PROVE  /\ has_contact(name) <=> \E i \in 1..Len(data) : data[i].name = name
         /\ has_contact(name) => First(name) \in 1..Len(data) /\ data[First(name)].name = name
         /\ ~has_contact(name) => First(name) = 0
<1>1. Len(data) \in Nat
  BY BookLengths
<1> QED BY <1>1, FirstFound DEF has_contact, First

LEMMA NoEntrySound == SoundEntries({})
  BY DEF SoundEntries

LEMMA BookInvKept ==
  ASSUME BookInv, UNCHANGED <<contacts, data, unsaved, collided>>, BookTypes', RequestStands',
         edits' \in Nat, edits <= edits', ~collided => (editing' = editing \/ editing = 0)
  PROVE  BookInv'
<1>1. AllSound'
  BY DEF BookInv, AllSound, SoundEntries
<1>2. ASSUME ~collided PROVE RowsAreOwn'
  <2>1. RowsMatch' /\ NamesDiffer' /\ EnteredForIt'
    BY <1>2 DEF BookInv, RowsAreOwn, RowsMatch, NamesDiffer, EnteredForIt
  <2>2. ShownIsStored'
    BY <1>2, BookLengths DEF BookInv, RowsAreOwn, ShownIsStored
  <2>3. IdsDiffer'
    <3>2. \A i \in 1..Len(contacts) : contacts[i].id <= edits'
      BY <1>2, Identifiers DEF BookInv, RowsAreOwn
    <3> QED BY <1>2, <3>2 DEF BookInv, RowsAreOwn, IdsDiffer
  <2> QED BY <2>1, <2>2, <2>3 DEF RowsAreOwn
<1> QED BY <1>1, <1>2 DEF BookInv

LEMMA BookStart == BookInit => BookInv
<1> SUFFICES ASSUME BookInit PROVE BookInv
  OBVIOUS
<1>1. (CHOOSE t \in AddressTypes : TRUE) \in AddressTypes
  BY AddressbookAssumption DEF AddressbookAssumption
<1>2. form \in AddressForms /\ ~form.open
  BY <1>1 DEF BookInit, Blank, AddressForms
<1>3. /\ data = << >> /\ contacts = << >> /\ Len(data) = 0 /\ Len(contacts) = 0
      /\ data \in Seq(StoredContacts) /\ contacts \in Seq(ShownContacts)
  BY EmptySeq DEF BookInit
<1>4. MaxEdits \in Nat
  BY AddressbookAssumption DEF AddressbookAssumption
<1>5. BookTypes
  <2>1. /\ bookFile = data /\ editing = 0 /\ sent = NoRequest /\ validating = FALSE /\ touched = FALSE
        /\ collided = FALSE /\ edits = 0
    BY <1>3 DEF BookInit
  <2>2. editing \in 0..Len(contacts) /\ edits \in 0..MaxEdits
    BY <2>1, <1>3, <1>4
  <2> QED BY <1>2, <1>3, <2>1, <2>2 DEF BookTypes
<1>6. AllSound /\ RequestStands
  BY <1>3 DEF BookInit, AllSound, RequestStands
<1>7. RowsAreOwn
  BY <1>3 DEF RowsAreOwn, RowsMatch, NamesDiffer, IdsDiffer, EnteredForIt, ShownIsStored
<1> QED BY <1>5, <1>6, <1>7 DEF BookInv

LEMMA FormTypes ==
  ASSUME BookTypes
  PROVE  /\ form.type \in AddressTypes /\ form.key \in AddressKeys \cup {""}
         /\ form.value \in AddressValues \cup {""} /\ form.open \in BOOLEAN
         /\ \A t \in AddressTypes : Blank(t) \in AddressForms /\ ~Blank(t).open
  BY DEF BookTypes, AddressForms, Blank

\* An edition of the contact in the dialog leaves the others alone.
LEMMA ContactEdited ==
  ASSUME BookInv, editing # 0, NEW c \in ShownContacts,
         contacts' = [contacts EXCEPT ![editing] = c],
         c.id = contacts[editing].id, c.name = contacts[editing].name, SoundEntries(c.entries),
         ~collided => \A e \in c.entries : e.by = c.id,
         UNCHANGED <<data, bookFile, editing, unsaved, collided>>,
         form' \in AddressForms,
         sent' \in (AddressTypes \X (AddressValues \cup {""})) \cup {NoRequest},
         validating' \in BOOLEAN, validating' = (sent' # NoRequest), touched' \in BOOLEAN,
         RequestStands', edits' \in 0..MaxEdits, edits <= edits'
  PROVE  BookInv'
<1>1. BookTypes /\ editing \in 1..Len(contacts) /\ contacts \in Seq(ShownContacts)
      /\ AllSound /\ edits' \in Int
  <2>1. BookTypes /\ AllSound
    BY DEF BookInv
  <2>2. editing \in 1..Len(contacts) /\ MaxEdits \in Nat
    BY <2>1, BookNumbers
  <2>3. edits' \in Int
    BY <2>2, UpTo
  <2> QED BY <2>1, <2>2, <2>3 DEF BookTypes
<1>2. /\ contacts' \in Seq(ShownContacts) /\ Len(contacts') = Len(contacts)
      /\ \A i \in 1..Len(contacts) : contacts'[i] = IF i = editing THEN c ELSE contacts[i]
  <2> DEFINE new == [contacts EXCEPT ![editing] = c]
  <2>1. /\ new \in Seq(ShownContacts) /\ Len(new) = Len(contacts)
        /\ \A i \in 1..Len(contacts) : new[i] = IF i = editing THEN c ELSE contacts[i]
    <3>1. Len(contacts) \in Nat /\ contacts \in [1..Len(contacts) -> ShownContacts]
      BY <1>1, LenProperties
    <3>2. new \in [1..Len(contacts) -> ShownContacts]
          /\ \A i \in 1..Len(contacts) : new[i] = IF i = editing THEN c ELSE contacts[i]
      BY <1>1, <3>1
    <3> HIDE DEF new
    <3> QED BY <3>1, <3>2, SeqOfFunction
  <2> HIDE DEF new
  <2>2. contacts' = new
    BY DEF new
  <2> QED BY <2>1, <2>2
<1>3. BookTypes'
  BY <1>1, <1>2 DEF BookTypes
<1>4. AllSound'
  <2>1. \A i \in 1..Len(contacts) : SoundEntries(contacts'[i].entries)
    BY <1>1, <1>2 DEF AllSound
  <2>2. \A i \in 1..Len(data) : SoundEntries(data[i].entries)
    BY <1>1 DEF AllSound
  <2> QED BY <1>2, <2>1, <2>2 DEF AllSound, SoundEntries
<1>5. ASSUME ~collided PROVE RowsAreOwn'
  <2>1. /\ Len(contacts) = Len(data) /\ Len(contacts') = Len(contacts)
        /\ RowsMatch /\ NamesDiffer /\ IdsDiffer /\ EnteredForIt /\ ShownIsStored
    BY <1>2, <1>5 DEF BookInv, RowsAreOwn, RowsMatch
  <2>2. \A i \in 1..Len(contacts) : contacts'[i].id = contacts[i].id /\ contacts'[i].name = contacts[i].name
    BY <1>2
  <2>3. RowsMatch' /\ NamesDiffer'
    BY <2>1, <2>2 DEF RowsMatch, NamesDiffer
  <2>4. IdsDiffer'
    <3>2. \A i \in 1..Len(contacts) : contacts[i].id <= edits'
      BY <1>1, <2>1, Identifiers
    <3> QED BY <2>1, <2>2, <3>2 DEF IdsDiffer
  <2>5. EnteredForIt'
    <3>1. ASSUME NEW i \in 1..Len(data) PROVE \A e \in contacts'[i].entries : e.by = contacts[i].id
      <4>1. contacts'[i] = IF i = editing THEN c ELSE contacts[i]
        BY <1>2, <2>1
      <4>2. CASE i = editing
        BY <1>5, <4>1, <4>2
      <4>3. CASE i # editing
        BY <2>1, <4>1, <4>3 DEF EnteredForIt
      <4> QED BY <4>2, <4>3
    <3>2. \A i \in 1..Len(data) : contacts'[i].id = contacts[i].id
      BY <2>1, <2>2
    <3> QED BY <2>1, <3>1, <3>2 DEF EnteredForIt
  <2>6. ShownIsStored'
    <3>1. \A i \in 1..Len(data) : editing # i => contacts'[i] = contacts[i]
      BY <1>2, <2>1
    <3>2. ASSUME NEW i \in 1..Len(data), editing # i, contacts'[i].id \notin unsaved
          PROVE  data[i].entries = contacts'[i].entries /\ data[i].tags = contacts'[i].tags
      <4>1. contacts'[i] = contacts[i]
        BY <3>1, <3>2
      <4> QED BY <2>1, <3>2, <4>1 DEF ShownIsStored
    <3> QED BY <3>2 DEF ShownIsStored
  <2> QED BY <2>3, <2>4, <2>5, <2>6 DEF RowsAreOwn
<1> QED BY <1>3, <1>4, <1>5 DEF BookInv

LEMMA EditingContact ==
  ASSUME BookInv, editing # 0
  PROVE  /\ BookTypes /\ editing \in 1..Len(contacts) /\ editing \in DOMAIN contacts
         /\ contacts[editing] \in ShownContacts
         /\ SoundEntries(contacts[editing].entries)
         /\ ~collided => \A e \in contacts[editing].entries : e.by = contacts[editing].id
<1>1. BookTypes /\ editing \in 1..Len(contacts) /\ DOMAIN contacts = 1..Len(contacts)
  BY BookLengths, BookNumbers DEF BookInv
<1>2. contacts[editing] \in ShownContacts
  BY <1>1, BookLengths
<1>3. SoundEntries(contacts[editing].entries)
  BY <1>1 DEF BookInv, AllSound
<1>4. ~collided => \A e \in contacts[editing].entries : e.by = contacts[editing].id
  BY <1>1 DEF BookInv, RowsAreOwn, RowsMatch, EnteredForIt
<1> QED BY <1>1, <1>2, <1>3, <1>4

LEMMA EditStep ==
  ASSUME BookTypes, Edit
  PROVE  edits' \in 0..MaxEdits /\ edits' \in 1..MaxEdits /\ edits <= edits' /\ edits' = edits + 1
<1>1. edits \in Nat /\ MaxEdits \in Nat /\ edits < MaxEdits /\ edits' = edits + 1
  BY BookNumbers DEF Edit
<1> QED BY <1>1

LEMMA ToggleTagKeeps ==
  ASSUME BookInv, NEW tag \in Tags, ToggleTag(tag)
  PROVE  BookInv'
<1> DEFINE row == contacts[editing]
           tags == IF tag \in row.tags THEN row.tags \ {tag} ELSE row.tags \cup {tag}
           c == [id |-> row.id, name |-> row.name, entries |-> row.entries, tags |-> tags]
<1>1. editing # 0 /\ Edit /\ UNCHANGED <<data, bookFile, editing, form, sent, validating, touched, unsaved, collided>>
  BY DEF ToggleTag
<1>2. row \in ShownContacts /\ BookTypes /\ editing \in DOMAIN contacts /\ SoundEntries(row.entries)
      /\ (~collided => \A e \in row.entries : e.by = row.id)
  BY <1>1, EditingContact
<1>3. c \in ShownContacts
  BY <1>2 DEF ShownContacts
<1>4. contacts' = [contacts EXCEPT ![editing] = c]
  <2>1. contacts' = [contacts EXCEPT ![editing] = [row EXCEPT !.tags = tags]]
    BY <1>1 DEF ToggleTag
  <2>2. [row EXCEPT !.tags = tags] = c
    BY <1>2 DEF ShownContacts
  <2> QED BY <2>1, <2>2
<1>5. edits' \in 0..MaxEdits /\ edits <= edits'
  BY <1>1, <1>2, EditStep
<1>6. RequestStands'
  BY <1>1 DEF BookInv, RequestStands
<1>7. c.id = row.id /\ c.name = row.name /\ c.entries = row.entries
  OBVIOUS
<1> HIDE DEF c
<1> QED BY <1>1, <1>2, <1>3, <1>4, <1>5, <1>6, <1>7, ContactEdited DEF BookTypes

LEMMA EntriesWritten ==
  ASSUME NEW r \in ShownContacts, NEW E
  PROVE  [r EXCEPT !.entries = E] = [id |-> r.id, name |-> r.name, entries |-> E, tags |-> r.tags]
  BY DEF ShownContacts

LEMMA ContactSaved ==
  ASSUME NEW r \in StoredContacts, NEW E, NEW T
  PROVE  WithEntries(WithTags(r, T), E) = [name |-> r.name, entries |-> E, tags |-> T]
<1> DEFINE mid == [name |-> r.name, entries |-> r.entries, tags |-> T]
<1>1. WithTags(r, T) = mid
  BY DEF StoredContacts, WithTags
<1>2. [mid EXCEPT !.entries = E] = [name |-> r.name, entries |-> E, tags |-> T]
  OBVIOUS
<1> QED BY <1>1, <1>2 DEF WithEntries

LEMMA SoundSubset ==
  ASSUME NEW E, NEW F \in SUBSET E, SoundEntries(E)
  PROVE  SoundEntries(F)
  BY DEF SoundEntries

\* The entries of the contact in the dialog become others.
LEMMA EntriesEdited ==
  ASSUME BookInv, editing # 0, NEW entries \in SUBSET Entries,
         contacts' = [contacts EXCEPT ![editing].entries = entries],
         SoundEntries(entries), ~collided => \A e \in entries : e.by = contacts[editing].id,
         UNCHANGED <<data, bookFile, editing, unsaved, collided>>,
         form' \in AddressForms,
         sent' \in (AddressTypes \X (AddressValues \cup {""})) \cup {NoRequest},
         validating' \in BOOLEAN, validating' = (sent' # NoRequest), touched' \in BOOLEAN,
         RequestStands', edits' \in 0..MaxEdits, edits <= edits'
  PROVE  BookInv'
<1> DEFINE row == contacts[editing]
           c == [id |-> row.id, name |-> row.name, entries |-> entries, tags |-> row.tags]
<1>1. row \in ShownContacts /\ editing \in DOMAIN contacts
  BY EditingContact
<1>2. c \in ShownContacts
  BY <1>1 DEF ShownContacts
<1>3. contacts' = [contacts EXCEPT ![editing] = c]
  <2>1. contacts' = [contacts EXCEPT ![editing] = [row EXCEPT !.entries = entries]]
    OBVIOUS
  <2>2. [row EXCEPT !.entries = entries] = c
    BY <1>1, EntriesWritten
  <2> QED BY <2>1, <2>2
<1>4. c.id = row.id /\ c.name = row.name /\ c.entries = entries
  OBVIOUS
<1> HIDE DEF c
<1> QED BY <1>2, <1>3, <1>4, ContactEdited

LEMMA removeAddressEntryKeeps ==
  ASSUME BookInv, editing # 0, NEW e \in contacts[editing].entries, removeAddressEntry(e)
  PROVE  BookInv'
<1> DEFINE had == contacts[editing].entries
           entries == had \ Matching(had, e.type, e.key)
<1>1. /\ Edit /\ contacts' = [contacts EXCEPT ![editing].entries = entries]
      /\ UNCHANGED <<data, bookFile, editing, form, sent, validating, touched, unsaved, collided>>
  BY DEF removeAddressEntry
<1>2. /\ BookTypes /\ had \subseteq Entries /\ SoundEntries(had)
      /\ (~collided => \A f \in had : f.by = contacts[editing].id)
  BY EditingContact DEF ShownContacts
<1>3. entries \subseteq had
  OBVIOUS
<1>4. edits' \in 0..MaxEdits /\ edits <= edits'
  BY <1>1, <1>2, EditStep
<1>5. RequestStands'
  BY <1>1 DEF BookInv, RequestStands
<1> HIDE DEF entries
<1>6. SoundEntries(entries) /\ entries \in SUBSET Entries
      /\ (~collided => \A f \in entries : f.by = contacts[editing].id)
  BY <1>2, <1>3, SoundSubset
<1> QED BY <1>1, <1>2, <1>4, <1>5, <1>6, EntriesEdited DEF BookTypes

\* What the verdict adds was validated or comes of a form that was touched, and no
\* entry of the contact has its type and key.
LEMMA VerdictKeeps == BookInv /\ Verdict => BookInv'
<1> SUFFICES ASSUME BookInv, Verdict PROVE BookInv'
  OBVIOUS
<1> DEFINE had == contacts[editing].entries
           left(entries) == entries \ (IF form.edited = NoEntry THEN {}
                                  ELSE Matching(entries, form.edited.type, form.edited.key))
           free == Matching(left(had), form.type, form.key) = {}
           new  == [type |-> form.type, key |-> form.key, value |-> form.value,
                    by |-> contacts[editing].id, checked |-> sent = <<form.type, form.value>>,
                    late |-> touched]
           entries == left(had) \cup (IF free THEN {new} ELSE {})
<1>1. BookTypes
  BY DEF BookInv
<1>2. validating /\ validating' = FALSE /\ sent' = NoRequest
      /\ UNCHANGED <<data, bookFile, editing, touched, unsaved, collided, edits>>
  BY DEF Verdict
<1>3. RequestStands'
  BY <1>2 DEF RequestStands
<1>4. edits' \in 0..MaxEdits /\ edits <= edits' /\ edits' \in Nat
  BY <1>1, <1>2, BookNumbers
<1>5. CASE sent \in ValidAddresses /\ editing # 0
  <2>1. /\ contacts' = [contacts EXCEPT ![editing].entries = entries]
        /\ form' = IF free THEN Blank(form.type) ELSE form
    BY <1>5 DEF Verdict
  <2>2. /\ contacts[editing] \in ShownContacts /\ SoundEntries(had) /\ had \subseteq Entries
        /\ contacts[editing].id \in 1..MaxEdits
        /\ (~collided => \A f \in had : f.by = contacts[editing].id)
    BY <1>5, EditingContact DEF ShownContacts
  <2>3. form' \in AddressForms
    <3>1. form \in AddressForms /\ Blank(form.type) \in AddressForms
      BY <1>1, FormTypes DEF BookTypes
    <3> HIDE DEF free
    <3> QED BY <2>1, <3>1
  <2>4. new \in Entries
    BY <1>1, <2>2, FormTypes DEF Entries, BookTypes
  <2>5. left(had) \subseteq had
    OBVIOUS
  <2>6. SoundEntries(left(had))
    <3> HIDE DEF left
    <3> QED BY <2>2, <2>5, SoundSubset
  <2>7. IF new.checked THEN <<new.type, new.value>> \in ValidAddresses ELSE new.late
    <3>1. CASE sent = <<form.type, form.value>>
      BY <1>5, <3>1
    <3>2. CASE sent # <<form.type, form.value>>
      BY <1>2, <3>2 DEF BookInv, RequestStands, BookTypes
    <3> QED BY <3>1, <3>2
  <2>8. new.type = form.type /\ new.key = form.key /\ new.by = contacts[editing].id
    OBVIOUS
  <2>9. free => \A e \in left(had) : EntryId(e.type, e.key) # EntryId(new.type, new.key)
    BY <2>8 DEF Matching
  <2> HIDE DEF left, free, new
  <2>10. SoundEntries(entries)
    <3>1. CASE free
      <4>1. entries = left(had) \cup {new}
        BY <3>1
      <4> QED BY <4>1, <3>1, <2>6, <2>7, <2>9 DEF SoundEntries
    <3>2. CASE ~free
      BY <3>2, <2>6
    <3> QED BY <3>1, <3>2
  <2>11. entries \in SUBSET Entries /\ (~collided => \A e \in entries : e.by = contacts[editing].id)
    BY <2>2, <2>4, <2>5, <2>8
  <2> HIDE DEF entries
  <2> QED BY <1>1, <1>2, <1>3, <1>4, <1>5, <2>1, <2>3, <2>10, <2>11, EntriesEdited DEF BookTypes
<1>6. CASE ~(sent \in ValidAddresses /\ editing # 0)
  <2>1. UNCHANGED <<contacts, form>>
    BY <1>6 DEF Verdict
  <2>2. BookTypes'
    BY <1>1, <1>2, <2>1 DEF BookTypes
  <2> QED BY <1>2, <1>3, <1>4, <2>1, <2>2, BookInvKept
<1> QED BY <1>5, <1>6

\* A step of the form alone, or of what the daemon is asked.
LEMMA FormSteps ==
  ASSUME BookInv, UNCHANGED <<contacts, data, bookFile, unsaved, collided>>,
         editing' = editing \/ (editing = 0 /\ editing' \in 1..Len(contacts)),
         form' \in AddressForms, form'.open => editing # 0,
         sent' \in (AddressTypes \X (AddressValues \cup {""})) \cup {NoRequest},
         validating' \in BOOLEAN, validating' = (sent' # NoRequest), touched' \in BOOLEAN,
         RequestStands', edits' \in 0..MaxEdits, edits <= edits'
  PROVE  BookInv'
<1>1. BookTypes /\ editing \in 0..Len(contacts)
  <2>1. BookTypes
    BY DEF BookInv
  <2> QED BY <2>1, Zenon DEF BookTypes
<1>2. MaxEdits \in Nat /\ Len(contacts) \in Nat
  BY <1>1, BookNumbers
<1>3. edits' \in Nat
  BY <1>2, UpTo
<1>4. editing' \in 0..Len(contacts) /\ (editing # 0 => editing' # 0)
  <2>1. CASE editing' = editing
    BY <1>1, <2>1
  <2>2. CASE editing = 0 /\ editing' \in 1..Len(contacts)
    <3>1. \A i \in 1..Len(contacts) : i \in 0..Len(contacts)
      BY <1>2, PlacesUpTo
    <3> QED BY <2>2, <3>1
  <2> QED BY <2>1, <2>2
<1>5. BookTypes'
  BY <1>1, <1>4 DEF BookTypes
<1> QED BY <1>3, <1>5, BookInvKept

LEMMA TypesNow ==
  ASSUME BookInv
  PROVE  /\ BookTypes /\ form \in AddressForms /\ (form.open => editing # 0)
         /\ sent \in (AddressTypes \X (AddressValues \cup {""})) \cup {NoRequest}
         /\ validating \in BOOLEAN /\ validating = (sent # NoRequest) /\ touched \in BOOLEAN
         /\ edits \in 0..MaxEdits /\ edits <= edits
         /\ (validating /\ ~touched => sent = <<form.type, form.value>>)
<1>1. BookTypes /\ (validating /\ ~touched => sent = <<form.type, form.value>>)
  BY DEF BookInv, RequestStands
<1>2. edits \in 0..MaxEdits /\ edits <= edits
  BY <1>1, BookNumbers
<1> QED BY <1>1, <1>2 DEF BookTypes

LEMMA OpenContactKeeps ==
  ASSUME BookInv, NEW i \in DOMAIN contacts, OpenContact(i)
  PROVE  BookInv'
<1>1. i \in 1..Len(contacts)
  BY BookLengths DEF BookInv
<1>2. RequestStands'
  BY DEF BookInv, RequestStands, OpenContact
<1> QED BY <1>1, <1>2, TypesNow, FormSteps DEF OpenContact

LEMMA OpenFormKeeps ==
  ASSUME BookInv, NEW e \in Entries \cup {NoEntry}, OpenForm(e)
  PROVE  BookInv'
<1>1. /\ form' = [form EXCEPT !.open = TRUE, !.edited = e, !.key = e.key, !.value = e.value,
                              !.type = IF e = NoEntry THEN form.type ELSE e.type]
      /\ touched' = (touched \/ validating) /\ editing # 0
      /\ UNCHANGED <<contacts, data, bookFile, editing, sent, validating, unsaved, collided, edits>>
  BY DEF OpenForm
<1>2. e.key \in AddressKeys \cup {""} /\ e.value \in AddressValues \cup {""}
      /\ (e # NoEntry => e.type \in AddressTypes)
  <2>1. CASE e = NoEntry
    BY <2>1 DEF NoEntry
  <2>2. CASE e \in Entries
    BY <2>2 DEF Entries
  <2> QED BY <2>1, <2>2
<1>3. form \in AddressForms /\ form.type \in AddressTypes
  BY TypesNow DEF AddressForms
<1>4. form' \in AddressForms
  <2>1. CASE e = NoEntry
    BY <1>1, <1>2, <1>3, <2>1 DEF AddressForms
  <2>2. CASE e # NoEntry
    BY <1>1, <1>2, <1>3, <2>2 DEF AddressForms
  <2> QED BY <2>1, <2>2
<1>5. RequestStands'
  BY <1>1, TypesNow DEF RequestStands
<1> QED BY <1>1, <1>4, <1>5, TypesNow, FormSteps

LEMMA FillKeeps ==
  ASSUME BookInv, NEW t \in AddressTypes, NEW k \in AddressKeys, NEW v \in AddressValues, Fill(t, k, v)
  PROVE  BookInv'
<1>1. /\ Edit /\ form.open /\ form' = [form EXCEPT !.type = t, !.key = k, !.value = v]
      /\ touched' = (touched \/ validating)
      /\ UNCHANGED <<contacts, data, bookFile, editing, sent, validating, unsaved, collided>>
  BY DEF Fill
<1>2. form' \in AddressForms
  BY <1>1, TypesNow DEF AddressForms
<1>3. RequestStands'
  BY <1>1, TypesNow DEF RequestStands
<1>4. edits' \in 0..MaxEdits /\ edits <= edits'
  BY <1>1, TypesNow, EditStep
<1> QED BY <1>1, <1>2, <1>3, <1>4, TypesNow, FormSteps

LEMMA CancelFormKeeps == BookInv /\ CancelForm => BookInv'
<1> SUFFICES ASSUME BookInv, CancelForm PROVE BookInv'
  OBVIOUS
<1>1. /\ form' = Blank(form.type) /\ touched' = (touched \/ validating)
      /\ UNCHANGED <<contacts, data, bookFile, editing, sent, validating, unsaved, collided, edits>>
  BY DEF CancelForm
<1>2. form' \in AddressForms /\ ~form'.open
  BY <1>1, TypesNow, FormTypes
<1>3. RequestStands'
  BY <1>1, TypesNow DEF RequestStands
<1> QED BY <1>1, <1>2, <1>3, TypesNow, FormSteps

LEMMA validate_addressKeeps == BookInv /\ validate_address => BookInv'
<1> SUFFICES ASSUME BookInv, validate_address PROVE BookInv'
  OBVIOUS
<1>1. /\ form.value # "" /\ validating' = TRUE /\ sent' = <<form.type, form.value>> /\ touched' = FALSE
      /\ UNCHANGED <<contacts, data, bookFile, editing, form, unsaved, collided, edits>>
  BY DEF validate_address
<1>2. sent' \in AddressTypes \X (AddressValues \cup {""}) /\ sent' # NoRequest
  BY <1>1, TypesNow, FormTypes DEF NoRequest
<1>3. RequestStands'
  BY <1>1 DEF RequestStands
<1> QED BY <1>1, <1>2, <1>3, TypesNow, FormSteps

LEMMA SendDialogKeeps ==
  ASSUME BookInv, NEW t \in AddressTypes, NEW v \in AddressValues, SendDialogValidates(t, v)
  PROVE  BookInv'
<1>1. /\ Edit /\ validating' = TRUE /\ sent' = <<t, v>> /\ touched' = TRUE
      /\ UNCHANGED <<contacts, data, bookFile, editing, form, unsaved, collided>>
  BY DEF SendDialogValidates
<1>2. sent' \in AddressTypes \X (AddressValues \cup {""}) /\ sent' # NoRequest
  BY <1>1, AddressbookAssumption DEF NoRequest, AddressbookAssumption
<1>3. RequestStands'
  BY <1>1 DEF RequestStands
<1>4. edits' \in 0..MaxEdits /\ edits <= edits'
  BY <1>1, TypesNow, EditStep
<1> QED BY <1>1, <1>2, <1>3, <1>4, TypesNow, FormSteps

\* An edition that is cancelled leaves its contact among those that differ.
LEMMA CancelUpdatesKeeps == BookInv /\ CancelUpdates => BookInv'
<1> SUFFICES ASSUME BookInv, CancelUpdates PROVE BookInv'
  OBVIOUS
<1>1. /\ editing # 0 /\ editing' = 0 /\ form' = Blank(form.type)
      /\ unsaved' = unsaved \cup {contacts[editing].id} /\ touched' = (touched \/ validating)
      /\ UNCHANGED <<contacts, data, bookFile, sent, validating, collided, edits>>
  BY DEF CancelUpdates
<1>2. form' \in AddressForms /\ ~form'.open
  BY <1>1, TypesNow, FormTypes
<1>3. editing' \in 0..Len(contacts')
  <2>1. Len(contacts) \in Nat
    BY TypesNow, BookNumbers
  <2> QED BY <1>1, <2>1
<1>4. BookTypes'
  BY <1>1, <1>2, <1>3, TypesNow DEF BookTypes
<1>5. RequestStands'
  BY <1>1, TypesNow DEF RequestStands
<1>6. AllSound'
  BY <1>1 DEF BookInv, AllSound, SoundEntries
<1>7. ASSUME ~collided PROVE RowsAreOwn'
  <2>1. RowsMatch /\ NamesDiffer /\ IdsDiffer /\ EnteredForIt /\ ShownIsStored
    BY <1>7 DEF BookInv, RowsAreOwn
  <2>2. RowsMatch' /\ NamesDiffer' /\ IdsDiffer' /\ EnteredForIt'
    BY <1>1, <2>1 DEF RowsMatch, NamesDiffer, IdsDiffer, EnteredForIt
  <2>3. ShownIsStored'
    <3>1. ASSUME NEW i \in 1..Len(data), contacts[i].id \notin unsaved'
          PROVE  data[i].entries = contacts[i].entries /\ data[i].tags = contacts[i].tags
      <4>1. contacts[i].id \notin unsaved /\ editing # i
        BY <1>1, <3>1
      <4> QED BY <2>1, <4>1 DEF ShownIsStored
    <3> QED BY <1>1, <3>1 DEF ShownIsStored
  <2> QED BY <2>2, <2>3 DEF RowsAreOwn
<1> QED BY <1>1, <1>4, <1>5, <1>6, <1>7 DEF BookInv

-----------------------------------------------------------------------------
(* Contacts that come, go and are renamed.                                 *)

\* A new contact has a name of its own and an id none had.
LEMMA addContactKeeps ==
  ASSUME BookInv, NEW name \in ContactNames, addContact(name)
  PROVE  BookInv'
<1> DEFINE stored == [name |-> name, entries |-> {}, tags |-> {}]
           shown == [id |-> edits', name |-> name, entries |-> {}, tags |-> {}]
<1>1. BookTypes /\ AllSound /\ data \in Seq(StoredContacts) /\ contacts \in Seq(ShownContacts)
  BY DEF BookInv, BookTypes
<1>2. /\ Edit /\ editing = 0 /\ ~has_contact(name)
      /\ data' = Append(data, stored) /\ bookFile' = data'
      /\ contacts' = Append(contacts, shown) /\ editing' = Len(contacts')
      /\ UNCHANGED <<form, sent, validating, touched, unsaved, collided>>
  BY DEF addContact, add_contact, save_configuration
<1>3. edits \in Nat /\ edits' \in 1..MaxEdits /\ edits' \in 0..MaxEdits /\ edits' = edits + 1
  BY <1>1, <1>2, EditStep, BookNumbers
<1>4. stored \in StoredContacts /\ shown \in ShownContacts
  BY <1>3 DEF StoredContacts, ShownContacts
<1>5. stored.name = name /\ stored.entries = {} /\ stored.tags = {}
      /\ shown.id = edits' /\ shown.name = name /\ shown.entries = {} /\ shown.tags = {}
  OBVIOUS
<1> HIDE DEF stored, shown
<1>6. /\ data' \in Seq(StoredContacts) /\ Len(data') = Len(data) + 1
      /\ \A i \in 1..Len(data) : data'[i] = data[i]
      /\ data'[Len(data) + 1] = stored
  BY <1>1, <1>2, <1>4, AppendProperties
<1>7. /\ contacts' \in Seq(ShownContacts) /\ Len(contacts') = Len(contacts) + 1
      /\ \A i \in 1..Len(contacts) : contacts'[i] = contacts[i]
      /\ contacts'[Len(contacts) + 1] = shown
  BY <1>1, <1>2, <1>4, AppendProperties
<1>8. Len(data) \in Nat /\ Len(contacts) \in Nat
  BY <1>1, BookLengths
<1>9. editing' \in 0..Len(contacts') /\ editing' # 0
  BY <1>2, <1>7, <1>8
<1>10. BookTypes'
  BY <1>1, <1>2, <1>3, <1>6, <1>7, <1>9 DEF BookTypes
<1>11. \A i \in 1..(Len(data) + 1) : i \in 1..Len(data) \/ i = Len(data) + 1
  BY <1>8
<1>12. \A i \in 1..(Len(contacts) + 1) : i \in 1..Len(contacts) \/ i = Len(contacts) + 1
  BY <1>8
<1>13. AllSound'
  <2>1. \A i \in 1..Len(data') : SoundEntries(data'[i].entries)
    BY <1>1, <1>5, <1>6, <1>11, NoEntrySound DEF AllSound
  <2>2. \A i \in 1..Len(contacts') : SoundEntries(contacts'[i].entries)
    BY <1>1, <1>5, <1>7, <1>12, NoEntrySound DEF AllSound
  <2> QED BY <2>1, <2>2 DEF AllSound, SoundEntries
<1>14. RequestStands'
  BY <1>2 DEF BookInv, RequestStands
<1>15. ASSUME ~collided PROVE RowsAreOwn'
  <2>1. /\ RowsMatch /\ NamesDiffer /\ IdsDiffer /\ EnteredForIt /\ ShownIsStored
        /\ Len(contacts) = Len(data)
    BY <1>15 DEF BookInv, RowsAreOwn, RowsMatch
  <2>2. Len(contacts') = Len(data) + 1 /\ Len(data') = Len(data) + 1
        /\ contacts'[Len(data) + 1] = shown
    BY <1>6, <1>7, <2>1
  <2>3. \A i \in 1..Len(data) : data[i].name # name
    BY <1>1, <1>2, HasContact
  <2>4. \A i \in 1..Len(data) : contacts[i].id <= edits /\ contacts[i].id \in Nat
    BY <1>1, <2>1, BookNumbers DEF IdsDiffer
  <2>5. RowsMatch'
    BY <1>5, <1>6, <1>7, <1>11, <2>1, <2>2 DEF RowsMatch
  <2>6. NamesDiffer'
    BY <1>5, <1>6, <1>11, <2>1, <2>2, <2>3 DEF NamesDiffer
  <2>7. IdsDiffer'
    <3>1. \A i \in 1..Len(data) : contacts'[i].id <= edits' /\ contacts'[i].id # edits'
      BY <1>3, <1>7, <2>1, <2>4
    <3>2. contacts'[Len(data) + 1].id = edits' /\ edits' <= edits'
      BY <1>3, <1>5, <2>2
    <3>3. \A i, j \in 1..Len(data) : contacts'[i].id = contacts'[j].id => i = j
      BY <1>7, <2>1 DEF IdsDiffer
    <3> QED BY <1>11, <2>2, <3>1, <3>2, <3>3 DEF IdsDiffer
  <2>8. EnteredForIt'
    BY <1>5, <1>6, <1>7, <1>11, <2>1, <2>2 DEF EnteredForIt
  <2>9. ShownIsStored'
    <3>1. \A i \in 1..Len(data) : editing # i
      BY <1>2
    <3> QED BY <1>2, <1>5, <1>6, <1>7, <1>11, <2>1, <2>2, <3>1 DEF ShownIsStored
  <2> QED BY <2>5, <2>6, <2>7, <2>8, <2>9 DEF RowsAreOwn
<1> QED BY <1>2, <1>10, <1>13, <1>14, <1>15 DEF BookInv

\* The first of the name goes; where names differ it is the same row in both.
LEMMA removeContactKeeps ==
  ASSUME BookInv, NEW k \in DOMAIN contacts, removeContact(k)
  PROVE  BookInv'
<1> DEFINE name == contacts[k].name
           row == FirstIn(contacts, name)
<1>1. BookTypes /\ AllSound
  BY DEF BookInv
<1>2. /\ Edit /\ editing = 0
      /\ data' = IF has_contact(name) THEN RemoveAt(data, First(name)) ELSE data
      /\ bookFile' = data' /\ contacts' = RemoveAt(contacts, row)
      /\ unsaved' = unsaved \ {contacts[row].id}
      /\ UNCHANGED <<editing, form, sent, validating, touched, collided>>
  BY DEF removeContact, remove_contact, save_configuration
<1>3. /\ Len(data) \in Nat /\ Len(contacts) \in Nat /\ k \in 1..Len(contacts)
      /\ edits' \in 0..MaxEdits /\ edits <= edits' /\ edits' \in Int
  BY <1>1, <1>2, BookLengths, EditStep
<1>4. row \in 1..Len(contacts) /\ contacts[row].name = name
  BY <1>3, FirstFound
<1>5. has_contact(name) => First(name) \in 1..Len(data) /\ data[First(name)].name = name
  BY <1>1, HasContact
<1>6. ~has_contact(name) => \A i \in 1..Len(data) : data[i].name # name
  BY <1>1, HasContact
<1> HIDE DEF name, row
<1>7. /\ contacts' \in Seq(ShownContacts) /\ Len(contacts') = Len(contacts) - 1
      /\ \A i \in 1..(Len(contacts) - 1) : contacts'[i] = contacts[IF i < row THEN i ELSE i + 1]
  BY <1>1, <1>2, <1>4, RemoveAtIs DEF BookTypes
<1>8. /\ data' \in Seq(StoredContacts)
      /\ \A i \in 1..Len(data') : \E j \in 1..Len(data) : data'[i] = data[j]
      /\ has_contact(name) =>
           /\ Len(data') = Len(data) - 1
           /\ \A i \in 1..(Len(data) - 1) : data'[i] = data[IF i < First(name) THEN i ELSE i + 1]
  <2>1. CASE has_contact(name)
    <3>1. /\ data' \in Seq(StoredContacts) /\ Len(data') = Len(data) - 1
          /\ \A i \in 1..(Len(data) - 1) : data'[i] = data[IF i < First(name) THEN i ELSE i + 1]
      BY <1>1, <1>2, <1>5, <2>1, RemoveAtIs DEF BookTypes
    <3>2. \A i \in 1..(Len(data) - 1) : (IF i < First(name) THEN i ELSE i + 1) \in 1..Len(data)
      BY <1>3, <1>5, <2>1, PlaceAfter
    <3> QED BY <3>1, <3>2
  <2>2. CASE ~has_contact(name)
    <3>1. data' = data
      BY <1>2, <2>2
    <3> QED BY <1>1, <2>2, <3>1 DEF BookTypes
  <2> QED BY <2>1, <2>2
<1>9. \A i \in 1..(Len(contacts) - 1) : (IF i < row THEN i ELSE i + 1) \in 1..Len(contacts)
  BY <1>3, <1>4, PlaceAfter
<1>10. editing' \in 0..Len(contacts') /\ ~form.open
  <2>1. Len(contacts') \in Nat
    BY <1>3, <1>4, <1>7
  <2>2. 0 \in 0..Len(contacts')
    BY <2>1
  <2> QED BY <1>1, <1>2, <2>2 DEF BookTypes
<1>11. BookTypes'
  BY <1>1, <1>2, <1>3, <1>7, <1>8, <1>10 DEF BookTypes
<1>12. AllSound'
  <2>1. \A i \in 1..Len(data') : SoundEntries(data'[i].entries)
    BY <1>1, <1>8 DEF AllSound
  <2>2. \A i \in 1..Len(contacts') : SoundEntries(contacts'[i].entries)
    BY <1>1, <1>7, <1>9 DEF AllSound
  <2> QED BY <2>1, <2>2 DEF AllSound, SoundEntries
<1>13. RequestStands'
  BY <1>2 DEF BookInv, RequestStands
<1>14. ASSUME ~collided PROVE RowsAreOwn'
  <2> DEFINE n == Len(data)
             From(i) == IF i < row THEN i ELSE i + 1
  <2>1. /\ RowsMatch /\ NamesDiffer /\ IdsDiffer /\ EnteredForIt /\ ShownIsStored
        /\ Len(contacts) = n /\ n \in Nat /\ row \in 1..n
    BY <1>3, <1>4, <1>14 DEF BookInv, RowsAreOwn, RowsMatch
  <2>2. data[row].name = name
    BY <1>4, <2>1 DEF RowsMatch
  <2>3. has_contact(name) /\ First(name) = row
    BY <1>5, <1>6, <2>1, <2>2 DEF NamesDiffer
  <2>4. /\ Len(data') = n - 1 /\ Len(contacts') = n - 1
        /\ \A i \in 1..(n - 1) : data'[i] = data[From(i)] /\ contacts'[i] = contacts[From(i)]
    BY <1>7, <1>8, <2>1, <2>3
  <2>5. \A i \in 1..(n - 1) : From(i) \in 1..n /\ From(i) # row
    BY <2>1, PlaceAfter
  <2>6. \A i, j \in 1..(n - 1) : From(i) = From(j) => i = j
    BY <2>1, PlaceAfter
  <2> HIDE DEF From, n
  <2>7. RowsMatch'
    <3>1. \A i \in 1..n : data[i].name = contacts[i].name
      BY <2>1 DEF RowsMatch, n
    <3>2. \A i \in 1..(n - 1) : data'[i].name = contacts'[i].name
      BY <2>4, <2>5, <3>1
    <3> QED BY <2>4, <3>2 DEF RowsMatch
  <2>8. NamesDiffer'
    <3>1. \A i, j \in 1..n : data[i].name = data[j].name => i = j
      BY <2>1 DEF NamesDiffer, n
    <3>2. \A i, j \in 1..(n - 1) : data'[i].name = data'[j].name => i = j
      BY <2>4, <2>5, <2>6, <3>1
    <3> QED BY <2>4, <3>2 DEF NamesDiffer
  <2>9. IdsDiffer'
    <3>1. \A i \in 1..n : contacts[i].id <= edits'
      <4>1. \A i \in 1..Len(contacts) : contacts[i].id <= edits'
        BY <1>1, <1>3, <2>1, Identifiers
      <4> QED BY <2>1, <4>1
    <3>2. \A i, j \in 1..n : contacts[i].id = contacts[j].id => i = j
      BY <2>1 DEF IdsDiffer
    <3>3. \A i, j \in 1..(n - 1) : contacts'[i].id = contacts'[j].id => i = j
      BY <2>4, <2>5, <2>6, <3>2
    <3>4. \A i \in 1..(n - 1) : contacts'[i].id <= edits'
      BY <2>4, <2>5, <3>1
    <3> QED BY <2>4, <3>3, <3>4 DEF IdsDiffer
  <2>10. EnteredForIt'
    <3>1. \A i \in 1..n : /\ \A e \in data[i].entries : e.by = contacts[i].id
                          /\ \A e \in contacts[i].entries : e.by = contacts[i].id
      BY <2>1 DEF EnteredForIt, n
    <3>2. \A i \in 1..(n - 1) : /\ \A e \in data'[i].entries : e.by = contacts'[i].id
                                /\ \A e \in contacts'[i].entries : e.by = contacts'[i].id
      BY <2>4, <2>5, <3>1
    <3> QED BY <2>4, <3>2 DEF EnteredForIt
  <2>11. ShownIsStored'
    <3>1. ASSUME NEW i \in 1..(n - 1), contacts'[i].id \notin unsaved'
          PROVE  data'[i].entries = contacts'[i].entries /\ data'[i].tags = contacts'[i].tags
      <4>1. From(i) \in 1..n /\ From(i) # row /\ contacts'[i] = contacts[From(i)] /\ data'[i] = data[From(i)]
        BY <2>4, <2>5
      <4>2. contacts[From(i)].id # contacts[row].id
        BY <2>1, <4>1 DEF IdsDiffer
      <4>3. contacts[From(i)].id \notin unsaved /\ editing # From(i)
        BY <1>2, <2>1, <3>1, <4>1, <4>2
      <4> QED BY <2>1, <4>1, <4>3 DEF ShownIsStored, n
    <3> QED BY <2>4, <3>1 DEF ShownIsStored
  <2> QED BY <2>7, <2>8, <2>9, <2>10, <2>11 DEF RowsAreOwn
<1> QED BY <1>2, <1>11, <1>12, <1>13, <1>14 DEF BookInv

\* Coming back: the models are built anew of what was written.
LEMMA ReloginKeeps == BookInv /\ Relogin => BookInv'
<1> SUFFICES ASSUME BookInv, Relogin PROVE BookInv'
  OBVIOUS
<1> DEFINE first(i) == data[FirstIn(data, data[i].name)]
           model(i) == [id |-> IF i \in DOMAIN contacts THEN contacts[i].id ELSE MaxEdits,
                        name |-> data[i].name, entries |-> first(i).entries, tags |-> first(i).tags]
<1>1. BookTypes /\ AllSound /\ data \in Seq(StoredContacts)
  BY DEF BookInv, BookTypes
<1>2. /\ Edit /\ editing = 0 /\ ~validating /\ bookFile' = data' /\ data' = data /\ unsaved' = {}
      /\ contacts' = Populated(data)
      /\ UNCHANGED <<editing, form, sent, validating, touched, collided>>
  BY DEF Relogin
<1>3. /\ Len(data) \in Nat /\ DOMAIN data = 1..Len(data) /\ DOMAIN contacts = 1..Len(contacts)
      /\ edits' \in 0..MaxEdits /\ edits' \in 1..MaxEdits /\ edits <= edits'
      /\ \A i \in 1..Len(data) : data[i] \in StoredContacts
      /\ \A i \in 1..Len(contacts) : contacts[i] \in ShownContacts
  BY <1>1, <1>2, BookLengths, EditStep
<1>4. contacts' = [i \in 1..Len(data) |-> model(i)]
  BY <1>2, <1>3 DEF Populated, Loaded
<1>5. \A i \in 1..Len(data) : FirstIn(data, data[i].name) \in 1..Len(data)
                            /\ data[FirstIn(data, data[i].name)].name = data[i].name
  BY <1>3, FirstFound
<1>6. MaxEdits \in 1..MaxEdits /\ edits' \in Int
  <2>1. MaxEdits \in Nat
    BY <1>1, BookNumbers
  <2> QED BY <1>3, <2>1
<1>7. ASSUME NEW i \in 1..Len(data)
      PROVE  /\ model(i) \in ShownContacts /\ contacts'[i] = model(i)
             /\ SoundEntries(model(i).entries)
  <2>1. first(i) \in StoredContacts /\ SoundEntries(first(i).entries) /\ data[i] \in StoredContacts
    BY <1>1, <1>3, <1>5 DEF AllSound
  <2>2. (IF i \in DOMAIN contacts THEN contacts[i].id ELSE MaxEdits) \in 1..MaxEdits
    BY <1>3, <1>6 DEF ShownContacts
  <2>3. contacts'[i] = model(i)
    BY <1>4
  <2>4. model(i).entries = first(i).entries
    OBVIOUS
  <2> HIDE DEF first
  <2>5. model(i) \in ShownContacts
    BY <2>1, <2>2 DEF StoredContacts, ShownContacts
  <2> QED BY <2>1, <2>3, <2>4, <2>5
<1>8. \A i \in 1..Len(data) : /\ model(i).name = data[i].name /\ model(i).entries = first(i).entries
                              /\ model(i).tags = first(i).tags
                              /\ (i \in 1..Len(contacts) => model(i).id = contacts[i].id)
  BY <1>3
<1> HIDE DEF model
<1>9. contacts' \in Seq(ShownContacts) /\ Len(contacts') = Len(data)
  <2>1. contacts' \in [1..Len(data) -> ShownContacts]
    BY <1>4, <1>7
  <2> QED BY <1>3, <2>1, SeqOfFunction
<1>10. editing' \in 0..Len(contacts') /\ ~form.open
  <2>1. 0 \in 0..Len(data)
    BY <1>3
  <2> QED BY <1>1, <1>2, <1>9, <2>1 DEF BookTypes
<1>11. BookTypes'
  BY <1>1, <1>2, <1>3, <1>9, <1>10 DEF BookTypes
<1>12. AllSound'
  <2>1. \A i \in 1..Len(data) : SoundEntries(contacts'[i].entries)
    BY <1>7
  <2>2. \A i \in 1..Len(data) : SoundEntries(data[i].entries)
    BY <1>1 DEF AllSound
  <2> QED BY <1>2, <1>9, <2>1, <2>2 DEF AllSound, SoundEntries
<1>13. RequestStands'
  BY <1>2 DEF RequestStands
<1>14. ASSUME ~collided PROVE RowsAreOwn'
  <2>1. /\ RowsMatch /\ NamesDiffer /\ IdsDiffer /\ EnteredForIt
        /\ Len(contacts) = Len(data)
    BY <1>14 DEF BookInv, RowsAreOwn, RowsMatch
  <2>2. \A i \in 1..Len(data) : first(i) = data[i]
    BY <1>5, <2>1 DEF NamesDiffer
  <2> HIDE DEF first
  <2>3. \A i \in 1..Len(data) : /\ contacts'[i].name = data[i].name /\ contacts'[i].id = contacts[i].id
                                /\ contacts'[i].entries = data[i].entries /\ contacts'[i].tags = data[i].tags
    BY <1>7, <1>8, <2>1, <2>2
  <2>4. RowsMatch' /\ NamesDiffer'
    BY <1>2, <1>9, <2>1, <2>3 DEF RowsMatch, NamesDiffer
  <2>5. IdsDiffer'
    <3>1. \A i \in 1..Len(contacts) : contacts[i].id <= edits'
      BY <1>1, <1>3, <1>6, <2>1, Identifiers
    <3> QED BY <1>9, <2>1, <2>3, <3>1 DEF IdsDiffer
  <2>6. EnteredForIt' /\ ShownIsStored'
    BY <1>2, <2>1, <2>3 DEF EnteredForIt, ShownIsStored
  <2> QED BY <2>4, <2>5, <2>6 DEF RowsAreOwn
<1> QED BY <1>2, <1>11, <1>12, <1>13, <1>14 DEF BookInv

\* Saving an edition: as long as the name is free or its own, the row that is
\* rewritten is the row that was edited.
LEMMA SaveUpdatesKeeps ==
  ASSUME BookInv, NEW name \in ContactNames \cup {""}, SaveUpdates(name)
  PROVE  BookInv'
<1> DEFINE row == contacts[editing]
           now == IF name = "" THEN row.name ELSE name
           named == Renamed(row.name, name)
           first == FirstIn(named, now)
<1>1. BookTypes /\ AllSound /\ data \in Seq(StoredContacts) /\ contacts \in Seq(ShownContacts)
  BY DEF BookInv, BookTypes
<1>2. /\ Edit /\ editing # 0
      /\ data' = [named EXCEPT ![first] = WithEntries(WithTags(named[first], row.tags), row.entries)]
      /\ bookFile' = data'
      /\ contacts' = [contacts EXCEPT ![editing].name = now]
      /\ collided' = (collided \/ (now # row.name /\ has_contact(now)))
      /\ unsaved' = unsaved \ {row.id} /\ editing' = 0 /\ form' = Blank(form.type)
      /\ touched' = (touched \/ validating) /\ UNCHANGED <<sent, validating>>
  BY DEF SaveUpdates, save_configuration
<1>3. /\ Len(data) \in Nat /\ DOMAIN data = 1..Len(data) /\ Len(contacts) \in Nat
      /\ edits' \in 0..MaxEdits /\ edits <= edits' /\ editing \in 1..Len(contacts)
      /\ row \in ShownContacts /\ SoundEntries(row.entries)
      /\ (~collided => \A e \in row.entries : e.by = row.id)
      /\ \A i \in 1..Len(data) : data[i] \in StoredContacts
  BY <1>1, <1>2, BookLengths, EditStep, EditingContact
<1>4. now \in ContactNames /\ row.entries \subseteq Entries /\ row.tags \subseteq Tags
      /\ (name # "" => name \in ContactNames) /\ now # ""
  BY <1>3, AddressbookAssumption DEF ShownContacts, AddressbookAssumption
<1>5. /\ named \in Seq(StoredContacts) /\ Len(named) = Len(data) /\ DOMAIN named = 1..Len(data)
      /\ \A i \in 1..Len(data) : /\ named[i].entries = data[i].entries /\ named[i].tags = data[i].tags
                                 /\ named[i] \in StoredContacts
                                 /\ (i # First(row.name) => named[i] = data[i])
      /\ (now = row.name => named = data)
      /\ now # row.name => \A i \in 1..Len(data) : i = First(row.name) => named[i].name = now
  <2>1. CASE name \in {"", row.name}
    <3>1. named = data /\ now = row.name
      BY <2>1 DEF Renamed
    <3> HIDE DEF named, now
    <3> QED BY <1>1, <1>3, <3>1
  <2>2. CASE name \notin {"", row.name}
    <3> DEFINE new == [data EXCEPT ![First(row.name)].name = name]
    <3>1. named = new /\ now = name /\ now # row.name
      BY <2>2 DEF Renamed
    <3>2. /\ new \in [1..Len(data) -> StoredContacts]
          /\ \A i \in 1..Len(data) : /\ new[i].entries = data[i].entries /\ new[i].tags = data[i].tags
                                     /\ (i # First(row.name) => new[i] = data[i])
                                     /\ (i = First(row.name) => new[i].name = name)
      <4> HIDE DEF row, now, named
      <4>1. data \in [1..Len(data) -> StoredContacts] /\ name \in ContactNames
        BY <1>1, <1>4, <2>2, LenProperties
      <4>2. \A i \in 1..Len(data) : [data[i] EXCEPT !.name = name] \in StoredContacts
                /\ [data[i] EXCEPT !.name = name].entries = data[i].entries
                /\ [data[i] EXCEPT !.name = name].tags = data[i].tags
                /\ [data[i] EXCEPT !.name = name].name = name
        BY <4>1 DEF StoredContacts
      <4>3. /\ DOMAIN new = 1..Len(data) /\ new = [i \in 1..Len(data) |-> new[i]]
            /\ \A i \in 1..Len(data) :
                new[i] = IF i = First(row.name) THEN [data[i] EXCEPT !.name = name] ELSE data[i]
        BY <4>1
      <4> HIDE DEF new
      <4> QED BY <4>1, <4>2, <4>3
    <3> HIDE DEF new, named, now
    <3>3. new \in Seq(StoredContacts) /\ Len(new) = Len(data) /\ DOMAIN new = 1..Len(data)
          /\ \A i \in 1..Len(data) : new[i] \in StoredContacts
      BY <1>3, <3>2, SeqOfFunction
    <3> QED BY <3>1, <3>2, <3>3
  <2> QED BY <2>1, <2>2
<1> HIDE DEF row, now, named, first
<1>6. /\ data' \in Seq(StoredContacts) /\ Len(data') = Len(data)
      /\ \A i \in 1..Len(data) :
           /\ data'[i].name = named[i].name
           /\ IF i = first THEN data'[i].entries = row.entries /\ data'[i].tags = row.tags
              ELSE data'[i].entries = data[i].entries /\ data'[i].tags = data[i].tags
  <2> DEFINE c(i) == [name |-> named[i].name, entries |-> row.entries, tags |-> row.tags]
             saved(i) == WithEntries(WithTags(named[i], row.tags), row.entries)
             new == [named EXCEPT ![first] = saved(first)]
  <2>1. \A i \in 1..Len(data) : c(i) \in StoredContacts
    BY <1>4, <1>5 DEF StoredContacts
  <2>2. ASSUME NEW i \in 1..Len(data) PROVE saved(i) = c(i)
    <3>1. named[i] \in StoredContacts
      BY <1>5
    <3> QED BY <3>1, ContactSaved
  <2>3. named \in [1..Len(data) -> StoredContacts]
    BY <1>5, LenProperties
  <2>4. /\ new = [i \in 1..Len(data) |-> new[i]]
        /\ \A i \in 1..Len(data) : new[i] = IF i = first THEN c(i) ELSE named[i]
    <3> HIDE DEF c, saved
    <3> QED BY <2>2, <2>3
  <2>5. \A i \in 1..Len(data) : /\ c(i).name = named[i].name
                                /\ c(i).entries = row.entries /\ c(i).tags = row.tags
    OBVIOUS
  <2>6. data' = new
    BY <1>2
  <2> HIDE DEF new, c
  <2>7. new \in [1..Len(data) -> StoredContacts]
    BY <1>5, <2>1, <2>4
  <2>8. new \in Seq(StoredContacts) /\ Len(new) = Len(data)
    BY <1>3, <2>7, SeqOfFunction
  <2>9. ASSUME NEW i \in 1..Len(data)
        PROVE  /\ new[i].name = named[i].name
               /\ IF i = first THEN new[i].entries = row.entries /\ new[i].tags = row.tags
                  ELSE new[i].entries = data[i].entries /\ new[i].tags = data[i].tags
    BY <1>5, <2>4, <2>5
  <2> QED BY <2>6, <2>8, <2>9
<1>7. /\ contacts' \in Seq(ShownContacts) /\ Len(contacts') = Len(contacts)
      /\ \A i \in 1..Len(contacts) :
           /\ contacts'[i].id = contacts[i].id /\ contacts'[i].entries = contacts[i].entries
           /\ contacts'[i].tags = contacts[i].tags
           /\ contacts'[i].name = IF i = editing THEN now ELSE contacts[i].name
  <2> DEFINE new == [contacts EXCEPT ![editing].name = now]
             c(i) == [contacts[i] EXCEPT !.name = now]
  <2>1. contacts \in [1..Len(contacts) -> ShownContacts]
    BY <1>1, LenProperties
  <2>2. \A i \in 1..Len(contacts) :
           /\ c(i) \in ShownContacts /\ c(i).id = contacts[i].id /\ c(i).entries = contacts[i].entries
           /\ c(i).tags = contacts[i].tags /\ c(i).name = now
    BY <1>4, <2>1 DEF ShownContacts
  <2>3. /\ new = [i \in 1..Len(contacts) |-> new[i]]
        /\ \A i \in 1..Len(contacts) : new[i] = IF i = editing THEN c(i) ELSE contacts[i]
    BY <2>1
  <2>4. contacts' = new
    BY <1>2
  <2> HIDE DEF new, c
  <2>5. new \in [1..Len(contacts) -> ShownContacts]
    BY <2>1, <2>2, <2>3
  <2> QED BY <1>3, <2>2, <2>3, <2>4, <2>5, SeqOfFunction
<1>8. form' \in AddressForms /\ ~form'.open
  BY <1>1, <1>2, FormTypes
<1>9. editing' \in 0..Len(contacts')
  <2>1. 0 \in 0..Len(contacts)
    BY <1>3, PlacesUpTo
  <2> QED BY <1>2, <1>7, <2>1
<1>10. collided' \in BOOLEAN /\ touched' \in BOOLEAN
  BY <1>1, <1>2, Zenon DEF BookTypes
<1>11. BookTypes'
  BY <1>1, <1>2, <1>3, <1>6, <1>7, <1>8, <1>9, <1>10 DEF BookTypes
<1>12. AllSound'
  <2>1. \A i \in 1..Len(data) : SoundEntries(data'[i].entries)
    BY <1>1, <1>3, <1>6 DEF AllSound
  <2>2. \A i \in 1..Len(contacts) : SoundEntries(contacts'[i].entries)
    BY <1>1, <1>7 DEF AllSound
  <2> QED BY <1>6, <1>7, <2>1, <2>2 DEF AllSound, SoundEntries
<1>13. RequestStands'
  BY <1>2, TypesNow DEF RequestStands
<1>14. ASSUME ~collided' PROVE RowsAreOwn'
  <2>1. ~collided /\ (now # row.name => ~has_contact(now))
    BY <1>1, <1>2, <1>14 DEF BookTypes
  <2>2. /\ RowsMatch /\ NamesDiffer /\ IdsDiffer /\ EnteredForIt /\ ShownIsStored
        /\ Len(contacts) = Len(data) /\ editing \in 1..Len(data)
    BY <1>3, <2>1 DEF BookInv, RowsAreOwn, RowsMatch
  <2>3. data[editing].name = row.name
    BY <2>2 DEF RowsMatch, row
  <2>4. First(row.name) = editing
    <3>1. First(row.name) \in 1..Len(data) /\ data[First(row.name)].name = row.name
      BY <1>1, <2>2, <2>3, HasContact
    <3> QED BY <2>2, <2>3, <3>1 DEF NamesDiffer
  <2>5. \A i \in 1..Len(data) : named[i].name = IF i = editing THEN now ELSE data[i].name
    BY <1>5, <2>3, <2>4
  <2>6. \A i \in 1..Len(data) : i # editing => data[i].name # now
    <3>1. CASE now = row.name
      BY <2>2, <2>3, <3>1 DEF NamesDiffer
    <3>2. CASE now # row.name
      BY <1>1, <2>1, <3>2, HasContact
    <3> QED BY <3>1, <3>2
  <2>7. first = editing
    <3>1. first \in 1..Len(data) /\ named[first].name = now
      <4>1. named[editing].name = now /\ editing \in 1..Len(named) /\ Len(named) \in Nat
        BY <1>3, <1>5, <2>2, <2>5
      <4>2. FirstIn(named, now) \in 1..Len(named) /\ named[FirstIn(named, now)].name = now
        BY <4>1, FirstFound
      <4> QED BY <1>5, <4>2 DEF first
    <3> QED BY <2>5, <2>6, <3>1
  <2>8. RowsMatch'
    BY <1>6, <1>7, <2>2, <2>5 DEF RowsMatch
  <2>9. NamesDiffer'
    <3>1. \A i, j \in 1..Len(data) : data'[i].name = data'[j].name => i = j
      <4>1. \A i \in 1..Len(data) : data'[i].name = IF i = editing THEN now ELSE data[i].name
        BY <1>6, <2>5
      <4>2. \A i, j \in 1..Len(data) : data[i].name = data[j].name => i = j
        BY <2>2 DEF NamesDiffer
      <4> QED BY <2>6, <4>1, <4>2
    <3> QED BY <1>6, <3>1 DEF NamesDiffer
  <2>10. IdsDiffer'
    <3>1. \A i \in 1..Len(contacts) : contacts[i].id <= edits'
      <4>1. MaxEdits \in Nat
        BY <1>1, BookNumbers
      <4>2. edits' \in Int
        BY <1>3, <4>1, UpTo
      <4> QED BY <1>1, <1>3, <2>2, <4>2, Identifiers
    <3> QED BY <1>7, <2>2, <3>1 DEF IdsDiffer
  <2>11. EnteredForIt'
    <3>1. ASSUME NEW i \in 1..Len(data)
          PROVE  /\ \A e \in data'[i].entries : e.by = contacts[i].id
                 /\ \A e \in contacts'[i].entries : e.by = contacts[i].id
      <4>1. data'[i].entries \in {data[i].entries, contacts[i].entries} /\ contacts'[i].entries = contacts[i].entries
        BY <1>6, <1>7, <2>2, <2>7 DEF row
      <4> QED BY <2>2, <4>1 DEF EnteredForIt
    <3> QED BY <1>6, <1>7, <2>2, <3>1 DEF EnteredForIt
  <2>12. ShownIsStored'
    <3>1. ASSUME NEW i \in 1..Len(data), contacts'[i].id \notin unsaved'
          PROVE  data'[i].entries = contacts'[i].entries /\ data'[i].tags = contacts'[i].tags
      <4>1. CASE i = editing
        BY <1>6, <1>7, <2>2, <2>7, <4>1 DEF row
      <4>2. CASE i # editing
        <5>1. contacts[i].id # row.id /\ contacts'[i].id = contacts[i].id
          <6>1. i \in 1..Len(contacts) /\ editing \in 1..Len(contacts)
            BY <2>2
          <6>2. contacts[i].id # contacts[editing].id
            BY <2>2, <4>2, <6>1 DEF IdsDiffer
          <6>3. row.id = contacts[editing].id
            BY DEF row
          <6>4. contacts'[i].id = contacts[i].id
            BY <1>7, <6>1
          <6> QED BY <6>2, <6>3, <6>4
        <5>2. contacts[i].id \notin unsaved
          <6>1. unsaved' = unsaved \ {row.id}
            BY <1>2, Zenon
          <6> QED BY <3>1, <5>1, <6>1
        <5>3. data[i].entries = contacts[i].entries /\ data[i].tags = contacts[i].tags
          BY <2>2, <4>2, <5>2 DEF ShownIsStored
        <5> QED BY <1>6, <1>7, <2>2, <2>7, <4>2, <5>3
      <4> QED BY <4>1, <4>2
    <3> QED BY <1>6, <3>1 DEF ShownIsStored
  <2> QED BY <2>8, <2>9, <2>10, <2>11, <2>12 DEF RowsAreOwn
<1> QED BY <1>11, <1>12, <1>13, <1>14 DEF BookInv

\* The invariant of the address book holds after every step.
LEMMA BookStep == BookInv /\ [BookNext]_bookVars => BookInv'
<1> SUFFICES ASSUME BookInv, [BookNext]_bookVars PROVE BookInv'
  OBVIOUS
<1>1. CASE UNCHANGED bookVars
  <2>1. RequestStands'
    BY <1>1 DEF BookInv, RequestStands, bookVars
  <2> QED BY <1>1, <2>1, TypesNow, FormSteps DEF bookVars
<1>2. ASSUME NEW n \in ContactNames, addContact(n) PROVE BookInv'
  BY <1>2, addContactKeeps
<1>3. ASSUME NEW i \in DOMAIN contacts, removeContact(i) \/ OpenContact(i) PROVE BookInv'
  BY <1>3, removeContactKeeps, OpenContactKeeps
<1>4. ASSUME NEW t \in Tags, ToggleTag(t) PROVE BookInv'
  BY <1>4, ToggleTagKeeps
<1>5. ASSUME editing # 0, NEW e \in contacts[editing].entries, removeAddressEntry(e) \/ OpenForm(e) PROVE BookInv'
  <2>1. e \in Entries
    BY <1>5, EditingContact DEF ShownContacts
  <2> QED BY <1>5, <2>1, removeAddressEntryKeeps, OpenFormKeeps
<1>6. ASSUME OpenForm(NoEntry) PROVE BookInv'
  BY <1>6, OpenFormKeeps
<1>7. ASSUME NEW t \in AddressTypes, NEW k \in AddressKeys, NEW v \in AddressValues, Fill(t, k, v) PROVE BookInv'
  BY <1>7, FillKeeps
<1>8. CancelForm \/ validate_address \/ Verdict \/ CancelUpdates \/ Relogin => BookInv'
  BY CancelFormKeeps, validate_addressKeeps, VerdictKeeps, CancelUpdatesKeeps, ReloginKeeps
<1>9. ASSUME NEW t \in AddressTypes, NEW v \in AddressValues, SendDialogValidates(t, v) PROVE BookInv'
  BY <1>9, SendDialogKeeps
<1>10. ASSUME NEW n \in ContactNames \cup {""}, SaveUpdates(n) PROVE BookInv'
  BY <1>10, SaveUpdatesKeeps
<1> QED BY <1>1, <1>2, <1>3, <1>4, <1>5, <1>6, <1>7, <1>8, <1>9, <1>10 DEF BookNext

LEMMA BookInvMeans == BookInv => ContactsAreKept
<1> SUFFICES ASSUME BookInv PROVE ContactsAreKept
  OBVIOUS
<1>1. BookTypes /\ AllSound
  BY DEF BookInv
<1>2. /\ DOMAIN data = 1..Len(data) /\ DOMAIN contacts = 1..Len(contacts)
      /\ \A i \in 1..Len(data) : data[i] \in StoredContacts
      /\ \A i \in 1..Len(contacts) : contacts[i] \in ShownContacts
  BY <1>1, BookLengths
<1>3. BookTypeOK
  <2>1. \A i \in DOMAIN data : IsStored(data[i])
    BY <1>2 DEF IsStored, StoredContacts
  <2>2. \A i \in DOMAIN contacts : IsStored(contacts[i])
    BY <1>2 DEF IsStored, ShownContacts
  <2>3. form.type \in AddressTypes
    BY <1>1, FormTypes
  <2> QED BY <1>1, <2>1, <2>2, <2>3 DEF BookTypes, BookTypeOK
<1>4. EachContactHasItsOwn
  <2>1. SUFFICES ASSUME ~collided PROVE RowsAreOwn => EachContactHasItsOwn
    BY DEF BookInv, EachContactHasItsOwn
  <2> QED BY <1>2
      DEF RowsAreOwn, RowsMatch, NamesDiffer, EnteredForIt, ShownIsStored, EachContactHasItsOwn
<1>5. EntriesWereValidated /\ EntriesAreDistinct
  BY <1>1, <1>2 DEF AllSound, SoundEntries, EntriesWereValidated, EntriesAreDistinct
<1> QED BY <1>3, <1>4, <1>5 DEF ContactsAreKept

\* For any names, types, keys and addresses: the contacts in memory, on the screen and
\* in the file are what was entered for them as long as none was renamed to the name of
\* another; their entries are told apart by their keys, and validated but for those
\* whose form was touched while the daemon was being asked.
THEOREM ContactsAreAlwaysKept == BookSpec => []ContactsAreKept
<1> QED BY BookStart, BookStep, BookInvMeans, PTL DEF BookSpec

-----------------------------------------------------------------------------
(* The rows of an orderbook: what a fold does.                             *)

Treated(st, answer) == FoldLeft(TreatOrder, st, answer)
Removed(st, gone) == FoldLeft(RemoveRow, st, gone)

\* What a fold over numbers does with the numbers up to n, by the set of them.
LEMMA TreatsInTurn ==
  ASSUME NEW st, NEW n \in Nat, NEW s, DOMAIN s = 1..n
  PROVE  \E at : /\ at[0] = st /\ \A k \in 1..n : at[k] = TreatOrder(at[k - 1], s[k])
                 /\ Treated(st, s) = at[n]
<1> DEFINE Body(f, x) == IF x = {} THEN st ELSE TreatOrder(f[x \ {Max(x)}], s[Max(x)])
           IsIter(f, k) == f = [x \in SUBSET (1..k) |-> Body(f, x)]
           Unreached == {k \in Nat : ~ \E f : IsIter(f, k)}
<1>1. Unreached = {}
  <2> SUFFICES ASSUME Unreached # {} PROVE FALSE
    OBVIOUS
  <2>1. PICK m \in Unreached : \A k \in Unreached : m <= k
    BY LeastNumber
  <2>2. CASE m = 0
    <3>1. 1..0 = {}
      OBVIOUS
    <3>2. IsIter([x \in SUBSET (1..0) |-> st], 0)
      BY <3>1
    <3> QED BY <3>2, <2>1, <2>2
  <2>3. CASE m # 0
    <3>1. m \in Nat /\ m - 1 \in Nat /\ m - 1 \notin Unreached
      <4>1. m \in Nat
        BY <2>1
      <4>2. m - 1 \in Nat /\ ~(m <= m - 1)
        BY <4>1, <2>3
      <4> HIDE DEF Unreached
      <4> QED BY <4>1, <4>2, <2>1
    <3>2. PICK f : IsIter(f, m - 1)
      BY <3>1
    <3> DEFINE g == [x \in SUBSET (1..m) |->
                       IF x \subseteq 1..(m - 1) THEN f[x] ELSE TreatOrder(f[x \ {m}], s[m])]
    <3>3. ASSUME NEW x \in SUBSET (1..m) PROVE g[x] = Body(g, x)
      <4>1. CASE x \subseteq 1..(m - 1)
        <5>1. x \ {Max(x)} \in SUBSET (1..m) /\ x \ {Max(x)} \subseteq 1..(m - 1)
          BY <4>1
        <5>2. g[x] = f[x] /\ g[x \ {Max(x)}] = f[x \ {Max(x)}]
          BY <4>1, <5>1
        <5>3. f[x] = Body(f, x)
          BY <4>1, <3>2
        <5> QED BY <5>2, <5>3
      <4>2. CASE ~(x \subseteq 1..(m - 1))
        <5>1. m \in x /\ \A y \in x : m >= y
          BY <4>2, <3>1
        <5>2. \A z \in x : (\A y \in x : z >= y) => z = m
          BY <5>1, <3>1
        <5>3. Max(x) = m
          BY <5>1, <5>2 DEF Max
        <5>4. x \ {m} \in SUBSET (1..m) /\ x \ {m} \subseteq 1..(m - 1)
          BY <3>1
        <5>5. g[x] = TreatOrder(f[x \ {m}], s[m]) /\ g[x \ {m}] = f[x \ {m}]
          BY <4>2, <5>4
        <5> QED BY <5>1, <5>3, <5>5
      <4> QED BY <4>1, <4>2
    <3>4. IsIter(g, m)
      BY <3>3, Zenon
    <3> QED BY <3>4, <2>1
  <2> QED BY <2>2, <2>3
<1> DEFINE iter == CHOOSE f : f = [x \in SUBSET (1..n) |-> Body(f, x)]
<1>2. iter = [x \in SUBSET (1..n) |-> Body(iter, x)]
  <2>1. \E f : IsIter(f, n)
    BY <1>1
  <2> QED BY <2>1
<1>3. Treated(st, s) = iter[1..n]
  BY Zenon DEF Treated, FoldLeft, MapThenFoldSet
<1> HIDE DEF iter
<1> DEFINE at == [k \in 0..n |-> iter[1..k]]
<1>4. at[0] = st /\ at[n] = iter[1..n]
  <2>1. 1..0 = {} /\ 0 \in 0..n /\ n \in 0..n /\ {} \in SUBSET (1..n)
    OBVIOUS
  <2> QED BY <2>1, <1>2
<1>5. ASSUME NEW k \in 1..n PROVE at[k] = TreatOrder(at[k - 1], s[k])
  <2>1. k \in 1..k /\ \A y \in 1..k : k >= y
    OBVIOUS
  <2>2. \A z \in 1..k : (\A y \in 1..k : z >= y) => z = k
    OBVIOUS
  <2>3. Max(1..k) = k
    BY <2>1, <2>2 DEF Max
  <2>4. (1..k) \ {k} = 1..(k - 1) /\ 1..k # {} /\ 1..k \in SUBSET (1..n) /\ k \in 0..n /\ k - 1 \in 0..n
    OBVIOUS
  <2>5. iter[1..k] = Body(iter, 1..k)
    BY <1>2, <2>4
  <2> QED BY <2>3, <2>4, <2>5
<1> QED BY <1>3, <1>4, <1>5

LEMMA RemovesInTurn ==
  ASSUME NEW st, NEW n \in Nat, NEW s, DOMAIN s = 1..n
  PROVE  \E at : /\ at[0] = st /\ \A k \in 1..n : at[k] = RemoveRow(at[k - 1], s[k])
                 /\ Removed(st, s) = at[n]
<1> DEFINE Body(f, x) == IF x = {} THEN st ELSE RemoveRow(f[x \ {Max(x)}], s[Max(x)])
           IsIter(f, k) == f = [x \in SUBSET (1..k) |-> Body(f, x)]
           Unreached == {k \in Nat : ~ \E f : IsIter(f, k)}
<1>1. Unreached = {}
  <2> SUFFICES ASSUME Unreached # {} PROVE FALSE
    OBVIOUS
  <2>1. PICK m \in Unreached : \A k \in Unreached : m <= k
    BY LeastNumber
  <2>2. CASE m = 0
    <3>1. 1..0 = {}
      OBVIOUS
    <3>2. IsIter([x \in SUBSET (1..0) |-> st], 0)
      BY <3>1
    <3> QED BY <3>2, <2>1, <2>2
  <2>3. CASE m # 0
    <3>1. m \in Nat /\ m - 1 \in Nat /\ m - 1 \notin Unreached
      <4>1. m \in Nat
        BY <2>1
      <4>2. m - 1 \in Nat /\ ~(m <= m - 1)
        BY <4>1, <2>3
      <4> HIDE DEF Unreached
      <4> QED BY <4>1, <4>2, <2>1
    <3>2. PICK f : IsIter(f, m - 1)
      BY <3>1
    <3> DEFINE g == [x \in SUBSET (1..m) |->
                       IF x \subseteq 1..(m - 1) THEN f[x] ELSE RemoveRow(f[x \ {m}], s[m])]
    <3>3. ASSUME NEW x \in SUBSET (1..m) PROVE g[x] = Body(g, x)
      <4>1. CASE x \subseteq 1..(m - 1)
        <5>1. x \ {Max(x)} \in SUBSET (1..m) /\ x \ {Max(x)} \subseteq 1..(m - 1)
          BY <4>1
        <5>2. g[x] = f[x] /\ g[x \ {Max(x)}] = f[x \ {Max(x)}]
          BY <4>1, <5>1
        <5>3. f[x] = Body(f, x)
          BY <4>1, <3>2
        <5> QED BY <5>2, <5>3
      <4>2. CASE ~(x \subseteq 1..(m - 1))
        <5>1. m \in x /\ \A y \in x : m >= y
          BY <4>2, <3>1
        <5>2. \A z \in x : (\A y \in x : z >= y) => z = m
          BY <5>1, <3>1
        <5>3. Max(x) = m
          BY <5>1, <5>2 DEF Max
        <5>4. x \ {m} \in SUBSET (1..m) /\ x \ {m} \subseteq 1..(m - 1)
          BY <3>1
        <5>5. g[x] = RemoveRow(f[x \ {m}], s[m]) /\ g[x \ {m}] = f[x \ {m}]
          BY <4>2, <5>4
        <5> QED BY <5>1, <5>3, <5>5
      <4> QED BY <4>1, <4>2
    <3>4. IsIter(g, m)
      BY <3>3, Zenon
    <3> QED BY <3>4, <2>1
  <2> QED BY <2>2, <2>3
<1> DEFINE iter == CHOOSE f : f = [x \in SUBSET (1..n) |-> Body(f, x)]
<1>2. iter = [x \in SUBSET (1..n) |-> Body(iter, x)]
  <2>1. \E f : IsIter(f, n)
    BY <1>1
  <2> QED BY <2>1
<1>3. Removed(st, s) = iter[1..n]
  BY Zenon DEF Removed, FoldLeft, MapThenFoldSet
<1> HIDE DEF iter
<1> DEFINE at == [k \in 0..n |-> iter[1..k]]
<1>4. at[0] = st /\ at[n] = iter[1..n]
  <2>1. 1..0 = {} /\ 0 \in 0..n /\ n \in 0..n /\ {} \in SUBSET (1..n)
    OBVIOUS
  <2> QED BY <2>1, <1>2
<1>5. ASSUME NEW k \in 1..n PROVE at[k] = RemoveRow(at[k - 1], s[k])
  <2>1. k \in 1..k /\ \A y \in 1..k : k >= y
    OBVIOUS
  <2>2. \A z \in 1..k : (\A y \in 1..k : z >= y) => z = k
    OBVIOUS
  <2>3. Max(1..k) = k
    BY <2>1, <2>2 DEF Max
  <2>4. (1..k) \ {k} = 1..(k - 1) /\ 1..k # {} /\ 1..k \in SUBSET (1..n) /\ k \in 0..n /\ k - 1 \in 0..n
    OBVIOUS
  <2>5. iter[1..k] = Body(iter, 1..k)
    BY <1>2, <2>4
  <2> QED BY <2>3, <2>4, <2>5
<1> QED BY <1>3, <1>4, <1>5

-----------------------------------------------------------------------------
(* The rows of an orderbook: the inductive invariant.                      *)

OrderStatuses == {"None", "BetterPriceAvailable", "OrderNotExistingAnymore"}
Keys == Uuids \X BOOLEAN
Offers == [price : OrderPrices, volume : Volumes]

\* Rows, when the shares of the depth are of D.
Orders(D) == [uuid : Keys, price : OrderPrices, numer : Nat, denom : Nat, volume : Volumes, depth : D]
Picks(D) == {DataOf(r) : r \in Orders(D)} \cup {NotPicked}
Models(D) == [rows : Seq(Orders(D)), orderIds : SUBSET Keys, picked : Picks(D),
              status : OrderStatuses, mistaken : SUBSET Uuids, takes : BOOLEAN]

\* Each row is of another order, if it was not mistaken.
Distinct(m) ==
  \A i, j \in 1..Len(m.rows) :
    m.rows[i].uuid = m.rows[j].uuid /\ m.rows[i].uuid[1] \notin m.mistaken => i = j

\* The rows and the registry have the same orders, of those not mistaken.
Agrees(m) ==
  \A k \in Keys : k[1] \notin m.mistaken => (k \in m.orderIds <=> k \in Registered(m.rows))

Better(m, r) == Lower(m.picked.price, r.price)

\* What the status says of the picked order is true of the rows.
Told(m) ==
  m.picked # NotPicked =>
    /\ ~worse /\ (\E r \in Range(m.rows) : Better(m, r)) => m.status = "BetterPriceAvailable"
    /\ m.status = "OrderNotExistingAnymore" =>
         \A r \in Range(m.rows) :
           ~Better(m, r) \/ (worse /\ (r.uuid # m.picked.uuid \/ r.uuid[1] \in m.mistaken))

InOrder(m) == Distinct(m) /\ Agrees(m) /\ Told(m)

LEMMA RowFacts ==
  ASSUME NEW D, NEW r \in Orders(D)
  PROVE  /\ r.uuid \in Keys /\ r.price \in OrderPrices /\ r.volume \in Volumes
         /\ DataOf(r) \in Picks(D) /\ DataOf(r) # NotPicked
         /\ DataOf(r).price = r.price /\ DataOf(r).uuid = r.uuid
<1>1. DOMAIN r = {"uuid", "price", "numer", "denom", "volume", "depth"}
  BY DEF Orders
<1>2. DOMAIN DataOf(r) = {"uuid", "price", "numer", "denom", "volume"}
  BY <1>1 DEF DataOf
<1>3. DataOf(r).price = r.price /\ DataOf(r).uuid = r.uuid
  BY <1>1 DEF DataOf
<1>4. DOMAIN NotPicked = {"uuid"}
  BY DEF NotPicked
<1>5. DataOf(r) # NotPicked
  BY <1>2, <1>4
<1> QED BY <1>3, <1>5 DEF Orders, Picks

LEMMA SeqFacts ==
  ASSUME NEW S, NEW s \in Seq(S)
  PROVE  /\ Len(s) \in Nat /\ DOMAIN s = 1..Len(s) /\ \A i \in 1..Len(s) : s[i] \in S
         /\ Range(s) = {s[i] : i \in 1..Len(s)} /\ Range(s) \subseteq S
<1>1. /\ Len(s) \in Nat /\ DOMAIN s = 1..Len(s) /\ \A i \in 1..Len(s) : s[i] \in S
  BY LenProperties, ElementOfSeq
<1> QED BY <1>1 DEF Range

\* A row a lookup by a uuid may find.
Fits(row, uuid) == row.uuid[1] = uuid[1] /\ (uuid[2] => row.uuid[2])

\* SelectInSeq finds the first row that passes, if there is one.
LEMMA RowAtIs ==
  ASSUME NEW rs, Len(rs) \in Nat, NEW uuid
  PROVE  /\ RowAt(rs, uuid) = 0 \/ (RowAt(rs, uuid) \in 1..Len(rs) /\ Fits(rs[RowAt(rs, uuid)], uuid))
         /\ RowAt(rs, uuid) = 0 => \A i \in 1..Len(rs) : ~Fits(rs[i], uuid)
<1> DEFINE having == {i \in 1..Len(rs) : Fits(rs[i], uuid)}
<1>1. RowAt(rs, uuid) = IF having # {} THEN CHOOSE x \in having : \A y \in having : x =< y ELSE 0
  BY Zenon DEF RowAt, SelectInSeq, Min, Fits
<1>2. having # {} => \E x \in having : \A y \in having : x =< y
  <2>1. having \subseteq Nat
    OBVIOUS
  <2> HIDE DEF having
  <2> QED BY <2>1, LeastNumber
<1>3. having # {} => RowAt(rs, uuid) \in having
  <2> HIDE DEF having
  <2> QED BY <1>1, <1>2
<1>4. having = {} => RowAt(rs, uuid) = 0
  BY <1>1
<1>5. \A i \in having : i \in 1..Len(rs) /\ i # 0 /\ Fits(rs[i], uuid)
  OBVIOUS
<1> QED BY <1>3, <1>4, <1>5

\* The row of a registered order is found, and it is its own, unless that is mistaken.
LEMMA FoundIs ==
  ASSUME NEW D, NEW m \in Models(D), InOrder(m), NEW uuid \in Keys
  PROVE  LET at == RowAt(m.rows, uuid)
         IN  /\ at = 0 => uuid \notin m.orderIds \/ uuid[1] \in m.mistaken
             /\ at # 0 => /\ at \in 1..Len(m.rows) /\ Fits(m.rows[at], uuid)
                          /\ Mistaken(m.rows[at], uuid) \subseteq {uuid[1]}
                          /\ Mistaken(m.rows[at], uuid) = {} => m.rows[at].uuid = uuid
                          /\ Mistaken(m.rows[at], uuid) \in SUBSET Uuids
<1> DEFINE at == RowAt(m.rows, uuid)
<1>1. /\ m.rows \in Seq(Orders(D)) /\ Len(m.rows) \in Nat /\ Range(m.rows) = {m.rows[i] : i \in 1..Len(m.rows)}
  <2>1. m.rows \in Seq(Orders(D))
    BY DEF Models
  <2> QED BY <2>1, SeqFacts
<1>2. /\ at = 0 \/ (at \in 1..Len(m.rows) /\ Fits(m.rows[at], uuid))
      /\ at = 0 => \A i \in 1..Len(m.rows) : ~Fits(m.rows[i], uuid)
  BY <1>1, RowAtIs
<1> HIDE DEF at
<1>3. ASSUME at = 0 PROVE uuid \notin m.orderIds \/ uuid[1] \in m.mistaken
  <2>1. \A r \in Range(m.rows) : r.uuid # uuid
    BY <1>1, <1>2, <1>3 DEF Fits
  <2> QED BY <2>1 DEF InOrder, Agrees, Registered
<1>4. uuid[1] \in Uuids
  BY DEF Keys
<1>5. /\ Mistaken(m.rows[at], uuid) \subseteq {uuid[1]}
      /\ Mistaken(m.rows[at], uuid) = {} => m.rows[at].uuid = uuid
      /\ Mistaken(m.rows[at], uuid) \in SUBSET Uuids
  BY <1>4 DEF Mistaken
<1> QED BY <1>2, <1>3, <1>5 DEF at

LEMMA BetterAtIs ==
  ASSUME NEW rs, Len(rs) \in Nat, NEW price
  PROVE  LET at == SelectInSeq(rs, LAMBDA r : Lower(price, r.price))
         IN  /\ at = 0 \/ at \in 1..Len(rs)
             /\ at = 0 => \A i \in 1..Len(rs) : ~Lower(price, rs[i].price)
<1> DEFINE having == {i \in 1..Len(rs) : Lower(price, rs[i].price)}
           at == SelectInSeq(rs, LAMBDA r : Lower(price, r.price))
<1>1. at = IF having # {} THEN CHOOSE x \in having : \A y \in having : x =< y ELSE 0
  BY Zenon DEF SelectInSeq, Min
<1>2. having # {} => \E x \in having : \A y \in having : x =< y
  <2>1. having \subseteq Nat
    OBVIOUS
  <2> HIDE DEF having
  <2> QED BY <2>1, LeastNumber
<1> HIDE DEF at
<1>3. having # {} => at \in having
  <2> HIDE DEF having
  <2> QED BY <1>1, <1>2
<1>4. having = {} => at = 0
  BY <1>1
<1>5. \A i \in having : i \in 1..Len(rs) /\ i # 0
  OBVIOUS
<1>6. /\ at = 0 \/ at \in 1..Len(rs)
      /\ at = 0 => \A i \in 1..Len(rs) : ~Lower(price, rs[i].price)
  BY <1>3, <1>4, <1>5
<1> QED BY <1>6 DEF at

LEMMA OfferEffect ==
  ASSUME NEW D, NEW m \in Models(D), NEW uuid, \E r \in Range(m.rows) : Fits(r, uuid)
  PROVE  /\ Offer(m, uuid) \in Models(D) /\ Offer(m, uuid).rows = m.rows
         /\ Offer(m, uuid).orderIds = m.orderIds /\ Offer(m, uuid).mistaken = m.mistaken
         /\ Offer(m, uuid).status = "BetterPriceAvailable"
         /\ m.picked # NotPicked => Offer(m, uuid).picked # NotPicked
<1> DEFINE row == m.rows[RowAt(m.rows, uuid)]
           p == IF m.takes /\ row.volume <= m.picked.volume THEN DataOf(row) ELSE m.picked
<1>1. row \in Orders(D)
  <2>1. m.rows \in Seq(Orders(D))
    BY DEF Models
  <2>2. /\ Len(m.rows) \in Nat /\ \A i \in 1..Len(m.rows) : m.rows[i] \in Orders(D)
        /\ Range(m.rows) = {m.rows[i] : i \in 1..Len(m.rows)}
    BY <2>1, SeqFacts
  <2>3. \E i \in 1..Len(m.rows) : Fits(m.rows[i], uuid)
    BY <2>2
  <2>4. RowAt(m.rows, uuid) \in 1..Len(m.rows)
    BY <2>2, <2>3, RowAtIs
  <2> QED BY <2>2, <2>4
<1> HIDE DEF row
<1>2. p \in Picks(D) /\ (m.picked # NotPicked => p # NotPicked)
  BY <1>1, RowFacts DEF Models
<1>3. Offer(m, uuid) = [m EXCEPT !.status = "BetterPriceAvailable", !.picked = p]
  BY DEF Offer, row
<1> HIDE DEF p
<1> QED BY <1>2, <1>3 DEF Models, OrderStatuses

LEMMA CheckEffect ==
  ASSUME NEW D, NEW m \in Models(D)
  PROVE  LET n == CheckForBetter(m)
         IN  /\ n \in Models(D) /\ n.rows = m.rows /\ n.orderIds = m.orderIds /\ n.mistaken = m.mistaken
             /\ m.picked # NotPicked => n.picked # NotPicked
             /\ \/ n.status = "BetterPriceAvailable"
                \/ /\ n.status = "OrderNotExistingAnymore" /\ n.picked = m.picked
                   /\ \A r \in Range(m.rows) : ~Better(m, r)
<1> DEFINE at == SelectInSeq(m.rows, LAMBDA r : Lower(m.picked.price, r.price))
           n == CheckForBetter(m)
<1>1. n = IF at # 0 THEN Offer(m, m.rows[at].uuid) ELSE [m EXCEPT !.status = "OrderNotExistingAnymore"]
  BY DEF CheckForBetter
<1>2. m.rows \in Seq(Orders(D))
  BY DEF Models
<1>3. /\ Len(m.rows) \in Nat /\ \A i \in 1..Len(m.rows) : m.rows[i] \in Orders(D)
      /\ Range(m.rows) = {m.rows[i] : i \in 1..Len(m.rows)}
  BY <1>2, SeqFacts
<1>4. /\ at = 0 \/ at \in 1..Len(m.rows)
      /\ at = 0 => \A i \in 1..Len(m.rows) : ~Lower(m.picked.price, m.rows[i].price)
  BY <1>3, BetterAtIs
<1> HIDE DEF at, n
<1>5. CASE at # 0
  <2>1. n = Offer(m, m.rows[at].uuid) /\ m.rows[at] \in Range(m.rows)
    BY <1>1, <1>3, <1>4, <1>5
  <2>2. \E r \in Range(m.rows) : Fits(r, m.rows[at].uuid)
    BY <2>1 DEF Fits
  <2> QED BY <2>1, <2>2, OfferEffect DEF n
<1>6. CASE at = 0
  <2>1. \A r \in Range(m.rows) : ~Better(m, r)
    BY <1>3, <1>4, <1>6 DEF Better
  <2>2. n = [m EXCEPT !.status = "OrderNotExistingAnymore"]
    BY <1>1, <1>6
  <2>3. n \in Models(D) /\ n.rows = m.rows /\ n.orderIds = m.orderIds /\ n.picked = m.picked
        /\ n.mistaken = m.mistaken /\ n.status = "OrderNotExistingAnymore"
    BY <2>2 DEF Models, OrderStatuses
  <2> QED BY <2>1, <2>3 DEF n
<1> QED BY <1>5, <1>6

LEMMA AppendIs ==
  ASSUME NEW S, NEW s \in Seq(S), NEW e \in S
  PROVE  /\ Append(s, e) \in Seq(S) /\ Len(Append(s, e)) = Len(s) + 1
         /\ \A i \in 1..Len(s) : Append(s, e)[i] = s[i]
         /\ Append(s, e)[Len(s) + 1] = e
         /\ Range(Append(s, e)) = Range(s) \cup {e}
<1>1. /\ Append(s, e) \in Seq(S) /\ Len(Append(s, e)) = Len(s) + 1
      /\ \A i \in 1..Len(s) : Append(s, e)[i] = s[i]
      /\ Append(s, e)[Len(s) + 1] = e
  BY AppendProperties
<1>2. Len(s) \in Nat /\ Range(s) = {s[i] : i \in 1..Len(s)}
  BY SeqFacts
<1>3. Range(Append(s, e)) = {Append(s, e)[i] : i \in 1..(Len(s) + 1)}
  BY <1>1, SeqFacts
<1>4. \A i \in 1..(Len(s) + 1) : i \in 1..Len(s) \/ i = Len(s) + 1
  BY <1>2
<1>5. \A i \in 1..Len(s) : i \in 1..(Len(s) + 1)
  BY <1>2
<1>6. Len(s) + 1 \in 1..(Len(s) + 1)
  BY <1>2
<1> QED BY <1>1, <1>2, <1>3, <1>4, <1>5, <1>6

LEMMA BetterIsTold == ASSUME NEW n, n.status = "BetterPriceAvailable" PROVE Told(n)
  BY DEF Told

LEMMA CheckedIsTold ==
  ASSUME NEW D, NEW m \in Models(D) PROVE Told(CheckForBetter(m))
<1> DEFINE n == CheckForBetter(m)
<1>1. n.rows = m.rows /\ n.mistaken = m.mistaken /\
      \/ n.status = "BetterPriceAvailable"
      \/ n.status = "OrderNotExistingAnymore" /\ n.picked = m.picked /\ \A r \in Range(m.rows) : ~Better(m, r)
  BY CheckEffect
<1> HIDE DEF n
<1>2. CASE n.status = "BetterPriceAvailable"
  BY <1>2, BetterIsTold DEF n
<1>3. CASE n.picked = m.picked /\ \A r \in Range(m.rows) : ~Better(m, r)
  <2>1. \A r \in Range(n.rows) : ~Better(n, r)
    BY <1>1, <1>3 DEF Better
  <2> QED BY <2>1 DEF n, Told
<1> QED BY <1>1, <1>2, <1>3

\* Where the same orders are better, the status stays true.
LEMMA ToldStays ==
  ASSUME NEW m, NEW n, Told(m), n.picked = m.picked, n.status = m.status, m.mistaken \subseteq n.mistaken,
         \A r \in Range(n.rows) :
           \/ ~Better(n, r)
           \/ \E q \in Range(m.rows) : q.uuid = r.uuid /\ q.price = r.price
  PROVE  Told(n)
<1>1. SUFFICES ASSUME n.picked # NotPicked
      PROVE  /\ ~worse /\ (\E r \in Range(n.rows) : Better(n, r)) => n.status = "BetterPriceAvailable"
             /\ n.status = "OrderNotExistingAnymore" =>
                  \A r \in Range(n.rows) : ~Better(n, r) \/ (worse /\ (r.uuid # n.picked.uuid \/ r.uuid[1] \in n.mistaken))
  BY DEF Told
<1>2. \A r \in Range(n.rows) : Better(n, r) =>
        \E q \in Range(m.rows) : q.uuid = r.uuid /\ Better(m, q)
  BY DEF Better
<1>3. /\ ~worse /\ (\E r \in Range(m.rows) : Better(m, r)) => m.status = "BetterPriceAvailable"
      /\ m.status = "OrderNotExistingAnymore" =>
           \A r \in Range(m.rows) : ~Better(m, r) \/ (worse /\ (r.uuid # m.picked.uuid \/ r.uuid[1] \in m.mistaken))
  BY <1>1 DEF Told
<1> QED BY <1>2, <1>3

\* What an order of an answer does to the rows.
Treats(m, n, o) ==
  /\ n.orderIds = m.orderIds \cup {o.uuid} /\ m.mistaken \subseteq n.mistaken
  /\ \A r \in Range(n.rows) : r.uuid[1] \notin n.mistaken =>
       IF r.uuid = o.uuid THEN Shown(r) = Shown(o) ELSE r \in Range(m.rows)

LEMMA InitializeEffect ==
  ASSUME NEW D, NEW m \in Models(D), InOrder(m), NEW o \in Orders(D), o.uuid \notin m.orderIds
  PROVE  LET n == InitializeOrder(m, o) IN n \in Models(D) /\ InOrder(n) /\ Treats(m, n, o)
<1> DEFINE new == [m EXCEPT !.rows = Append(@, o), !.orderIds = @ \cup {o.uuid}]
           n == InitializeOrder(m, o)
<1>1. m.rows \in Seq(Orders(D)) /\ o.uuid \in Keys
  BY RowFacts DEF Models
<1>2. Append(m.rows, o) \in Seq(Orders(D)) /\ Range(Append(m.rows, o)) = Range(m.rows) \cup {o}
  BY <1>1, AppendIs
<1>3. /\ new \in Models(D) /\ new.rows = Append(m.rows, o) /\ new.orderIds = m.orderIds \cup {o.uuid}
      /\ new.picked = m.picked /\ new.status = m.status /\ new.mistaken = m.mistaken
  BY <1>1, <1>2 DEF Models
<1>4. n = IF m.picked # NotPicked /\ Better(m, o) THEN Offer(new, o.uuid) ELSE new
  BY DEF InitializeOrder, Better
<1> HIDE DEF new
<1>5. \E r \in Range(new.rows) : Fits(r, o.uuid)
  BY <1>2, <1>3 DEF Fits
<1> DEFINE told == Offer(new, o.uuid)
<1>13. /\ told \in Models(D) /\ told.rows = new.rows /\ told.orderIds = new.orderIds
       /\ told.mistaken = new.mistaken /\ told.status = "BetterPriceAvailable"
  <2>1. ASSUME NEW x \in Models(D), NEW u, \E r \in Range(x.rows) : Fits(r, u)
        PROVE  /\ Offer(x, u) \in Models(D) /\ Offer(x, u).rows = x.rows /\ Offer(x, u).orderIds = x.orderIds
               /\ Offer(x, u).mistaken = x.mistaken /\ Offer(x, u).status = "BetterPriceAvailable"
    BY <2>1, OfferEffect
  <2>2. new \in Models(D)
    BY <1>3
  <2> QED BY <2>1, <2>2, <1>5
<1> HIDE DEF told
<1>6. n \in Models(D) /\ n.rows = new.rows /\ n.orderIds = new.orderIds /\ n.mistaken = m.mistaken
  BY <1>3, <1>4, <1>13 DEF told
<1>7. Told(n)
  <2>1. CASE m.picked # NotPicked /\ Better(m, o)
    <3>1. n.status = "BetterPriceAvailable"
      BY <1>4, <1>13, <2>1 DEF told
    <3> HIDE DEF n
    <3> QED BY <3>1, BetterIsTold
  <2>2. CASE m.picked = NotPicked
    BY <1>3, <1>4, <2>2 DEF Told
  <2>3. CASE m.picked # NotPicked /\ ~Better(m, o)
    <3>1. n = new
      BY <1>4, <2>3
    <3>2. \A r \in Range(new.rows) : r = o \/ r \in Range(m.rows)
      BY <1>2, <1>3
    <3>3. ~Better(new, o)
      BY <1>3, <2>3 DEF Better
    <3>4. Told(m)
      BY DEF InOrder
    <3>5. Told(new)
      BY <1>3, <3>2, <3>3, <3>4, ToldStays
    <3> QED BY <3>1, <3>5
  <2> QED BY <2>1, <2>2, <2>3
<1> HIDE DEF n
<1>8. Agrees(n)
  <2>1. Registered(n.rows) = Registered(m.rows) \cup {o.uuid}
    BY <1>2, <1>3, <1>6 DEF Registered
  <2> QED BY <2>1, <1>3, <1>6 DEF InOrder, Agrees
<1>9. \A r \in Range(m.rows) : r.uuid = o.uuid => r.uuid[1] \in m.mistaken
  BY <1>1 DEF InOrder, Agrees, Registered
<1>10. Distinct(n)
  <2>1. /\ Len(m.rows) \in Nat /\ Len(n.rows) = Len(m.rows) + 1
        /\ \A i \in 1..Len(m.rows) : n.rows[i] = m.rows[i] /\ m.rows[i] \in Range(m.rows)
        /\ n.rows[Len(m.rows) + 1] = o
    BY <1>1, <1>3, <1>6, AppendIs, SeqFacts
  <2>2. \A i \in 1..Len(n.rows) : i \in 1..Len(m.rows) \/ i = Len(m.rows) + 1
    BY <2>1
  <2> QED BY <2>1, <2>2, <1>6, <1>9 DEF Distinct, InOrder
<1>11. Treats(m, n, o)
  BY <1>2, <1>3, <1>6, <1>9 DEF Treats
<1> QED BY <1>6, <1>7, <1>8, <1>10, <1>11 DEF InOrder, n

LEMMA UpdateEffect ==
  ASSUME NEW D, NEW m \in Models(D), InOrder(m), NEW o \in Orders(D), o.uuid \in m.orderIds
  PROVE  LET n == UpdateOrder(m, o) IN n \in Models(D) /\ InOrder(n) /\ Treats(m, n, o)
<1> DEFINE at == RowAt(m.rows, o.uuid)
           row == [o EXCEPT !.uuid = m.rows[at].uuid, !.numer = m.rows[at].numer]
           rs == [m.rows EXCEPT ![at] = row]
           mis == m.mistaken \cup Mistaken(m.rows[at], o.uuid)
           new == [m EXCEPT !.rows = rs, !.mistaken = mis]
           n == UpdateOrder(m, o)
<1>1. /\ m.rows \in Seq(Orders(D)) /\ Len(m.rows) \in Nat /\ DOMAIN m.rows = 1..Len(m.rows)
      /\ \A i \in 1..Len(m.rows) : m.rows[i] \in Orders(D) /\ m.rows[i] \in Range(m.rows)
      /\ Range(m.rows) = {m.rows[i] : i \in 1..Len(m.rows)} /\ o.uuid \in Keys
  <2>1. m.rows \in Seq(Orders(D))
    BY DEF Models
  <2> QED BY <2>1, SeqFacts, RowFacts
<1>2. /\ at = 0 => o.uuid[1] \in m.mistaken
      /\ at # 0 => /\ at \in 1..Len(m.rows) /\ mis \in SUBSET Uuids
                   /\ m.mistaken \subseteq mis /\ mis \subseteq m.mistaken \cup {o.uuid[1]}
                   /\ m.rows[at].uuid = o.uuid \/ o.uuid[1] \in mis
                   /\ m.rows[at].uuid[1] = o.uuid[1] /\ Fits(m.rows[at], o.uuid)
  <2>1. /\ at = 0 => o.uuid[1] \in m.mistaken
        /\ at # 0 => /\ at \in 1..Len(m.rows) /\ Fits(m.rows[at], o.uuid)
                     /\ Mistaken(m.rows[at], o.uuid) \subseteq {o.uuid[1]}
                     /\ Mistaken(m.rows[at], o.uuid) = {} => m.rows[at].uuid = o.uuid
                     /\ Mistaken(m.rows[at], o.uuid) \in SUBSET Uuids
    BY <1>1, FoundIs
  <2>2. m.mistaken \in SUBSET Uuids
    BY DEF Models
  <2> HIDE DEF at
  <2> QED BY <2>1, <2>2 DEF Fits
<1>3. n = IF at = 0 THEN m
          ELSE IF m.picked = NotPicked \/ m.rows[at].price = o.price THEN new
          ELSE IF Better(m, o) THEN Offer(new, o.uuid)
          ELSE IF m.picked.uuid = o.uuid THEN CheckForBetter(new)
          ELSE new
  <2> DEFINE raw == [m EXCEPT !.rows[at] = Updated(@, o),
                              !.mistaken = @ \cup Mistaken(m.rows[at], o.uuid)]
  <2>1. raw = new
    BY DEF Updated
  <2>2. n = IF at = 0 THEN m
            ELSE IF m.picked = NotPicked \/ m.rows[at].price = o.price THEN raw
            ELSE IF Better(m, o) THEN Offer(raw, o.uuid)
            ELSE IF m.picked.uuid = o.uuid THEN CheckForBetter(raw)
            ELSE raw
    BY Zenon DEF UpdateOrder, at, Better
  <2> HIDE DEF raw, n, new
  <2> QED BY <2>1, <2>2
<1> HIDE DEF n
<1>4. CASE at = 0
  <2>1. n = m
    BY <1>3, <1>4
  <2>2. \A r \in Range(m.rows) : r.uuid = o.uuid => r.uuid[1] \in m.mistaken
    BY <1>2, <1>4
  <2> QED BY <2>1, <2>2 DEF Treats, n
<1>5. CASE at # 0
  <2> HIDE DEF at, mis
  <2>1. /\ at \in 1..Len(m.rows) /\ mis \in SUBSET Uuids
        /\ m.mistaken \subseteq mis /\ mis \subseteq m.mistaken \cup {o.uuid[1]}
        /\ m.rows[at].uuid = o.uuid \/ o.uuid[1] \in mis
        /\ m.rows[at].uuid[1] = o.uuid[1] /\ Fits(m.rows[at], o.uuid)
    BY <1>2, <1>5
  <2>2. /\ row \in Orders(D) /\ row.uuid = m.rows[at].uuid /\ row.price = o.price
        /\ row.uuid = o.uuid => Shown(row) = Shown(o)
    <3>1. m.rows[at].numer \in Nat /\ m.rows[at].uuid \in Keys
      BY <1>1, <2>1 DEF Orders
    <3>2. row \in Orders(D) /\ row.uuid = m.rows[at].uuid /\ row.price = o.price
      BY <3>1 DEF Orders
    <3>3. row.uuid = o.uuid => Shown(row) = Shown(o)
      BY <3>1 DEF Shown, Orders
    <3> QED BY <3>2, <3>3
  <2>3. /\ rs \in Seq(Orders(D)) /\ Len(rs) = Len(m.rows) /\ rs[at] = row
        /\ \A i \in 1..Len(m.rows) : i # at => rs[i] = m.rows[i]
        /\ Range(rs) = {rs[i] : i \in 1..Len(m.rows)}
    <3>1. rs \in [1..Len(m.rows) -> Orders(D)]
      BY <1>1, <2>1, <2>2
    <3>2. rs[at] = row /\ \A i \in 1..Len(m.rows) : i # at => rs[i] = m.rows[i]
      BY <1>1, <2>1
    <3> HIDE DEF rs
    <3>3. rs \in Seq(Orders(D)) /\ Len(rs) = Len(m.rows)
      BY <1>1, <3>1, SeqOfFunction
    <3> QED BY <3>2, <3>3, SeqFacts
  <2> HIDE DEF row, rs
  <2>4. /\ new \in Models(D) /\ new.rows = rs /\ new.orderIds = m.orderIds /\ new.mistaken = mis
        /\ new.picked = m.picked /\ new.status = m.status
    BY <2>1, <2>3 DEF Models
  <2> HIDE DEF new
  <2>5. \A i \in 1..Len(m.rows) : rs[i].uuid = m.rows[i].uuid
    BY <2>1, <2>2, <2>3
  <2>6. Registered(rs) = Registered(m.rows)
    <3>1. Registered(rs) = {rs[i].uuid : i \in 1..Len(m.rows)}
      BY <2>3 DEF Registered
    <3>2. Registered(m.rows) = {m.rows[i].uuid : i \in 1..Len(m.rows)}
      BY <1>1 DEF Registered
    <3> QED BY <3>1, <3>2, <2>5
  <2>7. \E r \in Range(new.rows) : Fits(r, o.uuid)
    <3>1. row \in Range(new.rows)
      BY <2>1, <2>3, <2>4
    <3>2. Fits(row, o.uuid)
      BY <2>1, <2>2 DEF Fits
    <3> QED BY <3>1, <3>2
  <2>8. n \in Models(D) /\ n.rows = rs /\ n.orderIds = m.orderIds /\ n.mistaken = mis
    BY <1>3, <1>5, <2>4, <2>7, OfferEffect, CheckEffect
  <2>9. ASSUME m.picked = NotPicked \/ m.rows[at].price = o.price \/ ~Better(m, o)
        PROVE  Told(new)
    <3>1. CASE m.picked = NotPicked
      BY <2>4, <3>1 DEF Told
    <3>2. CASE m.rows[at].price = o.price \/ ~Better(m, o)
      <4>1. ASSUME NEW r \in Range(new.rows)
            PROVE  \/ ~Better(new, r)
                   \/ \E q \in Range(m.rows) : q.uuid = r.uuid /\ q.price = r.price
        <5>1. PICK i \in 1..Len(m.rows) : r = rs[i]
          BY <2>3, <2>4
        <5>2. CASE i # at
          BY <5>1, <5>2, <1>1, <2>3
        <5>3. CASE i = at
          <6>1. r = row
            BY <5>1, <5>3, <2>3
          <6>2. Better(new, r) <=> Better(m, o)
            BY <6>1, <2>2, <2>4 DEF Better
          <6>3. m.rows[at] \in Range(m.rows) /\ m.rows[at].uuid = r.uuid
            BY <6>1, <1>1, <2>1, <2>2
          <6> QED BY <3>2, <6>1, <6>2, <6>3, <2>2
        <5> QED BY <5>2, <5>3
      <4>2. Told(m)
        BY DEF InOrder
      <4> QED BY <4>1, <4>2, <2>1, <2>4, ToldStays
    <3> QED BY <2>9, <3>1, <3>2
  <2>10. Told(n)
    <3>1. CASE m.picked = NotPicked \/ m.rows[at].price = o.price
      <4>1. n = new
        BY <1>3, <1>5, <3>1
      <4> QED BY <4>1, <3>1, <2>9
    <3>2. CASE ~(m.picked = NotPicked \/ m.rows[at].price = o.price) /\ Better(m, o)
      <4>1. n = Offer(new, o.uuid)
        BY <1>3, <1>5, <3>2
      <4>2. n.status = "BetterPriceAvailable"
        BY <4>1, <2>4, <2>7, OfferEffect
      <4> QED BY <4>2, BetterIsTold
    <3>3. CASE ~(m.picked = NotPicked \/ m.rows[at].price = o.price) /\ ~Better(m, o) /\ m.picked.uuid = o.uuid
      <4>1. n = CheckForBetter(new)
        BY <1>3, <1>5, <3>3
      <4> QED BY <4>1, <2>4, CheckedIsTold
    <3>4. CASE ~(m.picked = NotPicked \/ m.rows[at].price = o.price) /\ ~Better(m, o) /\ m.picked.uuid # o.uuid
      <4>1. n = new
        BY <1>3, <1>5, <3>4
      <4> QED BY <4>1, <3>4, <2>9
    <3> QED BY <3>1, <3>2, <3>3, <3>4
  <2>11. Agrees(n)
    <3>1. \A k \in Keys : k[1] \notin mis => (k \in m.orderIds <=> k \in Registered(m.rows))
      BY <2>1 DEF InOrder, Agrees
    <3> QED BY <3>1, <2>6, <2>8 DEF Agrees
  <2>12. Distinct(n)
    <3>1. \A i, j \in 1..Len(m.rows) :
            m.rows[i].uuid = m.rows[j].uuid /\ m.rows[i].uuid[1] \notin mis => i = j
      BY <2>1 DEF InOrder, Distinct
    <3>2. Len(n.rows) = Len(m.rows) /\ n.mistaken = mis
          /\ \A i \in 1..Len(m.rows) : n.rows[i].uuid = m.rows[i].uuid
      BY <2>3, <2>5, <2>8
    <3> QED BY <3>1, <3>2 DEF Distinct
  <2>13. Treats(m, n, o)
    <3>1. ASSUME NEW r \in Range(n.rows), r.uuid[1] \notin n.mistaken
          PROVE  IF r.uuid = o.uuid THEN Shown(r) = Shown(o) ELSE r \in Range(m.rows)
      <4>1. PICK i \in 1..Len(m.rows) : r = rs[i]
        BY <2>3, <2>8
      <4>2. CASE i = at
        <5>1. r = row /\ row.uuid[1] \notin mis
          BY <4>1, <4>2, <2>3, <2>8, <3>1
        <5>2. row.uuid = o.uuid
          BY <5>1, <2>1, <2>2
        <5> QED BY <5>1, <5>2, <2>2
      <4>3. CASE i # at
        <5>1. r = m.rows[i] /\ r \in Range(m.rows)
          BY <4>1, <4>3, <1>1, <2>3
        <5>2. r.uuid # o.uuid
          <6>1. SUFFICES ASSUME r.uuid = o.uuid PROVE FALSE
            OBVIOUS
          <6>2. o.uuid[1] \notin mis /\ m.rows[i].uuid = o.uuid
            BY <3>1, <5>1, <6>1, <2>8
          <6>3. m.rows[at].uuid = m.rows[i].uuid /\ m.rows[i].uuid[1] \notin m.mistaken
            BY <6>2, <2>1
          <6> QED BY <6>3, <4>3, <2>1 DEF InOrder, Distinct
        <5> QED BY <5>1, <5>2
      <4> QED BY <4>2, <4>3
    <3>2. n.orderIds = m.orderIds \cup {o.uuid} /\ m.mistaken \subseteq n.mistaken
      BY <2>1, <2>8
    <3> QED BY <3>1, <3>2 DEF Treats
  <2> QED BY <2>8, <2>10, <2>11, <2>12, <2>13 DEF InOrder, n
<1> QED BY <1>4, <1>5
LEMMA TreatEffect ==
  ASSUME NEW D, NEW m \in Models(D), InOrder(m), NEW o \in Orders(D)
  PROVE  LET n == TreatOrder(m, o) IN n \in Models(D) /\ InOrder(n) /\ Treats(m, n, o)
<1>1. CASE o.uuid \in m.orderIds
  BY <1>1, UpdateEffect DEF TreatOrder
<1>2. CASE o.uuid \notin m.orderIds
  BY <1>2, InitializeEffect DEF TreatOrder
<1> QED BY <1>1, <1>2

LEMMA RemoveEffect ==
  ASSUME NEW D, NEW m \in Models(D), InOrder(m), NEW uuid \in Keys
  PROVE  LET n == RemoveRow(m, uuid)
         IN  /\ n \in Models(D) /\ InOrder(n)
             /\ m.mistaken \subseteq n.mistaken /\ Range(n.rows) \subseteq Range(m.rows)
             /\ \A key \in Keys : key[1] \notin n.mistaken =>
                  (key \in n.orderIds <=> key \in m.orderIds \ {uuid})
<1> DEFINE at == RowAt(m.rows, uuid)
           mis == m.mistaken \cup Mistaken(m.rows[at], uuid)
           checked == IF m.picked # NotPicked /\ m.picked.uuid = m.rows[at].uuid THEN CheckForBetter(m) ELSE m
           n == RemoveRow(m, uuid)
<1>1. /\ m.rows \in Seq(Orders(D)) /\ Len(m.rows) \in Nat /\ Range(m.rows) = {m.rows[i] : i \in 1..Len(m.rows)}
      /\ \A i \in 1..Len(m.rows) : m.rows[i] \in Orders(D)
  <2>1. m.rows \in Seq(Orders(D))
    BY DEF Models
  <2> QED BY <2>1, SeqFacts
<1>2. /\ at = 0 => uuid \notin m.orderIds \/ uuid[1] \in m.mistaken
      /\ at # 0 => /\ at \in 1..Len(m.rows) /\ mis \in SUBSET Uuids
                   /\ m.mistaken \subseteq mis
                   /\ m.rows[at].uuid = uuid \/ uuid[1] \in mis
                   /\ m.rows[at].uuid[1] = uuid[1]
  <2>1. /\ at = 0 => uuid \notin m.orderIds \/ uuid[1] \in m.mistaken
        /\ at # 0 => /\ at \in 1..Len(m.rows) /\ Fits(m.rows[at], uuid)
                     /\ Mistaken(m.rows[at], uuid) \subseteq {uuid[1]}
                     /\ Mistaken(m.rows[at], uuid) = {} => m.rows[at].uuid = uuid
                     /\ Mistaken(m.rows[at], uuid) \in SUBSET Uuids
    BY FoundIs
  <2>2. m.mistaken \in SUBSET Uuids
    BY DEF Models
  <2> HIDE DEF at
  <2> QED BY <2>1, <2>2 DEF Fits
<1>3. n = IF at = 0 THEN m
          ELSE [checked EXCEPT !.rows = RemoveAt(@, at), !.orderIds = @ \ {uuid},
                               !.mistaken = @ \cup Mistaken(m.rows[at], uuid)]
  <2> DEFINE gone == [checked EXCEPT !.rows = RemoveAt(@, at)]
  <2>1. n = IF at = 0 THEN m
            ELSE [gone EXCEPT !.orderIds = @ \ {uuid}, !.mistaken = @ \cup Mistaken(m.rows[at], uuid)]
    BY Zenon DEF RemoveRow, WithoutRow, at
  <2> HIDE DEF n, at, checked
  <2> QED BY <2>1
<1> HIDE DEF n, at
<1>4. CASE at = 0
  <2>1. n = m
    BY <1>3, <1>4
  <2> QED BY <1>2, <1>4, <2>1 DEF n
<1>5. CASE at # 0
  <2>1. /\ at \in 1..Len(m.rows) /\ mis \in SUBSET Uuids /\ m.mistaken \subseteq mis
        /\ m.rows[at].uuid = uuid \/ uuid[1] \in mis
        /\ m.rows[at].uuid[1] = uuid[1]
    BY <1>2, <1>5
  <2>2. /\ checked \in Models(D) /\ checked.rows = m.rows /\ checked.orderIds = m.orderIds
        /\ checked.mistaken = m.mistaken /\ Told(checked)
    BY CheckEffect, CheckedIsTold DEF InOrder
  <2> HIDE DEF checked
  <2> DEFINE rs == RemoveAt(m.rows, at)
             Place(i) == IF i < at THEN i ELSE i + 1
  <2>3. /\ rs \in Seq(Orders(D)) /\ Len(rs) = Len(m.rows) - 1
        /\ \A i \in 1..(Len(m.rows) - 1) : rs[i] = m.rows[Place(i)]
    BY <1>1, <2>1, RemoveAtIs
  <2> HIDE DEF rs
  <2>4. /\ n \in Models(D) /\ n.rows = rs /\ n.orderIds = m.orderIds \ {uuid} /\ n.mistaken = mis
        /\ n.picked = checked.picked /\ n.status = checked.status
    <3>1. n = [checked EXCEPT !.rows = rs, !.orderIds = m.orderIds \ {uuid}, !.mistaken = mis]
      BY <1>3, <1>5, <2>2 DEF rs
    <3> HIDE DEF mis
    <3> QED BY <3>1, <2>1, <2>2, <2>3 DEF Models
  <2>5. Range(rs) = {rs[i] : i \in 1..(Len(m.rows) - 1)}
    BY <2>3, SeqFacts
  <2>6. /\ \A i \in 1..(Len(m.rows) - 1) : Place(i) \in 1..Len(m.rows) /\ Place(i) # at
        /\ \A i, j \in 1..(Len(m.rows) - 1) : Place(i) = Place(j) => i = j
    BY <1>1, <2>1
  <2>7. \A j \in 1..Len(m.rows) : j # at => \E i \in 1..(Len(m.rows) - 1) : Place(i) = j
    <3>1. ASSUME NEW j \in 1..Len(m.rows), j < at PROVE j \in 1..(Len(m.rows) - 1) /\ Place(j) = j
      BY <1>1, <2>1, <3>1
    <3>2. ASSUME NEW j \in 1..Len(m.rows), j > at
          PROVE  j - 1 \in 1..(Len(m.rows) - 1) /\ Place(j - 1) = j
      BY <1>1, <2>1, <3>2
    <3>3. \A j \in 1..Len(m.rows) : j < at \/ j = at \/ j > at
      BY <1>1, <2>1
    <3> HIDE DEF Place
    <3> QED BY <3>1, <3>2, <3>3
  <2> HIDE DEF Place, mis
  <2>8. Range(n.rows) \subseteq Range(m.rows)
    <3>1. ASSUME NEW i \in 1..(Len(m.rows) - 1) PROVE rs[i] \in Range(m.rows)
      <4>1. rs[i] = m.rows[Place(i)] /\ Place(i) \in 1..Len(m.rows)
        BY <2>3, <2>6
      <4> QED BY <4>1, <1>1
    <3> QED BY <3>1, <2>4, <2>5
  <2>9. Distinct(n)
    <3> SUFFICES ASSUME NEW i \in 1..(Len(m.rows) - 1), NEW j \in 1..(Len(m.rows) - 1), rs[i].uuid = rs[j].uuid,
                        rs[i].uuid[1] \notin mis
                 PROVE  i = j
      BY <2>3, <2>4 DEF Distinct
    <3>1. m.rows[Place(i)].uuid = m.rows[Place(j)].uuid /\ m.rows[Place(i)].uuid[1] \notin m.mistaken
      BY <2>1, <2>3
    <3>2. Place(i) \in 1..Len(m.rows) /\ Place(j) \in 1..Len(m.rows)
      BY <2>6
    <3>3. Place(i) = Place(j)
      BY <3>1, <3>2 DEF InOrder, Distinct
    <3> QED BY <3>3, <2>6
  <2>10. Agrees(n)
    <3> SUFFICES ASSUME NEW key \in Keys, key[1] \notin mis
                 PROVE  key \in m.orderIds \ {uuid} <=> key \in Registered(rs)
      BY <2>4 DEF Agrees
    <3>1. Registered(rs) = {m.rows[Place(i)].uuid : i \in 1..(Len(m.rows) - 1)}
      BY <2>3, <2>5 DEF Registered
    <3>2. key \in m.orderIds <=> \E j \in 1..Len(m.rows) : m.rows[j].uuid = key
      <4>1. Registered(m.rows) = {m.rows[j].uuid : j \in 1..Len(m.rows)}
        BY <1>1 DEF Registered
      <4>2. key \in m.orderIds <=> key \in Registered(m.rows)
        BY <2>1 DEF InOrder, Agrees
      <4> QED BY <4>1, <4>2
    <3>3. CASE key = uuid
      <4>1. m.rows[at].uuid = uuid
        BY <2>1, <3>3
      <4>2. \A j \in 1..Len(m.rows) : m.rows[j].uuid = uuid => j = at
        BY <2>1, <3>3, <4>1 DEF InOrder, Distinct
      <4> QED BY <3>1, <3>3, <4>2, <2>6
    <3>4. CASE key # uuid
      <4>1. m.rows[at].uuid # key
        BY <2>1, <3>4
      <4>2. \A j \in 1..Len(m.rows) : m.rows[j].uuid = key => j # at
        BY <4>1
      <4> QED BY <3>1, <3>2, <3>4, <4>2, <2>6, <2>7
    <3> QED BY <3>3, <3>4
  <2>11. Told(n)
    <3>1. \A r \in Range(n.rows) : \E q \in Range(checked.rows) : q.uuid = r.uuid /\ q.price = r.price
      BY <2>2, <2>8
    <3> QED BY <3>1, <2>1, <2>2, <2>4, ToldStays
  <2> QED BY <2>1, <2>4, <2>8, <2>9, <2>10, <2>11 DEF InOrder, n
<1> QED BY <1>4, <1>5

-----------------------------------------------------------------------------
(* A refresh: all orders of the answer, then all that are gone.            *)

LEMMA AllTreated ==
  ASSUME NEW D, NEW m \in Models(D), InOrder(m), NEW n \in Nat, NEW s, DOMAIN s = 1..n,
         \A i \in 1..n : s[i] \in Orders(D),
         \A i, j \in 1..n : s[i].uuid = s[j].uuid => i = j
  PROVE  LET z == Treated(m, s)
         IN  /\ z \in Models(D) /\ InOrder(z)
             /\ z.orderIds = m.orderIds \cup {s[i].uuid : i \in 1..n}
             /\ \A r \in Range(z.rows), i \in 1..n :
                  r.uuid = s[i].uuid /\ r.uuid[1] \notin z.mistaken => Shown(r) = Shown(s[i])
<1>1. PICK at : /\ at[0] = m /\ \A k \in 1..n : at[k] = TreatOrder(at[k - 1], s[k])
                /\ Treated(m, s) = at[n]
  BY ONLY TreatsInTurn, n \in Nat, DOMAIN s = 1..n
<1> DEFINE Good(k) == /\ at[k] \in Models(D) /\ InOrder(at[k])
                      /\ at[k].orderIds = m.orderIds \cup {s[i].uuid : i \in 1..k}
                      /\ \A r \in Range(at[k].rows), i \in 1..k :
                           r.uuid = s[i].uuid /\ r.uuid[1] \notin at[k].mistaken => Shown(r) = Shown(s[i])
           Bad == {k \in 0..n : ~Good(k)}
<1>2. Good(0)
  <2>1. 1..0 = {}
    OBVIOUS
  <2> QED BY <1>1, <2>1
<1>3. ASSUME NEW k \in 1..n, Good(k - 1) PROVE Good(k)
  <2>1. at[k] = TreatOrder(at[k - 1], s[k]) /\ s[k] \in Orders(D)
    BY <1>1
  <2>2. at[k] \in Models(D) /\ InOrder(at[k]) /\ Treats(at[k - 1], at[k], s[k])
    BY <1>3, <2>1, TreatEffect
  <2>3. 1..k = (1..(k - 1)) \cup {k} /\ \A i \in 1..(k - 1) : i \in 1..n /\ i # k
    OBVIOUS
  <2>4. at[k].orderIds = m.orderIds \cup {s[i].uuid : i \in 1..k}
    <3>1. at[k].orderIds = m.orderIds \cup {s[i].uuid : i \in 1..(k - 1)} \cup {s[k].uuid}
      BY <1>3, <2>2 DEF Treats
    <3> QED BY <3>1, <2>3
  <2>5. ASSUME NEW r \in Range(at[k].rows), NEW i \in 1..k, r.uuid = s[i].uuid,
               r.uuid[1] \notin at[k].mistaken
        PROVE  Shown(r) = Shown(s[i])
    <3>1. CASE i = k
      BY <2>2, <2>5, <3>1 DEF Treats
    <3>2. CASE i # k
      <4>1. i \in 1..(k - 1) /\ s[i].uuid # s[k].uuid
        BY <2>3, <3>2
      <4>2. r \in Range(at[k - 1].rows) /\ r.uuid[1] \notin at[k - 1].mistaken
        BY <2>2, <2>5, <4>1 DEF Treats
      <4> QED BY <4>1, <4>2, <2>5, <1>3
    <3> QED BY <3>1, <3>2
  <2> QED BY <2>2, <2>4, <2>5
<1>4. Bad = {}
  <2> SUFFICES ASSUME Bad # {} PROVE FALSE
    OBVIOUS
  <2>1. Bad \in SUBSET Nat
    OBVIOUS
  <2>2. PICK k \in Bad : \A j \in Bad : k <= j
    <3> HIDE DEF Bad
    <3> QED BY <2>1, LeastNumber
  <2>3. k \in 0..n /\ ~Good(k)
    BY <2>2
  <2> HIDE DEF Good
  <2>4. k \in 1..n /\ k - 1 \in 0..n /\ ~(k <= k - 1)
    BY <2>3, <1>2
  <2>5. Good(k - 1)
    BY <2>2, <2>4
  <2> QED BY <2>3, <2>4, <2>5, <1>3
<1>5. n \in 0..n
  OBVIOUS
<1> HIDE DEF Good
<1>6. Good(n)
  BY <1>4, <1>5
<1> QED BY <1>1, <1>6 DEF Good

LEMMA AllRemoved ==
  ASSUME NEW D, NEW m \in Models(D), InOrder(m), NEW n \in Nat, NEW s, DOMAIN s = 1..n,
         \A i \in 1..n : s[i] \in Keys
  PROVE  LET z == Removed(m, s)
         IN  /\ z \in Models(D) /\ InOrder(z)
             /\ m.mistaken \subseteq z.mistaken /\ Range(z.rows) \subseteq Range(m.rows)
             /\ \A key \in Keys : key[1] \notin z.mistaken =>
                  (key \in z.orderIds <=> key \in m.orderIds \ {s[i] : i \in 1..n})
<1>1. PICK at : /\ at[0] = m /\ \A k \in 1..n : at[k] = RemoveRow(at[k - 1], s[k])
                /\ Removed(m, s) = at[n]
  BY ONLY RemovesInTurn, n \in Nat, DOMAIN s = 1..n
<1> DEFINE Good(k) == /\ at[k] \in Models(D) /\ InOrder(at[k])
                      /\ m.mistaken \subseteq at[k].mistaken /\ Range(at[k].rows) \subseteq Range(m.rows)
                      /\ \A key \in Keys : key[1] \notin at[k].mistaken =>
                           (key \in at[k].orderIds <=> key \in m.orderIds \ {s[i] : i \in 1..k})
           Bad == {k \in 0..n : ~Good(k)}
<1>2. Good(0)
  <2>1. 1..0 = {}
    OBVIOUS
  <2> QED BY <1>1, <2>1
<1>3. ASSUME NEW k \in 1..n, Good(k - 1) PROVE Good(k)
  <2>1. 1..k = (1..(k - 1)) \cup {k} /\ \A i \in 1..(k - 1) : i \in 1..n /\ i # k
    OBVIOUS
  <2>2. /\ at[k] \in Models(D) /\ InOrder(at[k])
        /\ at[k - 1].mistaken \subseteq at[k].mistaken /\ Range(at[k].rows) \subseteq Range(at[k - 1].rows)
        /\ \A key \in Keys : key[1] \notin at[k].mistaken =>
             (key \in at[k].orderIds <=> key \in at[k - 1].orderIds \ {s[k]})
    <3>1. at[k - 1] \in Models(D) /\ InOrder(at[k - 1]) /\ at[k] = RemoveRow(at[k - 1], s[k]) /\ s[k] \in Keys
      BY <1>1, <1>3
    <3> DEFINE p == at[k - 1]
               q == RemoveRow(p, s[k])
    <3>2. p \in Models(D) /\ InOrder(p) /\ at[k] = q
      BY <3>1
    <3> HIDE DEF p
    <3>3. /\ q \in Models(D) /\ InOrder(q) /\ p.mistaken \subseteq q.mistaken /\ Range(q.rows) \subseteq Range(p.rows)
          /\ \A key \in Keys : key[1] \notin q.mistaken => (key \in q.orderIds <=> key \in p.orderIds \ {s[k]})
      BY <3>1, <3>2, RemoveEffect
    <3> HIDE DEF q
    <3> QED BY <3>2, <3>3 DEF p
  <2>3. ASSUME NEW key \in Keys, key[1] \notin at[k].mistaken
        PROVE  key \in at[k].orderIds <=> key \in m.orderIds \ {s[i] : i \in 1..k}
    <3>1. key[1] \notin at[k - 1].mistaken /\ (key \in at[k].orderIds <=> key \in at[k - 1].orderIds \ {s[k]})
      BY <2>2, <2>3
    <3>2. key \in at[k - 1].orderIds <=> key \in m.orderIds \ {s[i] : i \in 1..(k - 1)}
      BY <3>1, <1>3
    <3> QED BY <3>1, <3>2, <2>1
  <2> QED BY <1>3, <2>2, <2>3
<1>4. Bad = {}
  <2> SUFFICES ASSUME Bad # {} PROVE FALSE
    OBVIOUS
  <2>1. Bad \in SUBSET Nat
    OBVIOUS
  <2>2. PICK k \in Bad : \A j \in Bad : k <= j
    <3> HIDE DEF Bad
    <3> QED BY <2>1, LeastNumber
  <2>3. k \in 0..n /\ ~Good(k)
    BY <2>2
  <2> HIDE DEF Good
  <2>4. k \in 1..n /\ k - 1 \in 0..n /\ ~(k <= k - 1)
    BY <2>3, <1>2
  <2>5. Good(k - 1)
    BY <2>2, <2>4
  <2> QED BY <2>3, <2>4, <2>5, <1>3
<1>5. n \in 0..n
  OBVIOUS
<1> HIDE DEF Good
<1>6. Good(n)
  BY <1>4, <1>5
<1> QED BY <1>1, <1>6 DEF Good

\* A sequence of all of a set has each once.
LEMMA SequenceOfAll ==
  ASSUME NEW S, IsFiniteSet(S), NEW s \in SetToSeqs(S)
  PROVE  /\ Cardinality(S) \in Nat /\ DOMAIN s = 1..Cardinality(S) /\ s \in Seq(S) /\ Len(s) = Cardinality(S)
         /\ \A i, j \in 1..Cardinality(S) : s[i] = s[j] => i = j
         /\ \A x : x \in S <=> \E i \in 1..Cardinality(S) : s[i] = x
<1> DEFINE N == Cardinality(S)
<1>1. N \in Nat
  BY FS_CardinalityType
<1>2. s \in [1..N -> S] /\ \A i, j \in 1..N : i # j => s[i] # s[j]
  BY DEF SetToSeqs
<1>3. s \in Injection(1..N, S)
  BY <1>2 DEF Injection, IsInjective
<1>4. IsFiniteSet(1..N) /\ Cardinality(1..N) = N
  BY <1>1, FS_Interval
<1>5. s \in Surjection(1..N, S)
  BY <1>3, <1>4, FS_Injection
<1>6. \A x \in S : \E i \in 1..N : s[i] = x
  BY <1>5 DEF Surjection
<1>7. s \in Seq(S) /\ Len(s) = N
  BY <1>1, <1>2, SeqOfFunction
<1> QED BY <1>1, <1>2, <1>6, <1>7

LEMMA KeysAreFinite == ASSUME NEW K \in SUBSET Keys PROVE IsFiniteSet(K)
<1>1. IsFiniteSet(BOOLEAN)
  <2>1. IsFiniteSet({TRUE}) /\ IsFiniteSet({TRUE} \cup {FALSE})
    BY FS_Singleton, FS_AddElement
  <2>2. BOOLEAN = {TRUE} \cup {FALSE}
    OBVIOUS
  <2> QED BY <2>1, <2>2
<1>2. IsFiniteSet(Keys)
  BY <1>1, FS_Product, RowsAssumption DEF Keys, RowsAssumption
<1> QED BY <1>2, FS_Subset

\* The daemon's book, whose orders have a price and a volume.
BookOk == DOMAIN book \subseteq Keys /\ \A k \in DOMAIN book : book[k] \in Offers

\* An answer has each order of the book once.
LEMMA ReadFacts ==
  ASSUME BookOk
  PROVE  /\ \E D : Read(book) \subseteq Orders(D)
         /\ IsFiniteSet(Read(book)) /\ IsFiniteSet(DOMAIN book)
         /\ \A r \in Read(book) : r.uuid \in DOMAIN book
         /\ \A k \in DOMAIN book : \E r \in Read(book) : r.uuid = k
         /\ \A q, r \in Read(book) : q.uuid = r.uuid => q = r
<1> DEFINE all == MapThenSumSet(LAMBDA k : book[k].volume, DOMAIN book)
           f == [k \in DOMAIN book |-> Content(k, book[k], all)]
<1>1. Read(book) = {Content(k, book[k], all) : k \in DOMAIN book}
  BY Zenon DEF Read
<1> HIDE DEF all
<1>2. ASSUME NEW k \in DOMAIN book
      PROVE  Content(k, book[k], all) \in Orders(Volumes \X {all}) /\ Content(k, book[k], all).uuid = k
  <2>1. k \in Keys /\ book[k].price \in OrderPrices /\ book[k].volume \in Volumes
    BY DEF BookOk, Offers
  <2>2. book[k].price[1] \in Nat /\ book[k].price[2] \in Nat
    BY <2>1, RowsAssumption DEF RowsAssumption
  <2> QED BY <2>1, <2>2 DEF Content, Orders
<1>3. Read(book) \subseteq Orders(Volumes \X {all})
  BY <1>1, <1>2
<1>4. IsFiniteSet(DOMAIN book)
  BY KeysAreFinite DEF BookOk
<1>5. f \in Surjection(DOMAIN book, Read(book))
  BY <1>1 DEF Surjection
<1>6. IsFiniteSet(Read(book))
  <2> HIDE DEF f
  <2> QED BY <1>4, <1>5, FS_Surjection
<1> QED BY <1>1, <1>2, <1>3, <1>4, <1>6

LEMMA WiderDepths ==
  ASSUME NEW D, NEW E, D \subseteq E
  PROVE  Orders(D) \subseteq Orders(E) /\ Picks(D) \subseteq Picks(E) /\ Models(D) \subseteq Models(E)
<1>1. Orders(D) \subseteq Orders(E)
  BY DEF Orders
<1>2. Picks(D) \subseteq Picks(E)
  BY <1>1 DEF Picks
<1>3. ASSUME NEW s \in Seq(Orders(D)) PROVE s \in Seq(Orders(E))
  <2>1. Len(s) \in Nat /\ DOMAIN s = 1..Len(s) /\ s \in [1..Len(s) -> Orders(D)]
    BY LenProperties, ElementOfSeq
  <2>2. s \in [1..Len(s) -> Orders(E)]
    BY <1>1, <2>1
  <2> QED BY <2>1, <2>2, SeqOfFunction
<1> QED BY <1>1, <1>2, <1>3 DEF Models

-----------------------------------------------------------------------------
(* The rows of an orderbook: the steps.                                    *)

Now == Model(TRUE)

RowsInv ==
  /\ BookOk /\ changes \in 0..MaxChanges
  /\ \E D : Now \in Models(D) /\ lastRead \subseteq Orders(D)
  /\ InOrder(Now) /\ RowsAreTheAnswer

LEMMA RowsStart == RowsInit => RowsInv
<1> SUFFICES ASSUME RowsInit PROVE RowsInv
  OBVIOUS
<1>1. /\ book = << >> /\ rows = << >> /\ orderIds = {} /\ picked = NotPicked
      /\ orderStatus = "None" /\ lastRead = {} /\ mistaken = {} /\ changes = 0
  BY DEF RowsInit
<1>2. Len(rows) = 0 /\ DOMAIN rows = {} /\ Range(rows) = {} /\ rows \in Seq(Orders({}))
  BY <1>1, EmptySeq DEF Range
<1>3. Now \in Models({}) /\ lastRead \subseteq Orders({})
  BY <1>1, <1>2 DEF Now, Model, Models, Picks, OrderStatuses
<1>4. BookOk
  <2>1. DOMAIN book = {}
    BY <1>1, EmptySeq
  <2> QED BY <2>1 DEF BookOk
<1>5. InOrder(Now)
  <2>1. Now.rows = rows /\ Now.orderIds = orderIds /\ Now.picked = NotPicked
    BY <1>1 DEF Now, Model
  <2>2. Distinct(Now)
    BY <1>2, <2>1 DEF Distinct
  <2>3. Registered(Now.rows) = {} /\ Now.orderIds = {}
    BY <1>1, <1>2, <2>1 DEF Registered
  <2> QED BY <2>1, <2>2, <2>3 DEF InOrder, Told, Agrees
<1>6. RowsAreTheAnswer
  BY <1>1, <1>2 DEF RowsAreTheAnswer
<1>7. changes \in 0..MaxChanges
  BY <1>1, RowsAssumption DEF RowsAssumption
<1> QED BY <1>3, <1>4, <1>5, <1>6, <1>7 DEF RowsInv

LEMMA NowIs ==
  /\ Now.rows = rows /\ Now.orderIds = orderIds /\ Now.picked = picked /\ Now.status = orderStatus
  /\ Now.mistaken = mistaken
  /\ (Now.rows = rows /\ Now.orderIds = orderIds /\ Now.picked = picked /\ Now.status = orderStatus)'
  /\ (Now.mistaken = mistaken)'
  BY DEF Now, Model

\* What a later state of the rows and of the answer has to satisfy.
LEMMA RowsInvAgain ==
  ASSUME BookOk', changes' \in 0..MaxChanges, NEW D, NEW m \in Models(D), lastRead' \subseteq Orders(D),
         InOrder(m), worse' = worse, RowsAreTheAnswer',
         rows' = m.rows, orderIds' = m.orderIds, picked' = m.picked, orderStatus' = m.status, mistaken' = m.mistaken
  PROVE  RowsInv'
<1>1. Now' \in Models(D)
  BY DEF Now, Model, Models
<1>2. (Distinct(Now) /\ Agrees(Now))'
  <2>1. Distinct(m) /\ Agrees(m)
    BY DEF InOrder
  <2>2. Now'.rows = m.rows /\ Now'.orderIds = m.orderIds /\ Now'.mistaken = m.mistaken
    BY NowIs
  <2> QED BY <2>1, <2>2 DEF Distinct, Agrees, Registered
<1>3. Told(Now)'
  <2>1. Told(m)
    BY DEF InOrder
  <2>2. /\ Now'.rows = m.rows /\ Now'.picked = m.picked /\ Now'.status = m.status /\ Now'.mistaken = m.mistaken
    BY NowIs
  <2> QED BY <2>1, <2>2 DEF Told, Better
<1>4. InOrder(Now)'
  BY <1>2, <1>3 DEF InOrder
<1> QED BY <1>1, <1>4 DEF RowsInv

LEMMA BookChangeKeeps ==
  ASSUME RowsInv, NEW b, BookChanges(b), DOMAIN b \subseteq Keys, \A k \in DOMAIN b : b[k] \in Offers
  PROVE  RowsInv'
<1>1. /\ book' = b /\ changes < MaxChanges /\ changes' = changes + 1
      /\ UNCHANGED <<rows, orderIds, picked, orderStatus, lastRead, worse, mistaken>>
  BY DEF BookChanges
<1>2. BookOk'
  BY <1>1 DEF BookOk
<1>3. changes' \in 0..MaxChanges
  BY <1>1, RowsAssumption DEF RowsInv, RowsAssumption
<1>4. RowsAreTheAnswer'
  BY <1>1 DEF RowsInv, RowsAreTheAnswer, Clear
<1>5. PICK D : Now \in Models(D) /\ lastRead \subseteq Orders(D)
  BY DEF RowsInv
<1>6. InOrder(Now)
  BY DEF RowsInv
<1> QED BY <1>1, <1>2, <1>3, <1>4, <1>5, <1>6, NowIs, RowsInvAgain

LEMMA WithoutIs ==
  ASSUME BookOk, NEW u
  PROVE  DOMAIN Without(u) \subseteq Keys /\ \A k \in DOMAIN Without(u) : Without(u)[k] \in Offers
  BY DEF BookOk, Without, Restrict

LEMMA OfferedKeeps ==
  ASSUME RowsInv, NEW u \in Uuids, NEW forms \in {{FALSE}, BOOLEAN}, NEW p \in OrderPrices, NEW v \in Volumes,
         OrderOffered(u, forms, p, v)
  PROVE  RowsInv'
<1> DEFINE b == [k \in ({u} \X forms) \cup DOMAIN Without(u) |->
                   IF k[1] = u THEN [price |-> p, volume |-> v] ELSE book[k]]
<1>1. DOMAIN Without(u) \subseteq Keys /\ \A k \in DOMAIN Without(u) : k \in DOMAIN book
  BY DEF RowsInv, BookOk, Without, Restrict
<1>2. {u} \X forms \subseteq Keys /\ \A k \in {u} \X forms : k[1] = u
  BY DEF Keys
<1>3. [price |-> p, volume |-> v] \in Offers
  BY DEF Offers
<1>4. DOMAIN b \subseteq Keys /\ \A k \in DOMAIN b : b[k] \in Offers
  BY <1>1, <1>2, <1>3 DEF RowsInv, BookOk
<1>5. BookChanges(b)
  BY DEF OrderOffered
<1> HIDE DEF b
<1> QED BY <1>4, <1>5, BookChangeKeeps

LEMMA CancelledKeeps == ASSUME RowsInv, NEW u, OrderCancelled(u) PROVE RowsInv'
<1>1. BookChanges(Without(u))
  BY DEF OrderCancelled
<1>2. DOMAIN Without(u) \subseteq Keys /\ \A k \in DOMAIN Without(u) : Without(u)[k] \in Offers
  BY WithoutIs DEF RowsInv
<1> QED BY <1>1, <1>2, BookChangeKeeps

LEMMA RefreshKeeps == ASSUME RowsInv, Refresh PROVE RowsInv'
<1>1. PICK answer \in SetToSeqs(Read(book)), gone \in SetToSeqs(orderIds \ DOMAIN book), takes \in BOOLEAN :
        /\ rows' = RefreshRows(Model(takes), answer, gone).rows
        /\ orderIds' = RefreshRows(Model(takes), answer, gone).orderIds
        /\ picked' = RefreshRows(Model(takes), answer, gone).picked
        /\ orderStatus' = RefreshRows(Model(takes), answer, gone).status
        /\ mistaken' = RefreshRows(Model(takes), answer, gone).mistaken
        /\ lastRead' = Read(book) /\ UNCHANGED <<book, worse, changes>>
  BY Zenon DEF Refresh
<1> DEFINE m == Model(takes)
           t == Treated(m, answer)
           z == Removed(t, gone)
<1>2. RefreshRows(m, answer, gone) = z
  BY Zenon DEF RefreshRows, Treated, Removed
<1>3. PICK E : Now \in Models(E) /\ lastRead \subseteq Orders(E)
  BY DEF RowsInv
<1>4. BookOk
  BY DEF RowsInv
<1>5. PICK F : Read(book) \subseteq Orders(F)
  BY <1>4, ReadFacts
<1> DEFINE D == E \cup F
<1>6. Now \in Models(D) /\ Read(book) \subseteq Orders(D)
  <2>1. E \subseteq D /\ F \subseteq D
    OBVIOUS
  <2> HIDE DEF D
  <2>2. Now \in Models(D)
    BY <1>3, <2>1, WiderDepths
  <2>3. Read(book) \subseteq Orders(D)
    BY <1>5, <2>1, WiderDepths
  <2> QED BY <2>2, <2>3
<1> HIDE DEF D
<1>7. m \in Models(D) /\ InOrder(m) /\ m.rows = rows /\ m.orderIds = orderIds
  <2>1. m \in Models(D)
    BY <1>6 DEF Now, Model, Models
  <2>2. m.rows = Now.rows /\ m.orderIds = Now.orderIds /\ m.picked = Now.picked /\ m.status = Now.status
        /\ m.mistaken = Now.mistaken /\ m.rows = rows /\ m.orderIds = orderIds
    BY DEF Now, Model
  <2> HIDE DEF m
  <2>3. InOrder(Now)
    BY DEF RowsInv
  <2> QED BY <2>1, <2>2, <2>3 DEF InOrder, Distinct, Agrees, Told, Better
<1> HIDE DEF m
<1> DEFINE n == Cardinality(Read(book))
<1>8. /\ n \in Nat /\ DOMAIN answer = 1..n
      /\ \A i, j \in 1..n : answer[i] = answer[j] => i = j
      /\ \A x : x \in Read(book) <=> \E i \in 1..n : answer[i] = x
  <2>1. IsFiniteSet(Read(book))
    BY <1>4, ReadFacts
  <2> QED BY <2>1, SequenceOfAll
<1> HIDE DEF n
<1>9. /\ \A i \in 1..n : answer[i] \in Orders(D)
      /\ \A i, j \in 1..n : answer[i].uuid = answer[j].uuid => i = j
      /\ {answer[i].uuid : i \in 1..n} = DOMAIN book
  <2>1. \A i \in 1..n : answer[i] \in Read(book)
    BY <1>8
  <2>2. \A i, j \in 1..n : answer[i].uuid = answer[j].uuid => answer[i] = answer[j]
    BY <2>1, <1>4, ReadFacts
  <2>3. {answer[i].uuid : i \in 1..n} \subseteq DOMAIN book
    BY <2>1, <1>4, ReadFacts
  <2>4. ASSUME NEW k \in DOMAIN book PROVE \E i \in 1..n : answer[i].uuid = k
    <3>1. PICK r \in Read(book) : r.uuid = k
      BY <1>4, ReadFacts
    <3> QED BY <3>1, <1>8
  <2>5. {answer[i].uuid : i \in 1..n} = DOMAIN book
    BY <2>3, <2>4
  <2>6. \A i \in 1..n : answer[i] \in Orders(D)
    BY <2>1, <1>6
  <2> QED BY <2>2, <2>5, <2>6, <1>8
<1>10. /\ t \in Models(D) /\ InOrder(t) /\ t.orderIds = orderIds \cup DOMAIN book
       /\ \A r \in Range(t.rows), i \in 1..n :
            r.uuid = answer[i].uuid /\ r.uuid[1] \notin t.mistaken => Shown(r) = Shown(answer[i])
  <2>1. /\ t \in Models(D) /\ InOrder(t) /\ t.orderIds = m.orderIds \cup {answer[i].uuid : i \in 1..n}
        /\ \A r \in Range(t.rows), i \in 1..n :
             r.uuid = answer[i].uuid /\ r.uuid[1] \notin t.mistaken => Shown(r) = Shown(answer[i])
    BY <1>7, <1>8, <1>9, AllTreated
  <2> QED BY <2>1, <1>7, <1>9
<1> HIDE DEF t
<1> DEFINE whole == orderIds \ DOMAIN book
           g == Cardinality(whole)
<1>11. /\ g \in Nat /\ DOMAIN gone = 1..g /\ \A i, j \in 1..g : gone[i] = gone[j] => i = j
       /\ \A x : x \in whole <=> \E i \in 1..g : gone[i] = x
  <2>1. orderIds \in SUBSET Keys
    BY <1>7 DEF Models
  <2>2. IsFiniteSet(whole)
    BY <2>1, KeysAreFinite
  <2>3. gone \in SetToSeqs(whole)
    OBVIOUS
  <2> HIDE DEF whole
  <2> QED BY <2>2, <2>3, SequenceOfAll
<1> HIDE DEF g
<1>12. /\ z \in Models(D) /\ InOrder(z) /\ t.mistaken \subseteq z.mistaken /\ Range(z.rows) \subseteq Range(t.rows)
       /\ \A key \in Keys : key[1] \notin z.mistaken => (key \in z.orderIds <=> key \in DOMAIN book)
  <2>1. \A i \in 1..g : gone[i] \in Keys
    <3>1. orderIds \in SUBSET Keys
      BY <1>7 DEF Models
    <3> QED BY <3>1, <1>11
  <2>2. /\ z \in Models(D) /\ InOrder(z) /\ t.mistaken \subseteq z.mistaken /\ Range(z.rows) \subseteq Range(t.rows)
        /\ \A key \in Keys : key[1] \notin z.mistaken =>
             (key \in z.orderIds <=> key \in t.orderIds \ {gone[i] : i \in 1..g})
    BY <1>10, <1>11, <2>1, AllRemoved
  <2>3. {gone[i] : i \in 1..g} = whole
    BY <1>11
  <2>4. t.orderIds \ whole = DOMAIN book
    BY <1>10
  <2> QED BY <2>2, <2>3, <2>4
<1> HIDE DEF z
<1>13. {Shown(r) : r \in {q \in Range(z.rows) : q.uuid[1] \notin z.mistaken}} =
       {Shown(r) : r \in {q \in Read(book) : q.uuid[1] \notin z.mistaken}}
  <2>1. z.rows \in Seq(Orders(D))
    BY <1>12 DEF Models
  <2>2. \A r \in Range(z.rows) : r \in Orders(D) /\ r.uuid \in Keys
    BY <2>1, SeqFacts, RowFacts
  <2>3. \A key \in Keys : key[1] \notin z.mistaken => (key \in Registered(z.rows) <=> key \in DOMAIN book)
    BY <1>12 DEF InOrder, Agrees
  <2>4. ASSUME NEW r \in Range(z.rows), r.uuid[1] \notin z.mistaken
        PROVE  \E q \in Read(book) : q.uuid = r.uuid /\ Shown(r) = Shown(q)
    <3>1. r.uuid \in DOMAIN book
      BY <2>2, <2>3, <2>4 DEF Registered
    <3>2. PICK i \in 1..n : answer[i].uuid = r.uuid
      BY <3>1, <1>9
    <3>3. Shown(r) = Shown(answer[i]) /\ answer[i] \in Read(book)
      BY <2>4, <3>2, <1>8, <1>10, <1>12
    <3> QED BY <3>2, <3>3
  <2>5. ASSUME NEW q \in Read(book), q.uuid[1] \notin z.mistaken
        PROVE  \E r \in Range(z.rows) : r.uuid = q.uuid /\ Shown(r) = Shown(q)
    <3>1. PICK i \in 1..n : answer[i] = q
      BY <1>8
    <3>2. q.uuid \in DOMAIN book /\ q.uuid \in Keys
      BY <1>4, ReadFacts DEF BookOk
    <3>3. PICK r \in Range(z.rows) : r.uuid = q.uuid
      BY <2>3, <2>5, <3>2 DEF Registered
    <3>4. r.uuid[1] \notin t.mistaken /\ r \in Range(t.rows)
      BY <2>5, <3>3, <1>12
    <3> QED BY <3>1, <3>3, <3>4, <1>10
  <2> QED BY <2>4, <2>5
<1>14. RowsAreTheAnswer'
  BY <1>1, <1>2, <1>13 DEF RowsAreTheAnswer, Clear, m
<1>15. /\ rows' = z.rows /\ orderIds' = z.orderIds /\ picked' = z.picked /\ orderStatus' = z.status
       /\ mistaken' = z.mistaken
       /\ lastRead' = Read(book) /\ worse' = worse /\ BookOk' /\ changes' \in 0..MaxChanges
  BY <1>1, <1>2 DEF m, RowsInv, BookOk
<1> QED BY <1>6, <1>12, <1>14, <1>15, RowsInvAgain

LEMMA ResetKeeps == ASSUME RowsInv, Reset PROVE RowsInv'
<1>1. PICK answer \in SetToSeqs(Read(book)) :
        /\ rows' = answer /\ orderIds' = Registered(answer)
        /\ picked' = NotPicked /\ orderStatus' = "None"
        /\ lastRead' = Read(book) /\ mistaken' = {} /\ UNCHANGED <<book, changes>>
  BY DEF Reset
<1>2. BookOk /\ BookOk' /\ changes' \in 0..MaxChanges
  BY <1>1 DEF RowsInv, BookOk
<1>3. PICK D : Read(book) \subseteq Orders(D)
  BY <1>2, ReadFacts
<1> DEFINE n == Cardinality(Read(book))
<1>4. /\ n \in Nat /\ answer \in Seq(Read(book)) /\ Len(answer) = n
      /\ \A i, j \in 1..n : answer[i] = answer[j] => i = j
      /\ \A x : x \in Read(book) <=> \E i \in 1..n : answer[i] = x
  <2>1. IsFiniteSet(Read(book))
    BY <1>2, ReadFacts
  <2> QED BY <2>1, SequenceOfAll
<1> HIDE DEF n
<1>5. Range(answer) = Read(book)
  <2>1. Range(answer) = {answer[i] : i \in 1..n}
    BY <1>4, SeqFacts
  <2> QED BY <2>1, <1>4
<1>6. answer \in Seq(Orders(D))
  <2>1. answer \in [1..n -> Orders(D)]
    <3>1. DOMAIN answer = 1..n /\ \A i \in 1..n : answer[i] \in Read(book)
      BY <1>4, SeqFacts
    <3>2. answer = [i \in 1..n |-> answer[i]]
      BY <1>4, SeqDef, <3>1
    <3> QED BY <3>1, <3>2, <1>3
  <2> QED BY <2>1, <1>4, SeqOfFunction
<1>7. Now' \in Models(D)
  <2>1. Registered(answer) \in SUBSET Keys
    <3>1. \A r \in Range(answer) : r \in Orders(D)
      BY <1>3, <1>5
    <3> QED BY <3>1 DEF Registered, Orders
  <2> QED BY <1>1, <1>6, <2>1 DEF Now, Model, Models, Picks, OrderStatuses
<1>8. Distinct(Now)'
  <2> SUFFICES ASSUME NEW i \in 1..n, NEW j \in 1..n, answer[i].uuid = answer[j].uuid PROVE i = j
    BY <1>1, <1>4, NowIs DEF Distinct
  <2>1. answer[i] \in Read(book) /\ answer[j] \in Read(book)
    BY <1>4
  <2>2. answer[i] = answer[j]
    BY <2>1, <1>2, ReadFacts
  <2> QED BY <2>2, <1>4
<1>9. InOrder(Now)'
  <2>1. Told(Now)'
    BY <1>1, NowIs DEF Told
  <2>2. Agrees(Now)'
    BY <1>1, NowIs DEF Agrees, Registered
  <2> QED BY <2>1, <2>2, <1>8 DEF InOrder
<1>10. RowsAreTheAnswer'
  BY <1>1, <1>5 DEF RowsAreTheAnswer, Clear
<1> QED BY <1>1, <1>2, <1>3, <1>7, <1>9, <1>10 DEF RowsInv

LEMMA NoneIsLower == ASSUME NEW p \in OrderPrices PROVE ~Lower(p, p)
<1>1. p[1] \in Nat /\ p[2] \in Nat
  BY RowsAssumption DEF RowsAssumption
<1>2. p[1] * p[2] \in Nat
  BY <1>1
<1> QED BY <1>2 DEF Lower

LEMMA PickKeeps == ASSUME RowsInv, NEW i \in DOMAIN rows, Pick(rows[i]) PROVE RowsInv'
<1> DEFINE row == rows[i]
<1>1. /\ picked' = DataOf(row) /\ worse' = (\E r \in Range(rows) : Lower(row.price, r.price))
      /\ UNCHANGED <<book, rows, orderIds, orderStatus, lastRead, mistaken, changes>>
  BY DEF Pick
<1>2. PICK D : Now \in Models(D) /\ lastRead \subseteq Orders(D)
  BY DEF RowsInv
<1>3. /\ rows \in Seq(Orders(D)) /\ orderIds \in SUBSET Keys /\ orderStatus \in OrderStatuses
      /\ mistaken \in SUBSET Uuids
  BY <1>2, NowIs DEF Models
<1>4. /\ Len(rows) \in Nat /\ DOMAIN rows = 1..Len(rows) /\ Range(rows) = {rows[k] : k \in 1..Len(rows)}
      /\ row \in Orders(D) /\ \A k \in 1..Len(rows) : rows[k] \in Orders(D)
  BY <1>3, SeqFacts
<1> HIDE DEF row
<1>5. DataOf(row) \in Picks(D) /\ DataOf(row).price = row.price /\ DataOf(row).uuid = row.uuid
      /\ row.price \in OrderPrices
  BY <1>4, RowFacts
<1>6. Now' \in Models(D)
  BY <1>1, <1>3, <1>5 DEF Now, Model, Models
<1>7. /\ \A k, l \in 1..Len(rows) : rows[k].uuid = rows[l].uuid /\ rows[k].uuid[1] \notin mistaken => k = l
      /\ Distinct(Now) /\ Agrees(Now)
  <2>1. Distinct(Now) /\ Agrees(Now)
    BY DEF RowsInv, InOrder
  <2> QED BY <2>1, NowIs DEF Distinct
<1>8. ASSUME NEW r \in Range(rows), Lower(row.price, r.price) PROVE worse' /\ (r.uuid # row.uuid \/ r.uuid[1] \in mistaken)
  <2>1. worse'
    BY <1>1, <1>8
  <2>2. ASSUME r.uuid = row.uuid, r.uuid[1] \notin mistaken PROVE FALSE
    <3>1. PICK k \in 1..Len(rows) : r = rows[k]
      BY <1>4
    <3>2. k = i
      BY <2>2, <3>1, <1>4, <1>7 DEF row
    <3>3. r = row
      BY <3>1, <3>2 DEF row
    <3> QED BY <3>3, <1>5, <1>8, NoneIsLower
  <2> QED BY <2>1, <2>2
<1>9. Told(Now)'
  <2>1. /\ Now'.rows = rows /\ Now'.picked.price = row.price /\ Now'.picked.uuid = row.uuid
        /\ Now'.mistaken = mistaken
    BY <1>1, <1>5, NowIs
  <2>2. \A r \in Range(Now'.rows) : Lower(Now'.picked.price, r.price) => worse' /\ (r.uuid # Now'.picked.uuid \/ r.uuid[1] \in Now'.mistaken)
    BY <1>8, <2>1
  <2> QED BY <2>2 DEF Told, Better
<1>10. InOrder(Now)'
  <2>1. Now'.rows = Now.rows /\ Now'.orderIds = Now.orderIds /\ Now'.mistaken = Now.mistaken
    BY <1>1, NowIs
  <2>2. (Distinct(Now) /\ Agrees(Now))'
    BY <1>7, <2>1 DEF Distinct, Agrees, Registered
  <2> QED BY <2>2, <1>9 DEF InOrder
<1>11. RowsAreTheAnswer' /\ BookOk' /\ changes' \in 0..MaxChanges
  BY <1>1 DEF RowsInv, RowsAreTheAnswer, Clear, BookOk
<1> QED BY <1>1, <1>2, <1>6, <1>10, <1>11 DEF RowsInv

LEMMA ResetOrderKeeps == ASSUME RowsInv, ResetOrder PROVE RowsInv'
<1>1. /\ picked' = NotPicked /\ orderStatus' = "None"
      /\ UNCHANGED <<book, rows, orderIds, lastRead, mistaken, changes>>
  BY DEF ResetOrder
<1>2. PICK D : Now \in Models(D) /\ lastRead \subseteq Orders(D)
  BY DEF RowsInv
<1>3. rows \in Seq(Orders(D)) /\ orderIds \in SUBSET Keys /\ mistaken \in SUBSET Uuids
  BY <1>2, NowIs DEF Models
<1>4. Now' \in Models(D)
  BY <1>1, <1>3 DEF Now, Model, Models, Picks, OrderStatuses
<1>5. (Distinct(Now) /\ Agrees(Now))'
  <2>1. Distinct(Now) /\ Agrees(Now)
    BY DEF RowsInv, InOrder
  <2>2. Now'.rows = Now.rows /\ Now'.orderIds = Now.orderIds /\ Now'.mistaken = Now.mistaken
    BY <1>1, NowIs
  <2> QED BY <2>1, <2>2 DEF Distinct, Agrees, Registered
<1>6. Told(Now)'
  BY <1>1, NowIs DEF Told
<1>7. InOrder(Now)'
  BY <1>5, <1>6 DEF InOrder
<1>8. RowsAreTheAnswer' /\ BookOk' /\ changes' \in 0..MaxChanges
  BY <1>1 DEF RowsInv, RowsAreTheAnswer, Clear, BookOk
<1> QED BY <1>1, <1>2, <1>4, <1>7, <1>8 DEF RowsInv

LEMMA RowsStep == RowsInv /\ [RowsNext]_rowVars => RowsInv'
<1> SUFFICES ASSUME RowsInv, [RowsNext]_rowVars PROVE RowsInv'
  OBVIOUS
<1>1. ASSUME NEW u \in Uuids, OrderCancelled(u) PROVE RowsInv'
  BY <1>1, CancelledKeeps
<1>2. ASSUME NEW u \in Uuids, NEW forms \in {{FALSE}, BOOLEAN}, NEW p \in OrderPrices, NEW v \in Volumes,
             OrderOffered(u, forms, p, v)
      PROVE  RowsInv'
  BY <1>2, OfferedKeeps
<1>3. CASE Refresh
  BY <1>3, RefreshKeeps
<1>4. CASE Reset
  BY <1>4, ResetKeeps
<1>5. CASE ResetOrder
  BY <1>5, ResetOrderKeeps
<1>6. ASSUME NEW i \in DOMAIN rows, Pick(rows[i]) PROVE RowsInv'
  BY <1>6, PickKeeps
<1>7. CASE UNCHANGED rowVars
  <2>1. UNCHANGED <<book, rows, orderIds, picked, orderStatus, lastRead, worse, mistaken, changes>>
    BY <1>7 DEF rowVars
  <2>2. Now' = Now
    BY <2>1 DEF Now, Model
  <2>3. InOrder(Now)'
    BY <2>1, <2>2 DEF RowsInv, InOrder, Distinct, Agrees, Registered, Told, Better
  <2> QED BY <2>1, <2>2, <2>3 DEF RowsInv, RowsAreTheAnswer, Clear, BookOk
<1> QED BY <1>1, <1>2, <1>3, <1>4, <1>5, <1>6, <1>7 DEF RowsNext

LEMMA RowsInvImplies == RowsInv => RowsAndStatusAgree
<1> SUFFICES ASSUME RowsInv PROVE RowsAndStatusAgree
  OBVIOUS
<1>1. PICK D : Now \in Models(D) /\ lastRead \subseteq Orders(D)
  BY DEF RowsInv
<1>2. /\ rows \in Seq(Orders(D)) /\ orderIds \in SUBSET Keys /\ orderStatus \in OrderStatuses
      /\ mistaken \in SUBSET Uuids
  BY <1>1, NowIs DEF Models
<1>3. /\ \A k, l \in 1..Len(rows) : rows[k].uuid = rows[l].uuid /\ rows[k].uuid[1] \notin mistaken => k = l
      /\ \A k \in Keys : k[1] \notin mistaken => (k \in orderIds <=> k \in Registered(rows))
      /\ Told(Now)
  <2>1. Distinct(Now) /\ Agrees(Now) /\ Told(Now)
    BY DEF RowsInv, InOrder
  <2> QED BY <2>1, NowIs DEF Distinct, Agrees
<1>4. /\ Len(rows) \in Nat /\ DOMAIN rows = 1..Len(rows) /\ Range(rows) = {rows[i] : i \in 1..Len(rows)}
      /\ \A i \in 1..Len(rows) : rows[i] \in Orders(D)
  BY <1>2, SeqFacts
<1>6. RowsTypeOK
  <2>1. \A r \in Range(rows) : r.uuid \in Uuids \X BOOLEAN /\ r.volume \in Volumes
    BY <1>4, RowFacts DEF Keys
  <2>2. \A k \in orderIds \cup Registered(rows) : Clear(k) => k \in orderIds /\ k \in Registered(rows)
    <3>1. orderIds \cup Registered(rows) \subseteq Keys
      BY <1>2, <2>1 DEF Keys, Registered
    <3> QED BY <3>1, <1>3 DEF Clear
  <2>3. \A i, j \in DOMAIN rows : rows[i].uuid = rows[j].uuid /\ Clear(rows[i].uuid) => i = j
    BY <1>3, <1>4 DEF Clear
  <2>4. changes \in 0..MaxChanges
    BY DEF RowsInv
  <2> QED BY <1>2, <2>1, <2>2, <2>3, <2>4 DEF RowsTypeOK, OrderStatuses
<1>7. BetterIsReported
  BY <1>3, NowIs DEF BetterIsReported, Told, Better
<1>8. GoneIsGone
  <2> SUFFICES ASSUME picked # NotPicked, orderStatus = "OrderNotExistingAnymore", NEW r \in lastRead, Clear(r.uuid)
               PROVE  /\ r.uuid = picked.uuid => ~Lower(picked.price, r.price)
                      /\ worse \/ ~Lower(picked.price, r.price)
    BY DEF GoneIsGone
  <2>1. PICK q \in Range(rows) : Shown(q) = Shown(r)
    <3>1. Shown(r) \in {Shown(x) : x \in {y \in Range(rows) : Clear(y.uuid)}}
      BY DEF RowsInv, RowsAreTheAnswer
    <3> QED BY <3>1
  <2>2. q \in Orders(D) /\ r \in Orders(D)
    BY <1>1, <1>4
  <2>3. \A x \in Orders(D) : Shown(x).uuid = x.uuid /\ Shown(x).price = x.price
    BY DEF Orders, Shown
  <2>4. q.uuid = r.uuid /\ q.price = r.price
    BY <2>1, <2>2, <2>3
  <2>5. ~Lower(picked.price, q.price) \/ (worse /\ (q.uuid # picked.uuid \/ q.uuid[1] \in mistaken))
    BY <1>3, NowIs DEF Told, Better
  <2> QED BY <2>4, <2>5 DEF Clear
<1> QED BY <1>6, <1>7, <1>8 DEF RowsAndStatusAgree, RowsInv

\* The rows are the last answer treated, each order once, and what is said of the
\* picked order is true of them: for any book, any order of the answer and of the
\* removals, and whatever was picked before (refresh_orderbook_model_data); but for
\* orders whose other form of address was found for them (Mistaken).
THEOREM RowsAndStatusAlwaysAgree == RowsSpec => []RowsAndStatusAgree
<1>1. RowsSpec => []RowsInv
  BY RowsStart, RowsStep, PTL DEF RowsSpec
<1> QED BY <1>1, RowsInvImplies, PTL
=============================================================================
