----------------------------- MODULE Addressbook ----------------------------
(***************************************************************************)
(* The address book of a wallet: addressbook_manager holds the contacts    *)
(* and writes them to the wallet's file, addressbook_model and one         *)
(* addressbook_contact_model per contact are what the screen shows and     *)
(* edits, and AddAddressForm has wallet_page ask the daemon whether an     *)
(* address is valid before it becomes an entry of the contact.             *)
(***************************************************************************)
EXTENDS Integers, FiniteSets, Sequences, SequencesExt

CONSTANTS
  ContactNames, AddressTypes, AddressKeys, AddressValues, Tags,
  ValidAddresses, \* the <<type, value>> the daemon calls valid
  MaxEdits        \* bound on what the user does

ASSUME AddressbookAssumption ==
  /\ AddressTypes # {} /\ "" \notin ContactNames \cup AddressKeys \cup AddressValues
  /\ ValidAddresses \subseteq AddressTypes \X AddressValues /\ MaxEdits \in Nat

VARIABLES
  contacts,  \* addressbook_model: the contact models, with an id of their own
  data,      \* addressbook_manager::m_data
  bookFile,  \* the file of the wallet
  editing,   \* EditContactModal is open on this row, 0 when closed
  form,      \* AddAddressForm
  sent,      \* the validation the daemon is asked for, or NoRequest
  validating,\* validate_address_busy
  touched,   \* history: the fields changed since the validation was asked for
  unsaved,   \* history: the contacts whose updates were cancelled
  collided,  \* history: a contact was given the name of another
  edits      \* bound, and source of the ids

bookVars == <<contacts, data, bookFile, editing, form, sent, validating, touched,
              unsaved, collided, edits>>

NoEntry   == [type |-> "", key |-> "", value |-> "", by |-> 0, checked |-> FALSE, late |-> FALSE]
NoRequest == <<"", "">>
\* The form as onVisibleChanged leaves it; the list of types keeps its place.
Blank(type) == [open |-> FALSE, edited |-> NoEntry, type |-> type, key |-> "", value |-> ""]

-----------------------------------------------------------------------------
\* addressbook_manager works on the first contact that has the name.
FirstIn(book, name) == SelectInSeq(book, LAMBDA c : c.name = name)
First(name) == FirstIn(data, name)
has_contact(name) == First(name) # 0

\* AddressTypeAndKeyRole: the two strings put together tell entries apart.
EntryId(type, key) == type \o key
Matching(entries, type, key) == {e \in entries : EntryId(e.type, e.key) = EntryId(type, key)}

BookInit ==
  /\ contacts = << >> /\ data = << >> /\ bookFile = << >>
  /\ editing = 0 /\ form = Blank(CHOOSE t \in AddressTypes : TRUE)
  /\ sent = NoRequest /\ validating = FALSE /\ touched = FALSE
  /\ unsaved = {} /\ collided = FALSE /\ edits = 0

Edit == edits < MaxEdits /\ edits' = edits + 1

\* addressbook_manager: the contacts in memory, and the file written from them.
add_contact(name) == data' = Append(data, [name |-> name, entries |-> {}, tags |-> {}])
remove_contact(name) ==
  data' = IF has_contact(name) THEN RemoveAt(data, First(name)) ELSE data
save_configuration == bookFile' = data'

\* Seeded fault: a contact may be added under a name that is taken.
MutAddContact(name) ==
  /\ Edit /\ editing = 0
  /\ add_contact(name) /\ save_configuration
  /\ contacts' = Append(contacts, [id |-> edits', name |-> name, entries |-> {}, tags |-> {}])
  /\ editing' = Len(contacts')
  /\ UNCHANGED <<form, sent, validating, touched, unsaved, collided>>

\* addressbook_model::addContact; its popup then opens the edition of the contact.
addContact(name) ==
  /\ Edit /\ editing = 0 /\ ~has_contact(name)
  /\ add_contact(name) /\ save_configuration
  /\ contacts' = Append(contacts, [id |-> edits', name |-> name, entries |-> {}, tags |-> {}])
  /\ editing' = Len(contacts')
  /\ UNCHANGED <<form, sent, validating, touched, unsaved, collided>>

\* Seeded fault: the file is not written.
MutRemoveContact(i) ==
  /\ Edit /\ editing = 0
  /\ data' = RemoveAt(data, First(contacts[i].name))
  /\ contacts' = RemoveAt(contacts, i)
  /\ unsaved' = unsaved \ {contacts[i].id}
  /\ UNCHANGED <<bookFile, editing, form, sent, validating, touched, collided>>

\* addressbook_model::removeContact: the first of the name, in the file and on the screen.
removeContact(i) ==
  /\ Edit /\ editing = 0
  /\ LET name == contacts[i].name
         row  == FirstIn(contacts, name)
     IN  /\ remove_contact(name) /\ save_configuration
         /\ contacts' = RemoveAt(contacts, row)
         /\ unsaved' = unsaved \ {contacts[row].id}
  /\ UNCHANGED <<editing, form, sent, validating, touched, collided>>

OpenContact(i) ==
  /\ editing = 0 /\ editing' = i
  /\ UNCHANGED <<contacts, data, bookFile, form, sent, validating, touched, unsaved, collided, edits>>

-----------------------------------------------------------------------------
\* addCategory, removeCategory: on the screen only, until the contact is saved.
ToggleTag(tag) ==
  /\ Edit /\ editing # 0
  /\ contacts' = [contacts EXCEPT ![editing].tags = IF tag \in @ THEN @ \ {tag} ELSE @ \cup {tag}]
  /\ UNCHANGED <<data, bookFile, editing, form, sent, validating, touched, unsaved, collided>>

\* removeAddressEntry, by the cross of a row.
removeAddressEntry(e) ==
  /\ Edit /\ editing # 0 /\ ~form.open
  /\ contacts' = [contacts EXCEPT ![editing].entries = @ \ Matching(@, e.type, e.key)]
  /\ UNCHANGED <<data, bookFile, editing, form, sent, validating, touched, unsaved, collided>>

\* "+ Add Address", or "Edit" on an entry, which feeds the form with it.
OpenForm(e) ==
  /\ editing # 0 /\ ~form.open
  /\ form' = [form EXCEPT !.open = TRUE, !.edited = e, !.key = e.key, !.value = e.value,
                          !.type = IF e = NoEntry THEN @ ELSE e.type]
  /\ touched' = (touched \/ validating)
  /\ UNCHANGED <<contacts, data, bookFile, editing, sent, validating, unsaved, collided, edits>>

\* The fields can be changed at any time, while the daemon is being asked too.
Fill(type, key, value) ==
  /\ Edit /\ form.open
  /\ form' = [form EXCEPT !.type = type, !.key = key, !.value = value]
  /\ touched' = (touched \/ validating)
  /\ UNCHANGED <<contacts, data, bookFile, editing, sent, validating, unsaved, collided>>

CancelForm ==
  /\ form.open /\ form' = Blank(form.type)
  /\ touched' = (touched \/ validating)
  /\ UNCHANGED <<contacts, data, bookFile, editing, sent, validating, unsaved, collided, edits>>

\* "Save" or "Update": wallet_page::validate_address.
validate_address ==
  /\ form.open /\ form.key # "" /\ form.value # "" /\ ~validating
  /\ validating' = TRUE /\ sent' = <<form.type, form.value>> /\ touched' = FALSE
  /\ UNCHANGED <<contacts, data, bookFile, editing, form, unsaved, collided, edits>>

\* An address typed in the send dialog is validated the same way, and its answer
\* is told to whoever listens when it comes.
SendDialogValidates(type, value) ==
  /\ Edit /\ editing = 0 /\ ~validating
  /\ validating' = TRUE /\ sent' = <<type, value>> /\ touched' = TRUE
  /\ UNCHANGED <<contacts, data, bookFile, editing, form, unsaved, collided>>

\* Seeded fault: an address the daemon refused is added all the same.
MutVerdictIgnored ==
  LET new == [type |-> form.type, key |-> form.key, value |-> form.value,
              by |-> contacts[editing].id, checked |-> sent = <<form.type, form.value>>,
              late |-> touched]
  IN  /\ validating /\ validating' = FALSE /\ sent' = NoRequest
      /\ IF editing # 0 /\ Matching(contacts[editing].entries, form.type, form.key) = {}
         THEN contacts' = [contacts EXCEPT ![editing].entries = @ \cup {new}]
         ELSE UNCHANGED contacts
      /\ UNCHANGED <<data, bookFile, editing, form, touched, unsaved, collided, edits>>

\* Seeded fault: an entry is added without a look at those there are.
MutVerdictDoubled ==
  LET new == [type |-> form.type, key |-> form.key, value |-> form.value,
              by |-> contacts[editing].id, checked |-> sent = <<form.type, form.value>>,
              late |-> touched]
  IN  /\ validating /\ validating' = FALSE /\ sent' = NoRequest
      /\ IF editing # 0 /\ sent \in ValidAddresses
         THEN contacts' = [contacts EXCEPT ![editing].entries = @ \cup {new}]
         ELSE UNCHANGED contacts
      /\ UNCHANGED <<data, bookFile, editing, form, touched, unsaved, collided, edits>>

\* The verdict: onValidateAddressBusyChanged of the form, shown or not, takes the
\* fields as they are now.  An edited entry is removed before the new one is added,
\* and the addition is refused when an entry has the same type and key.
Verdict ==
  LET valid == sent \in ValidAddresses
      left(entries) == entries \ (IF form.edited = NoEntry THEN {}
                                  ELSE Matching(entries, form.edited.type, form.edited.key))
      free == Matching(left(contacts[editing].entries), form.type, form.key) = {}
      new  == [type |-> form.type, key |-> form.key, value |-> form.value,
               by |-> contacts[editing].id, checked |-> sent = <<form.type, form.value>>,
               late |-> touched]
  IN  /\ validating /\ validating' = FALSE /\ sent' = NoRequest
      /\ IF valid /\ editing # 0
         THEN /\ contacts' = [contacts EXCEPT ![editing].entries =
                                left(@) \cup (IF free THEN {new} ELSE {})]
              /\ form' = IF free THEN Blank(form.type) ELSE form
         ELSE UNCHANGED <<contacts, form>>
      /\ UNCHANGED <<data, bookFile, editing, touched, unsaved, collided, edits>>

-----------------------------------------------------------------------------
\* set_name: the first contact of the old name is renamed, whatever the new one.
Renamed(from, to) == IF to \in {"", from} THEN data
                     ELSE [data EXCEPT ![First(from)].name = to]

\* remove_every_wallet_info, then set_contact_wallet_info for each entry.
WithEntries(contact, entries) == [contact EXCEPT !.entries = entries]

\* reset_contact_categories, then add_contact_category for each tag.
WithTags(contact, tags) == [contact EXCEPT !.tags = tags]

\* "Save Updates": set_name; save then rewrites the first contact of the name it has now.
SaveUpdates(name) ==
  LET row   == contacts[editing]
      now   == IF name = "" THEN row.name ELSE name
      named == Renamed(row.name, name)
      first == FirstIn(named, now)
  IN  /\ Edit /\ editing # 0
      /\ data' = [named EXCEPT ![first] = WithEntries(WithTags(named[first], row.tags), row.entries)]
      /\ save_configuration
      /\ contacts' = [contacts EXCEPT ![editing].name = now]
      /\ collided' = (collided \/ (now # row.name /\ has_contact(now)))
      /\ unsaved' = unsaved \ {row.id}
      /\ editing' = 0 /\ form' = Blank(form.type)
      /\ touched' = (touched \/ validating)
      /\ UNCHANGED <<sent, validating>>

\* "Cancel Updates" closes the dialog; nothing reloads the contact.
CancelUpdates ==
  /\ editing # 0 /\ editing' = 0 /\ form' = Blank(form.type)
  /\ unsaved' = unsaved \cup {contacts[editing].id}
  /\ touched' = (touched \/ validating)
  /\ UNCHANGED <<contacts, data, bookFile, sent, validating, collided, edits>>

\* addressbook_contact_model::populate: what is stored of the first that has the name.
Loaded(id, name, book) ==
  LET first == book[FirstIn(book, name)]
  IN  [id |-> id, name |-> name, entries |-> first.entries, tags |-> first.tags]

\* addressbook_model::populate: a model per contact.
Populated(book) ==
  [i \in DOMAIN book |->
     Loaded(IF i \in DOMAIN contacts THEN contacts[i].id ELSE MaxEdits, book[i].name, book)]

\* Leaving the wallet writes the file and forgets the models; coming back reads it
\* and builds the models anew.
Relogin ==
  /\ Edit /\ editing = 0 /\ ~validating
  /\ bookFile' = data /\ data' = bookFile'
  /\ contacts' = Populated(data')
  /\ unsaved' = {}
  /\ UNCHANGED <<editing, form, sent, validating, touched, collided>>

BookNext ==
  \/ \E n \in ContactNames : addContact(n)
  \/ \E i \in DOMAIN contacts : removeContact(i) \/ OpenContact(i)
  \/ \E t \in Tags : ToggleTag(t)
  \/ editing # 0 /\ \E e \in contacts[editing].entries : removeAddressEntry(e) \/ OpenForm(e)
  \/ OpenForm(NoEntry)
  \/ \E t \in AddressTypes, k \in AddressKeys, v \in AddressValues : Fill(t, k, v)
  \/ CancelForm \/ validate_address \/ Verdict
  \/ \E t \in AddressTypes, v \in AddressValues : SendDialogValidates(t, v)
  \/ \E n \in ContactNames \cup {""} : SaveUpdates(n)
  \/ CancelUpdates \/ Relogin

BookSpec == BookInit /\ [][BookNext]_bookVars

-----------------------------------------------------------------------------
Entries == [type : AddressTypes, key : AddressKeys \cup {""}, value : AddressValues \cup {""},
            by : 1..MaxEdits, checked : BOOLEAN, late : BOOLEAN]

IsStored(c) == c.name \in ContactNames /\ c.entries \subseteq Entries /\ c.tags \subseteq Tags

\* Type invariant of the address book.
BookTypeOK ==
  /\ \A i \in DOMAIN data : IsStored(data[i])
  /\ \A i \in DOMAIN contacts : IsStored(contacts[i])
  /\ bookFile = data
  /\ editing \in 0..Len(contacts)
  /\ (form.open => editing # 0) /\ form.type \in AddressTypes
  /\ validating = (sent # NoRequest)

\* What the book holds under a contact was entered for that contact, and the screen
\* shows what is stored, as long as no contact was given the name of another and
\* but for a contact being edited or whose updates were cancelled.
EachContactHasItsOwn ==
  ~collided =>
    /\ Len(contacts) = Len(data)
    /\ \A i \in DOMAIN data :
         /\ data[i].name = contacts[i].name
         /\ \A e \in data[i].entries : e.by = contacts[i].id
         /\ editing # i /\ contacts[i].id \notin unsaved =>
              data[i].entries = contacts[i].entries /\ data[i].tags = contacts[i].tags
         /\ \A j \in DOMAIN data : data[j].name = data[i].name => j = i

\* Every entry was called valid by the daemon, for its type and as it stands, unless
\* the form was touched while the daemon was being asked.
EntriesWereValidated ==
  \A i \in DOMAIN contacts : \A e \in contacts[i].entries :
    IF e.checked THEN <<e.type, e.value>> \in ValidAddresses ELSE e.late

\* No two entries of a contact have the same type and key.
EntriesAreDistinct ==
  \A i \in DOMAIN contacts : \A e, f \in contacts[i].entries :
    EntryId(e.type, e.key) = EntryId(f.type, f.key) => e = f

\* The contacts of the addressbook manager are what was entered for them, validated
\* and without two entries of one key, in memory, on the screen and in the file.
ContactsAreKept ==
  BookTypeOK /\ EachContactHasItsOwn /\ EntriesWereValidated /\ EntriesAreDistinct
=============================================================================
