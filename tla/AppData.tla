------------------------------- MODULE AppData -------------------------------
(***************************************************************************)
(* Keychain, snippets and port forwards: one file with a list for each     *)
(* (app-client/src-tauri/src/commands/storage.rs), one hook that loads all *)
(* and saves one (app-client/src-ui/hooks/useAppDataStore.ts), and three   *)
(* pages that compute the list they save from what they show.  Commands    *)
(* run one after the other on the main thread; their answers reach the     *)
(* page in any order, and after it was left only the cache.  In a plain    *)
(* browser there is no backend and the cache is the store.                 *)
(***************************************************************************)
EXTENDS Naturals, Sequences, SequencesExt, FiniteSets

CONSTANTS
  Text,        \* what the user types into the form
  MaxEntries,  \* bound: entries created
  MaxActs,     \* bound: pages visited, and edits
  MaxCrashes,  \* bound: ends of the application
  None

\* The lists, each with its page.
Kind == {"keychain", "snippets", "forwards"}

AppDataAssumption ==
  /\ None \notin Kind
  /\ MaxEntries \in Nat /\ MaxActs \in Nat /\ MaxCrashes \in Nat

Id == 1..MaxEntries
Entry == [id : Id, text : Text, active : BOOLEAN]
Data == [Kind -> SUBSET Entry]
Empty == [k \in Kind |-> {}]

\* What an edit does to one entry, and the dialog an edit is made in.
Change ==
  [op : {"create", "edit", "delete", "toggle"}, entry : Entry]
Form == [op : {"create"}] \cup [op : {"edit"}, entry : Entry, hasty : BOOLEAN]

VARIABLES
  tauri,     \* whether there is a backend
  stored,    \* app-data.json
  queue,     \* the commands that wait for the main thread
  answers,   \* the answers on their way to the page
  page,      \* the list whose page is mounted, or None
  visit,     \* the number of the visit, which tells mounts of a page apart
  data,      \* the hook's state
  error,     \* whether the hook holds an error
  dialog,    \* the open dialog, or None
  cached,    \* memoryAppDataCache and its copy in localStorage
  acts, crashes, issued,  \* history: pages and edits, ends, identifiers given
  wanted,    \* history: the lists if each change had been made on the stored one
  hasty      \* history: the lists edited while the page was waiting or unloaded

vars == <<tauri, stored, queue, answers, page, visit, data, error, dialog, cached,
          acts, crashes, issued, wanted, hasty>>

ghosts == <<crashes, wanted>>

LoadCall == [cmd : {"load"}, visit : 1..MaxActs]
SaveCall ==
  [cmd : {"save"}, visit : 1..MaxActs, kind : Kind, list : SUBSET Entry, fits : BOOLEAN,
   change : Change]
Answers ==
  [ok : {TRUE}, cmd : {"load", "save"}, visit : 1..MaxActs, data : Data]
    \cup [ok : {FALSE}, cmd : {"load", "save"}, visit : 1..MaxActs]

TypeOK ==
  /\ tauri \in BOOLEAN
  /\ stored \in Data /\ data \in Data /\ cached \in Data /\ wanted \in Data
  /\ \A i \in DOMAIN queue : queue[i] \in LoadCall \cup SaveCall
  /\ \A i \in DOMAIN answers : answers[i] \in Answers
  /\ ~tauri => queue = <<>> /\ answers = <<>>
  /\ page \in Kind \cup {None}
  /\ visit \in 0..acts /\ acts \in 0..MaxActs /\ crashes \in 0..MaxCrashes
  /\ issued \in 0..MaxEntries
  /\ error \in BOOLEAN
  /\ dialog \in Form \cup {None}
  /\ dialog # None => page # None
  /\ hasty \subseteq Kind

-----------------------------------------------------------------------------
Init ==
  /\ tauri \in BOOLEAN
  /\ stored = Empty
  /\ queue = <<>>
  /\ answers = <<>>
  /\ page = None
  /\ visit = 0
  /\ data = Empty
  /\ error = FALSE
  /\ dialog = None
  /\ cached = Empty
  /\ acts = 0
  /\ crashes = 0
  /\ issued = 0
  /\ wanted = Empty
  /\ hasty = {}

\* The cache takes what was loaded or saved, in memory and in localStorage.
Remember(d) == cached' = d

Act ==
  /\ acts < MaxActs
  /\ acts' = acts + 1

\* The list a page computes from the one it shows: an edit puts in place of the
\* entry all that the form held.
Edited(ch, list) ==
  CASE ch.op = "create" -> list \cup {ch.entry}
    [] ch.op = "edit" -> {IF x.id = ch.entry.id THEN ch.entry ELSE x : x \in list}
    [] ch.op = "delete" -> {x \in list : x.id # ch.entry.id}
    [] OTHER -> {IF x.id = ch.entry.id THEN [x EXCEPT !.active = ~@] ELSE x : x \in list}

\* What the user asked for: an edit that types a new text does not touch the switch.
Meant(ch, list) ==
  IF ch.op = "edit"
  THEN {IF x.id = ch.entry.id THEN [x EXCEPT !.text = ch.entry.text] ELSE x : x \in list}
  ELSE Edited(ch, list)

\* Nothing this visit asked for is unanswered.
Waiting ==
  \/ \E i \in DOMAIN queue : queue[i].visit = visit
  \/ \E i \in DOMAIN answers : answers[i].visit = visit

\* The user has reason to believe that the page shows what is stored.
Calm == ~Waiting /\ ~error

(* The hook.                                                               *)

\* The effect of the first render: the cache is shown and the file is asked for.
Mount(k) ==
  /\ page = None
  /\ Act
  /\ page' = k
  /\ visit' = visit + 1
  /\ data' = cached
  /\ error' = FALSE
  /\ queue' = IF tauri THEN Append(queue, [cmd |-> "load", visit |-> visit + 1]) ELSE queue
  /\ UNCHANGED <<tauri, stored, answers, dialog, cached, issued, hasty, ghosts>>

\* A mutant: the dialog outlives its page.
UnmountKeepsDialog ==
  /\ page # None
  /\ page' = None
  /\ data' = Empty
  /\ error' = FALSE
  /\ UNCHANGED <<tauri, stored, queue, answers, visit, dialog, cached, acts, issued, hasty, ghosts>>

Unmount ==
  /\ page # None
  /\ page' = None
  /\ data' = Empty
  /\ error' = FALSE
  /\ dialog' = None
  /\ UNCHANGED <<tauri, stored, queue, answers, visit, cached, acts, issued, hasty, ghosts>>

\* The list goes to the backend, or with the hook's other lists to the cache.
SaveList(ch, fits) ==
  /\ IF tauri
     THEN /\ queue' = Append(queue,
               [cmd |-> "save", visit |-> visit, kind |-> page, list |-> Edited(ch, data[page]),
                fits |-> fits, change |-> ch])
          /\ UNCHANGED <<data, cached, error, wanted>>
     ELSE /\ data' = [data EXCEPT ![page] = Edited(ch, @)]
          /\ Remember(data')
          /\ error' = FALSE
          /\ wanted' = [wanted EXCEPT ![page] = Meant(ch, @)]
          /\ UNCHANGED queue
  /\ UNCHANGED <<tauri, stored, answers, page, visit, crashes>>

\* A mutant: the page keeps the state it had.
TakeSavedOnlyCaches(i) ==
  /\ answers[i].ok /\ answers[i].cmd = "save"
  /\ Remember(answers[i].data)
  /\ answers' = RemoveAt(answers, i)
  /\ UNCHANGED <<tauri, stored, queue, page, visit, data, error, dialog, acts, issued, hasty, ghosts>>

\* An answer of this visit becomes the state; that of an earlier one is cached.
TakeSaved(i) ==
  /\ answers[i].ok /\ answers[i].cmd = "save"
  /\ Remember(answers[i].data)
  /\ answers' = RemoveAt(answers, i)
  /\ IF page # None /\ answers[i].visit = visit
     THEN data' = answers[i].data /\ error' = FALSE
     ELSE UNCHANGED <<data, error>>
  /\ UNCHANGED <<tauri, stored, queue, page, visit, dialog, acts, issued, hasty, ghosts>>

\* A mutant: only the cache takes the answer.
TakeLoadedOnlyCaches(i) ==
  /\ answers[i].ok /\ answers[i].cmd = "load"
  /\ Remember(answers[i].data)
  /\ answers' = RemoveAt(answers, i)
  /\ UNCHANGED <<tauri, stored, queue, page, visit, data, error, dialog, acts, issued, hasty, ghosts>>

TakeLoaded(i) ==
  /\ answers[i].ok /\ answers[i].cmd = "load"
  /\ Remember(answers[i].data)
  /\ answers' = RemoveAt(answers, i)
  /\ IF page # None /\ answers[i].visit = visit
     THEN data' = answers[i].data
     ELSE UNCHANGED data
  /\ UNCHANGED <<tauri, stored, queue, page, visit, error, dialog, acts, issued, hasty, ghosts>>

\* Only a load that failed is told; nobody waits for the result of a save.
TakeRefusal(i) ==
  /\ ~answers[i].ok
  /\ error' = (error \/ (page # None /\ answers[i].visit = visit /\ answers[i].cmd = "load"))
  /\ answers' = RemoveAt(answers, i)
  /\ UNCHANGED <<tauri, stored, queue, page, visit, data, dialog, cached, acts, issued, hasty, ghosts>>

(* A page.                                                                 *)

Rushed == hasty' = IF Calm THEN hasty ELSE hasty \cup {page}

OpenCreate ==
  /\ page # None /\ dialog = None
  /\ dialog' = [op |-> "create"]
  /\ UNCHANGED <<tauri, stored, queue, answers, page, visit, data, error, cached, acts, issued,
                 hasty, ghosts>>

\* The form is a copy of the entry as it is shown now.
OpenEdit ==
  /\ page # None /\ dialog = None
  /\ \E x \in data[page] : dialog' = [op |-> "edit", entry |-> x, hasty |-> ~Calm]
  /\ UNCHANGED <<tauri, stored, queue, answers, page, visit, data, error, cached, acts, issued,
                 hasty, ghosts>>

Cancel ==
  /\ dialog # None
  /\ dialog' = None
  /\ UNCHANGED <<tauri, stored, queue, answers, page, visit, data, error, cached, acts, issued,
                 hasty, ghosts>>

\* The dialog closes at once, whatever becomes of the save.
SaveForm(fits) ==
  /\ dialog # None
  /\ Act
  /\ \E t \in Text :
       \/ /\ dialog.op = "create" /\ issued < MaxEntries
          /\ SaveList([op |-> "create",
                       entry |-> [id |-> issued + 1, text |-> t, active |-> TRUE]], fits)
          /\ issued' = issued + 1
          /\ Rushed
       \/ /\ dialog.op = "edit"
          /\ SaveList([op |-> "edit", entry |-> [dialog.entry EXCEPT !.text = t]], fits)
          /\ hasty' = IF Calm /\ ~dialog.hasty THEN hasty ELSE hasty \cup {page}
          /\ UNCHANGED issued
  /\ dialog' = None

SaveSnippet == page = "snippets" /\ SaveForm(TRUE)

SaveKey == page = "keychain" /\ SaveForm(TRUE)

\* A port that is no port is refused with the whole list.
SaveForward == page = "forwards" /\ \E fits \in BOOLEAN : SaveForm(fits)

Delete ==
  /\ page # None /\ dialog = None
  /\ Act
  /\ \E x \in data[page] : SaveList([op |-> "delete", entry |-> x], TRUE)
  /\ Rushed
  /\ UNCHANGED <<dialog, issued>>

\* Only a forward has a switch.
ToggleActive ==
  /\ page = "forwards" /\ dialog = None
  /\ Act
  /\ \E x \in data[page] : SaveList([op |-> "toggle", entry |-> x], TRUE)
  /\ Rushed
  /\ UNCHANGED <<dialog, issued>>

(* What the pages offer: the list, and over it the dialog.                 *)

ListActions == OpenCreate \/ OpenEdit \/ Delete

SnippetList == page = "snippets" /\ ListActions
SnippetDialog == page = "snippets" /\ (SaveSnippet \/ Cancel)

KeyList == page = "keychain" /\ ListActions
KeyDialog == page = "keychain" /\ (SaveKey \/ Cancel)

ForwardList == page = "forwards" /\ (ListActions \/ ToggleActive)
ForwardDialog == page = "forwards" /\ (SaveForward \/ Cancel)

(* The main thread.                                                        *)

Answered(answer) ==
  /\ answers' = Append(answers, answer)
  /\ queue' = Tail(queue)
  /\ UNCHANGED <<tauri, page, visit, data, error, dialog, cached, acts, crashes, issued, hasty>>

ServeLoad ==
  /\ queue # <<>> /\ Head(queue).cmd = "load"
  /\ Answered([ok |-> TRUE, cmd |-> "load", visit |-> Head(queue).visit, data |-> stored])
  /\ UNCHANGED <<stored, wanted>>

\* The file is read again, one list is replaced, and all of it is written.
ServeSave ==
  /\ queue # <<>> /\ Head(queue).cmd = "save"
  /\ LET r == Head(queue)
     IN  /\ r.fits
         /\ stored' = [stored EXCEPT ![r.kind] = r.list]
         /\ wanted' = [wanted EXCEPT ![r.kind] = Meant(r.change, @)]
         /\ Answered([ok |-> TRUE, cmd |-> "save", visit |-> r.visit, data |-> stored'])

\* The arguments do not parse, or the file cannot be read, parsed or replaced.
Refuse ==
  /\ queue # <<>>
  /\ Answered([ok |-> FALSE, cmd |-> Head(queue).cmd, visit |-> Head(queue).visit])
  /\ UNCHANGED <<stored, wanted>>

\* The application ends; the file and localStorage stay.
Crash ==
  /\ crashes < MaxCrashes
  /\ crashes' = crashes + 1
  /\ queue' = <<>>
  /\ answers' = <<>>
  /\ page' = None
  /\ data' = Empty
  /\ error' = FALSE
  /\ dialog' = None
  /\ UNCHANGED <<tauri, stored, visit, cached, acts, issued, wanted, hasty>>

-----------------------------------------------------------------------------
Next ==
  \/ \E k \in Kind : Mount(k)
  \/ Unmount
  \/ SnippetList \/ SnippetDialog \/ KeyList \/ KeyDialog \/ ForwardList \/ ForwardDialog
  \/ ServeLoad \/ ServeSave \/ Refuse \/ Crash
  \/ \E i \in DOMAIN answers : TakeSaved(i) \/ TakeLoaded(i) \/ TakeRefusal(i)

Spec == Init /\ [][Next]_vars

-----------------------------------------------------------------------------
(* Properties.                                                             *)

Store == IF tauri THEN stored ELSE cached

\* A list that was only edited while its page was calm is what the changes that
\* were accepted make of it, whatever is refused, left, ends or is saved from
\* another page.
CalmEditsAreKept == \A k \in Kind \ hasty : Store[k] = wanted[k]

\* And its page, once it is calm, shows what is stored.
CalmPageIsCurrent == page # None /\ Calm /\ page \notin hasty => data[page] = Store[page]

=============================================================================
