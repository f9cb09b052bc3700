------------------------------- MODULE Editor -------------------------------
(***************************************************************************)
(* The editor of a command set (frontend/src/components/EditorModal.tsx,   *)
(* CommandSetEditor.tsx, ScriptEditor.tsx) and handleSaveCommandSet of     *)
(* App.tsx, which closes it when a save succeeds: whichever editor is open *)
(* by then.  A member of Sessions is one opening of the editor.  Of a text *)
(* only whether it is blank matters; the list of command sets is in        *)
(* Dashboard, and here only the set that is edited may disappear from it.  *)
(***************************************************************************)
EXTENDS Naturals, Sequences, FiniteSets

CONSTANTS Sessions, NoSession,
          MaxScripts, MaxSaves,   \* bounds on a form, and on saves in flight
          MaxHidden               \* bound on the failed answers that hide a saved form

ASSUME SessionsAssumption == NoSession \notin Sessions

VARIABLES current,    \* the session that is open
          form,       \* the name and the scripts in it
          saves,      \* requests in flight, by the session they were sent from
          sent,       \* what the last one asked to save
          \* history
          over,       \* how sessions ended: the user cancelled, or a save was answered
          written,    \* how often each session's content was saved
          hidden,     \* and how often the answer said that it was not
          hurried,    \* sessions with two saves in flight at once
          crowded,    \* sessions that began with a save of another in flight
          typedLate   \* sessions changed since the first of their saves in flight was sent

editorVars == <<current, form, saves, sent, over, written, hidden, hurried, crowded, typedLate>>

Texts == {"blank", "text"}
Forms == [name : Texts, scripts : Seq(Texts)]
NoForm == [name |-> "none", scripts |-> <<>>]
NewForm == [name |-> "blank", scripts |-> <<"blank">>]

EditorTypeOK ==
    /\ current \in Sessions \cup {NoSession}
    /\ form \in Forms /\ sent \in Forms \cup {NoForm}
    /\ \A counts \in {saves, written, hidden} : counts \in [Sessions -> Nat]
    /\ over \in [Sessions -> {"no", "cancelled", "answered"}]
    /\ hurried \subseteq Sessions /\ crowded \subseteq Sessions /\ typedLate \subseteq Sessions

EditorInit ==
    /\ current = NoSession /\ form = NewForm /\ sent = NoForm
    /\ saves = [s \in Sessions |-> 0]
    /\ written = [s \in Sessions |-> 0] /\ hidden = [s \in Sessions |-> 0]
    /\ over = [s \in Sessions |-> "no"]
    /\ hurried = {} /\ crowded = {} /\ typedLate = {}

Saving == \E s \in Sessions : saves[s] > 0

\* The editor is shown: empty, or with a command set that an agent may have stored
\* with any name and scripts.
OpenEditor(s, f) ==
    /\ current = NoSession /\ over[s] = "no"
    /\ current' = s /\ form' = f
    /\ crowded' = IF Saving THEN crowded \cup {s} ELSE crowded
    /\ UNCHANGED <<saves, sent, over, written, hidden, hurried, typedLate>>

HandleCreate(s) == OpenEditor(s, NewForm)
HandleEdit(s) ==
    \E n \in 0..MaxScripts, name \in Texts : \E scripts \in [1..n -> Texts] :
        OpenEditor(s, [name |-> name, scripts |-> scripts])

\* The fields stay enabled while a save is in flight.
Change(f) ==
    /\ current # NoSession
    /\ form' = f
    /\ typedLate' = IF saves[current] > 0 THEN typedLate \cup {current} ELSE typedLate
    /\ UNCHANGED <<current, saves, sent, over, written, hidden, hurried, crowded>>

SetName == \E name \in Texts : Change([form EXCEPT !.name = name])
AddScript ==
    /\ Len(form.scripts) < MaxScripts
    /\ Change([form EXCEPT !.scripts = Append(@, "blank")])
UpdateScript ==
    \E k \in DOMAIN form.scripts, text \in Texts : Change([form EXCEPT !.scripts[k] = text])

\* The button is disabled at the last script.
RemoveScript ==
    /\ Len(form.scripts) # 1
    /\ \E k \in DOMAIN form.scripts :
        Change([form EXCEPT !.scripts =
                   [j \in 1..(Len(@) - 1) |-> IF j < k THEN @[j] ELSE @[j + 1]]])

\* The editor is closed.
Close(how) ==
    /\ over' = IF current = NoSession THEN over ELSE [over EXCEPT ![current] = how]
    /\ current' = NoSession
    /\ UNCHANGED <<form, sent, hidden, hurried, crowded, typedLate>>

OnCancel ==
    /\ current # NoSession
    /\ Close("cancelled")
    /\ UNCHANGED <<saves, written>>

\* The button is enabled if something can be saved; handleSave wants all filled in.
CanSave == form.name # "blank" /\ \E k \in DOMAIN form.scripts : form.scripts[k] # "blank"
Complete == form.name # "blank" /\ \A k \in DOMAIN form.scripts : form.scripts[k] # "blank"

\* The scripts that are not blank, in their order.
FilledIn(scripts) ==
    LET kept == {k \in DOMAIN scripts : scripts[k] # "blank"}
        Nth(n) == CHOOSE k \in kept : Cardinality({j \in kept : j <= k}) = n
    IN [n \in 1..Cardinality(kept) |-> scripts[Nth(n)]]

\* A request to create or update is sent.
SendForm ==
    /\ saves[current] < MaxSaves
    /\ saves' = [saves EXCEPT ![current] = @ + 1]
    /\ sent' = [form EXCEPT !.scripts = FilledIn(@)]
    /\ hurried' = IF saves[current] > 0 THEN hurried \cup {current} ELSE hurried
    /\ UNCHANGED <<current, form, over, written, hidden, crowded, typedLate>>

\* Mutant of HandleSave: the button is never disabled.
HandleSaveAlways == current # NoSession /\ Complete /\ SendForm

\* The button stays enabled while the request is in flight.
HandleSave == current # NoSession /\ CanSave /\ Complete /\ SendForm

\* Mutant of SaveSucceeds: the editor stays open.
SaveSucceedsOpen(s) ==
    /\ saves[s] > 0
    /\ saves' = [saves EXCEPT ![s] = @ - 1]
    /\ written' = [written EXCEPT ![s] = @ + 1]
    /\ UNCHANGED <<current, form, sent, over, hidden, hurried, crowded, typedLate>>

\* The agent has saved it: the editor is closed, whichever it is.
SaveSucceeds(s) ==
    /\ saves[s] > 0
    /\ saves' = [saves EXCEPT ![s] = @ - 1]
    /\ written' = [written EXCEPT ![s] = @ + 1]
    /\ Close("answered")

\* Mutant of SaveFails: closes the editor.
SaveFailsClosing(s) ==
    /\ saves[s] > 0
    /\ saves' = [saves EXCEPT ![s] = @ - 1]
    /\ Close("answered")
    /\ UNCHANGED written

\* The answer says that it was not saved, or none comes: the editor stays as it is.  The
\* agent may have it all the same: in its map, when only the file could not be written
\* (storage.go 109-111, server.go 48-52), or when the response was lost.  An update that
\* found the set no longer in the list has sent nothing.
SaveFails(s) ==
    /\ saves[s] > 0
    /\ saves' = [saves EXCEPT ![s] = @ - 1]
    /\ \/ UNCHANGED <<written, hidden>>
       \/ /\ hidden[s] < MaxHidden
          /\ hidden' = [hidden EXCEPT ![s] = @ + 1]
          /\ written' = [written EXCEPT ![s] = @ + 1]
    /\ typedLate' = IF saves[s] = 1 THEN typedLate \ {s} ELSE typedLate
    /\ UNCHANGED <<current, form, sent, over, hurried, crowded>>

EditorNext ==
    \/ \E s \in Sessions : HandleCreate(s) \/ HandleEdit(s) \/ SaveSucceeds(s) \/ SaveFails(s)
    \/ SetName \/ AddScript \/ UpdateScript \/ RemoveScript \/ OnCancel \/ HandleSave

EditorSpec == EditorInit /\ [][EditorNext]_editorVars

-----------------------------------------------------------------------------
(* Safety. *)

\* Whatever was added, removed and emptied in which order, and whatever the edited set
\* was like: what is sent to an agent has a name and a script, and no blank one.  The
\* handler finds nothing wrong with no script at all: that is up to the button, which is
\* disabled then (CommandSetEditor.tsx 30-45, ScriptEditor.tsx 10-24).
SentIsComplete ==
    sent # NoForm =>
        /\ sent.name # "blank"
        /\ Len(sent.scripts) > 0
        /\ \A k \in DOMAIN sent.scripts : sent.scripts[k] # "blank"

\* An editor that s has open is closed by an answer only if that answered s' own save, and
\* of exactly what the editor holds: a failed save, and a second press of Save, take
\* nothing away.  Two cases the code does not keep: an editor that was opened with the
\* save of a cancelled one in flight is closed by its answer, and what is typed between
\* Save and the answer is discarded (App.tsx 127-146).
ClosesOnlySaved(s) ==
    s = current /\ over'[s] = "answered" =>
        \/ s \in crowded \cup typedLate
        \/ sent = form /\ written'[s] = written[s] + 1
EditsAreKept == [][\A s \in Sessions : ClosesOnlySaved(s)]_editorVars

\* An editor is saved once, however many of its saves fail before; more often only if
\* Save was pressed again before the answer, or after a failure that hid a saved set.
\* Every press of a new set's Save makes a new id (useCommandSets.ts 61-66), so that
\* the agent then has the set twice.
OneSetPerEditor ==
    \A s \in Sessions : written[s] <= 1 + hidden[s] \/ s \in hurried
=============================================================================
