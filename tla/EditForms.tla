------------------------------ MODULE EditForms ------------------------------
(***************************************************************************)
(* The modal forms that edit a row.  Two send every field, the other two   *)
(* those that differ from the row on the screen when Save is pressed.  The *)
(* row is also changed by others, and the screen shows it as of the last   *)
(* render.  One form is followed at a time.                                *)
(*                                                                         *)
(* The values are those of fields that are filled in: a field that is left *)
(* empty, which some of the forms do not send, is not modelled.            *)
(***************************************************************************)
EXTENDS Integers

CONSTANTS
    Values,     \* what a field holds
    MaxEdits    \* bound on openings, edits, saves, other users' changes, renders

ASSUME EditAssumption == MaxEdits \in Nat

(***************************************************************************)
(* What the forms differ in.                                               *)
(*   fields: of the row, and inputs of the form                            *)
(*   sends:  "all" the fields, or the "changed" ones                       *)
(*   tables: the row may stand in a table that the browser fetched, which  *)
(*           revalidatePath does not render again                          *)
(***************************************************************************)
EditorOf(fields, sends, tables) == [fields |-> fields, sends |-> sends, tables |-> tables]

UserEditor == EditorOf({"email", "username", "role"}, "all", FALSE)

WarehouseEditor == EditorOf({"name", "address"}, "all", FALSE)

TenantEditor == EditorOf({"name", "admin_email"}, "changed", TRUE)

PlatformAdminEditor == EditorOf({"email", "username"}, "changed", TRUE)

AllEditors == {UserEditor, WarehouseEditor, TenantEditor, PlatformAdminEditor}

VARIABLES
    editor,    \* the form that is followed
    stored,    \* the row in the database
    props,     \* the row the component was last rendered with
    editing,   \* open
    values,    \* the fields of the form
    refused,   \* an error is shown
    saving,    \* the update under way, or NoUpdate: its fields, and how far it is;
               \* history: what the user had touched, a render under the form
    edits,
    touched,    \* history: fields the user changed since the form was opened
    overtaken,  \* history: the row was changed since it was rendered: by others, by a save
                \* whose answer was lost, or by one after which it was not rendered again
    rerendered  \* history: the page was rendered again while the form was open

editVars == <<editor, stored, props, editing, values, refused, saving, edits,
              touched, overtaken, rerendered>>

Row == [editor.fields -> Values]

NoUpdate == [fields |-> {}, values |-> [x \in editor.fields |-> CHOOSE v \in Values : TRUE],
             touched |-> {}, under |-> FALSE, state |-> "none"]

EditInit ==
    /\ editor \in AllEditors
    /\ stored \in Row /\ props = stored /\ values = stored
    /\ editing = FALSE /\ refused = FALSE /\ saving = NoUpdate /\ edits = 0
    /\ touched = {} /\ overtaken = FALSE /\ rerendered = FALSE

EditInput == edits < MaxEdits /\ edits' = edits + 1

Saving == saving.state # "none"

-----------------------------------------------------------------------------
OpenEditor ==
    /\ EditInput
    /\ ~editing /\ editing' = TRUE
    /\ values' = props /\ refused' = FALSE
    /\ touched' = {} /\ rerendered' = FALSE
    /\ UNCHANGED <<editor, stored, props, saving, overtaken>>

ChangeField(x, v) ==
    /\ EditInput
    /\ editing /\ values[x] # v
    /\ values' = [values EXCEPT ![x] = v] /\ touched' = touched \cup {x}
    /\ UNCHANGED <<editor, stored, props, editing, refused, saving, overtaken, rerendered>>

\* The cross and the overlay, at any time.
CloseEditor ==
    /\ editing /\ editing' = FALSE
    /\ UNCHANGED <<editor, stored, props, values, refused, saving, edits,
                   touched, overtaken, rerendered>>

FaultyPayload == editor.fields

\* The fields of the request body.
Payload ==
    IF editor.sends = "all" THEN editor.fields
    ELSE {x \in editor.fields : values[x] # props[x]}

\* Save is disabled without a change in a form that sends what changed.
SaveEdit ==
    /\ EditInput
    /\ editing /\ ~Saving
    /\ editor.sends = "changed" => values # props
    /\ saving' = [fields |-> Payload, values |-> values, touched |-> touched,
                  under |-> rerendered, state |-> "sent"]
    /\ refused' = FALSE
    /\ UNCHANGED <<editor, stored, props, editing, values, touched, overtaken, rerendered>>

Merge(row, update) ==
    [x \in editor.fields |-> IF x \in update.fields THEN update.values[x] ELSE row[x]]

\* The backend commits the fields it was sent.
UpdateRuns ==
    /\ saving.state = "sent"
    /\ saving' = [saving EXCEPT !.state = "stored"]
    /\ stored' = Merge(stored, saving)
    /\ UNCHANGED <<editor, props, editing, values, refused, edits, touched, overtaken, rerendered>>

\* The form closes.  revalidatePath renders the page again, but not the tables
\* that the browser fetched: they keep the row as it was.
UpdateSucceeds ==
    /\ saving.state = "stored"
    /\ saving' = NoUpdate
    /\ editing' = FALSE
    /\ \/ props' = stored /\ overtaken' = FALSE
       \/ editor.tables /\ props' = props /\ overtaken' = TRUE
    /\ UNCHANGED <<editor, stored, values, refused, edits, touched, rerendered>>

\* An error, or the answer is lost after the backend ran.
UpdateFails ==
    /\ Saving
    /\ saving' = NoUpdate
    /\ refused' = TRUE
    /\ overtaken' = (overtaken \/ saving.state = "stored")
    /\ UNCHANGED <<editor, stored, props, editing, values, edits, touched, rerendered>>

-----------------------------------------------------------------------------
OtherUserEdits(x, v) ==
    /\ EditInput
    /\ stored[x] # v
    /\ stored' = [stored EXCEPT ![x] = v]
    /\ overtaken' = TRUE
    /\ UNCHANGED <<editor, props, editing, values, refused, saving, touched, rerendered>>

\* A fetch of the table, a navigation: the row is rendered anew, around the form
\* that may be open on it.
Rerender ==
    /\ EditInput
    /\ props # stored /\ props' = stored
    /\ overtaken' = (overtaken /\ (editing \/ Saving))
    /\ rerendered' = (rerendered \/ editing)
    /\ UNCHANGED <<editor, stored, editing, values, refused, saving, touched>>

EditNext ==
    \/ OpenEditor \/ CloseEditor \/ SaveEdit
    \/ \E x \in editor.fields, v \in Values : ChangeField(x, v) \/ OtherUserEdits(x, v)
    \/ UpdateRuns \/ UpdateSucceeds \/ UpdateFails
    \/ Rerender

EditSpec == EditInit /\ [][EditNext]_editVars

-----------------------------------------------------------------------------
EditTypeOK ==
    /\ editor \in AllEditors /\ {stored, props, values} \subseteq Row
    /\ saving.fields \subseteq editor.fields /\ touched \subseteq editor.fields
    /\ editing \in BOOLEAN /\ refused \in BOOLEAN
    /\ overtaken \in BOOLEAN /\ rerendered \in BOOLEAN

\* A save changes a field the user did not touch (and so takes back someone's
\* change) only if the row had changed since the page was rendered, and a form
\* that sends what changed does so only if the row was rendered anew under it.
SavesWhatWasEdited ==
    [][saving.state = "sent" /\ saving'.state = "stored" =>
          \A x \in editor.fields \ saving.touched :
              stored'[x] # stored[x] =>
                  overtaken /\ (editor.sends = "all" \/ saving.under)]_editVars

=============================================================================
