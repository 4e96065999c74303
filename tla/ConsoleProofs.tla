---------------------------- MODULE ConsoleProofs ----------------------------
(***************************************************************************)
(* What the tables, forms and dialogs of the browser promise, for any      *)
(* number of inputs: each component's property from an inductive           *)
(* invariant.                                                              *)
(***************************************************************************)
EXTENDS MCConsole, ScreenProofs

-----------------------------------------------------------------------------
(* Forms that create.                                                      *)

\* Of a submission: it is the only one; unless an answer was lost it has not
\* been stored before, and once it has, then nothing else; and nobody typed
\* since, unless "busy" says so.
SubmissionInv(s) ==
    /\ \A t \in sent : s = t
    /\ s.state = "sent" => saved = 0 \/ unanswered
    /\ ~busy => draft = s.draft

\* Without a submission under way, what was stored was answered.
FormsInv ==
    /\ FormsTypeOK
    /\ \A s \in sent : SubmissionInv(s)
    /\ sent = {} => saved = 0 \/ unanswered
    /\ CreatesOnce

LEMMA FormsStartFilledIn == \A f \in AllForms : f.starts \subseteq f.fields
BY DEF AllForms, FormOf, SalesOrderForm, TransferForm, PurchaseOrderForm, SupplierForm,
       ProductForm, WarehouseForm, UserForm, RoleForm, RoleAssignmentForm,
       WarehouseAssignmentForm, AdjustmentForm

LEMMA FormsInvInit == FormsInit => FormsInv
<1> SUFFICES ASSUME FormsInit PROVE FormsInv
  OBVIOUS
<1>1. open \in BOOLEAN
  BY Zenon DEF FormsInit
<1>2. form \in AllForms /\ draft \subseteq form.fields /\ sent = {}
  BY FormsStartFilledIn DEF FormsInit
<1>3. saved = 0 /\ formInputs \in 0..MaxFormInputs
  BY FormsAssumption DEF FormsInit, FormsAssumption
<1>4. error = FALSE /\ busy = FALSE /\ unanswered = FALSE /\ wiped = FALSE
  BY DEF FormsInit
<1>5. FormsTypeOK
  BY <1>1, <1>2, <1>3, <1>4 DEF FormsTypeOK
<1> QED BY <1>2, <1>3, <1>4, <1>5 DEF FormsInv, CreatesOnce

LEMMA FormsTypeStep == FormsTypeOK /\ [FormsNext]_formsVars => FormsTypeOK'
<1> SUFFICES ASSUME FormsTypeOK, [FormsNext]_formsVars PROVE FormsTypeOK'
  OBVIOUS
<1>s. form.starts \subseteq form.fields
  BY FormsStartFilledIn DEF FormsTypeOK
<1> USE FormsAssumption DEF FormsTypeOK, FormInput, Shut
<1>1. CASE HandleOpen
  <2>1. busy' \in BOOLEAN
    BY <1>1, Zenon DEF HandleOpen, IsPending
  <2>2. draft' \subseteq form'.fields
    BY <1>1, <1>s DEF HandleOpen
  <2>3. form' \in AllForms /\ sent' \subseteq [draft: SUBSET form'.fields, state: {"sent", "stored"}]
    BY <1>1 DEF HandleOpen
  <2>4. open' \in BOOLEAN /\ error' \in BOOLEAN /\ unanswered' \in BOOLEAN /\ wiped' \in BOOLEAN
    BY <1>1 DEF HandleOpen
  <2>5. saved' \in Nat /\ formInputs' \in 0..MaxFormInputs
    BY <1>1 DEF HandleOpen
  <2> QED BY <2>1, <2>2, <2>3, <2>4, <2>5
<1>2. CASE CloseForm
  BY <1>2, <1>s DEF CloseForm, IsPending
<1>3. CASE HandleSubmit
  <2>1. sent' \subseteq [draft: SUBSET form'.fields, state: {"sent", "stored"}]
    BY <1>3 DEF HandleSubmit
  <2>2. formInputs' \in 0..MaxFormInputs
    BY <1>3 DEF HandleSubmit
  <2> QED BY <1>3, <2>1, <2>2 DEF HandleSubmit, MaySubmit
<1>4. ASSUME NEW x \in form.fields, Edit(x) PROVE FormsTypeOK'
  BY <1>4 DEF Edit, IsPending
<1>5. ASSUME NEW s \in sent, ActionRuns(s) PROVE FormsTypeOK'
  BY <1>5 DEF ActionRuns
<1>6. ASSUME NEW s \in sent, Succeeds(s) PROVE FormsTypeOK'
  BY <1>6, <1>s DEF Succeeds
<1>7. ASSUME NEW s \in sent, ReportsError(s) PROVE FormsTypeOK'
  BY <1>7 DEF ReportsError
<1>8. CASE UNCHANGED formsVars
  BY <1>8 DEF formsVars
<1> QED BY <1>1, <1>2, <1>3, <1>4, <1>5, <1>6, <1>7, <1>8 DEF FormsNext

LEMMA FormsInvStep == FormsInv /\ [FormsNext]_formsVars => FormsInv'
<1> SUFFICES ASSUME FormsInv, [FormsNext]_formsVars PROVE FormsInv'
  OBVIOUS
<1>t. FormsTypeOK /\ FormsTypeOK'
  BY FormsTypeStep DEF FormsInv
<1> USE <1>t DEF FormsInv, SubmissionInv, CreatesOnce
<1>1. CASE HandleOpen
  <2>1. saved' = 0 /\ unanswered' = FALSE /\ wiped' = FALSE /\ sent' = sent
    BY <1>1 DEF HandleOpen
  <2>2. sent # {} => busy'
    BY <1>1, Zenon DEF HandleOpen, IsPending
  <2> QED BY <2>1, <2>2
<1>2. CASE CloseForm
  BY <1>2 DEF CloseForm, IsPending
<1>3. CASE HandleSubmit
  <2> DEFINE s == [draft |-> draft, state |-> "sent"]
  <2>1. sent = {} /\ sent' = {s} /\ UNCHANGED <<draft, saved, busy, unanswered, wiped>>
    BY <1>3 DEF HandleSubmit, MaySubmit, IsPending
  <2>2. s.draft = draft' /\ s.state = "sent"
    BY <2>1
  <2> HIDE DEF s
  <2> QED BY <2>1, <2>2
<1>4. ASSUME NEW x \in form.fields, Edit(x) PROVE FormsInv'
  BY <1>4 DEF Edit, IsPending
<1>5. ASSUME NEW s \in sent, ActionRuns(s) PROVE FormsInv'
  <2> DEFINE t == [s EXCEPT !.state = "stored"]
  <2>1. sent = {s} /\ sent' = {t} /\ s.state = "sent" /\ saved' = saved + 1
    BY <1>5 DEF ActionRuns
  <2>2. t.draft = s.draft /\ t.state = "stored"
    BY DEF FormsTypeOK
  <2> HIDE DEF t
  <2> QED BY <1>5, <2>1, <2>2 DEF ActionRuns, FormsTypeOK
<1>6. ASSUME NEW s \in sent, Succeeds(s) PROVE FormsInv'
  BY <1>6 DEF Succeeds, FormsTypeOK
<1>7. ASSUME NEW s \in sent, ReportsError(s) PROVE FormsInv'
  BY <1>7 DEF ReportsError, FormsTypeOK
<1>8. CASE UNCHANGED formsVars
  BY <1>8 DEF formsVars
<1> QED BY <1>1, <1>2, <1>3, <1>4, <1>5, <1>6, <1>7, <1>8 DEF FormsNext

\* Whatever is filled in is created once and what was typed is not lost.
THEOREM CreatesOnceCorrect == FormsSpec => []CreatesOnce
<1>1. FormsInv => CreatesOnce
  BY DEF FormsInv
<1> QED BY FormsInvInit, FormsInvStep, <1>1, PTL DEF FormsSpec

-----------------------------------------------------------------------------
(* The delete confirmation.                                                *)

\* A timer that runs while nobody pressed twice: it is the one the ref names, it
\* has measured exactly how long the button has been down, and once its time is
\* up a full hold has not been used for a deletion yet.
TimerMeasuresTheHold ==
    /\ pressed = 1 /\ Live /\ completed = FALSE
    /\ timers = {holdTimer} /\ held = elapsed
    /\ elapsed >= HoldDuration => confirms < fullHolds

HoldInv ==
    /\ {pressed, held, elapsed, fullHolds, confirms, deleting} \subseteq Nat
    /\ pressed = 0 => held = 0
    /\ doubled \/ (pressed <= 1 /\ confirms <= fullHolds)
    /\ doubled \/ timers = {} \/ TimerMeasuresTheHold

LEMMA HoldInvInit == HoldInit => HoldInv
BY DEF HoldInit, HoldInv

LEMMA HoldInvStep == HoldInv /\ [HoldNext]_holdVars => HoldInv'
<1> SUFFICES ASSUME HoldInv, [HoldNext]_holdVars PROVE HoldInv'
  OBVIOUS
<1> USE HoldAssumption DEF HoldInv, TimerMeasuresTheHold, Live, Deleting, HoldAssumption
<1>1. CASE OpenDialog
  BY <1>1 DEF OpenDialog
<1>2. CASE HandleOpenChange
  BY <1>2 DEF HandleOpenChange, Cleanup
<1>3. CASE StartHold
  <2>1. CASE doubled \/ pressed > 0
    <3>1. doubled'
      BY <1>3, <2>1, Zenon DEF StartHold
    <3>2. pressed' = pressed + 1 /\ elapsed' = 0 /\ UNCHANGED <<deleting, confirms, held, fullHolds>>
      BY <1>3 DEF StartHold
    <3> QED BY <3>1, <3>2
  <2>2. CASE ~(doubled \/ pressed > 0)
    <3>1. timers = {} /\ held = 0 /\ pressed = 0
      BY <2>2
    <3>2. timers' = {holdTimer'} /\ pressed' = 1 /\ elapsed' = 0 /\ completed' = FALSE
      BY <1>3, <3>1 DEF StartHold
    <3>3. Live' /\ UNCHANGED <<deleting, confirms, held, fullHolds>>
      BY <1>3 DEF StartHold
    <3>4. fullHolds \in Nat /\ confirms \in Nat /\ deleting \in Nat /\ confirms <= fullHolds
      BY <2>2
    <3>5. TimerMeasuresTheHold'
      BY <3>1, <3>2, <3>3
    <3> QED BY <3>1, <3>2, <3>3, <3>4, <3>5
  <2> QED BY <2>1, <2>2
<1>4. CASE EndHold
  BY <1>4 DEF EndHold, Cleanup
<1>5. CASE Tick
  BY <1>5 DEF Tick
<1>6. CASE Deleted
  BY <1>6 DEF Deleted
<1>7. ASSUME NEW t \in timers, TimerFires(t) PROVE HoldInv'
  BY <1>7 DEF TimerFires, Cleanup
<1>8. CASE UNCHANGED holdVars
  BY <1>8 DEF holdVars
<1> QED BY <1>1, <1>2, <1>3, <1>4, <1>5, <1>6, <1>7, <1>8 DEF HoldNext

\* No deletion without a hold of the full duration, unless pressed twice at once.
THEOREM HoldingCorrect == HoldSpec => []ConfirmedByHolding
<1>1. HoldInv => ConfirmedByHolding
  BY DEF HoldInv, ConfirmedByHolding
<1> QED BY HoldInvInit, HoldInvStep, <1>1, PTL DEF HoldSpec

-----------------------------------------------------------------------------
(* The permissions of a role.                                              *)

\* What was read of the role is right as long as the role has not changed since;
\* the boxes then differ from it where the user clicked, and so does a save.
RoleInv ==
    /\ permSearch \in DOMAIN PermHits
    /\ rolesVersion \in Nat \ {0} /\ basis \in 0..rolesVersion
    /\ loads \subseteq [perms: SUBSET Permissions, version: 1..rolesVersion]
    /\ roleSave \in [ticked: SUBSET Permissions, basis: 0..rolesVersion,
                      clicked: SUBSET Permissions, state: {"none", "sent", "saved"}]
    /\ {rolePerms, permissionIds, clicked} \subseteq SUBSET Permissions
    /\ \A answer \in loads : answer.version = rolesVersion => answer.perms = rolePerms
    /\ basis = rolesVersion => permissionIds \ clicked = rolePerms \ clicked
    /\ roleSave.basis = rolesVersion =>
          roleSave.ticked \ roleSave.clicked = rolePerms \ roleSave.clicked

LEMMA RoleInvInit == RoleInit => RoleInv
BY DEF RoleInit, RoleInv, NoSave

LEMMA ShownArePermissions ==
    permSearch \in DOMAIN PermHits => Filtered \subseteq Permissions /\ PageIds \subseteq Permissions
BY RoleAssumption DEF RoleAssumption, Filtered, PageIds

LEMMA RoleInvStep == RoleInv /\ [RoleNext]_roleVars => RoleInv'
<1> SUFFICES ASSUME RoleInv, [RoleNext]_roleVars PROVE RoleInv'
  OBVIOUS
<1> USE DEF RoleInv
<1>1. CASE OpenRole
  BY <1>1 DEF OpenRole
<1>2. CASE CloseRole
  BY <1>2 DEF CloseRole
<1>3. CASE SaveRole
  BY <1>3 DEF SaveRole
<1>4. CASE RoleSaved
  BY <1>4 DEF RoleSaved
<1>5. CASE RoleAnswered
  BY <1>5 DEF RoleAnswered, NoSave
<1>6. ASSUME NEW term \in DOMAIN PermHits, SelectorSearch(term) PROVE RoleInv'
  BY <1>6 DEF SelectorSearch
<1>7. ASSUME NEW p \in 1..Cardinality(Permissions), TurnPage(p) PROVE RoleInv'
  BY <1>7 DEF TurnPage
<1>8. CASE Click
  <2>1. PICK ids \in SUBSET Permissions :
            permissionIds' = Toggle(ids) /\ clicked' = clicked \cup ids
    BY <1>8, ShownArePermissions DEF Click
  <2>2. permissionIds' \subseteq Permissions /\ permissionIds' \ clicked' = permissionIds \ clicked'
    BY <2>1 DEF Toggle
  <2>3. UNCHANGED <<rolePerms, permSearch, loads, roleSave, rolesVersion, basis>>
    BY <1>8 DEF Click
  <2> QED BY <2>1, <2>2, <2>3
<1>9. ASSUME NEW answer \in loads, RoleArrives(answer) PROVE RoleInv'
  BY <1>9 DEF RoleArrives
<1>10. CASE OtherRoleSave
  BY <1>10 DEF OtherRoleSave
<1>11. CASE UNCHANGED roleVars
  BY <1>11 DEF roleVars
<1> QED BY <1>1, <1>2, <1>3, <1>4, <1>5, <1>6, <1>7, <1>8, <1>9, <1>10, <1>11 DEF RoleNext

\* A save leaves the permissions nobody clicked as they were, if it was made from
\* what the role still is.
THEOREM RoleKeepsPermissionsCorrect == RoleSpec => RoleKeepsPermissions
<1>1. RoleInv /\ [RoleNext]_roleVars =>
        (roleSave.state = "sent" /\ roleSave'.state = "saved" =>
            \/ rolePerms' \ roleSave.clicked = rolePerms \ roleSave.clicked
            \/ roleSave.basis # rolesVersion)
  <2> SUFFICES ASSUME RoleInv, [RoleNext]_roleVars,
                      roleSave.state = "sent", roleSave'.state = "saved"
               PROVE  \/ rolePerms' \ roleSave.clicked = rolePerms \ roleSave.clicked
                      \/ roleSave.basis # rolesVersion
    OBVIOUS
  <2>1. RoleSaved
    BY DEF RoleNext, OpenRole, CloseRole, SaveRole, RoleAnswered, NoSave, SelectorSearch, TurnPage,
           Click, RoleArrives, OtherRoleSave, roleVars
  <2> QED BY <2>1 DEF RoleSaved, RoleInv
<1> QED BY RoleInvInit, RoleInvStep, <1>1, PTL DEF RoleSpec, RoleKeepsPermissions

-----------------------------------------------------------------------------
(* Forms that edit.                                                        *)

\* Unless the row was overtaken, what the screen shows of it is what is stored,
\* except between the commit of a save and its answer.  A form then shows the
\* screen's values in the fields that were not touched, and so does a save.
EditInv ==
    /\ stored \in Row /\ props \in Row /\ values \in Row
    /\ saving \in [fields: SUBSET editor.fields, values: Row, touched: SUBSET editor.fields,
                    under: BOOLEAN, state: {"none", "sent", "stored"}]
    /\ touched \subseteq editor.fields /\ rerendered \in BOOLEAN
    /\ overtaken \/ saving.state = "stored" \/ props = stored
    /\ editing /\ ~rerendered => \A x \in editor.fields \ touched : values[x] = props[x]
    /\ editing /\ ~overtaken /\ saving.state # "stored" =>
          \A x \in editor.fields \ touched : values[x] = props[x]
    /\ saving.state = "sent" /\ ~overtaken =>
          \A x \in saving.fields \ saving.touched : saving.values[x] = stored[x]
    /\ saving.state = "sent" /\ editor.sends # "all" /\ ~saving.under =>
          saving.fields \subseteq saving.touched

LEMMA EditInvInit == EditInit => EditInv
<1> SUFFICES ASSUME EditInit PROVE EditInv
  OBVIOUS
<1>1. NoUpdate.values \in Row
  <2>1. \A x \in editor.fields : stored[x] \in Values
    BY DEF EditInit, Row
  <2>2. \A x \in editor.fields : (CHOOSE v \in Values : TRUE) \in Values
    BY <2>1
  <2> QED BY <2>2 DEF NoUpdate, Row
<1> QED BY <1>1 DEF EditInit, EditInv, NoUpdate

LEMMA EditInvStep == EditInv /\ [EditNext]_editVars => EditInv'
<1> SUFFICES ASSUME EditInv, [EditNext]_editVars PROVE EditInv'
  OBVIOUS
<1> USE DEF EditInv, Saving
<1>1. CASE OpenEditor
  BY <1>1 DEF OpenEditor, Row
<1>2. CASE CloseEditor
  BY <1>2 DEF CloseEditor, Row
<1>3. CASE SaveEdit
  <2>1. saving' = [fields |-> Payload, values |-> values, touched |-> touched,
                   under |-> rerendered, state |-> "sent"]
    BY <1>3 DEF SaveEdit
  <2>2. Payload \subseteq editor.fields
    BY DEF Payload
  <2>3. /\ saving'.fields = Payload /\ saving'.values = values
        /\ saving'.touched = touched /\ saving'.state = "sent"
        /\ saving'.under = rerendered
    BY <2>1
  <2>4. saving' \in [fields: SUBSET editor.fields, values: Row, touched: SUBSET editor.fields,
                     under: BOOLEAN, state: {"none", "sent", "stored"}]
    BY <2>1, <2>2
  <2>5. /\ UNCHANGED <<editor, stored, props, editing, values, touched, overtaken, rerendered>>
        /\ editing /\ saving.state = "none"
    BY <1>3 DEF SaveEdit
  <2>6. ~overtaken => \A x \in saving'.fields \ saving'.touched : saving'.values[x] = stored[x]
    BY <2>2, <2>3, <2>5
  <2>7. editor.sends # "all" /\ ~rerendered => Payload \subseteq touched
    BY <2>5 DEF Payload
  <2> QED BY <2>3, <2>4, <2>5, <2>6, <2>7 DEF Row
<1>4. ASSUME NEW x \in editor.fields, NEW v \in Values, ChangeField(x, v) PROVE EditInv'
  BY <1>4 DEF ChangeField, Row
<1>5. ASSUME NEW x \in editor.fields, NEW v \in Values, OtherUserEdits(x, v) PROVE EditInv'
  BY <1>5 DEF OtherUserEdits, Row
<1>6. CASE UpdateRuns
  BY <1>6 DEF UpdateRuns, Merge, Row
<1>7. CASE UpdateSucceeds
  BY <1>7 DEF UpdateSucceeds, NoUpdate, Row
<1>8. CASE UpdateFails
  BY <1>8 DEF UpdateFails, NoUpdate, Row
<1>9. CASE Rerender
  BY <1>9 DEF Rerender, Row
<1>10. CASE UNCHANGED editVars
  BY <1>10 DEF editVars, Row
<1> QED BY <1>1, <1>2, <1>3, <1>4, <1>5, <1>6, <1>7, <1>8, <1>9, <1>10 DEF EditNext

\* A save takes nothing back that the user did not touch, unless the row was
\* overtaken, and, in a form that sends what changed, rendered anew under it.
THEOREM SavesWhatWasEditedCorrect == EditSpec => SavesWhatWasEdited
<1>1. EditInv /\ [EditNext]_editVars =>
        (saving.state = "sent" /\ saving'.state = "stored" =>
          \A x \in editor.fields \ saving.touched :
              stored'[x] # stored[x] =>
                  overtaken /\ (editor.sends = "all" \/ saving.under))
  <2> SUFFICES ASSUME EditInv, [EditNext]_editVars,
                      saving.state = "sent", saving'.state = "stored",
                      NEW x \in editor.fields \ saving.touched, stored'[x] # stored[x]
               PROVE  overtaken /\ (editor.sends = "all" \/ saving.under)
    OBVIOUS
  <2>1. UpdateRuns
    BY DEF EditNext, OpenEditor, CloseEditor, SaveEdit, ChangeField, OtherUserEdits, UpdateSucceeds,
           UpdateFails, Rerender, NoUpdate, editVars
  <2>2. x \in saving.fields /\ saving.values[x] # stored[x]
    BY <2>1 DEF UpdateRuns, Merge
  <2> QED BY <2>2 DEF EditInv
<1> QED BY EditInvInit, EditInvStep, <1>1, PTL DEF EditSpec, SavesWhatWasEdited

-----------------------------------------------------------------------------
(* Temporary passwords.                                                    *)

CredentialRows ==
    /\ rendered \in [ListRows -> Accounts] /\ owner \in [ListRows -> Accounts]
    /\ dialog \in [Components -> [kind: {"closed", "reset", "revoke", "create"},
                                  row: ListRows \cup {Nothing}]]
    /\ callIn \in [Components -> [kind: {"none", "reset", "revoke", "revoked", "create"},
                                  row: ListRows \cup {Nothing}, account: Accounts \cup {Nothing}]]
    /\ password \in [Components -> Accounts \cup {Nothing}]

\* A call of the component's own dialog, which is still open.
CallMatchesDialog(c) ==
    /\ callIn[c].kind # "none" =>
          /\ password[c] = Nothing /\ callIn[c].row = dialog[c].row
          /\ dialog[c].kind = IF callIn[c].kind = "revoked" THEN "revoke" ELSE callIn[c].kind
    /\ callIn[c].account # Nothing =>
          /\ callIn[c].kind \in {"reset", "create"}
          /\ callIn[c].kind = "reset" => callIn[c].account = owner[callIn[c].row]

PasswordMatchesDialog(c) ==
    /\ dialog[c].kind = "create" => c = "form"
    /\ dialog[c].kind \in {"reset", "revoke"} => dialog[c].row \in ListRows
    /\ password[c] # Nothing =>
          \/ dialog[c].kind = "create"
          \/ dialog[c].kind = "reset" /\ password[c] = owner[dialog[c].row]

\* As long as dialogs wait for their calls, answers arrive and rows keep their
\* accounts, a call belongs to the dialog that is open and so does a password.
DialogsWait ==
    /\ rendered = owner
    /\ \A c \in Components : CallMatchesDialog(c) /\ PasswordMatchesDialog(c)
    /\ \A a \in unseen : a \in Accounts /\ \E c \in Components : callIn[c].account = a

CredentialInv ==
    /\ CredentialRows
    /\ early \/ unheard \/ handedOver \/ DialogsWait

LEMMA CredentialInvInit == CredentialsInit => CredentialInv
BY DEF CredentialsInit, CredentialInv, CredentialRows, DialogsWait, CallMatchesDialog,
       PasswordMatchesDialog, Closed, NoAction

LEMMA OpensKeepsInv ==
    ASSUME CredentialInv, NEW c \in Components, NEW d, Opens(c, d),
           \/ d = [kind |-> "create", row |-> Nothing] /\ c = "form"
           \/ \E kind \in {"reset", "revoke"}, r \in ListRows : d = [kind |-> kind, row |-> r]
    PROVE  CredentialInv'
<1>1. d \in [kind: {"closed", "reset", "revoke", "create"}, row: ListRows \cup {Nothing}]
  OBVIOUS
<1>2. CredentialRows'
  BY <1>1 DEF CredentialInv, CredentialRows, Opens
<1>3. ASSUME DialogsWait PROVE DialogsWait'
  <2>1. \A x \in Components : dialog[x].kind = "closed"
    BY DEF Opens, NothingOpen, Closed
  <2>2. \A x \in Components : callIn[x].kind = "none" /\ callIn[x].account = Nothing
    BY <1>3, <2>1 DEF DialogsWait, CallMatchesDialog, CredentialInv, CredentialRows
  <2> QED BY <1>1, <1>3, <2>1, <2>2 DEF Opens, DialogsWait, CallMatchesDialog, PasswordMatchesDialog,
                CredentialInv, CredentialRows
<1> QED BY <1>2, <1>3 DEF CredentialInv, Opens

LEMMA CredentialInvStep == CredentialInv /\ [CredentialsNext]_credentialVars => CredentialInv'
<1> SUFFICES ASSUME CredentialInv, [CredentialsNext]_credentialVars PROVE CredentialInv'
  OBVIOUS
<1> USE CredentialsAssumption
    DEF CredentialInv, CredentialRows, DialogsWait, CallMatchesDialog, PasswordMatchesDialog,
        Closed, NoAction, CallPending
<1>1. ASSUME NEW r \in ListRows, OpenRowDialog("reset", r) \/ OpenRowDialog("revoke", r)
      PROVE  CredentialInv'
  <2>1. ComponentOf(r) \in Components
    BY DEF ComponentOf, Components
  <2> QED BY <1>1, <2>1, OpensKeepsInv DEF OpenRowDialog
<1>2. CASE OpenProvisionForm
  BY <1>2, OpensKeepsInv DEF OpenProvisionForm, Components
<1>3. ASSUME NEW c \in Components, CloseDialog(c) PROVE CredentialInv'
  <2>1. CredentialRows'
    BY <1>3 DEF CloseDialog
  <2>2. CASE early' \/ unheard' \/ handedOver'
    BY <2>1, <2>2
  <2>3. CASE ~(early' \/ unheard' \/ handedOver')
    <3>1. ~early /\ callIn[c].kind = "none"
      BY ONLY <1>3, <2>3, Zenon DEF CloseDialog, CallPending
    <3>2. DialogsWait
      BY <1>3, <2>3, <3>1 DEF CloseDialog
    <3>3. dialog'[c].kind = "closed" /\ password'[c] = Nothing
      BY <1>3 DEF CloseDialog
    <3>4. \A x \in Components \ {c} : dialog'[x] = dialog[x] /\ password'[x] = password[x]
      BY <1>3 DEF CloseDialog
    <3> QED BY <1>3, <2>1, <3>1, <3>2, <3>3, <3>4 DEF CloseDialog
  <2> QED BY <2>2, <2>3
<1>4. ASSUME NEW c \in Components, Confirm(c) PROVE CredentialInv'
  <2> DEFINE call == [kind |-> dialog[c].kind, row |-> dialog[c].row, account |-> Nothing]
  <2>1. callIn[c].kind = "none" /\ dialog[c].kind \in {"reset", "revoke", "create"}
    BY <1>4 DEF Confirm
  <2>2. CredentialRows'
    BY <1>4 DEF Confirm
  <2>3. callIn'[c].kind = dialog[c].kind /\ callIn'[c].row = dialog[c].row
        /\ callIn'[c].account = Nothing
    BY <1>4 DEF Confirm
  <2>4. \A x \in Components \ {c} : callIn'[x] = callIn[x]
    BY <1>4 DEF Confirm
  <2> QED BY <1>4, <2>1, <2>2, <2>3, <2>4 DEF Confirm
<1>5. ASSUME NEW c \in Components, Issues(c) PROVE CredentialInv'
  BY <1>5 DEF Issues
<1>6. ASSUME NEW c \in Components, Issued(c) PROVE CredentialInv'
  BY <1>6 DEF Issued, ShowAnswer, ShowsPassword, AddressIn
<1>7. ASSUME NEW c \in Components, RevocationRuns(c) PROVE CredentialInv'
  BY <1>7 DEF RevocationRuns
<1>8. ASSUME NEW c \in Components, Revoked(c) PROVE CredentialInv'
  BY <1>8 DEF Revoked
<1>9. ASSUME NEW c \in Components, CallFails(c) PROVE CredentialInv'
  <2>1. CredentialRows'
    BY <1>9 DEF CallFails
  <2>2. CASE early' \/ unheard' \/ handedOver'
    BY <2>1, <2>2
  <2>3. CASE ~(early' \/ unheard' \/ handedOver')
    <3>1. ~unheard /\ callIn[c].account = Nothing
      BY ONLY <1>9, <2>3, Zenon DEF CallFails
    <3>2. DialogsWait
      BY <1>9, <2>3, <3>1 DEF CallFails
    <3>3. callIn'[c].kind = "none" /\ callIn'[c].account = Nothing
      BY <1>9 DEF CallFails
    <3>4. \A x \in Components \ {c} : callIn'[x] = callIn[x]
      BY <1>9 DEF CallFails
    <3> QED BY <1>9, <2>1, <3>1, <3>2, <3>3, <3>4 DEF CallFails
  <2> QED BY <2>2, <2>3
<1>10. ASSUME NEW r \in ListRows, NEW a \in Accounts, TenantHandedOver(r, a) PROVE CredentialInv'
  BY <1>10 DEF TenantHandedOver
<1>11. CASE UNCHANGED credentialVars
  BY <1>11 DEF credentialVars
<1> QED BY <1>1, <1>2, <1>3, <1>4, <1>5, <1>6, <1>7, <1>8, <1>9, <1>10, <1>11 DEF CredentialsNext

\* A password is shown once, under the address of its account.
THEOREM PasswordsCorrect == CredentialsSpec => []PasswordsReachTheirAccount
<1>1. CredentialInv => PasswordsReachTheirAccount
  BY DEF CredentialInv, CredentialRows, DialogsWait, PasswordMatchesDialog, PasswordsReachTheirAccount,
         ShowsPassword, AddressIn
<1> QED BY CredentialInvInit, CredentialInvStep, <1>1, PTL DEF CredentialsSpec

-----------------------------------------------------------------------------
(* Tables with search and pages.                                           *)

LEMMA DivisionGrows ==
    ASSUME NEW a \in Nat, NEW b \in Nat, a <= b, NEW n \in Nat \ {0}
    PROVE  a \div n \in Nat /\ b \div n \in Nat /\ a \div n <= b \div n
OBVIOUS

\* More rows never make fewer pages.
LEMMA PagesGrow ==
    ASSUME NEW S, NEW T, IsFiniteSet(T), S \subseteq T
    PROVE  /\ PagesOf(S) \in Nat \ {0} /\ PagesOf(T) \in Nat \ {0}
           /\ PagesOf(S) <= PagesOf(T)
<1>1. PageSize \in Nat \ {0} /\ PageSize \div PageSize = 1
  BY TableAssumption DEF TableAssumption
<1>2. /\ Cardinality(S) \in Nat /\ Cardinality(T) \in Nat /\ Cardinality(S) <= Cardinality(T)
      /\ IsFiniteSet(S)
  BY FS_Subset, FS_CardinalityType
<1>3. ASSUME NEW U, IsFiniteSet(U), U # {}
      PROVE  (Cardinality(U) + PageSize - 1) \div PageSize \in Nat \ {0}
  <2>1. Cardinality(U) \in Nat \ {0}
    BY <1>3, FS_EmptySet, FS_CardinalityType
  <2>2. Cardinality(U) + PageSize - 1 \in Nat /\ PageSize <= Cardinality(U) + PageSize - 1
    BY <1>1, <2>1
  <2> QED BY <1>1, <2>2, DivisionGrows
<1>4. PagesOf(S) \in Nat \ {0} /\ PagesOf(T) \in Nat \ {0}
  BY <1>2, <1>3 DEF PagesOf
<1>5. CASE S = {}
  BY <1>4, <1>5 DEF PagesOf
<1>6. CASE S # {}
  <2>1. /\ Cardinality(S) + PageSize - 1 \in Nat /\ Cardinality(T) + PageSize - 1 \in Nat
        /\ Cardinality(S) + PageSize - 1 <= Cardinality(T) + PageSize - 1
    BY <1>1, <1>2
  <2>2. PagesOf(S) = (Cardinality(S) + PageSize - 1) \div PageSize
    BY <1>6 DEF PagesOf
  <2>3. PagesOf(T) = (Cardinality(T) + PageSize - 1) \div PageSize
    BY <1>6 DEF PagesOf
  <2> QED BY <1>1, <1>4, <2>1, <2>2, <2>3, DivisionGrows
<1> QED BY <1>4, <1>5, <1>6

\* The request that is not cancelled asks for what is asked now, and its answer
\* is the one shown once it has come.  The page count shown was right when it
\* was answered, and since then rows have only gone.  Unless rows went or a page
\* was chosen under totals that did not hold, there is such a page.
TableInv ==
    /\ TableTypeOK
    /\ \A r \in requests : r.live => r.query = Query
    /\ isLoading \/ failed \/ shown.query = Query
    /\ shown.totalPages >= 1
    /\ shown.query.page # 0 => shown.totalPages >= PagesOf(Matching(shown.query))
    /\ ~lost /\ ~blind => page <= PagesOf(Matching(Query))

\* The rows that match a query are finitely many, and no more once rows went.
LEMMA MatchingPages ==
    ASSUME listed \subseteq Rows, listed' \subseteq listed, NEW q
    PROVE  /\ PagesOf(Matching(q)) \in Nat \ {0}
           /\ PagesOf(Matching(q)') \in Nat \ {0}
           /\ PagesOf(Matching(q)') <= PagesOf(Matching(q))
<1>1. IsFiniteSet(Matching(q)) /\ Matching(q)' \subseteq Matching(q)
  BY TableAssumption, FS_Subset DEF TableAssumption, Matching
<1> QED BY <1>1, PagesGrow

LEMMA TableInvInit == TableInit => TableInv
<1> SUFFICES ASSUME TableInit PROVE TableInv
  OBVIOUS
<1> USE TableAssumption DEF TableAssumption
<1>1. Query = [page |-> 1, search |-> Everything, filter |-> Everything] /\ Query \in Queries
  BY DEF TableInit, Query, Queries
<1>2. NotYet \in [query: Queries, rows: SUBSET Rows, total: Nat, totalPages: Nat]
      /\ NotYet.totalPages = 1 /\ NotYet.query.page = 0
  BY DEF NotYet, Queries
<1>3. requests \subseteq [query: Queries, live: BOOLEAN] /\ \A r \in requests : r.query = Query
  BY <1>1 DEF TableInit
<1>4. TableTypeOK
  <2>1. {timer, isLoading, failed, lost, blind} \subseteq BOOLEAN
    BY DEF TableInit
  <2>2. /\ table \in AllTables /\ listed \subseteq Rows
        /\ {search, debounced} \subseteq Terms /\ {filters, url} \subseteq Filters
        /\ page \in Nat \ {0} /\ inputs \in 0..MaxInputs /\ shown = NotYet
    BY DEF TableInit
  <2> QED BY <1>2, <1>3, <2>1, <2>2 DEF TableTypeOK
<1>5. IsFiniteSet(Matching(Query))
  BY FS_Subset DEF Matching, TableInit
<1>6. 1 <= PagesOf(Matching(Query))
  BY <1>5, PagesGrow
<1> QED BY <1>2, <1>3, <1>4, <1>6 DEF TableInv, TableInit

\* The fetch effect: its request asks for what is asked now.
LEMMA FetchFits ==
    ASSUME TableTypeOK, Query' \in Queries, Fetch
    PROVE  /\ requests' \subseteq [query: Queries, live: BOOLEAN]
           /\ \A r \in requests' : r.live => r.query = Query'
           /\ isLoading' = TRUE /\ failed' = FALSE
<1>1. PICK q : q = Query'
  OBVIOUS
<1>2. requests' = {[r EXCEPT !.live = FALSE] : r \in requests} \cup {[query |-> q, live |-> TRUE]}
  BY <1>1 DEF Fetch
<1>3. ASSUME NEW r \in requests
      PROVE  /\ [r EXCEPT !.live = FALSE] \in [query: Queries, live: BOOLEAN]
             /\ [r EXCEPT !.live = FALSE].live = FALSE
  BY DEF TableTypeOK
<1>4. [query |-> q, live |-> TRUE] \in [query: Queries, live: BOOLEAN]
  BY <1>1
<1>5. requests' \subseteq [query: Queries, live: BOOLEAN]
  BY <1>2, <1>3, <1>4
<1>6. ASSUME NEW r \in requests', r.live PROVE r.query = q
  BY <1>2, <1>3, <1>6
<1> QED BY <1>1, <1>5, <1>6 DEF Fetch

\* A step that changes what is asked, if at all, together with the fetch.
LEMMA AskingFits ==
    ASSUME TableInv, Query' \in Queries, Fetch \/ FetchIfChanged
    PROVE  /\ requests' \subseteq [query: Queries, live: BOOLEAN]
           /\ \A r \in requests' : r.live => r.query = Query'
           /\ {isLoading', failed'} \subseteq BOOLEAN
           /\ shown' = shown => isLoading' \/ failed' \/ shown'.query = Query'
<1>1. CASE Fetch
  BY <1>1, FetchFits DEF TableInv
<1>2. CASE ~Fetch
  <2>1. Query' = Query /\ UNCHANGED <<requests, isLoading, failed>>
    BY <1>2 DEF FetchIfChanged
  <2>2. \A r \in requests' : r.live => r.query = Query'
    BY <2>1 DEF TableInv
  <2>3. {isLoading', failed'} \subseteq BOOLEAN /\ requests' \subseteq [query: Queries, live: BOOLEAN]
    BY <2>1 DEF TableInv, TableTypeOK
  <2>4. shown' = shown => isLoading' \/ failed' \/ shown'.query = Query'
    BY <2>1 DEF TableInv
  <2> QED BY <2>2, <2>3, <2>4
<1> QED BY <1>1, <1>2

\* Another page: one that exists, unless the totals did not hold.
LEMMA MoveFits ==
    ASSUME TableInv, NEW p \in Nat \ {0}, MoveTo(p),
           ~lost /\ ~blind /\ TotalsHold => p <= PagesOf(Matching(Query))
    PROVE  TableInv'
<1> USE TableAssumption DEF TableAssumption
<1>1. Query' \in Queries
  BY DEF MoveTo, Query, Queries, TableInv, TableTypeOK
<1>2. /\ requests' \subseteq [query: Queries, live: BOOLEAN]
      /\ \A r \in requests' : r.live => r.query = Query'
      /\ {isLoading', failed'} \subseteq BOOLEAN
      /\ isLoading' \/ failed' \/ shown'.query = Query'
  BY <1>1, AskingFits DEF MoveTo
<1>3. blind' \in BOOLEAN
  BY Zenon DEF MoveTo
<1>4. TableTypeOK'
  BY <1>2, <1>3 DEF MoveTo, Input, TableInv, TableTypeOK
<1>6. Matching(Query)' = Matching(Query)
  BY DEF MoveTo, Matching, Query
<1>7. ~lost' /\ ~blind' => page' <= PagesOf(Matching(Query))
  BY DEF MoveTo
<1>8. (/\ shown.totalPages >= 1
       /\ shown.query.page # 0 => shown.totalPages >= PagesOf(Matching(shown.query)))'
  BY DEF MoveTo, TableInv, Matching
<1> QED BY <1>2, <1>4, <1>6, <1>7, <1>8 DEF TableInv

\* What takes the table back to its first page.
LEMMA ResetFits ==
    ASSUME TableInv, ResetPage, Fetch \/ FetchIfChanged, UNCHANGED <<table, listed, shown, url>>,
           {search, debounced}' \subseteq Terms, filters' \in Filters, timer' \in BOOLEAN,
           inputs' \in 0..MaxInputs
    PROVE  TableInv'
<1>1. Query' \in Queries /\ page' = 1
  BY DEF ResetPage, Query, Queries
<1>2. /\ requests' \subseteq [query: Queries, live: BOOLEAN]
      /\ \A r \in requests' : r.live => r.query = Query'
      /\ {isLoading', failed'} \subseteq BOOLEAN
      /\ isLoading' \/ failed' \/ shown'.query = Query'
  BY <1>1, AskingFits
<1>3. TableTypeOK'
  <2>1. lost' \in BOOLEAN /\ blind' \in BOOLEAN
    BY DEF ResetPage
  <2>2. {timer, isLoading, failed, lost, blind}' \subseteq BOOLEAN
    BY <1>2, <2>1
  <2>3. /\ table' \in AllTables /\ listed' \subseteq Rows /\ url' \in Filters
        /\ page' \in Nat \ {0}
        /\ shown' \in [query: Queries, rows: SUBSET Rows, total: Nat, totalPages: Nat]
    BY <1>1 DEF TableInv, TableTypeOK
  <2> QED BY <1>2, <2>2, <2>3 DEF TableTypeOK
<1>4. PagesOf(Matching(Query))' \in Nat \ {0}
  <2>1. IsFiniteSet(Matching(Query))'
    BY FS_Subset, TableAssumption DEF Matching, TableInv, TableTypeOK, TableAssumption
  <2> QED BY <2>1, PagesGrow
<1>5. (/\ shown.totalPages >= 1
       /\ shown.query.page # 0 => shown.totalPages >= PagesOf(Matching(shown.query)))'
  BY DEF TableInv, Matching
<1>6. page' <= PagesOf(Matching(Query))'
  BY <1>1, <1>4
<1> QED BY <1>2, <1>3, <1>5, <1>6 DEF TableInv

\* The page buttons offer pages that exist, if the totals still hold.
LEMMA OfferedPages ==
    ASSUME TableInv, NEW p \in Offered
    PROVE  /\ p \in Nat \ {0}
           /\ page <= shown.totalPages => p <= shown.totalPages
<1>1. /\ page \in Nat \ {0} /\ shown.totalPages \in Nat \ {0}
      /\ p \in PageNumbers(page, shown.totalPages)
                   \cup (IF page = 1 THEN {} ELSE {1, page - 1})
                   \cup (IF page = shown.totalPages THEN {} ELSE {page + 1, shown.totalPages})
  BY DEF Offered, TableInv, TableTypeOK
<1>2. CASE p \in PageNumbers(page, shown.totalPages)
  BY <1>1, <1>2 DEF PageNumbers
<1>3. CASE p \notin PageNumbers(page, shown.totalPages)
  BY <1>1, <1>3
<1> QED BY <1>2, <1>3

LEMMA TableStep == TableInv /\ [TableNext]_tableVars => TableInv'
<1> SUFFICES ASSUME TableInv, [TableNext]_tableVars PROVE TableInv'
  OBVIOUS
<1> USE TableAssumption DEF TableAssumption
<1>0. TableTypeOK /\ page \in Nat \ {0} /\ shown.totalPages \in Nat \ {0}
  BY DEF TableInv, TableTypeOK
<1>1. ASSUME UNCHANGED <<listed, debounced, filters, page, requests, isLoading, failed, shown, lost,
                         blind>>, TableTypeOK'
      PROVE  TableInv'
  BY <1>1 DEF TableInv, Query, Matching
<1>2. ASSUME NEW term \in Terms, SetSearch(term) PROVE TableInv'
  <2>1. TableTypeOK'
    BY <1>0, <1>2 DEF SetSearch, Input, TableTypeOK
  <2> QED BY <1>1, <1>2, <2>1 DEF SetSearch
<1>3. ASSUME NEW value \in Filters, SetFilter(value) PROVE TableInv'
  <2>1. timer' \in BOOLEAN /\ {search, debounced}' \subseteq Terms /\ inputs' \in 0..MaxInputs
    BY <1>0, <1>3 DEF SetFilter, Input, TableTypeOK
  <2> QED BY <1>3, <2>1, ResetFits DEF SetFilter
<1>4. ASSUME NEW value \in Filters, HandleChange(value) PROVE TableInv'
  <2>1. TableTypeOK'
    BY <1>0, <1>4 DEF HandleChange, Input, TableTypeOK
  <2> QED BY <1>1, <1>4, <2>1 DEF HandleChange
<1>5. ASSUME NEW p, GoToPage(p) PROVE TableInv'
  <2>1. p \in Nat \ {0} /\ (page <= shown.totalPages => p <= shown.totalPages)
    BY <1>5, OfferedPages DEF GoToPage
  <2>2. ~lost /\ ~blind /\ TotalsHold => p <= PagesOf(Matching(Query))
    BY <1>0, <2>1 DEF TotalsHold, TableInv
  <2> QED BY <1>5, <2>1, <2>2, MoveFits DEF GoToPage
<1>6. CASE NextPage
  <2> DEFINE p == IF page + 1 <= shown.totalPages THEN page + 1 ELSE shown.totalPages
  <2>1. p \in Nat \ {0} /\ p <= shown.totalPages
    BY <1>0
  <2>2. MoveTo(p)
    BY <1>6 DEF NextPage
  <2> HIDE DEF p
  <2> QED BY <2>1, <2>2, MoveFits DEF TotalsHold
<1>7. CASE PrevPage
  <2> DEFINE p == IF page > 1 THEN page - 1 ELSE 1
  <2>1. p \in Nat \ {0} /\ p <= page
    BY <1>0
  <2>2. MoveTo(p)
    BY <1>7 DEF PrevPage
  <2>3. PagesOf(Matching(Query)) \in Nat
    BY <1>0, FS_Subset, PagesGrow DEF TableTypeOK, Matching
  <2>4. ~lost /\ ~blind => p <= PagesOf(Matching(Query))
    <3> HIDE DEF p
    <3> QED BY <1>0, <2>1, <2>3 DEF TableInv
  <2> HIDE DEF p
  <2> QED BY <2>1, <2>2, <2>4, MoveFits
<1>8. CASE ClearFilters
  <2>1. timer' \in BOOLEAN
    BY <1>8, Zenon DEF ClearFilters
  <2>2. {search, debounced}' \subseteq Terms /\ inputs' \in 0..MaxInputs /\ filters' \in Filters
    BY <1>0, <1>8 DEF ClearFilters, Input, TableTypeOK
  <2> QED BY <1>8, <2>1, <2>2, ResetFits DEF ClearFilters
<1>9. CASE Refresh
  <2>1. Query' = Query /\ Query \in Queries
    BY <1>0, <1>9 DEF Refresh, Query, Queries, TableTypeOK
  <2>2. /\ requests' \subseteq [query: Queries, live: BOOLEAN]
        /\ \A r \in requests' : r.live => r.query = Query'
        /\ isLoading' = TRUE /\ failed' = FALSE
    BY <1>0, <1>9, <2>1, FetchFits DEF Refresh
  <2>3. TableTypeOK'
    <3>1. {timer, isLoading, failed, lost, blind}' \subseteq BOOLEAN
      BY <1>0, <1>9, <2>2 DEF Refresh, TableTypeOK
    <3> QED BY <1>0, <1>9, <2>2, <3>1 DEF Refresh, Input, TableTypeOK
  <2>4. (/\ shown.totalPages >= 1
         /\ shown.query.page # 0 => shown.totalPages >= PagesOf(Matching(shown.query))
         /\ ~lost /\ ~blind => page <= PagesOf(Matching(Query)))'
    BY <1>9 DEF Refresh, TableInv, Matching, Query
  <2> QED BY <2>2, <2>3, <2>4 DEF TableInv
<1>10. CASE DebounceFires
  <2>1. timer' \in BOOLEAN /\ {search, debounced}' \subseteq Terms /\ inputs' \in 0..MaxInputs
        /\ filters' \in Filters
    BY <1>0, <1>10 DEF DebounceFires, TableTypeOK
  <2> QED BY <1>10, <2>1, ResetFits DEF DebounceFires
<1>11. ASSUME NEW r \in requests, Arrives(r) PROVE TableInv'
  <2>1. isLoading' \in BOOLEAN
    BY <1>11, Zenon DEF Arrives
  <2>2. r.query \in Queries /\ r.live \in BOOLEAN
    BY <1>0 DEF TableTypeOK
  <2>3. IsFiniteSet(Matching(r.query)) /\ Matching(r.query) \subseteq Rows
    BY <1>0, FS_Subset DEF TableTypeOK, Matching
  <2>4. PICK answer : answer = Paginate(r.query)
    OBVIOUS
  <2>5. /\ answer.query = r.query /\ answer.totalPages = PagesOf(Matching(r.query))
        /\ answer \in [query: Queries, rows: SUBSET Rows, total: Nat, totalPages: Nat]
    <3>1. Slice(Matching(r.query), r.query.page) \subseteq Rows
      BY <2>3 DEF Slice
    <3>2. Cardinality(Matching(r.query)) \in Nat /\ PagesOf(Matching(r.query)) \in Nat
      BY <2>3, FS_CardinalityType, PagesGrow
    <3> QED BY <2>2, <2>4, <3>1, <3>2 DEF Paginate
  <2>6. /\ shown' = IF r.live THEN answer ELSE shown
        /\ isLoading' = (isLoading /\ ~r.live)
        /\ requests' = requests \ {r} /\ failed' = failed /\ Query' = Query
    BY <1>11, <2>4 DEF Arrives, Applies, Query
  <2>7. TableTypeOK'
    BY <1>0, <1>11, <2>1, <2>5, <2>6 DEF Arrives, TableTypeOK
  <2>8. isLoading' \/ failed' \/ shown'.query = Query'
    BY <2>5, <2>6 DEF TableInv
  <2>9. PICK q : q = shown'.query
    OBVIOUS
  <2>10. shown'.totalPages >= 1 /\ (q.page # 0 => shown'.totalPages >= PagesOf(Matching(q)))
    <3>1. CASE r.live
      <4>1. PagesOf(Matching(r.query)) \in Nat \ {0}
        BY <2>3, PagesGrow
      <4> QED BY <2>5, <2>6, <2>9, <3>1, <4>1
    <3>2. CASE ~r.live
      BY <2>6, <2>9, <3>2 DEF TableInv
    <3> QED BY <3>1, <3>2
  <2>11. (/\ shown.totalPages >= 1
          /\ shown.query.page # 0 => shown.totalPages >= PagesOf(Matching(shown.query)))'
    BY <1>11, <2>9, <2>10 DEF Arrives, Matching
  <2>12. (~lost /\ ~blind => page <= PagesOf(Matching(Query)))'
    BY <1>11 DEF Arrives, TableInv, Matching, Query
  <2>13. \A x \in requests' : x.live => x.query = Query'
    BY <2>6 DEF TableInv
  <2> QED BY <2>7, <2>8, <2>11, <2>12, <2>13 DEF TableInv
<1>12. ASSUME NEW r \in requests, Fails(r) PROVE TableInv'
  <2>1. isLoading' \in BOOLEAN /\ failed' \in BOOLEAN
    BY <1>12, Zenon DEF Fails
  <2>2. /\ failed' = (failed \/ r.live) /\ isLoading' = (isLoading /\ ~r.live)
        /\ requests' = requests \ {r} /\ shown' = shown /\ Query' = Query
    BY <1>12 DEF Fails, Applies, StopsLoading, Query
  <2>3. TableTypeOK'
    BY <1>0, <1>12, <2>1, <2>2 DEF Fails, TableTypeOK
  <2>4. isLoading' \/ failed' \/ shown'.query = Query'
    BY <2>2 DEF TableInv
  <2>5. (/\ shown.totalPages >= 1
         /\ shown.query.page # 0 => shown.totalPages >= PagesOf(Matching(shown.query))
         /\ ~lost /\ ~blind => page <= PagesOf(Matching(Query)))'
    BY <1>12 DEF Fails, TableInv, Matching, Query
  <2>6. \A x \in requests' : x.live => x.query = Query'
    BY <2>2 DEF TableInv
  <2> QED BY <2>3, <2>4, <2>5, <2>6 DEF TableInv
<1>13. ASSUME NEW x \in Rows, RowGoes(x) PROVE TableInv'
  <2>1. TableTypeOK'
    BY <1>0, <1>13 DEF RowGoes, Input, TableTypeOK
  <2>2. PICK q : q = shown.query
    OBVIOUS
  <2>3. PagesOf(Matching(q)') <= PagesOf(Matching(q)) /\ PagesOf(Matching(q)') \in Nat
        /\ PagesOf(Matching(q)) \in Nat
    BY <1>0, <1>13, MatchingPages DEF RowGoes, TableTypeOK
  <2>4. shown' = shown /\ lost' = TRUE /\ Query' = Query
    BY <1>13 DEF RowGoes, Query
  <2>5. q.page # 0 => shown.totalPages >= PagesOf(Matching(q)')
    BY <1>0, <2>2, <2>3 DEF TableInv
  <2>6. (shown.query.page # 0 => shown.totalPages >= PagesOf(Matching(shown.query)))'
    BY <2>2, <2>4, <2>5 DEF Matching
  <2> QED BY <1>13, <2>1, <2>4, <2>6 DEF RowGoes, TableInv
<1>14. CASE UNCHANGED tableVars
  BY <1>0, <1>1, <1>14 DEF tableVars, TableTypeOK
<1> QED BY <1>2, <1>3, <1>4, <1>5, <1>6, <1>7, <1>8, <1>9, <1>10, <1>11, <1>12, <1>13, <1>14
        DEF TableNext

\* useTableData shows the answer to what was asked last, and a page beyond the
\* last one only after rows went or a click under totals that did not hold.
THEOREM ShowsWhatWasAskedCorrect == TableSpec => []ShowsWhatWasAsked
<1>1. TableInv => ShowsWhatWasAsked
  <2> SUFFICES ASSUME TableInv, ~isLoading, ~failed, ~lost, ~blind
               PROVE  shown.query = Query /\ page <= shown.totalPages
    BY DEF ShowsWhatWasAsked, TableInv, TableTypeOK
  <2>1. shown.query = Query /\ page <= PagesOf(Matching(Query))
    BY DEF TableInv
  <2>2. shown.query.page # 0
    BY <2>1 DEF Query, TableInv, TableTypeOK
  <2>3. PagesOf(Matching(Query)) <= shown.totalPages
    BY <2>1, <2>2 DEF TableInv
  <2>4. PagesOf(Matching(Query)) \in Nat
    BY TableAssumption, FS_Subset, PagesGrow DEF TableAssumption, TableInv, TableTypeOK, Matching
  <2> QED BY <2>1, <2>3, <2>4 DEF TableInv, TableTypeOK
<1> QED BY <1>1, TableInvInit, TableStep, PTL DEF TableSpec

-----------------------------------------------------------------------------
(* The types of the components whose invariants leave parts of them out.   *)

LEMMA HoldTypeStep ==
    ASSUME HoldInv, HoldTypeOK, presses \in 0..MaxPresses, [HoldNext]_holdVars
    PROVE  HoldTypeOK' /\ presses' \in 0..MaxPresses
<1> USE HoldAssumption DEF HoldAssumption, HoldTypeOK, NoTimer, Cleanup
<1>0. HoldInv'
  BY HoldInvStep
<1>1. {pressed', held', fullHolds', deleting'} \subseteq Nat
  BY <1>0 DEF HoldInv
<1>2. doubled' \in BOOLEAN
  BY Zenon DEF HoldNext, OpenDialog, HandleOpenChange, StartHold, EndHold, Tick, Deleted,
               TimerFires, holdVars
<1>3. CASE OpenDialog
  BY <1>1, <1>2, <1>3 DEF OpenDialog
<1>4. CASE HandleOpenChange
  BY <1>1, <1>2, <1>4 DEF HandleOpenChange
<1>5. CASE StartHold
  <2>1. presses + 1 \in 1..MaxPresses /\ presses' = presses + 1
    BY <1>5 DEF StartHold
  <2>2. timers' = timers \cup {presses + 1} /\ holdTimer' = presses + 1 /\ elapsed' = 0
        /\ completed' = FALSE /\ dialogOpen' = dialogOpen
    BY <1>5 DEF StartHold
  <2>3. timers' \subseteq 1..MaxPresses /\ holdTimer' \in timers' \cup {NoTimer}
    BY <2>1, <2>2
  <2>4. elapsed' \in 0..HoldDuration /\ presses' \in 0..MaxPresses
    BY <2>1, <2>2
  <2>5. dialogOpen' \in BOOLEAN /\ completed' \in BOOLEAN
    BY <2>2
  <2> QED BY <1>1, <1>2, <2>3, <2>4, <2>5
<1>6. CASE EndHold
  BY <1>1, <1>2, <1>6 DEF EndHold
<1>7. CASE Tick
  BY <1>1, <1>2, <1>7 DEF Tick
<1>8. CASE Deleted
  BY <1>1, <1>2, <1>8 DEF Deleted
<1>9. ASSUME NEW t \in timers, TimerFires(t)
      PROVE  HoldTypeOK' /\ presses' \in 0..MaxPresses
  BY <1>1, <1>2, <1>9 DEF TimerFires
<1>10. CASE UNCHANGED holdVars
  BY <1>10 DEF holdVars
<1> QED BY <1>3, <1>4, <1>5, <1>6, <1>7, <1>8, <1>9, <1>10 DEF HoldNext

LEMMA EditTypeStep ==
    ASSUME EditInv, EditTypeOK, [EditNext]_editVars
    PROVE  EditTypeOK'
<1>1. EditInv'
  BY EditInvStep
<1>2. editor' = editor
  BY DEF EditNext, OpenEditor, ChangeField, CloseEditor, SaveEdit, UpdateRuns, UpdateSucceeds,
         UpdateFails, OtherUserEdits, Rerender, editVars
<1>3. editing' \in BOOLEAN /\ refused' \in BOOLEAN /\ overtaken' \in BOOLEAN
  BY Zenon DEF EditTypeOK, EditNext, OpenEditor, ChangeField, CloseEditor, SaveEdit, UpdateRuns,
               UpdateSucceeds, UpdateFails, OtherUserEdits, Rerender, editVars
<1> QED BY <1>1, <1>2, <1>3 DEF EditInv, EditTypeOK

LEMMA RoleTypeStep ==
    ASSUME RoleInv, RoleTypeOK, [RoleNext]_roleVars
    PROVE  RoleTypeOK'
<1>1. RoleInv'
  BY RoleInvStep
<1>2. editorOpen' \in BOOLEAN
  BY Zenon DEF RoleTypeOK, RoleNext, OpenRole, CloseRole, SaveRole, RoleSaved, RoleAnswered,
               SelectorSearch, TurnPage, Click, RoleArrives, OtherRoleSave, roleVars
<1>3. permPage' \in Nat \ {0}
  <2>1. Cardinality(Permissions) \in Nat
    BY RoleAssumption, FS_CardinalityType
  <2>2. permPage' = permPage \/ permPage' = 1 \/ permPage' \in 1..Cardinality(Permissions)
    BY DEF RoleTypeOK, RoleNext, OpenRole, CloseRole, SaveRole, RoleSaved, RoleAnswered,
           SelectorSearch, TurnPage, Click, RoleArrives, OtherRoleSave, roleVars
  <2> QED BY <2>1, <2>2 DEF RoleTypeOK
<1> QED BY <1>1, <1>2, <1>3 DEF RoleInv, RoleTypeOK, PageIds

\* Dialogs and calls about a row name one, and a call that answers "revoked"
\* one that is.
RowsNamed ==
    \A c \in Components :
        /\ dialog[c].kind \in {"reset", "revoke"} => dialog[c].row \in ListRows
        /\ callIn[c].kind \in {"reset", "revoke"} => callIn[c].row \in ListRows
        /\ callIn[c].kind = "revoked" => callIn[c].row \in revoked

LEMMA CredentialsTypeStep ==
    ASSUME CredentialInv, CredentialsTypeOK, RowsNamed, [CredentialsNext]_credentialVars
    PROVE  CredentialsTypeOK' /\ RowsNamed'
<1>0. CredentialInv'
  BY CredentialInvStep
<1>1. /\ {owner', rendered'} \subseteq [ListRows -> Accounts]
      /\ password' \in [Components -> Accounts \cup {Nothing}]
  BY <1>0 DEF CredentialInv, CredentialRows
<1>2. early' \in BOOLEAN /\ unheard' \in BOOLEAN /\ handedOver' \in BOOLEAN
  BY Zenon DEF CredentialsTypeOK, CredentialsNext, OpenRowDialog, OpenProvisionForm, Opens,
               CloseDialog, Confirm, Issues, Issued, RevocationRuns, Revoked, CallFails,
               TenantHandedOver, credentialVars
<1> DEFINE Kept == /\ rows' \subseteq ListRows /\ revoked' \subseteq ListRows
                   /\ ListRows \ rows' \subseteq revoked' /\ unseen' \subseteq Accounts
                   /\ RowsNamed'
<1> USE DEF CredentialInv, CredentialRows, CredentialsTypeOK, RowsNamed, Closed, NoAction
<1>3. ASSUME NEW c, NEW d, Opens(c, d), d.kind \in {"reset", "revoke"} => d.row \in ListRows
      PROVE  Kept
  BY <1>3 DEF Opens
<1>4. ASSUME NEW r \in ListRows, OpenRowDialog("reset", r) \/ OpenRowDialog("revoke", r)
      PROVE  Kept
  BY <1>3, <1>4 DEF OpenRowDialog
<1>5. ASSUME OpenProvisionForm PROVE Kept
  <2>1. PICK d : Opens("form", d) /\ d.kind = "create"
    BY <1>5 DEF OpenProvisionForm
  <2> QED BY <2>1, <1>3
<1>6. ASSUME NEW c \in Components, CloseDialog(c) PROVE Kept
  BY <1>6 DEF CloseDialog
<1>7. ASSUME NEW c \in Components, Confirm(c) PROVE Kept
  BY <1>7 DEF Confirm
<1>8. ASSUME NEW c \in Components, Issues(c) PROVE Kept
  BY <1>8 DEF Issues
<1>9. ASSUME NEW c \in Components, Issued(c) PROVE Kept
  BY <1>9 DEF Issued, ShowAnswer
<1>10. ASSUME NEW c \in Components, RevocationRuns(c) PROVE Kept
  BY <1>10 DEF RevocationRuns
<1>11. ASSUME NEW c \in Components, Revoked(c) PROVE Kept
  BY <1>11 DEF Revoked
<1>12. ASSUME NEW c \in Components, CallFails(c) PROVE Kept
  BY <1>12 DEF CallFails
<1>13. ASSUME NEW r \in ListRows, NEW a \in Accounts, TenantHandedOver(r, a) PROVE Kept
  BY <1>13 DEF TenantHandedOver
<1>14. ASSUME UNCHANGED credentialVars PROVE Kept
  BY <1>14 DEF credentialVars
<1>15. Kept
  BY <1>4, <1>5, <1>6, <1>7, <1>8, <1>9, <1>10, <1>11, <1>12, <1>13, <1>14 DEF CredentialsNext
<1> QED BY <1>1, <1>2, <1>15

-----------------------------------------------------------------------------
(* All components, as the run explores them.                               *)

ConsoleInv ==
    /\ TableInv /\ FormsInv
    /\ EditInv /\ EditTypeOK
    /\ HoldInv /\ HoldTypeOK /\ presses \in 0..MaxPresses
    /\ RoleInv /\ RoleTypeOK
    /\ CredentialInv /\ CredentialsTypeOK /\ RowsNamed
    /\ ScreenInv

LEMMA ConsoleInvInit == ConsoleInit => ConsoleInv
<1> SUFFICES ASSUME ConsoleInit PROVE ConsoleInv
  OBVIOUS
<1>1. TableInit /\ FormsInit /\ EditInit /\ HoldInit /\ RoleInit /\ CredentialsInit /\ ScreenInit
  BY DEF ConsoleInit
<1>2. TableInv /\ FormsInv /\ EditInv /\ HoldInv /\ RoleInv /\ CredentialInv /\ ScreenInv
  BY <1>1, TableInvInit, FormsInvInit, EditInvInit, HoldInvInit, RoleInvInit, CredentialInvInit,
     ScreenInvInit, ConstantsAssumption, ScreenAssumption
<1>3. EditTypeOK
  BY <1>1, <1>2 DEF EditInit, EditInv, EditTypeOK
<1>4. HoldTypeOK /\ presses \in 0..MaxPresses
  <2>1. timers \subseteq 1..MaxPresses /\ holdTimer \in timers \cup {NoTimer}
    BY <1>1 DEF HoldInit
  <2>2. elapsed \in 0..HoldDuration /\ presses \in 0..MaxPresses
        /\ {pressed, held, fullHolds, deleting} \subseteq Nat
    BY <1>1, HoldAssumption DEF HoldInit, HoldAssumption
  <2>3. dialogOpen \in BOOLEAN /\ completed \in BOOLEAN /\ doubled \in BOOLEAN
    BY <1>1 DEF HoldInit
  <2> QED BY <2>1, <2>2, <2>3 DEF HoldTypeOK
<1>5. RoleTypeOK
  BY <1>1, <1>2 DEF RoleInit, RoleInv, RoleTypeOK, PageIds
<1>6. CredentialsTypeOK /\ RowsNamed
  BY <1>1, <1>2 DEF CredentialsInit, CredentialInv, CredentialRows, CredentialsTypeOK, RowsNamed,
                    Closed, NoAction
<1> QED BY <1>2, <1>3, <1>4, <1>5, <1>6 DEF ConsoleInv

\* Every step of the run is a step of each component, or leaves it alone.
LEMMA ConsoleSteps ==
    [ConsoleNext]_vars =>
        /\ [TableNext]_tableVars /\ [FormsNext]_formsVars /\ [EditNext]_editVars
        /\ [HoldNext]_holdVars /\ [RoleNext]_roleVars /\ [CredentialsNext]_credentialVars
        /\ [ScreenNext]_<<dataVars, screenVars>>
BY DEF ConsoleNext, vars, outboundVars

LEMMA ConsoleInvStep == ConsoleInv /\ [ConsoleNext]_vars => ConsoleInv'
BY ConsoleSteps, TableStep, FormsInvStep, EditInvStep, EditTypeStep, HoldInvStep, HoldTypeStep,
   RoleInvStep, RoleTypeStep, CredentialInvStep, CredentialsTypeStep, ScreenInvStep DEF ConsoleInv

\* The run's specification is one of each component, the fairness of the table
\* aside: what is proved of the components, here and in ScreenProofs, holds of
\* what the run checks.
THEOREM ConsoleImplements ==
    ConsoleSpec => /\ TableInit /\ [][TableNext]_tableVars
                   /\ FormsSpec /\ EditSpec /\ HoldSpec /\ RoleSpec /\ CredentialsSpec /\ ScreenSpec
<1>1. ConsoleInit => /\ TableInit /\ FormsInit /\ EditInit /\ HoldInit /\ RoleInit
                     /\ CredentialsInit /\ ScreenInit
  BY DEF ConsoleInit
<1> QED BY <1>1, ConsoleSteps, PTL DEF ConsoleSpec, FormsSpec, EditSpec, HoldSpec, RoleSpec,
                                       CredentialsSpec, ScreenSpec

\* The components of the console keep their types, whatever the browser sends,
\* loses and receives late.
THEOREM ConsoleTypeCorrect == ConsoleSpec => []ConsoleTypeOK
<1>1. ConsoleInv => ConsoleTypeOK
  BY DEF ConsoleInv, TableInv, FormsInv, ScreenInv, ScreenRows, ConsoleTypeOK, ScreenTypeOK
<1> QED BY <1>1, ConsoleInvInit, ConsoleInvStep, PTL DEF ConsoleSpec

=============================================================================
