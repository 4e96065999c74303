-------------------------------- MODULE Forms --------------------------------
(***************************************************************************)
(* The forms that create something, and the server actions behind them:    *)
(* open, fill in, submit in a transition, close, and the answer that       *)
(* empties the form or shows an error in it.  One form is followed at a    *)
(* time; they share nothing.                                               *)
(*                                                                         *)
(* In the modal forms the cross and the overlay close the form while a     *)
(* submission is still under way; Cancel and Submit are disabled then.     *)
(***************************************************************************)
EXTENDS Integers

(***************************************************************************)
(* What the server actions insist on: the fields, of several such sets     *)
(* one, that must be there for the backend to be called.                   *)
(***************************************************************************)
submitSalesOrder       == {{"source", "customer", "lines"}}
submitInternalTransfer == {{"source", "destination", "lines"}}
submitNewPurchaseOrder == {{"supplier", "warehouse", "lines"}}
submitNewSupplier      == {{"name"}}
submitNewProduct       == {{"sku", "name"}}
submitCreateWarehouse  == {{"name"}}
submitCreateUser       == {{"email"}}
submitCreateRole       == {{"name"}}
submitAssignRole       == {{"role"}}
submitAssignWarehouse  == {{"warehouse"}}

\* "type" stands for a type other than an adjustment: a reason is optional then.
submitManualAdjustment == {{"warehouse", "delta", "reason"}, {"warehouse", "delta", "type"}}

(***************************************************************************)
(* What the forms differ in.                                               *)
(*   fields:  that can be filled in                                        *)
(*   starts:  those that are filled in as the form starts                  *)
(*   asked:   those that must be filled in before it can be submitted (of  *)
(*            several such sets, one): required inputs, or the condition   *)
(*            that disables the button                                     *)
(*   checked: those the server action insists on                           *)
(*   emptied: when the form starts anew: as it closes, as it opens, or     *)
(*            after a success (this one is part of the page, always open)  *)
(***************************************************************************)
FormOf(fields, starts, asked, checked, emptied) ==
    [fields |-> fields, starts |-> starts, asked |-> asked, checked |-> checked,
     emptied |-> emptied]

SalesOrderForm ==
    FormOf({"source", "customer", "lines"}, {}, {{"source", "customer"}},
           submitSalesOrder, "closing")

TransferForm ==
    FormOf({"source", "destination", "lines"}, {}, {{"source", "destination"}},
           submitInternalTransfer, "closing")

\* The order date starts as today.
PurchaseOrderForm ==
    FormOf({"supplier", "warehouse", "ordered", "expected", "lines"}, {"ordered"},
           {{"supplier", "warehouse", "ordered", "expected"}}, submitNewPurchaseOrder, "closing")

SupplierForm ==
    FormOf({"name", "email", "leadTime"}, {}, {{"name"}}, submitNewSupplier, "closing")

ProductForm ==
    FormOf({"sku", "name", "category", "cost"}, {}, {{"sku", "name", "category", "cost"}},
           submitNewProduct, "closing")

WarehouseForm == FormOf({"name", "address"}, {}, {{"name"}}, submitCreateWarehouse, "opening")

UserForm ==
    FormOf({"email", "username", "role"}, {}, {{"email", "role"}}, submitCreateUser, "opening")

RoleForm == FormOf({"name", "permissions"}, {}, {{"name"}}, submitCreateRole, "opening")

RoleAssignmentForm == FormOf({"role"}, {}, {{"role"}}, submitAssignRole, "opening")

WarehouseAssignmentForm ==
    FormOf({"warehouse"}, {}, {{"warehouse"}}, submitAssignWarehouse, "opening")

AdjustmentForm ==
    FormOf({"warehouse", "type", "delta", "reason"}, {},
           {{"warehouse", "delta", "reason"}, {"warehouse", "delta", "type"}},
           submitManualAdjustment, "success")

AllForms ==
    {SalesOrderForm, TransferForm, PurchaseOrderForm, SupplierForm, ProductForm,
     WarehouseForm, UserForm, RoleForm, RoleAssignmentForm, WarehouseAssignmentForm,
     AdjustmentForm}

CONSTANT MaxFormInputs    \* bound on openings, edits and submissions

ASSUME FormsAssumption == MaxFormInputs \in Nat

VARIABLES
    form,                 \* the form that is followed
    open, draft, error,   \* its useState; draft: the fields that are filled in
    sent,                 \* submissions under way: the draft, and whether it is stored
    formInputs,
    saved,      \* history: how often the backend stored something since the form started anew
    busy,       \* history: the user typed or closed during a submission since then
    unanswered, \* history: the backend stored something and the answer was an error
    wiped       \* history: an answer took away fields that had not been stored

formsVars == <<form, open, draft, error, sent, formInputs, saved, busy, unanswered, wiped>>

FormsInit ==
    /\ form \in AllForms
    /\ open = (form.emptied = "success") /\ draft = form.starts
    /\ error = FALSE /\ sent = {} /\ formInputs = 0
    /\ saved = 0 /\ busy = FALSE /\ unanswered = FALSE /\ wiped = FALSE

FormInput == formInputs < MaxFormInputs /\ formInputs' = formInputs + 1

IsPending == sent # {}

-----------------------------------------------------------------------------
(* The user.                                                               *)

HandleOpen ==
    /\ FormInput
    /\ ~open /\ open' = TRUE
    /\ IF form.emptied = "opening" THEN draft' = form.starts /\ error' = FALSE
       ELSE UNCHANGED <<draft, error>>
    /\ saved' = 0 /\ unanswered' = FALSE /\ wiped' = FALSE
    /\ busy' = IsPending
    /\ UNCHANGED <<form, sent>>

\* A field is filled in or emptied; none is disabled during a submission.
Edit(x) ==
    /\ FormInput
    /\ open
    /\ draft' = IF x \in draft THEN draft \ {x} ELSE draft \cup {x}
    /\ busy' = (busy \/ IsPending)
    /\ UNCHANGED <<form, open, error, sent, saved, unanswered, wiped>>

\* setOpen(false) or close().
Shut ==
    /\ open' = FALSE
    /\ IF form.emptied = "closing" THEN draft' = form.starts /\ error' = FALSE
       ELSE UNCHANGED <<draft, error>>

\* The cross, the overlay, the Escape key; Cancel does the same if nothing is
\* under way.
CloseForm ==
    /\ open /\ form.emptied # "success"
    /\ Shut
    /\ busy' = (busy \/ IsPending)
    /\ UNCHANGED <<form, sent, formInputs, saved, unanswered, wiped>>

FilledIn == \E fields \in form.asked : fields \subseteq draft

FaultyMaySubmit == open /\ FilledIn

\* The submit button.
MaySubmit == open /\ FilledIn /\ ~IsPending

HandleSubmit ==
    /\ FormInput
    /\ MaySubmit
    /\ error' = FALSE
    /\ sent' = sent \cup {[draft |-> draft, state |-> "sent"]}
    /\ UNCHANGED <<form, open, draft, saved, busy, unanswered, wiped>>

-----------------------------------------------------------------------------
(* The server action and its answer.                                       *)

\* The action's checks pass and the backend stores the draft.
ActionRuns(s) ==
    /\ s \in sent /\ s.state = "sent"
    /\ \E fields \in form.checked : fields \subseteq s.draft
    /\ sent' = (sent \ {s}) \cup {[s EXCEPT !.state = "stored"]}
    /\ saved' = saved + 1
    /\ UNCHANGED <<form, open, draft, error, formInputs, busy, unanswered, wiped>>

\* The form starts anew, whatever is in it by now.
Succeeds(s) ==
    /\ s \in sent /\ s.state = "stored"
    /\ sent' = sent \ {s}
    /\ IF form.emptied = "success"
       THEN draft' = draft \ {"delta", "reason"} /\ UNCHANGED <<open, error>>
       ELSE Shut
    /\ wiped' = (wiped \/ (open /\ draft # s.draft))
    /\ saved' = 0 /\ unanswered' = FALSE
    /\ UNCHANGED <<form, formInputs, busy>>

\* A check of the action or of the backend failed, or the answer was lost on
\* its way after the backend ran; the fields stay as they are.
ReportsError(s) ==
    /\ s \in sent
    /\ sent' = sent \ {s}
    /\ error' = TRUE
    /\ unanswered' = (unanswered \/ s.state = "stored")
    /\ UNCHANGED <<form, open, draft, formInputs, saved, busy, wiped>>

FormsNext ==
    \/ HandleOpen \/ CloseForm \/ HandleSubmit
    \/ \E x \in form.fields : Edit(x)
    \/ \E s \in sent : ActionRuns(s) \/ Succeeds(s) \/ ReportsError(s)

FormsSpec == FormsInit /\ [][FormsNext]_formsVars

-----------------------------------------------------------------------------
FormsTypeOK ==
    /\ form \in AllForms /\ draft \subseteq form.fields
    /\ sent \subseteq [draft: SUBSET form.fields, state: {"sent", "stored"}]
    /\ open \in BOOLEAN /\ error \in BOOLEAN
    /\ busy \in BOOLEAN /\ unanswered \in BOOLEAN /\ wiped \in BOOLEAN
    /\ saved \in Nat /\ formInputs \in 0..MaxFormInputs

\* What is filled in and submitted once is created once, however often Submit is
\* pressed and the form closed and opened, unless an answer was lost (the user,
\* shown an error, repeats what was done); and an answer takes nothing away that
\* was not stored, unless it was typed, or the form reopened, while it was
\* under way.
CreatesOnce == (saved > 1 => unanswered) /\ (wiped => busy)

=============================================================================
