------------------------------ MODULE MCConsole ------------------------------
(***************************************************************************)
(* Instances of the browser's components for TLC.  They share no state:    *)
(* part says which of them a behaviour explores.                           *)
(***************************************************************************)
EXTENDS TableView, Forms, EditForms, HoldToConfirm, RoleEditor, Credentials, OutboundScreen

VARIABLE part

\* A term that narrows the table to one row, a filter value that leaves two.
TableTerms   == {"", "a"}
TableFilters == {"", "f"}
TableHits    == [x \in TableTerms \cup TableFilters |->
                    CASE x = "" -> Rows [] x = "a" -> {2} [] x = "f" -> {1, 2}]

SelectorHits == [all |-> Permissions, second |-> {2}]

OneUnit   == [w \in Warehouses |-> [p \in Products |-> 1]]
TakeOne   == {-1}
UpToTwo   == 0..2

outboundVars == <<dataVars, screenVars>>

vars == <<tableVars, formsVars, editVars, holdVars, roleVars, credentialVars, outboundVars, part>>

\* The components that are not explored start in one way only.
ConsoleInit ==
    /\ part \in {"table", "forms", "edit", "hold", "roles", "credentials", "outbound"}
    /\ TableInit /\ FormsInit /\ EditInit /\ HoldInit /\ RoleInit /\ CredentialsInit /\ ScreenInit
    /\ permSearch = "all"
    /\ part = "table" \/ table = InventoryTable
    /\ part = "forms" \/ form = SupplierForm
    /\ \/ part = "edit"
       \/ editor = WarehouseEditor /\ stored = [x \in editor.fields |-> CHOOSE v \in Values : TRUE]
    /\ part = "roles" \/ rolePerms = {}
    /\ \/ part = "credentials"
       \/ screen = TenantRowActions /\ owner = [r \in ListRows |-> CHOOSE a \in Accounts : TRUE]

ConsoleNext ==
    /\ UNCHANGED part
    /\ \/ part = "table" /\ TableNext
          /\ UNCHANGED <<formsVars, editVars, holdVars, roleVars, credentialVars, outboundVars>>
       \/ part = "forms" /\ FormsNext
          /\ UNCHANGED <<tableVars, editVars, holdVars, roleVars, credentialVars, outboundVars>>
       \/ part = "edit" /\ EditNext
          /\ UNCHANGED <<tableVars, formsVars, holdVars, roleVars, credentialVars, outboundVars>>
       \/ part = "hold" /\ HoldNext
          /\ UNCHANGED <<tableVars, formsVars, editVars, roleVars, credentialVars, outboundVars>>
       \/ part = "roles" /\ RoleNext
          /\ UNCHANGED <<tableVars, formsVars, editVars, holdVars, credentialVars, outboundVars>>
       \/ part = "credentials" /\ CredentialsNext
          /\ UNCHANGED <<tableVars, formsVars, editVars, holdVars, roleVars, outboundVars>>
       \/ part = "outbound" /\ ScreenNext
          /\ UNCHANGED <<tableVars, formsVars, editVars, holdVars, roleVars, credentialVars>>

\* The fairness of the table, where it is explored.
ConsoleFairness ==
    /\ WF_tableVars(part = "table" /\ DebounceFires)
    /\ WF_tableVars(part = "table" /\ \E r \in requests : Arrives(r) \/ Fails(r))

ConsoleSpec == ConsoleInit /\ [][ConsoleNext]_vars /\ ConsoleFairness

ConsoleTypeOK ==
    /\ TableTypeOK /\ FormsTypeOK /\ EditTypeOK /\ HoldTypeOK /\ RoleTypeOK
    /\ CredentialsTypeOK /\ ScreenTypeOK

\* Settles, where the table is explored: useTableData comes to rest.
TableSettles == part = "table" => Settles

=============================================================================
