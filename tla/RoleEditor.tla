------------------------------ MODULE RoleEditor ------------------------------
(***************************************************************************)
(* EditRoleModal and its PermissionSelector: opening the form asks for the *)
(* role's permissions, and the boxes show the last answer, of whichever    *)
(* opening, until the user clicks them; Save sends all of the boxes.  The  *)
(* selector filters and pages what it shows.  Saving and closing do not    *)
(* wait for the permissions to arrive.                                     *)
(***************************************************************************)
EXTENDS Integers, FiniteSets

CONSTANTS
    Permissions,  \* numbered in the order of the list
    PermHits,     \* the permissions that match each search term
    PermPageSize,
    MaxRoleInputs \* bound on what the users do

ASSUME RoleAssumption ==
    /\ Permissions \subseteq Nat /\ IsFiniteSet(Permissions)
    /\ \A term \in DOMAIN PermHits : PermHits[term] \subseteq Permissions
    /\ PermPageSize \in Nat \ {0} /\ MaxRoleInputs \in Nat

VARIABLES
    rolePerms,      \* in the database
    editorOpen,
    permissionIds,  \* the boxes that are ticked
    permSearch, permPage,
    loads,          \* answers to getRoleDetail on their way: what they say
    roleSave,       \* the save under way, or NoSave
    roleInputs,
    rolesVersion,   \* history: counts the changes of the role
    basis,          \* history: the version the boxes were loaded from since the form
                    \* was opened, or 0
    clicked         \* history: boxes the user clicked since then

roleVars == <<rolePerms, editorOpen, permissionIds, permSearch, permPage, loads, roleSave,
              roleInputs, rolesVersion, basis, clicked>>

NoSave == [ticked |-> {}, basis |-> 0, clicked |-> {}, state |-> "none"]

RoleInit ==
    /\ rolePerms \in SUBSET Permissions
    /\ editorOpen = FALSE /\ permissionIds = {}
    /\ permSearch \in DOMAIN PermHits /\ permPage = 1
    /\ loads = {} /\ roleSave = NoSave
    /\ roleInputs = 0 /\ rolesVersion = 1 /\ basis = 0 /\ clicked = {}

RoleInput == roleInputs < MaxRoleInputs /\ roleInputs' = roleInputs + 1

-----------------------------------------------------------------------------
(* What the selector shows.                                                *)

Filtered == PermHits[permSearch]

TotalPages ==
    IF Filtered = {} THEN 1
    ELSE (Cardinality(Filtered) + PermPageSize - 1) \div PermPageSize

SafePage == IF permPage <= TotalPages THEN permPage ELSE TotalPages

PageIds ==
    {p \in Filtered : LET rank == Cardinality({x \in Filtered : x <= p})
                      IN  (SafePage - 1) * PermPageSize < rank /\ rank <= SafePage * PermPageSize}

SelectorSearch(term) ==
    /\ RoleInput /\ editorOpen
    /\ permSearch # term /\ permSearch' = term /\ permPage' = 1
    /\ UNCHANGED <<rolePerms, editorOpen, permissionIds, loads, roleSave,
                   rolesVersion, basis, clicked>>

TurnPage(p) ==
    /\ editorOpen
    /\ \/ SafePage > 1 /\ p = permPage - 1
       \/ SafePage < TotalPages /\ p = permPage + 1
    /\ permPage' = p
    /\ UNCHANGED <<rolePerms, editorOpen, permissionIds, permSearch, loads, roleSave,
                   roleInputs, rolesVersion, basis, clicked>>

FaultyToggle(ids) == IF ids \subseteq permissionIds THEN permissionIds \ ids ELSE ids

\* All of ids are ticked, unless they are already: then none.
Toggle(ids) == IF ids \subseteq permissionIds THEN permissionIds \ ids ELSE permissionIds \cup ids

\* toggleOne, togglePage and toggleAllFiltered.
Click ==
    /\ RoleInput /\ editorOpen
    /\ \E ids \in {{p} : p \in PageIds} \cup {PageIds, Filtered} :
           permissionIds' = Toggle(ids) /\ clicked' = clicked \cup ids
    /\ UNCHANGED <<rolePerms, editorOpen, permSearch, permPage, loads, roleSave,
                   rolesVersion, basis>>

-----------------------------------------------------------------------------
(* The form.                                                               *)

\* The selector is mounted anew; the boxes are as they were left.
OpenRole ==
    /\ RoleInput
    /\ ~editorOpen /\ editorOpen' = TRUE
    /\ loads' = loads \cup {[perms |-> rolePerms, version |-> rolesVersion]}
    /\ permSearch' \in {term \in DOMAIN PermHits : PermHits[term] = Permissions}
    /\ permPage' = 1
    /\ basis' = 0 /\ clicked' = {}
    /\ UNCHANGED <<rolePerms, permissionIds, roleSave, rolesVersion>>

\* The answer fills the boxes, open or closed; a failed call leaves them.
RoleArrives(answer) ==
    /\ answer \in loads
    /\ loads' = loads \ {answer}
    /\ \/ permissionIds' = answer.perms /\ basis' = answer.version
       \/ UNCHANGED <<permissionIds, basis>>
    /\ UNCHANGED <<rolePerms, editorOpen, permSearch, permPage, roleSave,
                   roleInputs, rolesVersion, clicked>>

CloseRole ==
    /\ editorOpen /\ editorOpen' = FALSE
    /\ UNCHANGED <<rolePerms, permissionIds, permSearch, permPage, loads, roleSave,
                   roleInputs, rolesVersion, basis, clicked>>

\* Save waits for nothing but the save before it.
SaveRole ==
    /\ RoleInput /\ editorOpen
    /\ roleSave = NoSave
    /\ roleSave' = [ticked |-> permissionIds, basis |-> basis, clicked |-> clicked,
                    state |-> "sent"]
    /\ UNCHANGED <<rolePerms, editorOpen, permissionIds, permSearch, permPage, loads,
                   rolesVersion, basis, clicked>>

\* update_role replaces the role's permissions.
RoleSaved ==
    /\ roleSave.state = "sent"
    /\ roleSave' = [roleSave EXCEPT !.state = "saved"]
    /\ rolePerms' = roleSave.ticked
    /\ rolesVersion' = rolesVersion + 1
    /\ UNCHANGED <<editorOpen, permissionIds, permSearch, permPage, loads, roleInputs,
                   basis, clicked>>

\* The form closes on success and shows the error otherwise.
RoleAnswered ==
    /\ roleSave # NoSave
    /\ roleSave' = NoSave
    /\ \/ roleSave.state = "saved" /\ editorOpen' = FALSE
       \/ UNCHANGED editorOpen
    /\ UNCHANGED <<rolePerms, permissionIds, permSearch, permPage, loads, roleInputs,
                   rolesVersion, basis, clicked>>

\* Another administrator saves the role.
OtherRoleSave ==
    /\ RoleInput
    /\ rolePerms' \in SUBSET Permissions
    /\ rolesVersion' = rolesVersion + 1
    /\ UNCHANGED <<editorOpen, permissionIds, permSearch, permPage, loads, roleSave,
                   basis, clicked>>

RoleNext ==
    \/ OpenRole \/ CloseRole \/ SaveRole \/ RoleSaved \/ RoleAnswered
    \/ \E term \in DOMAIN PermHits : SelectorSearch(term)
    \/ \E p \in 1..Cardinality(Permissions) : TurnPage(p)
    \/ Click
    \/ \E answer \in loads : RoleArrives(answer)
    \/ OtherRoleSave

RoleSpec == RoleInit /\ [][RoleNext]_roleVars

-----------------------------------------------------------------------------
RoleTypeOK ==
    /\ {rolePerms, permissionIds, clicked} \subseteq SUBSET Permissions
    /\ editorOpen \in BOOLEAN /\ permSearch \in DOMAIN PermHits /\ permPage \in Nat \ {0}
    /\ basis \in 0..rolesVersion /\ PageIds \subseteq Filtered

\* A save changes no permission whose box the user left alone, hidden by the
\* search or on another page though it may be, unless it was sent before the
\* permissions had arrived or they have changed since they were read.
RoleKeepsPermissions ==
    [][roleSave.state = "sent" /\ roleSave'.state = "saved" =>
          \/ rolePerms' \ roleSave.clicked = rolePerms \ roleSave.clicked
          \/ roleSave.basis # rolesVersion]_roleVars

=============================================================================
