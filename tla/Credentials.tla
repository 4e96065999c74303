----------------------------- MODULE Credentials -----------------------------
(***************************************************************************)
(* The platform screens that hand out passwords: the reset and revoke (or  *)
(* delete) dialogs of the platform administrators (one pair of dialogs     *)
(* over all rows) and of the tenants (one pair per row), and the forms     *)
(* that provision an account.  A password is returned once, by the call    *)
(* that issued it, and shown under an address: that of the row the dialog  *)
(* is open on, or the one the call returned.                               *)
(***************************************************************************)
EXTENDS Integers

CONSTANTS
    ListRows, Accounts,
    Nothing,
    MaxDialogs          \* bound on dialogs opened and rows changed by others

ASSUME CredentialsAssumption == Nothing \notin Accounts /\ MaxDialogs \in Nat

(***************************************************************************)
(* What the screens differ in.                                             *)
(*   dialogs: "one" state for all rows, or one for "each" row              *)
(*   leaves:  whether a row goes from the screen when it is revoked or     *)
(*            deleted: it stays in a table that the browser fetched        *)
(***************************************************************************)
ScreenOf(dialogs, leaves) == [dialogs |-> dialogs, leaves |-> leaves]

PlatformAdminsClient == ScreenOf("one", {FALSE})

PlatformAdminsList == ScreenOf("one", {TRUE})

\* The rows of the tenants' page and those of the platform dashboard.
TenantRowActions == ScreenOf("each", {FALSE, TRUE})

VARIABLES
    screen,      \* the screen that is followed
    rows,        \* its rows
    revoked,     \* rows that were revoked or deleted
    owner,       \* the account behind each row
    rendered,    \* the account each row shows
    dialog,      \* of every component: what is open, or Closed
    password,    \* the account of the password the component keeps, or Nothing
    callIn,      \* the call under way in it, or NoAction
    dialogs,
    unseen,      \* history: accounts whose password nobody has seen under their address
    early,       \* history: a dialog was closed during its call
    unheard,     \* history: a call issued a password and its answer was an error
    handedOver     \* history: a row was changed by others since it was rendered

credentialVars == <<screen, rows, revoked, owner, rendered, dialog, password, callIn, dialogs,
                    unseen, early, unheard, handedOver>>

Components == ListRows \cup {"list", "form"}

ComponentOf(r) == IF screen.dialogs = "one" THEN "list" ELSE r

Closed   == [kind |-> "closed", row |-> Nothing]
NoAction == [kind |-> "none", row |-> Nothing, account |-> Nothing]

CredentialsInit ==
    /\ screen \in {PlatformAdminsClient, PlatformAdminsList, TenantRowActions}
    /\ rows = ListRows /\ revoked = {}
    /\ owner \in [ListRows -> Accounts] /\ rendered = owner
    /\ screen.dialogs = "one" => \A r, q \in ListRows : owner[r] = owner[q] => r = q
    /\ dialog = [c \in Components |-> Closed] /\ password = [c \in Components |-> Nothing]
    /\ callIn = [c \in Components |-> NoAction] /\ dialogs = 0
    /\ unseen = {} /\ early = FALSE /\ unheard = FALSE /\ handedOver = FALSE

CallPending(c) == callIn[c].kind # "none"

NothingOpen == \A c \in Components : dialog[c].kind = "closed"

-----------------------------------------------------------------------------
(* The user.                                                               *)

Opens(c, d) ==
    /\ dialogs < MaxDialogs /\ dialogs' = dialogs + 1
    /\ NothingOpen
    /\ dialog' = [dialog EXCEPT ![c] = d]
    /\ password' = [password EXCEPT ![c] = Nothing]
    /\ UNCHANGED <<screen, rows, revoked, owner, rendered, callIn, unseen, early, unheard,
                   handedOver>>

OpenRowDialog(kind, r) == r \in rows /\ Opens(ComponentOf(r), [kind |-> kind, row |-> r])

OpenProvisionForm == Opens("form", [kind |-> "create", row |-> Nothing])

\* The cross and the overlay at any time; Cancel and Done.
CloseDialog(c) ==
    /\ dialog[c].kind # "closed"
    /\ dialog' = [dialog EXCEPT ![c] = Closed]
    /\ password' = [password EXCEPT ![c] = Nothing]
    /\ early' = (early \/ CallPending(c))
    /\ UNCHANGED <<screen, rows, revoked, owner, rendered, callIn, dialogs, unseen, unheard,
                   handedOver>>

\* handleReset, handleRevoke, handleDelete and handleSubmit.  Only a dialog that
\* shows a password takes its button away.
Confirm(c) ==
    /\ dialog[c].kind # "closed"
    /\ ~CallPending(c) /\ (dialog[c].kind = "revoke" \/ password[c] = Nothing)
    /\ callIn' = [callIn EXCEPT ![c] =
                     [kind |-> dialog[c].kind, row |-> dialog[c].row, account |-> Nothing]]
    /\ UNCHANGED <<screen, rows, revoked, owner, rendered, dialog, password, dialogs, unseen,
                   early, unheard, handedOver>>

-----------------------------------------------------------------------------
(* The call.                                                               *)

\* The backend issues a password for the row's account, or for a new one.
Issues(c) ==
    /\ callIn[c].kind \in {"reset", "create"} /\ callIn[c].account = Nothing
    /\ \E a \in Accounts :
           /\ callIn[c].kind = "reset" =>
                  callIn[c].row \notin revoked /\ a = owner[callIn[c].row]
           /\ callIn' = [callIn EXCEPT ![c].account = a]
           /\ unseen' = unseen \cup {a}
    /\ UNCHANGED <<screen, rows, revoked, owner, rendered, dialog, password, dialogs, early,
                   unheard, handedOver>>

\* The address beside the password.
AddressIn(c) == IF c = "form" THEN password[c] ELSE rendered[dialog[c].row]

\* A password is on the screen.
ShowsPassword(c) == dialog[c].kind \in {"reset", "create"} /\ password[c] # Nothing

FaultyShowAnswer(c) ==
    /\ dialog' = [dialog EXCEPT ![c] = Closed]
    /\ password' = [password EXCEPT ![c] = Nothing]

\* The state keeps the password, whichever dialog is open by now.
ShowAnswer(c) ==
    /\ password' = [password EXCEPT ![c] = callIn[c].account]
    /\ UNCHANGED dialog

Issued(c) ==
    /\ callIn[c].account # Nothing
    /\ callIn' = [callIn EXCEPT ![c] = NoAction]
    /\ ShowAnswer(c)
    /\ UNCHANGED <<screen, rows, revoked, owner, rendered, dialogs, early, unheard, handedOver>>
    /\ unseen' = unseen \ {a \in {password'[c]} : ShowsPassword(c)' /\ AddressIn(c)' = a}

\* The backend revokes the role or deletes the tenant, once.
RevocationRuns(c) ==
    /\ callIn[c].kind = "revoke" /\ callIn[c].row \notin revoked
    /\ callIn' = [callIn EXCEPT ![c].kind = "revoked"]
    /\ revoked' = revoked \cup {callIn[c].row}
    /\ UNCHANGED <<screen, rows, owner, rendered, dialog, password, dialogs, unseen,
                   early, unheard, handedOver>>

\* close(), whichever dialog is open by now.
Revoked(c) ==
    /\ callIn[c].kind = "revoked"
    /\ \E leaves \in screen.leaves :
           rows' = IF leaves THEN rows \ {callIn[c].row} ELSE rows
    /\ callIn' = [callIn EXCEPT ![c] = NoAction]
    /\ dialog' = [dialog EXCEPT ![c] = Closed]
    /\ password' = [password EXCEPT ![c] = Nothing]
    /\ UNCHANGED <<screen, revoked, owner, rendered, dialogs, unseen, early, unheard, handedOver>>

\* The call is refused, or its answer is lost.
CallFails(c) ==
    /\ CallPending(c)
    /\ callIn' = [callIn EXCEPT ![c] = NoAction]
    /\ unheard' = (unheard \/ callIn[c].account # Nothing)
    /\ UNCHANGED <<screen, rows, revoked, owner, rendered, dialog, password, dialogs, unseen,
                   early, handedOver>>

\* Someone hands a tenant to another administrator.
TenantHandedOver(r, a) ==
    /\ screen.dialogs = "each" /\ dialogs < MaxDialogs /\ dialogs' = dialogs + 1
    /\ a # owner[r]
    /\ owner' = [owner EXCEPT ![r] = a] /\ handedOver' = TRUE
    /\ UNCHANGED <<screen, rows, revoked, rendered, dialog, password, callIn, unseen, early,
                   unheard>>

CredentialsNext ==
    \/ \E r \in ListRows : OpenRowDialog("reset", r) \/ OpenRowDialog("revoke", r)
    \/ OpenProvisionForm
    \/ \E c \in Components : CloseDialog(c) \/ Confirm(c) \/ Issues(c) \/ Issued(c)
                                 \/ RevocationRuns(c) \/ Revoked(c) \/ CallFails(c)
    \/ \E r \in ListRows, a \in Accounts : TenantHandedOver(r, a)

CredentialsSpec == CredentialsInit /\ [][CredentialsNext]_credentialVars

-----------------------------------------------------------------------------
CredentialsTypeOK ==
    /\ rows \subseteq ListRows /\ revoked \subseteq ListRows /\ ListRows \ rows \subseteq revoked
    /\ {owner, rendered} \subseteq [ListRows -> Accounts]
    /\ password \in [Components -> Accounts \cup {Nothing}]
    /\ unseen \subseteq Accounts
    /\ early \in BOOLEAN /\ unheard \in BOOLEAN /\ handedOver \in BOOLEAN

\* "The password is shown exactly once": unless a dialog was closed during its
\* call, an answer was lost or a tenant changed hands, every password that was
\* issued is shown, and only under the address of its account.
PasswordsReachTheirAccount ==
    \/ early \/ unheard \/ handedOver
    \/ /\ \A c \in Components : ShowsPassword(c) => AddressIn(c) = password[c]
       /\ \A a \in unseen : \E c \in Components : callIn[c].account = a

=============================================================================
