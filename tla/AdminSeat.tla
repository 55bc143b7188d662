----------------------------- MODULE AdminSeat ------------------------------
(***************************************************************************)
(* The one seat of the primary administrator (owner.service): the owner    *)
(* replaces or revokes its holder and sends password resets; an emailed    *)
(* link (AdminActionToken) activates the account or sets its password; the *)
(* holder signs in, refreshes, changes the password, and makes accounts    *)
(* active or blocked (admin.routes, which looks at neither role nor seat). *)
(*                                                                         *)
(* An action is one transaction or one document update; what a handler     *)
(* read before an await is in its call.  Passwords are left out: a step    *)
(* that needs one is a step of somebody who knows it.  The owner's own     *)
(* account, its authenticator and the emails are left out.                 *)
(***************************************************************************)
EXTENDS Integers, FiniteSets

CONSTANTS
    Admin,         \* the accounts of role admin
    Link,          \* bounds the links created
    Desk,          \* bounds the calls in flight
    NoLink,
    MaxDecisions,  \* bounds the owner's replacements and revocations
    MaxSignIns,    \* bounds the logins and refreshes begun
    MaxChanges     \* bounds the password and status changes begun

ASSUME SeatAssumption ==
    /\ NoLink \notin Link
    /\ MaxDecisions \in Nat /\ MaxSignIns \in Nat /\ MaxChanges \in Nat

VARIABLES
    account,      \* User of role admin: status, whether it holds the seat and
                  \* the assignment is running, tokenVersion
    link,         \* AdminActionToken: its user, type and state
    desk,         \* calls in flight
    signed,       \* the access tokens signed: user, tokenVersion and era
    era,          \* history: how often the sessions of an account were ended
    standing,     \* history: the invitation of the owner's last decision
    overwritten,  \* history: a password change saved over a newer tokenVersion
    decisions, signIns, changes

seatVars == <<account, link, desk, signed, era, standing, overwritten,
              decisions, signIns, changes>>
seatBounds == <<decisions, signIns, changes>>

LinkType == {"admin_invite", "admin_password_reset"}
Version == 0..2 * MaxDecisions + Cardinality(Link) + MaxChanges
DeskStep == {"sign", "change", "invalidate", "create", "revoked", "activate", "block"}
DeskCall == [desk : Desk, pc : DeskStep, user : Admin, target : Admin,
             version : Version, era : Nat]

SeatTypeOK ==
    /\ account \in [Admin -> [status : {"absent", "invited", "active", "revoked", "blocked"},
                              seat : BOOLEAN, running : BOOLEAN, version : Version]]
    /\ link \in [Link -> [user : Admin, type : LinkType,
                          state : {"active", "expired", "consumed", "invalidated", "deleted"}]
                           \union {NoLink}]
    /\ desk \subseteq DeskCall
    /\ signed \subseteq [user : Admin, version : Version, era : Nat]
    /\ era \in [Admin -> Nat]
    /\ standing \in Link \union {NoLink}
    /\ overwritten \in BOOLEAN
    /\ decisions \in 0..MaxDecisions /\ signIns \in 0..MaxSignIns /\ changes \in 0..MaxChanges

SeatInit ==
    /\ account = [a \in Admin |-> [status |-> "absent", seat |-> FALSE, running |-> FALSE,
                                   version |-> 0]]
    /\ link = [l \in Link |-> NoLink]
    /\ desk = {} /\ signed = {} /\ era = [a \in Admin |-> 0]
    /\ standing = NoLink /\ overwritten = FALSE
    /\ decisions = 0 /\ signIns = 0 /\ changes = 0

-----------------------------------------------------------------------------
CallingOn(d, pc, a, target) ==
    /\ \A c \in desk : c.desk # d
    /\ desk' = desk \union {[desk |-> d, pc |-> pc, user |-> a, target |-> target,
                             version |-> account[a].version, era |-> era[a]]}
Calling(d, pc, a) == CallingOn(d, pc, a, a)
CallMoves(c, pc) == desk' = (desk \ {c}) \union {[c EXCEPT !.pc = pc]}
CallEnds(c) == desk' = desk \ {c}

IsOpen(l) == link[l] # NoLink /\ link[l].state \in {"active", "expired"}

\* updateMany of createActionToken and revokePrimaryAdmin
Invalidated(users, types) ==
    [l \in Link |-> IF IsOpen(l) /\ link[l].user \in users /\ link[l].type \in types
                    THEN [link[l] EXCEPT !.state = "invalidated"] ELSE link[l]]

Fresh(a, type) == [user |-> a, type |-> type, state |-> "active"]

\* Signed in and allowed to act: userSessionIsCurrent, and the checks of login.
InOffice(a) == account[a].status = "active" /\ account[a].seat /\ account[a].running
IsCurrent(s) == InOffice(s.user) /\ s.version = account[s.user].version

-----------------------------------------------------------------------------
(* The owner *)

Seated(a) == [status |-> "invited", seat |-> TRUE, running |-> TRUE,
              version |-> IF account[a].status = "absent" THEN 0 ELSE account[a].version + 1]
Unseated(b) == [account[b] EXCEPT !.status = "revoked", !.seat = FALSE, !.version = @ + 1]

\* Mutant: the new invitation leaves earlier ones open.
ReplaceKeepingLinks(a, l) ==
    /\ decisions < MaxDecisions /\ link[l] = NoLink
    /\ account' = [b \in Admin |-> IF b = a THEN Seated(a)
                                   ELSE IF account[b].seat THEN Unseated(b) ELSE account[b]]
    /\ link' = [link EXCEPT ![l] = Fresh(a, "admin_invite")]
    /\ era' = [b \in Admin |-> IF b = a \/ account[b].seat THEN era[b] + 1 ELSE era[b]]
    /\ standing' = l /\ decisions' = decisions + 1
    /\ UNCHANGED <<desk, signed, overwritten, signIns, changes>>

\* replacePrimaryAdmin, in a transaction: the holder of the seat leaves it unless
\* he is the one invited; the invitation replaces those the account had.
Replace(a, l) ==
    /\ decisions < MaxDecisions /\ link[l] = NoLink
    /\ account' = [b \in Admin |-> IF b = a THEN Seated(a)
                                   ELSE IF account[b].seat THEN Unseated(b) ELSE account[b]]
    /\ link' = [Invalidated({a}, {"admin_invite"}) EXCEPT ![l] = Fresh(a, "admin_invite")]
    /\ era' = [b \in Admin |-> IF b = a \/ account[b].seat THEN era[b] + 1 ELSE era[b]]
    /\ standing' = l /\ decisions' = decisions + 1
    /\ UNCHANGED <<desk, signed, overwritten, signIns, changes>>

\* revokePrimaryAdmin: the account first, its links after.
Revoke(d, a) ==
    /\ decisions < MaxDecisions /\ account[a].seat
    /\ account' = [account EXCEPT ![a] = Unseated(a)]
    /\ era' = [era EXCEPT ![a] = @ + 1]
    /\ standing' = NoLink /\ decisions' = decisions + 1
    /\ Calling(d, "revoked", a)
    /\ UNCHANGED <<link, signed, overwritten, signIns, changes>>

RevokeLinks(c) ==
    /\ c.pc = "revoked"
    /\ link' = Invalidated({c.user}, LinkType)
    /\ CallEnds(c)
    /\ UNCHANGED <<account, signed, era, standing, overwritten, seatBounds>>

\* sendPrimaryAdminPasswordReset: no session, so three steps.
SendReset(d, a) ==
    /\ account[a].seat /\ account[a].status = "active"
    /\ Calling(d, "invalidate", a)
    /\ UNCHANGED <<account, link, signed, era, standing, overwritten, seatBounds>>

ResetInvalidates(c) ==
    /\ c.pc = "invalidate"
    /\ link' = Invalidated({c.user}, {"admin_password_reset"})
    /\ CallMoves(c, "create")
    /\ UNCHANGED <<account, signed, era, standing, overwritten, seatBounds>>

\* activeTokenKey is unique: a second open link of the user and type is refused.
ResetCreates(c, l) ==
    /\ c.pc = "create" /\ link[l] = NoLink
    /\ IF \E m \in Link : IsOpen(m) /\ link[m].user = c.user
                                    /\ link[m].type = "admin_password_reset"
       THEN UNCHANGED link
       ELSE link' = [link EXCEPT ![l] = Fresh(c.user, "admin_password_reset")]
    /\ CallEnds(c)
    /\ UNCHANGED <<account, signed, era, standing, overwritten, seatBounds>>

-----------------------------------------------------------------------------
(* The administrator *)

Allows(l) == LET a == account[link[l].user] IN
    /\ a.seat /\ a.running
    /\ a.status = IF link[l].type = "admin_invite" THEN "invited" ELSE "active"

\* Mutant: the sessions of before the link go on.
ConsumedKeepingVersion(l) ==
    /\ link' = [link EXCEPT ![l].state = "consumed"]
    /\ account' = [account EXCEPT ![link[l].user].status = "active"]
    /\ era' = [era EXCEPT ![link[l].user] = @ + 1]
    /\ UNCHANGED <<desk, signed, standing, overwritten, seatBounds>>

Consumed(l) ==
    /\ link' = [link EXCEPT ![l].state = "consumed"]
    /\ account' = [account EXCEPT ![link[l].user].status = "active",
                                  ![link[l].user].version = @ + 1]
    /\ era' = [era EXCEPT ![link[l].user] = @ + 1]
    /\ UNCHANGED <<desk, signed, standing, overwritten, seatBounds>>

\* Mutant: an invalidated link still works.
FollowsAnyLink(l) ==
    /\ link[l] # NoLink /\ link[l].state \in {"active", "invalidated"} /\ Allows(l)
    /\ Consumed(l)

\* acceptAdminInvitation, resetAdminPassword: consumeToken, in a transaction.
FollowsLink(l) ==
    /\ link[l] # NoLink /\ link[l].state = "active" /\ Allows(l)
    /\ Consumed(l)

\* login and refreshSession read the account, then sign what they read and save
\* the refresh token's hash.
SignIn(d, a) ==
    /\ signIns < MaxSignIns /\ InOffice(a)
    /\ Calling(d, "sign", a)
    /\ signIns' = signIns + 1
    /\ UNCHANGED <<account, link, signed, era, standing, overwritten, decisions, changes>>

Signs(c) ==
    /\ c.pc = "sign"
    /\ signed' = signed \union {[user |-> c.user, version |-> c.version, era |-> c.era]}
    /\ CallEnds(c)
    /\ UNCHANGED <<account, link, era, standing, overwritten, seatBounds>>

\* changeStaffPassword reads the account, hashes, and saves what it read plus one.
ChangePassword(d, a) ==
    /\ changes < MaxChanges /\ \E s \in signed : s.user = a /\ IsCurrent(s)
    /\ Calling(d, "change", a)
    /\ changes' = changes + 1
    /\ UNCHANGED <<account, link, signed, era, standing, overwritten, decisions, signIns>>

PasswordChanges(c) ==
    /\ c.pc = "change"
    /\ account' = [account EXCEPT ![c.user].version = c.version + 1]
    /\ era' = [era EXCEPT ![c.user] = @ + 1]
    /\ overwritten' = (overwritten \/ account[c.user].version # c.version)
    /\ CallEnds(c)
    /\ UNCHANGED <<link, signed, standing, seatBounds>>

\* PATCH /admin/customers/:id/status: requireAuth lets the administrator in, then
\* the update of whatever account it names, its role and its seat not looked at.
AsksStatus(d, a, b, pc) ==
    /\ changes < MaxChanges /\ \E s \in signed : s.user = a /\ IsCurrent(s)
    /\ account[b].status # "absent"
    /\ CallingOn(d, pc, a, b)
    /\ changes' = changes + 1
    /\ UNCHANGED <<account, link, signed, era, standing, overwritten, decisions, signIns>>

StatusIsSet(c) ==
    /\ c.pc \in {"activate", "block"}
    /\ account' = [account EXCEPT ![c.target].status =
                                     IF c.pc = "activate" THEN "active" ELSE "blocked"]
    /\ CallEnds(c)
    /\ UNCHANGED <<link, signed, era, standing, overwritten, seatBounds>>

-----------------------------------------------------------------------------
(* Time and crashes *)

LinkExpires(l) ==
    /\ link[l] # NoLink /\ link[l].state = "active"
    /\ link' = [link EXCEPT ![l].state = "expired"]
    /\ UNCHANGED <<account, desk, signed, era, standing, overwritten, seatBounds>>

\* The expiry index deletes it, and frees its key.
LinkDeleted(l) ==
    /\ link[l] # NoLink /\ link[l].state = "expired"
    /\ link' = [link EXCEPT ![l].state = "deleted"]
    /\ UNCHANGED <<account, desk, signed, era, standing, overwritten, seatBounds>>

AssignmentEnds(a) ==
    /\ account[a].running
    /\ account' = [account EXCEPT ![a].running = FALSE]
    /\ UNCHANGED <<link, desk, signed, era, standing, overwritten, seatBounds>>

HandlerDies(c) ==
    /\ CallEnds(c)
    /\ UNCHANGED <<account, link, signed, era, standing, overwritten, seatBounds>>

SeatNext ==
    \/ \E a \in Admin, l \in Link : Replace(a, l)
    \/ \E d \in Desk, a \in Admin :
          \/ Revoke(d, a) \/ SendReset(d, a) \/ SignIn(d, a) \/ ChangePassword(d, a)
          \/ \E b \in Admin, pc \in {"activate", "block"} : AsksStatus(d, a, b, pc)
    \/ \E c \in desk :
          \/ RevokeLinks(c) \/ ResetInvalidates(c) \/ Signs(c) \/ PasswordChanges(c)
          \/ StatusIsSet(c) \/ HandlerDies(c) \/ \E l \in Link : ResetCreates(c, l)
    \/ \E l \in Link : FollowsLink(l) \/ LinkExpires(l) \/ LinkDeleted(l)
    \/ \E a \in Admin : AssignmentEnds(a)

SeatSpec == SeatInit /\ [][SeatNext]_seatVars

-----------------------------------------------------------------------------
(* Properties *)

Holds(a) == account[a].seat /\ account[a].status = "active"

\* An account comes to hold the seat and be active only with the invitation of the
\* owner's last decision: no earlier invitation, of this account or of another, and
\* none after a revocation.  Making accounts active is no way around it for the
\* administrator in office, who can only reach accounts without the seat, or his
\* own: except an update he was let in for while in office and that comes after he
\* was replaced or blocked, which makes the account that has the seat then active.
SeatTakenByStandingInvitation ==
    [][\A a \in Admin : ~Holds(a) /\ Holds(a)' =>
          \/ /\ standing # NoLink /\ link[standing].user = a
             /\ link[standing].state = "active" /\ link'[standing].state = "consumed"
          \/ \E c \in desk \ desk' : c.pc = "activate" /\ c.target = a /\ ~IsCurrent(c)]_seatVars

\* Replacing, revoking, following a link and changing the password end the
\* sessions of the account: whatever was signed from what was read before does
\* not work after.  A password change saved over a newer token version is the
\* exception, since it may set the version back.
EndedSessionsStayEnded ==
    overwritten \/ \A s \in signed : IsCurrent(s) => s.era = era[s.user]

\* At most one account holds the seat, and at most one link of a type is open
\* for an account, although resets and revocations are not transactions.
OneSeatOneLink ==
    /\ \A a, b \in Admin : account[a].seat /\ account[b].seat => a = b
    /\ \A l, m \in Link : IsOpen(l) /\ IsOpen(m) /\ link[l].user = link[m].user
                             /\ link[l].type = link[m].type => l = m
=============================================================================
