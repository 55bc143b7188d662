-------------------------- MODULE BackOffice_proofs -------------------------
(***************************************************************************)
(* The back office, one component after another, for any accounts, stock,  *)
(* pictures and addresses: one administrator at a time, and only by the    *)
(* standing invitation; reserved stock that is what the holds say;         *)
(* catalogue images that survive their migration; addresses that stay      *)
(* listed.                                                                 *)
(***************************************************************************)
EXTENDS AdminSeat, CatalogStock, ImageMigration, AddressBook, FiniteSetTheorems, TLAPS

-----------------------------------------------------------------------------
(* The seat of the administrator *)

AccountShape == [status : {"absent", "invited", "active", "revoked", "blocked"},
                 seat : BOOLEAN, running : BOOLEAN, version : Nat]
LinkShape == [user : Admin, type : LinkType,
              state : {"active", "expired", "consumed", "invalidated", "deleted"}]
Read == [user : Admin, version : Nat, era : Nat]
Calls == [desk : Desk, pc : DeskStep, user : Admin, target : Admin, version : Nat, era : Nat]

AccountsTyped == account \in [Admin -> AccountShape] /\ era \in [Admin -> Nat]
LinksTyped == link \in [Link -> LinkShape \union {NoLink}]
SessionsTyped ==
    /\ desk \subseteq Calls
    /\ signed \subseteq Read

OneSeat == \A a, b \in Admin : account[a].seat /\ account[b].seat => a = b
OneLink == \A l, m \in Link : IsOpen(l) /\ IsOpen(m) /\ link[l].user = link[m].user
                                 /\ link[l].type = link[m].type => l = m

\* Only the invitation of the owner's last decision finds its account waiting.
StandingOnly ==
    \A l \in Link :
        link[l] # NoLink /\ link[l].type = "admin_invite" /\ link[l].state = "active"
            /\ account[link[l].user].seat /\ account[link[l].user].status = "invited" => l = standing

SeatInv == AccountsTyped /\ LinksTyped /\ SessionsTyped /\ OneSeat /\ OneLink /\ StandingOnly

LEMMA Asked ==
    ASSUME SessionsTyped, AccountsTyped, NEW d \in Desk, NEW a \in Admin, NEW b \in Admin,
           NEW pc \in DeskStep, CallingOn(d, pc, a, b)
    PROVE  desk' \subseteq Calls
BY DEF SessionsTyped, AccountsTyped, AccountShape, CallingOn, Calls

LEMMA Moved ==
    ASSUME SessionsTyped, NEW c \in desk, CallMoves(c, "create") \/ CallEnds(c)
    PROVE  desk' \subseteq Calls
BY DEF SessionsTyped, CallMoves, CallEnds, Calls, DeskStep

\* Accounts and links are left alone.
LEMMA SeatRests ==
    ASSUME SeatInv, UNCHANGED <<account, link, era, standing>>, SessionsTyped'
    PROVE  SeatInv'
BY DEF SeatInv, AccountsTyped, LinksTyped, OneSeat, OneLink, StandingOnly, IsOpen

\* Links are closed, or closed later; no account changes.
LEMMA LinksClose ==
    ASSUME SeatInv, UNCHANGED <<account, era, standing>>, SessionsTyped', LinksTyped',
           \A l \in Link : IsOpen(l)' => IsOpen(l) /\ link'[l].user = link[l].user
                                            /\ link'[l].type = link[l].type,
           \A l \in Link : link'[l] # NoLink /\ link'[l].state = "active" => link'[l] = link[l]
    PROVE  SeatInv'
<1>1. OneLink'
  BY DEF SeatInv, OneLink
<1>2. StandingOnly'
  BY DEF SeatInv, StandingOnly
<1> QED
  BY <1>1, <1>2 DEF SeatInv, AccountsTyped, OneSeat

LEMMA InvalidatedAre ==
    ASSUME LinksTyped, NEW users, NEW types
    PROVE  /\ Invalidated(users, types) \in [Link -> LinkShape \union {NoLink}]
           /\ \A l \in Link :
                 LET k == Invalidated(users, types)[l] IN
                 /\ k # NoLink /\ k.state \in {"active", "expired"} =>
                       /\ k = link[l] /\ IsOpen(l)
                       /\ ~(k.user \in users /\ k.type \in types)
                 /\ link[l] = NoLink => k = NoLink
<1>1. ASSUME NEW l \in Link, IsOpen(l)
      PROVE  /\ [link[l] EXCEPT !.state = "invalidated"] \in LinkShape
             /\ [link[l] EXCEPT !.state = "invalidated"].state = "invalidated"
  BY <1>1 DEF LinksTyped, LinkShape, IsOpen
<1> QED
  BY <1>1 DEF Invalidated, LinksTyped, IsOpen

LEMMA SeatedAre ==
    ASSUME AccountsTyped, NEW a \in Admin
    PROVE  /\ Seated(a) \in AccountShape /\ Seated(a).status = "invited" /\ Seated(a).seat
           /\ Unseated(a) \in AccountShape /\ Unseated(a).status = "revoked" /\ ~Unseated(a).seat
           /\ Unseated(a).version = account[a].version + 1
<1>1. PICK k \in AccountShape : k = account[a]
  BY DEF AccountsTyped
<1>2. k.version + 1 \in Nat /\ k.seat \in BOOLEAN /\ k.running \in BOOLEAN
  BY DEF AccountShape
<1>3. Seated(a) = [status |-> "invited", seat |-> TRUE, running |-> TRUE,
                   version |-> IF k.status = "absent" THEN 0 ELSE k.version + 1]
  BY <1>1 DEF Seated
<1>4. PICK v \in Nat : v = k.version + 1
  BY <1>2
<1> DEFINE u == [k EXCEPT !.status = "revoked", !.seat = FALSE, !.version = v]
<1>5. Unseated(a) = u
  BY <1>1, <1>4 DEF Unseated
<1>6. u \in AccountShape /\ u.status = "revoked" /\ u.seat = FALSE /\ u.version = v
  BY DEF AccountShape
<1> HIDE DEF u
<1>7. Seated(a) \in AccountShape /\ Seated(a).status = "invited" /\ Seated(a).seat
  BY <1>2, <1>3 DEF AccountShape
<1>8. /\ Unseated(a) \in AccountShape /\ Unseated(a).status = "revoked" /\ ~Unseated(a).seat
      /\ Unseated(a).version = k.version + 1
  BY <1>4, <1>5, <1>6
<1> QED
  BY <1>1, <1>7, <1>8

LEMMA SeatReplaced ==
    ASSUME SeatInv, NEW a \in Admin, NEW l \in Link, Replace(a, l)
    PROVE  SeatInv'
<1>1. /\ link[l] = NoLink /\ standing' = l /\ UNCHANGED <<desk, signed>>
      /\ account' = [b \in Admin |-> IF b = a THEN Seated(a)
                                     ELSE IF account[b].seat THEN Unseated(b) ELSE account[b]]
      /\ era' = [b \in Admin |-> IF b = a \/ account[b].seat THEN era[b] + 1 ELSE era[b]]
  BY DEF Replace
<1>2. PICK users, types : users = {a} /\ types = {"admin_invite"}
  OBVIOUS
<1>3. PICK closed : closed = Invalidated(users, types)
  OBVIOUS
<1>4. link' = [closed EXCEPT ![l] = Fresh(a, "admin_invite")]
  BY <1>2, <1>3 DEF Replace
<1>5. /\ closed \in [Link -> LinkShape \union {NoLink}]
      /\ \A m \in Link :
            /\ closed[m] # NoLink /\ closed[m].state \in {"active", "expired"} =>
                  /\ closed[m] = link[m] /\ IsOpen(m)
                  /\ ~(closed[m].user = a /\ closed[m].type = "admin_invite")
  BY <1>2, <1>3, InvalidatedAre DEF SeatInv
<1>6. /\ Fresh(a, "admin_invite") \in LinkShape
      /\ Fresh(a, "admin_invite").user = a /\ Fresh(a, "admin_invite").type = "admin_invite"
  BY DEF Fresh, LinkShape, LinkType
<1>7. /\ link'[l] = Fresh(a, "admin_invite")
      /\ \A m \in Link : m # l => link'[m] = closed[m]
      /\ LinksTyped'
  BY <1>4, <1>5, <1>6 DEF LinksTyped
<1>8. AccountsTyped'
  <2>1. ASSUME NEW b \in Admin PROVE Seated(b) \in AccountShape /\ Unseated(b) \in AccountShape
    BY SeatedAre DEF SeatInv
  <2> QED
    BY <1>1, <2>1 DEF SeatInv, AccountsTyped
<1>9. /\ \A b \in Admin : b # a => ~account'[b].seat
      /\ account'[a].seat
  BY <1>1, SeatedAre DEF SeatInv
<1>10. OneLink'
  <2>1. ASSUME NEW m \in Link, m # l, IsOpen(m)'
        PROVE  IsOpen(m) /\ link'[m] = link[m] /\ ~(link'[m].user = a /\ link'[m].type = "admin_invite")
    BY <1>5, <1>7, <2>1 DEF IsOpen
  <2> QED
    BY <1>6, <1>7, <2>1 DEF SeatInv, OneLink
<1>11. StandingOnly'
  <2>1. ASSUME NEW m \in Link, m # l, link'[m] # NoLink, link'[m].type = "admin_invite",
               link'[m].state = "active", account'[link'[m].user].seat
        PROVE  FALSE
    <3>1. link'[m].user \in Admin
      BY <1>7, <2>1 DEF LinksTyped, LinkShape
    <3>2. link'[m].user = a
      BY <1>9, <2>1, <3>1
    <3> QED
      BY <1>5, <1>7, <2>1, <3>2
  <2> QED
    BY <1>1, <2>1 DEF StandingOnly
<1> QED
  BY <1>1, <1>7, <1>8, <1>9, <1>10, <1>11 DEF SeatInv, SessionsTyped, OneSeat

\* An account changes its version, its status or its assignment, and no one takes a seat.
LEMMA AccountWritten ==
    ASSUME SeatInv, AccountsTyped', SessionsTyped', UNCHANGED link,
           \A b \in Admin : account'[b].seat => account[b].seat,
           \A b \in Admin : account'[b].status = "invited" => account[b].status = "invited",
           standing' = standing \/ (\A b \in Admin : account'[b].seat => FALSE)
    PROVE  SeatInv'
<1>1. \A l \in Link : link[l] # NoLink => link[l].user \in Admin
  BY DEF SeatInv, LinksTyped, LinkShape
<1>2. StandingOnly'
  BY <1>1 DEF SeatInv, StandingOnly
<1>3. OneLink'
  BY DEF SeatInv, OneLink, IsOpen
<1> QED
  BY <1>2, <1>3 DEF SeatInv, LinksTyped, OneSeat

LEMMA SeatRevoked ==
    ASSUME SeatInv, NEW d \in Desk, NEW a \in Admin, Revoke(d, a)
    PROVE  SeatInv'
<1>1. /\ account[a].seat /\ account' = [account EXCEPT ![a] = Unseated(a)]
      /\ era' = [era EXCEPT ![a] = @ + 1] /\ UNCHANGED <<link, signed>>
      /\ Calling(d, "revoked", a)
  BY DEF Revoke
<1>2. Unseated(a) \in AccountShape /\ ~Unseated(a).seat /\ Unseated(a).status = "revoked"
  BY SeatedAre DEF SeatInv
<1>3. AccountsTyped' /\ account'[a] = Unseated(a) /\ \A b \in Admin : b # a => account'[b] = account[b]
  BY <1>1, <1>2 DEF SeatInv, AccountsTyped
<1>4. SessionsTyped'
  BY <1>1, Asked DEF Calling, DeskStep, SeatInv, SessionsTyped
<1>5. \A b \in Admin : ~account'[b].seat
  BY <1>1, <1>2, <1>3 DEF SeatInv, OneSeat
<1> QED
  BY <1>1, <1>2, <1>3, <1>4, <1>5, AccountWritten

LEMMA LinkFollowed ==
    ASSUME SeatInv, NEW l \in Link, FollowsLink(l)
    PROVE  SeatInv'
<1>1. PICK a \in Admin : link[l] # NoLink /\ link[l] \in LinkShape /\ a = link[l].user
  BY DEF FollowsLink, SeatInv, LinksTyped, LinkShape
<1>2. /\ link' = [link EXCEPT ![l].state = "consumed"]
      /\ account' = [account EXCEPT ![a].status = "active", ![a].version = @ + 1]
      /\ era' = [era EXCEPT ![a] = @ + 1] /\ UNCHANGED <<desk, signed, standing>>
  BY <1>1 DEF FollowsLink, Consumed
<1>3. /\ LinksTyped' /\ link'[l].state = "consumed" /\ link'[l] \in LinkShape
      /\ \A m \in Link : m # l => link'[m] = link[m]
  BY <1>1, <1>2 DEF SeatInv, LinksTyped, LinkShape
<1>4. /\ AccountsTyped' /\ account'[a].seat = account[a].seat /\ account'[a].status = "active"
      /\ \A b \in Admin : b # a => account'[b] = account[b]
  BY <1>2 DEF SeatInv, AccountsTyped, AccountShape
<1>5. OneSeat'
  BY <1>4 DEF SeatInv, OneSeat
<1>6. OneLink'
  <2>1. \A m \in Link : IsOpen(m)' => m # l /\ IsOpen(m) /\ link'[m] = link[m]
    BY <1>3 DEF IsOpen
  <2> QED
    BY <2>1 DEF SeatInv, OneLink
<1>7. StandingOnly'
  <2>1. SUFFICES ASSUME NEW m \in Link, link'[m] # NoLink, link'[m].type = "admin_invite",
                        link'[m].state = "active", account'[link'[m].user].seat,
                        account'[link'[m].user].status = "invited"
                 PROVE  m = standing'
    BY DEF StandingOnly
  <2>2. m # l /\ link'[m] = link[m]
    BY <1>3, <2>1
  <2>3. PICK b \in Admin : b = link[m].user
    BY <2>1, <2>2 DEF SeatInv, LinksTyped, LinkShape
  <2>4. b # a /\ account'[b] = account[b]
    BY <1>4, <2>1, <2>2, <2>3
  <2>5. m = standing
    BY <2>1, <2>2, <2>3, <2>4 DEF SeatInv, StandingOnly
  <2> QED
    BY <1>2, <2>5
<1> QED
  BY <1>2, <1>3, <1>4, <1>5, <1>6, <1>7 DEF SeatInv, SessionsTyped

LEMMA DeskCalls ==
    ASSUME SeatInv, NEW d \in Desk, NEW a \in Admin, NEW b \in Admin, NEW pc \in {"activate", "block"},
           SendReset(d, a) \/ SignIn(d, a) \/ ChangePassword(d, a) \/ AsksStatus(d, a, b, pc)
    PROVE  SeatInv'
<1>1. UNCHANGED <<account, link, signed, era, standing>>
  BY DEF SendReset, SignIn, ChangePassword, AsksStatus
<1>2. \E step \in DeskStep, e \in Admin : CallingOn(d, step, a, e)
  BY DEF SendReset, SignIn, ChangePassword, AsksStatus, Calling, DeskStep
<1>3. SessionsTyped'
  BY <1>1, <1>2, Asked DEF SeatInv, SessionsTyped
<1> QED
  BY <1>1, <1>3, SeatRests

LEMMA LinksInvalidated ==
    ASSUME SeatInv, NEW c \in desk, RevokeLinks(c) \/ ResetInvalidates(c)
    PROVE  SeatInv'
<1>1. UNCHANGED <<account, signed, era, standing>> /\ SessionsTyped'
  BY Moved DEF RevokeLinks, ResetInvalidates, SeatInv, SessionsTyped
<1>2. PICK users, types : link' = Invalidated(users, types)
  <2>1. PICK users : users = {c.user}
    OBVIOUS
  <2>2. CASE RevokeLinks(c)
    BY <2>1, <2>2 DEF RevokeLinks
  <2>3. CASE ResetInvalidates(c)
    <3>1. PICK types : types = {"admin_password_reset"}
      OBVIOUS
    <3> QED
      BY <2>1, <2>3, <3>1 DEF ResetInvalidates
  <2> QED
    BY <2>2, <2>3
<1>3. /\ LinksTyped'
      /\ \A l \in Link : link'[l] # NoLink /\ link'[l].state \in {"active", "expired"} =>
            link'[l] = link[l] /\ IsOpen(l)
  BY <1>2, InvalidatedAre DEF SeatInv, LinksTyped
<1> QED
  BY <1>1, <1>3, LinksClose DEF IsOpen

LEMMA ResetCreated ==
    ASSUME SeatInv, NEW c \in desk, NEW l \in Link, ResetCreates(c, l)
    PROVE  SeatInv'
<1>1. UNCHANGED <<account, signed, era, standing>> /\ SessionsTyped'
  BY Moved DEF ResetCreates, SeatInv, SessionsTyped
<1>2. CASE UNCHANGED link
  BY <1>1, <1>2, SeatRests
<1>3. CASE link' # link
  <2>1. PICK a \in Admin : a = c.user
    BY DEF SeatInv, SessionsTyped, Calls
  <2>2. PICK k \in LinkShape :
          k = Fresh(a, "admin_password_reset") /\ k.user = a /\ k.type = "admin_password_reset"
    <3>1. Fresh(a, "admin_password_reset") \in LinkShape
      BY DEF Fresh, LinkShape, LinkType
    <3> QED
      BY <3>1 DEF Fresh
  <2>3. /\ link' = [link EXCEPT ![l] = k]
        /\ ~\E m \in Link : IsOpen(m) /\ link[m].user = a /\ link[m].type = "admin_password_reset"
    BY <1>3, <2>1, <2>2 DEF ResetCreates
  <2>4. LinksTyped' /\ link'[l] = k /\ \A m \in Link : m # l => link'[m] = link[m]
    BY <2>3 DEF SeatInv, LinksTyped
  <2>5. \A m \in Link : m # l => (IsOpen(m)' <=> IsOpen(m))
    BY <2>4 DEF IsOpen
  <2>6. OneLink'
    BY <2>2, <2>3, <2>4, <2>5 DEF SeatInv, OneLink
  <2>7. StandingOnly'
    BY <1>1, <2>2, <2>4 DEF SeatInv, StandingOnly
  <2> QED
    BY <1>1, <2>4, <2>6, <2>7 DEF SeatInv, AccountsTyped, OneSeat
<1> QED
  BY <1>2, <1>3

LEMMA CallsFinish ==
    ASSUME SeatInv, NEW c \in desk, Signs(c) \/ HandlerDies(c)
    PROVE  SeatInv'
<1>1. UNCHANGED <<account, link, era, standing>>
  BY DEF Signs, HandlerDies
<1>2. SessionsTyped'
  <2>1. [user |-> c.user, version |-> c.version, era |-> c.era] \in Read
    BY DEF SeatInv, SessionsTyped, Calls, Read
  <2> QED
    BY <2>1, Moved DEF Signs, HandlerDies, SeatInv, SessionsTyped
<1> QED
  BY <1>1, <1>2, SeatRests

LEMMA PasswordChanged ==
    ASSUME SeatInv, NEW c \in desk, PasswordChanges(c)
    PROVE  SeatInv'
<1>1. PICK a \in Admin, v \in Nat : a = c.user /\ v = c.version
  BY DEF SeatInv, SessionsTyped, Calls
<1>2. /\ account' = [account EXCEPT ![a].version = v + 1] /\ era' = [era EXCEPT ![a] = @ + 1]
      /\ UNCHANGED <<link, signed, standing>>
  BY <1>1 DEF PasswordChanges
<1>3. SessionsTyped'
  BY <1>2, Moved DEF PasswordChanges, SeatInv, SessionsTyped
<1>4. /\ AccountsTyped' /\ account'[a].seat = account[a].seat /\ account'[a].status = account[a].status
      /\ \A b \in Admin : b # a => account'[b] = account[b]
  BY <1>2 DEF SeatInv, AccountsTyped, AccountShape
<1> QED
  BY <1>2, <1>3, <1>4, AccountWritten

LEMMA StatusWritten ==
    ASSUME SeatInv, NEW c \in desk, StatusIsSet(c)
    PROVE  /\ SeatInv' /\ c.target \in Admin
           /\ \A b \in Admin \ {c.target} : account'[b] = account[b]
           /\ account'[c.target].seat = account[c.target].seat
           /\ account'[c.target].version = account[c.target].version
           /\ account'[c.target].status = IF c.pc = "activate" THEN "active" ELSE "blocked"
<1>1. PICK a \in Admin : a = c.target
  BY DEF SeatInv, SessionsTyped, Calls
<1>2. PICK status \in {"active", "blocked"} : status = IF c.pc = "activate" THEN "active" ELSE "blocked"
  OBVIOUS
<1>3. /\ account' = [account EXCEPT ![a].status = status]
      /\ UNCHANGED <<link, signed, era, standing>>
  BY <1>1, <1>2 DEF StatusIsSet
<1>4. SessionsTyped'
  BY <1>3, Moved DEF StatusIsSet, SeatInv, SessionsTyped
<1>5. /\ AccountsTyped' /\ account'[a].seat = account[a].seat /\ account'[a].status = status
      /\ account'[a].version = account[a].version
      /\ \A b \in Admin : b # a => account'[b] = account[b]
  BY <1>3 DEF SeatInv, AccountsTyped, AccountShape
<1>6. SeatInv'
  BY <1>3, <1>4, <1>5, AccountWritten
<1> QED
  BY <1>1, <1>2, <1>5, <1>6

LEMMA LinkAges ==
    ASSUME SeatInv, NEW l \in Link, LinkExpires(l) \/ LinkDeleted(l)
    PROVE  SeatInv'
<1>1. PICK s \in {"expired", "deleted"} : link' = [link EXCEPT ![l].state = s]
  BY DEF LinkExpires, LinkDeleted
<1>2. link[l] \in LinkShape /\ IsOpen(l) /\ UNCHANGED <<account, desk, signed, era, standing>>
  BY DEF LinkExpires, LinkDeleted, IsOpen, SeatInv, LinksTyped
<1>3. /\ LinksTyped' /\ link'[l].state = s
      /\ link'[l].user = link[l].user /\ link'[l].type = link[l].type
      /\ \A m \in Link : m # l => link'[m] = link[m]
  BY <1>1, <1>2 DEF SeatInv, LinksTyped, LinkShape
<1>4. SessionsTyped'
  BY <1>2 DEF SeatInv, SessionsTyped
<1> QED
  BY <1>2, <1>3, <1>4, LinksClose DEF IsOpen

LEMMA AssignmentEnded ==
    ASSUME SeatInv, NEW a \in Admin, AssignmentEnds(a)
    PROVE  SeatInv'
<1>1. account' = [account EXCEPT ![a].running = FALSE] /\ UNCHANGED <<link, desk, signed, era, standing>>
  BY DEF AssignmentEnds
<1>2. /\ AccountsTyped' /\ account'[a].seat = account[a].seat /\ account'[a].status = account[a].status
      /\ \A b \in Admin : b # a => account'[b] = account[b]
  BY <1>1 DEF SeatInv, AccountsTyped, AccountShape
<1>3. SessionsTyped'
  BY <1>1 DEF SeatInv, SessionsTyped
<1> QED
  BY <1>1, <1>2, <1>3, AccountWritten

LEMMA SeatInvariant == SeatSpec => []SeatInv
<1>1. SeatInit => SeatInv
  BY DEF SeatInit, SeatInv, AccountsTyped, AccountShape, LinksTyped, SessionsTyped, OneSeat, OneLink,
     StandingOnly, IsOpen
<1>2. ASSUME SeatInv, [SeatNext]_seatVars PROVE SeatInv'
  <2>1. CASE SeatNext
    BY <1>2, <2>1, SeatReplaced, SeatRevoked, DeskCalls, LinksInvalidated, ResetCreated, CallsFinish,
       PasswordChanged, StatusWritten, LinkFollowed, LinkAges, AssignmentEnded DEF SeatNext
  <2>2. CASE UNCHANGED seatVars
    BY <1>2, <2>2, SeatRests DEF seatVars, SeatInv, SessionsTyped
  <2> QED
    BY <1>2, <2>1, <2>2
<1> QED
  BY <1>1, <1>2, PTL DEF SeatSpec

\* For any number of accounts, links and calls: at most one account holds the
\* seat and at most one link of a type is open for an account, although resets
\* and revocations run without a transaction (owner.service).
THEOREM SeatAndLinkAreUnique == SeatSpec => []OneSeatOneLink
<1>1. SeatInv => OneSeatOneLink
  BY DEF SeatInv, OneSeatOneLink, OneSeat, OneLink
<1> QED
  BY <1>1, SeatInvariant, PTL

LEMMA LinkSeatsStanding ==
    ASSUME SeatInv, NEW l \in Link, FollowsLink(l), NEW a \in Admin, ~Holds(a), Holds(a)'
    PROVE  /\ standing # NoLink /\ link[standing].user = a
           /\ link[standing].state = "active" /\ link'[standing].state = "consumed"
<1>1. PICK b \in Admin : link[l] # NoLink /\ link[l] \in LinkShape /\ b = link[l].user
  BY DEF FollowsLink, SeatInv, LinksTyped, LinkShape
<1>2. /\ link' = [link EXCEPT ![l].state = "consumed"]
      /\ account' = [account EXCEPT ![b].status = "active", ![b].version = @ + 1]
  BY <1>1 DEF FollowsLink, Consumed
<1>3. b = a /\ account'[a].seat = account[a].seat
  BY <1>2 DEF Holds, SeatInv, AccountsTyped, AccountShape
<1>4. link[l].type = "admin_invite" /\ account[a].status = "invited" /\ account[a].seat
      /\ link[l].state = "active"
  BY <1>1, <1>3 DEF Holds, FollowsLink, Allows, LinkShape, LinkType
<1>5. l = standing
  BY <1>1, <1>3, <1>4 DEF SeatInv, StandingOnly
<1>6. link'[l].state = "consumed"
  BY <1>1, <1>2 DEF SeatInv, LinksTyped, LinkShape
<1> QED
  BY <1>1, <1>3, <1>4, <1>5, <1>6, SeatAssumption

\* The administrator in office is the only one with the seat, and holds it already.
LEMMA StatusSeatsNobodyElse ==
    ASSUME SeatInv, NEW c \in desk, StatusIsSet(c), NEW a \in Admin, ~Holds(a), Holds(a)'
    PROVE  c \in desk \ desk' /\ c.pc = "activate" /\ c.target = a /\ ~IsCurrent(c)
<1>1. c.target = a /\ c.pc = "activate" /\ account[a].seat
  BY StatusWritten DEF Holds
<1>2. c \notin desk'
  BY DEF StatusIsSet, CallEnds
<1>3. ~IsCurrent(c)
  <2>1. SUFFICES ASSUME IsCurrent(c) PROVE FALSE
    OBVIOUS
  <2>2. c.user \in Admin /\ account[c.user].seat /\ account[c.user].status = "active"
    BY <2>1 DEF IsCurrent, InOffice, SeatInv, SessionsTyped, Calls
  <2>3. c.user = a
    BY <1>1, <2>2 DEF SeatInv, OneSeat
  <2> QED
    BY <2>2, <2>3 DEF Holds
<1> QED
  BY <1>1, <1>2, <1>3

\* ... and an account comes to hold the seat and be active only with the invitation
\* of the owner's last decision (replacePrimaryAdmin, revokePrimaryAdmin,
\* consumeToken), or by a status update (PATCH /admin/customers/:id/status) whose
\* caller had been let in and is no longer in office: the administrator in office
\* can make no other account its holder.
THEOREM OnlyTheStandingInvitationSeats == SeatSpec => SeatTakenByStandingInvitation
<1>1. ASSUME SeatInv, [SeatNext]_seatVars, NEW a \in Admin, ~Holds(a), Holds(a)'
      PROVE  \/ /\ standing # NoLink /\ link[standing].user = a
                /\ link[standing].state = "active" /\ link'[standing].state = "consumed"
             \/ \E c \in desk \ desk' : c.pc = "activate" /\ c.target = a /\ ~IsCurrent(c)
  <2>1. (\E l \in Link : FollowsLink(l)) \/ (\E c \in desk : StatusIsSet(c))
    <3>1. CASE \E b \in Admin, l \in Link : Replace(b, l)
      BY <1>1, <3>1, SeatedAre DEF Replace, SeatInv, Holds
    <3>2. CASE \E d \in Desk, b \in Admin : Revoke(d, b)
      BY <1>1, <3>2, SeatedAre DEF Revoke, SeatInv, AccountsTyped, Holds
    <3>3. CASE \E c \in desk : PasswordChanges(c)
      BY <1>1, <3>3 DEF PasswordChanges, SeatInv, AccountsTyped, AccountShape, Holds
    <3>4. CASE \E b \in Admin : AssignmentEnds(b)
      BY <1>1, <3>4 DEF AssignmentEnds, SeatInv, AccountsTyped, AccountShape, Holds
    <3>5. CASE UNCHANGED account
      BY <1>1, <3>5 DEF Holds
    <3> QED
      BY <1>1, <3>1, <3>2, <3>3, <3>4, <3>5 DEF SeatNext, seatVars, SendReset, SignIn, ChangePassword,
         AsksStatus, RevokeLinks, ResetInvalidates, Signs, HandlerDies, ResetCreates, LinkExpires,
         LinkDeleted
  <2>2. CASE \E l \in Link : FollowsLink(l)
    BY <1>1, <2>2, LinkSeatsStanding
  <2>3. CASE \E c \in desk : StatusIsSet(c)
    BY <1>1, <2>3, StatusSeatsNobodyElse
  <2> QED
    BY <2>1, <2>2, <2>3
<1>2. SeatInv /\ [SeatNext]_seatVars =>
        \A a \in Admin : ~Holds(a) /\ Holds(a)' =>
          \/ /\ standing # NoLink /\ link[standing].user = a
             /\ link[standing].state = "active" /\ link'[standing].state = "consumed"
          \/ \E c \in desk \ desk' : c.pc = "activate" /\ c.target = a /\ ~IsCurrent(c)
  BY <1>1
<1> QED
  BY <1>2, SeatInvariant, PTL DEF SeatSpec, SeatTakenByStandingInvitation

-----------------------------------------------------------------------------
(* Ended sessions *)

\* What was signed, or read to be signed or saved, is of the running era when
\* it is of the current version; versions only grow, and nobody ever signed in
\* as an account that was never invited.
Carried == signed \union {c \in desk : c.pc \in {"sign", "change"}}
UpToDate(s) ==
    /\ s.version <= account[s.user].version
    /\ s.version = account[s.user].version => s.era = era[s.user]
    /\ account[s.user].status # "absent"
EraInv == ~overwritten => \A s \in Carried : UpToDate(s)

\* An account goes to another version together with another era, or keeps both.
Ages(a) ==
    \/ /\ account'[a].version = account[a].version + 1
       /\ account[a].status # "absent" => account'[a].status # "absent"
    \/ /\ account'[a].version = account[a].version /\ era'[a] = era[a]
       /\ account[a].status # "absent" => account'[a].status # "absent"
    \/ account[a].status = "absent"

LEMMA ErasStep ==
    ASSUME SeatInv, EraInv, overwritten => overwritten',
           ~overwritten' => \A a \in Admin : Ages(a),
           ~overwritten' => \A s \in Carried' : s \in Carried \/ UpToDate(s)'
    PROVE  EraInv'
<1>1. ASSUME NEW s \in Carried, ~overwritten' PROVE UpToDate(s)'
  <2>1. /\ UpToDate(s) /\ s.user \in Admin /\ s.version \in Nat
        /\ account[s.user].version \in Nat
    BY <1>1 DEF EraInv, Carried, SeatInv, SessionsTyped, Calls, AccountsTyped, AccountShape, Read
  <2>2. Ages(s.user)
    BY <1>1, <2>1
  <2> QED
    BY <2>1, <2>2 DEF UpToDate, Ages
<1> QED
  BY <1>1 DEF EraInv

\* No account changes, and no call brings in what was read.
LEMMA ErasRest ==
    ASSUME SeatInv, EraInv, UNCHANGED <<account, era, overwritten>>, Carried' \subseteq Carried
    PROVE  EraInv'
BY ErasStep DEF Ages

LEMMA EraOfDecisions ==
    ASSUME SeatInv, EraInv, NEW a \in Admin, NEW d, NEW l, Replace(a, l) \/ Revoke(d, a)
    PROVE  EraInv'
<1>1. UNCHANGED overwritten /\ Carried' \subseteq Carried
  BY DEF Replace, Revoke, Calling, CallingOn, Carried
<1>2. ASSUME NEW b \in Admin PROVE Ages(b)
  <2>1. CASE Replace(a, l)
    <3>1. /\ account'[b] = IF b = a THEN Seated(a) ELSE IF account[b].seat THEN Unseated(b) ELSE account[b]
          /\ era'[b] = IF b = a \/ account[b].seat THEN era[b] + 1 ELSE era[b]
      BY <2>1 DEF Replace, SeatInv, AccountsTyped
    <3>2. account[a].status # "absent" => Seated(a).version = account[a].version + 1
      BY DEF Seated
    <3> QED
      BY <3>1, <3>2, SeatedAre DEF SeatInv, Ages
  <2>2. CASE Revoke(d, a)
    <3>1. /\ account'[b] = IF b = a THEN Unseated(a) ELSE account[b]
          /\ era'[b] = IF b = a THEN era[b] + 1 ELSE era[b]
      BY <2>2 DEF Revoke, SeatInv, AccountsTyped
    <3> QED
      BY <3>1, SeatedAre DEF SeatInv, Ages
  <2> QED
    BY <2>1, <2>2
<1> QED
  BY <1>1, <1>2, ErasStep

LEMMA EraOfLinks ==
    ASSUME SeatInv, EraInv, NEW l \in Link, FollowsLink(l)
    PROVE  EraInv'
<1>1. PICK a \in Admin : link[l] # NoLink /\ a = link[l].user
  BY DEF FollowsLink, SeatInv, LinksTyped, LinkShape
<1>2. /\ account' = [account EXCEPT ![a].status = "active", ![a].version = @ + 1]
      /\ UNCHANGED <<desk, signed, overwritten>>
      /\ era' = [era EXCEPT ![a] = @ + 1]
  BY <1>1 DEF FollowsLink, Consumed
<1>3. \A b \in Admin : Ages(b)
  BY <1>2 DEF SeatInv, AccountsTyped, AccountShape, Ages
<1>4. Carried' = Carried
  BY <1>2 DEF Carried
<1> QED
  BY <1>2, <1>3, <1>4, ErasStep

LEMMA EraOfReading ==
    ASSUME SeatInv, EraInv, NEW d \in Desk, NEW a \in Admin, NEW b \in Admin,
           NEW pc \in {"activate", "block"},
           SignIn(d, a) \/ ChangePassword(d, a) \/ SendReset(d, a) \/ AsksStatus(d, a, b, pc)
    PROVE  EraInv'
<1>1. UNCHANGED <<account, signed, era, overwritten>>
  BY DEF SignIn, ChangePassword, SendReset, AsksStatus
<1>2. \A c \in desk' \ desk : c.user = a /\ c.version = account[a].version /\ c.era = era[a]
  BY DEF SignIn, ChangePassword, SendReset, AsksStatus, Calling, CallingOn
<1>3. CASE SendReset(d, a) \/ AsksStatus(d, a, b, pc)
  <2>1. Carried' \subseteq Carried
    BY <1>3 DEF SendReset, AsksStatus, Calling, CallingOn, Carried
  <2> QED
    BY <1>1, <2>1, ErasRest
<1>4. CASE SignIn(d, a) \/ ChangePassword(d, a)
  <2>1. account[a].status = "active"
    BY <1>4 DEF SignIn, ChangePassword, IsCurrent, InOffice
  <2>2. account[a].version \in Nat
    BY DEF SeatInv, AccountsTyped, AccountShape
  <2>3. \A s \in Carried' : s \in Carried \/ UpToDate(s)'
    BY <1>1, <1>2, <2>1, <2>2 DEF Carried, UpToDate
  <2> QED
    BY <1>1, <2>3, ErasStep DEF Ages
<1> QED
  BY <1>3, <1>4

LEMMA EraOfCalls ==
    ASSUME SeatInv, EraInv, NEW c \in desk, NEW l,
           RevokeLinks(c) \/ ResetInvalidates(c) \/ ResetCreates(c, l) \/ HandlerDies(c)
    PROVE  EraInv'
<1>1. UNCHANGED <<account, signed, era, overwritten>>
  BY DEF RevokeLinks, ResetInvalidates, ResetCreates, HandlerDies
<1>2. \A e \in desk' \ desk : e.pc = "create"
  BY DEF RevokeLinks, ResetInvalidates, ResetCreates, HandlerDies, CallMoves, CallEnds, SeatInv,
     SessionsTyped, Calls
<1>3. Carried' \subseteq Carried
  BY <1>1, <1>2 DEF Carried
<1> QED
  BY <1>1, <1>3, ErasRest

LEMMA EraOfSigning ==
    ASSUME SeatInv, EraInv, NEW c \in desk, Signs(c)
    PROVE  EraInv'
<1>1. /\ UNCHANGED <<account, era, overwritten>> /\ c.pc = "sign" /\ desk' \subseteq desk
      /\ signed' = signed \union {[user |-> c.user, version |-> c.version, era |-> c.era]}
  BY DEF Signs, CallEnds
<1>2. ~overwritten => UpToDate(c)
  BY <1>1 DEF EraInv, Carried
<1>3. ~overwritten => \A s \in signed' \ signed : UpToDate(s)'
  BY <1>1, <1>2 DEF UpToDate
<1>4. ~overwritten' => \A s \in Carried' : s \in Carried \/ UpToDate(s)'
  BY <1>1, <1>3 DEF Carried
<1> QED
  BY <1>1, <1>4, ErasStep DEF Ages

LEMMA EraOfPassword ==
    ASSUME SeatInv, EraInv, NEW c \in desk, PasswordChanges(c)
    PROVE  EraInv'
<1>1. PICK a \in Admin, v \in Nat : a = c.user /\ v = c.version
  BY DEF SeatInv, SessionsTyped, Calls
<1>2. /\ account' = [account EXCEPT ![a].version = v + 1] /\ era' = [era EXCEPT ![a] = @ + 1]
      /\ overwritten' = (overwritten \/ account[a].version # v)
      /\ UNCHANGED signed /\ desk' \subseteq desk
  BY <1>1 DEF PasswordChanges, CallEnds
<1>3. ~overwritten' => account[a].version = v /\ ~overwritten
  BY <1>2
<1>4. ASSUME ~overwritten', NEW b \in Admin PROVE Ages(b)
  BY <1>2, <1>3, <1>4 DEF SeatInv, AccountsTyped, AccountShape, Ages
<1>5. Carried' \subseteq Carried
  BY <1>2 DEF Carried
<1> QED
  BY <1>2, <1>3, <1>4, <1>5, ErasStep

LEMMA EraOfStatus ==
    ASSUME SeatInv, EraInv, NEW c \in desk, StatusIsSet(c)
    PROVE  EraInv'
<1>1. UNCHANGED <<signed, era, overwritten>> /\ desk' \subseteq desk
  BY DEF StatusIsSet, CallEnds
<1>2. \A b \in Admin : Ages(b)
  BY <1>1, StatusWritten DEF Ages
<1>3. Carried' \subseteq Carried
  BY <1>1 DEF Carried
<1> QED
  BY <1>1, <1>2, <1>3, ErasStep

LEMMA EraOfTime ==
    ASSUME SeatInv, EraInv, NEW a, NEW l, LinkExpires(l) \/ LinkDeleted(l) \/ AssignmentEnds(a)
    PROVE  EraInv'
<1>1. UNCHANGED <<desk, signed, era, overwritten>>
  BY DEF LinkExpires, LinkDeleted, AssignmentEnds
<1>2. \A b \in Admin : Ages(b)
  BY <1>1 DEF LinkExpires, LinkDeleted, AssignmentEnds, SeatInv, AccountsTyped, AccountShape, Ages
<1>3. Carried' = Carried
  BY <1>1 DEF Carried
<1> QED
  BY <1>1, <1>2, <1>3, ErasStep

LEMMA EraInvariant == SeatSpec => []EraInv
<1>1. SeatInit => EraInv
  BY DEF SeatInit, EraInv, Carried
<1>2. ASSUME SeatInv, EraInv, [SeatNext]_seatVars PROVE EraInv'
  <2>1. CASE SeatNext
    BY <1>2, <2>1, EraOfDecisions, EraOfLinks, EraOfReading, EraOfCalls, EraOfSigning, EraOfPassword,
       EraOfStatus, EraOfTime DEF SeatNext
  <2>2. CASE UNCHANGED seatVars
    BY <1>2, <2>2, ErasRest DEF seatVars, Carried
  <2> QED
    BY <1>2, <2>1, <2>2
<1> QED
  BY SeatInvariant, <1>1, <1>2, PTL DEF SeatSpec

\* Replacing, revoking, following a link and changing the password end the
\* sessions of the account for good, whatever was read before and signed after
\* -- unless a password change was saved over a newer token version.
THEOREM EndedSessionsEnd == SeatSpec => []EndedSessionsStayEnded
<1>1. EraInv => EndedSessionsStayEnded
  BY DEF EraInv, Carried, UpToDate, IsCurrent, EndedSessionsStayEnded
<1> QED
  BY <1>1, EraInvariant, PTL

-----------------------------------------------------------------------------
(* The stock of a product *)

StockTyped ==
    /\ variants \in Variants /\ held \in [Variant -> Nat]
    /\ \A e \in editing : e.read \in Variants
    /\ raced \in BOOLEAN /\ clobbered \in BOOLEAN

\* An edit read a product that was in step with itself, unless a race came before.
CatalogInv ==
    /\ StockTyped
    /\ ReservationsKept
    /\ AvailableIsNet
    /\ ~raced => \A e \in editing : e.available = AvailableOf(e.read)

VariantShape == [stock : Nat, reserved : Nat, active : BOOLEAN, known : BOOLEAN]

LEMMA CatalogStarts == CatalogInit => CatalogInv
<1> SUFFICES ASSUME CatalogInit PROVE CatalogInv
  OBVIOUS
<1>1. MaxStock \in Nat
  BY CatalogAssumption
<1>2. variants \in Variants /\ held \in [Variant -> Nat]
  BY <1>1 DEF CatalogInit, Variants, NoVariant
<1>3. \A v \in Variant : variants[v].reserved = held[v]
  BY DEF CatalogInit, NoVariant
<1> QED
  BY <1>2, <1>3 DEF CatalogInit, CatalogInv, StockTyped, ReservationsKept, AvailableIsNet

\* One transaction of the inventory: a variant and what is held of it.
LEMMA MutateKeeps ==
    ASSUME CatalogInv, NEW v \in Variant, NEW s \in Int, NEW r \in Int, Mutate(v, s, r),
           held' \in [Variant -> Nat], variants[v].stock + s >= 0, variants[v].reserved + r >= 0,
           held'[v] = held[v] + r, \A u \in Variant : u # v => held'[u] = held[u]
    PROVE  CatalogInv'
<1>1. /\ variants' = [variants EXCEPT ![v].stock = @ + s, ![v].reserved = @ + r]
      /\ available' = AvailableOf(variants') /\ UNCHANGED <<editing, raced, clobbered>>
  BY DEF Mutate
<1>2. variants \in [Variant -> VariantShape]
  BY DEF CatalogInv, StockTyped, Variants, VariantShape
<1>3. \A u \in Variant :
         /\ u # v => variants'[u] = variants[u]
         /\ u = v => variants'[u] = [variants[u] EXCEPT !.stock = @ + s, !.reserved = @ + r]
  BY <1>1, <1>2
<1>4. variants' = [u \in Variant |-> variants'[u]]
  BY <1>1, <1>2
<1>5. /\ \A u \in Variant : variants'[u] \in VariantShape
      /\ variants'[v].reserved = variants[v].reserved + r
  <2> DEFINE old == variants[v]
             new == [old EXCEPT !.stock = @ + s, !.reserved = @ + r]
  <2>1. old \in VariantShape /\ old.stock + s \in Nat /\ old.reserved + r \in Nat
    BY <1>2 DEF VariantShape
  <2>2. variants'[v] = new
    BY <1>3
  <2> HIDE DEF old
  <2>3. new \in VariantShape /\ new.reserved = old.reserved + r
    BY <2>1 DEF VariantShape
  <2> HIDE DEF new
  <2> QED
    BY <1>2, <1>3, <2>2, <2>3 DEF old
<1>6. variants' \in Variants
  BY <1>4, <1>5 DEF Variants, VariantShape
<1>7. ~clobbered => \A u \in Variant : variants'[u].reserved = held'[u]
  <2> SUFFICES ASSUME ~clobbered, NEW u \in Variant PROVE variants'[u].reserved = held'[u]
    OBVIOUS
  <2>1. variants[u].reserved = held[u]
    BY DEF CatalogInv, ReservationsKept
  <2>2. CASE u = v
    <3>1. PICK n \in Nat : n = held[v] /\ n = variants[v].reserved
      BY <2>1, <2>2 DEF CatalogInv, StockTyped
    <3> QED
      BY <1>5, <2>2, <3>1
  <2>3. CASE u # v
    BY <1>3, <2>1, <2>3
  <2> QED
    BY <2>2, <2>3
<1>8. StockTyped'
  BY <1>1, <1>6 DEF CatalogInv, StockTyped
<1> QED
  BY <1>1, <1>7, <1>8 DEF CatalogInv, ReservationsKept, AvailableIsNet

LEMMA InventoryKeeps ==
    ASSUME CatalogInv, NEW v \in Variant,
           ReserveUnit(v) \/ ReleaseUnit(v) \/ ConsumeUnit(v) \/ SellUnit(v) \/ RestoreUnit(v)
    PROVE  CatalogInv'
<1>1. /\ variants[v].stock \in Nat /\ variants[v].reserved \in Nat /\ held \in [Variant -> Nat]
      /\ held[v] \in Nat
  BY DEF CatalogInv, StockTyped, Variants
<1>2. CASE ReserveUnit(v)
  <2>1. Mutate(v, 0, 1) /\ held' = [held EXCEPT ![v] = @ + 1]
    BY <1>2 DEF ReserveUnit
  <2> QED
    BY <1>1, <2>1, MutateKeeps
<1>3. CASE ReleaseUnit(v)
  <2>1. Mutate(v, 0, -1) /\ held' = [held EXCEPT ![v] = @ - 1] /\ held[v] > 0 /\ variants[v].reserved > 0
    BY <1>3 DEF ReleaseUnit
  <2> QED
    BY <1>1, <2>1, MutateKeeps
<1>4. CASE ConsumeUnit(v)
  <2>1. /\ Mutate(v, -1, -1) /\ held' = [held EXCEPT ![v] = @ - 1] /\ held[v] > 0
        /\ variants[v].reserved > 0 /\ variants[v].stock > 0
    BY <1>4 DEF ConsumeUnit
  <2>2. /\ variants[v].stock + (-1) >= 0 /\ variants[v].reserved + (-1) >= 0
        /\ held'[v] = held[v] + (-1) /\ held' \in [Variant -> Nat]
        /\ \A u \in Variant : u # v => held'[u] = held[u]
    BY <1>1, <2>1
  <2> QED
    BY <2>1, <2>2, MutateKeeps
<1>5. CASE SellUnit(v)
  <2>1. Mutate(v, -1, 0) /\ held' = held /\ variants[v].stock > 0
    BY <1>1, <1>5 DEF SellUnit, Net
  <2>2. /\ variants[v].stock + (-1) >= 0 /\ variants[v].reserved + 0 >= 0
        /\ held'[v] = held[v] + 0 /\ held' \in [Variant -> Nat]
        /\ \A u \in Variant : u # v => held'[u] = held[u]
    BY <1>1, <2>1
  <2> QED
    BY <2>1, <2>2, MutateKeeps
<1>6. CASE RestoreUnit(v)
  <2>1. Mutate(v, 1, 0) /\ held' = held
    BY <1>6 DEF RestoreUnit
  <2>2. /\ variants[v].stock + 1 >= 0 /\ variants[v].reserved + 0 >= 0
        /\ held'[v] = held[v] + 0 /\ held' \in [Variant -> Nat]
    BY <1>1, <2>1
  <2> QED
    BY <2>1, <2>2, MutateKeeps
<1> QED
  BY <1>2, <1>3, <1>4, <1>5, <1>6

LEMMA ReadProductKeeps ==
    ASSUME CatalogInv, NEW w, ReadProduct(w)
    PROVE  CatalogInv'
<1> DEFINE e == [editor |-> w, read |-> variants, available |-> available, version |-> version]
<1>1. /\ editing' = editing \union {e}
      /\ UNCHANGED <<variants, available, held, raced, clobbered>>
  BY DEF ReadProduct
<1>2. e.read = variants /\ e.available = available
  OBVIOUS
<1> HIDE DEF e
<1>3. ~raced => e.available = AvailableOf(e.read)
  BY <1>2 DEF CatalogInv, AvailableIsNet
<1>4. StockTyped'
  BY <1>1, <1>2 DEF CatalogInv, StockTyped
<1> QED
  BY <1>1, <1>3, <1>4 DEF CatalogInv, ReservationsKept, AvailableIsNet

\* A save that was not raced wrote the product it read, but for its edit.
LEMMA SavedIsNet ==
    ASSUME NEW e, NEW before, NEW after, NEW shown, NEW now,
           shown = AvailableOf(before), e.available = AvailableOf(e.read), e.read = before,
           now = IF AvailableOf(after) = e.available THEN shown ELSE AvailableOf(after)
    PROVE  now = AvailableOf(after)
<1>1. PICK a : a = AvailableOf(before)
  OBVIOUS
<1>2. AvailableOf(e.read) = a
  BY <1>1
<1> QED
  BY <1>1, <1>2

LEMMA SaveDefaultKeeps ==
    ASSUME CatalogInv, NEW e \in editing, SaveDefault(e)
    PROVE  CatalogInv'
<1>1. PICK v \in DefaultVariants(e.read), n \in 0..MaxStock :
         /\ variants' = IF n = e.read[v].stock THEN variants ELSE [variants EXCEPT ![v].stock = n]
         /\ available' = SavedAvailable(e, [e.read EXCEPT ![v].stock = n])
         /\ raced' = (raced \/ (n # e.read[v].stock /\ variants # e.read))
  BY DEF SaveDefault
<1>2. editing' \subseteq editing /\ UNCHANGED <<held, clobbered>>
  BY DEF SaveDefault
<1>3. variants \in [Variant -> VariantShape] /\ e.read \in [Variant -> VariantShape] /\ v \in Variant /\ n \in Nat
  BY <1>1, CatalogAssumption DEF CatalogInv, StockTyped, Variants, VariantShape, DefaultVariants
<1>4. /\ \A u \in Variant : variants'[u].reserved = variants[u].reserved
      /\ variants' \in Variants
  <2>1. CASE n = e.read[v].stock
    BY <1>1, <2>1 DEF CatalogInv, StockTyped
  <2>2. CASE n # e.read[v].stock
    BY <1>1, <1>3, <2>2 DEF VariantShape, Variants
  <2> QED
    BY <2>1, <2>2
<1>5. raced' \in BOOLEAN /\ (raced => raced')
  BY <1>1 DEF CatalogInv, StockTyped
<1>6. ASSUME ~raced' PROVE available' = AvailableOf(variants')
  <2>1. ~raced /\ available = AvailableOf(variants) /\ e.available = AvailableOf(e.read)
    BY <1>5, <1>6 DEF CatalogInv, AvailableIsNet
  <2>2. CASE n = e.read[v].stock
    <3>1. [e.read EXCEPT ![v].stock = n] = e.read
      BY <1>3, <2>2 DEF VariantShape
    <3>2. available' = available /\ variants' = variants
      BY <1>1, <2>1, <2>2, <3>1 DEF SavedAvailable
    <3> QED
      BY <2>1, <3>2
  <2>3. CASE n # e.read[v].stock
    <3>1. e.read = variants
      BY <1>1, <1>6, <2>3
    <3>2. PICK before, after : before = variants /\ after = variants'
      OBVIOUS
    <3>3. after = [e.read EXCEPT ![v].stock = n]
      BY <1>1, <2>3, <3>1, <3>2
    <3>4. available' = IF AvailableOf(after) = e.available THEN available ELSE AvailableOf(after)
      BY <1>1, <3>3 DEF SavedAvailable
    <3>5. available = AvailableOf(before) /\ e.read = before
      BY <2>1, <3>1, <3>2
    <3>6. available' = AvailableOf(after)
      BY <2>1, <3>4, <3>5, SavedIsNet
    <3> QED
      BY <3>2, <3>6
  <2> QED
    BY <2>2, <2>3
<1>7. StockTyped'
  BY <1>2, <1>4, <1>5 DEF CatalogInv, StockTyped
<1> QED
  BY <1>2, <1>4, <1>5, <1>6, <1>7 DEF CatalogInv, ReservationsKept, AvailableIsNet

LEMMA SaveVariantsKeeps ==
    ASSUME CatalogInv, NEW e \in editing, SaveVariants(e)
    PROVE  CatalogInv'
<1>1. PICK incoming \in SUBSET Variant \ {{}} : \E m \in [incoming -> {0, MaxStock}] :
         /\ variants' = Edited(e, incoming, m)
         /\ available' = SavedAvailable(e, Edited(e, incoming, m))
         /\ raced' = (raced \/ variants # e.read)
         /\ clobbered' = (clobbered \/ \E v \in Variant : variants[v].reserved # e.read[v].reserved)
  BY DEF SaveVariants
<1>2. PICK n \in [incoming -> {0, MaxStock}] :
         /\ variants' = Edited(e, incoming, n)
         /\ available' = SavedAvailable(e, Edited(e, incoming, n))
         /\ raced' = (raced \/ variants # e.read)
         /\ clobbered' = (clobbered \/ \E v \in Variant : variants[v].reserved # e.read[v].reserved)
  BY <1>1
<1>3. editing' \subseteq editing /\ UNCHANGED held
  BY DEF SaveVariants
<1>4. e.read \in [Variant -> VariantShape] /\ MaxStock \in Nat
  BY CatalogAssumption DEF CatalogInv, StockTyped, Variants, VariantShape
<1>5. /\ \A u \in Variant : variants'[u].reserved = e.read[u].reserved
      /\ variants' \in Variants
  <2>1. \A u \in Variant : variants'[u] = IF u \in incoming
            THEN [stock |-> n[u], reserved |-> e.read[u].reserved, active |-> TRUE, known |-> TRUE]
            ELSE [e.read[u] EXCEPT !.active = FALSE]
    BY <1>2 DEF Edited, KeptReservation
  <2>2. \A u \in Variant : variants'[u] \in VariantShape /\ variants'[u].reserved = e.read[u].reserved
    <3> SUFFICES ASSUME NEW u \in Variant
                 PROVE  variants'[u] \in VariantShape /\ variants'[u].reserved = e.read[u].reserved
      OBVIOUS
    <3>1. PICK old \in VariantShape : old = e.read[u]
      BY <1>4
    <3>2. CASE u \in incoming
      <4>1. PICK k \in Nat : k = n[u]
        BY <1>4, <3>2
      <4>2. variants'[u] = [stock |-> k, reserved |-> old.reserved, active |-> TRUE, known |-> TRUE]
        BY <2>1, <3>1, <3>2, <4>1
      <4> QED
        BY <3>1, <4>2 DEF VariantShape
    <3>3. CASE u \notin incoming
      BY <2>1, <3>1, <3>3 DEF VariantShape
    <3> QED
      BY <3>2, <3>3
  <2>3. variants' = [u \in Variant |-> variants'[u]]
    BY <1>2 DEF Edited
  <2> QED
    BY <2>2, <2>3 DEF Variants, VariantShape
<1>6. raced' \in BOOLEAN /\ (raced => raced') /\ clobbered' \in BOOLEAN
  BY <1>2 DEF CatalogInv, StockTyped
<1>7. ~clobbered' => \A u \in Variant : variants'[u].reserved = held[u]
  BY <1>2, <1>5 DEF CatalogInv, StockTyped, ReservationsKept
<1>8. ASSUME ~raced' PROVE available' = AvailableOf(variants')
  <2>1. ~raced /\ e.read = variants /\ available = AvailableOf(variants) /\ e.available = AvailableOf(e.read)
    BY <1>2, <1>6, <1>8 DEF CatalogInv, AvailableIsNet
  <2>2. PICK before, after : before = variants /\ after = variants'
    OBVIOUS
  <2>3. available' = IF AvailableOf(after) = e.available THEN available ELSE AvailableOf(after)
    BY <1>2, <2>2 DEF SavedAvailable
  <2>4. available = AvailableOf(before) /\ e.read = before
    BY <2>1, <2>2
  <2>5. available' = AvailableOf(after)
    BY <2>1, <2>3, <2>4, SavedIsNet
  <2> QED
    BY <2>2, <2>5
<1>9. StockTyped'
  BY <1>3, <1>5, <1>6 DEF CatalogInv, StockTyped
<1> QED
  BY <1>3, <1>6, <1>7, <1>8, <1>9 DEF CatalogInv, ReservationsKept, AvailableIsNet

LEMMA ClearKeeps ==
    ASSUME CatalogInv, ClearReservations
    PROVE  CatalogInv'
<1>1. /\ clobbered' = TRUE /\ available' = AvailableOf(variants') /\ UNCHANGED <<editing, held, raced>>
      /\ variants' = [v \in Variant |-> [variants[v] EXCEPT !.reserved = 0]]
  BY DEF ClearReservations
<1>2. variants' \in Variants
  BY <1>1 DEF CatalogInv, StockTyped, Variants
<1> QED
  BY <1>1, <1>2 DEF CatalogInv, StockTyped, ReservationsKept, AvailableIsNet

LEMMA CatalogKeeps == CatalogInv /\ [CatalogNext]_catalogVars => CatalogInv'
<1> SUFFICES ASSUME CatalogInv, [CatalogNext]_catalogVars PROVE CatalogInv'
  OBVIOUS
<1>1. ASSUME UNCHANGED <<variants, available, held, raced, clobbered>>, editing' \subseteq editing
      PROVE  CatalogInv'
  BY <1>1 DEF CatalogInv, StockTyped, ReservationsKept, AvailableIsNet
<1>2. CASE UNCHANGED catalogVars
  BY <1>1, <1>2 DEF catalogVars
<1>3. ASSUME NEW e \in editing, EditFails(e) PROVE CatalogInv'
  BY <1>1, <1>3 DEF EditFails
<1> QED
  BY <1>2, <1>3, InventoryKeeps, ReadProductKeeps, SaveDefaultKeeps, SaveVariantsKeeps, ClearKeeps DEF CatalogNext

LEMMA CatalogHolds == CatalogSpec => []CatalogInv
BY CatalogStarts, CatalogKeeps, PTL DEF CatalogSpec

\* Every variant has as much reserved as checkouts hold of it, however staff edit,
\* retire and revive variants, unless a save replaced the variants after a
\* reservation it had not read, or the clearing script ran.
THEOREM ReservationsAreKept == CatalogSpec => []ReservationsKept
<1>1. CatalogInv => ReservationsKept
  BY DEF CatalogInv
<1> QED
  BY <1>1, CatalogHolds, PTL

\* The stock customers are shown is what can be reserved, unless an edit of the
\* stock overlapped a change of it.
THEOREM AvailableStaysNet == CatalogSpec => []AvailableIsNet
<1>1. CatalogInv => AvailableIsNet
  BY DEF CatalogInv
<1> QED
  BY <1>1, CatalogHolds, PTL

-----------------------------------------------------------------------------
(* The migration of the images *)

Uploading == [picture : Picture \union {OwnPicture}, pc : {"idle", "lookup", "upload", "validate"}]
Fit == Picture \ BadPicture

\* What the script may replace is on the image host and stays there; what a worker
\* validates it has uploaded.
FieldsFit ==
    /\ shows \in [ImageField -> URL] /\ read \in [ImageField -> URL]
    /\ chosen \in [ImageField -> Picture \union {OwnPicture}]
    /\ replaced \subseteq assets \intersect Fit
    /\ uploads \subseteq Picture
    /\ uploading \in [Uploader -> Uploading]
    /\ \A w \in Uploader : uploading[w].pc # "idle" => uploading[w].picture \in Picture
    /\ \A w \in Uploader : uploading[w].pc = "validate" => uploading[w].picture \in assets \union BadPicture
    /\ \A f \in ImageField :
          /\ shows[f].picture = chosen[f]
          /\ shows[f].hosted => shows[f].picture \in (assets \intersect Fit) \union {OwnPicture}

\* Once every file was read, what was read of it is its picture.
FilesFit ==
    /\ file \in [SourceFile -> URL] /\ readFile \in [SourceFile -> URL]
    /\ printed \in [SourceFile -> Picture]
    /\ \A s \in SourceFile :
          /\ file[s] = Torn \/ file[s].picture = printed[s]
          /\ file[s] = Torn => \E b \in backups : b[1] = s
          /\ readFile[s] = Unread \/ readFile[s].picture = printed[s]
          /\ script \in {"upload", "failing", "database", "files", "writing"} => readFile[s] # Unread
    /\ \A b \in backups : b[1] \in SourceFile /\ b[2] \in URL /\ b[2].picture = printed[b[1]]

ImageInv == FieldsFit /\ FilesFit

LEMMA MigrationConstants == BadPicture \subseteq Picture /\ OwnPicture \notin Picture
BY MigrationAssumption

LEMMA ImageStarts == ImageInit => ImageInv
<1> SUFFICES ASSUME ImageInit PROVE ImageInv
  OBVIOUS
<1>1. Torn \in URL /\ Idling \in Uploading
  BY DEF Torn, URL, Idling, Uploading
<1>2. \A p \in Picture : External(p) \in URL /\ External(p).picture = p /\ External(p).hosted = FALSE
  BY DEF External, URL
<1>3. FieldsFit
  <2>1. /\ shows \in [ImageField -> URL] /\ read \in [ImageField -> URL]
        /\ uploading \in [Uploader -> Uploading]
        /\ chosen \in [ImageField -> Picture \union {OwnPicture}]
    BY <1>1, <1>2 DEF ImageInit, Unread
  <2>2. \A w \in Uploader : uploading[w].pc = "idle"
    BY DEF ImageInit, Idling
  <2>3. \A f \in ImageField : shows[f].picture = chosen[f] /\ shows[f].hosted = FALSE
    BY <1>2 DEF ImageInit
  <2> QED
    BY <2>1, <2>2, <2>3 DEF ImageInit, FieldsFit
<1>4. FilesFit
  <2>1. \A s \in SourceFile : file[s] = External(printed[s]) /\ printed[s] \in Picture /\ readFile[s] = Unread
    BY DEF ImageInit
  <2>2. \A s \in SourceFile : file[s].picture = printed[s] /\ file[s] # Torn
    BY <1>2, <2>1, MigrationConstants DEF Torn
  <2>3. file \in [SourceFile -> URL] /\ readFile \in [SourceFile -> URL] /\ printed \in [SourceFile -> Picture]
    BY <1>1, <1>2 DEF ImageInit, Unread
  <2> QED
    BY <2>1, <2>2, <2>3 DEF ImageInit, FilesFit
<1> QED
  BY <1>3, <1>4 DEF ImageInv

\* Steps that leave the fields alone, or the files.
LEMMA FieldsKept ==
    ASSUME FieldsFit, UNCHANGED <<shows, chosen, read, replaced, assets>>,
           uploads' \subseteq uploads, UNCHANGED uploading
    PROVE  FieldsFit'
BY DEF FieldsFit

LEMMA FilesKept ==
    ASSUME FilesFit, UNCHANGED <<file, backups, printed, readFile>>,
           script' = script \/ script' \in {"idle", "load"}
              \/ script \in {"upload", "failing", "database", "files", "writing"}
    PROVE  FilesFit'
BY DEF FilesFit

LEMMA EditKeeps ==
    ASSUME ImageInv, NEW f \in ImageField,
           NEW url \in {External(p) : p \in Picture} \union {Hosted(OwnPicture)}, EditImage(f, url)
    PROVE  ImageInv'
<1>1. url \in URL /\ (url.hosted => url.picture = OwnPicture)
  <2>1. CASE url = Hosted(OwnPicture)
    BY <2>1 DEF Hosted, URL
  <2>2. CASE \E p \in Picture : url = External(p)
    BY <2>2 DEF External, URL
  <2> QED
    BY <2>1, <2>2
<1>2. /\ shows' = [shows EXCEPT ![f] = url] /\ chosen' = [chosen EXCEPT ![f] = url.picture]
      /\ UNCHANGED <<fileVars, assets, script, read, readFile, uploads, uploading, replaced, scripts>>
  BY DEF EditImage
<1>3. FilesFit'
  BY <1>2, FilesKept DEF ImageInv, fileVars
<1>4. /\ shows \in [ImageField -> URL] /\ chosen \in [ImageField -> Picture \union {OwnPicture}]
  BY DEF ImageInv, FieldsFit
<1>5. url.picture \in Picture \union {OwnPicture}
  BY <1>1 DEF URL
<1>6. \A g \in ImageField : /\ shows'[g] = IF g = f THEN url ELSE shows[g]
                            /\ chosen'[g] = IF g = f THEN url.picture ELSE chosen[g]
  BY <1>2, <1>4
<1>7. /\ shows' \in [ImageField -> URL] /\ chosen' \in [ImageField -> Picture \union {OwnPicture}]
  BY <1>1, <1>2, <1>4, <1>5
<1>8. \A g \in ImageField :
          /\ shows'[g].picture = chosen'[g]
          /\ shows'[g].hosted => shows'[g].picture \in (assets \intersect Fit) \union {OwnPicture}
  BY <1>1, <1>6 DEF ImageInv, FieldsFit
<1>9. FieldsFit'
  BY <1>2, <1>7, <1>8 DEF ImageInv, FieldsFit
<1> QED
  BY <1>3, <1>9 DEF ImageInv

LEMMA StartKeeps ==
    ASSUME ImageInv, StartScript
    PROVE  ImageInv'
<1>1. Torn \in URL /\ Idling \in Uploading
  BY DEF Torn, URL, Idling, Uploading
<1>2. /\ UNCHANGED <<shows, chosen, file, backups, printed, assets>> /\ script' = "load"
      /\ read' = [f \in ImageField |-> Unread] /\ readFile' = [s \in SourceFile |-> Unread]
      /\ uploads' = {} /\ replaced' = {} /\ uploading' = [w \in Uploader |-> Idling]
  BY DEF StartScript, dbVars
<1>3. FieldsFit'
  <2>1. \A w \in Uploader : uploading'[w].pc = "idle"
    BY <1>2 DEF Idling
  <2>2. read' \in [ImageField -> URL] /\ uploading' \in [Uploader -> Uploading]
    BY <1>1, <1>2 DEF Unread
  <2> QED
    BY <1>2, <2>1, <2>2 DEF ImageInv, FieldsFit
<1>4. FilesFit'
  <2>1. readFile' \in [SourceFile -> URL] /\ \A s \in SourceFile : readFile'[s] = Unread
    BY <1>1, <1>2 DEF Unread
  <2> QED
    BY <1>2, <2>1 DEF ImageInv, FilesFit
<1> QED
  BY <1>3, <1>4 DEF ImageInv

LEMMA StopKeeps ==
    ASSUME ImageInv, StopScript
    PROVE  ImageInv'
BY FieldsKept, FilesKept DEF ImageInv, StopScript, dbVars, fileVars

LEMMA LoadFieldKeeps ==
    ASSUME ImageInv, NEW f \in ImageField, LoadField(f)
    PROVE  ImageInv'
<1>1. /\ read' = [read EXCEPT ![f] = shows[f]]
      /\ UNCHANGED <<shows, chosen, file, backups, printed, assets, script, readFile, uploads,
                     uploading, replaced>>
  BY DEF LoadField, dbVars, fileVars
<1>2. shows[f] \in URL /\ read \in [ImageField -> URL]
  BY DEF ImageInv, FieldsFit
<1>3. read' \in [ImageField -> URL]
  BY <1>1, <1>2
<1>4. FieldsFit'
  BY <1>1, <1>3 DEF ImageInv, FieldsFit
<1>5. FilesFit'
  BY <1>1, FilesKept DEF ImageInv
<1> QED
  BY <1>4, <1>5 DEF ImageInv

LEMMA LoadFileKeeps ==
    ASSUME ImageInv, NEW s \in SourceFile, LoadFile(s)
    PROVE  ImageInv'
<1>1. CASE file[s] = Torn
  BY <1>1, StopKeeps DEF LoadFile
<1>2. CASE file[s] # Torn
  <2>1. /\ readFile' = [readFile EXCEPT ![s] = file[s]] /\ script = "load"
        /\ UNCHANGED <<shows, chosen, file, backups, printed, assets, script, read, uploads,
                       uploading, replaced>>
    BY <1>2 DEF LoadFile, dbVars, fileVars
  <2>2. file[s] \in URL /\ file[s].picture = printed[s] /\ readFile \in [SourceFile -> URL]
    BY <1>2 DEF ImageInv, FilesFit
  <2>3. readFile' \in [SourceFile -> URL]
        /\ \A t \in SourceFile : readFile'[t] = IF t = s THEN file[s] ELSE readFile[t]
    BY <2>1, <2>2
  <2>4. \A t \in SourceFile : readFile'[t] = Unread \/ readFile'[t].picture = printed[t]
    BY <2>2, <2>3 DEF ImageInv, FilesFit
  <2>5. FilesFit'
    BY <2>1, <2>3, <2>4 DEF ImageInv, FilesFit
  <2>6. FieldsFit'
    BY <2>1, FieldsKept DEF ImageInv
  <2> QED
    BY <2>5, <2>6 DEF ImageInv
<1> QED
  BY <1>1, <1>2

LEMMA LoadedKeeps ==
    ASSUME ImageInv, CatalogLoaded
    PROVE  ImageInv'
<1>1. /\ uploads' = Collected /\ \A s \in SourceFile : readFile[s] # Unread
      /\ UNCHANGED <<shows, chosen, file, backups, printed, assets, read, readFile, uploading,
                     replaced>>
  BY DEF CatalogLoaded, dbVars, fileVars
<1>2. Collected \subseteq Picture
  <2>1. \A u \in {read[f] : f \in ImageField} \union {readFile[s] : s \in SourceFile} : u \in URL
    BY DEF ImageInv, FieldsFit, FilesFit
  <2>2. \A u \in URL : u.picture \in Picture \union {OwnPicture}
    BY DEF URL
  <2> QED
    BY <2>1, <2>2 DEF Collected, Pictures
<1>3. FieldsFit'
  BY <1>1, <1>2 DEF ImageInv, FieldsFit
<1>4. FilesFit'
  BY <1>1 DEF ImageInv, FilesFit
<1> QED
  BY <1>3, <1>4 DEF ImageInv

\* A worker's step leaves the fields and the files as they are.
LEMMA WorkerKeeps ==
    ASSUME ImageInv, NEW w \in Uploader, NEW work \in Uploading,
           uploading' = [uploading EXCEPT ![w] = work],
           UNCHANGED <<dbVars, fileVars, read, readFile>>,
           uploads' \subseteq uploads,
           script' = script \/ (script = "upload" /\ script' = "failing")
              \/ (script = "failing" /\ script' = "failing"),
           assets \intersect Fit \subseteq assets', assets \subseteq assets' \union BadPicture,
           replaced' \subseteq assets' \intersect Fit,
           work.pc # "idle" => work.picture \in Picture,
           work.pc = "validate" => work.picture \in assets' \union BadPicture
    PROVE  ImageInv'
<1>1. UNCHANGED <<shows, chosen, file, backups, printed, read, readFile>>
  BY DEF dbVars, fileVars
<1>2. uploading \in [Uploader -> Uploading]
  BY DEF ImageInv, FieldsFit
<1>3. /\ uploading' \in [Uploader -> Uploading]
      /\ \A v \in Uploader : uploading'[v] = IF v = w THEN work ELSE uploading[v]
  BY <1>2
<1>4. \A v \in Uploader :
          /\ uploading'[v].pc # "idle" => uploading'[v].picture \in Picture
          /\ uploading'[v].pc = "validate" => uploading'[v].picture \in assets' \union BadPicture
  BY <1>3 DEF ImageInv, FieldsFit
<1>5. FieldsFit'
  BY <1>1, <1>3, <1>4 DEF ImageInv, FieldsFit
<1>6. FilesFit'
  BY <1>1, FilesKept DEF ImageInv
<1> QED
  BY <1>5, <1>6 DEF ImageInv

LEMMA TakeKeeps ==
    ASSUME ImageInv, NEW w \in Uploader, TakePicture(w)
    PROVE  ImageInv'
<1>1. PICK p \in uploads : Uploads(w, p, "lookup") /\ uploads' = uploads \ {p}
  BY DEF TakePicture
<1> DEFINE work == [picture |-> p, pc |-> "lookup"]
<1>2. p \in Picture
  BY <1>1 DEF ImageInv, FieldsFit
<1>3. work \in Uploading /\ work.pc = "lookup" /\ work.picture = p
  BY <1>2 DEF Uploading
<1>4. uploading' = [uploading EXCEPT ![w] = work]
  BY <1>1 DEF Uploads
<1>5. UNCHANGED <<dbVars, fileVars, assets, script, read, readFile, replaced>>
  BY DEF TakePicture
<1> HIDE DEF work
<1> QED
  BY <1>1, <1>2, <1>3, <1>4, <1>5, WorkerKeeps DEF ImageInv, FieldsFit

LEMMA LookupKeeps ==
    ASSUME ImageInv, NEW w \in Uploader, LookupAsset(w)
    PROVE  ImageInv'
<1> DEFINE p == uploading[w].picture
           work == [picture |-> p, pc |-> "upload"]
<1>1. Idling \in Uploading /\ Idling.pc = "idle"
  BY DEF Idling, Uploading
<1>2. p \in Picture
  BY DEF ImageInv, FieldsFit, LookupAsset
<1>3. work \in Uploading /\ work.pc = "upload" /\ work.picture = p
  BY <1>2 DEF Uploading
<1>4. /\ UNCHANGED <<dbVars, fileVars, assets, read, readFile, scripts>>
      /\ script \in {"upload", "failing"}
      /\ \/ /\ p \in assets /\ p \notin BadPicture
            /\ replaced' = replaced \union {p} /\ uploading' = [uploading EXCEPT ![w] = Idling]
            /\ UNCHANGED <<script, uploads>>
         \/ /\ script' = "failing" /\ uploading' = [uploading EXCEPT ![w] = Idling]
            /\ UNCHANGED <<uploads, replaced>>
         \/ /\ uploading' = [uploading EXCEPT ![w] = work] /\ UNCHANGED <<script, uploads, replaced>>
  BY DEF LookupAsset, Uploads
<1>5. replaced \subseteq assets \intersect Fit /\ replaced' \subseteq assets \intersect Fit
  BY <1>2, <1>4 DEF ImageInv, FieldsFit, Fit
<1> HIDE DEF p, work
<1>6. CASE uploading' = [uploading EXCEPT ![w] = Idling]
  BY <1>1, <1>4, <1>5, <1>6, WorkerKeeps
<1>7. CASE uploading' = [uploading EXCEPT ![w] = work] /\ UNCHANGED <<script, uploads, replaced>>
  BY <1>2, <1>3, <1>4, <1>5, <1>7, WorkerKeeps
<1> QED
  BY <1>4, <1>6, <1>7

LEMMA UploadKeeps ==
    ASSUME ImageInv, NEW w \in Uploader, UploadPicture(w)
    PROVE  ImageInv'
<1> DEFINE p == uploading[w].picture
           work == [picture |-> p, pc |-> "validate"]
<1>1. p \in Picture
  BY DEF ImageInv, FieldsFit, UploadPicture
<1>2. work \in Uploading /\ work.pc = "validate" /\ work.picture = p
  BY <1>1 DEF Uploading
<1>3. /\ UNCHANGED <<dbVars, fileVars, script, read, readFile, uploads, replaced>>
      /\ assets' = assets \union {p} /\ uploading' = [uploading EXCEPT ![w] = work]
  BY DEF UploadPicture, Uploads
<1>4. replaced' \subseteq assets' \intersect Fit
  BY <1>3 DEF ImageInv, FieldsFit
<1> HIDE DEF p, work
<1> QED
  BY <1>1, <1>2, <1>3, <1>4, WorkerKeeps

LEMMA ValidateKeeps ==
    ASSUME ImageInv, NEW w \in Uploader, ValidateUpload(w)
    PROVE  ImageInv'
<1> DEFINE p == uploading[w].picture
<1>1. Idling \in Uploading /\ Idling.pc = "idle"
  BY DEF Idling, Uploading
<1>2. p \in Picture /\ p \in assets \union BadPicture
  BY DEF ImageInv, FieldsFit, ValidateUpload
<1>3. /\ UNCHANGED <<dbVars, fileVars, read, readFile, uploads>>
      /\ uploading' = [uploading EXCEPT ![w] = Idling]
      /\ script \in {"upload", "failing"}
      /\ IF p \in BadPicture
         THEN assets' \in {assets, assets \ {p}} /\ script' = "failing" /\ UNCHANGED replaced
         ELSE replaced' = replaced \union {p} /\ UNCHANGED <<assets, script>>
  BY DEF ValidateUpload
<1>4. replaced \subseteq assets \intersect Fit
  BY DEF ImageInv, FieldsFit
<1> HIDE DEF p
<1>5. CASE p \in BadPicture
  <2>1. assets \intersect Fit \subseteq assets' /\ assets \subseteq assets' \union BadPicture
        /\ replaced' \subseteq assets' \intersect Fit
    BY <1>3, <1>4, <1>5 DEF Fit
  <2> QED
    BY <1>1, <1>3, <1>5, <2>1, WorkerKeeps
<1>6. CASE p \notin BadPicture
  <2>1. assets' = assets /\ replaced' \subseteq assets \intersect Fit
    BY <1>2, <1>3, <1>4, <1>6 DEF Fit
  <2> QED
    BY <1>1, <1>3, <1>6, <2>1, WorkerKeeps
<1> QED
  BY <1>5, <1>6

LEMMA AllUploadedKeeps ==
    ASSUME ImageInv, AllUploaded
    PROVE  ImageInv'
<1>1. UNCHANGED <<shows, chosen, file, backups, printed, assets, read, readFile, uploads, uploading,
                  replaced>> /\ script = "upload"
  BY DEF AllUploaded, dbVars, fileVars
<1> QED
  BY <1>1, FieldsKept, FilesKept DEF ImageInv

\* What the replacement of a URL leaves and adds.
LEMMA Replacement ==
    ASSUME ImageInv, NEW url \in URL
    PROVE  /\ ReplacedURL(url) \in URL /\ ReplacedURL(url).picture = url.picture
           /\ ReplacedURL(url) # url =>
                 /\ ReplacedURL(url).hosted
                 /\ ReplacedURL(url).picture \in assets \intersect Fit
<1>1. replaced \subseteq assets \intersect Fit
  BY DEF ImageInv, FieldsFit
<1>2. url.picture \in Picture \union {OwnPicture}
  BY DEF URL
<1>3. Hosted(url.picture) \in URL /\ Hosted(url.picture).picture = url.picture /\ Hosted(url.picture).hosted
  BY <1>2 DEF Hosted, URL
<1> QED
  BY <1>1, <1>3 DEF ReplacedURL

LEMMA DatabaseKeeps ==
    ASSUME ImageInv, ReplaceInDatabase
    PROVE  ImageInv'
<1>1. UNCHANGED <<chosen, file, backups, printed, assets, read, readFile, uploads, uploading,
                  replaced>> /\ script = "database"
  BY DEF ReplaceInDatabase, fileVars
<1>2. FilesFit'
  BY <1>1, FilesKept DEF ImageInv
<1>3. CASE shows' = shows
  BY <1>1, <1>2, <1>3, FieldsKept DEF ImageInv
<1>4. CASE \A f \in Changed : shows[f] = read[f]
  <2>1. CASE shows' # shows
    <3>1. shows' = [f \in ImageField |-> IF f \in Changed THEN ReplacedURL(read[f]) ELSE shows[f]]
      BY <2>1 DEF ReplaceInDatabase
    <3>2. \A f \in ImageField : read[f] \in URL /\ shows[f] \in URL
      BY DEF ImageInv, FieldsFit
    <3>3. ASSUME NEW f \in ImageField
          PROVE  /\ shows'[f] \in URL
                 /\ shows'[f].picture = chosen[f]
                 /\ shows'[f].hosted => shows'[f].picture \in (assets \intersect Fit) \union {OwnPicture}
      <4>1. CASE f \in Changed
        <5>1. shows'[f] = ReplacedURL(read[f]) /\ ReplacedURL(read[f]) # read[f] /\ read[f] = shows[f]
          BY <1>4, <3>1, <4>1 DEF Changed
        <5>2. PICK u \in URL : u = read[f]
          BY <3>2
        <5>3. /\ ReplacedURL(u) \in URL /\ ReplacedURL(u).picture = u.picture
              /\ ReplacedURL(u).picture \in assets \intersect Fit
          BY <5>1, <5>2, Replacement
        <5>4. shows'[f] = ReplacedURL(u) /\ u = shows[f]
          BY <5>1, <5>2
        <5> QED
          BY <5>3, <5>4 DEF ImageInv, FieldsFit
      <4>2. CASE f \notin Changed
        <5>1. shows'[f] = shows[f]
          BY <3>1, <4>2
        <5> QED
          BY <5>1 DEF ImageInv, FieldsFit
      <4> QED
        BY <4>1, <4>2
    <3>4. shows' \in [ImageField -> URL]
      BY <3>1, <3>3
    <3>5. FieldsFit'
      BY <1>1, <3>3, <3>4 DEF ImageInv, FieldsFit
    <3> QED
      BY <1>2, <3>5 DEF ImageInv
  <2> QED
    BY <1>3, <2>1
<1> QED
  BY <1>3, <1>4 DEF ReplaceInDatabase, StillAsRead

LEMMA BackUpKeeps ==
    ASSUME ImageInv, NEW s \in SourceFile, BackUpFile(s)
    PROVE  ImageInv'
<1>1. /\ UNCHANGED <<shows, chosen, printed, assets, read, readFile, uploads, uploading, replaced>>
      /\ backups' = backups \union {<<s, file[s]>>} /\ file' = [file EXCEPT ![s] = Torn]
      /\ script = "files" /\ file[s] # Torn
  BY DEF BackUpFile, dbVars
<1>2. Torn \in URL
  BY DEF Torn, URL
<1>3. /\ file \in [SourceFile -> URL] /\ file[s] \in URL /\ file[s].picture = printed[s]
  BY <1>1 DEF ImageInv, FilesFit
<1>4. /\ file' \in [SourceFile -> URL]
      /\ \A t \in SourceFile : file'[t] = IF t = s THEN Torn ELSE file[t]
  BY <1>1, <1>2, <1>3
<1>5. \A b \in backups' : b[1] \in SourceFile /\ b[2] \in URL /\ b[2].picture = printed[b[1]]
  BY <1>1, <1>3 DEF ImageInv, FilesFit
<1>6. \E b \in backups' : b[1] = s
  <2>1. PICK b : b = <<s, file[s]>>
    OBVIOUS
  <2>2. b \in backups' /\ b[1] = s
    BY <1>1, <2>1
  <2> QED
    BY <2>2
<1>7. \A t \in SourceFile : /\ file'[t] = Torn \/ file'[t].picture = printed[t]
                            /\ file'[t] = Torn => \E b \in backups' : b[1] = t
  BY <1>1, <1>4, <1>6 DEF ImageInv, FilesFit
<1>8. FilesFit'
  BY <1>1, <1>4, <1>5, <1>7 DEF ImageInv, FilesFit
<1>9. FieldsFit'
  BY <1>1, FieldsKept DEF ImageInv
<1> QED
  BY <1>8, <1>9 DEF ImageInv

\* A file whose new content has its picture.
LEMMA FilePut ==
    ASSUME ImageInv, NEW s \in SourceFile, NEW url \in URL, url.picture = printed[s],
           file' = [file EXCEPT ![s] = url],
           UNCHANGED <<dbVars, backups, printed, assets, read, readFile, uploads, uploading, replaced>>,
           script' = script \/ (script = "writing" /\ script' = "files")
    PROVE  ImageInv'
<1>1. UNCHANGED <<shows, chosen>>
  BY DEF dbVars
<1>2. file \in [SourceFile -> URL] /\ printed[s] \in Picture
  BY DEF ImageInv, FilesFit
<1>3. /\ file' \in [SourceFile -> URL]
      /\ \A t \in SourceFile : file'[t] = IF t = s THEN url ELSE file[t]
  BY <1>2
<1>4. url # Torn
  BY <1>2, MigrationConstants DEF Torn
<1>5. FilesFit'
  BY <1>3, <1>4 DEF ImageInv, FilesFit
<1>6. FieldsFit'
  BY <1>1, FieldsKept DEF ImageInv
<1> QED
  BY <1>5, <1>6 DEF ImageInv

LEMMA WriteKeeps ==
    ASSUME ImageInv, NEW s \in SourceFile, WriteFile(s)
    PROVE  ImageInv'
<1>1. /\ UNCHANGED <<dbVars, backups, printed, assets, read, readFile, uploads, uploading, replaced>>
      /\ file' = [file EXCEPT ![s] = ReplacedURL(readFile[s])]
      /\ script = "writing" /\ script' = "files"
  BY DEF WriteFile
<1>2. readFile[s] \in URL /\ readFile[s].picture = printed[s]
  BY <1>1 DEF ImageInv, FilesFit
<1>3. PICK u \in URL : u = readFile[s]
  BY <1>2
<1>4. PICK v : v = ReplacedURL(u)
  OBVIOUS
<1>5. v \in URL /\ v.picture = u.picture
  BY <1>4, Replacement
<1>6. file' = [file EXCEPT ![s] = v]
  BY <1>1, <1>3, <1>4
<1> QED
  BY <1>1, <1>2, <1>3, <1>5, <1>6, FilePut

LEMMA RestoreKeeps ==
    ASSUME ImageInv, NEW s \in SourceFile, RestoreFile(s)
    PROVE  ImageInv'
<1>1. PICK b \in backups : b[1] = s /\ file' = [file EXCEPT ![s] = b[2]]
  BY DEF RestoreFile
<1>2. /\ UNCHANGED <<dbVars, backups, printed, assets, script, read, readFile, uploads, uploading,
                     replaced>>
  BY DEF RestoreFile
<1>3. b[2] \in URL /\ b[2].picture = printed[s]
  BY <1>1 DEF ImageInv, FilesFit
<1> QED
  BY <1>1, <1>2, <1>3, FilePut

LEMMA ImageStutters ==
    ASSUME ImageInv, UNCHANGED imageVars
    PROVE  ImageInv'
BY DEF ImageInv, FieldsFit, FilesFit, imageVars

LEMMA ImageInductive ==
    ASSUME ImageInv, [ImageNext]_imageVars
    PROVE  ImageInv'
<1>1. CASE \E f \in ImageField, url \in {External(p) : p \in Picture} \union {Hosted(OwnPicture)} :
              EditImage(f, url)
  BY <1>1, EditKeeps
<1>2. CASE StartScript \/ ScriptDies \/ CatalogLoaded \/ AllUploaded \/ ReplaceInDatabase
           \/ VerifyMigration
  BY <1>2, StartKeeps, StopKeeps, LoadedKeeps, AllUploadedKeeps, DatabaseKeeps
     DEF ScriptDies, VerifyMigration
<1>3. CASE \E f \in ImageField : LoadField(f)
  BY <1>3, LoadFieldKeeps
<1>4. CASE \E s \in SourceFile : LoadFile(s) \/ BackUpFile(s) \/ WriteFile(s) \/ RestoreFile(s)
  BY <1>4, LoadFileKeeps, BackUpKeeps, WriteKeeps, RestoreKeeps
<1>5. CASE \E w \in Uploader : TakePicture(w) \/ LookupAsset(w) \/ UploadPicture(w) \/ ValidateUpload(w)
  BY <1>5, TakeKeeps, LookupKeeps, UploadKeeps, ValidateKeeps
<1>6. CASE UNCHANGED imageVars
  BY <1>6, ImageStutters
<1> QED
  BY <1>1, <1>2, <1>3, <1>4, <1>5, <1>6 DEF ImageNext

LEMMA ImageHolds == ImageSpec => []ImageInv
BY ImageStarts, ImageInductive, PTL DEF ImageSpec

\* However staff edit while the migration runs and wherever it dies, it never
\* changes which picture a field shows, and a field shows a picture of the image
\* host only if the host has it: applyDatabaseOperations replaces what still is
\* as it was read by what a worker found fit, and only unfit uploads are destroyed.
THEOREM FieldsKeepTheirPicture == ImageSpec => []ImagesKept
<1>1. ImageInv => ImagesKept
  BY DEF ImageInv, FieldsFit, ImagesKept
<1> QED
  BY <1>1, ImageHolds, PTL

\* A catalogue file that the script left torn has a backup with its picture, and
\* every other one has its picture: updateSourceCatalog copies before it writes.
THEOREM FilesAreNeverLost == ImageSpec => []FilesRecoverable
<1>1. ImageInv => FilesRecoverable
  BY DEF ImageInv, FilesFit, FilesRecoverable
<1> QED
  BY <1>1, ImageHolds, PTL

-----------------------------------------------------------------------------
(* The saved addresses *)

OneOf(S) == \A a, b \in S : a = b

\* What a handler that runs alone has made of the defaults by the time it is at
\* its next write.
ClearedBy(e, S) ==
    /\ (e.pc = "insert" /\ e.isDefault => S = {})
    /\ (e.pc = "write" /\ e.isDefault => S \subseteq {e.address})
    /\ (e.pc = "unlist" /\ e.isDefault => S = {})
    /\ (e.pc \in {"choose", "next", "promote"} => S = {})

BookInv ==
    /\ made \in 0..MaxAddresses
    /\ book \subseteq 1..made /\ defaults \subseteq book
    /\ overlapped \in BOOLEAN /\ dropped \in BOOLEAN
    /\ errands \subseteq Errand
    /\ \A e \in errands : e.address <= made /\ (e.pc = "unlist" => e.address \notin book)
    /\ ~dropped => \A a \in book : a \in listed \/ \E e \in errands : e.pc = "list" /\ e.address = a
    /\ ~overlapped => OneOf(errands)
    /\ ~overlapped /\ ~dropped => OneOf(defaults) /\ \A e \in errands : ClearedBy(e, defaults)

LEMMA BookStarts == AddressInit => BookInv
<1> SUFFICES ASSUME AddressInit PROVE BookInv
  OBVIOUS
<1>1. made = 0 /\ book = {} /\ defaults = {} /\ errands = {} /\ overlapped = FALSE /\ dropped = FALSE
  BY DEF AddressInit
<1>2. 0 \in 0..MaxAddresses
  BY AddressAssumption
<1> QED
  BY <1>1, <1>2 DEF BookInv, OneOf

LEMMA BookStutters ==
    ASSUME BookInv, UNCHANGED addressVars
    PROVE  BookInv'
BY DEF BookInv, OneOf, ClearedBy, addressVars, Errand, Address, Nowhere

\* A call begins.
LEMMA BeginKeeps ==
    ASSUME BookInv, NEW n \in Errand,
           errands' = errands \union {n}, overlapped' = (overlapped \/ errands # {}),
           UNCHANGED <<made, listed, dropped>>,
           book' \subseteq book, defaults' \subseteq defaults, defaults' \subseteq book',
           n.address <= made, n.pc = "unlist" => n.address \notin book',
           OneOf(defaults) => ClearedBy(n, defaults')
    PROVE  BookInv'
<1>1. errands' \subseteq Errand
      /\ \A e \in errands' : e.address <= made' /\ (e.pc = "unlist" => e.address \notin book')
  BY DEF BookInv
<1>2. made' \in 0..MaxAddresses /\ book' \subseteq 1..made' /\ defaults' \subseteq book'
      /\ overlapped' \in BOOLEAN /\ dropped' \in BOOLEAN
  BY DEF BookInv
<1>3. ~dropped' => \A a \in book' : a \in listed' \/ \E e \in errands' : e.pc = "list" /\ e.address = a
  BY DEF BookInv
<1>4. ~overlapped' => errands' = {n} /\ ~overlapped
  OBVIOUS
<1>5. ~overlapped' => OneOf(errands')
  BY <1>4 DEF OneOf
<1>6. ~overlapped' /\ ~dropped' => OneOf(defaults') /\ \A e \in errands' : ClearedBy(e, defaults')
  <2> SUFFICES ASSUME ~overlapped', ~dropped'
               PROVE  OneOf(defaults') /\ \A e \in errands' : ClearedBy(e, defaults')
    OBVIOUS
  <2>1. OneOf(defaults)
    BY <1>4 DEF BookInv
  <2> QED
    BY <1>4, <2>1 DEF OneOf
<1> QED
  BY <1>1, <1>2, <1>3, <1>5, <1>6 DEF BookInv

\* A call goes on to its next write.
LEMMA GoingKeeps ==
    ASSUME BookInv, NEW e \in errands, NEW n \in Errand,
           errands' = (errands \ {e}) \union {n},
           UNCHANGED <<overlapped, dropped, made, book>>, defaults' \subseteq book,
           \A a \in book : a \in listed => a \in listed',
           e.pc # "list", n.address <= made, n.pc # "unlist",
           OneOf(defaults) /\ ClearedBy(e, defaults) => OneOf(defaults') /\ ClearedBy(n, defaults')
    PROVE  BookInv'
<1>1. errands' \subseteq Errand
      /\ \A x \in errands' : x.address <= made' /\ (x.pc = "unlist" => x.address \notin book')
  BY DEF BookInv
<1>2. made' \in 0..MaxAddresses /\ book' \subseteq 1..made' /\ defaults' \subseteq book'
      /\ overlapped' \in BOOLEAN /\ dropped' \in BOOLEAN
  BY DEF BookInv
<1>3. ~dropped' => \A a \in book' : a \in listed' \/ \E x \in errands' : x.pc = "list" /\ x.address = a
  BY DEF BookInv
<1>4. ~overlapped' => errands = {e} /\ errands' = {n}
  BY DEF BookInv, OneOf
<1>5. ~overlapped' => OneOf(errands')
  BY <1>4 DEF OneOf
<1>6. ~overlapped' /\ ~dropped' => OneOf(defaults') /\ \A x \in errands' : ClearedBy(x, defaults')
  <2> SUFFICES ASSUME ~overlapped', ~dropped'
               PROVE  OneOf(defaults') /\ \A x \in errands' : ClearedBy(x, defaults')
    OBVIOUS
  <2>1. OneOf(defaults) /\ ClearedBy(e, defaults)
    BY DEF BookInv
  <2> QED
    BY <1>4, <2>1
<1> QED
  BY <1>1, <1>2, <1>3, <1>5, <1>6 DEF BookInv

\* A call returns, or is lost.
LEMMA ReturnKeeps ==
    ASSUME BookInv, NEW e \in errands, errands' = errands \ {e},
           UNCHANGED <<overlapped, made, book>>, defaults' \subseteq book,
           dropped' = dropped \/ dropped' = TRUE,
           \A a \in book : a \in listed => a \in listed',
           e.pc = "list" /\ ~dropped' => e.address \in listed',
           ~dropped' /\ OneOf(defaults) /\ ClearedBy(e, defaults) => OneOf(defaults')
    PROVE  BookInv'
<1>1. errands' \subseteq Errand
      /\ \A x \in errands' : x.address <= made' /\ (x.pc = "unlist" => x.address \notin book')
  BY DEF BookInv
<1>2. made' \in 0..MaxAddresses /\ book' \subseteq 1..made' /\ defaults' \subseteq book'
      /\ overlapped' \in BOOLEAN /\ dropped' \in BOOLEAN
  BY DEF BookInv
<1>3. ~dropped' => \A a \in book' : a \in listed' \/ \E x \in errands' : x.pc = "list" /\ x.address = a
  BY DEF BookInv
<1>4. ~overlapped' => errands' = {}
  BY DEF BookInv, OneOf
<1>5. ~overlapped' => OneOf(errands')
  BY <1>4 DEF OneOf
<1>6. ~overlapped' /\ ~dropped' => OneOf(defaults') /\ \A x \in errands' : ClearedBy(x, defaults')
  <2> SUFFICES ASSUME ~overlapped', ~dropped'
               PROVE  OneOf(defaults') /\ \A x \in errands' : ClearedBy(x, defaults')
    OBVIOUS
  <2>1. OneOf(defaults) /\ ClearedBy(e, defaults)
    BY DEF BookInv
  <2> QED
    BY <1>4, <2>1
<1> QED
  BY <1>1, <1>2, <1>3, <1>5, <1>6 DEF BookInv

\* The record a handler leaves behind.
LEMMA ErrandMoved ==
    ASSUME NEW e \in Errand, NEW a \in Address \union {Nowhere},
           NEW pc \in {"insert", "list", "write", "choose", "next", "promote"}
    PROVE  /\ [e EXCEPT !.pc = pc, !.address = a] \in Errand
           /\ [e EXCEPT !.pc = pc, !.address = a].pc = pc
           /\ [e EXCEPT !.pc = pc, !.address = a].address = a
           /\ [e EXCEPT !.pc = pc, !.address = a].isDefault = e.isDefault
BY DEF Errand

LEMMA Begun ==
    ASSUME NEW d \in Device, NEW a \in Address \union {Nowhere}, NEW isDefault \in BOOLEAN,
           NEW pc \in {"clear", "insert", "clear_others", "write", "clear_all", "unlist"}
    PROVE  [device |-> d, address |-> a, isDefault |-> isDefault, pc |-> pc] \in Errand
BY DEF Errand

LEMMA CreateKeeps ==
    ASSUME BookInv, NEW d \in Device, NEW wanted \in BOOLEAN, CreateAddress(d, wanted)
    PROVE  BookInv'
<1>1. PICK isDefault \in BOOLEAN : isDefault <=> (book = {} \/ wanted)
  OBVIOUS
<1>2. PICK pc \in {"clear", "insert"} :
         /\ isDefault => pc = "clear"
         /\ Sets(d, pc, Nowhere, isDefault)
  <2>1. (book = {} \/ wanted) = isDefault
    BY <1>1
  <2>2. Sets(d, IF isDefault THEN "clear" ELSE "insert", Nowhere, isDefault)
    BY <2>1 DEF CreateAddress
  <2> QED
    BY <2>2
<1> DEFINE n == [device |-> d, address |-> Nowhere, isDefault |-> isDefault, pc |-> pc]
<1>3. n \in Errand /\ n.pc = pc /\ n.isDefault = isDefault /\ n.address = 0
  BY Begun DEF Nowhere
<1>4. /\ errands' = errands \union {n} /\ overlapped' = (overlapped \/ errands # {})
      /\ UNCHANGED <<made, book, defaults, listed, dropped>>
  BY <1>2 DEF Sets, CreateAddress
<1> HIDE DEF n
<1>5. n.address <= made /\ defaults \subseteq book
  BY <1>3 DEF BookInv
<1>6. ClearedBy(n, defaults')
  BY <1>2, <1>3 DEF ClearedBy
<1> QED
  BY <1>2, <1>3, <1>4, <1>5, <1>6, BeginKeeps

LEMMA InsertKeeps ==
    ASSUME BookInv, NEW e \in errands, InsertAddress(e)
    PROVE  BookInv'
<1> DEFINE new == made + 1
           n == [e EXCEPT !.pc = "list", !.address = new]
<1>1. made \in 0..MaxAddresses /\ e \in Errand /\ e.pc = "insert" /\ made < MaxAddresses
  BY DEF BookInv, InsertAddress
<1>2. new \in Address
  BY <1>1, AddressAssumption DEF Address
<1>3. n \in Errand /\ n.pc = "list" /\ n.address = new
  BY <1>1, <1>2 DEF Errand
<1>4. /\ made' = new /\ book' = book \union {new}
      /\ defaults' = (IF e.isDefault THEN defaults \union {new} ELSE defaults)
      /\ errands' = (errands \ {e}) \union {n}
      /\ UNCHANGED <<overlapped, listed, dropped>>
  BY DEF InsertAddress, Goes
<1>5. new \in 1..new /\ new > made /\ new \in 0..MaxAddresses /\ 1..made \subseteq 1..new
  BY <1>1, AddressAssumption
<1> HIDE DEF n, new
<1>6. book' \subseteq 1..made' /\ defaults' \subseteq book'
  BY <1>4, <1>5 DEF BookInv
<1>7. ASSUME NEW x \in errands'
      PROVE  x \in Errand /\ x.address <= made' /\ (x.pc = "unlist" => x.address \notin book')
  <2>1. CASE x = n
    BY <1>1, <1>3, <1>4, <1>5, <2>1
  <2>2. CASE x \in errands
    <3>1. x \in Errand /\ x.address <= made /\ (x.pc = "unlist" => x.address \notin book)
      BY <2>2 DEF BookInv
    <3>2. x.address \in Int
      BY <3>1, AddressAssumption DEF Errand, Address, Nowhere
    <3>3. new \in Int /\ made \in Int
      BY <1>1, <1>5
    <3>4. x.address <= new /\ x.address # new
      BY <1>5, <3>1, <3>2, <3>3
    <3> QED
      BY <1>4, <3>1, <3>4
  <2> QED
    BY <1>4, <2>1, <2>2
<1>8. ~dropped' => \A a \in book' : a \in listed' \/ \E x \in errands' : x.pc = "list" /\ x.address = a
  BY <1>1, <1>3, <1>4 DEF BookInv
<1>9. ~overlapped' => errands = {e} /\ errands' = {n}
  BY <1>4 DEF BookInv, OneOf
<1>10. ~overlapped' /\ ~dropped' => OneOf(defaults') /\ \A x \in errands' : ClearedBy(x, defaults')
  <2> SUFFICES ASSUME ~overlapped', ~dropped'
               PROVE  OneOf(defaults') /\ \A x \in errands' : ClearedBy(x, defaults')
    OBVIOUS
  <2>1. OneOf(defaults) /\ ClearedBy(e, defaults)
    BY <1>4 DEF BookInv
  <2>2. OneOf(defaults')
    BY <1>1, <1>4, <2>1 DEF OneOf, ClearedBy
  <2>3. ClearedBy(n, defaults')
    BY <1>3 DEF ClearedBy
  <2> QED
    BY <1>9, <2>2, <2>3
<1>11. ~overlapped' => OneOf(errands')
  BY <1>9 DEF OneOf
<1>12. made' \in 0..MaxAddresses /\ overlapped' \in BOOLEAN /\ dropped' \in BOOLEAN
  BY <1>4, <1>5 DEF BookInv
<1>13. errands' \subseteq Errand
       /\ \A x \in errands' : x.address <= made' /\ (x.pc = "unlist" => x.address \notin book')
  BY <1>7
<1> QED
  BY <1>6, <1>8, <1>10, <1>11, <1>12, <1>13 DEF BookInv

LEMMA ListKeeps ==
    ASSUME BookInv, NEW e \in errands, ListAddress(e)
    PROVE  BookInv'
<1>1. /\ listed' = listed \union {e.address} /\ errands' = errands \ {e}
      /\ UNCHANGED <<overlapped, made, book, defaults, dropped>>
  BY DEF ListAddress, Returned
<1>2. defaults' \subseteq book
  BY <1>1 DEF BookInv
<1> QED
  BY <1>1, <1>2, ReturnKeeps

\* The addresses of the customer are addresses.
LEMMA BookAddresses ==
    ASSUME BookInv, NEW a \in book
    PROVE  a \in Address /\ a <= made
BY AddressAssumption DEF BookInv, Address

LEMMA UpdateKeeps ==
    ASSUME BookInv, NEW d \in Device, NEW wanted \in BOOLEAN, NEW a \in book, UpdateAddress(d, a, wanted)
    PROVE  BookInv'
<1>1. PICK isDefault \in BOOLEAN : isDefault <=> (wanted \/ a \in defaults)
  OBVIOUS
<1>2. PICK pc \in {"clear_others", "write"} :
         /\ isDefault => pc = "clear_others"
         /\ Sets(d, pc, a, isDefault)
  <2>1. (wanted \/ a \in defaults) = isDefault
    BY <1>1
  <2>2. Sets(d, IF isDefault THEN "clear_others" ELSE "write", a, isDefault)
    BY <2>1 DEF UpdateAddress
  <2> QED
    BY <2>2
<1> DEFINE n == [device |-> d, address |-> a, isDefault |-> isDefault, pc |-> pc]
<1>3. n \in Errand /\ n.pc = pc /\ n.isDefault = isDefault /\ n.address = a
  BY Begun, BookAddresses
<1>4. /\ errands' = errands \union {n} /\ overlapped' = (overlapped \/ errands # {})
      /\ UNCHANGED <<made, book, defaults, listed, dropped>>
  BY <1>2 DEF Sets, UpdateAddress
<1> HIDE DEF n
<1>5. n.address <= made /\ defaults \subseteq book
  BY <1>3, BookAddresses DEF BookInv
<1>6. ClearedBy(n, defaults')
  BY <1>2, <1>3 DEF ClearedBy
<1> QED
  BY <1>2, <1>3, <1>4, <1>5, <1>6, BeginKeeps

LEMMA WriteAddressKeeps ==
    ASSUME BookInv, NEW e \in errands, WriteAddress(e)
    PROVE  BookInv'
<1>1. /\ defaults' = (IF e.isDefault THEN defaults \union (book \intersect {e.address})
                                     ELSE defaults \ {e.address})
      /\ errands' = errands \ {e} /\ e.pc = "write"
      /\ UNCHANGED <<overlapped, made, book, listed, dropped>>
  BY DEF WriteAddress, Returned
<1>2. defaults' \subseteq book
  BY <1>1 DEF BookInv
<1>3. OneOf(defaults) /\ ClearedBy(e, defaults) => OneOf(defaults')
  BY <1>1 DEF OneOf, ClearedBy
<1> QED
  BY <1>1, <1>2, <1>3, ReturnKeeps

LEMMA SetDefaultKeeps ==
    ASSUME BookInv, NEW d \in Device, NEW a \in book, SetDefaultAddress(d, a)
    PROVE  BookInv'
<1>1. PICK isDefault \in BOOLEAN : isDefault <=> (a \in defaults)
  OBVIOUS
<1>2. (a \in defaults) = isDefault
  BY <1>1
<1> DEFINE n == [device |-> d, address |-> a, isDefault |-> isDefault, pc |-> "clear_all"]
<1>3. n \in Errand /\ n.pc = "clear_all" /\ n.address = a
  BY Begun, BookAddresses
<1>4. /\ errands' = errands \union {n} /\ overlapped' = (overlapped \/ errands # {})
      /\ UNCHANGED <<made, book, defaults, listed, dropped>>
  BY <1>2 DEF Sets, SetDefaultAddress
<1> HIDE DEF n
<1>5. n.address <= made /\ defaults \subseteq book
  BY <1>3, BookAddresses DEF BookInv
<1>6. ClearedBy(n, defaults')
  BY <1>3 DEF ClearedBy
<1> QED
  BY <1>3, <1>4, <1>5, <1>6, BeginKeeps

LEMMA ChooseKeeps ==
    ASSUME BookInv, NEW e \in errands, ChooseDefault(e)
    PROVE  BookInv'
<1>1. /\ defaults' = (IF e.isDefault THEN defaults ELSE defaults \union (book \intersect {e.address}))
      /\ errands' = errands \ {e} /\ e.pc = "choose"
      /\ UNCHANGED <<overlapped, made, book, listed, dropped>>
  BY DEF ChooseDefault, Returned
<1>2. defaults' \subseteq book
  BY <1>1 DEF BookInv
<1>3. OneOf(defaults) /\ ClearedBy(e, defaults) => OneOf(defaults')
  BY <1>1 DEF OneOf, ClearedBy
<1> QED
  BY <1>1, <1>2, <1>3, ReturnKeeps

LEMMA ClearDefaultsKeeps ==
    ASSUME BookInv, NEW e \in errands, ClearDefaults(e)
    PROVE  BookInv'
<1>1. PICK pc \in {"insert", "write", "choose"} :
         /\ pc = AfterClearing[e.pc]
         /\ e.pc = "clear_others" => pc = "write"
         /\ e.pc # "clear_others" => pc # "write" /\ e.pc \in {"clear", "clear_all"}
         /\ e.pc \in {"clear", "clear_others", "clear_all"}
  BY DEF ClearDefaults, AfterClearing
<1>2. e \in Errand
  BY DEF BookInv
<1>a. PICK a \in Address \union {Nowhere} : a = e.address /\ a <= made
  BY <1>2 DEF BookInv, Errand
<1>b. pc \in {"insert", "list", "write", "choose", "next", "promote"}
  OBVIOUS
<1> DEFINE n == [e EXCEPT !.pc = pc, !.address = a]
<1>3. n \in Errand /\ n.pc = pc /\ n.address = e.address /\ n.isDefault = e.isDefault
  <2>1. /\ n \in Errand /\ n.pc = pc /\ n.address = a /\ n.isDefault = e.isDefault
    BY <1>2, <1>a, <1>b DEF Errand
  <2> QED
    BY <2>1, <1>a
<1>4. /\ errands' = (errands \ {e}) \union {n}
      /\ defaults' = (IF e.pc = "clear_others" THEN defaults \intersect {e.address} ELSE {})
      /\ UNCHANGED <<overlapped, made, book, listed, dropped>>
  BY <1>1, <1>a DEF ClearDefaults, Goes, Cleared
<1> HIDE DEF n
<1>5. defaults' \subseteq book
  BY <1>4 DEF BookInv
<1>6. OneOf(defaults') /\ ClearedBy(n, defaults')
  BY <1>1, <1>3, <1>4 DEF ClearedBy, OneOf
<1> QED
  BY <1>1, <1>a, <1>2, <1>3, <1>4, <1>5, <1>6, GoingKeeps

LEMMA DeleteKeeps ==
    ASSUME BookInv, NEW d \in Device, NEW a \in book, DeleteAddress(d, a)
    PROVE  BookInv'
<1>1. PICK isDefault \in BOOLEAN : isDefault <=> (a \in defaults)
  OBVIOUS
<1>2. (a \in defaults) = isDefault
  BY <1>1
<1> DEFINE n == [device |-> d, address |-> a, isDefault |-> isDefault, pc |-> "unlist"]
<1>3. n \in Errand /\ n.pc = "unlist" /\ n.address = a /\ n.isDefault = isDefault
  BY Begun, BookAddresses
<1>4. /\ errands' = errands \union {n} /\ overlapped' = (overlapped \/ errands # {})
      /\ book' = book \ {a} /\ defaults' = defaults \ {a}
      /\ UNCHANGED <<made, listed, dropped>>
  BY <1>2 DEF Sets, DeleteAddress
<1> HIDE DEF n
<1>5. n.address <= made /\ defaults' \subseteq book'
  BY <1>3, <1>4, BookAddresses DEF BookInv
<1>6. OneOf(defaults) => ClearedBy(n, defaults')
  BY <1>1, <1>3, <1>4 DEF ClearedBy, OneOf
<1> QED
  BY <1>3, <1>4, <1>5, <1>6, BeginKeeps

LEMMA UnlistKeeps ==
    ASSUME BookInv, NEW e \in errands, UnlistAddress(e)
    PROVE  BookInv'
<1>1. /\ e.pc = "unlist" /\ listed' = listed \ {e.address} /\ e \in Errand
      /\ UNCHANGED <<overlapped, made, book, defaults, dropped>>
  BY DEF UnlistAddress, Goes, Returned, BookInv
<1>2. defaults' \subseteq book /\ e.address \notin book
  BY <1>1 DEF BookInv
<1>3. CASE ~e.isDefault
  <2>1. errands' = errands \ {e}
    BY <1>3 DEF UnlistAddress, Returned
  <2> QED
    BY <1>1, <1>2, <2>1, ReturnKeeps
<1>4. CASE e.isDefault
  <2> DEFINE n == [e EXCEPT !.pc = "next", !.address = Nowhere]
  <2>1. n \in Errand /\ n.pc = "next" /\ n.address = 0
    BY <1>1, ErrandMoved DEF Nowhere
  <2>2. errands' = (errands \ {e}) \union {n}
    BY <1>4 DEF UnlistAddress, Goes
  <2> HIDE DEF n
  <2>3. n.address <= made
    BY <2>1 DEF BookInv
  <2>4. ClearedBy(e, defaults) => ClearedBy(n, defaults')
    BY <1>1, <1>4, <2>1 DEF ClearedBy
  <2> QED
    BY <1>1, <1>2, <2>1, <2>2, <2>3, <2>4, GoingKeeps
<1> QED
  BY <1>3, <1>4

LEMMA NextKeeps ==
    ASSUME BookInv, NEW e \in errands, FindNext(e)
    PROVE  BookInv'
<1>1. /\ e.pc = "next" /\ e \in Errand
      /\ UNCHANGED <<overlapped, made, book, defaults, listed, dropped>>
  BY DEF FindNext, Goes, Returned, BookInv
<1>2. defaults' \subseteq book
  BY <1>1 DEF BookInv
<1>3. CASE errands' = errands \ {e}
  BY <1>1, <1>2, <1>3, ReturnKeeps
<1>4. ASSUME NEW a \in book, Goes(e, "promote", a)
      PROVE  BookInv'
  <2>1. a \in Address /\ a <= made
    BY BookAddresses
  <2> DEFINE n == [e EXCEPT !.pc = "promote", !.address = a]
  <2>2. n \in Errand /\ n.pc = "promote" /\ n.address = a
    BY <1>1, <2>1, ErrandMoved
  <2>3. errands' = (errands \ {e}) \union {n}
    BY <1>4 DEF Goes
  <2> HIDE DEF n
  <2>4. ClearedBy(e, defaults) => ClearedBy(n, defaults')
    BY <1>1, <2>2 DEF ClearedBy
  <2> QED
    BY <1>1, <1>2, <2>1, <2>2, <2>3, <2>4, GoingKeeps
<1> QED
  BY <1>3, <1>4 DEF FindNext, Returned

LEMMA PromoteKeeps ==
    ASSUME BookInv, NEW e \in errands, PromoteNext(e)
    PROVE  BookInv'
<1>1. /\ defaults' = defaults \union (book \intersect {e.address})
      /\ errands' = errands \ {e} /\ e.pc = "promote"
      /\ UNCHANGED <<overlapped, made, book, listed, dropped>>
  BY DEF PromoteNext, Returned
<1>2. defaults' \subseteq book
  BY <1>1 DEF BookInv
<1>3. OneOf(defaults) /\ ClearedBy(e, defaults) => OneOf(defaults')
  BY <1>1 DEF OneOf, ClearedBy
<1> QED
  BY <1>1, <1>2, <1>3, ReturnKeeps

LEMMA LostKeeps ==
    ASSUME BookInv, NEW e \in errands, DeviceLost(e)
    PROVE  BookInv'
<1>1. dropped' = TRUE /\ errands' = errands \ {e} /\ UNCHANGED <<overlapped, made, book, defaults, listed>>
  BY DEF DeviceLost, Returned
<1>2. defaults' \subseteq book
  BY <1>1 DEF BookInv
<1> QED
  BY <1>1, <1>2, ReturnKeeps

LEMMA BookInductive ==
    ASSUME BookInv, [AddressNext]_addressVars
    PROVE  BookInv'
<1>1. CASE \E d \in Device, wanted \in BOOLEAN :
              CreateAddress(d, wanted) \/ \E a \in book : UpdateAddress(d, a, wanted)
  BY <1>1, CreateKeeps, UpdateKeeps
<1>2. CASE \E d \in Device, a \in book : SetDefaultAddress(d, a) \/ DeleteAddress(d, a)
  BY <1>2, SetDefaultKeeps, DeleteKeeps
<1>3. CASE \E e \in errands : InsertAddress(e) \/ ListAddress(e) \/ WriteAddress(e) \/ ChooseDefault(e)
  BY <1>3, InsertKeeps, ListKeeps, WriteAddressKeeps, ChooseKeeps
<1>4. CASE \E e \in errands : \/ ClearDefaults(e) \/ UnlistAddress(e) \/ FindNext(e) \/ PromoteNext(e)
                              \/ DeviceLost(e)
  BY <1>4, ClearDefaultsKeeps, UnlistKeeps, NextKeeps, PromoteKeeps, LostKeeps
<1>5. CASE UNCHANGED addressVars
  BY <1>5, BookStutters
<1> QED
  BY <1>1, <1>2, <1>3, <1>4, <1>5 DEF AddressNext

\* A saved address stays in the customer's list whatever other devices write in
\* between, and calls of address.service that do not overlap leave at most one
\* default: each clears the others, or promotes one when none is left.
THEOREM AddressesStayListed == AddressSpec => []AddressesConsistent
<1>1. ASSUME BookInv
      PROVE  AddressesConsistent
  <2>1. ASSUME OneOf(defaults)
        PROVE  Cardinality(defaults) <= 1
    <3>1. CASE defaults = {}
      BY <3>1, FS_EmptySet
    <3>2. CASE \E a : defaults = {a}
      BY <3>2, FS_Singleton
    <3> QED
      BY <2>1, <3>1, <3>2 DEF OneOf
  <2>2. ~dropped =>
           /\ \A a \in book : a \in listed \/ \E e \in errands : e.pc = "list" /\ e.address = a
           /\ ~overlapped => OneOf(defaults)
    BY <1>1 DEF BookInv
  <2> QED
    BY <2>1, <2>2 DEF AddressesConsistent
<1> QED
  BY <1>1, BookStarts, BookInductive, PTL DEF AddressSpec
=============================================================================
