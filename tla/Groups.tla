------------------------------- MODULE Groups -------------------------------
(***************************************************************************)
(* Groups and families: the operations of db.js that the `apply' service   *)
(* executes one after the other.  An operation that throws before it has   *)
(* written anything changes nothing and is no step; one that throws after  *)
(* a write leaves that write behind (no transaction surrounds it).         *)
(***************************************************************************)
EXTENDS Integers, FiniteSets

CONSTANTS
  User,
  Group,
  Nobody,      \* the head `null' of a family without one
  Initially,   \* the pairs <<u, v>> where u knows v at the start
  Changing,    \* bound: the pairs whose connection level can change
  Dismissals,  \* the pairs <<dismisser, dismissee>> of Dismiss operations
  MaxInvites   \* bound: invitations pending at a time

ASSUME GroupsAssumption ==
  /\ IsFiniteSet(User)
  /\ Nobody \notin User
  /\ Initially \subseteq {p \in User \X User : p[1] # p[2]}
  /\ Changing \subseteq User \X User
  /\ Dismissals \subseteq User \X User

VARIABLES
  type,      \* type[g]: the type of a group, "none" while it does not exist
  admins,    \* admins[g]
  members,   \* members[g]: the users with an edge to g in usersInGroups
  head,      \* head[g]
  vouchers,  \* vouchers[g]
  invites,   \* invites[g][u]: u's invitation to g, "expired" after 72 hours
  strong     \* <<u, v>> where u's level for v is `already known' or `recovery'

groups == <<type, admins, members, head, vouchers>>
vars   == <<groups, invites, strong>>

GroupType == {"none", "general", "family"}
Invite0   == [u \in User |-> "none"]

-----------------------------------------------------------------------------
Exists(g) == type[g] # "none"

\* familyGroup: u belongs to a family that has a head, and is not its head.
InFamily(u) ==
  \E g \in Group : /\ u \in members[g]
                   /\ type[g] = "family"
                   /\ head[g] \notin {Nobody, u}

\* knownConnections
Known(u) == {v \in User : <<u, v>> \in strong /\ <<v, u>> \in strong}

\* checkJoiningFamily
MayJoinFamily(g, u) == ~InFamily(u) /\ members[g] \subseteq Known(u)

Pending == {p \in Group \X User : invites[p[1]][p[2]] # "none"}

Init ==
  /\ type = [g \in Group |-> "none"]
  /\ admins = [g \in Group |-> {}]
  /\ members = [g \in Group |-> {}]
  /\ head = [g \in Group |-> Nobody]
  /\ vouchers = [g \in Group |-> {}]
  /\ invites = [g \in Group |-> Invite0]
  /\ strong = Initially

-----------------------------------------------------------------------------
\* connect: u's level for v becomes or stops being a strong one.
Connect(u, v) ==
  /\ u # v
  /\ <<u, v>> \in Changing
  /\ strong' = IF <<u, v>> \in strong THEN strong \ {<<u, v>>}
                                      ELSE strong \cup {<<u, v>>}
  /\ UNCHANGED <<groups, invites>>

\* A createGroup that does not store the type.
CreateGroupUntyped(g, u, t) ==
  /\ ~Exists(g)
  /\ t = "family" => ~InFamily(u)
  /\ type' = [type EXCEPT ![g] = "undefined"]
  /\ admins' = [admins EXCEPT ![g] = {u}]
  /\ members' = [members EXCEPT ![g] = {u}]
  /\ UNCHANGED <<head, vouchers, invites, strong>>

\* createGroup and the addUserToGroup it ends with.
CreateGroup(g, u, t) ==
  /\ ~Exists(g)
  /\ t = "family" => ~InFamily(u)
  /\ type' = [type EXCEPT ![g] = t]
  /\ admins' = [admins EXCEPT ![g] = {u}]
  /\ members' = [members EXCEPT ![g] = {u}]
  /\ UNCHANGED <<head, vouchers, invites, strong>>

\* A deleteGroup that forgets the invitations.
DeleteGroupOnly(g, u) ==
  /\ Exists(g)
  /\ u \in admins[g]
  /\ type' = [type EXCEPT ![g] = "none"]
  /\ admins' = [admins EXCEPT ![g] = {}]
  /\ members' = [members EXCEPT ![g] = {}]
  /\ head' = [head EXCEPT ![g] = Nobody]
  /\ vouchers' = [vouchers EXCEPT ![g] = {}]
  /\ UNCHANGED <<invites, strong>>

\* deleteGroup
DeleteGroup(g, u) ==
  /\ Exists(g)
  /\ u \in admins[g]
  /\ type' = [type EXCEPT ![g] = "none"]
  /\ admins' = [admins EXCEPT ![g] = {}]
  /\ members' = [members EXCEPT ![g] = {}]
  /\ head' = [head EXCEPT ![g] = Nobody]
  /\ vouchers' = [vouchers EXCEPT ![g] = {}]
  /\ invites' = [invites EXCEPT ![g] = Invite0]
  /\ UNCHANGED strong

\* invite: an earlier invitation of the same user to g is replaced.
Invite(g, inviter, invitee) ==
  /\ Exists(g)
  /\ inviter \in admins[g]
  /\ type[g] = "family" => MayJoinFamily(g, invitee)
  /\ Cardinality(Pending \cup {<<g, invitee>>}) <= MaxInvites
  /\ invites' = [invites EXCEPT ![g][invitee] = "fresh"]
  /\ UNCHANGED <<groups, strong>>

\* 72 hours of block time pass; the invitation stays in the collection.
Expire(g, u) ==
  /\ invites[g][u] = "fresh"
  /\ invites' = [invites EXCEPT ![g][u] = "expired"]
  /\ UNCHANGED <<groups, strong>>

\* setSigningKey: the new key cannot decrypt what has been sent to the old one.
SetSigningKey(u) ==
  /\ invites' = [g \in Group |-> [invites[g] EXCEPT ![u] = "none"]]
  /\ UNCHANGED <<groups, strong>>

\* addMembership.  The invitation is removed before checkJoiningFamily can
\* throw, so a failed attempt uses it up.
AddMembership(g, u) ==
  /\ Exists(g)
  /\ invites[g][u] = "fresh"
  /\ invites' = [invites EXCEPT ![g][u] = "none"]
  /\ IF type[g] = "family" /\ ~MayJoinFamily(g, u)
     THEN UNCHANGED groups
     ELSE /\ members' = [members EXCEPT ![g] = @ \cup {u}]
          /\ vouchers' = [vouchers EXCEPT ![g] = IF type[g] = "family" THEN {} ELSE @]
          /\ UNCHANGED <<type, admins, head>>
  /\ UNCHANGED strong

\* The LeaveGroupError of deleteMembership.
LastAdmin(g, u) == admins[g] = {u} /\ Cardinality(members[g]) > 1

\* A deleteMembership that keeps the admin rights of those who leave.
LeaveKeepingRights(g, u) ==
  /\ Exists(g)
  /\ ~LastAdmin(g, u)
  /\ members' = [members EXCEPT ![g] = @ \ {u}]
  /\ vouchers' = [vouchers EXCEPT ![g] = IF type[g] = "family" THEN {} ELSE @]
  /\ head' = [head EXCEPT ![g] = IF type[g] = "family" /\ @ = u THEN Nobody ELSE @]
  /\ UNCHANGED <<type, admins, invites, strong>>

\* A deleteMembership without its LeaveGroupError.
LeaveUnchecked(g, u) ==
  /\ Exists(g)
  /\ admins' = [admins EXCEPT ![g] = @ \ {u}]
  /\ members' = [members EXCEPT ![g] = @ \ {u}]
  /\ vouchers' = [vouchers EXCEPT ![g] = IF type[g] = "family" THEN {} ELSE @]
  /\ head' = [head EXCEPT ![g] = IF type[g] = "family" /\ @ = u THEN Nobody ELSE @]
  /\ UNCHANGED <<type, invites, strong>>

\* A deleteMembership that lets the head leave as any member.
LeaveHeadless(g, u) ==
  /\ Exists(g)
  /\ ~LastAdmin(g, u)
  /\ admins' = [admins EXCEPT ![g] = @ \ {u}]
  /\ members' = [members EXCEPT ![g] = @ \ {u}]
  /\ vouchers' = [vouchers EXCEPT ![g] = IF type[g] = "family" THEN {} ELSE @]
  /\ UNCHANGED <<type, head, invites, strong>>

\* deleteMembership (Remove Membership): u need not be a member.  When an admin
\* leaves a family, the second groupsColl.update gets the document as read
\* before the first one, and fails with a revision conflict; the receiver then
\* puts the operation again, and this time u is not an admin any more.
DeleteMembership(g, u) ==
  /\ Exists(g)
  /\ ~LastAdmin(g, u)
  /\ admins' = [admins EXCEPT ![g] = @ \ {u}]
  /\ members' = [members EXCEPT ![g] = @ \ {u}]
  /\ vouchers' = [vouchers EXCEPT ![g] = IF type[g] = "family" THEN {} ELSE @]
  /\ head' = [head EXCEPT ![g] = IF type[g] = "family" /\ @ = u THEN Nobody ELSE @]
  /\ UNCHANGED <<type, invites, strong>>

\* What remains of a family admin's dismissal of themselves: the first attempt
\* runs into the same conflict, the second ends with NotAdminError.  The admin
\* right and the membership are gone, head and vouchers stay as they were.
SelfDismissal(g, u) ==
  /\ ~LastAdmin(g, u)
  /\ admins' = [admins EXCEPT ![g] = @ \ {u}]
  /\ members' = [members EXCEPT ![g] = @ \ {u}]
  /\ UNCHANGED <<type, head, vouchers, invites, strong>>

\* dismiss
Dismiss(g, dismisser, dismissee) ==
  /\ Exists(g)
  /\ dismisser \in admins[g]
  /\ <<dismisser, dismissee>> \in Dismissals
  /\ IF type[g] = "family" /\ dismisser = dismissee
     THEN SelfDismissal(g, dismissee)
     ELSE DeleteMembership(g, dismissee)

\* addAdmin
AddAdmin(g, u, admin) ==
  /\ Exists(g)
  /\ u \in admins[g]
  /\ admin \in members[g]
  /\ admins' = [admins EXCEPT ![g] = @ \cup {admin}]
  /\ UNCHANGED <<type, members, head, vouchers, invites, strong>>

\* A setFamilyHead that keeps the vouchers.
SetHeadKeepingVouchers(g, admin, h) ==
  /\ Exists(g)
  /\ h \in members[g]
  /\ head[g] = Nobody \/ ~InFamily(head[g])
  /\ admin \in admins[g]
  /\ head' = [head EXCEPT ![g] = h]
  /\ UNCHANGED <<type, admins, members, vouchers, invites, strong>>

\* setFamilyHead: familyGroup is asked about the present head, not about h, and
\* the type of the group is not asked for.
SetFamilyHead(g, admin, h) ==
  /\ Exists(g)
  /\ h \in members[g]
  /\ head[g] = Nobody \/ ~InFamily(head[g])
  /\ admin \in admins[g]
  /\ head' = [head EXCEPT ![g] = h]
  /\ vouchers' = [vouchers EXCEPT ![g] = {}]
  /\ UNCHANGED <<type, admins, members, invites, strong>>

\* convertToFamily
ConvertToFamily(g, admin, h) ==
  /\ type[g] = "general"
  /\ admin \in admins[g]
  /\ h \in members[g]
  /\ \A m \in members[g] : /\ m # h => ~InFamily(m)
                           /\ members[g] \ {m} \subseteq Known(m)
  /\ type' = [type EXCEPT ![g] = "family"]
  /\ head' = [head EXCEPT ![g] = h]
  /\ vouchers' = [vouchers EXCEPT ![g] = {}]
  /\ UNCHANGED <<admins, members, invites, strong>>

\* vouchFamily
VouchFamily(g, u) ==
  /\ type[g] = "family"
  /\ head[g] # Nobody
  /\ members[g] \subseteq Known(u)
  /\ vouchers' = [vouchers EXCEPT ![g] = @ \cup {u}]
  /\ UNCHANGED <<type, admins, members, head, invites, strong>>

-----------------------------------------------------------------------------
Next ==
  \/ \E u, v \in User : Connect(u, v)
  \/ \E u \in User : SetSigningKey(u)
  \/ \E g \in Group, u \in User :
       \/ \E t \in GroupType \ {"none"} : CreateGroup(g, u, t)
       \/ DeleteGroup(g, u)
       \/ AddMembership(g, u)
       \/ DeleteMembership(g, u)
       \/ VouchFamily(g, u)
       \/ Expire(g, u)
       \/ \E v \in User : \/ Invite(g, u, v)
                          \/ Dismiss(g, u, v)
                          \/ AddAdmin(g, u, v)
                          \/ SetFamilyHead(g, u, v)
                          \/ ConvertToFamily(g, u, v)

Spec == Init /\ [][Next]_vars

-----------------------------------------------------------------------------
(* Properties. *)

TypeOK ==
  /\ type \in [Group -> GroupType]
  /\ admins \in [Group -> SUBSET User]
  /\ members \in [Group -> SUBSET User]
  /\ head \in [Group -> User \cup {Nobody}]
  /\ vouchers \in [Group -> SUBSET User]
  /\ invites \in [Group -> [User -> {"none", "fresh", "expired"}]]
  /\ strong \subseteq User \X User

\* The head of a family belongs to it, through every way of losing a member
\* (except the dismissal of oneself, see VouchesFollowChange).
HeadIsMember ==
  \A g \in Group : type[g] = "family" /\ head[g] # Nobody => head[g] \in members[g]

\* The three roles agree with the members at every moment.  Nobody administers
\* a group without belonging to it: addAdmin asks for the membership, and
\* whoever leaves or is dismissed loses the right with it.  Only a family that
\* has a head carries vouches.  And nobody vouches for a family they belong to:
\* nobody knows themselves, so a member cannot vouch, and a voucher who joins
\* takes all vouches away.
RolesMatchMembers ==
  \A g \in Group :
    /\ admins[g] \subseteq members[g]
    /\ vouchers[g] # {} => type[g] = "family" /\ head[g] # Nobody
    /\ vouchers[g] \cap members[g] = {}

\* Nothing of a removed group can reach a later group with the same id.
RemovedLeavesNothing ==
  \A g \in Group : ~Exists(g) => members[g] = {} /\ invites[g] = Invite0

\* "after any changes (add/remove member or change head) in a family group all
\* the vouchs will expired and eligible users can vouch again"
\* (tests/operations.js).  An admin of a family who dismisses themselves breaks
\* it: see Dismiss.
VouchesFollowChange ==
  [][\A g \in Group :
       /\ type[g] = "family" /\ type'[g] = "family"
       /\ members'[g] # members[g] \/ head'[g] # head[g]
       => vouchers'[g] = {}]_vars

\* "Last admin can not leave the group when it still has other members"
\* (errors.js): a group loses its last admin only with its last member.
LastAdminStays ==
  [][\A g \in Group :
       admins[g] # {} /\ admins'[g] = {} => members'[g] = {}]_vars

=============================================================================
