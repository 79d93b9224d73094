---------------------------- MODULE GroupsProofs ----------------------------
(***************************************************************************)
(* Proofs about Groups for every set of users and groups, every initial    *)
(* connection graph and every bound.                                       *)
(***************************************************************************)
EXTENDS Groups, FiniteSetTheorems, TLAPS

(***************************************************************************)
(* Type correctness.                                                       *)
(***************************************************************************)

LEMMA TypeInit == Init => TypeOK
BY GroupsAssumption DEF Init, TypeOK, GroupType, Invite0

LEMMA TypeStep == TypeOK /\ [Next]_vars => TypeOK'
<1> SUFFICES ASSUME TypeOK, [Next]_vars PROVE TypeOK'
  OBVIOUS
<1> USE DEF TypeOK, GroupType, Invite0, groups
<1>1. ASSUME NEW u \in User, NEW v \in User, Connect(u, v) PROVE TypeOK'
  BY <1>1 DEF Connect
<1>2. ASSUME NEW g \in Group, NEW u \in User,
             NEW t \in GroupType \ {"none"}, CreateGroup(g, u, t)
      PROVE TypeOK'
  BY <1>2 DEF CreateGroup
<1>3. ASSUME NEW g \in Group, NEW u \in User, DeleteGroup(g, u) PROVE TypeOK'
  BY <1>3 DEF DeleteGroup
<1>4. ASSUME NEW g \in Group, NEW u \in User, AddMembership(g, u) PROVE TypeOK'
  <2>1. CASE type[g] = "family" /\ ~MayJoinFamily(g, u)
    BY <1>4, <2>1 DEF AddMembership
  <2>2. CASE ~(type[g] = "family" /\ ~MayJoinFamily(g, u))
    <3>1. /\ members' = [members EXCEPT ![g] = @ \cup {u}]
          /\ vouchers' = [vouchers EXCEPT ![g] = IF type[g] = "family" THEN {} ELSE @]
          /\ invites' = [invites EXCEPT ![g][u] = "none"]
          /\ UNCHANGED <<type, admins, head, strong>>
      BY <1>4, <2>2 DEF AddMembership
    <3>2. QED
      BY <3>1
  <2>3. QED
    BY <2>1, <2>2
<1>5. ASSUME NEW g \in Group, NEW u \in User, DeleteMembership(g, u)
      PROVE TypeOK'
  BY <1>5 DEF DeleteMembership
<1>6. ASSUME NEW g \in Group, NEW u \in User, VouchFamily(g, u) PROVE TypeOK'
  BY <1>6 DEF VouchFamily
<1>7. ASSUME NEW g \in Group, NEW u \in User, Expire(g, u) PROVE TypeOK'
  BY <1>7 DEF Expire
<1>8. ASSUME NEW g \in Group, NEW u \in User, NEW v \in User, Invite(g, u, v)
      PROVE TypeOK'
  BY <1>8 DEF Invite
<1>9. ASSUME NEW g \in Group, NEW u \in User, NEW v \in User, Dismiss(g, u, v)
      PROVE TypeOK'
  <2>1. CASE DeleteMembership(g, v)
    BY <1>5, <2>1
  <2>2. CASE SelfDismissal(g, v)
    BY <2>2 DEF SelfDismissal
  <2>3. QED
    BY <1>9, <2>1, <2>2 DEF Dismiss
<1>10. ASSUME NEW g \in Group, NEW u \in User, NEW v \in User, AddAdmin(g, u, v)
       PROVE TypeOK'
  BY <1>10 DEF AddAdmin
<1>11. ASSUME NEW g \in Group, NEW u \in User, NEW v \in User,
              SetFamilyHead(g, u, v)
       PROVE TypeOK'
  BY <1>11 DEF SetFamilyHead
<1>12. ASSUME NEW g \in Group, NEW u \in User, NEW v \in User,
              ConvertToFamily(g, u, v)
       PROVE TypeOK'
  BY <1>12 DEF ConvertToFamily
<1>13. ASSUME NEW u \in User, SetSigningKey(u) PROVE TypeOK'
  BY <1>13 DEF SetSigningKey
<1>14. CASE UNCHANGED vars
  BY <1>14 DEF vars
<1>15. QED
  BY <1>1, <1>2, <1>3, <1>4, <1>5, <1>6, <1>7, <1>8, <1>9, <1>10, <1>11, <1>12,
     <1>13, <1>14 DEF Next

\* Every variable keeps its type, whatever operations the chain carries.
THEOREM TypeCorrect == Spec => []TypeOK
BY TypeInit, TypeStep, PTL DEF Spec

(***************************************************************************)
(* The invariant of the groups.  Besides the properties of the component   *)
(* it needs two facts: a group that does not exist is blank (so createGroup*)
(* starts from nothing), and nobody knows themselves (so a member cannot   *)
(* know all members of their own family).                                  *)
(***************************************************************************)

Blank(g) == /\ admins[g] = {} /\ members[g] = {} /\ vouchers[g] = {}
            /\ head[g] = Nobody /\ invites[g] = Invite0

NobodyKnowsThemselves == \A u \in User : <<u, u>> \notin strong

GroupInv(g) ==
  /\ ~Exists(g) => Blank(g)
  /\ admins[g] \subseteq members[g]
  /\ vouchers[g] # {} => type[g] = "family" /\ head[g] # Nobody
  /\ vouchers[g] \cap members[g] = {}

IInv == TypeOK /\ NobodyKnowsThemselves /\ \A g \in Group : GroupInv(g)

LEMMA InvInit == Init => IInv
BY TypeInit, GroupsAssumption
   DEF Init, IInv, GroupInv, Blank, NobodyKnowsThemselves, Exists

\* An operation on one group leaves the others as they are.
Same(g) == /\ type'[g] = type[g] /\ admins'[g] = admins[g]
           /\ members'[g] = members[g] /\ head'[g] = head[g]
           /\ vouchers'[g] = vouchers[g] /\ invites'[g] = invites[g]

LEMMA SameInv ==
  ASSUME NEW g \in Group, GroupInv(g), Same(g)
  PROVE  GroupInv(g)'
BY DEF GroupInv, Same, Blank, Exists

LEMMA ConnectInv ==
  ASSUME IInv, NEW u \in User, NEW v \in User, Connect(u, v)
  PROVE  NobodyKnowsThemselves' /\ \A g \in Group : GroupInv(g)'
<1>1. NobodyKnowsThemselves'
  BY DEF IInv, NobodyKnowsThemselves, Connect
<1>2. \A g \in Group : Same(g)
  BY DEF Connect, Same, groups
<1>3. QED
  BY <1>1, <1>2, SameInv DEF IInv

LEMMA CreateGroupInv ==
  ASSUME IInv, NEW g \in Group, NEW u \in User,
         NEW t \in GroupType \ {"none"}, CreateGroup(g, u, t)
  PROVE  \A h \in Group : GroupInv(h)'
<1> SUFFICES ASSUME NEW h \in Group PROVE GroupInv(h)'
  OBVIOUS
<1>1. CASE h = g
  BY <1>1 DEF IInv, TypeOK, GroupInv, CreateGroup, Exists, Blank, GroupType
<1>2. CASE h # g
  <2>1. Same(h)
    BY <1>2 DEF IInv, TypeOK, CreateGroup, Same
  <2>2. QED
    BY <2>1, SameInv DEF IInv
<1>3. QED
  BY <1>1, <1>2

LEMMA DeleteGroupInv ==
  ASSUME IInv, NEW g \in Group, NEW u \in User, DeleteGroup(g, u)
  PROVE  \A h \in Group : GroupInv(h)'
<1> SUFFICES ASSUME NEW h \in Group PROVE GroupInv(h)'
  OBVIOUS
<1>1. CASE h = g
  BY <1>1 DEF IInv, TypeOK, GroupInv, DeleteGroup, Exists, Blank
<1>2. CASE h # g
  <2>1. Same(h)
    BY <1>2 DEF IInv, TypeOK, DeleteGroup, Same
  <2>2. QED
    BY <2>1, SameInv DEF IInv
<1>3. QED
  BY <1>1, <1>2

LEMMA InviteInv ==
  ASSUME IInv, NEW g \in Group, NEW u \in User, NEW v \in User, Invite(g, u, v)
  PROVE  \A h \in Group : GroupInv(h)'
<1> SUFFICES ASSUME NEW h \in Group PROVE GroupInv(h)'
  OBVIOUS
<1>1. CASE h = g
  BY <1>1 DEF IInv, TypeOK, GroupInv, Invite, Exists, groups
<1>2. CASE h # g
  <2>1. Same(h)
    BY <1>2 DEF IInv, TypeOK, Invite, Same, groups
  <2>2. QED
    BY <2>1, SameInv DEF IInv
<1>3. QED
  BY <1>1, <1>2

LEMMA ExpireInv ==
  ASSUME IInv, NEW g \in Group, NEW u \in User, Expire(g, u)
  PROVE  \A h \in Group : GroupInv(h)'
<1> SUFFICES ASSUME NEW h \in Group PROVE GroupInv(h)'
  OBVIOUS
<1>1. CASE h = g
  BY <1>1 DEF IInv, TypeOK, GroupInv, Expire, Exists, Blank, Invite0, groups
<1>2. CASE h # g
  <2>1. Same(h)
    BY <1>2 DEF IInv, TypeOK, Expire, Same, groups
  <2>2. QED
    BY <2>1, SameInv DEF IInv
<1>3. QED
  BY <1>1, <1>2

LEMMA SetSigningKeyInv ==
  ASSUME IInv, NEW u \in User, SetSigningKey(u)
  PROVE  \A h \in Group : GroupInv(h)'
BY DEF IInv, TypeOK, GroupInv, SetSigningKey, Exists, Blank, Invite0, groups

\* The member that joins takes the vouches away, so none of them is theirs.
LEMMA AddMembershipInv ==
  ASSUME IInv, NEW g \in Group, NEW u \in User, AddMembership(g, u)
  PROVE  \A h \in Group : GroupInv(h)'
<1> SUFFICES ASSUME NEW h \in Group PROVE GroupInv(h)'
  OBVIOUS
<1>1. ASSUME h = g, type[g] = "family", ~MayJoinFamily(g, u)
      PROVE  GroupInv(h)'
  BY <1>1 DEF IInv, TypeOK, GroupInv, AddMembership, Exists, groups
<1>2. ASSUME h = g, ~(type[g] = "family" /\ ~MayJoinFamily(g, u))
      PROVE  GroupInv(h)'
  <2>1. /\ members'[g] = members[g] \cup {u}
        /\ vouchers'[g] = IF type[g] = "family" THEN {} ELSE vouchers[g]
        /\ UNCHANGED <<type, admins, head>>
    BY <1>2 DEF AddMembership, IInv, TypeOK
  <2>2. vouchers'[g] = {}
    BY <2>1 DEF IInv, GroupInv
  <2>3. QED
    BY <1>2, <2>1, <2>2 DEF IInv, GroupInv, AddMembership, Exists
<1>3. CASE h # g
  <2>1. Same(h)
    <3>1. CASE type[g] = "family" /\ ~MayJoinFamily(g, u)
      BY <1>3, <3>1 DEF IInv, TypeOK, AddMembership, Same, groups
    <3>2. CASE ~(type[g] = "family" /\ ~MayJoinFamily(g, u))
      BY <1>3, <3>2 DEF IInv, TypeOK, AddMembership, Same
    <3>3. QED
      BY <3>1, <3>2
  <2>2. QED
    BY <2>1, SameInv DEF IInv
<1>4. QED
  BY <1>1, <1>2, <1>3

LEMMA DeleteMembershipInv ==
  ASSUME IInv, NEW g \in Group, NEW u \in User, DeleteMembership(g, u)
  PROVE  \A h \in Group : GroupInv(h)'
<1> SUFFICES ASSUME NEW h \in Group PROVE GroupInv(h)'
  OBVIOUS
<1>1. CASE h = g
  <2>1. /\ members'[g] = members[g] \ {u}
        /\ admins'[g] = admins[g] \ {u}
        /\ vouchers'[g] = IF type[g] = "family" THEN {} ELSE vouchers[g]
        /\ type' = type
    BY DEF DeleteMembership, IInv, TypeOK
  <2>2. vouchers'[g] = {}
    BY <2>1 DEF IInv, GroupInv
  <2>3. QED
    BY <1>1, <2>1, <2>2 DEF IInv, GroupInv, DeleteMembership, Exists
<1>2. CASE h # g
  <2>1. Same(h)
    BY <1>2 DEF IInv, TypeOK, DeleteMembership, Same
  <2>2. QED
    BY <2>1, SameInv DEF IInv
<1>3. QED
  BY <1>1, <1>2

LEMMA SelfDismissalInv ==
  ASSUME IInv, NEW g \in Group, NEW u \in User, Exists(g), SelfDismissal(g, u)
  PROVE  \A h \in Group : GroupInv(h)'
<1> SUFFICES ASSUME NEW h \in Group PROVE GroupInv(h)'
  OBVIOUS
<1>1. CASE h = g
  BY <1>1 DEF IInv, TypeOK, GroupInv, SelfDismissal, Exists
<1>2. CASE h # g
  <2>1. Same(h)
    BY <1>2 DEF IInv, TypeOK, SelfDismissal, Same
  <2>2. QED
    BY <2>1, SameInv DEF IInv
<1>3. QED
  BY <1>1, <1>2

LEMMA AddAdminInv ==
  ASSUME IInv, NEW g \in Group, NEW u \in User, NEW v \in User, AddAdmin(g, u, v)
  PROVE  \A h \in Group : GroupInv(h)'
<1> SUFFICES ASSUME NEW h \in Group PROVE GroupInv(h)'
  OBVIOUS
<1>1. CASE h = g
  BY <1>1 DEF IInv, TypeOK, GroupInv, AddAdmin, Exists
<1>2. CASE h # g
  <2>1. Same(h)
    BY <1>2 DEF IInv, TypeOK, AddAdmin, Same
  <2>2. QED
    BY <2>1, SameInv DEF IInv
<1>3. QED
  BY <1>1, <1>2

LEMMA SetFamilyHeadInv ==
  ASSUME IInv, NEW g \in Group, NEW u \in User, NEW v \in User,
         SetFamilyHead(g, u, v)
  PROVE  \A h \in Group : GroupInv(h)'
<1> SUFFICES ASSUME NEW h \in Group PROVE GroupInv(h)'
  OBVIOUS
<1>1. CASE h = g
  BY <1>1 DEF IInv, TypeOK, GroupInv, SetFamilyHead, Exists
<1>2. CASE h # g
  <2>1. Same(h)
    BY <1>2 DEF IInv, TypeOK, SetFamilyHead, Same
  <2>2. QED
    BY <2>1, SameInv DEF IInv
<1>3. QED
  BY <1>1, <1>2

LEMMA ConvertToFamilyInv ==
  ASSUME IInv, NEW g \in Group, NEW u \in User, NEW v \in User,
         ConvertToFamily(g, u, v)
  PROVE  \A h \in Group : GroupInv(h)'
<1> SUFFICES ASSUME NEW h \in Group PROVE GroupInv(h)'
  OBVIOUS
<1>1. CASE h = g
  BY <1>1 DEF IInv, TypeOK, GroupInv, ConvertToFamily, Exists
<1>2. CASE h # g
  <2>1. Same(h)
    BY <1>2 DEF IInv, TypeOK, ConvertToFamily, Same
  <2>2. QED
    BY <2>1, SameInv DEF IInv
<1>3. QED
  BY <1>1, <1>2

\* Who knows every member is not one of them.
LEMMA VouchFamilyInv ==
  ASSUME IInv, NEW g \in Group, NEW u \in User, VouchFamily(g, u)
  PROVE  \A h \in Group : GroupInv(h)'
<1> SUFFICES ASSUME NEW h \in Group PROVE GroupInv(h)'
  OBVIOUS
<1>1. CASE h = g
  <2>1. u \notin members[g]
    BY DEF VouchFamily, Known, IInv, NobodyKnowsThemselves
  <2>2. QED
    BY <1>1, <2>1 DEF IInv, TypeOK, GroupInv, VouchFamily, Exists
<1>2. CASE h # g
  <2>1. Same(h)
    BY <1>2 DEF IInv, TypeOK, VouchFamily, Same
  <2>2. QED
    BY <2>1, SameInv DEF IInv
<1>3. QED
  BY <1>1, <1>2

LEMMA InvStep == IInv /\ [Next]_vars => IInv'
<1> SUFFICES ASSUME IInv, [Next]_vars PROVE IInv'
  OBVIOUS
<1>t. TypeOK'
  BY TypeStep DEF IInv
<1>1. ASSUME NEW u \in User, NEW v \in User, Connect(u, v) PROVE IInv'
  BY <1>t, <1>1, ConnectInv DEF IInv
<1>2. CASE ~\E u, v \in User : Connect(u, v)
  <2>1. strong' = strong /\ \A h \in Group : GroupInv(h)'
    <3>1. CASE UNCHANGED vars
      <4>1. \A h \in Group : Same(h)
        BY <3>1 DEF vars, groups, Same
      <4>2. QED
        BY <3>1, <4>1, SameInv DEF IInv, vars
    <3>2. CASE Next
      <4>k. CASE \E u \in User : SetSigningKey(u)
        BY <4>k, SetSigningKeyInv DEF SetSigningKey
      <4> SUFFICES ASSUME ~\E u \in User : SetSigningKey(u)
                   PROVE  strong' = strong /\ \A h \in Group : GroupInv(h)'
        BY <4>k
      <4> PICK g \in Group, u \in User :
             \/ \E t \in GroupType \ {"none"} : CreateGroup(g, u, t)
             \/ DeleteGroup(g, u) \/ AddMembership(g, u) \/ DeleteMembership(g, u)
             \/ VouchFamily(g, u) \/ Expire(g, u)
             \/ \E v \in User : \/ Invite(g, u, v) \/ Dismiss(g, u, v)
                                \/ AddAdmin(g, u, v) \/ SetFamilyHead(g, u, v)
                                \/ ConvertToFamily(g, u, v)
        BY <1>2, <3>2 DEF Next
      <4>1. CASE \E t \in GroupType \ {"none"} : CreateGroup(g, u, t)
        BY <4>1, CreateGroupInv DEF CreateGroup
      <4>2. CASE DeleteGroup(g, u)
        BY <4>2, DeleteGroupInv DEF DeleteGroup
      <4>3. CASE AddMembership(g, u)
        BY <4>3, AddMembershipInv DEF AddMembership
      <4>4. CASE DeleteMembership(g, u)
        BY <4>4, DeleteMembershipInv DEF DeleteMembership
      <4>5. CASE VouchFamily(g, u)
        BY <4>5, VouchFamilyInv DEF VouchFamily
      <4>6. CASE Expire(g, u)
        BY <4>6, ExpireInv DEF Expire
      <4>7. ASSUME NEW v \in User, Invite(g, u, v)
            PROVE  strong' = strong /\ \A h \in Group : GroupInv(h)'
        BY <4>7, InviteInv DEF Invite
      <4>8. ASSUME NEW v \in User, Dismiss(g, u, v)
            PROVE  strong' = strong /\ \A h \in Group : GroupInv(h)'
        <5>1. CASE DeleteMembership(g, v)
          BY <5>1, DeleteMembershipInv DEF DeleteMembership
        <5>2. CASE SelfDismissal(g, v)
          BY <4>8, <5>2, SelfDismissalInv DEF SelfDismissal, Dismiss
        <5>3. QED
          BY <4>8, <5>1, <5>2 DEF Dismiss
      <4>9. ASSUME NEW v \in User, AddAdmin(g, u, v)
            PROVE  strong' = strong /\ \A h \in Group : GroupInv(h)'
        BY <4>9, AddAdminInv DEF AddAdmin
      <4>10. ASSUME NEW v \in User, SetFamilyHead(g, u, v)
             PROVE  strong' = strong /\ \A h \in Group : GroupInv(h)'
        BY <4>10, SetFamilyHeadInv DEF SetFamilyHead
      <4>11. ASSUME NEW v \in User, ConvertToFamily(g, u, v)
             PROVE  strong' = strong /\ \A h \in Group : GroupInv(h)'
        BY <4>11, ConvertToFamilyInv DEF ConvertToFamily
      <4>12. QED
        BY <4>1, <4>2, <4>3, <4>4, <4>5, <4>6, <4>7, <4>8, <4>9, <4>10, <4>11
    <3>3. QED
      BY <3>1, <3>2
  <2>2. QED
    BY <1>t, <2>1 DEF IInv, NobodyKnowsThemselves
<1>3. QED
  BY <1>1, <1>2

\* The invariant of the groups holds in every reachable state.
THEOREM Invariance == Spec => []IInv
BY InvInit, InvStep, PTL DEF Spec

(***************************************************************************)
(* What follows from the invariant.                                        *)
(***************************************************************************)

\* Admins are members, members do not vouch, and only families with a head are
\* vouched for: the roles that createGroup, addAdmin, vouchFamily and the rest
\* hand out always agree with the members.
THEOREM RolesMatch == Spec => []RolesMatchMembers
<1>1. IInv => RolesMatchMembers
  BY DEF IInv, GroupInv, RolesMatchMembers
<1>2. QED
  BY <1>1, Invariance, PTL

\* The id of a removed group can be used again without inheriting anything.
THEOREM RemovalIsComplete == Spec => []RemovedLeavesNothing
<1>1. IInv => RemovedLeavesNothing
  BY DEF IInv, GroupInv, Blank, RemovedLeavesNothing
<1>2. QED
  BY <1>1, Invariance, PTL

(***************************************************************************)
(* LastAdminStays: the check of deleteMembership counts the members, and   *)
(* the leaving admin is one of them, so a single member is the admin.      *)
(***************************************************************************)

LEMMA LastAdminLeaves ==
  ASSUME IInv, NEW g \in Group, NEW u \in User,
         ~LastAdmin(g, u), admins[g] # {}, admins[g] \ {u} = {}
  PROVE  members[g] \ {u} = {}
<1>1. admins[g] = {u} /\ u \in members[g]
  BY DEF IInv, GroupInv
<1>2. IsFiniteSet(members[g])
  BY GroupsAssumption, FS_Subset DEF IInv, TypeOK
<1>3. Cardinality(members[g]) \in Nat /\ Cardinality(members[g]) <= 1
  BY <1>1, <1>2, FS_CardinalityType DEF LastAdmin
<1>4. Cardinality(members[g] \ {u}) = Cardinality(members[g]) - 1
  BY <1>1, <1>2, FS_RemoveElement
<1>5. IsFiniteSet(members[g] \ {u})
  BY <1>2, FS_Subset
<1>6. Cardinality(members[g] \ {u}) \in Nat
  BY <1>5, FS_CardinalityType
<1>7. Cardinality(members[g] \ {u}) = 0
  BY <1>3, <1>4, <1>6
<1>8. QED
  BY <1>5, <1>7, FS_EmptySet

LEMMA LastAdminStep ==
  IInv /\ [Next]_vars =>
    \A g \in Group : admins[g] # {} /\ admins'[g] = {} => members'[g] = {}
<1> SUFFICES ASSUME IInv, [Next]_vars, NEW g \in Group,
                    admins[g] # {}, admins'[g] = {}
             PROVE  members'[g] = {}
  OBVIOUS
<1>1. CASE UNCHANGED admins
  BY <1>1
<1>2. ASSUME NEW h \in Group, NEW u \in User, NEW t, CreateGroup(h, u, t)
      PROVE  members'[g] = {}
  BY <1>2 DEF CreateGroup, IInv, TypeOK
<1>3. ASSUME NEW h \in Group, NEW u \in User, DeleteGroup(h, u)
      PROVE  members'[g] = {}
  BY <1>3 DEF DeleteGroup, IInv, TypeOK
<1>4. ASSUME NEW h \in Group, NEW u \in User, ~LastAdmin(h, u),
             admins' = [admins EXCEPT ![h] = @ \ {u}],
             members' = [members EXCEPT ![h] = @ \ {u}]
      PROVE  members'[g] = {}
  BY <1>4, LastAdminLeaves DEF IInv, TypeOK
<1>5. ASSUME NEW h \in Group, NEW u \in User, DeleteMembership(h, u)
      PROVE  members'[g] = {}
  BY <1>4, <1>5 DEF DeleteMembership
<1>6. ASSUME NEW h \in Group, NEW u \in User, NEW v \in User, Dismiss(h, u, v)
      PROVE  members'[g] = {}
  BY <1>4, <1>5, <1>6 DEF Dismiss, SelfDismissal
<1>7. ASSUME NEW h \in Group, NEW u \in User, NEW v \in User, AddAdmin(h, u, v)
      PROVE  members'[g] = {}
  BY <1>7 DEF AddAdmin, IInv, TypeOK
<1>8. ASSUME NEW h \in Group, NEW u \in User, AddMembership(h, u)
      PROVE  UNCHANGED admins
  BY <1>8 DEF AddMembership, groups
<1>9. ASSUME NEW h \in Group, NEW u \in User, NEW v \in User,
             VouchFamily(h, u) \/ Invite(h, u, v) \/ SetFamilyHead(h, u, v)
             \/ ConvertToFamily(h, u, v) \/ Expire(h, u) \/ SetSigningKey(u)
      PROVE  UNCHANGED admins
  BY <1>9 DEF VouchFamily, Invite, SetFamilyHead, ConvertToFamily, Expire, SetSigningKey, groups
<1>10. QED
  BY <1>1, <1>2, <1>3, <1>5, <1>6, <1>7, <1>8, <1>9 DEF Next, vars, groups, Connect

\* A group loses its last admin only together with its last member.
THEOREM GroupsKeepAnAdmin == Spec => LastAdminStays
BY Invariance, LastAdminStep, PTL DEF Spec, LastAdminStays

(***************************************************************************)
(* Heads and vouches, when no admin of a family dismisses themselves (the  *)
(* operation whose two attempts leave head and vouchers as they were).     *)
(***************************************************************************)

NobodyDismissesThemselves == \A p \in Dismissals : p[1] # p[2]

LEMMA DismissIsDelete ==
  ASSUME NobodyDismissesThemselves,
         NEW g \in Group, NEW u \in User, NEW v \in User, Dismiss(g, u, v)
  PROVE  DeleteMembership(g, v)
BY DEF Dismiss, NobodyDismissesThemselves

LEMMA HeadStep ==
  NobodyDismissesThemselves /\ IInv /\ HeadIsMember /\ [Next]_vars => HeadIsMember'
<1> SUFFICES ASSUME NobodyDismissesThemselves, IInv, HeadIsMember, [Next]_vars,
                    NEW k \in Group, type'[k] = "family", head'[k] # Nobody
             PROVE  head'[k] \in members'[k]
  BY DEF HeadIsMember
<1> USE DEF IInv, TypeOK
<1>1. ASSUME type'[k] = type[k], head'[k] = head[k], members[k] \subseteq members'[k]
      PROVE  head'[k] \in members'[k]
  BY <1>1 DEF HeadIsMember
<1>2. ASSUME NEW g \in Group, NEW u \in User, NEW t, CreateGroup(g, u, t)
      PROVE  head'[k] \in members'[k]
  BY <1>1, <1>2 DEF CreateGroup, GroupInv, Blank, Exists
<1>3. ASSUME NEW g \in Group, NEW u \in User, DeleteGroup(g, u)
      PROVE  head'[k] \in members'[k]
  BY <1>1, <1>3 DEF DeleteGroup
<1>4. ASSUME NEW g \in Group, NEW u \in User, AddMembership(g, u)
      PROVE  head'[k] \in members'[k]
  <2>1. CASE type[g] = "family" /\ ~MayJoinFamily(g, u)
    BY <1>1, <1>4, <2>1 DEF AddMembership, groups
  <2>2. CASE ~(type[g] = "family" /\ ~MayJoinFamily(g, u))
    BY <1>1, <1>4, <2>2 DEF AddMembership
  <2>3. QED
    BY <2>1, <2>2
<1>5. ASSUME NEW g \in Group, NEW u \in User, DeleteMembership(g, u)
      PROVE  head'[k] \in members'[k]
  BY <1>1, <1>5 DEF DeleteMembership, HeadIsMember
<1>6. ASSUME NEW g \in Group, NEW u \in User, NEW v \in User, Dismiss(g, u, v)
      PROVE  head'[k] \in members'[k]
  BY <1>5, <1>6, DismissIsDelete
<1>7. ASSUME NEW g \in Group, NEW u \in User, NEW v \in User,
             SetFamilyHead(g, u, v)
      PROVE  head'[k] \in members'[k]
  BY <1>1, <1>7 DEF SetFamilyHead
<1>8. ASSUME NEW g \in Group, NEW u \in User, NEW v \in User,
             ConvertToFamily(g, u, v)
      PROVE  head'[k] \in members'[k]
  BY <1>1, <1>8 DEF ConvertToFamily
<1>9. ASSUME UNCHANGED <<type, head, members>>
      PROVE  head'[k] \in members'[k]
  BY <1>1, <1>9
<1>10. QED
  BY <1>2, <1>3, <1>4, <1>5, <1>6, <1>7, <1>8, <1>9
     DEF Next, vars, groups, Connect, VouchFamily, Expire, SetSigningKey, Invite, AddAdmin

\* The head of a family is one of its members, whoever leaves or is dismissed.
THEOREM HeadsBelong ==
  ASSUME NobodyDismissesThemselves PROVE Spec => []HeadIsMember
<1>1. Init => HeadIsMember
  BY DEF Init, HeadIsMember
<1>2. IInv /\ HeadIsMember /\ [Next]_vars => HeadIsMember'
  BY HeadStep
<1>3. QED
  BY <1>1, <1>2, Invariance, PTL DEF Spec

LEMMA VouchesStep ==
  NobodyDismissesThemselves /\ IInv /\ [Next]_vars =>
    \A g \in Group :
       /\ type[g] = "family" /\ type'[g] = "family"
       /\ members'[g] # members[g] \/ head'[g] # head[g]
       => vouchers'[g] = {}
<1> SUFFICES ASSUME NobodyDismissesThemselves, IInv, [Next]_vars, NEW k \in Group,
                    type[k] = "family", type'[k] = "family",
                    members'[k] # members[k] \/ head'[k] # head[k]
             PROVE  vouchers'[k] = {}
  OBVIOUS
<1> USE DEF IInv, TypeOK
<1>1. ASSUME NEW g \in Group, NEW u \in User, NEW t, CreateGroup(g, u, t)
      PROVE  vouchers'[k] = {}
  BY <1>1 DEF CreateGroup, Exists
<1>2. ASSUME NEW g \in Group, NEW u \in User, DeleteGroup(g, u)
      PROVE  vouchers'[k] = {}
  BY <1>2 DEF DeleteGroup
<1>3. ASSUME NEW g \in Group, NEW u \in User, AddMembership(g, u)
      PROVE  vouchers'[k] = {}
  <2>1. ~(type[g] = "family" /\ ~MayJoinFamily(g, u))
    BY <1>3 DEF AddMembership, groups
  <2>2. QED
    BY <1>3, <2>1 DEF AddMembership
<1>4. ASSUME NEW g \in Group, NEW u \in User, DeleteMembership(g, u)
      PROVE  vouchers'[k] = {}
  BY <1>4 DEF DeleteMembership
<1>5. ASSUME NEW g \in Group, NEW u \in User, NEW v \in User, Dismiss(g, u, v)
      PROVE  vouchers'[k] = {}
  BY <1>4, <1>5, DismissIsDelete
<1>6. ASSUME NEW g \in Group, NEW u \in User, NEW v \in User,
             SetFamilyHead(g, u, v)
      PROVE  vouchers'[k] = {}
  BY <1>6 DEF SetFamilyHead
<1>7. ASSUME NEW g \in Group, NEW u \in User, NEW v \in User,
             ConvertToFamily(g, u, v)
      PROVE  vouchers'[k] = {}
  BY <1>7 DEF ConvertToFamily
<1>8. QED
  BY <1>1, <1>2, <1>3, <1>4, <1>5, <1>6, <1>7
     DEF Next, vars, groups, Connect, VouchFamily, Expire, SetSigningKey, Invite, AddAdmin

\* A family that gains or loses a member or changes its head loses its vouches.
THEOREM VouchesExpire ==
  ASSUME NobodyDismissesThemselves PROVE Spec => VouchesFollowChange
<1>1. IInv /\ [Next]_vars =>
        \A g \in Group :
           /\ type[g] = "family" /\ type'[g] = "family"
           /\ members'[g] # members[g] \/ head'[g] # head[g]
           => vouchers'[g] = {}
  BY VouchesStep
<1>2. QED
  BY <1>1, Invariance, PTL DEF Spec, VouchesFollowChange

=============================================================================
