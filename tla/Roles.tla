------------------------------- MODULE Roles -------------------------------
(***************************************************************************)
(* The other half of the access-control interface every contract exposes:  *)
(* roles, whose members are kept in an array so that a client can count    *)
(* them and ask for each by its index.  No call of the contracts is gated  *)
(* by a role.  The code is a dependency (the OpenZeppelin crate); what is  *)
(* written here is what the generated bindings declare of it.              *)
(***************************************************************************)
EXTENDS AccessControl, Sequences, FiniteSets

CONSTANTS
  RoleNames,   \* symbols a role may be named by
  NoRole,      \* the role has no admin role of its own
  MAX_ROLES,   \* roles that may have members at one time
  Grantees     \* bound: role -> the accounts it is granted to

ASSUME RoleAssumption ==
  /\ NoRole \notin RoleNames /\ MAX_ROLES \in Nat
  /\ IsFiniteSet(RoleNames)
  /\ Grantees \in [RoleNames -> SUBSET Accounts]

VARIABLES
  members,     \* role -> its members, in the order of their indices
  roleAdmin,   \* role -> the role whose members may grant and revoke it
  existing     \* the stored list of roles that have a member

roleVars == <<members, roleAdmin, existing>>

RolesTypeOK ==
  /\ members \in [RoleNames -> Seq(Accounts)]
  /\ roleAdmin \in [RoleNames -> RoleNames \cup {NoRole}]
  /\ existing \subseteq RoleNames

RolesInit ==
  /\ members = [r \in RoleNames |-> << >>]
  /\ roleAdmin = [r \in RoleNames |-> NoRole]
  /\ existing = {}

IsMember(a, r) == \E i \in 1..Len(members[r]) : members[r][i] = a

\* The admin, or a member of the role's admin role.
MayManage(caller, r) ==
  \/ caller = admin
  \/ roleAdmin[r] # NoRole /\ IsMember(caller, roleAdmin[r])

GrantRoleAnswer(caller, a, r) ==
  IF ~MayManage(caller, r) THEN "Unauthorized"
  ELSE IF members[r] = << >> /\ Cardinality(existing) >= MAX_ROLES
       THEN "MaxRolesExceeded" ELSE "Ok"

GrantRole(caller, a, r) ==
  /\ GrantRoleAnswer(caller, a, r) = "Ok"
  /\ members' = IF IsMember(a, r) THEN members
                ELSE [members EXCEPT ![r] = Append(@, a)]
  /\ existing' = existing \cup {r}
  /\ UNCHANGED <<acVars, roleAdmin>>

\* The last member takes the index of the one that leaves.
Without(s, a) ==
  [i \in 1 .. Len(s) - 1 |-> IF s[i] = a THEN s[Len(s)] ELSE s[i]]

Leave(a, r) ==
  /\ members' = [members EXCEPT ![r] = Without(@, a)]
  /\ existing' = IF Len(members[r]) = 1 THEN existing \ {r} ELSE existing
  /\ UNCHANGED <<acVars, roleAdmin>>

RevokeRoleAnswer(caller, a, r) ==
  IF ~MayManage(caller, r) THEN "Unauthorized"
  ELSE IF ~IsMember(a, r) THEN "RoleNotHeld" ELSE "Ok"

RevokeRole(caller, a, r) ==
  RevokeRoleAnswer(caller, a, r) = "Ok" /\ Leave(a, r)

RenounceRoleAnswer(caller, r) ==
  IF ~IsMember(caller, r) THEN "RoleNotHeld" ELSE "Ok"

RenounceRole(caller, r) ==
  RenounceRoleAnswer(caller, r) = "Ok" /\ Leave(caller, r)

SetRoleAdmin(caller, r, ar) ==
  /\ OnlyAdmin(caller) = "Ok"
  /\ roleAdmin' = [roleAdmin EXCEPT ![r] = ar]
  /\ UNCHANGED <<acVars, members, existing>>

RoleCall(caller) ==
  \E r \in RoleNames :
    \/ \E a \in Grantees[r] : GrantRole(caller, a, r)
    \/ \E a \in Accounts : RevokeRole(caller, a, r)
    \/ RenounceRole(caller, r)
    \/ \E ar \in RoleNames : SetRoleAdmin(caller, r, ar)
=============================================================================
