------------------------------ MODULE Accounts ------------------------------
(***************************************************************************)
(* One account: its role and what it may see, and the invites by which its *)
(* holder sets a password (api/routers/admin_tenants.py).  Administrators  *)
(* read the role and write later, by user_id; an invite is looked at and   *)
(* spent later, by invite_id.                                              *)
(***************************************************************************)
CONSTANTS
  Admins,   \* requests of administrators that may be going on at once
  Guests,   \* requests to accept an invite
  Plants,
  Invites,  \* rows of user_invites
  NotGiven  \* a field the request leaves out

VARIABLES
  user,     \* the row of users
  grants,   \* its rows of user_plants
  invites,  \* user_invites of the account
  admin,    \* what each administrator's request is doing
  guest     \* what each accepting request is doing

vars == <<user, grants, invites, admin, guest>>

(* One role of each of the three kinds. *)
Roles == {"plant_operator", "dept_user", "global_read"}

PlantRole(role) == role = "plant_operator"

(* password: the placeholder, or that given with an invite. *)
User == [role : Roles, active : BOOLEAN, password : Invites \cup {NotGiven}]

AccountsAssumption == NotGiven \notin Invites \cup User

Idle == [step |-> "idle"]

TypeOK ==
  /\ user \in User \cup {NotGiven}
  /\ grants \in SUBSET Plants
  /\ invites \in [Invites -> {"absent", "open", "expired", "used"}]
  /\ admin \in [Admins -> {Idle} \cup [step : {"found"}, role : Roles]]
  /\ guest \in [Guests -> {Idle} \cup [step : {"valid"}, invite : Invites]]

Init ==
  /\ user = NotGiven
  /\ grants = {}
  /\ invites = [i \in Invites |-> "absent"]
  /\ admin = [a \in Admins |-> Idle]
  /\ guest = [g \in Guests |-> Idle]

(* Plants for a role of a plant, and for no other.                         *)
Scoped(role, plants) == (plants # {}) <=> PlantRole(role)

(* create_user: the account, its plants and its first invite in one commit; *)
(* nobody knows the password it gets.                                      *)
CreateUser(i) ==
  /\ user = NotGiven
  /\ \E role \in Roles, plants \in SUBSET Plants :
       /\ Scoped(role, plants)
       /\ user' = [role |-> role, active |-> TRUE, password |-> NotGiven]
       /\ grants' = plants
  /\ invites' = [invites EXCEPT ![i] = "open"]
  /\ UNCHANGED <<admin, guest>>

SeeUser(a) ==
  /\ user # NotGiven /\ admin[a] = Idle
  /\ admin' = [admin EXCEPT ![a] = [step |-> "found", role |-> user.role]]
  /\ UNCHANGED <<user, grants, invites, guest>>

(* A plausible bug: a change of role without plants leaves them as they are. *)
AnyChange(found, role, plants) == plants = NotGiven \/ Scoped(role, plants)

(* What patch_user accepts: plants must be given if the role begins or     *)
(* ceases to be one of a plant.                                            *)
Acceptable(found, role, plants) ==
  IF plants = NotGiven THEN PlantRole(role) = PlantRole(found) ELSE Scoped(role, plants)

(* A role left out is the one that was found. *)
PatchUser(a) ==
  /\ admin[a].step = "found"
  /\ \E role \in Roles, plants \in (SUBSET Plants) \cup {NotGiven}, active \in BOOLEAN :
       /\ Acceptable(admin[a].role, role, plants)
       /\ user' = [user EXCEPT !.role = role, !.active = active]
       /\ grants' = IF plants = NotGiven THEN grants ELSE plants
  /\ admin' = [admin EXCEPT ![a] = Idle]
  /\ UNCHANGED <<invites, guest>>

RefusePatch(a) ==
  /\ admin[a].step = "found"
  /\ admin' = [admin EXCEPT ![a] = Idle]
  /\ UNCHANGED <<user, grants, invites, guest>>

(* reinvite_user: the invites there are stay good. *)
Reinvite(i) ==
  /\ user # NotGiven /\ invites[i] = "absent"
  /\ invites' = [invites EXCEPT ![i] = "open"]
  /\ UNCHANGED <<user, grants, admin, guest>>

Expire(i) ==
  /\ invites[i] = "open"
  /\ invites' = [invites EXCEPT ![i] = "expired"]
  /\ UNCHANGED <<user, grants, admin, guest>>

(* accept_invite finds it neither used nor expired (get_invite looks, and  *)
(* changes nothing) ...                                                    *)
SeeInvite(g, i) ==
  /\ guest[g] = Idle
  /\ invites[i] = "open"
  /\ guest' = [guest EXCEPT ![g] = [step |-> "valid", invite |-> i]]
  /\ UNCHANGED <<user, grants, invites, admin>>

(* ... and sets the password and spends the invite in one commit. *)
AcceptInvite(g) ==
  LET i == guest[g].invite IN
  /\ guest[g].step = "valid"
  /\ user' = [user EXCEPT !.password = i]
  /\ invites' = [invites EXCEPT ![i] = "used"]
  /\ guest' = [guest EXCEPT ![g] = Idle]
  /\ UNCHANGED <<grants, admin>>

Next ==
  \/ \E i \in Invites : CreateUser(i) \/ Reinvite(i) \/ Expire(i)
  \/ \E a \in Admins : SeeUser(a) \/ PatchUser(a) \/ RefusePatch(a)
  \/ \E g \in Guests : AcceptInvite(g) \/ \E i \in Invites : SeeInvite(g, i)

Spec == Init /\ [][Next]_vars

-----------------------------------------------------------------------------

ScopeMatches == user # NotGiven => Scoped(user.role, grants)

(* No change of an account leaves it plants that its role does not go with *)
(* (admin_tenants.py:378-386), unless the role has changed since the       *)
(* request that changes it looked; and nobody has a password but by an     *)
(* invite that is spent.                                                   *)
ScopeFollowsRole ==
  /\ [][(/\ ScopeMatches
         /\ \A a \in Admins : admin[a].step = "found" => admin[a].role = user.role)
          => ScopeMatches']_vars
  /\ [](user # NotGiven => \A i \in Invites : user.password = i => invites[i] = "used")
==============================================================================
