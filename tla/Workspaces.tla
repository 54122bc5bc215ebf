----------------------------- MODULE Workspaces -----------------------------
(***************************************************************************)
(* Accounts, organizations, memberships and invitations:                   *)
(*   auth/auth.controller.ts              registration and invitations     *)
(*   auth/jwt.strategy.ts, roles.guard.ts who a request acts as            *)
(*   users/users.controller.ts, users.service.ts                           *)
(*   organizations/organizations.controller.ts, organizations.service.ts   *)
(*   mcp-servers/mcp-servers.service.ts   createDefaultForUser             *)
(*                                                                         *)
(* A request reads and writes the database one query after the other, other *)
(* requests in between; only deletions use a transaction.  A user is the   *)
(* e-mail address it registered with, an organization the number of its    *)
(* creation.  The role VIEWER is treated by this code as EDITOR is.        *)
(***************************************************************************)
EXTENDS Integers, Sequences, FiniteSets

CONSTANTS
  Users,            \* e-mail addresses
  Invites,          \* ids of invitations
  Requests,         \* requests under way at once
  NoUser, NoOrg, NoInvite,
  Cloud, Open,      \* DEPLOYMENT_MODE = cloud, ALLOW_OPEN_REGISTRATION
  Seeds,            \* the databases a behaviour starts from
  MaxOrgs,          \* bound: organizations
  MaxRequests,      \* bound: requests started
  MaxBreaks         \* bound: requests that end by an error or a restart

Orgs  == 1..MaxOrgs
Roles == {"ADMIN", "EDITOR"}

\* The rows.  A membership that is gone leaves an empty row.
Account    == [org : Orgs \union {NoOrg}, role : Roles, verified : BOOLEAN,
               server : Orgs \union {NoOrg}]
Membership == [user : Users, org : Orgs, role : Roles]
Invitation == [email : Users, org : Orgs, role : Roles, created : BOOLEAN,
               state : {"pending", "used", "expired", "deleted"}]
Left       == [user |-> NoUser, org |-> NoOrg, role |-> "EDITOR"]

ASSUME WorkspacesAssumption ==
  /\ {Cloud, Open} \subseteq BOOLEAN
  /\ {MaxOrgs, MaxRequests, MaxBreaks} \subseteq Nat
  /\ IsFiniteSet(Users) /\ NoOrg \notin Orgs \union Membership
  /\ NoUser \notin Users \union Account /\ NoInvite \notin Invites \union Invitation

\* The databases a behaviour starts from: what a row refers to is there, nobody
\* is twice a member of an organization, the active organization of a user is one
\* of its memberships, and the invitations are pending.
ASSUME SeedsAssumption ==
  \A s \in Seeds :
    /\ s.lastOrg \in 0..MaxOrgs /\ s.orgs \subseteq 1..s.lastOrg
    /\ s.account \in [Users -> Account \union {NoUser}]
    /\ s.members \in Seq(Membership)
    /\ s.invites \in [Invites -> Invitation \union {NoInvite}]
    /\ \A k \in DOMAIN s.members :
         /\ s.account[s.members[k].user] # NoUser /\ s.members[k].org \in s.orgs
         /\ \A j \in DOMAIN s.members :
              s.members[j].user = s.members[k].user /\ s.members[j].org = s.members[k].org
              => j = k
    /\ \A u \in Users : s.account[u] # NoUser =>
         /\ s.account[u].server \in s.orgs \union {NoOrg}
         /\ \/ s.account[u].org = NoOrg
            \/ \E k \in DOMAIN s.members :
                 s.members[k] = [user |-> u, org |-> s.account[u].org,
                                 role |-> s.account[u].role]
    /\ \A i \in Invites :
         s.invites[i] # NoInvite => s.invites[i].state = "pending" /\ s.invites[i].org \in s.orgs

VARIABLES
  account,       \* users: active organization and its role, verified, default server
  orgs,          \* organizations
  lastOrg,       \* the newest
  members,       \* organization_members in the order of joining, those gone included
  invites,       \* invitation_tokens, those deleted included
  req,           \* requests under way
  requests, breaks,   \* counters of the bounds
  fresh,         \* history: accounts created, and not joined by that request
  overruled,     \* history: users whose role was last written by PUT /users/:id/role
  gone           \* history: users ever deleted

workspacesVars == <<account, orgs, lastOrg, members, invites, req, requests,
                    breaks, fresh, overruled, gone>>

Accounts     == {u \in Users : account[u] # NoUser}
MembersOf(o) == {members[k].user : k \in {j \in DOMAIN members : members[j].org = o}}
AdminsOf(o)  == {members[k].user : k \in {j \in DOMAIN members :
                   members[j].org = o /\ members[j].role = "ADMIN"}}
Joined(u, o) == u \in MembersOf(o)

\* The membership of u in o.
RoleIn(u, o) ==
  (CHOOSE k \in DOMAIN members : members[k].user = u /\ members[k].org = o)

\* The memberships of u, without those in o, and the oldest of some.
OthersOf(u, o) == {k \in DOMAIN members : members[k].user = u /\ members[k].org # o}
First(ks)      == members[CHOOSE k \in ks : \A j \in ks : k <= j]
Oldest(ks)     == IF ks = {} THEN NoOrg ELSE First(ks)

Idle == [pc |-> "idle", user |-> NoUser, org |-> NoOrg, role |-> "EDITOR",
         inv |-> NoInvite, next |-> "idle", data |-> {}, stale |-> FALSE]

At(q, pc)      == req[q].pc = pc
Goes(q, r)     == req' = [req EXCEPT ![q] = r]
Ends(q)        == Goes(q, Idle)
GoesTo(q, pc)  == Goes(q, [req[q] EXCEPT !.pc = pc])
Starts(q, r)   == At(q, "idle") /\ requests < MaxRequests
                  /\ requests' = requests + 1 /\ Goes(q, r)

\* The memberships change, with what the other requests have read of them.
MembersBecome(q, ms, r) ==
  /\ members' = ms
  /\ req' = [p \in Requests |-> IF p = q THEN r
                                ELSE [req[p] EXCEPT !.stale = req[p].pc # "idle"]]

-----------------------------------------------------------------------------
(* Faulty variants of definitions below: bugs the properties must catch.   *)

\* An invitation is marked when it is opened.
InviteMarkedFirst(q, i) ==
  /\ invites[i] # NoInvite /\ invites[i].state = "pending"
  /\ Starts(q, [Idle EXCEPT !.pc = "find", !.user = invites[i].email,
                  !.org = invites[i].org, !.role = invites[i].role, !.inv = i])
  /\ invites' = [invites EXCEPT ![i].state = "used"]
  /\ UNCHANGED <<account, orgs, lastOrg, members, breaks, fresh, overruled, gone>>

\* The only admin counts itself.
AdminsLeft(u, o) == AdminsOf(o)

\* The role of an orphan is kept when its organization goes.
MigratedInRole(a, next) ==
  IF next = NoOrg THEN [a EXCEPT !.org = NoOrg] ELSE [a EXCEPT !.org = next.org]

\* An orphan without another organization loses its role as well.
MigratedRoleless(a, next) ==
  IF next = NoOrg THEN [a EXCEPT !.org = NoOrg, !.role = "NONE"]
  ELSE [a EXCEPT !.org = next.org, !.role = next.role]

-----------------------------------------------------------------------------
(* Who a request acts as: jwt.strategy.ts reads the user for every request *)
(* and moves one without an active organization to its oldest membership.  *)

NeedsHeal(u) == account[u].org = NoOrg /\ OthersOf(u, NoOrg) # {}

Heal(u) ==
  /\ u \in Accounts /\ NeedsHeal(u)
  /\ account' = [account EXCEPT ![u].org = First(OthersOf(u, NoOrg)).org,
                                ![u].role = First(OthersOf(u, NoOrg)).role]
  /\ overruled' = overruled \ {u}
  /\ UNCHANGED <<orgs, lastOrg, members, invites, req, requests, breaks, fresh, gone>>

Signed(u)  == u \in Accounts /\ ~NeedsHeal(u)
IsAdmin(u) == Signed(u) /\ account[u].role = "ADMIN"

-----------------------------------------------------------------------------
(* POST /auth/register.                                                    *)

RegisterStart(q, u) ==
  /\ u \notin Accounts
  /\ Starts(q, [Idle EXCEPT !.pc = "count", !.user = u, !.next = "server"])
  /\ UNCHANGED <<account, orgs, lastOrg, members, invites, breaks, fresh,
                 overruled, gone>>

RegisterCount(q) ==
  /\ At(q, "count")
  /\ IF Accounts # {} /\ ~Open THEN Ends(q)
     ELSE Goes(q, [req[q] EXCEPT
            !.pc = IF Cloud \/ Accounts = {} THEN "found" ELSE "first",
            !.role = IF Cloud \/ Accounts = {} THEN "ADMIN" ELSE "EDITOR"])
  /\ UNCHANGED <<account, orgs, lastOrg, members, invites, requests, breaks,
                 fresh, overruled, gone>>

\* An organization of its own.
Found(q) ==
  /\ At(q, "found") /\ lastOrg < MaxOrgs
  /\ lastOrg' = lastOrg + 1 /\ orgs' = orgs \union {lastOrg'}
  /\ Goes(q, [req[q] EXCEPT !.pc = IF req[q].next = "idle" THEN "join" ELSE "create",
                            !.org = lastOrg'])
  /\ UNCHANGED <<account, members, invites, requests, breaks, fresh, overruled, gone>>

\* The first organization; without one the request throws.
JoinFirst(q) ==
  /\ At(q, "first")
  /\ IF orgs = {} THEN Ends(q)
     ELSE Goes(q, [req[q] EXCEPT !.pc = "create",
                     !.org = CHOOSE o \in orgs : \A p \in orgs : o <= p])
  /\ UNCHANGED <<account, orgs, lastOrg, members, invites, requests, breaks,
                 fresh, overruled, gone>>

\* The address is unique, the organization must still be there.  Bound: the
\* address of a deleted user, whose next row has another id, does not come back.
CreateUser(q) ==
  /\ At(q, "create") /\ req[q].user \notin gone
  /\ LET u == req[q].user
         o == req[q].org
     IN IF u \in Accounts \/ o \notin orgs
        THEN Ends(q) /\ UNCHANGED <<account, fresh, overruled>>
        ELSE /\ account' = [account EXCEPT ![u] =
                  [org |-> o, role |-> req[q].role, verified |-> FALSE, server |-> NoOrg]]
             /\ fresh' = fresh \union {u} /\ overruled' = overruled \ {u}
             /\ GoesTo(q, "join")
  /\ UNCHANGED <<orgs, lastOrg, members, invites, requests, breaks, gone>>

\* addMember: one membership of a user in an organization.
Join(q) ==
  /\ At(q, "join")
  /\ LET u == req[q].user
         o == req[q].org
     IN IF u \notin Accounts \/ o \notin orgs \/ Joined(u, o)
        THEN Ends(q) /\ UNCHANGED <<members, fresh>>
        ELSE /\ MembersBecome(q,
                  Append(members, [user |-> u, org |-> o, role |-> req[q].role]),
                  IF req[q].next = "idle" THEN Idle ELSE [req[q] EXCEPT !.pc = req[q].next])
             /\ fresh' = IF req[q].next \in {"server", "verify"} THEN fresh \ {u} ELSE fresh
  /\ UNCHANGED <<account, orgs, lastOrg, invites, requests, breaks, overruled, gone>>

\* createDefaultForUser: the first default server of the user.
DefaultServer(q) ==
  /\ At(q, "server")
  /\ LET u == req[q].user
         o == req[q].org
     IN IF u \notin Accounts \/ (account[u].server = NoOrg /\ o \notin orgs)
        THEN Ends(q) /\ UNCHANGED account
        ELSE /\ account' = [account EXCEPT ![u].server = IF @ = NoOrg THEN o ELSE @]
             /\ IF req[q].inv = NoInvite THEN Ends(q) ELSE GoesTo(q, "mark")
  /\ UNCHANGED <<orgs, lastOrg, members, invites, requests, breaks, fresh,
                 overruled, gone>>

-----------------------------------------------------------------------------
(* POST /auth/invite and /auth/accept-invite.                              *)

InviteStart(q, a, e, role) ==
  /\ IsAdmin(a) /\ account[a].org # NoOrg
  /\ Starts(q, [Idle EXCEPT !.pc = "inviteCheck", !.user = e, !.role = role,
                            !.org = account[a].org])
  /\ UNCHANGED <<account, orgs, lastOrg, members, invites, breaks, fresh,
                 overruled, gone>>

\* A pending invitation is used again.
InviteCheck(q) ==
  /\ At(q, "inviteCheck")
  /\ LET u == req[q].user
         o == req[q].org
     IN IF \/ u \in Accounts /\ Joined(u, o)
           \/ \E i \in Invites : /\ invites[i] # NoInvite /\ invites[i].email = u
                                 /\ invites[i].org = o /\ invites[i].state = "pending"
        THEN Ends(q) ELSE GoesTo(q, "inviteCreate")
  /\ UNCHANGED <<account, orgs, lastOrg, members, invites, requests, breaks,
                 fresh, overruled, gone>>

InviteCreate(q, i) ==
  /\ At(q, "inviteCreate") /\ invites[i] = NoInvite
  /\ invites' = IF req[q].org \notin orgs THEN invites
                ELSE [invites EXCEPT ![i] = [email |-> req[q].user, org |-> req[q].org,
                        role |-> req[q].role, state |-> "pending", created |-> FALSE]]
  /\ Ends(q)
  /\ UNCHANGED <<account, orgs, lastOrg, members, requests, breaks, fresh,
                 overruled, gone>>

InviteExpires(i) ==
  /\ invites[i] # NoInvite /\ invites[i].state = "pending"
  /\ invites' = [invites EXCEPT ![i].state = "expired"]
  /\ UNCHANGED <<account, orgs, lastOrg, members, req, requests, breaks, fresh,
                 overruled, gone>>

AcceptInvite(q, i) ==
  /\ invites[i] # NoInvite /\ invites[i].state = "pending"
  /\ Starts(q, [Idle EXCEPT !.pc = "find", !.user = invites[i].email,
                  !.org = invites[i].org, !.role = invites[i].role, !.inv = i])
  /\ UNCHANGED <<account, orgs, lastOrg, members, invites, breaks, fresh,
                 overruled, gone>>

\* An existing user joins and switches; an address without account gets one.
FindInvited(q) ==
  /\ At(q, "find")
  /\ Goes(q, IF req[q].user \in Accounts
             THEN [req[q] EXCEPT !.pc = "checkMember", !.next = "switchRead"]
             ELSE [req[q] EXCEPT !.pc = "create", !.next = "verify"])
  /\ UNCHANGED <<account, orgs, lastOrg, members, invites, requests, breaks,
                 fresh, overruled, gone>>

CheckMember(q) ==
  /\ At(q, "checkMember")
  /\ IF Joined(req[q].user, req[q].org) THEN Ends(q) ELSE GoesTo(q, "join")
  /\ UNCHANGED <<account, orgs, lastOrg, members, invites, requests, breaks,
                 fresh, overruled, gone>>

\* Invited users need not verify their address.
VerifyInvited(q) ==
  /\ At(q, "verify")
  /\ IF req[q].user \notin Accounts THEN Ends(q) /\ UNCHANGED account
     ELSE /\ account' = [account EXCEPT ![req[q].user].verified = TRUE]
          /\ GoesTo(q, "server")
  /\ UNCHANGED <<orgs, lastOrg, members, invites, requests, breaks, fresh,
                 overruled, gone>>

\* The last write; it throws when the invitation has been revoked.
MarkUsed(q) ==
  /\ At(q, "mark")
  /\ LET i == req[q].inv
     IN invites' = IF invites[i].state = "deleted" THEN invites
                   ELSE [invites EXCEPT ![i].state = "used",
                                        ![i].created = req[q].next = "verify"]
  /\ Ends(q)
  /\ UNCHANGED <<account, orgs, lastOrg, members, requests, breaks, fresh,
                 overruled, gone>>

-----------------------------------------------------------------------------
(* Organizations: POST / and /switch, DELETE /current.                     *)

CreateOrg(q, u) ==
  /\ Signed(u)
  /\ Starts(q, [Idle EXCEPT !.pc = "found", !.user = u, !.role = "ADMIN"])
  /\ UNCHANGED <<account, orgs, lastOrg, members, invites, breaks, fresh,
                 overruled, gone>>

SwitchOrg(q, u, o) ==
  /\ Signed(u)
  /\ Starts(q, [Idle EXCEPT !.pc = "switchRead", !.user = u, !.org = o])
  /\ UNCHANGED <<account, orgs, lastOrg, members, invites, breaks, fresh,
                 overruled, gone>>

SwitchRead(q) ==
  /\ At(q, "switchRead")
  /\ LET u == req[q].user
         o == req[q].org
     IN IF ~Joined(u, o) THEN Ends(q)
        ELSE Goes(q, [req[q] EXCEPT !.pc = "switchWrite", !.role = members[RoleIn(u, o)].role])
  /\ UNCHANGED <<account, orgs, lastOrg, members, invites, requests, breaks,
                 fresh, overruled, gone>>

SwitchWrite(q) ==
  /\ At(q, "switchWrite")
  /\ LET u == req[q].user
     IN IF u \notin Accounts \/ req[q].org \notin orgs
        THEN Ends(q) /\ UNCHANGED <<account, overruled>>
        ELSE /\ account' = [account EXCEPT ![u].org = req[q].org, ![u].role = req[q].role]
             /\ overruled' = overruled \ {u}
             /\ IF req[q].inv = NoInvite THEN Ends(q) ELSE GoesTo(q, "mark")
  /\ UNCHANGED <<orgs, lastOrg, members, invites, requests, breaks, fresh, gone>>

DeleteOrgStart(q, u) ==
  /\ IsAdmin(u) /\ account[u].org # NoOrg
  /\ Starts(q, [Idle EXCEPT !.pc = "deleteCheck", !.user = u, !.org = account[u].org])
  /\ UNCHANGED <<account, orgs, lastOrg, members, invites, breaks, fresh,
                 overruled, gone>>

\* The membership must be an admin's; then where everybody goes is looked up.
DeleteOrgCheck(q) ==
  /\ At(q, "deleteCheck")
  /\ IF req[q].org \in orgs /\ req[q].user \in AdminsOf(req[q].org)
     THEN GoesTo(q, "deleteRead") ELSE Ends(q)
  /\ UNCHANGED <<account, orgs, lastOrg, members, invites, requests, breaks,
                 fresh, overruled, gone>>

\* The look-ups of all who go somewhere are one step here.
DeleteOrgRead(q) ==
  /\ At(q, "deleteRead")
  /\ LET o == req[q].org
         moved == {u \in Accounts : account[u].org = o} \union {req[q].user}
     IN Goes(q, [req[q] EXCEPT !.pc = "deleteOrg",
                   !.data = [u \in moved |-> Oldest(OthersOf(u, o))]])
  /\ UNCHANGED <<account, orgs, lastOrg, members, invites, requests, breaks,
                 fresh, overruled, gone>>

\* What the foreign keys do when organizations go.
Without(us, os) == [k \in DOMAIN members |->
                      IF members[k].user \in us \/ members[k].org \in os THEN Left ELSE members[k]]
Revoked(os)     == [i \in Invites |-> IF invites[i] # NoInvite /\ invites[i].org \in os
                                      THEN [invites[i] EXCEPT !.state = "deleted"]
                                      ELSE invites[i]]
Cleared(a, os)  == IF a = NoUser THEN NoUser
                   ELSE [a EXCEPT !.org = IF @ \in os THEN NoOrg ELSE @,
                                  !.server = IF @ \in os THEN NoOrg ELSE @]

Migrated(a, next) ==
  IF next = NoOrg THEN [a EXCEPT !.org = NoOrg]
  ELSE [a EXCEPT !.org = next.org, !.role = next.role]

\* The transaction: somebody gone, or an organization to go to, rolls it back.
\* The one who deletes and has no other organization gets a new one.
DeleteOrg(q) ==
  /\ At(q, "deleteOrg")
  /\ LET o    == req[q].org
         u    == req[q].user
         next == req[q].data
         fail == \/ o \notin orgs \/ ~(DOMAIN next \subseteq Accounts)
                 \/ \E v \in DOMAIN next : next[v] # NoOrg /\ next[v].org \notin orgs
         own  == next[u] = NoOrg
         new  == [user |-> u, org |-> lastOrg + 1, role |-> "ADMIN"]
         goal == [v \in DOMAIN next |-> IF v = u /\ own THEN new ELSE next[v]]
         left == Without({}, {o})
     IN IF fail
        THEN /\ Ends(q)
             /\ UNCHANGED <<account, orgs, lastOrg, members, invites, overruled, fresh>>
        ELSE /\ own => lastOrg < MaxOrgs
             /\ lastOrg' = IF own THEN lastOrg + 1 ELSE lastOrg
             /\ orgs' = (orgs \ {o}) \union (IF own THEN {lastOrg'} ELSE {})
             /\ MembersBecome(q, IF own THEN Append(left, new) ELSE left, Idle)
             /\ account' = [v \in Users |->
                  Cleared(IF v \in DOMAIN next THEN Migrated(account[v], goal[v])
                          ELSE account[v], {o})]
             /\ invites' = Revoked({o})
             /\ overruled' = overruled \ {v \in DOMAIN next : goal[v] # NoOrg}
             /\ fresh' = {v \in fresh : v \notin DOMAIN next}
  /\ UNCHANGED <<requests, breaks, gone>>

-----------------------------------------------------------------------------
(* Users: PUT /:id/role, DELETE /:id, DELETE /invitations/:id, DELETE /me. *)

\* The request of admin a is under way for what its guard has read.
AdminStart(q, a, u, op, role) ==
  /\ IsAdmin(a) /\ a # u
  /\ Starts(q, [Idle EXCEPT !.pc = op, !.user = u, !.org = account[a].org, !.role = role])
  /\ UNCHANGED <<account, orgs, lastOrg, members, invites, breaks, fresh,
                 overruled, gone>>

\* The role of the user is written, the membership is not.
UpdateRole(q) ==
  /\ At(q, "setRole")
  /\ LET u == req[q].user
     IN IF u \in Accounts /\ account[u].org = req[q].org
        THEN /\ account' = [account EXCEPT ![u].role = req[q].role]
             /\ overruled' = overruled \union {u}
        ELSE UNCHANGED <<account, overruled>>
  /\ Ends(q)
  /\ UNCHANGED <<orgs, lastOrg, members, invites, requests, breaks, fresh, gone>>

RemoveFind(q) ==
  /\ At(q, "remove")
  /\ IF req[q].user \in Accounts /\ account[req[q].user].org = req[q].org
     THEN GoesTo(q, "removeTx") ELSE Ends(q)
  /\ UNCHANGED <<account, orgs, lastOrg, members, invites, requests, breaks,
                 fresh, overruled, gone>>

\* The user and the organizations os go, with everything the keys take along.
Deletes(q, u, os) ==
  /\ orgs' = orgs \ os
  /\ account' = [v \in Users |-> IF v = u THEN NoUser ELSE Cleared(account[v], os)]
  /\ MembersBecome(q, Without({u}, os), Idle)
  /\ invites' = Revoked(os)
  /\ fresh' = fresh \ {u} /\ overruled' = overruled \ {u} /\ gone' = gone \union {u}

Remove(q) ==
  /\ At(q, "removeTx")
  /\ IF req[q].user \in Accounts THEN Deletes(q, req[q].user, {})
     ELSE Ends(q) /\ UNCHANGED <<account, orgs, members, invites, fresh, overruled, gone>>
  /\ UNCHANGED <<lastOrg, requests, breaks>>

Revoke(a, i) ==
  /\ IsAdmin(a) /\ invites[i] # NoInvite /\ invites[i].org = account[a].org
  /\ invites[i].state # "deleted"
  /\ requests < MaxRequests /\ requests' = requests + 1
  /\ invites' = [invites EXCEPT ![i].state = "deleted"]
  /\ UNCHANGED <<account, orgs, lastOrg, members, req, breaks, fresh, overruled, gone>>

DeleteSelf(q, u) ==
  /\ Signed(u)
  /\ Starts(q, [Idle EXCEPT !.pc = "selfRead", !.user = u])
  /\ UNCHANGED <<account, orgs, lastOrg, members, invites, breaks, fresh,
                 overruled, gone>>

\* The organizations u is admin of: those with a member more are counted later,
\* the others will be deleted with u.
SelfRead(q) ==
  /\ At(q, "selfRead")
  /\ LET u   == req[q].user
         own == {o \in orgs : u \in AdminsOf(o)}
     IN Goes(q, [req[q] EXCEPT !.pc = "selfCount", !.stale = FALSE,
                   !.data = [alone  |-> {o \in own : Cardinality(MembersOf(o)) <= 1},
                             shared |-> {o \in own : Cardinality(MembersOf(o)) > 1}]])
  /\ UNCHANGED <<account, orgs, lastOrg, members, invites, requests, breaks,
                 fresh, overruled, gone>>

OtherAdmins(u, o) == AdminsOf(o) \ {u}

SelfCount(q) ==
  /\ At(q, "selfCount")
  /\ IF \E o \in req[q].data.shared : OtherAdmins(req[q].user, o) = {}
     THEN Ends(q) ELSE GoesTo(q, "selfTx")
  /\ UNCHANGED <<account, orgs, lastOrg, members, invites, requests, breaks,
                 fresh, overruled, gone>>

SelfDelete(q) ==
  /\ At(q, "selfTx")
  /\ IF req[q].user \in Accounts /\ req[q].data.alone \subseteq orgs
     THEN Deletes(q, req[q].user, req[q].data.alone)
     ELSE Ends(q) /\ UNCHANGED <<account, orgs, members, invites, fresh, overruled, gone>>
  /\ UNCHANGED <<lastOrg, requests, breaks>>

\* A query fails, a slug is taken or the process restarts.
Breaks(q) ==
  /\ ~At(q, "idle") /\ breaks < MaxBreaks /\ breaks' = breaks + 1
  /\ Ends(q)
  /\ UNCHANGED <<account, orgs, lastOrg, members, invites, requests, fresh,
                 overruled, gone>>

-----------------------------------------------------------------------------
WorkspacesInit ==
  /\ \E s \in Seeds :
       /\ account = s.account /\ orgs = s.orgs /\ lastOrg = s.lastOrg
       /\ members = s.members /\ invites = s.invites
  /\ req = [q \in Requests |-> Idle]
  /\ requests = 0 /\ breaks = 0
  /\ fresh = {} /\ overruled = {} /\ gone = {}

WorkspacesNext ==
  \/ \E u \in Users : Heal(u)
  \/ \E q \in Requests :
       \/ \E u \in Users :
            \/ RegisterStart(q, u) \/ CreateOrg(q, u) \/ DeleteOrgStart(q, u)
            \/ DeleteSelf(q, u)
            \/ \E o \in Orgs : SwitchOrg(q, u, o)
            \/ \E a \in Users, role \in Roles :
                 \/ InviteStart(q, a, u, role)
                 \/ AdminStart(q, a, u, "setRole", role)
            \/ \E a \in Users : AdminStart(q, a, u, "remove", "EDITOR")
       \/ \E i \in Invites : AcceptInvite(q, i) \/ InviteCreate(q, i)
       \/ RegisterCount(q) \/ Found(q) \/ JoinFirst(q) \/ CreateUser(q) \/ Join(q)
       \/ DefaultServer(q) \/ InviteCheck(q) \/ FindInvited(q) \/ CheckMember(q)
       \/ VerifyInvited(q) \/ MarkUsed(q) \/ SwitchRead(q) \/ SwitchWrite(q)
       \/ DeleteOrgCheck(q) \/ DeleteOrgRead(q) \/ DeleteOrg(q)
       \/ UpdateRole(q) \/ RemoveFind(q) \/ Remove(q)
       \/ SelfRead(q) \/ SelfCount(q) \/ SelfDelete(q) \/ Breaks(q)
  \/ \E i \in Invites : InviteExpires(i) \/ \E a \in Users : Revoke(a, i)

WorkspacesSpec == WorkspacesInit /\ [][WorkspacesNext]_workspacesVars

-----------------------------------------------------------------------------
(* Properties.                                                             *)

\* Every variable has its type; an organization is never in the table of
\* memberships or of invitations after it is gone, and nobody is twice a member.
WorkspacesTypeOK ==
  /\ orgs \subseteq 1..lastOrg /\ lastOrg \in 0..MaxOrgs
  /\ \A u \in Accounts :
       account[u] \in [org : orgs \union {NoOrg}, role : Roles,
                       verified : BOOLEAN, server : orgs \union {NoOrg}]
  /\ \A k \in DOMAIN members : members[k] # Left =>
       /\ members[k].user \in Accounts /\ members[k].org \in orgs
       /\ \A j \in DOMAIN members \ {k} :
            members[j].user # members[k].user \/ members[j].org # members[k].org
  /\ \A i \in Invites :
       invites[i] # NoInvite => invites[i].state = "deleted" \/ invites[i].org \in orgs
  /\ requests \in 0..MaxRequests /\ breaks \in 0..MaxBreaks

\* The cached organization and role of a user tell a membership, through
\* switches, deletions of organizations and the healing at the next request.
\* The exceptions are an account whose creation stopped before the membership,
\* and a role set by an admin.
ActiveOrgIsJoined ==
  \A u \in Accounts \ fresh :
    LET o == account[u].org
    IN o # NoOrg =>
         /\ Joined(u, o)
         /\ u \notin overruled => account[u].role = members[RoleIn(u, o)].role

\* An invitation that is marked used has done its work: the address is a member
\* of the organization with the invited role; and where the acceptance that marks
\* it is the one that made the account, this is verified and has a default server.
\* The account of an acceptance that stopped, or was overtaken by another one, is
\* an existing account to the acceptance that marks: that one joins it, and leaves
\* it unverified and without a server.
UsedInviteJoined ==
  \A i \in Invites :
    LET t == invites[i]
    IN t # NoInvite =>
         (t.state = "used" /\ t.email \notin gone =>
            /\ Joined(t.email, t.org) /\ members[RoleIn(t.email, t.org)].role = t.role
            /\ t.created => account[t.email].verified /\ account[t.email].server # NoOrg)

\* "You are the only admin of these organizations": a user who deletes itself
\* does not leave an organization with members and without an admin, unless the
\* memberships changed after they were counted.
SelfDeletionLeavesAdmin ==
  [][\A q \in Requests :
       /\ At(q, "selfTx") /\ ~req[q].stale
       /\ account[req[q].user] # NoUser /\ account'[req[q].user] = NoUser
       => \A o \in orgs' : AdminsOf(o) # {} /\ MembersOf(o)' # {} => AdminsOf(o)' # {}
    ]_workspacesVars
=============================================================================
