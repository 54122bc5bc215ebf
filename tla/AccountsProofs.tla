--------------------------- MODULE AccountsProofs ---------------------------
(***************************************************************************)
(* What the parts of MCAccounts keep for any number of users,              *)
(* organizations, tokens, codes, skills, licenses and overlapping          *)
(* requests, and the theorems of the composition.  Each part has its own   *)
(* inductive invariant:                                                    *)
(*                                                                         *)
(*   workspaces  What every request has established by the place it is at: *)
(*             who accepts an invitation holds what the invitation says    *)
(*             (Bound), from its join on the membership is there as long   *)
(*             as user and organization are (HasJoined), one request at    *)
(*             most has made an account (Created, OneCreator), who deletes *)
(*             an organization sends its users to memberships they have    *)
(*             (Moving), and who deletes itself knows its organizations    *)
(*             as they are unless the memberships changed (Counted).  The  *)
(*             proof of a step says what it takes from users and requests  *)
(*             that do not make it (Moves), and StepKept gives the         *)
(*             invariant from that and from the request that does.         *)
(*   codes     Who finds an authorization code may have been overtaken;    *)
(*             who deletes its row has not, and alone grants tokens for it *)
(*             (GrantHolds), and a code drawn once is not drawn again.     *)
(*   mail      A reset link is marked after the password is written: it    *)
(*             works once for who has the link to itself (AloneHasLink),   *)
(*             and one code is live unless two sends crossed (OneSend).    *)
(*   skills    What an active skill says has a source (ActiveHasSource),   *)
(*             and a merge is asked for and answered only in scopes with   *)
(*             something approved (MergesOfApproved).                      *)
(*   licenses  While the answers of the license server about a key are in  *)
(*             order one request at most speaks of it (OneSpeaks), holds   *)
(*             the last answer (HoldsAnswer), and the row tells that one   *)
(*             unless it is about to be written (RowTold).                 *)
(***************************************************************************)
EXTENDS MCAccounts, FiniteSetTheorems, SequenceTheorems, WellFoundedInduction, TLAPS

(* Workspaces.                                                             *)

\* What a request holds.
Places == {"idle", "count", "found", "first", "create", "join", "server", "inviteCheck",
          "inviteCreate", "find", "checkMember", "verify", "mark", "switchRead",
          "switchWrite", "deleteCheck", "deleteRead", "deleteOrg", "setRole", "remove",
          "removeTx", "selfRead", "selfCount", "selfTx"}
Datas == {{}} \union [alone : SUBSET Orgs, shared : SUBSET Orgs]
         \union UNION {[D -> Membership \union {NoOrg}] : D \in SUBSET Users}
ReqType == [pc : Places, user : Users \union {NoUser}, org : Orgs \union {NoOrg},
            role : Roles, inv : Invites \union {NoInvite},
            next : {"idle", "server", "verify", "switchRead"}, data : Datas, stale : BOOLEAN]

\* u is a member of o in role r.
Memb(u, o, r) ==
  \E k \in DOMAIN members : members[k].user = u /\ members[k].org = o /\ members[k].role = r

TablesOk ==
  /\ lastOrg \in 0..MaxOrgs /\ orgs \subseteq 1..lastOrg
  /\ account \in [Users -> Account \union {NoUser}]
  /\ \A u \in Accounts : {account[u].org, account[u].server} \subseteq orgs \union {NoOrg}
  /\ invites \in [Invites -> Invitation \union {NoInvite}]
  /\ \A i \in Invites : invites[i] # NoInvite =>
       /\ invites[i].org \in 1..lastOrg
       /\ invites[i].state = "deleted" \/ invites[i].org \in orgs
  /\ requests \in 0..MaxRequests /\ breaks \in 0..MaxBreaks
  /\ gone \intersect Accounts = {}

MembersOk ==
  /\ members \in Seq(Membership \union {Left})
  /\ \A k \in DOMAIN members : members[k].user # NoUser =>
       /\ members[k].user \in Accounts /\ members[k].org \in orgs
       /\ \A j \in DOMAIN members :
            members[j].user = members[k].user /\ members[j].org = members[k].org => j = k

\* The active organization is one of the memberships, in the role that membership
\* has; or, while the account is being made, the one it is about to join.
ActiveOk(u) ==
  \/ account[u].org = NoOrg
  \/ \E r \in Roles : Memb(u, account[u].org, r) /\ (u \notin overruled => account[u].role = r)
Home(u, o, r) == account[u].org = o /\ (u \notin overruled => account[u].role = r)

ActivesOk == \A u \in Accounts \ fresh : ActiveOk(u)

\* What an invitation that is used has done.
UsedOne(i) ==
  LET t == invites[i]
  IN t # NoInvite /\ t.state = "used" /\ t.email \notin gone =>
       /\ Memb(t.email, t.org, t.role)
       /\ t.created => account[t.email].verified /\ account[t.email].server = t.org
UsedOk == \A i \in Invites : UsedOne(i)

\* Where a request comes from, by where it is.
Control(q) ==
  LET r == req[q]
  IN /\ r.pc # "idle" => r.user \in Users
     /\ r.inv # NoInvite => r.pc \in {"find", "checkMember", "create", "join", "verify",
                                      "server", "mark", "switchRead", "switchWrite"}
     /\ r.pc \in {"find", "checkMember", "verify", "mark"} \/ r.next = "verify"
        => r.inv # NoInvite
     /\ r.pc = "verify" => r.next = "verify"
     /\ r.pc \in {"count", "first"} => r.next = "server"
     /\ r.pc = "found" => r.next \in {"idle", "server"}
     /\ r.pc \in {"create", "server"} => r.next \in {"server", "verify"}
     /\ r.pc = "checkMember" => r.next = "switchRead"
     /\ r.pc \in {"switchRead", "switchWrite"} => r.next \in {"idle", "switchRead"}
     /\ r.pc # "switchRead" \/ r.inv # NoInvite => r.org \in (1..lastOrg) \union {NoOrg}

\* A request that accepts an invitation holds what the invitation says.
Bound(q) ==
  LET r == req[q]
  IN r.inv # NoInvite =>
       /\ invites[r.inv] # NoInvite /\ invites[r.inv].email = r.user
       /\ invites[r.inv].org = r.org /\ invites[r.inv].role = r.role

\* Its membership has been read or made, and lasts as long as its user and organization.
Lasts(u, o, r) == u \notin gone /\ o \in orgs => Memb(u, o, r)
HasJoined(q) ==
  LET r == req[q]
  IN r.pc \in {"verify", "server", "mark", "switchWrite"} \/ (r.pc = "switchRead" /\ r.inv # NoInvite)
     => Lasts(r.user, r.org, r.role)

\* The request that made an account: nobody else gives it its default server.
Creator(q) ==
  req[q].next \in {"server", "verify"} /\ req[q].pc \in {"join", "verify", "server", "mark"}
Created(q) ==
  LET r == req[q]
  IN Creator(q) =>
       /\ r.user \in Accounts \union gone
       /\ r.user \in Accounts =>
            /\ r.pc # "mark" => account[r.user].server = NoOrg
            /\ r.next = "verify" /\ r.pc \in {"server", "mark"} => account[r.user].verified
            /\ r.org \in orgs =>
                 /\ r.next = "verify" /\ r.pc = "mark" => account[r.user].server = r.org
                 /\ r.pc = "join" => ActiveOk(r.user) \/ Home(r.user, r.org, r.role)

\* Where the members of an organization that is being deleted go.
Moving(q) ==
  LET r == req[q]
  IN r.pc = "deleteOrg" =>
       /\ r.data \in UNION {[D -> Membership \union {NoOrg}] : D \in SUBSET Users}
       /\ r.user \in DOMAIN r.data
       /\ \A v \in DOMAIN r.data : r.data[v] # NoOrg =>
            /\ r.data[v].user = v /\ r.data[v].org # r.org /\ r.data[v].org <= lastOrg
            /\ Lasts(v, r.data[v].org, r.data[v].role)

\* The memberships have not changed since a user that deletes itself read them:
\* it is alone in an organization it is admin of, or the organization is counted.
Counted(q) ==
  LET r == req[q]
  IN ~r.stale =>
       /\ r.pc = "selfCount" => \A o \in Orgs :
            r.user \in AdminsOf(o) => MembersOf(o) = {r.user} \/ o \in r.data.shared
       /\ r.pc = "selfTx" => \A o \in Orgs :
            r.user \in AdminsOf(o) => MembersOf(o) = {r.user} \/ AdminsOf(o) \ {r.user} # {}

ReqOk(q) == Control(q) /\ Bound(q) /\ HasJoined(q) /\ Created(q) /\ Moving(q)

OneCreator ==
  \A p, q \in Requests : Creator(p) /\ Creator(q) /\ req[p].user = req[q].user => p = q

ReqsOk ==
  /\ req \in [Requests -> ReqType]
  /\ \A q \in Requests : ReqOk(q) /\ Counted(q)
  /\ OneCreator

WorkspacesInv == TablesOk /\ MembersOk /\ ActivesOk /\ UsedOk /\ ReqsOk

-----------------------------------------------------------------------------
\* Some naturals have a least one.
LEMMA LeastNatural ==
  ASSUME NEW T \in SUBSET Nat, T # {}
  PROVE  \E x \in T : \A y \in T : x <= y
<1>1. PICK x \in T : \A y \in T : <<y, x>> \notin OpToRel(<, Nat)
  <2> DEFINE R == OpToRel(<, Nat)
  <2>1. IsWellFoundedOn(R, Nat)
    BY NatLessThanWellFounded, Zenon
  <2> HIDE DEF R
  <2>2. \E x \in T : \A y \in T : <<y, x>> \notin R
    BY <2>1, WFMin
  <2> QED BY <2>2, Zenon DEF R
<1>2. \A y \in T : ~ (y < x)
  BY <1>1, Zenon DEF OpToRel
<1> QED BY <1>2

\* What the rows of memberships say.
LEMMA MemberRow ==
  ASSUME MembersOk, NEW k \in DOMAIN members, members[k].user # NoUser
  PROVE  members[k] \in Membership
<1>1. members[k] \in Membership \union {Left}
  BY DEF MembersOk
<1> QED BY <1>1 DEF Left

\* A row without a user is an empty one.
LEMMA LeftRow ==
  ASSUME MembersOk, NEW k \in DOMAIN members
  PROVE  members[k].user = NoUser <=> members[k] = Left
<1>1. members[k] \in Membership \union {Left}
  BY DEF MembersOk
<1> QED BY <1>1, WorkspacesAssumption DEF Left, Membership

\* A member is a user that is there, in an organization that is there, in one role.
LEMMA MembFacts ==
  ASSUME MembersOk, NEW u \in Users, NEW o, NEW r, Memb(u, o, r)
  PROVE  /\ u \in Accounts /\ o \in orgs /\ o \in Orgs /\ r \in Roles
         /\ \A s : Memb(u, o, s) => s = r
         /\ members[RoleIn(u, o)].role = r
<1>1. PICK k \in DOMAIN members : members[k].user = u /\ members[k].org = o /\ members[k].role = r
  BY DEF Memb
<1>2. u # NoUser
  BY WorkspacesAssumption
<1>3. members[k] \in Membership
  BY <1>1, <1>2, MemberRow
<1>4. u \in Accounts /\ o \in orgs
  BY <1>1, <1>2 DEF MembersOk
<1>5. \A j \in DOMAIN members : members[j].user = u /\ members[j].org = o => j = k
  BY <1>1, <1>2 DEF MembersOk
<1>6. RoleIn(u, o) = k
  BY <1>1, <1>5 DEF RoleIn
<1>7. o \in Orgs /\ r \in Roles
  BY <1>1, <1>3 DEF Membership
<1> QED BY <1>1, <1>4, <1>5, <1>6, <1>7 DEF Memb

\* Who is joined, or an admin, in terms of Memb.
LEMMA JoinedIs ==
  ASSUME MembersOk, NEW u \in Users, NEW o
  PROVE  /\ Joined(u, o) <=> \E r \in Roles : Memb(u, o, r)
         /\ u \in AdminsOf(o) <=> Memb(u, o, "ADMIN")
<1>1. u # NoUser
  BY WorkspacesAssumption
<1>2. ASSUME NEW k \in DOMAIN members, members[k].user = u
      PROVE  members[k].role \in Roles
  <2>1. members[k] \in Membership
    BY <1>1, <1>2, MemberRow
  <2> QED BY <2>1 DEF Membership
<1>3. Joined(u, o) <=> \E k \in DOMAIN members : members[k].user = u /\ members[k].org = o
  BY DEF Joined, MembersOf
<1>4. u \in AdminsOf(o) <=> \E k \in DOMAIN members :
        members[k].user = u /\ members[k].org = o /\ members[k].role = "ADMIN"
  BY DEF AdminsOf
<1> QED BY <1>2, <1>3, <1>4 DEF Memb

\* The oldest of some rows is one of them.
LEMMA FirstIs ==
  ASSUME MembersOk, NEW K \in SUBSET DOMAIN members, K # {}
  PROVE  \E k \in K : First(K) = members[k]
<1>1. K \in SUBSET Nat
  BY DEF MembersOk
<1>2. \E k \in K : \A j \in K : k <= j
  BY <1>1, LeastNatural
<1> DEFINE k == CHOOSE k \in K : \A j \in K : k <= j
<1>3. k \in K
  BY <1>2
<1> QED BY <1>3 DEF First

\* What is found when the other memberships of a user are looked up.
LEMMA OldestIs ==
  ASSUME MembersOk, NEW u \in Users, NEW o
  PROVE  /\ OthersOf(u, o) # {} => LET m == First(OthersOf(u, o))
              IN /\ m \in Membership /\ m.user = u /\ m.org # o
                 /\ Memb(u, m.org, m.role)
         /\ Oldest(OthersOf(u, o)) \in Membership \union {NoOrg}
<1> DEFINE K == OthersOf(u, o)
           m == First(K)
<1>1. CASE K # {}
  <2>1. K \in SUBSET DOMAIN members
    BY DEF OthersOf
  <2>2. PICK k \in K : m = members[k]
    <3> HIDE DEF K
    <3> QED BY <1>1, <2>1, FirstIs
  <2>3. k \in DOMAIN members /\ members[k].user = u /\ members[k].org # o
    BY DEF OthersOf
  <2>4. members[k] \in Membership
    BY <2>3, MemberRow, WorkspacesAssumption
  <2>5. Memb(u, m.org, m.role)
    BY <2>2, <2>3 DEF Memb
  <2> HIDE DEF m, K
  <2>6. Oldest(K) = m
    BY <1>1 DEF Oldest, m
  <2> QED BY <2>2, <2>3, <2>4, <2>5, <2>6 DEF m, K
<1>2. CASE K = {}
  BY <1>2 DEF Oldest
<1> QED BY <1>1, <1>2

-----------------------------------------------------------------------------
\* What every step leaves to a user that stays, but those of S may get their
\* default server.
UserKept(u) ==
  /\ account[u].verified => account'[u].verified
  /\ account[u].server \in orgs' => account'[u].server = account[u].server
  /\ ActiveOk(u) => ActiveOk(u)'
  /\ \A o \in orgs', r \in Roles : Home(u, o, r) => ActiveOk(u)' \/ Home(u, o, r)'

Moves(S) ==
  /\ lastOrg <= lastOrg' /\ orgs' \intersect (1..lastOrg) \subseteq orgs
  /\ gone \subseteq gone' /\ Accounts \ Accounts' \subseteq gone'
  /\ \A u \in Users, o \in orgs', r \in Roles : u \notin gone' /\ Memb(u, o, r) => Memb(u, o, r)'
  /\ \A i \in Invites : invites[i] # NoInvite =>
       /\ invites'[i] # NoInvite /\ invites'[i].email = invites[i].email
       /\ invites'[i].org = invites[i].org /\ invites'[i].role = invites[i].role
  /\ \A u \in Accounts \intersect Accounts' :
       UserKept(u) /\ (u \notin S /\ account[u].server = NoOrg => account'[u].server = NoOrg)

\* A request that does not take this step holds what it held.
Waits(q) ==
  LET r == req[q]
      s == req'[q]
  IN /\ s.pc = r.pc /\ s.user = r.user /\ s.org = r.org /\ s.role = r.role
     /\ s.inv = r.inv /\ s.next = r.next /\ s.data = r.data

\* A membership lasts as long as its user and its organization.
LEMMA MembKept ==
  ASSUME MembersOk, NEW S, Moves(S), NEW u \in Users, NEW o \in 1..lastOrg, NEW r, lastOrg \in Nat,
         Lasts(u, o, r)
  PROVE  Lasts(u, o, r)'
<1> SUFFICES ASSUME u \notin gone', o \in orgs' PROVE Memb(u, o, r)'
  BY DEF Lasts
<1>1. u \notin gone /\ o \in orgs
  BY DEF Moves
<1>2. Memb(u, o, r)
  BY <1>1 DEF Lasts
<1>3. r \in Roles
  BY <1>2, MembFacts
<1> QED BY <1>2, <1>3 DEF Moves

\* A request that waits keeps what the invariant says of it.
LEMMA ReqKept ==
  ASSUME WorkspacesInv, NEW S, Moves(S), TablesOk', NEW q \in Requests, Waits(q),
         Creator(q) => req[q].user \notin S
  PROVE  ReqOk(q)'
<1>r. PICK r : r = req[q]
  OBVIOUS
<1>0. /\ req'[q].pc = r.pc /\ req'[q].user = r.user /\ req'[q].org = r.org
      /\ req'[q].role = r.role /\ req'[q].inv = r.inv /\ req'[q].next = r.next
      /\ req'[q].data = r.data
  BY <1>r DEF Waits
<1>1. /\ r \in ReqType /\ Control(q) /\ Bound(q) /\ HasJoined(q) /\ Created(q) /\ Moving(q)
      /\ lastOrg \in Nat /\ lastOrg' \in Nat /\ MembersOk
      /\ gone \intersect Accounts = {} /\ gone' \intersect Accounts' = {}
      /\ lastOrg <= lastOrg'
  BY <1>r, WorkspacesAssumption DEF WorkspacesInv, ReqsOk, ReqOk, TablesOk, Moves
<1>2. /\ r.pc \in Places /\ r.user \in Users \union {NoUser} /\ r.org \in Orgs \union {NoOrg}
      /\ r.role \in Roles /\ r.inv \in Invites \union {NoInvite}
  BY <1>1 DEF ReqType
<1>3. Control(q)'
  <2>1. r.org \in (1..lastOrg) \union {NoOrg} => r.org \in (1..lastOrg') \union {NoOrg}
    BY <1>1
  <2> QED BY <1>r, <1>0, <1>1, <2>1 DEF Control
<1>4. Bound(q)'
  BY <1>r, <1>0, <1>1, <1>2 DEF Bound, Moves
<1>n. NoOrg \notin orgs'
  <2>1. orgs' \subseteq Orgs
    BY WorkspacesAssumption DEF TablesOk, Orgs
  <2> QED BY <2>1, WorkspacesAssumption
<1>l. \A u \in Users, o \in (1..lastOrg) \union {NoOrg} : \A x : Lasts(u, o, x) => Lasts(u, o, x)'
  <2>1. ASSUME NEW u \in Users, NEW o \in 1..lastOrg, NEW x, Lasts(u, o, x) PROVE Lasts(u, o, x)'
    BY <1>1, <2>1, MembKept
  <2> QED BY <2>1, <1>n DEF Lasts
<1>5. HasJoined(q)'
  <2> SUFFICES ASSUME r.pc \in {"verify", "server", "mark", "switchWrite"}
                      \/ (r.pc = "switchRead" /\ r.inv # NoInvite)
               PROVE  Lasts(r.user, r.org, r.role)'
    BY <1>0 DEF HasJoined, Lasts, Memb
  <2>1. Lasts(r.user, r.org, r.role) /\ r.user \in Users /\ r.org \in (1..lastOrg) \union {NoOrg}
    BY <1>r, <1>1 DEF HasJoined, Control
  <2> QED BY <1>l, <2>1
<1>6. Created(q)'
  <2> SUFFICES ASSUME Creator(q)
               PROVE  Created(q)'
    BY <1>r, <1>0 DEF Created, Creator
  <2>1. /\ r.user \in Users /\ r.user \in Accounts \union gone
        /\ r.org \in (1..lastOrg) \union {NoOrg} /\ r.user \notin S
    BY <1>r, <1>1 DEF Creator, Control, Created
  <2>2. r.user \in Accounts' \union gone'
    BY <2>1 DEF Moves
  <2>3. CASE r.user \notin Accounts'
    BY <1>0, <2>2, <2>3 DEF Created
  <2>4. CASE r.user \in Accounts'
    <3>1. r.user \in Accounts
      BY <1>1, <2>1, <2>4 DEF Moves
    <3>2. /\ UserKept(r.user)
          /\ account[r.user].server = NoOrg => account'[r.user].server = NoOrg
      BY <2>1, <2>4, <3>1 DEF Moves
    <3>3. r.org \in orgs' => r.org \in orgs
      BY <1>n, <2>1 DEF Moves
    <3>4. r.pc = "join" /\ r.org \in orgs' => ActiveOk(r.user)' \/ Home(r.user, r.org, r.role)'
      BY <1>r, <1>1, <1>2, <3>1, <3>2, <3>3 DEF Created, UserKept
    <3>5. /\ r.pc # "mark" => account'[r.user].server = NoOrg
          /\ r.next = "verify" /\ r.pc \in {"server", "mark"} => account'[r.user].verified
          /\ r.org \in orgs' /\ r.next = "verify" /\ r.pc = "mark" => account'[r.user].server = r.org
      BY <1>r, <1>1, <3>1, <3>2, <3>3 DEF Created, UserKept
    <3> QED BY <1>0, <2>2, <3>4, <3>5 DEF Created, ActiveOk, Home, Memb
  <2> QED BY <2>3, <2>4
<1>7. Moving(q)'
  <2> SUFFICES ASSUME r.pc = "deleteOrg" PROVE Moving(q)'
    BY <1>0 DEF Moving
  <2>1. /\ r.data \in UNION {[D -> Membership \union {NoOrg}] : D \in SUBSET Users}
        /\ r.user \in DOMAIN r.data
    BY <1>r, <1>1 DEF Moving
  <2>2. ASSUME NEW v \in DOMAIN r.data, r.data[v] # NoOrg
        PROVE  /\ r.data[v].user = v /\ r.data[v].org # r.org /\ r.data[v].org <= lastOrg'
               /\ Lasts(v, r.data[v].org, r.data[v].role)'
    <3>1. v \in Users /\ r.data[v] \in Membership
      BY <2>1, <2>2
    <3>2. r.data[v].org \in Nat /\ 1 <= r.data[v].org
      BY <3>1 DEF Membership, Orgs
    <3>3. /\ r.data[v].user = v /\ r.data[v].org # r.org /\ r.data[v].org <= lastOrg
          /\ Lasts(v, r.data[v].org, r.data[v].role)
      BY <1>r, <1>1, <2>2 DEF Moving
    <3> QED BY <1>1, <1>l, <3>1, <3>2, <3>3
  <2> QED BY <1>0, <2>1, <2>2 DEF Moving, Lasts, Memb
<1> QED BY <1>3, <1>4, <1>5, <1>6, <1>7 DEF ReqOk

\* An invitation that was used stays true.
LEMMA UsedKept ==
  ASSUME WorkspacesInv, NEW S, Moves(S), TablesOk', NEW i \in Invites,
         invites'[i] # NoInvite /\ invites'[i].state = "used" =>
           /\ invites[i] # NoInvite /\ invites[i].state = "used"
           /\ invites'[i].created = invites[i].created
  PROVE  UsedOne(i)'
<1> SUFFICES ASSUME invites'[i] # NoInvite, invites'[i].state = "used",
                    invites'[i].email \notin gone'
             PROVE  UsedOne(i)'
  BY DEF UsedOne
<1>1. PICK t : t = invites[i]
  OBVIOUS
<1>2. /\ t # NoInvite /\ t.state = "used" /\ invites'[i].created = t.created
      /\ invites'[i].email = t.email /\ invites'[i].org = t.org /\ invites'[i].role = t.role
      /\ gone \subseteq gone' /\ Accounts \ Accounts' \subseteq gone'
  BY <1>1 DEF Moves
<1>3. t.email \in Users /\ t.org \in orgs' /\ t.role \in Roles
  BY <1>1, <1>2 DEF WorkspacesInv, TablesOk, Invitation
<1>4. /\ Memb(t.email, t.org, t.role)
      /\ t.created => account[t.email].verified /\ account[t.email].server = t.org
  BY <1>1, <1>2 DEF WorkspacesInv, UsedOk, UsedOne
<1>5. Memb(t.email, t.org, t.role)'
  BY <1>2, <1>3, <1>4 DEF Moves
<1>6. t.email \in Accounts /\ t.email \in Accounts'
  BY <1>2, <1>3, <1>4, MembFacts DEF WorkspacesInv
<1>7. UserKept(t.email)
  BY <1>6 DEF Moves
<1>8. t.created => account'[t.email].verified /\ account'[t.email].server = t.org
  BY <1>3, <1>4, <1>7 DEF UserKept
<1> QED BY <1>2, <1>5, <1>8 DEF UsedOne, Memb

\* The invariant after a step, in which only a user that is gone loses its account.
InvKept == WorkspacesInv' /\ Accounts \ Accounts' \subseteq gone'

\* What a step has to say, besides where it leaves the tables and its request.
LEMMA StepKept ==
  ASSUME WorkspacesInv, NEW S, Moves(S), TablesOk', MembersOk', req' \in [Requests -> ReqType],
         \A u \in Accounts' \ fresh' : u \in Accounts \ fresh \/ ActiveOk(u)',
         \A i \in Invites :
           \/ UsedOne(i)'
           \/ invites'[i] # NoInvite /\ invites'[i].state = "used" =>
                /\ invites[i] # NoInvite /\ invites[i].state = "used"
                /\ invites'[i].created = invites[i].created,
         \A q \in Requests :
           /\ ReqOk(q)' \/ (Waits(q) /\ (Creator(q) => req[q].user \notin S))
           /\ Counted(q)',
         OneCreator'
  PROVE  InvKept
<1>1. \A q \in Requests : ReqOk(q)'
  BY ReqKept
<1>2. UsedOk'
  BY UsedKept DEF UsedOk
<1>3. ActivesOk'
  <2> SUFFICES ASSUME NEW u \in Accounts' \ fresh' PROVE ActiveOk(u)'
    BY DEF ActivesOk
  <2>1. CASE u \in Accounts \ fresh
    BY <2>1 DEF WorkspacesInv, ActivesOk, Moves, UserKept
  <2> QED BY <2>1
<1>4. Accounts \ Accounts' \subseteq gone'
  BY DEF Moves
<1> QED BY <1>1, <1>2, <1>3, <1>4 DEF WorkspacesInv, InvKept, ReqsOk

\* One request moves and stays, or becomes, the only one that made its account.
LEMMA CreatorKept ==
  ASSUME WorkspacesInv, NEW q \in Requests,
         \A p \in Requests \ {q} : Waits(p),
         Creator(q)' => \A p \in Requests \ {q} : Creator(p) => req[p].user # req'[q].user
  PROVE  OneCreator'
<1>1. \A p \in Requests \ {q} : (Creator(p)' <=> Creator(p)) /\ req'[p].user = req[p].user
  BY DEF Creator, Waits
<1>2. OneCreator
  BY DEF WorkspacesInv, ReqsOk
<1> QED BY <1>1, <1>2 DEF OneCreator

-----------------------------------------------------------------------------
(* Steps of one request that leave the tables alone.                       *)

Quiet == UNCHANGED <<account, orgs, lastOrg, members, invites, fresh, overruled, gone>>

\* Such a step takes nothing from anybody.
LEMMA QuietMoves == ASSUME WorkspacesInv, Quiet PROVE Moves({})
<1>1. Accounts' = Accounts /\ lastOrg \in Nat
  BY WorkspacesAssumption DEF Quiet, Accounts, WorkspacesInv, TablesOk
<1>2. \A u \in Users : UserKept(u)
  BY DEF Quiet, UserKept, ActiveOk, Home, Memb
<1> QED BY <1>1, <1>2 DEF Quiet, Moves, Memb, Accounts

\* Such a step leaves the tables as they are.
LEMMA QuietTables ==
  ASSUME WorkspacesInv, Quiet, requests' \in 0..MaxRequests, breaks' \in 0..MaxBreaks
  PROVE  TablesOk' /\ MembersOk'
<1>1. Accounts' = Accounts
  BY DEF Quiet, Accounts
<1> QED BY <1>1 DEF Quiet, WorkspacesInv, TablesOk, MembersOk

\* What a user that deletes itself has read is true while the memberships stay.
LEMMA CountedKept ==
  ASSUME NEW p, Waits(p), req'[p].stale = req[p].stale, members' = members, Counted(p)
  PROVE  Counted(p)'
<1>1. \A o : AdminsOf(o)' = AdminsOf(o) /\ MembersOf(o)' = MembersOf(o)
  BY DEF AdminsOf, MembersOf
<1> QED BY <1>1 DEF Counted, Waits

\* A step of request q, which holds r after it.
LEMMA QuietStep ==
  ASSUME WorkspacesInv, Quiet, requests' \in 0..MaxRequests, breaks' \in 0..MaxBreaks,
         NEW q \in Requests, NEW r \in ReqType, req' = [req EXCEPT ![q] = r],
         ReqOk(q)', Counted(q)', Creator(q)' => Creator(q) /\ r.user = req[q].user
  PROVE  InvKept
<1>1. /\ req \in [Requests -> ReqType] /\ OneCreator
      /\ \A p \in Requests : Counted(p)
  BY DEF WorkspacesInv, ReqsOk
<1>2. req' \in [Requests -> ReqType] /\ req'[q] = r
      /\ \A p \in Requests \ {q} : req'[p] = req[p]
  BY <1>1
<1>3. \A p \in Requests \ {q} : Waits(p) /\ Counted(p)'
  <2> TAKE p \in Requests \ {q}
  <2>1. Waits(p) /\ req'[p].stale = req[p].stale
    BY <1>2 DEF Waits
  <2> QED BY <1>1, <2>1, CountedKept DEF Quiet
<1>4. OneCreator'
  <2>1. Creator(q)' => \A p \in Requests \ {q} : Creator(p) => req[p].user # req'[q].user
    BY <1>1, <1>2 DEF OneCreator
  <2> QED BY <1>3, <2>1, CreatorKept
<1>5. \A u \in Accounts' \ fresh' : u \in Accounts \ fresh
  BY DEF Quiet, Accounts
<1>6. invites' = invites
  BY DEF Quiet
<1>7. Moves({}) /\ TablesOk' /\ MembersOk'
  BY QuietMoves, QuietTables
<1>8. \A p \in Requests :
        /\ ReqOk(p)' \/ (Waits(p) /\ (Creator(p) => req[p].user \notin {}))
        /\ Counted(p)'
  BY <1>3
<1> QED BY <1>2, <1>4, <1>5, <1>6, <1>7, <1>8, StepKept

\* A request that is over, or that holds nothing the invariant speaks of.
LEMMA IdleTyped == Idle \in ReqType
<1>1. {} \in Datas
  BY DEF Datas
<1> QED BY <1>1 DEF Idle, ReqType, Places, Roles

\* The invariant says nothing of a request that is over.
LEMMA IdleOk ==
  ASSUME NEW q, req'[q] = Idle, TRUE
  PROVE  ReqOk(q)' /\ Counted(q)' /\ ~Creator(q)'
<1>1. req'[q].pc = "idle" /\ req'[q].inv = NoInvite /\ req'[q].next = "idle"
      /\ req'[q].org = NoOrg
  BY DEF Idle
<1> QED BY <1>1 DEF ReqOk, Control, Bound, HasJoined, Created, Creator, Moving, Counted

Plain == {"inviteCheck", "inviteCreate", "deleteCheck", "deleteRead", "setRole", "remove",
          "removeTx", "selfRead", "count", "first", "found", "create", "switchRead"}

\* What such a request holds.
Holds(r, last) ==
  /\ r.pc \in Plain /\ r.user \in Users /\ r.inv = NoInvite /\ r.next # "verify"
  /\ r.pc \in {"count", "first", "create"} => r.next = "server"
  /\ r.pc = "found" => r.next \in {"idle", "server"}
  /\ r.pc = "switchRead" => r.next \in {"idle", "switchRead"}
  /\ r.pc = "switchRead" \/ r.org \in (1..last) \union {NoOrg}

\* The invariant says only this of such a request.
LEMMA PlainOk ==
  ASSUME NEW q, NEW r, req'[q] = r, Holds(r, lastOrg')
  PROVE  ReqOk(q)' /\ Counted(q)' /\ ~Creator(q)'
<1>1. Control(q)'
  BY DEF Holds, Plain, Control
<1>2. Bound(q)' /\ HasJoined(q)' /\ Created(q)' /\ Creator(q)' = FALSE
  BY DEF Holds, Plain, Bound, HasJoined, Created, Creator
<1>3. Moving(q)' /\ Counted(q)'
  BY DEF Holds, Plain, Moving, Counted
<1> QED BY <1>1, <1>2, <1>3 DEF ReqOk

\* A request ends.
LEMMA EndsStep ==
  ASSUME WorkspacesInv, Quiet, requests' \in 0..MaxRequests, breaks' \in 0..MaxBreaks,
         NEW q \in Requests, Ends(q)
  PROVE  InvKept
<1>1. req' = [req EXCEPT ![q] = Idle] /\ req \in [Requests -> ReqType]
  BY DEF Ends, Goes, WorkspacesInv, ReqsOk
<1>2. req'[q] = Idle
  BY <1>1
<1>3. ReqOk(q)' /\ Counted(q)' /\ ~Creator(q)'
  BY <1>2, IdleOk
<1> QED BY <1>1, <1>3, IdleTyped, QuietStep

\* A request goes to such a place.
LEMMA PlainStep ==
  ASSUME WorkspacesInv, Quiet, requests' \in 0..MaxRequests, breaks' \in 0..MaxBreaks,
         NEW q \in Requests, NEW r \in ReqType, req' = [req EXCEPT ![q] = r],
         Holds(r, lastOrg)
  PROVE  InvKept
<1>1. req'[q] = r /\ lastOrg' = lastOrg
  BY DEF WorkspacesInv, ReqsOk, Quiet
<1>2. ReqOk(q)' /\ Counted(q)' /\ ~Creator(q)'
  BY <1>1, PlainOk
<1> QED BY <1>2, QuietStep

\* A request starts.
Begins(q, r) ==
  /\ req[q].pc = "idle" /\ req' = [req EXCEPT ![q] = r]
  /\ requests' \in 0..MaxRequests /\ breaks' = breaks

\* What Starts does.
LEMMA StartsIs ==
  ASSUME WorkspacesInv, NEW q, NEW r, Starts(q, r), breaks' = breaks
  PROVE  Begins(q, r) /\ breaks' \in 0..MaxBreaks
BY WorkspacesAssumption DEF Starts, Begins, At, Goes, WorkspacesInv, TablesOk

\* Organizations are organizations.
LEMMA OrgsAre == ASSUME WorkspacesInv PROVE orgs \subseteq Orgs /\ NoOrg \notin orgs
<1>1. orgs \subseteq Orgs
  BY WorkspacesAssumption DEF WorkspacesInv, TablesOk, Orgs
<1> QED BY <1>1, WorkspacesAssumption

\* The row of a user is typed, and its organization is one that was made.
LEMMA UserOrg ==
  ASSUME WorkspacesInv, NEW u \in Accounts
  PROVE  /\ u \in Users /\ account[u] \in Account
         /\ account[u].org \in (1..lastOrg) \union {NoOrg}
         /\ account[u].org \in Orgs \union {NoOrg}
         /\ account[u].server \in Orgs \union {NoOrg}
BY DEF WorkspacesInv, TablesOk, Accounts, Account

\* POST /auth/register starts.
LEMMA RegisterStarts ==
  ASSUME WorkspacesInv, NEW q \in Requests, NEW u \in Users, RegisterStart(q, u)
  PROVE  InvKept
<1> DEFINE r == [Idle EXCEPT !.pc = "count", !.user = u, !.next = "server"]
<1>1. r \in ReqType
  BY IdleTyped DEF ReqType, Places, Roles
<1>2. Holds(r, lastOrg)
  BY DEF Idle, Holds, Plain
<1>3. Begins(q, r) /\ breaks' \in 0..MaxBreaks /\ Quiet
  BY StartsIs DEF RegisterStart, Quiet
<1> HIDE DEF r
<1> QED BY <1>1, <1>2, <1>3, PlainStep DEF Begins

\* POST /organizations starts.
LEMMA CreateOrgStarts ==
  ASSUME WorkspacesInv, NEW q \in Requests, NEW u \in Users, CreateOrg(q, u)
  PROVE  InvKept
<1> DEFINE r == [Idle EXCEPT !.pc = "found", !.user = u, !.role = "ADMIN"]
<1>1. r \in ReqType
  BY IdleTyped DEF ReqType, Places, Roles
<1>2. Holds(r, lastOrg)
  BY DEF Idle, Holds, Plain
<1>3. Begins(q, r) /\ breaks' \in 0..MaxBreaks /\ Quiet
  BY StartsIs DEF CreateOrg, Quiet
<1> HIDE DEF r
<1> QED BY <1>1, <1>2, <1>3, PlainStep DEF Begins

\* POST /organizations/switch starts.
LEMMA SwitchStarts ==
  ASSUME WorkspacesInv, NEW q \in Requests, NEW u \in Users, NEW o \in Orgs, SwitchOrg(q, u, o)
  PROVE  InvKept
<1> DEFINE r == [Idle EXCEPT !.pc = "switchRead", !.user = u, !.org = o]
<1>1. r \in ReqType
  BY IdleTyped DEF ReqType, Places, Roles
<1>2. Holds(r, lastOrg)
  BY DEF Idle, Holds, Plain
<1>3. Begins(q, r) /\ breaks' \in 0..MaxBreaks /\ Quiet
  BY StartsIs DEF SwitchOrg, Quiet
<1> HIDE DEF r
<1> QED BY <1>1, <1>2, <1>3, PlainStep DEF Begins

\* DELETE /users/me starts.
LEMMA DeleteSelfStarts ==
  ASSUME WorkspacesInv, NEW q \in Requests, NEW u \in Users, DeleteSelf(q, u)
  PROVE  InvKept
<1> DEFINE r == [Idle EXCEPT !.pc = "selfRead", !.user = u]
<1>1. r \in ReqType
  BY IdleTyped DEF ReqType, Places, Roles
<1>2. Holds(r, lastOrg)
  BY DEF Idle, Holds, Plain
<1>3. Begins(q, r) /\ breaks' \in 0..MaxBreaks /\ Quiet
  BY StartsIs DEF DeleteSelf, Quiet
<1> HIDE DEF r
<1> QED BY <1>1, <1>2, <1>3, PlainStep DEF Begins

\* An admin invites, deletes its organization, removes a user or sets a role.
LEMMA AdminStarts ==
  ASSUME WorkspacesInv, NEW q \in Requests, NEW a \in Users, NEW u \in Users, NEW role \in Roles,
         \/ InviteStart(q, a, u, role) \/ DeleteOrgStart(q, a)
         \/ \E op \in {"setRole", "remove"} : AdminStart(q, a, u, op, role)
  PROVE  InvKept
<1>1. a \in Accounts
  BY DEF InviteStart, AdminStart, DeleteOrgStart, IsAdmin, Signed
<1>2. PICK o : o = account[a].org
  OBVIOUS
<1>3. o \in (1..lastOrg) \union {NoOrg} /\ o \in Orgs \union {NoOrg}
  BY <1>1, <1>2, UserOrg
<1>4. ASSUME NEW r \in ReqType, Holds(r, lastOrg), Starts(q, r), Quiet, breaks' = breaks
      PROVE  InvKept
  BY <1>4, StartsIs, PlainStep DEF Begins
<1>5. ASSUME NEW op \in {"inviteCheck", "setRole", "remove"}
      PROVE  LET r == [Idle EXCEPT !.pc = op, !.user = u, !.org = o, !.role = role]
             IN r \in ReqType /\ Holds(r, lastOrg)
  <2>1. [Idle EXCEPT !.pc = op, !.user = u, !.org = o, !.role = role] \in ReqType
    BY <1>3, IdleTyped DEF ReqType, Places
  <2>2. Holds([Idle EXCEPT !.pc = op, !.user = u, !.org = o, !.role = role], lastOrg)
    BY <1>3 DEF Idle, Holds, Plain
  <2> QED BY <2>1, <2>2
<1>6. CASE InviteStart(q, a, u, role)
  <2> DEFINE r == [Idle EXCEPT !.pc = "inviteCheck", !.user = u, !.role = role, !.org = o]
  <2>1. r \in ReqType
    BY <1>3, IdleTyped DEF ReqType, Places
  <2>2. Holds(r, lastOrg)
    BY <1>3 DEF Idle, Holds, Plain
  <2>3. Starts(q, r) /\ Quiet /\ breaks' = breaks
    BY <1>2, <1>6 DEF InviteStart, Quiet
  <2> HIDE DEF r
  <2> QED BY <1>4, <2>1, <2>2, <2>3
<1>7. ASSUME NEW op \in {"setRole", "remove"}, AdminStart(q, a, u, op, role) PROVE InvKept
  <2> DEFINE r == [Idle EXCEPT !.pc = op, !.user = u, !.org = o, !.role = role]
  <2>1. r \in ReqType /\ Holds(r, lastOrg)
    BY <1>5
  <2>2. Starts(q, r) /\ Quiet /\ breaks' = breaks
    BY <1>2, <1>7 DEF AdminStart, Quiet
  <2> HIDE DEF r
  <2> QED BY <1>4, <2>1, <2>2
<1>8. CASE DeleteOrgStart(q, a)
  <2> DEFINE r == [Idle EXCEPT !.pc = "deleteCheck", !.user = a, !.org = o]
  <2>1. r \in ReqType
    BY <1>3, IdleTyped DEF ReqType, Places
  <2>2. Holds(r, lastOrg)
    BY <1>3 DEF Idle, Holds, Plain
  <2>3. Starts(q, r) /\ Quiet /\ breaks' = breaks
    BY <1>2, <1>8 DEF DeleteOrgStart, Quiet
  <2> HIDE DEF r
  <2> QED BY <1>4, <2>1, <2>2, <2>3
<1> QED BY <1>6, <1>7, <1>8

\* A request goes on.
LEMMA ReqFacts ==
  ASSUME WorkspacesInv, NEW q \in Requests
  PROVE  /\ req \in [Requests -> ReqType] /\ req[q] \in ReqType
         /\ ReqOk(q) /\ Control(q) /\ Bound(q) /\ HasJoined(q) /\ Created(q) /\ Moving(q)
         /\ Counted(q) /\ requests \in 0..MaxRequests /\ breaks \in 0..MaxBreaks
BY DEF WorkspacesInv, ReqsOk, ReqOk, TablesOk

\* A request that only moves holds what it held.
LEMMA GoesTyped ==
  ASSUME NEW r \in ReqType, NEW pc \in Places
  PROVE  LET s == [r EXCEPT !.pc = pc]
         IN /\ s \in ReqType /\ s.pc = pc /\ s.user = r.user /\ s.org = r.org /\ s.role = r.role
            /\ s.inv = r.inv /\ s.next = r.next /\ s.data = r.data /\ s.stale = r.stale
BY DEF ReqType

\* From one plain place to another.
LEMMA PlainGoes ==
  ASSUME WorkspacesInv, NEW q \in Requests, Quiet, requests' = requests, breaks' = breaks,
         NEW pc \in Plain \ {"switchRead"}, GoesTo(q, pc),
         req[q].pc \in Plain \ {"switchRead", "create"},
         pc \in {"count", "first", "create"} => req[q].next = "server",
         pc = "found" => req[q].next \in {"idle", "server"}
  PROVE  InvKept
<1> DEFINE r == [req[q] EXCEPT !.pc = pc]
<1>1. req[q] \in ReqType /\ Control(q) /\ requests' \in 0..MaxRequests /\ breaks' \in 0..MaxBreaks
  BY ReqFacts
<1>2. pc \in Places
  BY DEF Plain, Places
<1>3. /\ r \in ReqType /\ r.pc = pc /\ r.user = req[q].user /\ r.org = req[q].org
      /\ r.inv = req[q].inv /\ r.next = req[q].next
  BY <1>1, <1>2, GoesTyped
<1> HIDE DEF r
<1>4. /\ req[q].user \in Users /\ req[q].inv = NoInvite
      /\ req[q].org \in (1..lastOrg) \union {NoOrg}
  BY <1>1 DEF Control, Plain
<1>6. Holds(r, lastOrg)
  BY <1>1, <1>3, <1>4 DEF Holds, Control
<1>7. req' = [req EXCEPT ![q] = r]
  BY DEF GoesTo, Goes, r
<1> QED BY <1>1, <1>3, <1>6, <1>7, PlainStep

\* Registration counts the users.
LEMMA RegisterCounts ==
  ASSUME WorkspacesInv, NEW q \in Requests, RegisterCount(q)
  PROVE  InvKept
<1>1. /\ req[q] \in ReqType /\ Control(q) /\ requests' \in 0..MaxRequests
      /\ breaks' \in 0..MaxBreaks /\ Quiet /\ req[q].pc = "count"
  BY ReqFacts DEF RegisterCount, Quiet, At
<1>2. CASE Ends(q)
  BY <1>1, <1>2, EndsStep
<1>3. ASSUME NEW pc \in {"found", "first"}, NEW role \in Roles,
             Goes(q, [req[q] EXCEPT !.pc = pc, !.role = role])
      PROVE  InvKept
  <2> DEFINE r == [req[q] EXCEPT !.pc = pc, !.role = role]
  <2>1. pc \in Places
    BY DEF Places
  <2>2. r \in ReqType
    BY <1>1, <2>1 DEF ReqType
  <2>3. /\ r.pc = pc /\ r.user = req[q].user /\ r.org = req[q].org
        /\ r.inv = req[q].inv /\ r.next = req[q].next
    BY <1>1 DEF ReqType
  <2>4. req' = [req EXCEPT ![q] = r]
    BY <1>3 DEF Goes
  <2> HIDE DEF r
  <2>5. /\ req[q].user \in Users /\ req[q].inv = NoInvite /\ req[q].next = "server"
        /\ req[q].org \in (1..lastOrg) \union {NoOrg}
    BY <1>1 DEF Control
  <2>6. Holds(r, lastOrg)
    BY <2>3, <2>5 DEF Holds, Plain
  <2> QED BY <1>1, <2>2, <2>4, <2>6, PlainStep
<1>4. "ADMIN" \in Roles /\ "EDITOR" \in Roles
  BY DEF Roles
<1>5. CASE Cloud \/ Accounts = {}
  BY <1>2, <1>3, <1>4, <1>5 DEF RegisterCount
<1>6. CASE ~(Cloud \/ Accounts = {})
  BY <1>2, <1>3, <1>4, <1>6 DEF RegisterCount
<1> QED BY <1>5, <1>6

\* Registration looks up the first organization.
LEMMA JoinsFirst ==
  ASSUME WorkspacesInv, NEW q \in Requests, JoinFirst(q)
  PROVE  InvKept
<1>1. /\ req[q] \in ReqType /\ Control(q) /\ requests' \in 0..MaxRequests
      /\ breaks' \in 0..MaxBreaks /\ Quiet /\ req[q].pc = "first"
  BY ReqFacts DEF JoinFirst, Quiet, At
<1>2. CASE orgs = {}
  BY <1>1, <1>2, EndsStep DEF JoinFirst
<1>3. CASE orgs # {}
  <2> DEFINE first == CHOOSE o \in orgs : \A p \in orgs : o <= p
             r == [req[q] EXCEPT !.pc = "create", !.org = first]
  <2>1. first \in 1..lastOrg /\ first \in Orgs
    <3>1. orgs \in SUBSET Nat /\ orgs \subseteq 1..lastOrg /\ orgs \subseteq Orgs
      BY WorkspacesAssumption DEF WorkspacesInv, TablesOk, Orgs
    <3>2. \E o \in orgs : \A p \in orgs : o <= p
      BY <1>3, <3>1, LeastNatural
    <3>3. first \in orgs
      BY <3>2
    <3> HIDE DEF first
    <3> QED BY <3>1, <3>3
  <2>2. req' = [req EXCEPT ![q] = r]
    BY <1>3 DEF JoinFirst, Goes
  <2> HIDE DEF first
  <2>3. r \in ReqType
    BY <1>1, <2>1 DEF ReqType, Places
  <2>4. /\ r.pc = "create" /\ r.user = req[q].user /\ r.org = first
        /\ r.inv = req[q].inv /\ r.next = req[q].next
    BY <1>1 DEF ReqType
  <2> HIDE DEF r
  <2>5. /\ req[q].user \in Users /\ req[q].inv = NoInvite /\ req[q].next = "server"
    BY <1>1 DEF Control
  <2>6. Holds(r, lastOrg)
    BY <2>1, <2>4, <2>5 DEF Holds, Plain
  <2> QED BY <1>1, <2>2, <2>3, <2>6, PlainStep
<1> QED BY <1>2, <1>3

\* InviteCheck, DeleteOrgCheck and RemoveFind look something up.
LEMMA Looks ==
  ASSUME WorkspacesInv, NEW q \in Requests, InviteCheck(q) \/ DeleteOrgCheck(q) \/ RemoveFind(q)
  PROVE  InvKept
<1>1. /\ requests' = requests /\ breaks' = breaks /\ Quiet
      /\ requests' \in 0..MaxRequests /\ breaks' \in 0..MaxBreaks
  BY ReqFacts DEF InviteCheck, DeleteOrgCheck, RemoveFind, Quiet
<1>2. CASE Ends(q)
  BY <1>1, <1>2, EndsStep
<1>3. ASSUME NEW pc \in {"inviteCreate", "deleteRead", "removeTx"}, GoesTo(q, pc),
             req[q].pc \in {"inviteCheck", "deleteCheck", "remove"}
      PROVE  InvKept
  BY <1>1, <1>3, PlainGoes DEF Plain
<1> QED BY <1>2, <1>3 DEF InviteCheck, DeleteOrgCheck, RemoveFind, At

\* A query fails, or the process restarts.
LEMMA BreaksStep ==
  ASSUME WorkspacesInv, NEW q \in Requests, Breaks(q)
  PROVE  InvKept
<1>1. Quiet /\ requests' \in 0..MaxRequests /\ breaks' \in 0..MaxBreaks /\ Ends(q)
  BY ReqFacts, WorkspacesAssumption DEF Breaks, Quiet
<1> QED BY <1>1, EndsStep

\* A request that accepts an invitation starts, and goes on until it joins.
LEMMA Accepts ==
  ASSUME WorkspacesInv, NEW q \in Requests, NEW i \in Invites, AcceptInvite(q, i)
  PROVE  InvKept
<1>1. PICK t : t = invites[i]
  OBVIOUS
<1> DEFINE r == [Idle EXCEPT !.pc = "find", !.user = t.email, !.org = t.org,
                             !.role = t.role, !.inv = i]
<1>2. t \in Invitation /\ t # NoInvite /\ t.org \in 1..lastOrg /\ i # NoInvite
  BY <1>1, WorkspacesAssumption DEF AcceptInvite, WorkspacesInv, TablesOk
<1>3. /\ t.email \in Users /\ t.org \in Orgs /\ t.role \in Roles
  BY <1>2 DEF Invitation
<1>4. r \in ReqType
  BY <1>2, <1>3, IdleTyped DEF ReqType, Places
<1>5. /\ r.pc = "find" /\ r.user = t.email /\ r.org = t.org /\ r.role = t.role /\ r.inv = i
      /\ r.next = "idle"
  BY DEF Idle
<1>6. Begins(q, r) /\ breaks' \in 0..MaxBreaks /\ Quiet
  BY <1>1, StartsIs DEF AcceptInvite, Quiet
<1> HIDE DEF r
<1>7. req'[q] = r /\ lastOrg' = lastOrg /\ invites' = invites /\ req' = [req EXCEPT ![q] = r]
  BY <1>6, ReqFacts DEF Begins, Quiet
<1>8. ReqOk(q)' /\ Counted(q)' /\ ~Creator(q)'
  <2>1. Control(q)'
    BY <1>2, <1>3, <1>5, <1>7 DEF Control
  <2>2. Bound(q)'
    BY <1>1, <1>2, <1>5, <1>7 DEF Bound
  <2>3. HasJoined(q)' /\ Created(q)' /\ Creator(q)' = FALSE
    BY <1>5, <1>7 DEF HasJoined, Created, Creator
  <2>4. Moving(q)' /\ Counted(q)'
    BY <1>5, <1>7 DEF Moving, Counted
  <2> QED BY <2>1, <2>2, <2>3, <2>4 DEF ReqOk
<1> QED BY <1>4, <1>6, <1>7, <1>8, QuietStep DEF Begins

\* An acceptance looks up the user and its membership.
LEMMA FindsInvited ==
  ASSUME WorkspacesInv, NEW q \in Requests, FindInvited(q) \/ CheckMember(q)
  PROVE  InvKept
<1>1. /\ req[q] \in ReqType /\ Control(q) /\ Bound(q) /\ requests' \in 0..MaxRequests
      /\ breaks' \in 0..MaxBreaks /\ Quiet /\ req[q].pc \in {"find", "checkMember"}
  BY ReqFacts DEF FindInvited, CheckMember, Quiet, At
<1>2. CASE Ends(q)
  BY <1>1, <1>2, EndsStep
<1>3. ASSUME NEW pc \in {"checkMember", "create", "join"}, NEW next \in {"switchRead", "verify"},
             next = "verify" <=> pc = "create",
             Goes(q, [req[q] EXCEPT !.pc = pc, !.next = next])
      PROVE  InvKept
  <2> DEFINE r == [req[q] EXCEPT !.pc = pc, !.next = next]
  <2>1. pc \in Places
    BY DEF Places
  <2>2. r \in ReqType
    BY <1>1, <2>1 DEF ReqType
  <2>3. /\ r.pc = pc /\ r.user = req[q].user /\ r.org = req[q].org /\ r.role = req[q].role
        /\ r.inv = req[q].inv /\ r.next = next
    BY <1>1 DEF ReqType
  <2>4. req' = [req EXCEPT ![q] = r]
    BY <1>3 DEF Goes
  <2>5. req'[q] = r /\ lastOrg' = lastOrg /\ invites' = invites
    BY <1>1, <2>4, ReqFacts DEF Quiet
  <2> HIDE DEF r
  <2>6. Control(q)'
    BY <1>1, <1>3, <2>3, <2>5 DEF Control
  <2>7. Bound(q)'
    BY <1>1, <2>3, <2>5 DEF Bound
  <2>8. HasJoined(q)' /\ Created(q)' /\ Creator(q)' = FALSE
    BY <1>3, <2>3, <2>5 DEF HasJoined, Created, Creator
  <2>9. Moving(q)' /\ Counted(q)'
    BY <2>3, <2>5 DEF Moving, Counted
  <2> QED BY <1>1, <2>2, <2>4, <2>6, <2>7, <2>8, <2>9, QuietStep DEF ReqOk
<1>4. CASE FindInvited(q)
  BY <1>3, <1>4 DEF FindInvited
<1>5. CASE CheckMember(q) /\ GoesTo(q, "join")
  <2>1. req[q].next = "switchRead"
    BY <1>1, <1>5 DEF CheckMember, At, Control
  <2>2. [req[q] EXCEPT !.pc = "join"] = [req[q] EXCEPT !.pc = "join", !.next = "switchRead"]
    BY <1>1, <2>1 DEF ReqType
  <2> QED BY <1>3, <1>5, <2>2 DEF GoesTo
<1> QED BY <1>2, <1>4, <1>5 DEF CheckMember

\* The role of a membership is read, which is what the invitation said if there was one.
LEMMA SwitchReads ==
  ASSUME WorkspacesInv, NEW q \in Requests, SwitchRead(q)
  PROVE  InvKept
<1>1. /\ req[q] \in ReqType /\ Control(q) /\ Bound(q) /\ HasJoined(q)
      /\ requests' \in 0..MaxRequests /\ breaks' \in 0..MaxBreaks /\ Quiet
      /\ req[q].pc = "switchRead" /\ MembersOk
  BY ReqFacts DEF SwitchRead, Quiet, At, WorkspacesInv
<1>2. PICK u, o : u = req[q].user /\ o = req[q].org
  OBVIOUS
<1>3. CASE ~Joined(u, o)
  BY <1>1, <1>2, <1>3, EndsStep DEF SwitchRead
<1>4. CASE Joined(u, o)
  <2>1. u \in Users
    BY <1>1, <1>2 DEF Control
  <2>2. PICK role \in Roles : Memb(u, o, role)
    BY <1>1, <1>4, <2>1, JoinedIs
  <2>3. members[RoleIn(u, o)].role = role /\ u \in Accounts /\ o \in orgs
    BY <1>1, <2>1, <2>2, MembFacts
  <2> DEFINE r == [req[q] EXCEPT !.pc = "switchWrite", !.role = role]
  <2>4. req' = [req EXCEPT ![q] = r]
    BY <1>2, <1>4, <2>3 DEF SwitchRead, Goes
  <2>5. /\ r.pc = "switchWrite" /\ r.user = u /\ r.org = o /\ r.role = role
        /\ r.inv = req[q].inv /\ r.next = req[q].next
    BY <1>1, <1>2 DEF ReqType
  <2>6. r \in ReqType
    BY <1>1 DEF ReqType, Places
  <2>7. req'[q] = r /\ lastOrg' = lastOrg /\ invites' = invites
    BY <1>1, <2>4, ReqFacts DEF Quiet
  <2> HIDE DEF r
  <2>8. u \notin gone /\ o \in 1..lastOrg
    BY <2>3 DEF WorkspacesInv, TablesOk
  <2>9. req[q].inv # NoInvite => req[q].role = role
    <3>1. req[q].inv # NoInvite => Memb(u, o, req[q].role)
      BY <1>1, <1>2, <2>3, <2>8 DEF HasJoined, Lasts
    <3> QED BY <1>1, <2>1, <2>2, <3>1, MembFacts
  <2>10. Control(q)'
    BY <1>1, <2>1, <2>5, <2>7, <2>8 DEF Control
  <2>11. Bound(q)'
    BY <1>1, <1>2, <2>5, <2>7, <2>9 DEF Bound
  <2>12. HasJoined(q)'
    BY <1>1, <2>2, <2>5, <2>7 DEF HasJoined, Lasts, Memb, Quiet
  <2>13. Created(q)' /\ Creator(q)' = FALSE
    BY <2>5, <2>7 DEF Created, Creator
  <2>14. Moving(q)' /\ Counted(q)'
    BY <2>5, <2>7 DEF Moving, Counted
  <2> QED BY <1>1, <2>4, <2>6, <2>10, <2>11, <2>12, <2>13, <2>14, QuietStep DEF ReqOk
<1> QED BY <1>3, <1>4

\* Where everybody goes is looked up before an organization is deleted.
LEMMA DeleteReads ==
  ASSUME WorkspacesInv, NEW q \in Requests, DeleteOrgRead(q)
  PROVE  InvKept
<1>1. /\ req[q] \in ReqType /\ Control(q)
      /\ requests' \in 0..MaxRequests /\ breaks' \in 0..MaxBreaks /\ Quiet
      /\ req[q].pc = "deleteRead" /\ MembersOk /\ lastOrg \in Nat
  BY ReqFacts, WorkspacesAssumption DEF DeleteOrgRead, Quiet, At, WorkspacesInv, TablesOk
<1>2. PICK u, o : u = req[q].user /\ o = req[q].org
  OBVIOUS
<1> DEFINE D == {v \in Accounts : account[v].org = o} \union {u}
           goes == [v \in D |-> Oldest(OthersOf(v, o))]
           r == [req[q] EXCEPT !.pc = "deleteOrg", !.data = goes]
<1>3. u \in Users /\ D \in SUBSET Users
  BY <1>1, <1>2 DEF Control, Accounts
<1>4. \A v \in Users : Oldest(OthersOf(v, o)) \in Membership \union {NoOrg}
  BY <1>1, OldestIs
<1>5. goes \in [D -> Membership \union {NoOrg}]
  BY <1>3, <1>4
<1>6. ASSUME NEW v \in D, goes[v] # NoOrg
      PROVE  /\ goes[v].user = v /\ goes[v].org # o /\ goes[v].org <= lastOrg
             /\ Memb(v, goes[v].org, goes[v].role)
  <2>1. v \in Users /\ OthersOf(v, o) # {} /\ goes[v] = First(OthersOf(v, o))
    BY <1>3, <1>6 DEF Oldest
  <2>2. PICK m : m = First(OthersOf(v, o))
    OBVIOUS
  <2>3. m.user = v /\ m.org # o /\ Memb(v, m.org, m.role)
    BY <1>1, <2>1, <2>2, OldestIs
  <2>4. m.org \in orgs
    BY <1>1, <2>1, <2>3, MembFacts
  <2>5. m.org <= lastOrg
    <3>1. orgs \subseteq 1..lastOrg
      BY DEF WorkspacesInv, TablesOk
    <3>2. lastOrg \in Nat
      BY <1>1
    <3>3. m.org \in 1..lastOrg
      BY <2>4, <3>1
    <3> QED BY <3>2, <3>3
  <2>6. goes[v] = m
    BY <2>1, <2>2
  <2> HIDE DEF goes
  <2> QED BY <2>3, <2>5, <2>6
<1>7. req' = [req EXCEPT ![q] = r]
  BY <1>2 DEF DeleteOrgRead, Goes
<1>8. /\ \A v \in DOMAIN goes : v \in D
      /\ u \in DOMAIN goes
  OBVIOUS
<1> HIDE DEF goes, D
<1>9. goes \in UNION {[E -> Membership \union {NoOrg}] : E \in SUBSET Users}
  BY <1>3, <1>5
<1>10. r \in ReqType
  <2>1. goes \in Datas
    BY <1>9 DEF Datas
  <2> QED BY <1>1, <2>1 DEF ReqType, Places
<1>11. /\ r.pc = "deleteOrg" /\ r.user = u /\ r.org = o /\ r.data = goes
       /\ r.inv = req[q].inv /\ r.next = req[q].next
  BY <1>1, <1>2 DEF ReqType
<1> HIDE DEF r
<1>12. req'[q] = r /\ lastOrg' = lastOrg
  BY <1>1, <1>7, ReqFacts DEF Quiet
<1>13. Control(q)'
  BY <1>1, <1>2, <1>11, <1>12 DEF Control
<1>14. Bound(q)'
  BY <1>1, <1>11, <1>12 DEF Bound, Control
<1>15. HasJoined(q)' /\ Created(q)' /\ Creator(q)' = FALSE
  BY <1>11, <1>12 DEF HasJoined, Created, Creator
<1>16. Moving(q)'
  <2>1. PICK g : g = goes
    OBVIOUS
  <2>2. \A v \in DOMAIN g : g[v] # NoOrg =>
          /\ g[v].user = v /\ g[v].org # o /\ g[v].org <= lastOrg'
          /\ Memb(v, g[v].org, g[v].role)
    BY <1>6, <1>8, <1>12, <2>1
  <2>3. \A v, p, s : Memb(v, p, s) => Memb(v, p, s)'
    BY <1>1 DEF Memb, Quiet
  <2>4. /\ g \in UNION {[E -> Membership \union {NoOrg}] : E \in SUBSET Users}
        /\ u \in DOMAIN g /\ req'[q].data = g /\ req'[q].user = u /\ req'[q].org = o
    BY <1>8, <1>9, <1>11, <1>12, <2>1
  <2>5. \A v \in DOMAIN g : g[v] # NoOrg => Lasts(v, g[v].org, g[v].role)'
    BY <2>2, <2>3 DEF Lasts
  <2> QED BY <2>2, <2>4, <2>5 DEF Moving, Lasts, Memb
<1>17. Counted(q)'
  BY <1>11, <1>12 DEF Counted
<1> QED BY <1>1, <1>7, <1>10, <1>13, <1>14, <1>15, <1>16, <1>17, QuietStep DEF ReqOk

\* A member that is the only one.
LEMMA AloneIs ==
  ASSUME MembersOk, NEW o \in Orgs, NEW u \in MembersOf(o), ~(Cardinality(MembersOf(o)) > 1)
  PROVE  MembersOf(o) = {u}
<1> DEFINE S == MembersOf(o)
<1>1. S \subseteq Users
  <2> SUFFICES ASSUME NEW k \in DOMAIN members, members[k].org = o PROVE members[k].user \in Users
    BY DEF MembersOf
  <2>1. members[k] \in Membership \union {Left} /\ o # NoOrg
    BY WorkspacesAssumption DEF MembersOk
  <2> QED BY <2>1 DEF Left, Membership
<1>2. IsFiniteSet(S) /\ Cardinality(S) \in Nat
  BY <1>1, FS_Subset, FS_CardinalityType, WorkspacesAssumption
<1>3. IsFiniteSet(S \ {u}) /\ Cardinality(S \ {u}) = Cardinality(S) - 1
  BY <1>2, FS_RemoveElement
<1>4. Cardinality(S \ {u}) \in Nat
  BY <1>3, FS_CardinalityType
<1>5. Cardinality(S \ {u}) = 0
  BY <1>2, <1>3, <1>4
<1>6. S \ {u} = {}
  BY <1>3, <1>5, FS_EmptySet
<1> QED BY <1>6

\* The organizations a user is admin of are read before it deletes itself.
LEMMA SelfReads ==
  ASSUME WorkspacesInv, NEW q \in Requests, SelfRead(q)
  PROVE  InvKept
<1>1. /\ req[q] \in ReqType /\ Control(q)
      /\ requests' \in 0..MaxRequests /\ breaks' \in 0..MaxBreaks /\ Quiet
      /\ req[q].pc = "selfRead" /\ MembersOk /\ orgs \subseteq Orgs
  BY ReqFacts, WorkspacesAssumption DEF SelfRead, Quiet, At, WorkspacesInv, TablesOk, Orgs
<1>2. PICK u : u = req[q].user
  OBVIOUS
<1> DEFINE own == {o \in orgs : u \in AdminsOf(o)}
           data == [alone  |-> {o \in own : Cardinality(MembersOf(o)) <= 1},
                    shared |-> {o \in own : Cardinality(MembersOf(o)) > 1}]
           r == [req[q] EXCEPT !.pc = "selfCount", !.stale = FALSE, !.data = data]
<1>3. u \in Users
  BY <1>1, <1>2 DEF Control
<1>4. ASSUME NEW o \in Orgs, u \in AdminsOf(o) PROVE MembersOf(o) = {u} \/ o \in data.shared
  <2>1. Memb(u, o, "ADMIN")
    BY <1>1, <1>3, <1>4, JoinedIs
  <2>2. o \in orgs /\ u \in MembersOf(o)
    BY <1>1, <1>3, <2>1, MembFacts, JoinedIs DEF Joined
  <2>3. CASE Cardinality(MembersOf(o)) > 1
    BY <1>4, <2>2, <2>3
  <2>4. CASE ~(Cardinality(MembersOf(o)) > 1)
    BY <1>1, <2>2, <2>4, AloneIs
  <2> QED BY <2>3, <2>4
<1>5. data \in [alone : SUBSET Orgs, shared : SUBSET Orgs]
  BY <1>1
<1>6. req' = [req EXCEPT ![q] = r]
  BY <1>2 DEF SelfRead, Goes
<1> HIDE DEF data
<1>7. r \in ReqType
  <2>1. data \in Datas
    BY <1>5 DEF Datas
  <2> QED BY <1>1, <2>1 DEF ReqType, Places
<1>8. /\ r.pc = "selfCount" /\ r.user = u /\ r.org = req[q].org /\ r.data = data
      /\ r.inv = req[q].inv /\ r.next = req[q].next
  BY <1>1, <1>2 DEF ReqType
<1> HIDE DEF r
<1>9. req'[q] = r /\ lastOrg' = lastOrg /\ members' = members
  BY <1>1, <1>6, ReqFacts DEF Quiet
<1>10. Control(q)'
  BY <1>1, <1>2, <1>8, <1>9 DEF Control
<1>11. Bound(q)'
  BY <1>1, <1>8, <1>9 DEF Bound, Control
<1>12. HasJoined(q)' /\ Created(q)' /\ Creator(q)' = FALSE /\ Moving(q)'
  BY <1>8, <1>9 DEF HasJoined, Created, Creator, Moving
<1>13. Counted(q)'
  BY <1>4, <1>8, <1>9 DEF Counted, AdminsOf, MembersOf
<1> QED BY <1>1, <1>6, <1>7, <1>10, <1>11, <1>12, <1>13, QuietStep DEF ReqOk

\* The other admins of the organizations with more members are counted.
LEMMA SelfCounts ==
  ASSUME WorkspacesInv, NEW q \in Requests, SelfCount(q)
  PROVE  InvKept
<1>1. /\ req[q] \in ReqType /\ Control(q) /\ Counted(q)
      /\ requests' \in 0..MaxRequests /\ breaks' \in 0..MaxBreaks /\ Quiet
      /\ req[q].pc = "selfCount"
  BY ReqFacts DEF SelfCount, Quiet, At
<1>2. PICK u : u = req[q].user
  OBVIOUS
<1>3. CASE \E o \in req[q].data.shared : OtherAdmins(u, o) = {}
  BY <1>1, <1>2, <1>3, EndsStep DEF SelfCount
<1>4. CASE \A o \in req[q].data.shared : OtherAdmins(u, o) # {}
  <2> DEFINE r == [req[q] EXCEPT !.pc = "selfTx"]
  <2>1. req' = [req EXCEPT ![q] = r]
    BY <1>2, <1>4 DEF SelfCount, GoesTo, Goes
  <2>2. /\ r \in ReqType /\ r.pc = "selfTx" /\ r.user = u /\ r.org = req[q].org
        /\ r.inv = req[q].inv /\ r.next = req[q].next /\ r.stale = req[q].stale
    BY <1>1, <1>2 DEF ReqType, Places
  <2> HIDE DEF r
  <2>3. req'[q] = r /\ lastOrg' = lastOrg /\ members' = members
    BY <1>1, <2>1, ReqFacts DEF Quiet
  <2>4. Control(q)'
    BY <1>1, <1>2, <2>2, <2>3 DEF Control
  <2>5. Bound(q)'
    BY <1>1, <2>2, <2>3 DEF Bound, Control
  <2>6. HasJoined(q)' /\ Created(q)' /\ Creator(q)' = FALSE /\ Moving(q)'
    BY <2>2, <2>3 DEF HasJoined, Created, Creator, Moving
  <2>7. Counted(q)'
    <3>1. ~req[q].stale => \A o \in Orgs :
            u \in AdminsOf(o) => MembersOf(o) = {u} \/ AdminsOf(o) \ {u} # {}
      BY <1>1, <1>2, <1>4 DEF Counted, OtherAdmins
    <3> QED BY <2>2, <2>3, <3>1 DEF Counted, AdminsOf, MembersOf
  <2> QED BY <1>1, <2>1, <2>2, <2>4, <2>5, <2>6, <2>7, QuietStep DEF ReqOk
<1> QED BY <1>3, <1>4

-----------------------------------------------------------------------------
(* Steps that write the tables.                                            *)

\* A request moves, and the memberships stay.
LEMMA TableStep ==
  ASSUME WorkspacesInv, NEW S, Moves(S), TablesOk', MembersOk', members' = members,
         NEW q \in Requests, NEW r \in ReqType, req' = [req EXCEPT ![q] = r],
         \A u \in Accounts' \ fresh' : u \in Accounts \ fresh \/ ActiveOk(u)',
         \A i \in Invites : UsedOne(i)' \/ invites'[i] = invites[i],
         ReqOk(q)', Counted(q)',
         \A p \in Requests \ {q} : Creator(p) => req[p].user \notin S,
         Creator(q)' => \A p \in Requests \ {q} : Creator(p) => req[p].user # r.user
  PROVE  InvKept
<1>1. req \in [Requests -> ReqType] /\ \A p \in Requests : Counted(p)
  BY DEF WorkspacesInv, ReqsOk
<1>2. /\ req' \in [Requests -> ReqType] /\ req'[q] = r
      /\ \A p \in Requests \ {q} : req'[p] = req[p]
  BY <1>1
<1>3. \A p \in Requests \ {q} : Waits(p) /\ Counted(p)'
  <2> TAKE p \in Requests \ {q}
  <2>1. Waits(p) /\ req'[p].stale = req[p].stale
    BY <1>2 DEF Waits
  <2> QED BY <1>1, <2>1, CountedKept
<1>4. OneCreator'
  BY <1>2, <1>3, CreatorKept
<1>5. \A p \in Requests :
        /\ ReqOk(p)' \/ (Waits(p) /\ (Creator(p) => req[p].user \notin S))
        /\ Counted(p)'
  BY <1>3
<1> QED BY <1>2, <1>4, <1>5, StepKept

\* The same for a request that is not the maker of an account.
LEMMA PlainTableStep ==
  ASSUME WorkspacesInv, Moves({}), TablesOk', MembersOk', members' = members, invites' = invites,
         NEW q \in Requests, NEW r \in ReqType, req' = [req EXCEPT ![q] = r],
         Accounts' \ fresh' \subseteq Accounts \ fresh,
         ReqOk(q)', Counted(q)', ~Creator(q)'
  PROVE  InvKept
<1>1. \A i \in Invites : UsedOne(i)' \/ invites'[i] = invites[i]
  OBVIOUS
<1>2. \A u \in Accounts' \ fresh' : u \in Accounts \ fresh \/ ActiveOk(u)'
  OBVIOUS
<1>3. \A p \in Requests \ {q} : Creator(p) => req[p].user \notin {}
  OBVIOUS
<1>4. Creator(q)' => \A p \in Requests \ {q} : Creator(p) => req[p].user # r.user
  OBVIOUS
<1>5. PICK S : S = {}
  OBVIOUS
<1>6. Moves(S)
  BY <1>5
<1>7. \A p \in Requests \ {q} : Creator(p) => req[p].user \notin S
  BY <1>5
<1> QED BY <1>1, <1>2, <1>4, <1>6, <1>7, TableStep

\* The row of one user is written.
LEMMA AccountStep ==
  ASSUME WorkspacesInv, NEW u \in Users, NEW a \in Account, account' = [account EXCEPT ![u] = a],
         UNCHANGED <<orgs, lastOrg, members, invites, gone>>,
         requests' \in 0..MaxRequests, breaks' \in 0..MaxBreaks,
         u \notin gone, {a.org, a.server} \subseteq orgs \union {NoOrg},
         \A v \in Users \ {u} : v \in overruled' <=> v \in overruled,
         u \in Accounts => UserKept(u), NEW S,
         u \in Accounts /\ u \notin S /\ account[u].server = NoOrg => a.server = NoOrg
  PROVE  Moves(S) /\ TablesOk' /\ MembersOk' /\ Accounts' = Accounts \union {u} /\ account'[u] = a
<1>1. /\ account \in [Users -> Account \union {NoUser}] /\ a # NoUser /\ lastOrg \in Nat
  BY WorkspacesAssumption DEF WorkspacesInv, TablesOk
<1>2. account'[u] = a /\ \A v \in Users \ {u} : account'[v] = account[v]
  BY <1>1
<1>3. Accounts' = Accounts \union {u}
  BY <1>1, <1>2 DEF Accounts
<1>4. TablesOk'
  <2>1. account' \in [Users -> Account \union {NoUser}]
    BY <1>1
  <2>2. \A v \in Accounts' : {account'[v].org, account'[v].server} \subseteq orgs \union {NoOrg}
    BY <1>2, <1>3 DEF WorkspacesInv, TablesOk, Accounts
  <2>3. gone \intersect Accounts' = {}
    BY <1>3 DEF WorkspacesInv, TablesOk
  <2> QED BY <2>1, <2>2, <2>3 DEF WorkspacesInv, TablesOk
<1>5. MembersOk'
  BY <1>3 DEF WorkspacesInv, MembersOk
<1>6. \A v \in Users \ {u} : UserKept(v)
  BY <1>2 DEF UserKept, ActiveOk, Home, Memb
<1>7. Moves(S)
  <2>1. \A v \in Accounts \intersect Accounts' :
          UserKept(v) /\ (v \notin S /\ account[v].server = NoOrg => account'[v].server = NoOrg)
    BY <1>2, <1>6 DEF Accounts
  <2>2. \A v, o, s : Memb(v, o, s) => Memb(v, o, s)'
    BY DEF Memb
  <2> QED BY <1>1, <1>3, <2>1, <2>2 DEF Moves
<1> QED BY <1>2, <1>3, <1>4, <1>5, <1>7

\* A user without an organization is moved to its oldest membership.
LEMMA Heals == ASSUME WorkspacesInv, NEW u \in Users, Heal(u) PROVE InvKept
<1>1. /\ u \in Accounts /\ account[u] \in Account /\ OthersOf(u, NoOrg) # {} /\ MembersOk
      /\ account[u].server \in orgs \union {NoOrg} /\ u \notin gone
  BY UserOrg DEF Heal, NeedsHeal, WorkspacesInv, TablesOk
<1>2. PICK m : m = First(OthersOf(u, NoOrg))
  OBVIOUS
<1>3. m \in Membership /\ m.user = u /\ Memb(u, m.org, m.role)
  BY <1>1, <1>2, OldestIs
<1>4. m.org \in orgs /\ m.role \in Roles
  BY <1>1, <1>3, MembFacts
<1>5. PICK a : a = [account[u] EXCEPT !.org = m.org, !.role = m.role]
  OBVIOUS
<1>6. /\ a \in Account /\ a.org = m.org /\ a.role = m.role /\ a.server = account[u].server
      /\ a.verified = account[u].verified
  BY <1>1, <1>3, <1>5 DEF Account, Membership
<1>7. account' = [account EXCEPT ![u] = a] /\ u \in Users /\ account'[u] = a
  <2>1. account \in [Users -> Account \union {NoUser}]
    BY DEF WorkspacesInv, TablesOk
  <2> QED BY <1>2, <1>5, <2>1 DEF Heal
<1>8. overruled' = overruled \ {u} /\ req' = req /\ fresh' = fresh
      /\ UNCHANGED <<orgs, lastOrg, members, invites, gone, requests, breaks>>
  BY DEF Heal
<1>9. ActiveOk(u)'
  BY <1>3, <1>4, <1>6, <1>7, <1>8 DEF ActiveOk, Memb
<1>10. UserKept(u)
  BY <1>6, <1>7, <1>9 DEF UserKept
<1>11. requests' \in 0..MaxRequests /\ breaks' \in 0..MaxBreaks
  BY <1>8 DEF WorkspacesInv, TablesOk
<1>12. Moves({}) /\ TablesOk' /\ MembersOk' /\ Accounts' = Accounts
  <2>1. {a.org, a.server} \subseteq orgs \union {NoOrg}
    BY <1>1, <1>4, <1>6
  <2>2. \A v \in Users \ {u} : v \in overruled' <=> v \in overruled
    BY <1>8
  <2>3. account[u].server = NoOrg => a.server = NoOrg
    BY <1>6
  <2>4. /\ Moves({}) /\ TablesOk' /\ MembersOk' /\ Accounts' = Accounts \union {u}
    BY <1>1, <1>6, <1>7, <1>8, <1>10, <1>11, <2>1, <2>2, <2>3, AccountStep
  <2> QED BY <1>1, <2>4
<1>13. \A p \in Requests : Waits(p) /\ Counted(p)'
  <2> TAKE p \in Requests
  <2>1. Waits(p) /\ req'[p].stale = req[p].stale /\ Counted(p)
    BY <1>8 DEF Waits, WorkspacesInv, ReqsOk
  <2> QED BY <1>8, <2>1, CountedKept
<1>14. OneCreator' /\ req' \in [Requests -> ReqType]
  BY <1>8 DEF WorkspacesInv, ReqsOk, OneCreator, Creator
<1> QED BY <1>8, <1>12, <1>13, <1>14, StepKept

\* A request is over after it has written the row of a user.
LEMMA LastWrite ==
  ASSUME WorkspacesInv, NEW q \in Requests, Ends(q), Moves({}), TablesOk', MembersOk',
         members' = members, fresh' = fresh, invites' = invites,
         Accounts' = Accounts
  PROVE  InvKept
<1>1. req' = [req EXCEPT ![q] = Idle] /\ req \in [Requests -> ReqType]
  BY ReqFacts DEF Ends, Goes
<1>2. ReqOk(q)' /\ Counted(q)' /\ ~Creator(q)'
  BY <1>1, IdleOk
<1>3. Accounts' \ fresh' \subseteq Accounts \ fresh
  OBVIOUS
<1> QED BY <1>1, <1>2, <1>3, IdleTyped, PlainTableStep

\* PUT /users/:id/role writes the role of a user.
LEMMA UpdatesRole == ASSUME WorkspacesInv, NEW q \in Requests, UpdateRole(q) PROVE InvKept
<1>1. /\ req[q] \in ReqType /\ Control(q) /\ req[q].pc = "setRole" /\ Ends(q)
      /\ UNCHANGED <<orgs, lastOrg, members, invites, requests, breaks, fresh, gone>>
      /\ requests' \in 0..MaxRequests /\ breaks' \in 0..MaxBreaks
  BY ReqFacts DEF UpdateRole, At
<1>2. PICK u : u = req[q].user
  OBVIOUS
<1>3. CASE UNCHANGED <<account, overruled>>
  BY <1>1, <1>3, EndsStep DEF Quiet
<1>4. CASE /\ u \in Accounts /\ account' = [account EXCEPT ![u].role = req[q].role]
           /\ overruled' = overruled \union {u}
  <2>1. /\ account[u] \in Account /\ u \in Users /\ u \notin gone /\ req[q].role \in Roles
        /\ {account[u].org, account[u].server} \subseteq orgs \union {NoOrg}
    BY <1>1, <1>4, UserOrg DEF WorkspacesInv, TablesOk, ReqType
  <2>2. PICK a : a = [account[u] EXCEPT !.role = req[q].role]
    OBVIOUS
  <2>3. /\ a \in Account /\ a.org = account[u].org /\ a.server = account[u].server
        /\ a.verified = account[u].verified
    BY <2>1, <2>2 DEF Account
  <2>4. account' = [account EXCEPT ![u] = a] /\ account'[u] = a
    BY <1>4, <2>2 DEF WorkspacesInv, TablesOk, Accounts
  <2>5. UserKept(u)
    BY <1>1, <1>4, <2>3, <2>4 DEF UserKept, ActiveOk, Home, Memb
  <2>6. \A v \in Users \ {u} : v \in overruled' <=> v \in overruled
    BY <1>4
  <2>7. {a.org, a.server} \subseteq orgs \union {NoOrg} /\ (account[u].server = NoOrg => a.server = NoOrg)
    BY <2>1, <2>3
  <2>8. Moves({}) /\ TablesOk' /\ MembersOk' /\ Accounts' = Accounts \union {u}
    BY <1>1, <2>1, <2>3, <2>4, <2>5, <2>6, <2>7, AccountStep
  <2> QED BY <1>1, <1>4, <2>8, LastWrite
<1> QED BY <1>2, <1>3, <1>4 DEF UpdateRole

\* A membership that has been read becomes the active one.
LEMMA SwitchWrites == ASSUME WorkspacesInv, NEW q \in Requests, SwitchWrite(q) PROVE InvKept
<1>1. /\ req[q] \in ReqType /\ Control(q) /\ Bound(q) /\ HasJoined(q) /\ req[q].pc = "switchWrite"
      /\ UNCHANGED <<orgs, lastOrg, members, invites, requests, breaks, fresh, gone>>
      /\ requests' \in 0..MaxRequests /\ breaks' \in 0..MaxBreaks /\ MembersOk
  BY ReqFacts DEF SwitchWrite, At, WorkspacesInv
<1>2. PICK u, o, role : u = req[q].user /\ o = req[q].org /\ role = req[q].role
  OBVIOUS
<1>3. CASE u \notin Accounts \/ o \notin orgs
  BY <1>1, <1>2, <1>3, EndsStep DEF SwitchWrite, Quiet
<1>4. CASE u \in Accounts /\ o \in orgs
  <2>1. /\ account[u] \in Account /\ u \in Users /\ u \notin gone /\ o \in Orgs /\ role \in Roles
        /\ {o, account[u].server} \subseteq orgs \union {NoOrg}
    <3>1. /\ account[u] \in Account /\ u \in Users
          /\ account[u].server \in orgs \union {NoOrg} /\ u \notin gone
      BY <1>4, UserOrg DEF WorkspacesInv, TablesOk
    <3>2. o \in Orgs /\ role \in Roles
      BY <1>1, <1>2, <1>4, OrgsAre DEF ReqType
    <3> QED BY <1>4, <3>1, <3>2
  <2>2. Memb(u, o, role)
    BY <1>1, <1>2, <1>4, <2>1 DEF HasJoined, Lasts
  <2>3. PICK a : a = [account[u] EXCEPT !.org = o, !.role = role]
    OBVIOUS
  <2>4. /\ a \in Account /\ a.org = o /\ a.server = account[u].server /\ a.role = role
        /\ a.verified = account[u].verified
    BY <2>1, <2>3 DEF Account
  <2>5. /\ account' = [account EXCEPT ![u] = a] /\ account'[u] = a
        /\ overruled' = overruled \ {u}
    BY <1>2, <1>4, <2>3 DEF SwitchWrite, WorkspacesInv, TablesOk, Accounts
  <2>6. UserKept(u)
    <3>1. ActiveOk(u)'
      BY <1>1, <2>1, <2>2, <2>4, <2>5 DEF ActiveOk, Memb
    <3> QED BY <2>4, <2>5, <3>1 DEF UserKept
  <2>7. \A v \in Users \ {u} : v \in overruled' <=> v \in overruled
    BY <2>5
  <2>8. {a.org, a.server} \subseteq orgs \union {NoOrg} /\ (account[u].server = NoOrg => a.server = NoOrg)
    BY <2>1, <2>4
  <2>9. Moves({}) /\ TablesOk' /\ MembersOk' /\ Accounts' = Accounts \union {u}
    BY <1>1, <2>1, <2>4, <2>5, <2>6, <2>7, <2>8, AccountStep
  <2>10. CASE Ends(q)
    BY <1>1, <1>4, <2>9, <2>10, LastWrite
  <2>11. CASE req[q].inv # NoInvite /\ GoesTo(q, "mark")
    <3>1. PICK r : r = [req[q] EXCEPT !.pc = "mark"]
      OBVIOUS
    <3>2. /\ r \in ReqType /\ r.pc = "mark" /\ r.user = u /\ r.org = o /\ r.role = role
          /\ r.inv = req[q].inv /\ r.next = req[q].next
      BY <1>1, <1>2, <3>1 DEF ReqType, Places
    <3>3. req' = [req EXCEPT ![q] = r] /\ req'[q] = r
      BY <2>11, <3>1, ReqFacts DEF GoesTo, Goes
    <3>4. Control(q)'
      BY <1>1, <1>2, <2>11, <3>2, <3>3 DEF Control
    <3>5. Bound(q)'
      BY <1>1, <1>2, <3>2, <3>3 DEF Bound
    <3>6. HasJoined(q)'
      BY <1>1, <2>2, <3>2, <3>3 DEF HasJoined, Lasts, Memb
    <3>7. ~Creator(q)' /\ Created(q)'
      BY <1>1, <3>2, <3>3 DEF Creator, Created, Control
    <3>8. Moving(q)' /\ Counted(q)'
      BY <3>2, <3>3 DEF Moving, Counted
    <3>9. ReqOk(q)'
      BY <3>4, <3>5, <3>6, <3>7, <3>8 DEF ReqOk
    <3>10. Accounts' \ fresh' \subseteq Accounts \ fresh
      BY <1>1, <1>4, <2>9
    <3> QED BY <1>1, <2>9, <3>2, <3>3, <3>7, <3>8, <3>9, <3>10, PlainTableStep
  <2> QED BY <1>2, <1>4, <2>10, <2>11 DEF SwitchWrite
<1> QED BY <1>3, <1>4

\* The only one that made the account of a request stays that.
LEMMA OnlyCreator ==
  ASSUME WorkspacesInv, NEW q \in Requests, Creator(q)
  PROVE  \A p \in Requests \ {q} : Creator(p) => req[p].user # req[q].user
BY DEF WorkspacesInv, ReqsOk, OneCreator

\* The address of an invited user is verified.
LEMMA Verifies == ASSUME WorkspacesInv, NEW q \in Requests, VerifyInvited(q) PROVE InvKept
<1>1. /\ req[q] \in ReqType /\ Control(q) /\ Bound(q) /\ HasJoined(q) /\ Created(q)
      /\ req[q].pc = "verify" /\ requests' \in 0..MaxRequests /\ breaks' \in 0..MaxBreaks
      /\ UNCHANGED <<orgs, lastOrg, members, invites, requests, breaks, fresh, overruled, gone>>
  BY ReqFacts DEF VerifyInvited, At
<1>2. PICK u, o, role : u = req[q].user /\ o = req[q].org /\ role = req[q].role
  OBVIOUS
<1>3. CASE u \notin Accounts
  BY <1>1, <1>2, <1>3, EndsStep DEF VerifyInvited, Quiet
<1>4. CASE u \in Accounts
  <2>1. /\ account[u] \in Account /\ u \in Users /\ u \notin gone
        /\ {account[u].org, account[u].server} \subseteq orgs \union {NoOrg}
    BY <1>1, <1>4, UserOrg DEF WorkspacesInv, TablesOk
  <2>2. PICK a : a = [account[u] EXCEPT !.verified = TRUE]
    OBVIOUS
  <2>3. /\ a \in Account /\ a.org = account[u].org /\ a.server = account[u].server
        /\ a.verified /\ a.role = account[u].role
    BY <2>1, <2>2 DEF Account
  <2>4. account' = [account EXCEPT ![u] = a] /\ account'[u] = a /\ GoesTo(q, "server")
    BY <1>2, <1>4, <2>2 DEF VerifyInvited, WorkspacesInv, TablesOk, Accounts
  <2>5. UserKept(u)
    BY <1>1, <2>3, <2>4 DEF UserKept, ActiveOk, Home, Memb
  <2>6. \A v \in Users \ {u} : v \in overruled' <=> v \in overruled
    BY <1>1
  <2>7. {a.org, a.server} \subseteq orgs \union {NoOrg} /\ (account[u].server = NoOrg => a.server = NoOrg)
    BY <2>1, <2>3
  <2>8. PICK S : S = {}
    OBVIOUS
  <2>9. Moves(S) /\ TablesOk' /\ MembersOk' /\ Accounts' = Accounts \union {u}
    BY <1>1, <2>1, <2>3, <2>4, <2>5, <2>6, <2>7, AccountStep
  <2>10. PICK r : r = [req[q] EXCEPT !.pc = "server"]
    OBVIOUS
  <2>11. /\ r \in ReqType /\ r.pc = "server" /\ r.user = u /\ r.org = o /\ r.role = role
         /\ r.inv = req[q].inv /\ r.next = req[q].next
    BY <1>1, <1>2, <2>10 DEF ReqType, Places
  <2>12. req' = [req EXCEPT ![q] = r] /\ req'[q] = r
    BY <2>4, <2>10, ReqFacts DEF GoesTo, Goes
  <2>13. Control(q)'
    BY <1>1, <1>2, <2>11, <2>12 DEF Control
  <2>14. Bound(q)'
    BY <1>1, <1>2, <2>11, <2>12 DEF Bound
  <2>15. HasJoined(q)'
    <3>1. Lasts(u, o, role)
      BY <1>1, <1>2 DEF HasJoined
    <3>2. Lasts(u, o, role)'
      BY <1>1, <3>1 DEF Lasts, Memb
    <3> QED BY <2>11, <2>12, <3>2 DEF HasJoined, Lasts, Memb
  <2>16. Creator(q) /\ account[u].server = NoOrg
    BY <1>1, <1>2, <1>4 DEF Creator, Created, Control
  <2>17. Created(q)'
    BY <1>4, <2>3, <2>4, <2>9, <2>11, <2>12, <2>16 DEF Created
  <2>18. Moving(q)' /\ Counted(q)'
    BY <2>11, <2>12 DEF Moving, Counted
  <2>19. ReqOk(q)'
    BY <2>13, <2>14, <2>15, <2>17, <2>18 DEF ReqOk
  <2>20. \A p \in Requests \ {q} : Creator(p) => req[p].user # r.user /\ req[p].user \notin S
    BY <1>2, <2>8, <2>11, <2>16, OnlyCreator
  <2>21. \A v \in Accounts' \ fresh' : v \in Accounts \ fresh \/ ActiveOk(v)'
    BY <1>1, <1>4, <2>9
  <2> QED BY <1>1, <2>9, <2>11, <2>12, <2>18, <2>19, <2>20, <2>21, TableStep
<1> QED BY <1>3, <1>4

\* The default server of a user; only the request that made the account is in time.
LEMMA DefaultServers == ASSUME WorkspacesInv, NEW q \in Requests, DefaultServer(q) PROVE InvKept
<1>1. /\ req[q] \in ReqType /\ Control(q) /\ Bound(q) /\ HasJoined(q) /\ Created(q)
      /\ req[q].pc = "server" /\ requests' \in 0..MaxRequests /\ breaks' \in 0..MaxBreaks
      /\ UNCHANGED <<orgs, lastOrg, members, invites, requests, breaks, fresh, overruled, gone>>
  BY ReqFacts DEF DefaultServer, At
<1>2. PICK u, o, role : u = req[q].user /\ o = req[q].org /\ role = req[q].role
  OBVIOUS
<1>3. CASE u \notin Accounts \/ (account[u].server = NoOrg /\ o \notin orgs)
  BY <1>1, <1>2, <1>3, EndsStep DEF DefaultServer, Quiet
<1>4. CASE u \in Accounts /\ ~(account[u].server = NoOrg /\ o \notin orgs)
  <2>1. /\ account[u] \in Account /\ u \in Users /\ u \notin gone
        /\ {account[u].org, account[u].server} \subseteq orgs \union {NoOrg}
    BY <1>1, <1>4, UserOrg DEF WorkspacesInv, TablesOk
  <2>2. Creator(q) /\ account[u].server = NoOrg /\ o \in orgs
    BY <1>1, <1>2, <1>4 DEF Creator, Created, Control
  <2>3. o \in Orgs
    BY <2>2, WorkspacesAssumption DEF WorkspacesInv, TablesOk, Orgs
  <2>4. PICK a : a = [account[u] EXCEPT !.server = o]
    OBVIOUS
  <2>5. /\ a \in Account /\ a.org = account[u].org /\ a.server = o
        /\ a.verified = account[u].verified /\ a.role = account[u].role
    BY <2>1, <2>3, <2>4 DEF Account
  <2>6. account' = [account EXCEPT ![u] = a] /\ account'[u] = a
    BY <1>2, <1>4, <2>2, <2>4 DEF DefaultServer, WorkspacesInv, TablesOk, Accounts
  <2>7. NoOrg \notin orgs
    BY OrgsAre
  <2>8. UserKept(u)
    BY <1>1, <2>2, <2>5, <2>6, <2>7 DEF UserKept, ActiveOk, Home, Memb
  <2>9. \A v \in Users \ {u} : v \in overruled' <=> v \in overruled
    BY <1>1
  <2>10. {a.org, a.server} \subseteq orgs \union {NoOrg}
    BY <2>1, <2>2, <2>5
  <2>11. PICK S : S = {u}
    OBVIOUS
  <2>12. Moves(S) /\ TablesOk' /\ MembersOk' /\ Accounts' = Accounts \union {u}
    BY <1>1, <2>1, <2>5, <2>6, <2>8, <2>9, <2>10, <2>11, AccountStep
  <2>13. \A p \in Requests \ {q} : Creator(p) => req[p].user # u /\ req[p].user \notin S
    BY <1>2, <2>2, <2>11, OnlyCreator
  <2>14. \A v \in Accounts' \ fresh' : v \in Accounts \ fresh \/ ActiveOk(v)'
    BY <1>1, <1>4, <2>12
  <2>15. CASE req[q].inv = NoInvite /\ Ends(q)
    <3>1. req' = [req EXCEPT ![q] = Idle] /\ req'[q] = Idle
      BY <2>15, ReqFacts DEF Ends, Goes
    <3>2. ReqOk(q)' /\ Counted(q)' /\ ~Creator(q)'
      BY <3>1, IdleOk
    <3> QED BY <1>1, <2>12, <2>13, <2>14, <3>1, <3>2, IdleTyped, TableStep
  <2>16. CASE req[q].inv # NoInvite /\ GoesTo(q, "mark")
    <3>1. PICK r : r = [req[q] EXCEPT !.pc = "mark"]
      OBVIOUS
    <3>2. /\ r \in ReqType /\ r.pc = "mark" /\ r.user = u /\ r.org = o /\ r.role = role
          /\ r.inv = req[q].inv /\ r.next = req[q].next
      BY <1>1, <1>2, <3>1 DEF ReqType, Places
    <3>3. req' = [req EXCEPT ![q] = r] /\ req'[q] = r
      BY <2>16, <3>1, ReqFacts DEF GoesTo, Goes
    <3>4. Control(q)'
      BY <1>1, <1>2, <2>16, <3>2, <3>3 DEF Control
    <3>5. Bound(q)'
      BY <1>1, <1>2, <3>2, <3>3 DEF Bound
    <3>6. HasJoined(q)'
      <4>1. Lasts(u, o, role)
        BY <1>1, <1>2 DEF HasJoined
      <4>2. Lasts(u, o, role)'
        BY <1>1, <4>1 DEF Lasts, Memb
      <4> QED BY <3>2, <3>3, <4>2 DEF HasJoined, Lasts, Memb
    <3>7. req[q].next = "verify" => account[u].verified
      BY <1>1, <1>2, <1>4, <2>2 DEF Created
    <3>8. Created(q)'
      BY <1>4, <2>5, <2>6, <2>12, <3>2, <3>3, <3>7 DEF Created
    <3>9. Moving(q)' /\ Counted(q)'
      BY <3>2, <3>3 DEF Moving, Counted
    <3>10. ReqOk(q)'
      BY <3>4, <3>5, <3>6, <3>8, <3>9 DEF ReqOk
    <3>11. \A p \in Requests \ {q} : Creator(p) => req[p].user # r.user
      BY <2>13, <3>2
    <3> QED BY <1>1, <2>12, <2>13, <2>14, <3>2, <3>3, <3>9, <3>10, <3>11, TableStep
  <2> QED BY <1>2, <1>4, <2>15, <2>16 DEF DefaultServer
<1> QED BY <1>3, <1>4

\* An account is made, in the organization that its request is about to join.
LEMMA CreatesUser == ASSUME WorkspacesInv, NEW q \in Requests, CreateUser(q) PROVE InvKept
<1>1. /\ req[q] \in ReqType /\ Control(q) /\ Bound(q)
      /\ req[q].pc = "create" /\ requests' \in 0..MaxRequests /\ breaks' \in 0..MaxBreaks
      /\ UNCHANGED <<orgs, lastOrg, members, invites, requests, breaks, gone>>
      /\ req[q].user \notin gone
  BY ReqFacts DEF CreateUser, At
<1>2. PICK u, o, role : u = req[q].user /\ o = req[q].org /\ role = req[q].role
  OBVIOUS
<1>3. CASE u \in Accounts \/ o \notin orgs
  BY <1>1, <1>2, <1>3, EndsStep DEF CreateUser, Quiet
<1>4. CASE u \notin Accounts /\ o \in orgs
  <2>1. /\ u \in Users /\ o \in Orgs /\ role \in Roles /\ u \notin gone
    BY <1>1, <1>2, <1>4, WorkspacesAssumption DEF WorkspacesInv, TablesOk, Orgs, Control, ReqType
  <2>2. PICK a : a = [org |-> o, role |-> role, verified |-> FALSE, server |-> NoOrg]
    OBVIOUS
  <2>3. a \in Account /\ a.org = o /\ a.role = role /\ a.server = NoOrg
    BY <2>1, <2>2 DEF Account
  <2>4. /\ account' = [account EXCEPT ![u] = a] /\ account'[u] = a
        /\ fresh' = fresh \union {u} /\ overruled' = overruled \ {u} /\ GoesTo(q, "join")
    BY <1>2, <1>4, <2>1, <2>2 DEF CreateUser, WorkspacesInv, TablesOk
  <2>5. \A v \in Users \ {u} : v \in overruled' <=> v \in overruled
    BY <2>4
  <2>6. {a.org, a.server} \subseteq orgs \union {NoOrg}
    BY <1>4, <2>3
  <2>7. PICK S : S = {}
    OBVIOUS
  <2>8. Moves(S) /\ TablesOk' /\ MembersOk' /\ Accounts' = Accounts \union {u}
    BY <1>1, <1>4, <2>1, <2>3, <2>4, <2>5, <2>6, AccountStep
  <2>9. PICK r : r = [req[q] EXCEPT !.pc = "join"]
    OBVIOUS
  <2>10. /\ r \in ReqType /\ r.pc = "join" /\ r.user = u /\ r.org = o /\ r.role = role
         /\ r.inv = req[q].inv /\ r.next = req[q].next
    BY <1>1, <1>2, <2>9 DEF ReqType, Places
  <2>11. req' = [req EXCEPT ![q] = r] /\ req'[q] = r
    BY <2>4, <2>9, ReqFacts DEF GoesTo, Goes
  <2>12. Control(q)'
    BY <1>1, <1>2, <2>10, <2>11 DEF Control
  <2>13. Bound(q)'
    BY <1>1, <1>2, <2>10, <2>11 DEF Bound
  <2>14. HasJoined(q)' /\ Moving(q)' /\ Counted(q)'
    BY <2>10, <2>11 DEF HasJoined, Moving, Counted
  <2>15. Home(u, o, role)'
    BY <2>3, <2>4 DEF Home
  <2>16. Created(q)'
    BY <2>3, <2>4, <2>8, <2>10, <2>11, <2>15 DEF Created, Home, ActiveOk, Memb
  <2>17. ReqOk(q)'
    BY <2>12, <2>13, <2>14, <2>16 DEF ReqOk
  <2>18. \A p \in Requests \ {q} : Creator(p) => req[p].user # r.user /\ req[p].user \notin S
    <3>1. ASSUME NEW p \in Requests, Creator(p) PROVE req[p].user \in Accounts \union gone
      BY <3>1, ReqFacts DEF Created
    <3> QED BY <1>4, <2>1, <2>7, <2>10, <3>1
  <2>19. \A v \in Accounts' \ fresh' : v \in Accounts \ fresh \/ ActiveOk(v)'
    BY <2>4, <2>8
  <2> QED BY <1>1, <2>8, <2>10, <2>11, <2>14, <2>17, <2>18, <2>19, TableStep
<1> QED BY <1>3, <1>4

\* Only the invitations change: each is what it was, but for its state.
LEMMA InvitesMove ==
  ASSUME WorkspacesInv, UNCHANGED <<account, orgs, lastOrg, members, fresh, overruled, gone>>,
         requests' \in 0..MaxRequests, breaks' \in 0..MaxBreaks,
         NEW i \in Invites, NEW t \in Invitation, invites' = [invites EXCEPT ![i] = t],
         t.org \in 1..lastOrg, t.state = "deleted" \/ t.org \in orgs,
         invites[i] # NoInvite =>
           t.email = invites[i].email /\ t.org = invites[i].org /\ t.role = invites[i].role,
         NEW S
  PROVE  Moves(S) /\ TablesOk' /\ MembersOk' /\ Accounts' = Accounts
<1>1. /\ invites \in [Invites -> Invitation \union {NoInvite}] /\ lastOrg \in Nat
      /\ t # NoInvite
  BY WorkspacesAssumption DEF WorkspacesInv, TablesOk
<1>2. invites'[i] = t /\ \A j \in Invites \ {i} : invites'[j] = invites[j]
  BY <1>1
<1>3. Accounts' = Accounts
  BY DEF Accounts
<1>4. TablesOk'
  <2>1. invites' \in [Invites -> Invitation \union {NoInvite}]
    BY <1>1
  <2>2. \A j \in Invites : invites'[j] # NoInvite =>
          /\ invites'[j].org \in 1..lastOrg
          /\ invites'[j].state = "deleted" \/ invites'[j].org \in orgs
    BY <1>2 DEF WorkspacesInv, TablesOk
  <2> QED BY <1>3, <2>1, <2>2 DEF WorkspacesInv, TablesOk
<1>5. MembersOk'
  BY <1>3 DEF WorkspacesInv, MembersOk
<1>6. \A v \in Users : UserKept(v)
  BY DEF UserKept, ActiveOk, Home, Memb
<1>7. Moves(S)
  <2>1. \A v, o, s : Memb(v, o, s) => Memb(v, o, s)'
    BY DEF Memb
  <2>2. \A j \in Invites : invites[j] # NoInvite =>
          /\ invites'[j] # NoInvite /\ invites'[j].email = invites[j].email
          /\ invites'[j].org = invites[j].org /\ invites'[j].role = invites[j].role
    BY <1>1, <1>2
  <2> QED BY <1>1, <1>3, <1>6, <2>1, <2>2 DEF Moves, Accounts
<1> QED BY <1>3, <1>4, <1>5, <1>7

\* No request moves.
LEMMA StandStep ==
  ASSUME WorkspacesInv, NEW S, Moves(S), S = {}, TablesOk', MembersOk', members' = members, req' = req,
         \A u \in Accounts' \ fresh' : u \in Accounts \ fresh \/ ActiveOk(u)',
         \A i \in Invites : UsedOne(i)' \/ invites'[i] = invites[i]
  PROVE  InvKept
<1>1. \A p \in Requests : Waits(p) /\ Counted(p)'
  <2> TAKE p \in Requests
  <2>1. Waits(p) /\ req'[p].stale = req[p].stale /\ Counted(p)
    BY DEF Waits, WorkspacesInv, ReqsOk
  <2> QED BY <2>1, CountedKept
<1>2. OneCreator' /\ req' \in [Requests -> ReqType]
  BY DEF WorkspacesInv, ReqsOk, OneCreator, Creator
<1>3. \A p \in Requests :
        /\ ReqOk(p)' \/ (Waits(p) /\ (Creator(p) => req[p].user \notin S))
        /\ Counted(p)'
  BY <1>1
<1> QED BY <1>2, <1>3, StepKept

\* An invitation expires or is revoked.
LEMMA InvitesEnd ==
  ASSUME WorkspacesInv, NEW i \in Invites, InviteExpires(i) \/ \E a \in Users : Revoke(a, i)
  PROVE  InvKept
<1>1. /\ UNCHANGED <<account, orgs, lastOrg, members, fresh, overruled, gone, req>>
      /\ requests' \in 0..MaxRequests /\ breaks' \in 0..MaxBreaks
      /\ invites[i] # NoInvite /\ invites[i].state # "deleted"
  BY WorkspacesAssumption DEF InviteExpires, Revoke, WorkspacesInv, TablesOk
<1>2. PICK state \in {"expired", "deleted"} : invites' = [invites EXCEPT ![i].state = state]
  BY DEF InviteExpires, Revoke
<1>3. PICK t : t = [invites[i] EXCEPT !.state = state]
  OBVIOUS
<1>4. invites[i] \in Invitation /\ invites[i].org \in 1..lastOrg /\ invites[i].org \in orgs
  BY <1>1 DEF WorkspacesInv, TablesOk
<1>5. /\ t \in Invitation /\ t.email = invites[i].email /\ t.org = invites[i].org
      /\ t.role = invites[i].role /\ t.state = state
  BY <1>3, <1>4 DEF Invitation
<1>6. /\ invites' = [invites EXCEPT ![i] = t] /\ invites'[i] = t
      /\ \A j \in Invites \ {i} : invites'[j] = invites[j]
  BY <1>2, <1>3 DEF WorkspacesInv, TablesOk
<1>7. PICK S : S = {}
  OBVIOUS
<1>8. Moves(S) /\ TablesOk' /\ MembersOk' /\ Accounts' = Accounts
  BY <1>1, <1>4, <1>5, <1>6, InvitesMove
<1>9. \A j \in Invites : UsedOne(j)' \/ invites'[j] = invites[j]
  <2>1. UsedOne(i)'
    BY <1>5, <1>6 DEF UsedOne
  <2> QED BY <1>6, <2>1
<1>10. \A u \in Accounts' \ fresh' : u \in Accounts \ fresh \/ ActiveOk(u)'
  BY <1>1, <1>8
<1> QED BY <1>1, <1>7, <1>8, <1>9, <1>10, StandStep

\* An invitation is made.
LEMMA InviteCreates ==
  ASSUME WorkspacesInv, NEW q \in Requests, NEW i \in Invites, InviteCreate(q, i)
  PROVE  InvKept
<1>1. /\ req[q] \in ReqType /\ Control(q) /\ req[q].pc = "inviteCreate"
      /\ requests' \in 0..MaxRequests /\ breaks' \in 0..MaxBreaks
      /\ UNCHANGED <<account, orgs, lastOrg, members, requests, breaks, fresh, overruled, gone>>
      /\ Ends(q) /\ invites[i] = NoInvite
  BY ReqFacts DEF InviteCreate, At
<1>2. CASE req[q].org \notin orgs
  BY <1>1, <1>2, EndsStep DEF InviteCreate, Quiet
<1>3. CASE req[q].org \in orgs
  <2>1. PICK t : t = [email |-> req[q].user, org |-> req[q].org, role |-> req[q].role,
                      state |-> "pending", created |-> FALSE]
    OBVIOUS
  <2>2. /\ t \in Invitation /\ t.org \in orgs /\ t.state = "pending" /\ t.org \in 1..lastOrg
    <3>1. /\ req[q].user \in Users /\ req[q].org \in Orgs /\ req[q].role \in Roles
          /\ req[q].org \in 1..lastOrg
      BY <1>1, <1>3, OrgsAre DEF Control, ReqType, WorkspacesInv, TablesOk
    <3> QED BY <1>3, <2>1, <3>1 DEF Invitation
  <2>3. /\ invites' = [invites EXCEPT ![i] = t] /\ invites'[i] = t
        /\ \A j \in Invites \ {i} : invites'[j] = invites[j]
    BY <1>3, <2>1 DEF InviteCreate, WorkspacesInv, TablesOk
  <2>4. PICK S : S = {}
    OBVIOUS
  <2>5. Moves(S) /\ TablesOk' /\ MembersOk' /\ Accounts' = Accounts
    BY <1>1, <2>2, <2>3, InvitesMove
  <2>6. \A j \in Invites : UsedOne(j)' \/ invites'[j] = invites[j]
    <3>1. UsedOne(i)'
      BY <2>2, <2>3 DEF UsedOne
    <3> QED BY <2>3, <3>1
  <2>7. \A u \in Accounts' \ fresh' : u \in Accounts \ fresh \/ ActiveOk(u)'
    BY <1>1, <2>5
  <2>8. req' = [req EXCEPT ![q] = Idle] /\ req'[q] = Idle
    BY <1>1, ReqFacts DEF Ends, Goes
  <2>9. ReqOk(q)' /\ Counted(q)' /\ ~Creator(q)'
    BY <2>8, IdleOk
  <2>10. \A p \in Requests \ {q} : Creator(p) => req[p].user \notin S
    BY <2>4
  <2> QED BY <1>1, <2>5, <2>6, <2>7, <2>8, <2>9, <2>10, IdleTyped, TableStep
<1> QED BY <1>2, <1>3

\* An invitation is marked by a request that has done everything it says.
LEMMA MarksUsed == ASSUME WorkspacesInv, NEW q \in Requests, MarkUsed(q) PROVE InvKept
<1>1. /\ req[q] \in ReqType /\ Control(q) /\ Bound(q) /\ HasJoined(q) /\ Created(q)
      /\ req[q].pc = "mark" /\ requests' \in 0..MaxRequests /\ breaks' \in 0..MaxBreaks
      /\ UNCHANGED <<account, orgs, lastOrg, members, requests, breaks, fresh, overruled, gone>>
      /\ Ends(q)
  BY ReqFacts DEF MarkUsed, At
<1>2. PICK i : i = req[q].inv
  OBVIOUS
<1>3. PICK u, o, role : u = req[q].user /\ o = req[q].org /\ role = req[q].role
  OBVIOUS
<1>4. /\ i \in Invites /\ invites[i] \in Invitation /\ invites[i].email = u
      /\ invites[i].org = o /\ invites[i].role = role /\ u \in Users
      /\ o \in 1..lastOrg /\ (invites[i].state = "deleted" \/ o \in orgs)
  BY <1>1, <1>2, <1>3 DEF Control, Bound, ReqType, WorkspacesInv, TablesOk
<1>5. CASE invites[i].state = "deleted"
  BY <1>1, <1>2, <1>5, EndsStep DEF MarkUsed, Quiet
<1>6. CASE invites[i].state # "deleted"
  <2>1. PICK creates : creates = (req[q].next = "verify")
    OBVIOUS
  <2>2. PICK t : t = [invites[i] EXCEPT !.state = "used", !.created = creates]
    OBVIOUS
  <2>3. /\ t \in Invitation /\ t.email = u /\ t.org = o /\ t.role = role
        /\ t.state = "used" /\ (t.created <=> creates)
    <3>1. creates \in BOOLEAN
      BY <2>1
    <3> QED BY <1>4, <2>2, <3>1 DEF Invitation
  <2>4. /\ invites' = [invites EXCEPT ![i] = t] /\ invites'[i] = t
        /\ \A j \in Invites \ {i} : invites'[j] = invites[j]
    <3>1. invites' = [invites EXCEPT ![i].state = "used", ![i].created = creates]
      BY <1>2, <1>6, <2>1 DEF MarkUsed
    <3> QED BY <1>4, <2>2, <3>1 DEF WorkspacesInv, TablesOk
  <2>5. PICK S : S = {}
    OBVIOUS
  <2>6. Moves(S) /\ TablesOk' /\ MembersOk' /\ Accounts' = Accounts
    BY <1>1, <1>4, <1>6, <2>3, <2>4, InvitesMove
  <2>7. \A j \in Invites : UsedOne(j)' \/ invites'[j] = invites[j]
    <3>1. u \notin gone => Memb(u, o, role)
      BY <1>1, <1>3, <1>4, <1>6 DEF HasJoined, Lasts
    <3>2. u \notin gone /\ creates => account[u].verified /\ account[u].server = o
      BY <1>1, <1>3, <1>4, <1>6, <2>1 DEF Created, Creator
    <3>3. UsedOne(i)'
      BY <1>1, <2>3, <2>4, <3>1, <3>2 DEF UsedOne, Memb
    <3> QED BY <2>4, <3>3
  <2>8. \A v \in Accounts' \ fresh' : v \in Accounts \ fresh \/ ActiveOk(v)'
    BY <1>1, <2>6
  <2>9. req' = [req EXCEPT ![q] = Idle] /\ req'[q] = Idle
    BY <1>1, ReqFacts DEF Ends, Goes
  <2>10. ReqOk(q)' /\ Counted(q)' /\ ~Creator(q)'
    BY <2>9, IdleOk
  <2>11. \A p \in Requests \ {q} : Creator(p) => req[p].user \notin S
    BY <2>5
  <2> QED BY <1>1, <2>6, <2>7, <2>8, <2>9, <2>10, <2>11, IdleTyped, TableStep
<1> QED BY <1>5, <1>6

\* A new organization.
LEMMA Founds == ASSUME WorkspacesInv, NEW q \in Requests, Found(q) PROVE InvKept
<1>1. /\ req[q] \in ReqType /\ Control(q) /\ req[q].pc = "found"
      /\ requests' \in 0..MaxRequests /\ breaks' \in 0..MaxBreaks
      /\ UNCHANGED <<account, members, invites, requests, breaks, fresh, overruled, gone>>
      /\ lastOrg < MaxOrgs /\ lastOrg' = lastOrg + 1 /\ orgs' = orgs \union {lastOrg'}
      /\ lastOrg \in Nat
  BY ReqFacts, WorkspacesAssumption DEF Found, At, WorkspacesInv, TablesOk
<1>2. PICK o, u : o = lastOrg + 1 /\ u = req[q].user
  OBVIOUS
<1>3. /\ o \in Orgs /\ o \in 1..lastOrg' /\ lastOrg' \in 0..MaxOrgs
      /\ 1..lastOrg \subseteq 1..lastOrg' /\ orgs' = orgs \union {o} /\ o \notin 1..lastOrg
  BY <1>1, <1>2, WorkspacesAssumption DEF Orgs
<1>4. Accounts' = Accounts
  BY <1>1 DEF Accounts
<1>5. TablesOk'
  <2>1. orgs' \subseteq 1..lastOrg'
    BY <1>3 DEF WorkspacesInv, TablesOk
  <2>2. \A v \in Accounts : {account[v].org, account[v].server} \subseteq orgs' \union {NoOrg}
    BY <1>3 DEF WorkspacesInv, TablesOk
  <2>3. \A i \in Invites : invites[i] # NoInvite =>
          /\ invites[i].org \in 1..lastOrg'
          /\ invites[i].state = "deleted" \/ invites[i].org \in orgs'
    BY <1>3 DEF WorkspacesInv, TablesOk
  <2> QED BY <1>1, <1>3, <1>4, <2>1, <2>2, <2>3 DEF WorkspacesInv, TablesOk
<1>6. MembersOk'
  BY <1>1, <1>3, <1>4 DEF WorkspacesInv, MembersOk
<1>7. PICK S : S = {}
  OBVIOUS
<1>8. Moves(S)
  <2>1. \A v \in Accounts : account[v].server # o
    <3>1. o \notin orgs /\ o # NoOrg
      BY <1>3, WorkspacesAssumption DEF WorkspacesInv, TablesOk
    <3> QED BY <3>1 DEF WorkspacesInv, TablesOk
  <2>2. \A v \in Accounts : UserKept(v)
    BY <1>1, <2>1 DEF UserKept, ActiveOk, Home, Memb
  <2>3. \A v, p, s : Memb(v, p, s) => Memb(v, p, s)'
    BY <1>1 DEF Memb
  <2>4. lastOrg <= lastOrg' /\ orgs' \intersect (1..lastOrg) \subseteq orgs
    BY <1>1, <1>3
  <2> QED BY <1>1, <1>4, <2>2, <2>3, <2>4 DEF Moves
<1>9. PICK pc \in {"join", "create"} : /\ pc = "join" <=> req[q].next = "idle"
                                       /\ Goes(q, [req[q] EXCEPT !.pc = pc, !.org = o])
  BY <1>1, <1>2 DEF Found
<1>10. PICK r : r = [req[q] EXCEPT !.pc = pc, !.org = o]
  OBVIOUS
<1>11. /\ r \in ReqType /\ r.pc = pc /\ r.user = u /\ r.org = o
       /\ r.inv = req[q].inv /\ r.next = req[q].next
  BY <1>1, <1>2, <1>3, <1>9, <1>10 DEF ReqType, Places
<1>12. req' = [req EXCEPT ![q] = r] /\ req'[q] = r
  BY <1>9, <1>10, ReqFacts DEF Goes
<1>13. req[q].inv = NoInvite /\ req[q].next \in {"idle", "server"} /\ u \in Users
  BY <1>1, <1>2 DEF Control
<1>14. Control(q)'
  BY <1>3, <1>9, <1>11, <1>12, <1>13 DEF Control
<1>15. Bound(q)' /\ HasJoined(q)' /\ Moving(q)' /\ Counted(q)'
  BY <1>9, <1>11, <1>12, <1>13 DEF Bound, HasJoined, Moving, Counted
<1>16. ~Creator(q)' /\ Created(q)'
  BY <1>9, <1>11, <1>12, <1>13 DEF Creator, Created
<1>17. ReqOk(q)'
  BY <1>14, <1>15, <1>16 DEF ReqOk
<1>18. \A v \in Accounts' \ fresh' : v \in Accounts \ fresh \/ ActiveOk(v)'
  BY <1>1, <1>4
<1>19. \A i \in Invites : UsedOne(i)' \/ invites'[i] = invites[i]
  BY <1>1
<1>20. \A p \in Requests \ {q} : Creator(p) => req[p].user \notin S
  BY <1>7
<1> QED BY <1>1, <1>5, <1>6, <1>8, <1>11, <1>12, <1>15, <1>16, <1>17, <1>18, <1>19, <1>20, TableStep

-----------------------------------------------------------------------------
(* Steps that change the memberships.                                      *)

\* No two rows of ms are one user's in one organization.
Single(ms) ==
  /\ ms \in Seq(Membership \union {Left})
  /\ \A k, j \in DOMAIN ms : ms[k].user # NoUser /\ ms[j].user = ms[k].user
                             /\ ms[j].org = ms[k].org => j = k

\* A row is added to the memberships.
LEMMA Appended ==
  ASSUME NEW ms, Single(ms), NEW m \in Membership, members' = Append(ms, m),
         \A k \in DOMAIN ms : ms[k].user # m.user \/ ms[k].org # m.org
  PROVE  /\ Single(members')
         /\ \A k \in DOMAIN members' : (k \in DOMAIN ms /\ members'[k] = ms[k]) \/ members'[k] = m
         /\ \A v, p, s : (\E k \in DOMAIN ms : ms[k].user = v /\ ms[k].org = p /\ ms[k].role = s)
                         => Memb(v, p, s)'
         /\ Memb(m.user, m.org, m.role)'
<1>1. ms \in Seq(Membership \union {Left}) /\ m \in Membership \union {Left}
  BY DEF Single
<1>2. PICK n : n = Len(ms)
  OBVIOUS
<1>3. /\ members' \in Seq(Membership \union {Left}) /\ Len(members') = n + 1 /\ n \in Nat
      /\ \A k \in 1..n : members'[k] = ms[k]
      /\ members'[n + 1] = m
  BY <1>1, <1>2, AppendProperties, LenProperties
<1>4. DOMAIN members' = 1..(n + 1) /\ DOMAIN ms = 1..n
  BY <1>1, <1>2, <1>3, LenProperties
<1>5. \A k \in DOMAIN members' : (k \in DOMAIN ms /\ members'[k] = ms[k]) \/ (k = n + 1 /\ members'[k] = m)
  BY <1>3, <1>4
<1>6. DOMAIN ms \subseteq DOMAIN members' /\ n + 1 \in DOMAIN members'
  BY <1>3, <1>4
<1>7. Single(members')
  <2> SUFFICES ASSUME NEW k \in DOMAIN members', NEW j \in DOMAIN members',
                      members'[k].user # NoUser, members'[j].user = members'[k].user,
                      members'[j].org = members'[k].org
               PROVE  j = k
    BY <1>3 DEF Single
  <2>1. CASE k \in DOMAIN ms /\ members'[k] = ms[k] /\ j \in DOMAIN ms /\ members'[j] = ms[j]
    BY <2>1 DEF Single
  <2> QED BY <1>5, <2>1
<1>8. Memb(m.user, m.org, m.role)'
  BY <1>3, <1>6 DEF Memb
<1> QED BY <1>3, <1>4, <1>5, <1>6, <1>7, <1>8 DEF Memb

\* The rows of users and organizations that are gone are empty.
LEMMA WithoutIs ==
  ASSUME MembersOk, NEW us, NEW os
  PROVE  LET ms == Without(us, os)
         IN /\ Single(ms)
            /\ DOMAIN ms = DOMAIN members
            /\ \A k \in DOMAIN ms : ms[k].user # NoUser =>
                 ms[k] = members[k] /\ ms[k].user \notin us /\ ms[k].org \notin os
            /\ \A v, p, s : v \notin us /\ p \notin os /\ Memb(v, p, s) =>
                 \E k \in DOMAIN ms : ms[k].user = v /\ ms[k].org = p /\ ms[k].role = s
<1>1. PICK ms : ms = Without(us, os)
  OBVIOUS
<1>2. /\ members \in Seq(Membership \union {Left}) /\ DOMAIN members = 1..Len(members)
      /\ Len(members) \in Nat
  BY LenProperties DEF MembersOk
<1>3. /\ ms = [k \in 1..Len(members) |->
                IF members[k].user \in us \/ members[k].org \in os THEN Left ELSE members[k]]
      /\ \A k \in 1..Len(members) : members[k] \in Membership \union {Left}
  BY <1>1, <1>2 DEF Without
<1>4. ms \in Seq(Membership \union {Left}) /\ DOMAIN ms = DOMAIN members
  <2>1. ms \in [1..Len(members) -> Membership \union {Left}]
    BY <1>3
  <2> QED BY <1>2, <1>3, <2>1, SeqDef
<1>5. \A k \in DOMAIN ms : ms[k].user # NoUser =>
        ms[k] = members[k] /\ ms[k].user \notin us /\ ms[k].org \notin os
  BY <1>2, <1>3, <1>4 DEF Left
<1>6. Single(ms)
  <2> SUFFICES ASSUME NEW k \in DOMAIN ms, NEW j \in DOMAIN ms, ms[k].user # NoUser,
                      ms[j].user = ms[k].user, ms[j].org = ms[k].org
               PROVE  j = k
    BY <1>4 DEF Single
  <2>1. ms[k] = members[k] /\ ms[j] = members[j]
    BY <1>5
  <2> QED BY <1>4, <2>1 DEF MembersOk
<1>7. \A v, p, s : v \notin us /\ p \notin os /\ Memb(v, p, s) =>
        \E k \in DOMAIN ms : ms[k].user = v /\ ms[k].org = p /\ ms[k].role = s
  BY <1>2, <1>3, <1>4 DEF Memb
<1> QED BY <1>1, <1>4, <1>5, <1>6, <1>7

\* The other requests know that what they have read may be old.
LEMMA MembersStep ==
  ASSUME WorkspacesInv, NEW S, Moves(S), S = {}, TablesOk', MembersOk',
         NEW q \in Requests, NEW r \in ReqType, NEW ms, MembersBecome(q, ms, r),
         \A u \in Accounts' \ fresh' : u \in Accounts \ fresh \/ ActiveOk(u)',
         \A i \in Invites : invites'[i] = invites[i] \/ invites'[i].state = "deleted",
         ReqOk(q)', Counted(q)', Creator(q)' => Creator(q) /\ r.user = req[q].user
  PROVE  InvKept
<1>1. req \in [Requests -> ReqType] /\ OneCreator
  BY DEF WorkspacesInv, ReqsOk
<1>2. /\ req'[q] = r
      /\ \A p \in Requests \ {q} : req'[p] = [req[p] EXCEPT !.stale = req[p].pc # "idle"]
      /\ req' = [p \in Requests |-> IF p = q THEN r
                                    ELSE [req[p] EXCEPT !.stale = req[p].pc # "idle"]]
  BY DEF MembersBecome
<1>3. ASSUME NEW p \in Requests \ {q}
      PROVE  Waits(p) /\ Counted(p)' /\ req'[p] \in ReqType
  <2>1. PICK b : b = (req[p].pc # "idle")
    OBVIOUS
  <2>2. PICK a : a = req[p]
    OBVIOUS
  <2>3. b \in BOOLEAN /\ a \in ReqType /\ req'[p] = [a EXCEPT !.stale = b]
    BY <1>1, <1>2, <2>1, <2>2
  <2>4. /\ req'[p] \in ReqType /\ req'[p].pc = a.pc /\ req'[p].user = a.user
        /\ req'[p].org = a.org /\ req'[p].role = a.role /\ req'[p].inv = a.inv
        /\ req'[p].next = a.next /\ req'[p].data = a.data /\ req'[p].stale = b
    BY <2>3 DEF ReqType
  <2>5. Waits(p)
    BY <2>2, <2>4 DEF Waits
  <2>6. Counted(p)'
    BY <2>1, <2>2, <2>4 DEF Counted
  <2> QED BY <2>4, <2>5, <2>6
<1>4. req' \in [Requests -> ReqType]
  BY <1>2, <1>3
<1>5. OneCreator'
  <2>1. Creator(q)' => \A p \in Requests \ {q} : Creator(p) => req[p].user # req'[q].user
    BY <1>1, <1>2 DEF OneCreator
  <2>2. \A p \in Requests \ {q} : Waits(p)
    BY <1>3
  <2> QED BY <2>1, <2>2, CreatorKept
<1>6. \A p \in Requests :
        /\ ReqOk(p)' \/ (Waits(p) /\ (Creator(p) => req[p].user \notin S))
        /\ Counted(p)'
  BY <1>3
<1>7. \A i \in Invites :
        \/ UsedOne(i)'
        \/ invites'[i] # NoInvite /\ invites'[i].state = "used" =>
             /\ invites[i] # NoInvite /\ invites[i].state = "used"
             /\ invites'[i].created = invites[i].created
  OBVIOUS
<1> QED BY <1>4, <1>5, <1>6, <1>7, StepKept

\* What is left to show of memberships that are single.
LEMMA SingleIs ==
  ASSUME Single(members'),
         \A k \in DOMAIN members' : members'[k].user # NoUser =>
           members'[k].user \in Accounts' /\ members'[k].org \in orgs'
  PROVE  MembersOk'
BY DEF Single, MembersOk

\* A user becomes a member.
LEMMA Joins == ASSUME WorkspacesInv, NEW q \in Requests, Join(q) PROVE InvKept
<1>1. /\ req[q] \in ReqType /\ Control(q) /\ Bound(q) /\ Created(q) /\ req[q].pc = "join"
      /\ requests' \in 0..MaxRequests /\ breaks' \in 0..MaxBreaks /\ MembersOk
      /\ UNCHANGED <<account, orgs, lastOrg, invites, requests, breaks, overruled, gone>>
  BY ReqFacts DEF Join, At, WorkspacesInv
<1>2. PICK u, o, role, next : /\ u = req[q].user /\ o = req[q].org /\ role = req[q].role
                              /\ next = req[q].next
  OBVIOUS
<1>3. CASE u \notin Accounts \/ o \notin orgs \/ Joined(u, o)
  BY <1>1, <1>2, <1>3, EndsStep DEF Join, Quiet
<1>4. CASE u \in Accounts /\ o \in orgs /\ ~Joined(u, o)
  <2>1. PICK m : m = [user |-> u, org |-> o, role |-> role]
    OBVIOUS
  <2>2. PICK r : r = IF next = "idle" THEN Idle ELSE [req[q] EXCEPT !.pc = next]
    OBVIOUS
  <2>3. /\ MembersBecome(q, Append(members, m), r)
        /\ fresh' = IF next \in {"server", "verify"} THEN fresh \ {u} ELSE fresh
    BY <1>2, <1>4, <2>1, <2>2 DEF Join
  <2>4. /\ m \in Membership /\ m.user = u /\ m.org = o /\ m.role = role /\ o # NoOrg
        /\ u \in Users /\ u \notin gone
    <3>1. u \in Users /\ o \in Orgs /\ role \in Roles
      BY <1>1, <1>2, <1>4, OrgsAre DEF Control, ReqType
    <3> QED BY <1>4, <2>1, <3>1, OrgsAre DEF Membership, WorkspacesInv, TablesOk
  <2>5. Single(members) /\ \A k \in DOMAIN members : members[k].user # u \/ members[k].org # o
    BY <1>1, <1>4 DEF Single, MembersOk, Joined, MembersOf
  <2>6. members' = Append(members, m)
    BY <2>3 DEF MembersBecome
  <2>7. /\ Single(members')
        /\ \A k \in DOMAIN members' : (k \in DOMAIN members /\ members'[k] = members[k]) \/ members'[k] = m
        /\ \A v, p, s : Memb(v, p, s) => Memb(v, p, s)'
        /\ Memb(u, o, role)'
    BY <2>4, <2>5, <2>6, Appended DEF Memb
  <2>8. Accounts' = Accounts
    BY <1>1 DEF Accounts
  <2>9. TablesOk'
    BY <1>1, <2>8 DEF WorkspacesInv, TablesOk
  <2>10. MembersOk'
    <3>1. \A k \in DOMAIN members' : members'[k].user # NoUser =>
            members'[k].user \in Accounts' /\ members'[k].org \in orgs'
      BY <1>1, <1>4, <2>4, <2>7, <2>8 DEF MembersOk
    <3> QED BY <2>7, <3>1, SingleIs
  <2>11. \A v \in Users : UserKept(v)
    BY <1>1, <2>7 DEF UserKept, ActiveOk, Home
  <2>12. PICK S : S = {}
    OBVIOUS
  <2>13. Moves(S)
    <3>1. lastOrg \in Nat
      BY WorkspacesAssumption DEF WorkspacesInv, TablesOk
    <3> QED BY <1>1, <2>7, <2>8, <2>11, <3>1 DEF Moves, Accounts
  <2>14. Creator(q) <=> next \in {"server", "verify"}
    BY <1>1, <1>2 DEF Creator
  <2>15. ASSUME next \in {"server", "verify"} PROVE ActiveOk(u)'
    <3>1. ActiveOk(u) \/ Home(u, o, role)
      BY <1>1, <1>2, <1>4, <2>14, <2>15 DEF Created
    <3>2. CASE ActiveOk(u)
      BY <2>4, <2>11, <3>2 DEF UserKept
    <3>3. CASE Home(u, o, role)
      <4>1. role \in Roles
        BY <2>4, <2>1 DEF Membership
      <4> QED BY <1>1, <2>7, <3>3, <4>1 DEF Home, ActiveOk
    <3> QED BY <3>1, <3>2, <3>3
  <2>16. \A v \in Accounts' \ fresh' : v \in Accounts \ fresh \/ ActiveOk(v)'
    BY <2>3, <2>8, <2>15
  <2>17. req'[q] = r
    BY <2>3 DEF MembersBecome
  <2>18. CASE next = "idle"
    <3>1. r = Idle
      BY <2>2, <2>18
    <3>2. ReqOk(q)' /\ Counted(q)' /\ ~Creator(q)'
      BY <2>17, <3>1, IdleOk
    <3>3. r \in ReqType
      BY <3>1, IdleTyped
    <3> QED BY <1>1, <2>3, <2>9, <2>10, <2>12, <2>13, <2>16, <3>2, <3>3, MembersStep
  <2>19. CASE next # "idle"
    <3>1. /\ r \in ReqType /\ r.pc = next /\ r.user = u /\ r.org = o /\ r.role = role
          /\ r.inv = req[q].inv /\ r.next = next
      BY <1>1, <1>2, <2>2, <2>19 DEF ReqType, Places
    <3>2. next \in {"server", "verify", "switchRead"}
      BY <1>1, <1>2, <2>19 DEF ReqType
    <3>3. Control(q)'
      BY <1>1, <1>2, <2>4, <2>17, <3>1, <3>2 DEF Control
    <3>4. Bound(q)'
      BY <1>1, <1>2, <2>17, <3>1 DEF Bound
    <3>5. HasJoined(q)'
      BY <2>7, <2>17, <3>1 DEF HasJoined, Lasts, Memb
    <3>6. next \in {"server", "verify"} => account[u].server = NoOrg
      BY <1>1, <1>2, <1>4, <2>14 DEF Created
    <3>7. Created(q)'
      BY <1>1, <1>4, <2>8, <2>17, <3>1, <3>2, <3>6 DEF Created, Creator
    <3>8. Moving(q)' /\ Counted(q)'
      BY <2>17, <3>1, <3>2 DEF Moving, Counted
    <3>9. ReqOk(q)'
      BY <3>3, <3>4, <3>5, <3>7, <3>8 DEF ReqOk
    <3>10. Creator(q)' => Creator(q) /\ r.user = req[q].user
      BY <1>2, <2>14, <2>17, <3>1 DEF Creator
    <3>11. \A i \in Invites : invites'[i] = invites[i] \/ invites'[i].state = "deleted"
      BY <1>1
    <3> QED BY <2>3, <2>9, <2>10, <2>12, <2>13, <2>16, <3>1, <3>8, <3>9, <3>10, <3>11, MembersStep
  <2> QED BY <2>18, <2>19
<1> QED BY <1>3, <1>4

-----------------------------------------------------------------------------
(* Deletions.                                                              *)

\* What the foreign keys do to the row of a user.
LEMMA ClearedIs ==
  ASSUME NEW a \in Account, NEW os
  PROVE  LET b == Cleared(a, os)
         IN /\ b \in Account /\ b.role = a.role /\ b.verified = a.verified
            /\ b.org = IF a.org \in os THEN NoOrg ELSE a.org
            /\ b.server = IF a.server \in os THEN NoOrg ELSE a.server
<1>1. a # NoUser
  BY WorkspacesAssumption
<1> QED BY <1>1 DEF Cleared, Account

\* What the foreign keys do to the invitations.
LEMMA RevokedIs ==
  ASSUME WorkspacesInv, NEW os, invites' = Revoked(os)
  PROVE  /\ invites' \in [Invites -> Invitation \union {NoInvite}]
         /\ \A i \in Invites :
              /\ invites'[i] = NoInvite <=> invites[i] = NoInvite
              /\ invites'[i] = invites[i] \/ invites'[i].state = "deleted"
              /\ invites[i] # NoInvite =>
                   /\ invites'[i].email = invites[i].email /\ invites'[i].org = invites[i].org
                   /\ invites'[i].role = invites[i].role
                   /\ invites[i].org \in os => invites'[i].state = "deleted"
                   /\ invites[i].state = "deleted" => invites'[i].state = "deleted"
<1>1. invites \in [Invites -> Invitation \union {NoInvite}]
  BY DEF WorkspacesInv, TablesOk
<1>2. ASSUME NEW t \in Invitation
      PROVE  LET s == [t EXCEPT !.state = "deleted"]
             IN /\ s \in Invitation /\ s.email = t.email /\ s.org = t.org /\ s.role = t.role
                /\ s.state = "deleted" /\ s # NoInvite
  <2>1. [t EXCEPT !.state = "deleted"] \in Invitation
    BY DEF Invitation
  <2>2. [t EXCEPT !.state = "deleted"] # NoInvite
    BY <2>1, WorkspacesAssumption
  <2> QED BY <2>1, <2>2 DEF Invitation
<1>3. \A i \in Invites : invites'[i] = IF invites[i] # NoInvite /\ invites[i].org \in os
                                       THEN [invites[i] EXCEPT !.state = "deleted"]
                                       ELSE invites[i]
  BY DEF Revoked
<1>4. ASSUME NEW i \in Invites
      PROVE  /\ invites'[i] \in Invitation \union {NoInvite}
             /\ invites'[i] = NoInvite <=> invites[i] = NoInvite
             /\ invites'[i] = invites[i] \/ invites'[i].state = "deleted"
             /\ invites[i] # NoInvite =>
                  /\ invites'[i].email = invites[i].email /\ invites'[i].org = invites[i].org
                  /\ invites'[i].role = invites[i].role
                  /\ invites[i].org \in os => invites'[i].state = "deleted"
                  /\ invites[i].state = "deleted" => invites'[i].state = "deleted"
  <2>1. CASE invites[i] # NoInvite /\ invites[i].org \in os
    <3>1. PICK t \in Invitation : t = invites[i]
      BY <1>1, <2>1
    <3>2. invites'[i] = [t EXCEPT !.state = "deleted"]
      BY <1>3, <2>1, <3>1
    <3> QED BY <1>2, <2>1, <3>1, <3>2
  <2>2. CASE ~(invites[i] # NoInvite /\ invites[i].org \in os)
    BY <1>1, <1>3, <2>2
  <2> QED BY <2>1, <2>2
<1>5. invites' = [i \in Invites |-> invites'[i]]
  BY DEF Revoked
<1> QED BY <1>4, <1>5

\* A user goes, and some organizations with it.
LEMMA DeletesIs ==
  ASSUME WorkspacesInv, NEW q \in Requests, NEW u \in Accounts, NEW os, os \subseteq orgs,
         Deletes(q, u, os), UNCHANGED <<lastOrg, requests, breaks>>
  PROVE  InvKept
<1>1. /\ account \in [Users -> Account \union {NoUser}] /\ lastOrg \in Nat /\ u \in Users
      /\ MembersOk /\ NoOrg \notin orgs /\ os \subseteq Orgs
      /\ requests' \in 0..MaxRequests /\ breaks' \in 0..MaxBreaks
  BY OrgsAre, WorkspacesAssumption DEF WorkspacesInv, TablesOk, Accounts
<1>2. /\ orgs' = orgs \ os
      /\ account' = [v \in Users |-> IF v = u THEN NoUser ELSE Cleared(account[v], os)]
      /\ MembersBecome(q, Without({u}, os), Idle) /\ members' = Without({u}, os)
      /\ invites' = Revoked(os)
      /\ fresh' = fresh \ {u} /\ overruled' = overruled \ {u} /\ gone' = gone \union {u}
  BY DEF Deletes, MembersBecome
<1>3. /\ account'[u] = NoUser
      /\ \A v \in Users \ {u} : account[v] = NoUser => account'[v] = NoUser
      /\ \A v \in Accounts \ {u} :
           /\ account'[v] \in Account /\ account'[v] # NoUser
           /\ account'[v].role = account[v].role /\ account'[v].verified = account[v].verified
           /\ account'[v].org = IF account[v].org \in os THEN NoOrg ELSE account[v].org
           /\ account'[v].server = IF account[v].server \in os THEN NoOrg ELSE account[v].server
  <2>1. account'[u] = NoUser /\ \A v \in Users \ {u} : account'[v] = Cleared(account[v], os)
    BY <1>1, <1>2
  <2>2. \A v \in Users \ {u} : account[v] = NoUser => account'[v] = NoUser
    BY <2>1 DEF Cleared
  <2>3. ASSUME NEW v \in Accounts \ {u}
        PROVE  /\ account'[v] \in Account /\ account'[v] # NoUser
               /\ account'[v].role = account[v].role /\ account'[v].verified = account[v].verified
               /\ account'[v].org = IF account[v].org \in os THEN NoOrg ELSE account[v].org
               /\ account'[v].server = IF account[v].server \in os THEN NoOrg ELSE account[v].server
    <3>1. account[v] \in Account /\ account'[v] = Cleared(account[v], os)
      BY <1>1, <2>1 DEF Accounts
    <3>2. account'[v] \in Account
      BY <3>1, ClearedIs
    <3> QED BY <3>1, <3>2, ClearedIs, WorkspacesAssumption
  <2> QED BY <2>1, <2>2, <2>3
<1>4. Accounts' = Accounts \ {u}
  BY <1>3 DEF Accounts
<1>5. /\ Single(members')
      /\ \A k \in DOMAIN members' : members'[k].user # NoUser =>
           /\ k \in DOMAIN members /\ members'[k] = members[k]
           /\ members'[k].user \notin {u} /\ members'[k].org \notin os
      /\ \A v, p, s : v \notin {u} /\ p \notin os /\ Memb(v, p, s) => Memb(v, p, s)'
  BY <1>1, <1>2, WithoutIs DEF Memb
<1>6. MembersOk'
  <2>1. \A k \in DOMAIN members' : members'[k].user # NoUser =>
          members'[k].user \in Accounts' /\ members'[k].org \in orgs'
    BY <1>1, <1>2, <1>4, <1>5 DEF MembersOk
  <2> QED BY <1>5, <2>1, SingleIs
<1>7. /\ invites' \in [Invites -> Invitation \union {NoInvite}]
      /\ \A i \in Invites :
           /\ invites'[i] = NoInvite <=> invites[i] = NoInvite
           /\ invites'[i] = invites[i] \/ invites'[i].state = "deleted"
           /\ invites[i] # NoInvite =>
                /\ invites'[i].email = invites[i].email /\ invites'[i].org = invites[i].org
                /\ invites'[i].role = invites[i].role
                /\ invites[i].org \in os => invites'[i].state = "deleted"
                /\ invites[i].state = "deleted" => invites'[i].state = "deleted"
  BY <1>2, RevokedIs
<1>8. TablesOk'
  <2>1. account' \in [Users -> Account \union {NoUser}]
    BY <1>2, <1>3 DEF Accounts
  <2>2. \A v \in Accounts' : {account'[v].org, account'[v].server} \subseteq orgs' \union {NoOrg}
    BY <1>2, <1>3, <1>4 DEF WorkspacesInv, TablesOk
  <2>3. \A i \in Invites : invites'[i] # NoInvite =>
          /\ invites'[i].org \in 1..lastOrg'
          /\ invites'[i].state = "deleted" \/ invites'[i].org \in orgs'
    BY <1>2, <1>7 DEF WorkspacesInv, TablesOk
  <2>4. gone' \intersect Accounts' = {}
    BY <1>2, <1>4 DEF WorkspacesInv, TablesOk
  <2>5. orgs' \subseteq 1..lastOrg'
    BY <1>2 DEF WorkspacesInv, TablesOk
  <2>6. lastOrg' = lastOrg /\ lastOrg \in 0..MaxOrgs
    BY DEF WorkspacesInv, TablesOk
  <2> QED BY <1>1, <1>7, <2>1, <2>2, <2>3, <2>4, <2>5, <2>6 DEF TablesOk
<1>9. ASSUME NEW v \in Accounts' PROVE UserKept(v)
  <2>1. v \in Users /\ v # u /\ v \in Accounts
    BY <1>4 DEF Accounts
  <2>2. ActiveOk(v) => ActiveOk(v)'
    BY <1>2, <1>3, <1>5, <2>1 DEF ActiveOk
  <2>3. \A o \in orgs' : \A r : Home(v, o, r) => Home(v, o, r)'
    BY <1>2, <1>3, <2>1 DEF Home
  <2>4. account[v].server \in orgs' => account'[v].server = account[v].server
    BY <1>2, <1>3, <2>1
  <2> QED BY <1>3, <2>1, <2>2, <2>3, <2>4 DEF UserKept
<1>10. PICK S : S = {}
  OBVIOUS
<1>11. Moves(S)
  <2>1. \A v \in Users, p \in orgs', s \in Roles : v \notin gone' /\ Memb(v, p, s) => Memb(v, p, s)'
    BY <1>2, <1>5
  <2>2. \A v \in Accounts \intersect Accounts' : account[v].server = NoOrg => account'[v].server = NoOrg
    BY <1>3, <1>4
  <2>3. Accounts \ Accounts' \subseteq gone'
    BY <1>2, <1>4
  <2> QED BY <1>1, <1>2, <1>7, <1>9, <2>1, <2>2, <2>3 DEF Moves
<1>12. \A v \in Accounts' \ fresh' : v \in Accounts \ fresh \/ ActiveOk(v)'
  BY <1>2, <1>4
<1>13. req'[q] = Idle
  BY <1>2 DEF MembersBecome
<1>14. ReqOk(q)' /\ Counted(q)' /\ ~Creator(q)'
  BY <1>13, IdleOk
<1> QED BY <1>2, <1>6, <1>7, <1>8, <1>10, <1>11, <1>12, <1>14, IdleTyped, MembersStep

\* An admin removes a user, or a user deletes itself and the organizations it is alone in.
LEMMA Removes ==
  ASSUME WorkspacesInv, NEW q \in Requests, Remove(q) \/ SelfDelete(q)
  PROVE  InvKept
<1>1. /\ requests' \in 0..MaxRequests /\ breaks' \in 0..MaxBreaks
      /\ UNCHANGED <<lastOrg, requests, breaks>>
  BY ReqFacts DEF Remove, SelfDelete
<1>2. CASE Ends(q) /\ UNCHANGED <<account, orgs, members, invites, fresh, overruled, gone>>
  BY <1>1, <1>2, EndsStep DEF Quiet
<1>3. CASE req[q].user \in Accounts /\ Deletes(q, req[q].user, {})
  BY <1>1, <1>3, DeletesIs
<1>4. CASE /\ req[q].user \in Accounts /\ req[q].data.alone \subseteq orgs
           /\ Deletes(q, req[q].user, req[q].data.alone)
  BY <1>1, <1>4, DeletesIs
<1> QED BY <1>2, <1>3, <1>4 DEF Remove, SelfDelete

\* An organization goes; its users go to what was read, or to nothing, and the
\* one who deletes it to an organization of its own if it has no other.
LEMMA DeletesOrg == ASSUME WorkspacesInv, NEW q \in Requests, DeleteOrg(q) PROVE InvKept
<1>1. /\ req[q] \in ReqType /\ Control(q) /\ Moving(q) /\ req[q].pc = "deleteOrg"
      /\ requests' \in 0..MaxRequests /\ breaks' \in 0..MaxBreaks
      /\ UNCHANGED <<requests, breaks, gone>>
      /\ account \in [Users -> Account \union {NoUser}] /\ lastOrg \in Nat
      /\ MembersOk /\ NoOrg \notin orgs /\ orgs \subseteq 1..lastOrg /\ lastOrg <= MaxOrgs
      /\ MaxOrgs \in Nat /\ orgs \subseteq Orgs
  BY ReqFacts, OrgsAre, WorkspacesAssumption DEF DeleteOrg, At, WorkspacesInv, TablesOk
<1>2. PICK u, o, next : u = req[q].user /\ o = req[q].org /\ next = req[q].data
  OBVIOUS
<1>3. PICK own : own = (next[u] = NoOrg)
  OBVIOUS
<1>4. PICK new : new = [user |-> u, org |-> lastOrg + 1, role |-> "ADMIN"]
  OBVIOUS
<1>5. PICK goal : goal = [v \in DOMAIN next |-> IF v = u /\ own THEN new ELSE next[v]]
  OBVIOUS
<1>6. PICK left : left = Without({}, {o})
  OBVIOUS
<1>7. CASE \/ o \notin orgs \/ ~(DOMAIN next \subseteq Accounts)
           \/ \E v \in DOMAIN next : next[v] # NoOrg /\ next[v].org \notin orgs
  <2>1. Ends(q) /\ UNCHANGED <<account, orgs, lastOrg, members, invites, overruled, fresh>>
    BY <1>2, <1>7 DEF DeleteOrg
  <2> QED BY <1>1, <2>1, EndsStep DEF Quiet
<1>8. CASE /\ o \in orgs /\ DOMAIN next \subseteq Accounts
           /\ \A v \in DOMAIN next : next[v] # NoOrg => next[v].org \in orgs
  <2>1. /\ own => lastOrg < MaxOrgs
        /\ lastOrg' = IF own THEN lastOrg + 1 ELSE lastOrg
        /\ orgs' = (orgs \ {o}) \union (IF own THEN {lastOrg'} ELSE {})
        /\ MembersBecome(q, IF own THEN Append(left, new) ELSE left, Idle)
        /\ account' = [v \in Users |->
             Cleared(IF v \in DOMAIN next THEN Migrated(account[v], goal[v]) ELSE account[v], {o})]
        /\ invites' = Revoked({o})
        /\ overruled' = overruled \ {v \in DOMAIN next : goal[v] # NoOrg}
        /\ fresh' = {v \in fresh : v \notin DOMAIN next}
    BY <1>2, <1>3, <1>4, <1>5, <1>6, <1>8 DEF DeleteOrg
  <2>2. /\ lastOrg' \in 0..MaxOrgs /\ lastOrg <= lastOrg' /\ 1..lastOrg \subseteq 1..lastOrg'
        /\ orgs' \subseteq 1..lastOrg' /\ orgs' \intersect (1..lastOrg) = orgs \ {o}
        /\ orgs \ {o} \subseteq orgs' /\ NoOrg \notin orgs' /\ o \notin orgs' /\ o # NoOrg
        /\ orgs' \subseteq Orgs
    <3>1. CASE own
      <4>1. /\ lastOrg' = lastOrg + 1 /\ lastOrg' \in 1..MaxOrgs
            /\ orgs' = (orgs \ {o}) \union {lastOrg'} /\ lastOrg' \notin 1..lastOrg
            /\ 1..lastOrg \subseteq 1..lastOrg' /\ lastOrg' \in 1..lastOrg'
        BY <1>1, <2>1, <3>1
      <4>2. lastOrg' \in Orgs /\ o # lastOrg' /\ o # NoOrg
        BY <1>1, <1>8, <4>1, OrgsAre DEF Orgs
      <4>3. lastOrg' \in 0..MaxOrgs /\ lastOrg <= lastOrg'
        BY <1>1, <4>1
      <4>4. NoOrg # lastOrg'
        BY <4>2, WorkspacesAssumption
      <4>5. orgs' \subseteq 1..lastOrg' /\ orgs' \intersect (1..lastOrg) = orgs \ {o}
        BY <1>1, <4>1
      <4> QED BY <1>1, <1>8, <4>1, <4>2, <4>3, <4>4, <4>5
    <3>2. CASE ~own
      <4>1. lastOrg' = lastOrg /\ orgs' = orgs \ {o}
        BY <2>1, <3>2
      <4>2. lastOrg' \in 0..MaxOrgs /\ lastOrg <= lastOrg'
        BY <1>1, <4>1
      <4> QED BY <1>1, <1>8, <4>1, <4>2
    <3> QED BY <3>1, <3>2
  <2>3. own => new \in Membership /\ new.user = u /\ new.org \in orgs' /\ new.org \notin orgs
               /\ new.role = "ADMIN" /\ u \in Accounts /\ new # NoOrg
    <3>1. u \in DOMAIN next /\ u \in Users
      BY <1>1, <1>2 DEF Moving, Control
    <3>2. own => lastOrg + 1 \in Orgs /\ lastOrg + 1 \in orgs' /\ lastOrg + 1 \notin orgs
      BY <1>1, <2>1, <2>2
    <3>3. own => new \in Membership
      BY <1>4, <3>1, <3>2 DEF Membership, Roles
    <3> QED BY <1>4, <1>8, <3>1, <3>2, <3>3, WorkspacesAssumption
  <2>4. /\ Single(left) /\ DOMAIN left = DOMAIN members
        /\ \A k \in DOMAIN left : left[k].user # NoUser =>
             left[k] = members[k] /\ left[k].org \notin {o}
        /\ \A v, p, s : p \notin {o} /\ Memb(v, p, s) =>
             \E k \in DOMAIN left : left[k].user = v /\ left[k].org = p /\ left[k].role = s
    BY <1>1, <1>6, WithoutIs
  <2>5. /\ Single(members')
        /\ \A k \in DOMAIN members' : members'[k].user # NoUser =>
             \/ k \in DOMAIN members /\ members'[k] = members[k] /\ members'[k].org # o
             \/ own /\ members'[k] = new
        /\ \A v, p, s : p # o /\ Memb(v, p, s) => Memb(v, p, s)'
        /\ own => Memb(u, new.org, "ADMIN")'
    <3>1. CASE ~own
      <4>1. members' = left
        BY <2>1, <3>1 DEF MembersBecome
      <4> QED BY <2>4, <3>1, <4>1 DEF Memb
    <3>2. CASE own
      <4>1. members' = Append(left, new) /\ new \in Membership
        BY <2>1, <2>3, <3>2 DEF MembersBecome
      <4>2. \A k \in DOMAIN left : left[k].user # new.user \/ left[k].org # new.org
        <5>1. new.user # NoUser
          BY <2>3, <3>2, WorkspacesAssumption DEF Membership
        <5>2. \A k \in DOMAIN left : left[k].user # NoUser => left[k].org \in orgs
          BY <1>1, <2>4 DEF MembersOk
        <5> QED BY <2>3, <3>2, <5>1, <5>2
      <4>3. /\ Single(members')
            /\ \A k \in DOMAIN members' :
                 (k \in DOMAIN left /\ members'[k] = left[k]) \/ members'[k] = new
            /\ \A v, p, s : (\E k \in DOMAIN left : left[k].user = v /\ left[k].org = p /\ left[k].role = s)
                            => Memb(v, p, s)'
            /\ Memb(new.user, new.org, new.role)'
        BY <2>4, <4>1, <4>2, Appended
      <4>4. Memb(u, new.org, "ADMIN")'
        BY <2>3, <3>2, <4>3 DEF Memb
      <4>5. \A v, p, s : p # o /\ Memb(v, p, s) => Memb(v, p, s)'
        BY <2>4, <4>3
      <4>6. \A k \in DOMAIN members' : members'[k].user # NoUser =>
              \/ k \in DOMAIN members /\ members'[k] = members[k] /\ members'[k].org # o
              \/ own /\ members'[k] = new
        BY <2>4, <3>2, <4>3
      <4> QED BY <4>3, <4>4, <4>5, <4>6
    <3> QED BY <3>1, <3>2
  <2>6. \* who goes where
        ASSUME NEW v \in DOMAIN next
        PROVE  /\ v \in Accounts /\ goal[v] # NoOrg =>
                    /\ goal[v] \in Membership /\ goal[v].org \in orgs' /\ goal[v].org # o
                    /\ Memb(v, goal[v].org, goal[v].role)'
               /\ v \in Accounts
    <3>1. v \in Accounts /\ v \in Users /\ v \notin gone
      BY <1>8 DEF Accounts, WorkspacesInv, TablesOk
    <3>2. CASE v = u /\ own
      <4>1. goal[v] = new
        BY <1>5, <3>2
      <4> QED BY <1>8, <2>2, <2>3, <2>5, <3>1, <3>2, <4>1
    <3>3. CASE ~(v = u /\ own)
      <4>1. goal[v] = next[v]
        BY <1>5, <3>3
      <4>2. CASE next[v] # NoOrg
        <5>1. /\ next[v].org \in orgs /\ next[v].org # o
              /\ Lasts(v, next[v].org, next[v].role) /\ next[v] \in Membership
          BY <1>1, <1>2, <1>8, <4>2 DEF Moving
        <5>2. Memb(v, next[v].org, next[v].role)
          BY <3>1, <5>1 DEF Lasts
        <5>3. PICK m : m = next[v]
          OBVIOUS
        <5>4. Memb(v, m.org, m.role)'
          BY <2>5, <5>1, <5>2, <5>3
        <5> QED BY <2>2, <3>1, <4>1, <5>1, <5>3, <5>4 DEF Memb
      <4> QED BY <3>1, <4>1, <4>2
    <3> QED BY <3>2, <3>3
  <2>7. ASSUME NEW v \in Accounts
        PROVE  /\ account'[v] \in Account /\ account'[v] # NoUser
               /\ account'[v].verified = account[v].verified
               /\ account'[v].server = IF account[v].server = o THEN NoOrg ELSE account[v].server
               /\ {account'[v].org, account'[v].server} \subseteq orgs' \union {NoOrg}
               /\ v \in DOMAIN next => ActiveOk(v)'
               /\ v \notin DOMAIN next =>
                    /\ account'[v].role = account[v].role
                    /\ account'[v].org = IF account[v].org = o THEN NoOrg ELSE account[v].org
    <3>1. /\ account[v] \in Account /\ v \in Users
          /\ {account[v].org, account[v].server} \subseteq orgs \union {NoOrg}
      BY UserOrg DEF WorkspacesInv, TablesOk
    <3>2. PICK b : b = IF v \in DOMAIN next THEN Migrated(account[v], goal[v]) ELSE account[v]
      OBVIOUS
    <3>3. /\ b \in Account /\ b.server = account[v].server /\ b.verified = account[v].verified
          /\ v \in DOMAIN next /\ goal[v] = NoOrg => b.org = NoOrg
          /\ v \in DOMAIN next /\ goal[v] # NoOrg => b.org = goal[v].org /\ b.role = goal[v].role
          /\ v \notin DOMAIN next => b = account[v]
      <4>1. CASE v \notin DOMAIN next
        BY <3>1, <3>2, <4>1
      <4>2. CASE v \in DOMAIN next /\ goal[v] = NoOrg
        <5>1. b = [account[v] EXCEPT !.org = NoOrg]
          BY <3>2, <4>2 DEF Migrated
        <5> QED BY <3>1, <4>2, <5>1 DEF Account
      <4>3. CASE v \in DOMAIN next /\ goal[v] # NoOrg
        <5>1. b = [account[v] EXCEPT !.org = goal[v].org, !.role = goal[v].role]
          BY <3>2, <4>3 DEF Migrated
        <5>2. goal[v].org \in Orgs /\ goal[v].role \in Roles
          BY <2>6, <4>3 DEF Membership
        <5> QED BY <3>1, <4>3, <5>1, <5>2 DEF Account
      <4> QED BY <4>1, <4>2, <4>3
    <3>4. account'[v] = Cleared(b, {o})
      BY <2>1, <3>1, <3>2
    <3>5. /\ account'[v] \in Account /\ account'[v].role = b.role
          /\ account'[v].verified = b.verified
          /\ account'[v].org = IF b.org \in {o} THEN NoOrg ELSE b.org
          /\ account'[v].server = IF b.server \in {o} THEN NoOrg ELSE b.server
      BY <3>3, <3>4, ClearedIs
    <3>6. {account'[v].org, account'[v].server} \subseteq orgs' \union {NoOrg}
      <4>1. account'[v].server \in orgs' \union {NoOrg}
        BY <2>2, <3>1, <3>3, <3>5
      <4>2. account'[v].org \in orgs' \union {NoOrg}
        BY <2>2, <2>6, <3>1, <3>3, <3>5
      <4> QED BY <4>1, <4>2
    <3>7. v \in DOMAIN next => ActiveOk(v)'
      <4> SUFFICES ASSUME v \in DOMAIN next PROVE ActiveOk(v)'
        OBVIOUS
      <4>1. CASE goal[v] = NoOrg
        BY <2>2, <3>3, <3>5, <4>1 DEF ActiveOk
      <4>2. CASE goal[v] # NoOrg
        <5>1. PICK m : m = goal[v]
          OBVIOUS
        <5>2. m \in Membership /\ m.org # o /\ Memb(v, m.org, m.role)'
          BY <2>6, <4>2, <5>1 DEF Memb
        <5>3. account'[v].org = m.org /\ account'[v].role = m.role /\ m.role \in Roles
          BY <3>3, <3>5, <4>2, <5>1, <5>2 DEF Membership
        <5> QED BY <5>2, <5>3 DEF ActiveOk, Memb
      <4> QED BY <4>1, <4>2
    <3> QED BY <3>3, <3>5, <3>6, <3>7, WorkspacesAssumption
  <2>8. Accounts' = Accounts /\ \A v \in Users \ Accounts : account'[v] = NoUser
    <3>1. ASSUME NEW v \in Users \ Accounts PROVE account'[v] = NoUser
      <4>1. v \notin DOMAIN next /\ account[v] = NoUser
        BY <1>8 DEF Accounts
      <4> QED BY <2>1, <4>1 DEF Cleared
    <3> QED BY <2>7, <3>1 DEF Accounts
  <2>9. MembersOk'
    <3>1. \A k \in DOMAIN members' : members'[k].user # NoUser =>
            members'[k].user \in Accounts' /\ members'[k].org \in orgs'
      BY <1>1, <2>2, <2>3, <2>5, <2>8 DEF MembersOk
    <3> QED BY <2>5, <3>1, SingleIs
  <2>10. /\ invites' \in [Invites -> Invitation \union {NoInvite}]
         /\ \A i \in Invites :
              /\ invites'[i] = NoInvite <=> invites[i] = NoInvite
              /\ invites'[i] = invites[i] \/ invites'[i].state = "deleted"
              /\ invites[i] # NoInvite =>
                   /\ invites'[i].email = invites[i].email /\ invites'[i].org = invites[i].org
                   /\ invites'[i].role = invites[i].role
                   /\ invites[i].org \in {o} => invites'[i].state = "deleted"
                   /\ invites[i].state = "deleted" => invites'[i].state = "deleted"
    BY <2>1, RevokedIs
  <2>11. TablesOk'
    <3>1. account' \in [Users -> Account \union {NoUser}]
      BY <2>1, <2>7, <2>8
    <3>2. \A v \in Accounts' : {account'[v].org, account'[v].server} \subseteq orgs' \union {NoOrg}
      BY <2>7, <2>8
    <3>3. \A i \in Invites : invites'[i] # NoInvite =>
            /\ invites'[i].org \in 1..lastOrg'
            /\ invites'[i].state = "deleted" \/ invites'[i].org \in orgs'
      BY <2>2, <2>10 DEF WorkspacesInv, TablesOk
    <3>4. gone' \intersect Accounts' = {}
      BY <1>1, <2>8 DEF WorkspacesInv, TablesOk
    <3> QED BY <1>1, <2>2, <2>10, <3>1, <3>2, <3>3, <3>4 DEF TablesOk
  <2>12. ASSUME NEW v \in Accounts PROVE UserKept(v)
    <3>1. /\ account[v].server \in orgs' => account'[v].server = account[v].server
          /\ account[v].verified => account'[v].verified
      BY <2>2, <2>7
    <3>2. CASE v \in DOMAIN next
      BY <2>7, <3>1, <3>2 DEF UserKept
    <3>3. CASE v \notin DOMAIN next
      <4>1. /\ account'[v].role = account[v].role
            /\ account'[v].org = IF account[v].org = o THEN NoOrg ELSE account[v].org
            /\ v \in overruled' <=> v \in overruled
        BY <2>1, <2>7, <3>3
      <4>2. ActiveOk(v) => ActiveOk(v)'
        BY <2>5, <4>1 DEF ActiveOk
      <4>3. \A p \in orgs' : \A s : Home(v, p, s) => Home(v, p, s)'
        BY <2>2, <4>1 DEF Home
      <4> QED BY <3>1, <4>2, <4>3 DEF UserKept
    <3> QED BY <3>2, <3>3
  <2>13. PICK S : S = {}
    OBVIOUS
  <2>14. Moves(S)
    <3>1. \A v \in Users, p \in orgs', s \in Roles : Memb(v, p, s) => Memb(v, p, s)'
      BY <2>2, <2>5
    <3>2. \A v \in Accounts : account[v].server = NoOrg => account'[v].server = NoOrg
      BY <2>7
    <3>3. orgs' \intersect (1..lastOrg) \subseteq orgs
      BY <2>2
    <3> QED BY <1>1, <2>2, <2>8, <2>10, <2>12, <3>1, <3>2, <3>3 DEF Moves
  <2>15. \A v \in Accounts' \ fresh' : v \in Accounts \ fresh \/ ActiveOk(v)'
    BY <2>1, <2>7, <2>8
  <2>16. req'[q] = Idle
    BY <2>1 DEF MembersBecome
  <2>17. ReqOk(q)' /\ Counted(q)' /\ ~Creator(q)'
    BY <2>16, IdleOk
  <2>18. PICK ms : MembersBecome(q, ms, Idle)
    BY <2>1
  <2>19. \A i \in Invites : invites'[i] = invites[i] \/ invites'[i].state = "deleted"
    BY <2>10
  <2> QED BY <2>9, <2>11, <2>13, <2>14, <2>15, <2>17, <2>18, <2>19, IdleTyped, MembersStep
<1> QED BY <1>7, <1>8

\* The invariant holds of the databases a behaviour starts from.
LEMMA WorkspacesInvInit == WorkspacesInit => WorkspacesInv
<1> SUFFICES ASSUME WorkspacesInit PROVE WorkspacesInv
  OBVIOUS
<1>1. PICK s \in Seeds :
        /\ account = s.account /\ orgs = s.orgs /\ lastOrg = s.lastOrg
        /\ members = s.members /\ invites = s.invites
  BY DEF WorkspacesInit
<1>2. /\ lastOrg \in 0..MaxOrgs /\ orgs \subseteq 1..lastOrg
      /\ account \in [Users -> Account \union {NoUser}]
      /\ members \in Seq(Membership)
      /\ invites \in [Invites -> Invitation \union {NoInvite}]
      /\ \A k \in DOMAIN members :
           /\ account[members[k].user] # NoUser /\ members[k].org \in orgs
           /\ \A j \in DOMAIN members :
                members[j].user = members[k].user /\ members[j].org = members[k].org => j = k
      /\ \A u \in Users : account[u] # NoUser =>
           /\ account[u].server \in orgs \union {NoOrg}
           /\ \/ account[u].org = NoOrg
              \/ \E k \in DOMAIN members :
                   members[k] = [user |-> u, org |-> account[u].org, role |-> account[u].role]
      /\ \A i \in Invites :
           invites[i] # NoInvite => invites[i].state = "pending" /\ invites[i].org \in orgs
  BY <1>1, SeedsAssumption
<1>3. /\ req = [q \in Requests |-> Idle] /\ requests = 0 /\ breaks = 0
      /\ fresh = {} /\ overruled = {} /\ gone = {}
  BY DEF WorkspacesInit
<1>4. \A k \in DOMAIN members : members[k] \in Membership /\ members[k].user \in Users
  <2>1. \A k \in DOMAIN members : members[k] \in Membership
    BY <1>2
  <2> QED BY <2>1 DEF Membership
<1>5. ASSUME NEW u \in Accounts PROVE ActiveOk(u) /\ account[u].org \in orgs \union {NoOrg}
  <2>1. u \in Users /\ account[u] # NoUser
    BY DEF Accounts
  <2>2. CASE account[u].org = NoOrg
    BY <2>2 DEF ActiveOk
  <2>3. CASE \E k \in DOMAIN members :
               members[k] = [user |-> u, org |-> account[u].org, role |-> account[u].role]
    <3>1. PICK k \in DOMAIN members :
            members[k] = [user |-> u, org |-> account[u].org, role |-> account[u].role]
      BY <2>3
    <3>2. members[k].role \in Roles /\ members[k].org \in orgs
      BY <1>2, <1>4 DEF Membership
    <3> QED BY <3>1, <3>2 DEF ActiveOk, Memb
  <2> QED BY <1>2, <2>1, <2>2, <2>3
<1>6. TablesOk
  <2>1. \A u \in Accounts : {account[u].org, account[u].server} \subseteq orgs \union {NoOrg}
    BY <1>2, <1>5 DEF Accounts
  <2>2. \A i \in Invites : invites[i] # NoInvite =>
          invites[i].org \in 1..lastOrg /\ invites[i].org \in orgs
    BY <1>2
  <2>3. requests \in 0..MaxRequests /\ breaks \in 0..MaxBreaks /\ gone \intersect Accounts = {}
    BY <1>3, WorkspacesAssumption
  <2> QED BY <1>2, <2>1, <2>2, <2>3 DEF TablesOk
<1>7. MembersOk
  <2>1. members \in Seq(Membership \union {Left})
    BY <1>2, SeqMonotonic
  <2> QED BY <1>2, <1>4, <2>1 DEF MembersOk, Accounts
<1>8. ActivesOk
  BY <1>5 DEF ActivesOk
<1>9. UsedOk
  BY <1>2 DEF UsedOk, UsedOne
<1>10. ReqsOk
  <2>1. ASSUME NEW q \in Requests PROVE req[q] \in ReqType /\ ReqOk(q) /\ Counted(q) /\ ~Creator(q)
    <3>1. req[q] = Idle
      BY <1>3
    <3>2. req[q].pc = "idle" /\ req[q].inv = NoInvite /\ req[q].next = "idle" /\ req[q].org = NoOrg
      BY <3>1 DEF Idle
    <3>3. ReqOk(q) /\ Counted(q) /\ ~Creator(q)
      BY <3>2 DEF ReqOk, Control, Bound, HasJoined, Created, Creator, Moving, Counted
    <3> QED BY <3>1, <3>3, IdleTyped
  <2>2. req \in [Requests -> ReqType]
    BY <1>3, IdleTyped
  <2> QED BY <2>1, <2>2 DEF ReqsOk, OneCreator
<1> QED BY <1>6, <1>7, <1>8, <1>9, <1>10 DEF WorkspacesInv

\* Every step keeps the invariant.
LEMMA WorkspacesInvStep == ASSUME WorkspacesInv, WorkspacesNext PROVE InvKept
<1>1. ASSUME NEW u \in Users, Heal(u) PROVE InvKept
  BY <1>1, Heals
<1>2. ASSUME NEW i \in Invites, InviteExpires(i) \/ \E a \in Users : Revoke(a, i) PROVE InvKept
  BY <1>2, InvitesEnd
<1>3. ASSUME NEW q \in Requests, NEW u \in Users,
             \/ RegisterStart(q, u) \/ CreateOrg(q, u) \/ DeleteOrgStart(q, u)
             \/ DeleteSelf(q, u) \/ \E o \in Orgs : SwitchOrg(q, u, o)
      PROVE  InvKept
  <2>1. CASE DeleteOrgStart(q, u)
    <3>1. "EDITOR" \in Roles
      BY DEF Roles
    <3> QED BY <2>1, <3>1, AdminStarts
  <2> QED BY <1>3, <2>1, RegisterStarts, CreateOrgStarts, DeleteSelfStarts, SwitchStarts
<1>4. ASSUME NEW q \in Requests, NEW u \in Users, NEW a \in Users, NEW role \in Roles,
             InviteStart(q, a, u, role) \/ AdminStart(q, a, u, "setRole", role)
      PROVE  InvKept
  BY <1>4, AdminStarts
<1>5. ASSUME NEW q \in Requests, NEW u \in Users, NEW a \in Users,
             AdminStart(q, a, u, "remove", "EDITOR")
      PROVE  InvKept
  <2>1. "EDITOR" \in Roles
    BY DEF Roles
  <2> QED BY <1>5, <2>1, AdminStarts
<1>6. ASSUME NEW q \in Requests, NEW i \in Invites, AcceptInvite(q, i) \/ InviteCreate(q, i)
      PROVE  InvKept
  BY <1>6, Accepts, InviteCreates
<1>7. ASSUME NEW q \in Requests, RegisterCount(q) \/ Found(q) \/ JoinFirst(q) \/ CreateUser(q)
      PROVE  InvKept
  BY <1>7, RegisterCounts, Founds, JoinsFirst, CreatesUser
<1>8. ASSUME NEW q \in Requests, Join(q) \/ DefaultServer(q) \/ VerifyInvited(q) \/ MarkUsed(q)
      PROVE  InvKept
  BY <1>8, Joins, DefaultServers, Verifies, MarksUsed
<1>9. ASSUME NEW q \in Requests,
             InviteCheck(q) \/ FindInvited(q) \/ CheckMember(q) \/ DeleteOrgCheck(q) \/ RemoveFind(q)
      PROVE  InvKept
  BY <1>9, Looks, FindsInvited
<1>10. ASSUME NEW q \in Requests, SwitchRead(q) \/ SwitchWrite(q) \/ UpdateRole(q) \/ Breaks(q)
       PROVE  InvKept
  BY <1>10, SwitchReads, SwitchWrites, UpdatesRole, BreaksStep
<1>11. ASSUME NEW q \in Requests, DeleteOrgRead(q) \/ DeleteOrg(q) \/ Remove(q) \/ SelfDelete(q)
       PROVE  InvKept
  BY <1>11, DeleteReads, DeletesOrg, Removes
<1>12. ASSUME NEW q \in Requests, SelfRead(q) \/ SelfCount(q) PROVE InvKept
  BY <1>12, SelfReads, SelfCounts
<1> QED BY <1>1, <1>2, <1>3, <1>4, <1>5, <1>6, <1>7, <1>8, <1>9, <1>10, <1>11, <1>12
        DEF WorkspacesNext

\* The invariant is inductive.
LEMMA WorkspacesInvNext == WorkspacesInv /\ [WorkspacesNext]_workspacesVars => WorkspacesInv'
<1> SUFFICES ASSUME WorkspacesInv, [WorkspacesNext]_workspacesVars PROVE WorkspacesInv'
  OBVIOUS
<1>1. CASE WorkspacesNext
  BY <1>1, WorkspacesInvStep DEF InvKept
<1>2. CASE UNCHANGED workspacesVars
  <2>1. /\ Quiet /\ req' = req /\ members' = members /\ invites' = invites
        /\ requests' \in 0..MaxRequests /\ breaks' \in 0..MaxBreaks
        /\ Accounts' \ fresh' = Accounts \ fresh
    BY <1>2 DEF workspacesVars, Quiet, Accounts, WorkspacesInv, TablesOk
  <2>2. PICK S : S = {}
    OBVIOUS
  <2>3. Moves(S) /\ TablesOk' /\ MembersOk'
    BY <2>1, <2>2, QuietMoves, QuietTables
  <2> QED BY <2>1, <2>2, <2>3, StandStep DEF InvKept
<1> QED BY <1>1, <1>2

\* The invariant holds in every reachable state.
LEMMA WorkspacesInvHolds == WorkspacesSpec => []WorkspacesInv
BY WorkspacesInvInit, WorkspacesInvNext, PTL DEF WorkspacesSpec

\* The invariant gives the types,
LEMMA TypedFromInv == WorkspacesInv => WorkspacesTypeOK
<1> SUFFICES ASSUME WorkspacesInv PROVE WorkspacesTypeOK
  OBVIOUS
<1>1. /\ TablesOk /\ MembersOk
  BY DEF WorkspacesInv
<1>2. ASSUME NEW u \in Accounts
      PROVE  account[u] \in [org : orgs \union {NoOrg}, role : Roles,
                             verified : BOOLEAN, server : orgs \union {NoOrg}]
  <2>1. account[u] \in Account /\ {account[u].org, account[u].server} \subseteq orgs \union {NoOrg}
    BY <1>1, UserOrg DEF TablesOk
  <2> QED BY <2>1 DEF Account
<1>3. ASSUME NEW k \in DOMAIN members, members[k] # Left
      PROVE  /\ members[k].user \in Accounts /\ members[k].org \in orgs
             /\ \A j \in DOMAIN members \ {k} :
                  members[j].user # members[k].user \/ members[j].org # members[k].org
  <2>1. members[k].user # NoUser
    BY <1>1, <1>3, LeftRow
  <2> QED BY <1>1, <2>1 DEF MembersOk
<1> QED BY <1>1, <1>2, <1>3 DEF WorkspacesTypeOK, TablesOk

\* that the active organization of a user is one of its memberships,
LEMMA ActiveFromInv == WorkspacesInv => ActiveOrgIsJoined
<1> SUFFICES ASSUME WorkspacesInv, NEW u \in Accounts \ fresh, account[u].org # NoOrg
             PROVE  /\ Joined(u, account[u].org)
                    /\ u \notin overruled =>
                         account[u].role = members[RoleIn(u, account[u].org)].role
  BY DEF ActiveOrgIsJoined
<1>1. u \in Users /\ MembersOk
  BY DEF Accounts, WorkspacesInv
<1>2. PICK r \in Roles : /\ Memb(u, account[u].org, r)
                         /\ u \notin overruled => account[u].role = r
  BY DEF WorkspacesInv, ActivesOk, ActiveOk
<1> QED BY <1>1, <1>2, JoinedIs, MembFacts

\* and that an invitation marked used has made a membership in the invited role.
LEMMA UsedFromInv == WorkspacesInv => UsedInviteJoined
<1> SUFFICES ASSUME WorkspacesInv, NEW i \in Invites, invites[i] # NoInvite,
                    invites[i].state = "used", invites[i].email \notin gone
             PROVE  LET t == invites[i]
                    IN /\ Joined(t.email, t.org) /\ members[RoleIn(t.email, t.org)].role = t.role
                       /\ t.created => account[t.email].verified /\ account[t.email].server # NoOrg
  BY DEF UsedInviteJoined
<1>1. PICK t : t = invites[i]
  OBVIOUS
<1>2. t.email \in Users /\ t.org \in orgs /\ t.role \in Roles /\ MembersOk /\ NoOrg \notin orgs
  BY <1>1, OrgsAre DEF WorkspacesInv, TablesOk, Invitation
<1>3. /\ Memb(t.email, t.org, t.role)
      /\ t.created => account[t.email].verified /\ account[t.email].server = t.org
  BY <1>1 DEF WorkspacesInv, UsedOk, UsedOne
<1>4. Joined(t.email, t.org) /\ members[RoleIn(t.email, t.org)].role = t.role
  BY <1>2, <1>3, JoinedIs, MembFacts
<1> QED BY <1>1, <1>2, <1>3, <1>4

\* Only a request that deletes the user takes its account.
LEMMA OnlyDeletes ==
  ASSUME WorkspacesInv, WorkspacesNext, NEW u \in Accounts, u \notin Accounts'
  PROVE  \E p \in Requests : \E os : Deletes(p, u, os)
<1>1. u \notin gone /\ u \in gone'
  BY WorkspacesInvStep DEF InvKept, WorkspacesInv, TablesOk
<1>2. \/ gone' = gone
      \/ \E p \in Requests : \E v, os : Deletes(p, v, os)
  <2>1. ASSUME \/ \E v \in Users : Heal(v)
               \/ \E i \in Invites : InviteExpires(i) \/ \E a \in Users : Revoke(a, i)
        PROVE  gone' = gone
    BY <2>1 DEF Heal, InviteExpires, Revoke
  <2>2. ASSUME NEW q \in Requests, NEW v \in Users, NEW a \in Users, NEW role \in Roles,
               \/ RegisterStart(q, v) \/ CreateOrg(q, v) \/ DeleteOrgStart(q, v)
               \/ DeleteSelf(q, v) \/ \E o \in Orgs : SwitchOrg(q, v, o)
               \/ InviteStart(q, a, v, role) \/ AdminStart(q, a, v, "setRole", role)
        PROVE  gone' = gone
    BY <2>2 DEF RegisterStart, CreateOrg, DeleteOrgStart, DeleteSelf, SwitchOrg, InviteStart, AdminStart
  <2>3. ASSUME NEW q \in Requests, NEW v \in Users, NEW a \in Users,
               AdminStart(q, a, v, "remove", "EDITOR")
        PROVE  gone' = gone
    BY <2>3 DEF AdminStart
  <2>4. ASSUME NEW q \in Requests, NEW i \in Invites, AcceptInvite(q, i) \/ InviteCreate(q, i)
        PROVE  gone' = gone
    BY <2>4 DEF AcceptInvite, InviteCreate
  <2>5. ASSUME NEW q \in Requests,
               \/ RegisterCount(q) \/ Found(q) \/ JoinFirst(q) \/ CreateUser(q) \/ Join(q)
               \/ DefaultServer(q) \/ InviteCheck(q) \/ FindInvited(q) \/ CheckMember(q)
               \/ VerifyInvited(q) \/ MarkUsed(q) \/ SwitchRead(q) \/ SwitchWrite(q)
        PROVE  gone' = gone
    BY <2>5 DEF RegisterCount, Found, JoinFirst, CreateUser, Join, DefaultServer, InviteCheck,
       FindInvited, CheckMember, VerifyInvited, MarkUsed, SwitchRead, SwitchWrite
  <2>6. ASSUME NEW q \in Requests,
               \/ DeleteOrgCheck(q) \/ DeleteOrgRead(q) \/ DeleteOrg(q) \/ UpdateRole(q)
               \/ RemoveFind(q) \/ SelfRead(q) \/ SelfCount(q) \/ Breaks(q)
        PROVE  gone' = gone
    BY <2>6 DEF DeleteOrgCheck, DeleteOrgRead, DeleteOrg, UpdateRole, RemoveFind, SelfRead,
       SelfCount, Breaks
  <2>7. ASSUME NEW q \in Requests, Remove(q) \/ SelfDelete(q)
        PROVE  gone' = gone \/ \E v, os : Deletes(q, v, os)
    BY <2>7 DEF Remove, SelfDelete
  <2>8. \E role : role \in Roles
    BY DEF Roles
  <2>9. \A q \in Requests, v \in Users :
          \/ RegisterStart(q, v) \/ CreateOrg(q, v) \/ DeleteOrgStart(q, v)
          \/ DeleteSelf(q, v) \/ \E o \in Orgs : SwitchOrg(q, v, o)
          => gone' = gone
    BY <2>2, <2>8
  <2> QED BY <2>1, <2>2, <2>3, <2>4, <2>5, <2>6, <2>7, <2>9 DEF WorkspacesNext
<1>3. ASSUME NEW p \in Requests, NEW v, NEW os, Deletes(p, v, os)
      PROVE  v = u
  BY <1>1, <1>3 DEF Deletes
<1> QED BY <1>1, <1>2, <1>3

\* Who has counted, and knows of no change since, leaves no organization without admin.
LEMMA SelfDeletion ==
  ASSUME WorkspacesInv, WorkspacesNext, NEW q \in Requests, At(q, "selfTx"), ~req[q].stale,
         account[req[q].user] # NoUser, account'[req[q].user] = NoUser,
         NEW o \in orgs', AdminsOf(o) # {}, MembersOf(o)' # {}
  PROVE  AdminsOf(o)' # {}
<1>1. PICK u : u = req[q].user
  OBVIOUS
<1>2. u \in Users /\ Counted(q) /\ MembersOk
  BY <1>1, ReqFacts DEF At, Control, WorkspacesInv
<1>3. u \in Accounts /\ u \notin Accounts'
  BY <1>1, <1>2 DEF Accounts
<1>4. PICK p, os : p \in Requests /\ Deletes(p, u, os)
  BY <1>3, OnlyDeletes
<1>5. o \in Orgs /\ o \in orgs /\ o \notin os /\ o # NoOrg /\ members' = Without({u}, os)
  BY <1>4, OrgsAre DEF Deletes, MembersBecome
<1>6. /\ DOMAIN members' = DOMAIN members
      /\ \A k \in DOMAIN members : members'[k] =
           IF members[k].user \in {u} \/ members[k].org \in os THEN Left ELSE members[k]
  BY <1>5 DEF Without
<1>7. ASSUME NEW a \in AdminsOf(o), a # u PROVE a \in AdminsOf(o)'
  <2>1. PICK k \in DOMAIN members : /\ members[k].user = a /\ members[k].org = o
                                    /\ members[k].role = "ADMIN"
    BY DEF AdminsOf
  <2>2. members'[k] = members[k]
    BY <1>5, <1>6, <1>7, <2>1
  <2> QED BY <1>6, <2>1, <2>2 DEF AdminsOf
<1>8. CASE MembersOf(o) = {u}
  <2>1. PICK k \in DOMAIN members' : members'[k].org = o
    BY DEF MembersOf
  <2>2. members'[k] = members[k] /\ members[k].user # u
    BY <1>5, <1>6, <2>1 DEF Left
  <2> QED BY <1>6, <1>8, <2>1, <2>2 DEF MembersOf
<1>9. CASE MembersOf(o) # {u}
  <2>1. u \in AdminsOf(o) => AdminsOf(o) \ {u} # {}
    BY <1>1, <1>2, <1>5, <1>9 DEF Counted, At
  <2>2. PICK a \in AdminsOf(o) : a # u
    BY <2>1
  <2> QED BY <1>7, <2>2
<1> QED BY <1>8, <1>9

-----------------------------------------------------------------------------
\* The rows of the database refer to what is there, and nobody is twice a member
\* of an organization, through every deletion and its foreign keys.
THEOREM WorkspacesTyped == WorkspacesSpec => []WorkspacesTypeOK
BY WorkspacesInvHolds, TypedFromInv, PTL

\* jwt.strategy.ts may trust the organization and the role cached in the row of a
\* user: they are those of a membership, but for an account whose creation stopped
\* and a role set by an admin.
THEOREM ActiveIsJoined == WorkspacesSpec => []ActiveOrgIsJoined
BY WorkspacesInvHolds, ActiveFromInv, PTL

\* An invitation that acceptInvite has marked used has made its address a member in the
\* invited role, and the account that the same acceptance made is verified and has a
\* server, however the requests of the user, of the admins and of other acceptances
\* interleave with it.  Nothing is said of an account that another acceptance made.
THEOREM UsedHasJoined == WorkspacesSpec => []UsedInviteJoined
BY WorkspacesInvHolds, UsedFromInv, PTL

\* A user who deletes itself leaves no organization with members and no admin,
\* unless the memberships changed after they were counted.
THEOREM SelfDeletionKeepsAdmin == WorkspacesSpec => SelfDeletionLeavesAdmin
<1>1. ASSUME WorkspacesInv, [WorkspacesNext]_workspacesVars
      PROVE  [\A q \in Requests :
               /\ At(q, "selfTx") /\ ~req[q].stale
               /\ account[req[q].user] # NoUser /\ account'[req[q].user] = NoUser
               => \A o \in orgs' : AdminsOf(o) # {} /\ MembersOf(o)' # {} => AdminsOf(o)' # {}
             ]_workspacesVars
  <2>1. CASE WorkspacesNext
    BY <1>1, <2>1, SelfDeletion
  <2> QED BY <1>1, <2>1
<1> QED BY <1>1, WorkspacesInvInit, WorkspacesInvNext, PTL DEF WorkspacesSpec, SelfDeletionLeavesAdmin

-----------------------------------------------------------------------------
(* Authorization codes.                                                    *)

\* A request that is under way has found the row it speaks of.
TradeTyped ==
  trade \in [Trades ->
    {NoTrade} \union [pc : {"delete", "grant"}, code : Codes, client : OAuthClients, row : CodeRow]]

\* A code with a row, in a request or in a token has been drawn, so it is not drawn again.
DrawnOnce ==
  /\ \A k \in Codes : codeRows[k] # NoRow => k \in used
  /\ \A t \in Trades : trade[t].pc # "idle" => trade[t].code \in used
  /\ \A a \in tokens : a.code # NoRow => a.code \in used

\* Who is in pc = "grant" has deleted the row: it alone holds the code.
GrantHolds(t) ==
  trade[t].pc = "grant" =>
    /\ codeRows[trade[t].code] = NoRow
    /\ \A s \in Trades \ {t} : trade[s].pc = "grant" => trade[s].code # trade[t].code
    /\ \A a \in tokens : a.code # trade[t].code

\* A code a token was given for has no row.
TradedIsGone == \A a \in tokens : a.code # NoRow => codeRows[a.code] = NoRow

CodesInv ==
  /\ OAuthServerTypeOK /\ TradeTyped
  /\ DrawnOnce /\ (\A t \in Trades : GrantHolds(t)) /\ TradedIsGone
  /\ CodesTradedOnce

\* No code has been drawn at first.
LEMMA CodesInvInit == ASSUME OAuthServerAssumption, OAuthServerInit PROVE CodesInv
BY DEF OAuthServerAssumption, OAuthServerInit, CodesInv, OAuthServerTypeOK, TradeTyped, DrawnOnce, GrantHolds,
   TradedIsGone, CodesTradedOnce, NoTrade, GrantTypes

\* The types of what a step writes.
LEMMA OAuthServerTypeStep ==
  ASSUME OAuthServerAssumption, OAuthServerTypeOK, TradeTyped, [OAuthServerNext]_oauthServerVars
  PROVE  OAuthServerTypeOK' /\ TradeTyped'
<1> USE DEF OAuthServerAssumption, OAuthServerTypeOK, TradeTyped
<1>1. ASSUME NEW c \in OAuthClients, NEW types \in SUBSET GrantTypes, register(c, types)
      PROVE  OAuthServerTypeOK' /\ TradeTyped'
  BY <1>1 DEF register
<1>2. ASSUME NEW c \in OAuthClients, NEW f \in Flows, authorize(c, f)
      PROVE  OAuthServerTypeOK' /\ TradeTyped'
  BY <1>2 DEF authorize, FlowRow
<1>3. ASSUME NEW c \in OAuthClients, clientCredentials(c)
      PROVE  OAuthServerTypeOK' /\ TradeTyped'
  BY <1>3 DEF clientCredentials, Token
<1>4. ASSUME NEW c \in OAuthClients, NEW t \in Trades, NEW k \in Codes, findAuthCode(t, k, c)
      PROVE  OAuthServerTypeOK' /\ TradeTyped'
  BY <1>4 DEF findAuthCode
<1>5. ASSUME NEW p \in Persons, handleLogin(p) PROVE OAuthServerTypeOK' /\ TradeTyped'
  BY <1>5 DEF handleLogin
<1>6. CASE LoginEnds
  BY <1>6 DEF LoginEnds
<1>7. CASE callbackTooLate
  BY <1>7 DEF callbackTooLate
<1>8. ASSUME NEW f \in Flows, FlowEnds(f) PROVE OAuthServerTypeOK' /\ TradeTyped'
  <2>1. flowRows[f] \in FlowRow
    BY <1>8 DEF FlowEnds
  <2>2. [flowRows[f] EXCEPT !.fresh = FALSE] \in FlowRow
    BY <2>1 DEF FlowRow
  <2> QED BY <1>8, <2>2 DEF FlowEnds
<1>9. ASSUME NEW k \in Codes, CodeEnds(k) PROVE OAuthServerTypeOK' /\ TradeTyped'
  <2>1. codeRows[k] \in CodeRow
    BY <1>9 DEF CodeEnds
  <2>2. [codeRows[k] EXCEPT !.fresh = FALSE] \in CodeRow
    BY <2>1 DEF CodeRow
  <2> QED BY <1>9, <2>2 DEF CodeEnds
<1>10. ASSUME NEW k \in Codes, callback(k) PROVE OAuthServerTypeOK' /\ TradeTyped'
  BY <1>10 DEF callback, CodeRow, FlowRow
<1>11. ASSUME NEW t \in Trades, deleteAuthCode(t) PROVE OAuthServerTypeOK' /\ TradeTyped'
  BY <1>11 DEF deleteAuthCode, NoTrade
<1>12. ASSUME NEW t \in Trades, grantTokens(t) PROVE OAuthServerTypeOK' /\ TradeTyped'
  BY <1>12 DEF grantTokens, NoTrade, Token, CodeRow
<1>13. ASSUME NEW t \in Trades, refuseTokens(t) PROVE OAuthServerTypeOK' /\ TradeTyped'
  BY <1>13 DEF refuseTokens, NoTrade
<1>14. CASE UNCHANGED oauthServerVars
  BY <1>14 DEF oauthServerVars
<1> QED
  BY <1>1, <1>2, <1>3, <1>4, <1>5, <1>6, <1>7, <1>8, <1>9, <1>10, <1>11, <1>12, <1>13, <1>14
  DEF OAuthServerNext

\* Every step keeps the invariant.
LEMMA CodesInvStep ==
  ASSUME OAuthServerAssumption, CodesInv, [OAuthServerNext]_oauthServerVars
  PROVE  CodesInv'
<1> USE DEF OAuthServerAssumption
<1>0. OAuthServerTypeOK' /\ TradeTyped'
  BY OAuthServerTypeStep DEF CodesInv
<1> DEFINE Kept == DrawnOnce /\ (\A t \in Trades : GrantHolds(t)) /\ TradedIsGone /\ CodesTradedOnce
<1> SUFFICES Kept' BY <1>0 DEF CodesInv
<1> USE DEF CodesInv, OAuthServerTypeOK, TradeTyped, DrawnOnce, GrantHolds, TradedIsGone, CodesTradedOnce
<1>1. CASE UNCHANGED <<codeRows, trade, used, tokens>>
  BY <1>1
<1>2. ASSUME NEW c \in OAuthClients, NEW f \in Flows, authorize(c, f) PROVE Kept'
  BY <1>2 DEF authorize
<1>3. ASSUME NEW c \in OAuthClients, clientCredentials(c) PROVE Kept'
  BY <1>3 DEF clientCredentials
<1>4. ASSUME NEW c \in OAuthClients, NEW t \in Trades, NEW k \in Codes, findAuthCode(t, k, c)
      PROVE  Kept'
  BY <1>4 DEF findAuthCode
<1>5. ASSUME NEW k \in Codes, CodeEnds(k) PROVE Kept'
  BY <1>5 DEF CodeEnds
<1>6. ASSUME NEW k \in Codes, callback(k) PROVE Kept'
  BY <1>6 DEF callback
<1>7. ASSUME NEW t \in Trades, deleteAuthCode(t) PROVE Kept'
  BY <1>7 DEF deleteAuthCode, Deleted, NoTrade
<1>8. ASSUME NEW t \in Trades, grantTokens(t) PROVE Kept'
  BY <1>8 DEF grantTokens, NoTrade
<1>9. ASSUME NEW t \in Trades, refuseTokens(t) PROVE Kept'
  BY <1>9 DEF refuseTokens, NoTrade
<1> QED
  BY <1>1, <1>2, <1>3, <1>4, <1>5, <1>6, <1>7, <1>8, <1>9
  DEF OAuthServerNext, oauthServerVars, register, handleLogin, LoginEnds, callbackTooLate, FlowEnds

\* The invariant holds in every reachable state.
LEMMA CodesInvHolds == ASSUME OAuthServerAssumption PROVE OAuthServerSpec => []CodesInv
BY CodesInvInit, CodesInvStep, PTL DEF OAuthServerSpec

-----------------------------------------------------------------------------
(* Mailed tokens.                                                          *)

Sending    == {"invalidate", "create"}
Resetting  == {"setPassword", "markReset"}
TokenType  == [kind : Kinds, state : States]
CallType   == [pc : {"idle", "markCode", "verify"} \union Sending \union Resetting,
               tok : Tokens \union {NoToken}, alone : BOOLEAN]

\* Requests: who has a token has one that was born, of the kind it asks for.
CallTyped ==
  /\ call \in [Callers -> CallType] /\ crossed \in BOOLEAN
  /\ \A c \in Callers :
       /\ call[c].pc # "idle" => calls > 0
       /\ call[c].pc \in {"idle"} \union Sending <=> call[c].tok = NoToken
       /\ call[c].tok # NoToken => token[call[c].tok].state # "unborn"
       /\ call[c].pc \in Resetting => token[call[c].tok].kind = "reset"
       /\ call[c].pc \in {"markCode", "verify"} => token[call[c].tok].kind = "code"

\* Unless sends crossed there is one at a time, and it finds no live code when it
\* comes to create its own.
OneSend ==
  ~crossed =>
    /\ \A c, d \in Callers : call[c].pc \in Sending /\ call[d].pc \in Sending => c = d
    /\ \A c \in Callers : call[c].pc = "create" => Live("code") = {}
    /\ Live("code") \subseteq sent

\* Who resets alone has the link to itself, and the link has not reset anything yet;
\* a link that has is not live again.
AloneHasLink ==
  /\ \A c, d \in Callers :
       call[c].pc \in Resetting /\ call[c].alone /\ c # d => call[d].tok # call[c].tok
  /\ \A c \in Callers : call[c].pc \in Resetting /\ call[c].alone => resets[call[c].tok] = 0
  /\ \A t \in Tokens : resets[t] > 0 => token[t].state \notin {"live", "unborn"}
  /\ \A t \in Tokens : resets[t] <= 1

MailInv == MailedTypeOK /\ CallTyped /\ OneSend /\ AloneHasLink

\* What a request holds when it starts and when it ends.
LEMMA CallStartsTyped ==
  /\ None \in CallType /\ None.pc = "idle" /\ None.tok = NoToken
  /\ \A pc \in {"invalidate", "create"} :
       LET r == [None EXCEPT !.pc = pc]
       IN r \in CallType /\ r.pc = pc /\ r.tok = NoToken
  /\ \A t \in Tokens :
       LET r == [None EXCEPT !.pc = "markCode", !.tok = t]
       IN r \in CallType /\ r.pc = "markCode" /\ r.tok = t
<1>1. None \in CallType
  BY DEF None, CallType
<1>2. None.pc = "idle" /\ None.tok = NoToken
  BY DEF None
<1> QED BY <1>1, <1>2 DEF CallType, Sending

\* No token has been sent at first.
LEMMA MailInvInit == ASSUME MailedAssumption, MailedInit PROVE MailInv
<1>1. CallTyped
  BY CallStartsTyped DEF MailedInit, CallTyped, Sending, Resetting
<1>2. MailedTypeOK
  <2>1. verified \in BOOLEAN
    BY DEF MailedInit
  <2> QED BY <2>1 DEF MailedAssumption, MailedInit, MailedTypeOK, States, Kinds
<1>3. OneSend
  BY CallStartsTyped DEF MailedInit, OneSend, Live, Sending
<1>4. AloneHasLink
  <2>1. \A c \in Callers : call[c].pc \notin Resetting
    BY CallStartsTyped DEF MailedInit, Resetting
  <2>2. \A t \in Tokens : resets[t] = 0
    BY DEF MailedInit
  <2> QED BY <2>1, <2>2 DEF AloneHasLink
<1> QED BY <1>1, <1>2, <1>3, <1>4 DEF MailInv

\* Every step keeps the invariant.
LEMMA MailInvStep ==
  ASSUME MailedAssumption, MailInv, [MailedNext]_mailedVars
  PROVE  MailInv'
<1> USE DEF MailedAssumption, MailInv, MailedTypeOK, CallTyped, OneSend, AloneHasLink, Live,
            Sending, Resetting, States, Kinds
<1>1. ASSUME NEW c \in Callers, Send(c) PROVE MailInv'
  <2>1. PICK r \in CallType :
          /\ r.pc = "invalidate" /\ r.tok = NoToken
          /\ call' = [call EXCEPT ![c] = r]
    BY <1>1, CallStartsTyped DEF Send, CallStarts
  <2>2. call[c].pc = "idle" /\ calls < MaxCalls /\ calls' = calls + 1
        /\ UNCHANGED <<token, verified, password, sent, resets>>
    BY <1>1 DEF Send, CallStarts
  <2>3. crossed' \in BOOLEAN
        /\ (~crossed' => ~crossed /\ \A d \in Callers : call[d].pc \notin {"invalidate", "create"})
    BY <1>1 DEF Send
  <2>4. MailedTypeOK' /\ CallTyped'
    BY <2>1, <2>2, <2>3
  <2>5. OneSend'
    BY <2>1, <2>2, <2>3
  <2>6. AloneHasLink'
    BY <2>1, <2>2
  <2> QED BY <2>4, <2>5, <2>6
<1>2. ASSUME NEW c \in Callers, Invalidate(c) PROVE MailInv'
  BY <1>2 DEF Invalidate, Invalidated, Calls, CallType
<1>3. ASSUME NEW c \in Callers, MarkCode(c) PROVE MailInv'
  BY <1>3 DEF MarkCode, Used, Calls, CallType
<1>4. ASSUME NEW c \in Callers, MarkVerified(c) PROVE MailInv'
  BY <1>4 DEF MarkVerified, CallEnds, None, CallType
<1>5. ASSUME NEW c \in Callers, SetPassword(c) PROVE MailInv'
  BY <1>5 DEF SetPassword, Calls, CallType
<1>6. ASSUME NEW c \in Callers, MarkReset(c) PROVE MailInv'
  BY <1>6 DEF MarkReset, Used, CallEnds, None, CallType
<1>7. ASSUME NEW c \in Callers, CallBreaks(c) PROVE MailInv'
  BY <1>7 DEF CallBreaks, CallEnds, None, CallType
<1>8. ASSUME NEW c \in Callers, NEW t \in Tokens, CreateCode(c, t) PROVE MailInv'
  BY <1>8 DEF CreateCode, CallEnds, None, CallType
<1>9. ASSUME NEW c \in Callers, NEW t \in Tokens, Verify(c, t) PROVE MailInv'
  <2>1. PICK r \in CallType :
          /\ r.pc = "markCode" /\ r.tok = t
          /\ call' = [call EXCEPT ![c] = r]
    BY <1>9, CallStartsTyped DEF Verify, CallStarts
  <2>2. call[c].pc = "idle" /\ calls < MaxCalls /\ calls' = calls + 1
        /\ UNCHANGED <<token, verified, password, sent, crossed, resets>>
        /\ token[t].kind = "code" /\ token[t].state = "live"
    BY <1>9 DEF Verify, CallStarts
  <2> QED BY <2>1, <2>2
<1>10. ASSUME NEW c \in Callers, NEW t \in Tokens, Reset(c, t) PROVE MailInv'
  <2> DEFINE alone == \A e \in Callers : call[e].tok # t
             was(d) == call[d].alone /\ call[d].tok # t
  <2>1. /\ call' = [d \in Callers |->
              IF d = c THEN [pc |-> "setPassword", tok |-> t, alone |-> alone]
              ELSE [call[d] EXCEPT !.alone = was(d)]]
        /\ call[c].pc = "idle" /\ calls < MaxCalls /\ calls' = calls + 1
        /\ UNCHANGED <<token, verified, password, sent, crossed, resets>>
        /\ token[t].kind = "reset" /\ token[t].state = "live"
    BY <1>10 DEF Reset
  <2>2. alone \in BOOLEAN /\ \A d \in Callers : was(d) \in BOOLEAN
    OBVIOUS
  <2>3. alone => \A e \in Callers : call[e].tok # t
    OBVIOUS
  <2>4. \A d \in Callers : was(d) => call[d].alone /\ call[d].tok # t
    OBVIOUS
  <2> HIDE DEF alone, was
  <2>5. call'[c] = [pc |-> "setPassword", tok |-> t, alone |-> alone]
    BY <2>1
  <2>6. \A d \in Callers \ {c} :
          /\ call'[d] \in CallType
          /\ call'[d].pc = call[d].pc /\ call'[d].tok = call[d].tok /\ call'[d].alone = was(d)
    BY <2>1, <2>2 DEF CallType
  <2>7. call'[c] \in CallType
    BY <2>2, <2>5 DEF CallType
  <2>8. call' \in [Callers -> CallType]
    BY <2>1, <2>6, <2>7
  <2>9. MailedTypeOK'
    BY <2>1
  <2>12. CallTyped'
    <3>1. \A d \in Callers : call'[d].tok = NoToken \/ token'[call'[d].tok].state # "unborn"
      BY <2>1, <2>5, <2>6
    <3>2. \A d \in Callers : call'[d].pc \in {"idle"} \union Sending <=> call'[d].tok = NoToken
      BY <2>1, <2>5, <2>6
    <3>3. \A d \in Callers :
            /\ call'[d].pc # "idle" => calls' > 0
            /\ call'[d].pc \in Resetting => token'[call'[d].tok].kind = "reset"
            /\ call'[d].pc \in {"markCode", "verify"} => token'[call'[d].tok].kind = "code"
      BY <2>1, <2>5, <2>6
    <3> QED BY <2>1, <2>8, <3>1, <3>2, <3>3
  <2>10. OneSend'
    BY <2>1, <2>5, <2>6
  <2>11. AloneHasLink'
    BY <2>1, <2>3, <2>4, <2>5, <2>6
  <2> QED BY <2>9, <2>10, <2>11, <2>12
<1>11. ASSUME NEW t \in Tokens, Forgot(t) PROVE MailInv'
  BY <1>11 DEF Forgot
<1>12. ASSUME NEW t \in Tokens, Expires(t) PROVE MailInv'
  BY <1>12 DEF Expires
<1>13. CASE ChangePassword
  BY <1>13 DEF ChangePassword
<1>14. CASE UNCHANGED mailedVars
  BY <1>14 DEF mailedVars
<1> QED
  BY <1>1, <1>2, <1>3, <1>4, <1>5, <1>6, <1>7, <1>8, <1>9, <1>10, <1>11, <1>12, <1>13, <1>14
  DEF MailedNext

\* The invariant holds in every reachable state.
LEMMA MailInvHolds == ASSUME MailedAssumption PROVE MailedSpec => []MailInv
BY MailInvInit, MailInvStep, PTL DEF MailedSpec

-----------------------------------------------------------------------------
(* Skills.                                                                 *)

\* Requests to the model.
AskerType ==
  [pc : {"idle", "switch", "clear", "insert", "merge"}, scope : Scopes,
   auto : BOOLEAN, left : Int, seen : Nat]

AskerTyped == asker \in [Askers -> AskerType]

\* What an active skill says has been approved in its place, or answered in its scope.
RuleHasSource(r, place) == <<r, place>> \in approved \/ <<r, ScopeOf(place)>> \in answered
ActiveHasSource ==
  \A k \in Skills : skills[k] # NoSkill /\ skills[k].status = "applied" =>
    \A r \in skills[k].rules : RuleHasSource(r, skills[k].place)

\* A merge that was answered, or is asked for, is of a scope with something approved.
MergesOfApproved ==
  /\ \A r \in Rules, scope \in Scopes : <<r, scope>> \in answered => SomeApproved(scope)
  /\ \A j \in Askers : asker[j].pc = "merge" => SomeApproved(asker[j].scope)

SkillsInv == SkillsTypeOK /\ AskerTyped /\ ActiveHasSource /\ MergesOfApproved

\* What a row may hold.
LEMMA SkillTyped ==
  ASSUME NEW place \in SkillPlaces, NEW R \in SUBSET Rules, R # {}, NEW status \in Statuses
  PROVE  [place |-> place, rules |-> R, status |-> status] \in Skill
BY DEF Skill

\* Every place is in a scope.
LEMMA ScopeOfPlace == \A place \in SkillPlaces : ScopeOf(place) \in Scopes
BY DEF ScopeOf, Scopes, SkillPlaces

\* What a request to the model holds when it starts.
LEMMA AskerStarts ==
  /\ Resting \in AskerType
  /\ \A scope \in Scopes, n \in Int, pc \in {"switch", "clear"} :
       [Resting EXCEPT !.pc = pc, !.scope = scope, !.left = n] \in AskerType
  /\ \A scope \in Scopes, n \in Nat :
       [Resting EXCEPT !.pc = "merge", !.scope = scope, !.seen = n] \in AskerType
<1>1. Resting \in AskerType
  BY DEF Resting, AskerType, Scopes
<1>2. ASSUME NEW scope \in Scopes, NEW n \in Int, NEW pc \in {"switch", "clear"}
      PROVE  [Resting EXCEPT !.pc = pc, !.scope = scope, !.left = n] \in AskerType
  BY <1>1 DEF AskerType
<1>3. ASSUME NEW scope \in Scopes, NEW n \in Nat
      PROVE  [Resting EXCEPT !.pc = "merge", !.scope = scope, !.seen = n] \in AskerType
  BY <1>1 DEF AskerType
<1> QED BY <1>1, <1>2, <1>3

\* The rules of some rows are rules.
LEMMA RulesInTyped ==
  ASSUME SkillsTypeOK, NEW K \in SUBSET {k \in Skills : skills[k] # NoSkill}
  PROVE  RulesIn(K) \subseteq Rules
<1>1. \A k \in K : skills[k] \in Skill
  BY DEF SkillsTypeOK
<1> QED BY <1>1 DEF RulesIn, Skill

\* A scope with an active skill has something approved.
LEMMA ShownWasApproved ==
  ASSUME SkillsInv, NoSkillAssumption, NEW scope \in Scopes, Shown(scope) # {}
  PROVE  SomeApproved(scope)
<1>1. PICK k \in Skills : skills[k] # NoSkill /\ ScopeOf(skills[k].place) = scope
                          /\ skills[k].status = "applied"
  BY DEF Shown, In
<1>2. skills[k] \in Skill
  BY <1>1 DEF SkillsInv, SkillsTypeOK
<1>3. PICK r \in skills[k].rules : r \in Rules
  BY <1>2 DEF Skill
<1>4. RuleHasSource(r, skills[k].place) /\ skills[k].place \in SkillPlaces
  BY <1>1, <1>2, <1>3 DEF SkillsInv, ActiveHasSource, Skill
<1>5. CASE <<r, skills[k].place>> \in approved
  BY <1>1, <1>3, <1>4, <1>5 DEF SomeApproved
<1>6. CASE <<r, scope>> \in answered
  BY <1>3, <1>6 DEF SkillsInv, MergesOfApproved
<1> QED BY <1>1, <1>4, <1>5, <1>6 DEF RuleHasSource

\* The skills shown can be counted.
LEMMA ShownCount ==
  ASSUME SkillsAssumption, NEW scope
  PROVE  /\ Cardinality(Shown(scope)) \in Nat
         /\ Cardinality(Shown(scope)) >= 2 => Shown(scope) # {}
<1>1. Shown(scope) \subseteq Skills
  BY DEF Shown, In
<1>2. IsFiniteSet(Shown(scope)) /\ Cardinality(Shown(scope)) \in Nat
  BY <1>1, FS_Subset, FS_CardinalityType DEF SkillsAssumption
<1>3. Shown(scope) = {} => Cardinality(Shown(scope)) = 0
  BY <1>2, FS_EmptySet
<1> QED BY <1>2, <1>3

\* There are no skills at first.
LEMMA SkillsInvInit == ASSUME SkillsAssumption, NoSkillAssumption, SkillsInit PROVE SkillsInv
<1>1. AskerTyped /\ MergesOfApproved
  BY AskerStarts DEF SkillsInit, AskerTyped, Resting, MergesOfApproved
<1>2. SkillsTypeOK
  <2>1. autoApply \in BOOLEAN
    BY DEF SkillsInit
  <2>2. edits \in 0..MaxEdits /\ asked \in 0..MaxAsked
    BY DEF SkillsInit, SkillsAssumption
  <2>3. skills \in [Skills -> Skill \union {NoSkill}]
    BY DEF SkillsInit
  <2> QED BY <2>1, <2>2, <2>3 DEF SkillsInit, SkillsTypeOK
<1>3. ActiveHasSource
  BY DEF SkillsInit, ActiveHasSource
<1> QED BY <1>1, <1>2, <1>3 DEF SkillsInv

\* What becomes of the histories in a step: nothing is forgotten.
Remembers ==
  /\ approved \subseteq approved' /\ approved' \subseteq Rules \X SkillPlaces
  /\ answered \subseteq answered' /\ answered' \subseteq Rules \X Scopes

\* An approval adds to what is approved.
LEMMA ApproveAdds ==
  ASSUME NEW R \in SUBSET Rules, NEW place \in SkillPlaces, SkillsTypeOK, Approve(R, place)
  PROVE  Remembers /\ answered' = answered /\ R \X {place} \subseteq approved'
BY DEF Approve, SkillsTypeOK, Remembers

\* What had a source has one still, and a scope with something approved remains one.
LEMMA SourcesStay ==
  ASSUME Remembers
  PROVE  /\ \A r \in Rules, place \in SkillPlaces : RuleHasSource(r, place) => RuleHasSource(r, place)'
         /\ \A scope \in Scopes : SomeApproved(scope) => SomeApproved(scope)'
BY DEF Remembers, RuleHasSource, SomeApproved

\* Rows that are as they were, or that say what has a source.
LEMMA ActiveKept ==
  ASSUME SkillsTypeOK, ActiveHasSource, Remembers,
         \A k \in Skills :
           \/ skills'[k] = skills[k] \/ skills'[k] = NoSkill
           \/ skills'[k].status # "applied"
           \/ \A r \in skills'[k].rules : RuleHasSource(r, skills[k].place)'
  PROVE  ActiveHasSource'
<1> SUFFICES ASSUME NEW k \in Skills, skills'[k] # NoSkill, skills'[k].status = "applied",
                    NEW r \in skills'[k].rules
             PROVE  RuleHasSource(r, skills[k].place)'
  BY DEF ActiveHasSource
<1>1. CASE skills'[k] = skills[k]
  <2>1. skills[k] \in Skill
    BY <1>1 DEF SkillsTypeOK
  <2>2. r \in Rules /\ skills[k].place \in SkillPlaces /\ RuleHasSource(r, skills[k].place)
    BY <1>1, <2>1 DEF ActiveHasSource, Skill
  <2> QED BY <1>1, <2>2 DEF RuleHasSource, Remembers
<1>2. CASE skills'[k] # skills[k]
  BY <1>2
<1> QED BY <1>1, <1>2

\* Merges under way and answered are of the scopes they were of.
LEMMA MergesKept ==
  ASSUME SkillsTypeOK, MergesOfApproved, AskerTyped, Remembers, answered' = answered,
         \A j \in Askers : asker'[j].pc = "merge" =>
           asker[j].pc = "merge" /\ asker'[j].scope = asker[j].scope
  PROVE  MergesOfApproved'
<1>1. \A scope \in Scopes : SomeApproved(scope) => SomeApproved(scope)'
  BY SourcesStay
<1>2. \A j \in Askers : asker[j].scope \in Scopes
  BY DEF AskerTyped, AskerType
<1>3. \A j \in Askers : asker'[j].pc = "merge" => SomeApproved(asker[j].scope)'
  BY <1>1, <1>2 DEF MergesOfApproved, SomeApproved, Remembers
<1> QED BY <1>1, <1>3 DEF MergesOfApproved

\* A request goes on and leaves the rows and the histories, or only drops rows.
LEMMA SkillsDropped ==
  ASSUME SkillsInv, UNCHANGED <<live, autoApply, edits, asked, approved, answered>>,
         \A k \in Skills : skills'[k] \in {skills[k], NoSkill}, skills' \in [Skills -> Skill \union {NoSkill}],
         AskerTyped',
         \A j \in Askers : asker'[j].pc = "merge" =>
           asker[j].pc = "merge" /\ asker'[j].scope = asker[j].scope
  PROVE  SkillsInv'
<1>1. Remembers
  BY DEF SkillsInv, SkillsTypeOK, Remembers
<1>2. SkillsTypeOK'
  BY DEF SkillsInv, SkillsTypeOK
<1>3. ActiveHasSource'
  BY <1>1, ActiveKept DEF SkillsInv
<1>4. MergesOfApproved'
  BY <1>1, MergesKept DEF SkillsInv
<1> QED BY <1>2, <1>3, <1>4 DEF SkillsInv

\* Every step keeps the invariant.
LEMMA SkillsInvStep ==
  ASSUME SkillsAssumption, NoSkillAssumption, SkillsInv, [SkillsNext]_skillsVars
  PROVE  SkillsInv'
<1> USE DEF SkillsAssumption, NoSkillAssumption, SkillsInv
<1>1. ASSUME NEW k \in Skills, NEW r \in Rules, NEW place \in SkillPlaces, NEW status \in Statuses,
             create(k, r, place, status)
      PROVE  SkillsInv'
  <2>1. Remembers /\ answered' = answered /\ (status = "applied" => <<r, place>> \in approved')
    <3> DEFINE R == IF status = "applied" THEN {r} ELSE {}
    <3>1. R \in SUBSET Rules /\ Approve(R, place)
      BY <1>1 DEF create
    <3> HIDE DEF R
    <3>2. Remembers /\ answered' = answered /\ R \X {place} \subseteq approved'
      BY <3>1, ApproveAdds
    <3> QED BY <3>2 DEF R
  <2>2. [place |-> place, rules |-> {r}, status |-> status] \in Skill
    BY SkillTyped
  <2>3. SkillsTypeOK' /\ AskerTyped'
    BY <1>1, <2>1, <2>2 DEF create, Edits, SkillsTypeOK, AskerTyped, Remembers
  <2>4. ActiveHasSource'
    <3>1. \A l \in Skills \ {k} : skills'[l] = skills[l]
      BY <1>1 DEF create, SkillsTypeOK
    <3>2. skills'[k] = [place |-> place, rules |-> {r}, status |-> status]
      BY <1>1 DEF create, SkillsTypeOK
    <3>3. skills'[k].status # "applied" \/ \A q \in skills'[k].rules : RuleHasSource(q, skills[k].place)'
      BY <2>1, <3>2 DEF RuleHasSource
    <3> QED BY <2>1, <3>1, <3>3, ActiveKept
  <2>5. MergesOfApproved'
    BY <1>1, <2>1, MergesKept DEF create
  <2> QED BY <2>3, <2>4, <2>5
<1>2. ASSUME NEW k \in Skills, NEW status \in Statuses, setStatus(k, status) PROVE SkillsInv'
  <2>0. skills[k] \in Skill
    BY <1>2 DEF setStatus, SkillsTypeOK
  <2>1. /\ Remembers /\ answered' = answered
        /\ status = "applied" => skills[k].rules \X {skills[k].place} \subseteq approved'
    <3> DEFINE R == IF status = "applied" THEN skills[k].rules ELSE {}
    <3>1. R \in SUBSET Rules /\ Approve(R, skills[k].place) /\ skills[k].place \in SkillPlaces
      BY <1>2, <2>0 DEF setStatus, Skill
    <3> HIDE DEF R
    <3>2. Remembers /\ answered' = answered /\ R \X {skills[k].place} \subseteq approved'
      BY <3>1, ApproveAdds
    <3> QED BY <3>2 DEF R
  <2>2. [skills[k] EXCEPT !.status = status] \in Skill
    BY <2>0 DEF Skill
  <2>3. SkillsTypeOK' /\ AskerTyped'
    BY <1>2, <2>1, <2>2 DEF setStatus, Edits, SkillsTypeOK, AskerTyped, Remembers
  <2>4. ActiveHasSource'
    <3>1. \A l \in Skills \ {k} : skills'[l] = skills[l]
      BY <1>2 DEF setStatus, SkillsTypeOK
    <3>2. skills'[k].place = skills[k].place /\ skills'[k].rules = skills[k].rules /\ skills'[k].status = status
      BY <1>2, <2>0 DEF setStatus, SkillsTypeOK, Skill
    <3>3. skills'[k].status # "applied" \/ \A q \in skills'[k].rules : RuleHasSource(q, skills[k].place)'
      BY <2>1, <3>2 DEF RuleHasSource
    <3> QED BY <2>1, <3>1, <3>3, ActiveKept
  <2>5. MergesOfApproved'
    BY <1>2, <2>1, MergesKept DEF setStatus
  <2> QED BY <2>3, <2>4, <2>5
<1>3. ASSUME NEW k \in Skills, NEW r \in Rules, update(k, r) PROVE SkillsInv'
  <2>0. skills[k] \in Skill
    BY <1>3 DEF update, SkillsTypeOK
  <2>1. /\ Remembers /\ answered' = answered
        /\ skills[k].status = "applied" => <<r, skills[k].place>> \in approved'
    <3> DEFINE R == IF skills[k].status = "applied" THEN {r} ELSE {}
    <3>1. R \in SUBSET Rules /\ Approve(R, skills[k].place) /\ skills[k].place \in SkillPlaces
      BY <1>3, <2>0 DEF update, Skill
    <3> HIDE DEF R
    <3>2. Remembers /\ answered' = answered /\ R \X {skills[k].place} \subseteq approved'
      BY <3>1, ApproveAdds
    <3> QED BY <3>2 DEF R
  <2>2. [skills[k] EXCEPT !.rules = {r}] \in Skill
    BY <2>0 DEF Skill
  <2>3. SkillsTypeOK' /\ AskerTyped'
    BY <1>3, <2>1, <2>2 DEF update, Edits, SkillsTypeOK, AskerTyped, Remembers
  <2>4. ActiveHasSource'
    <3>1. \A l \in Skills \ {k} : skills'[l] = skills[l]
      BY <1>3 DEF update, SkillsTypeOK
    <3>2. skills'[k].place = skills[k].place /\ skills'[k].rules = {r} /\ skills'[k].status = skills[k].status
      BY <1>3, <2>0 DEF update, SkillsTypeOK, Skill
    <3>3. skills'[k].status # "applied" \/ \A q \in skills'[k].rules : RuleHasSource(q, skills[k].place)'
      BY <2>1, <3>2 DEF RuleHasSource
    <3> QED BY <2>1, <3>1, <3>3, ActiveKept
  <2>5. MergesOfApproved'
    BY <1>3, <2>1, MergesKept DEF update
  <2> QED BY <2>3, <2>4, <2>5
<1>4. ASSUME NEW k \in Skills, remove(k) PROVE SkillsInv'
  <2>1. Remembers /\ answered' = answered
    BY <1>4 DEF remove, Remembers, SkillsTypeOK
  <2>2. SkillsTypeOK' /\ AskerTyped'
    BY <1>4 DEF remove, DroppingRows, Edits, SkillsTypeOK, AskerTyped
  <2>3. \A l \in Skills : skills'[l] = skills[l] \/ skills'[l] = NoSkill
    BY <1>4 DEF remove, DroppingRows
  <2>4. ActiveHasSource'
    BY <2>1, <2>3, ActiveKept
  <2>5. MergesOfApproved'
    BY <1>4, <2>1, MergesKept DEF remove
  <2> QED BY <2>2, <2>4, <2>5
<1>5. ASSUME NEW place \in SkillServers \union SkillConnectors, PlaceDeleted(place) PROVE SkillsInv'
  <2> DEFINE there  == {k \in Skills : skills[k] # NoSkill /\ skills[k].place = place}
             active == {k \in there : skills[k].status = "applied"}
  <2>0. RulesIn(active) \in SUBSET Rules /\ Approve(RulesIn(active), Workspace) /\ Workspace \in SkillPlaces
    BY <1>5, RulesInTyped DEF PlaceDeleted, SkillPlaces
  <2>1. Remembers /\ answered' = answered /\ RulesIn(active) \X {Workspace} \subseteq approved'
    BY <2>0, ApproveAdds
  <2>2. \A k \in Skills : skills'[k] =
          IF k \in there THEN [skills[k] EXCEPT !.place = Workspace] ELSE skills[k]
    BY <1>5 DEF PlaceDeleted
  <2>3. \A k \in Skills : skills'[k] \in Skill \union {NoSkill}
    BY <2>2 DEF SkillsTypeOK, Skill, SkillPlaces
  <2>4. SkillsTypeOK' /\ AskerTyped'
    BY <1>5, <2>1, <2>3 DEF PlaceDeleted, Edits, SkillsTypeOK, AskerTyped, Remembers
  <2>5. ActiveHasSource'
    <3> SUFFICES ASSUME NEW k \in there, skills'[k].status = "applied", NEW r \in skills'[k].rules
                 PROVE  RuleHasSource(r, skills[k].place)'
      BY <2>1, <2>2, ActiveKept
    <3>1. skills[k] \in Skill
      BY DEF SkillsTypeOK
    <3>2. k \in active /\ skills'[k].rules = skills[k].rules /\ skills'[k].place = Workspace
      BY <2>2, <3>1 DEF Skill
    <3>3. r \in RulesIn(active)
      BY <3>2 DEF RulesIn
    <3> QED BY <2>1, <3>2, <3>3 DEF RuleHasSource
  <2>6. MergesOfApproved'
    BY <1>5, <2>1, MergesKept DEF PlaceDeleted
  <2> QED BY <2>4, <2>5, <2>6
<1>6. CASE SwitchAutoApply
  <2>1. Remembers /\ answered' = answered
    BY <1>6 DEF SwitchAutoApply, Remembers, SkillsTypeOK
  <2>2. SkillsTypeOK' /\ AskerTyped'
    BY <1>6 DEF SwitchAutoApply, Edits, SkillsTypeOK, AskerTyped
  <2>3. ActiveHasSource'
    BY <1>6, <2>1, ActiveKept DEF SwitchAutoApply
  <2>4. MergesOfApproved'
    BY <1>6, <2>1, MergesKept DEF SwitchAutoApply
  <2> QED BY <2>2, <2>3, <2>4
<1>7. ASSUME NEW j \in Askers, NEW scope \in Scopes, Generate(j, scope) PROVE SkillsInv'
  <2>1. PICK n \in 0..MaxItems :
          asker' = [asker EXCEPT ![j] =
            [Resting EXCEPT !.pc = IF scope = Workspace THEN "switch" ELSE "clear",
                            !.scope = scope, !.left = n]]
    BY <1>7 DEF Generate
  <2>2. SkillsTypeOK' /\ AskerTyped'
    <3> DEFINE pc == IF scope = Workspace THEN "switch" ELSE "clear"
    <3>0. pc \in {"switch", "clear"} /\ n \in Int
      OBVIOUS
    <3> HIDE DEF pc
    <3>1. [Resting EXCEPT !.pc = pc, !.scope = scope, !.left = n] \in AskerType
      BY <3>0, AskerStarts
    <3>2. AskerTyped'
      BY <2>1, <3>1 DEF AskerTyped, pc
    <3> QED BY <1>7, <3>2 DEF Generate, SkillsTypeOK
  <2>3. Remembers /\ answered' = answered
    BY <1>7 DEF Generate, Remembers, SkillsTypeOK
  <2>4. ActiveHasSource'
    BY <1>7, <2>3, ActiveKept DEF Generate
  <2>5. \A l \in Askers : asker'[l].pc = "merge" => asker'[l] = asker[l]
    BY <2>1 DEF AskerTyped, Resting
  <2>6. MergesOfApproved'
    BY <2>3, <2>5, MergesKept
  <2> QED BY <2>2, <2>4, <2>6
<1>8. ASSUME NEW j \in Askers, ReadSwitch(j) PROVE SkillsInv'
  <2>1. AskerTyped' /\ UNCHANGED skills
    BY <1>8 DEF ReadSwitch, AskerTyped, AskerType, SkillsTypeOK
  <2>2. \A l \in Askers : asker'[l].pc = "merge" => asker'[l] = asker[l]
    BY <1>8 DEF ReadSwitch, AskerTyped, AskerType
  <2> QED BY <1>8, <2>1, <2>2, SkillsDropped DEF ReadSwitch, SkillsTypeOK
<1>9. ASSUME NEW j \in Askers, Clear(j) PROVE SkillsInv'
  <2>1. AskerTyped'
    BY <1>9 DEF Clear, Step, AskerTyped, AskerType
  <2>2. \A l \in Askers : asker'[l].pc = "merge" => asker'[l] = asker[l]
    BY <1>9 DEF Clear, Step, AskerTyped, AskerType
  <2>3. (\A k \in Skills : skills'[k] \in {skills[k], NoSkill}) /\ skills' \in [Skills -> Skill \union {NoSkill}]
    BY <1>9 DEF Clear, DroppingRows, SkillsTypeOK
  <2> QED BY <1>9, <2>1, <2>2, <2>3, SkillsDropped DEF Clear
<1>10. ASSUME NEW j \in Askers, NEW k \in Skills, NEW r \in Rules, NEW sure \in BOOLEAN,
              NEW place \in SkillPlaces, InsertSkill(j, k, r, sure, place)
       PROVE  SkillsInv'
  <2>0. asker[j].auto \in BOOLEAN
    BY DEF AskerTyped, AskerType
  <2>1. Remembers /\ answered' = answered /\ (asker[j].auto /\ sure => <<r, place>> \in approved')
    <3> DEFINE R == IF asker[j].auto /\ sure THEN {r} ELSE {}
    <3>1. R \in SUBSET Rules /\ Approve(R, place)
      BY <1>10 DEF InsertSkill
    <3> HIDE DEF R
    <3>2. Remembers /\ answered' = answered /\ R \X {place} \subseteq approved'
      BY <3>1, ApproveAdds
    <3> QED BY <3>2 DEF R
  <2>2. [place |-> place, rules |-> {r}, status |-> StatusOf(asker[j].auto, sure)] \in Skill
    <3>1. StatusOf(asker[j].auto, sure) \in Statuses
      BY DEF StatusOf, Statuses
    <3> QED BY <3>1, SkillTyped
  <2>3. SkillsTypeOK' /\ AskerTyped'
    BY <1>10, <2>1, <2>2 DEF InsertSkill, SkillsTypeOK, AskerTyped, AskerType, Remembers
  <2>4. ActiveHasSource'
    <3>1. \A l \in Skills \ {k} : skills'[l] = skills[l]
      BY <1>10 DEF InsertSkill, SkillsTypeOK
    <3>2. skills'[k] = [place |-> place, rules |-> {r}, status |-> StatusOf(asker[j].auto, sure)]
      BY <1>10 DEF InsertSkill, SkillsTypeOK
    <3>3. skills'[k].status # "applied" \/ \A q \in skills'[k].rules : RuleHasSource(q, skills[k].place)'
      BY <2>1, <3>2 DEF RuleHasSource, StatusOf
    <3> QED BY <2>1, <3>1, <3>3, ActiveKept
  <2>5. \A l \in Askers : asker'[l].pc = "merge" => asker'[l] = asker[l]
    BY <1>10 DEF InsertSkill, AskerTyped, AskerType
  <2>6. MergesOfApproved'
    BY <2>1, <2>5, MergesKept
  <2> QED BY <2>3, <2>4, <2>6
<1>11. ASSUME NEW j \in Askers, SkipItem(j) PROVE SkillsInv'
  <2>1. AskerTyped' /\ UNCHANGED skills
    BY <1>11 DEF SkipItem, AskerTyped, AskerType
  <2>2. \A l \in Askers : asker'[l].pc = "merge" => asker'[l] = asker[l]
    BY <1>11 DEF SkipItem, AskerTyped, AskerType
  <2> QED BY <1>11, <2>1, <2>2, SkillsDropped DEF SkipItem, SkillsTypeOK
<1>12. ASSUME NEW j \in Askers, Generated(j) \/ MergeRefused(j) \/ AskFails(j) PROVE SkillsInv'
  <2>1. asker' = [asker EXCEPT ![j] = Resting]
        /\ UNCHANGED <<skills, live, autoApply, edits, asked, approved, answered>>
    BY <1>12 DEF Generated, MergeRefused, AskFails, Done
  <2>2. AskerTyped'
    BY <2>1, AskerStarts DEF AskerTyped
  <2>3. \A l \in Askers : asker'[l].pc = "merge" => asker'[l] = asker[l]
    BY <2>1 DEF Resting, AskerTyped
  <2> QED BY <2>1, <2>2, <2>3, SkillsDropped DEF SkillsTypeOK
<1>13. ASSUME NEW j \in Askers, NEW scope \in Scopes, Consolidate(j, scope) PROVE SkillsInv'
  <2>1. Cardinality(Shown(scope)) \in Nat /\ Shown(scope) # {}
    BY <1>13, ShownCount DEF Consolidate
  <2>2. SomeApproved(scope)
    BY <2>1, ShownWasApproved
  <2>3. Remembers /\ answered' = answered
    BY <1>13 DEF Consolidate, Remembers, SkillsTypeOK
  <2>4. SkillsTypeOK' /\ AskerTyped'
    <3>1. [Resting EXCEPT !.pc = "merge", !.scope = scope,
                         !.seen = Cardinality(Shown(scope))] \in AskerType
      BY <2>1, AskerStarts
    <3>2. AskerTyped'
      BY <1>13, <3>1 DEF Consolidate, AskerTyped
    <3> QED BY <1>13, <3>2 DEF Consolidate, SkillsTypeOK
  <2>5. ActiveHasSource'
    BY <1>13, <2>3, ActiveKept DEF Consolidate
  <2>6. \A l \in Askers : asker'[l] = asker[l] \/ asker'[l].scope = scope
    BY <1>13 DEF Consolidate, AskerTyped, Resting
  <2>7. SomeApproved(scope)' /\ approved' = approved
    BY <1>13, <2>2 DEF Consolidate, SomeApproved
  <2>8. MergesOfApproved'
    BY <2>3, <2>6, <2>7 DEF MergesOfApproved, SomeApproved
  <2> QED BY <2>4, <2>5, <2>8
<1>14. ASSUME NEW j \in Askers, NEW merged \in SUBSET Skills, NEW items \in 1..MaxItems,
              Merge(j, merged, items)
       PROVE  SkillsInv'
  <2> DEFINE freed == DroppingRows(In(asker[j].scope, "applied"))
             scope == asker[j].scope
  <2>0. scope \in Scopes /\ SomeApproved(scope)
    BY <1>14 DEF Merge, AskerTyped, AskerType, MergesOfApproved
  <2>1. PICK says \in [merged -> (SUBSET Rules) \ {{}}], place \in [merged -> OpenIn(scope)] :
          /\ \A k \in merged : freed[k] = NoSkill
          /\ skills' = [k \in Skills |->
               IF k \in merged
               THEN [place |-> place[k], rules |-> says[k], status |-> "applied"]
               ELSE freed[k]]
          /\ answered' = answered \union ((UNION {says[k] : k \in merged}) \X {scope})
    BY <1>14 DEF Merge
  <2>2. \A k \in merged : /\ says[k] \in (SUBSET Rules) \ {{}}
                          /\ place[k] \in SkillPlaces /\ ScopeOf(place[k]) = scope
    BY <2>1 DEF OpenIn, SkillsTypeOK, SkillPlaces
  <2>3. Remembers /\ approved' = approved
    BY <1>14, <2>0, <2>1, <2>2 DEF Merge, Remembers, SkillsTypeOK
  <2>4. \A k \in Skills \ merged : skills'[k] = skills[k] \/ skills'[k] = NoSkill
    BY <2>1 DEF DroppingRows
  <2>5. \A k \in merged : skills'[k] = [place |-> place[k], rules |-> says[k], status |-> "applied"]
    BY <2>1
  <2>6. \A k \in Skills : skills'[k] \in Skill \union {NoSkill}
    <3> SUFFICES ASSUME NEW k \in merged PROVE skills'[k] \in Skill
      BY <2>4 DEF SkillsTypeOK
    <3>1. "applied" \in Statuses
      BY DEF Statuses
    <3>2. says[k] \in SUBSET Rules /\ says[k] # {} /\ place[k] \in SkillPlaces
      BY <2>2
    <3>3. [place |-> place[k], rules |-> says[k], status |-> "applied"] \in Skill
      BY <3>1, <3>2, SkillTyped
    <3> QED BY <2>5, <3>3
  <2>7. SkillsTypeOK' /\ AskerTyped'
    BY <1>14, <2>1, <2>3, <2>6, AskerStarts DEF Merge, Done, SkillsTypeOK, AskerTyped, Remembers
  <2>8. ActiveHasSource'
    <3>1. ASSUME NEW k \in merged, NEW r \in skills'[k].rules
          PROVE  RuleHasSource(r, skills[k].place)'
      <4>0. skills'[k] = [place |-> place[k], rules |-> says[k], status |-> "applied"]
        BY <2>5
      <4>1. r \in says[k] /\ skills'[k].place = place[k]
        BY <3>1, <4>0
      <4>2. <<r, scope>> \in answered'
        BY <2>1, <4>1
      <4>3. ScopeOf(place[k]) = scope
        BY <2>2
      <4>4. ScopeOf(skills'[k].place) = scope
        BY <4>1, <4>3
      <4>5. <<r, ScopeOf(skills'[k].place)>> \in answered'
        BY <4>2, <4>4
      <4> QED BY <4>5 DEF RuleHasSource
    <3> QED BY <2>3, <2>4, <3>1, ActiveKept
  <2>9. MergesOfApproved'
    <3>1. \A s \in Scopes : SomeApproved(s) => SomeApproved(s)'
      BY <2>3, SourcesStay
    <3>2. \A r \in Rules, s \in Scopes : <<r, s>> \in answered' => <<r, s>> \in answered \/ s = scope
      BY <2>1
    <3>3. \A l \in Askers : asker'[l].pc = "merge" => asker'[l] = asker[l]
      BY <1>14 DEF Merge, Done, Resting, AskerTyped
    <3>4. \A l \in Askers : asker'[l].pc = "merge" => SomeApproved(asker[l].scope)'
      BY <2>3, <3>3 DEF MergesOfApproved, SomeApproved
    <3>5. \A r \in Rules, s \in Scopes : <<r, s>> \in answered' => SomeApproved(s)'
      BY <2>0, <3>1, <3>2 DEF MergesOfApproved
    <3> QED BY <3>4, <3>5 DEF MergesOfApproved
  <2> QED BY <2>7, <2>8, <2>9
<1>15. CASE UNCHANGED skillsVars
  <2>1. AskerTyped' /\ UNCHANGED <<skills, asker>>
    BY <1>15 DEF skillsVars, AskerTyped
  <2> QED BY <1>15, <2>1, SkillsDropped DEF skillsVars, SkillsTypeOK
<1> QED
  BY <1>1, <1>2, <1>3, <1>4, <1>5, <1>6, <1>7, <1>8, <1>9, <1>10, <1>11, <1>12, <1>13, <1>14, <1>15
  DEF SkillsNext

\* The invariant holds in every reachable state.
LEMMA SkillsInvHolds == ASSUME SkillsAssumption, NoSkillAssumption PROVE SkillsSpec => []SkillsInv
BY SkillsInvInit, SkillsInvStep, PTL DEF SkillsSpec

-----------------------------------------------------------------------------
(* Licenses.                                                               *)

\* Some naturals that are bounded have a greatest one.
LEMMA GreatestNatural ==
  ASSUME NEW n \in Nat, NEW T \in SUBSET (0..n), T # {}
  PROVE  \E x \in T : \A y \in T : y <= x
<1> DEFINE U == {n - x : x \in T}
<1>1. U \in SUBSET Nat /\ U # {}
  <2>1. \A x \in T : x \in 0..n
    OBVIOUS
  <2>2. \A x \in T : n - x \in Nat
    BY <2>1
  <2> QED BY <2>2
<1>2. PICK u \in U : \A v \in U : u <= v
  <2> HIDE DEF U
  <2> QED BY <1>1, LeastNatural
<1>3. PICK x \in T : u = n - x
  OBVIOUS
<1>4. \A y \in T : n - x <= n - y
  BY <1>2, <1>3
<1>5. \A y \in T : y <= x
  <2> SUFFICES ASSUME NEW y \in T PROVE y <= x
    OBVIOUS
  <2>1. y \in Int /\ x \in Int /\ n - x <= n - y
    BY <1>4
  <2> QED BY <2>1
<1> QED BY <1>5

\* Phases that speak of a key, and those in which it has been judged.
OfKey  == {"verify", "verdict", "upsert", "point"}
Judged == {"verdict", "upsert", "point"}
Pcs    == {"idle", "trial", "entitled", "cap", "make"} \union OfKey
AskType == [pc : Pcs,
            org : Tenants \union {NoTenant}, key : Keys \union {NoLicense},
            valid : BOOLEAN, then : {"idle", "upsert"}]

ToldType == [valid : BOOLEAN, ordered : BOOLEAN]

AskTyped ==
  /\ inCloud \in BOOLEAN /\ truth \in [Keys -> BOOLEAN]
  /\ told \in [Keys -> ToldType]
  /\ ask \in [Deskers -> AskType]
  /\ \A d \in Deskers :
       /\ ask[d].pc # "idle" => ask[d].org \in Tenants
       /\ ask[d].pc \in OfKey <=> ask[d].key # NoLicense
       /\ ask[d].pc = "upsert" => ask[d].valid
       /\ ask[d].pc = "point" => ~inCloud /\ license[ask[d].key] # NoLicense

\* Rows are stamped in the order they are made.
Stamped == \A k \in Rows : license[k].at <= Cardinality(Rows)

\* A connector is made by a request of its own.
Busy     == {d \in Deskers : ask[d].pc # "idle"}
MadeByAsks == \A o \in Tenants : made[o] + Cardinality(Busy) <= asks

\* While the answers about a key are in order one request at most speaks of it; what
\* it holds is the last answer, and the row tells that one unless it is about to be
\* written.
OneSpeaks ==
  \A k \in Keys : told[k].ordered =>
    \A d, e \in Deskers : ask[d].key = k /\ ask[e].key = k => d = e

HoldsAnswer ==
  \A d \in Deskers :
    LET k == ask[d].key
    IN k # NoLicense /\ told[k].ordered =>
         /\ ask[d].pc \in {"verdict", "upsert"} => ask[d].valid = told[k].valid
         /\ ask[d].pc = "point" => told[k].valid /\ license[k].status = "active"

RowTold ==
  \A k \in Rows :
    told[k].ordered /\ (\A d \in Deskers : ask[d].key = k => ask[d].pc \notin Judged) =>
      (license[k].status = "active") = told[k].valid

PointerInstance == IF inCloud THEN pointer = NoLicense ELSE pointer \in Rows \union {NoLicense}

LicInv ==
  /\ LicensingTypeOK /\ AskTyped /\ Stamped /\ MadeByAsks
  /\ OneSpeaks /\ HoldsAnswer /\ RowTold /\ PointerInstance

LicAssumptions == LicensingAssumption /\ NoLicenseAssumption

\* What RowTellsVerdict says of rows nobody is about to write.
LEMMA RowTellsFromInv == ASSUME LicAssumptions, LicInv PROVE RowTellsVerdict
BY DEF LicAssumptions, LicInv, RowTold, PointerInstance, RowTellsVerdict, Judged, AskTyped, OfKey

\* The newest of some rows is one of them.
LEMMA NewestIsOne ==
  ASSUME LicAssumptions, LicensingTypeOK, NEW K \in SUBSET Rows, K # {}
  PROVE  Newest(K) \in K
<1> DEFINE T == {license[k].at : k \in K}
           n == Cardinality(Keys)
<1>0. n \in Nat
  BY FS_CardinalityType DEF LicAssumptions, LicensingAssumption
<1>1. \A k \in K : license[k].at \in 0..n
  BY <1>0 DEF LicensingTypeOK, License, Rows
<1>2. T \in SUBSET (0..n) /\ T # {}
  BY <1>1
<1>3. \E x \in T : \A y \in T : y <= x
  <2> HIDE DEF T, n
  <2> QED BY <1>0, <1>2, GreatestNatural
<1>4. \E k \in K : \A j \in K : license[j].at <= license[k].at
  BY <1>3
<1> QED BY <1>4 DEF Newest

\* The license of an organization is a row, or none.
LEMMA CurrentIsRow ==
  ASSUME LicAssumptions, LicensingTypeOK, NEW o
  PROVE  Current(o) \in Rows \union {NoLicense}
<1>1. OfOrg(o) \subseteq Rows /\ Unassigned \subseteq Rows
  BY DEF OfOrg, Unassigned
<1>2. OfOrg(o) # {} => Newest(OfOrg(o)) \in Rows
  BY <1>1, NewestIsOne
<1>3. Unassigned # {} => Newest(Unassigned) \in Rows
  BY <1>1, NewestIsOne
<1> QED BY <1>2, <1>3 DEF Current

-----------------------------------------------------------------------------
\* What a request holds when it starts, when it goes on and when it ends.
LEMMA RestTyped ==
  ASSUME LicAssumptions
  PROVE  Rest \in AskType /\ Rest.pc = "idle" /\ Rest.key = NoLicense
BY DEF Rest, AskType, Pcs, OfKey

\* A request that starts without a key.
LEMMA PlainTyped ==
  ASSUME LicAssumptions, NEW o \in Tenants, NEW pc \in {"trial", "entitled"}
  PROVE  LET r == [Rest EXCEPT !.pc = pc, !.org = o]
         IN r \in AskType /\ r.pc = pc /\ r.org = o /\ r.key = NoLicense
BY RestTyped DEF AskType, Pcs

\* A request that starts with one.
LEMMA VerifyTyped ==
  ASSUME LicAssumptions, NEW o \in Tenants, NEW k \in Keys, NEW then \in {"idle", "upsert"}
  PROVE  LET r == [Rest EXCEPT !.pc = "verify", !.org = o, !.key = k, !.then = then]
         IN r \in AskType /\ r.pc = "verify" /\ r.org = o /\ r.key = k
<1>1. "verify" \in Pcs
  BY DEF Pcs, OfKey
<1> QED BY <1>1, RestTyped DEF AskType

\* The number of requests under way when one moves.
LEMMA BusyChange ==
  ASSUME LicAssumptions, AskTyped, NEW d \in Deskers, NEW r, ask' = [ask EXCEPT ![d] = r]
  PROVE  /\ Cardinality(Busy) \in Nat
         /\ ask[d].pc = "idle" /\ r.pc # "idle" => Cardinality(Busy') = Cardinality(Busy) + 1
         /\ ask[d].pc # "idle" /\ r.pc = "idle" => Cardinality(Busy') = Cardinality(Busy) - 1
         /\ ask[d].pc # "idle" /\ r.pc # "idle" => Cardinality(Busy') = Cardinality(Busy)
<1>1. IsFiniteSet(Busy) /\ Cardinality(Busy) \in Nat
  <2>1. Busy \subseteq Deskers
    BY DEF Busy
  <2> QED BY <2>1, FS_Subset, FS_CardinalityType DEF LicAssumptions, LicensingAssumption
<1>2. Busy' = IF r.pc = "idle" THEN Busy \ {d} ELSE Busy \union {d}
  BY DEF Busy, AskTyped
<1>3. d \in Busy <=> ask[d].pc # "idle"
  BY DEF Busy
<1> QED BY <1>1, <1>2, <1>3, FS_AddElement, FS_RemoveElement

\* A new row takes the next stamp, an old one keeps its own.
LEMMA StampNext ==
  ASSUME LicAssumptions, LicensingTypeOK, Stamped, NEW k \in Keys, NEW row \in License,
         license' = [license EXCEPT ![k] = row],
         row.at = IF license[k] = NoLicense THEN Stamp ELSE license[k].at
  PROVE  /\ Stamped'
         /\ \A i, j \in Rows' : i # j => license'[i].at # license'[j].at
<1>1. Rows \subseteq Keys /\ IsFiniteSet(Rows) /\ Cardinality(Rows) \in Nat
  <2>1. Rows \subseteq Keys
    BY DEF Rows
  <2> QED BY <2>1, FS_Subset, FS_CardinalityType DEF LicAssumptions, LicensingAssumption
<1>2. Rows' = Rows \union {k}
  BY DEF Rows, LicensingTypeOK, LicAssumptions, NoLicenseAssumption
<1>3. k \in Rows <=> license[k] # NoLicense
  BY DEF Rows
<1>4. Cardinality(Rows') = IF k \in Rows THEN Cardinality(Rows) ELSE Cardinality(Rows) + 1
  BY <1>1, <1>2, FS_AddElement
<1>5. \A j \in Rows \ {k} : license'[j] = license[j] /\ license[j].at <= Cardinality(Rows)
  BY <1>1 DEF Stamped, LicensingTypeOK
<1>6. license'[k].at = IF k \in Rows THEN license[k].at ELSE Cardinality(Rows) + 1
  BY <1>3 DEF Stamp, LicensingTypeOK
<1>7. \A j \in Rows : license[j].at \in Nat
  BY DEF LicensingTypeOK, License, Rows
<1> QED BY <1>1, <1>2, <1>4, <1>5, <1>6, <1>7 DEF Stamped, LicensingTypeOK

\* There is room for the stamp of a new row.
LEMMA StampFits ==
  ASSUME LicAssumptions, LicensingTypeOK, NEW k \in Keys, license[k] = NoLicense
  PROVE  Stamp \in 1..Cardinality(Keys)
<1>1. Rows \union {k} \subseteq Keys /\ k \notin Rows
  BY DEF Rows
<1>2. IsFiniteSet(Rows) /\ Cardinality(Rows) \in Nat
  BY <1>1, FS_Subset, FS_CardinalityType DEF LicAssumptions, LicensingAssumption
<1>3. Cardinality(Rows \union {k}) = Cardinality(Rows) + 1
  BY <1>1, <1>2, FS_AddElement
<1>4. Cardinality(Rows \union {k}) <= Cardinality(Keys) /\ Cardinality(Keys) \in Nat
  BY <1>1, FS_Subset, FS_CardinalityType DEF LicAssumptions, LicensingAssumption
<1> QED BY <1>2, <1>3, <1>4 DEF Stamp

-----------------------------------------------------------------------------
\* A request starts in an idle slot, and holds r.
AskStarts(d, r) ==
  /\ ask[d].pc = "idle" /\ asks < MaxAsks /\ asks' = asks + 1
  /\ ask' = [ask EXCEPT ![d] = r]
  /\ r \in AskType /\ r.org \in Tenants
  /\ UNCHANGED <<inCloud, truth, trialOf, license, pointer, made, turns>>

\* It speaks of no key yet, or it joins the others that speak of its key.
StartsPlain(d) ==
  \E r : AskStarts(d, r) /\ r.key = NoLicense /\ r.pc \in {"trial", "entitled"} /\ told' = told

StartsOfKey(d) ==
  \E r : /\ AskStarts(d, r) /\ r.key \in Keys /\ r.pc = "verify"
         /\ told' = IF \E e \in Deskers \ {d} : ask[e].key = r.key THEN Untell(r.key) ELSE told

\* The requests that start without a key.
LEMMA PlainStarts ==
  ASSUME LicAssumptions, NEW d \in Deskers, NEW o \in Tenants,
         AskTrial(d, o) \/ CreateStart(d, o)
  PROVE  StartsPlain(d)
<1>1. CASE AskTrial(d, o)
  <2> DEFINE r == [Rest EXCEPT !.pc = "trial", !.org = o]
  <2>1. r \in AskType /\ r.pc = "trial" /\ r.org = o /\ r.key = NoLicense
    BY PlainTyped
  <2>2. ask' = [ask EXCEPT ![d] = r]
    BY <1>1 DEF AskTrial, Asks, Continues
  <2> HIDE DEF r
  <2>3. AskStarts(d, r) /\ told' = told
    BY <1>1, <2>1, <2>2 DEF AskTrial, Asks, Is, AskStarts
  <2> QED BY <2>1, <2>3 DEF StartsPlain
<1>2. CASE CreateStart(d, o)
  <2> DEFINE r == [Rest EXCEPT !.pc = "entitled", !.org = o]
  <2>1. r \in AskType /\ r.pc = "entitled" /\ r.org = o /\ r.key = NoLicense
    BY PlainTyped
  <2>2. ask' = [ask EXCEPT ![d] = r]
    BY <1>2 DEF CreateStart, Asks, Continues
  <2> HIDE DEF r
  <2>3. AskStarts(d, r) /\ told' = told
    BY <1>2, <2>1, <2>2 DEF CreateStart, Asks, Is, AskStarts
  <2> QED BY <2>1, <2>3 DEF StartsPlain
<1> QED BY <1>1, <1>2

\* The requests that start with one.
LEMMA KeyStarts ==
  ASSUME LicAssumptions, LicensingTypeOK, NEW d \in Deskers, NEW o \in Tenants,
         VerifyKey(d, o) \/ \E k \in Keys : SetKey(d, o, k)
  PROVE  StartsOfKey(d)
<1>1. CASE VerifyKey(d, o)
  <2> DEFINE own == {k \in Rows : license[k].org = o}
             k == IF ~inCloud THEN pointer ELSE IF own = {} THEN NoLicense ELSE Newest(own)
             r == [Rest EXCEPT !.pc = "verify", !.org = o, !.key = k]
  <2>1. k \in Keys
    <3>1. own \in SUBSET Rows /\ Rows \subseteq Keys
      BY DEF Rows
    <3>2. own # {} => Newest(own) \in Keys
      <4> HIDE DEF own
      <4> QED BY <3>1, NewestIsOne
    <3>3. k # NoLicense
      BY <1>1 DEF VerifyKey
    <3> QED BY <3>2, <3>3 DEF LicensingTypeOK
  <2>2. /\ ask' = [ask EXCEPT ![d] = r]
        /\ ask[d].pc = "idle" /\ asks < MaxAsks /\ asks' = asks + 1
        /\ UNCHANGED <<inCloud, truth, trialOf, license, pointer, made, turns>>
        /\ told' = IF \E e \in Deskers \ {d} : ask[e].key = k THEN Untell(k) ELSE told
    BY <1>1 DEF VerifyKey, Asks, Is, Continues
  <2> HIDE DEF k
  <2>3. r \in AskType /\ r.pc = "verify" /\ r.org = o /\ r.key = k
    <3>1. "verify" \in Pcs
      BY DEF Pcs, OfKey
    <3> QED BY <2>1, <3>1, RestTyped DEF AskType
  <2> HIDE DEF r
  <2>4. AskStarts(d, r)
    BY <2>2, <2>3 DEF AskStarts
  <2> QED BY <2>1, <2>2, <2>3, <2>4 DEF StartsOfKey
<1>2. ASSUME NEW k \in Keys, SetKey(d, o, k) PROVE StartsOfKey(d)
  <2> DEFINE r == [Rest EXCEPT !.pc = "verify", !.org = o, !.key = k, !.then = "upsert"]
  <2>1. r \in AskType /\ r.pc = "verify" /\ r.org = o /\ r.key = k
    BY VerifyTyped
  <2>2. ask' = [ask EXCEPT ![d] = r]
    BY <1>2 DEF SetKey, Asks, Continues
  <2> HIDE DEF r
  <2>3. AskStarts(d, r)
    BY <1>2, <2>1, <2>2 DEF SetKey, Asks, Is, AskStarts
  <2>4. told' = IF \E e \in Deskers \ {d} : ask[e].key = k THEN Untell(k) ELSE told
    BY <1>2 DEF SetKey
  <2> QED BY <2>1, <2>3, <2>4 DEF StartsOfKey
<1> QED BY <1>1, <1>2

-----------------------------------------------------------------------------
\* A request that only moves holds what it held.
LEMMA GoesOn ==
  ASSUME AskTyped, NEW d \in Deskers, NEW pc \in Pcs
  PROVE  LET r == [ask[d] EXCEPT !.pc = pc]
         IN /\ r \in AskType /\ r.pc = pc
            /\ r.key = ask[d].key /\ r.org = ask[d].org /\ r.valid = ask[d].valid
BY DEF AskTyped, AskType, Pcs

\* What is told of a key, and of no other.
LEMMA TellEffect ==
  ASSUME told \in [Keys -> ToldType], NEW d, NEW k \in Keys, NEW v \in BOOLEAN, Tell(d, k, v)
  PROVE  /\ told' \in [Keys -> ToldType]
         /\ \A j \in Keys \ {k} : told'[j] = told[j]
         /\ told'[k].valid = v
         /\ told'[k].ordered => \A e \in Deskers \ {d} : ask[e].key # k
<1> DEFINE o == \A e \in Deskers \ {d} : ask[e].key # k
<1>1. told' = [told EXCEPT ![k] = [valid |-> v, ordered |-> o]]
  BY DEF Tell
<1>2. o \in BOOLEAN /\ (o => \A e \in Deskers \ {d} : ask[e].key # k)
  OBVIOUS
<1> HIDE DEF o
<1>3. [valid |-> v, ordered |-> o] \in ToldType
  BY <1>2 DEF ToldType
<1> QED BY <1>1, <1>2, <1>3

\* A request more speaks of the key: its answers are in order no longer.
LEMMA UntellEffect ==
  ASSUME told \in [Keys -> ToldType], NEW k \in Keys
  PROVE  /\ Untell(k) \in [Keys -> ToldType]
         /\ \A j \in Keys \ {k} : Untell(k)[j] = told[j]
         /\ ~Untell(k)[k].ordered
<1>1. [told[k] EXCEPT !.ordered = FALSE] \in ToldType
  BY DEF ToldType
<1>2. ~[told[k] EXCEPT !.ordered = FALSE].ordered
  BY DEF ToldType
<1>3. Untell(k) = [told EXCEPT ![k] = [told[k] EXCEPT !.ordered = FALSE]]
  BY DEF Untell
<1> QED BY <1>1, <1>2, <1>3

\* A request starts, goes on or ends without a connector made.
LEMMA MadeKept ==
  ASSUME LicAssumptions, LicensingTypeOK, AskTyped, MadeByAsks, NEW d \in Deskers, NEW r,
         ask' = [ask EXCEPT ![d] = r], made' = made,
         asks' = asks + 1 \/ (asks' = asks /\ ask[d].pc # "idle")
  PROVE  MadeByAsks'
<1>1. asks \in Nat /\ \A o \in Tenants : made[o] \in Nat
  BY DEF LicensingTypeOK, LicAssumptions, LicensingAssumption
<1>2. /\ Cardinality(Busy) \in Nat
      /\ \/ Cardinality(Busy') = Cardinality(Busy) + 1 /\ ask[d].pc = "idle"
         \/ Cardinality(Busy') = Cardinality(Busy)
         \/ Cardinality(Busy') = Cardinality(Busy) - 1
  <2>1. CASE ask[d].pc = "idle" /\ r.pc = "idle"
    <3>1. Busy' = Busy
      BY <2>1 DEF Busy, AskTyped
    <3> QED BY <3>1, BusyChange
  <2> QED BY <2>1, BusyChange
<1> QED BY <1>1, <1>2 DEF MadeByAsks

LicTypes == LicensingTypeOK /\ AskTyped /\ Stamped /\ MadeByAsks /\ PointerInstance

\* A row is made or written over, which takes no row away.
LEMMA LicenseWritten ==
  ASSUME LicAssumptions, LicensingTypeOK, Stamped, NEW k \in Keys, NEW row \in License,
         license' = [license EXCEPT ![k] = row],
         row.at = IF license[k] = NoLicense THEN Stamp ELSE license[k].at
  PROVE  /\ license' \in [Keys -> License \union {NoLicense}]
         /\ Rows' = Rows \union {k}
         /\ Stamped' /\ \A i, j \in Rows' : i # j => license'[i].at # license'[j].at
<1>1. license' \in [Keys -> License \union {NoLicense}]
  BY DEF LicensingTypeOK
<1>2. Rows' = Rows \union {k}
  BY DEF Rows, LicensingTypeOK, LicAssumptions, NoLicenseAssumption
<1> QED BY <1>1, <1>2, StampNext

\* Every step keeps the types and the counts.
LEMMA LicTypesStep ==
  ASSUME LicAssumptions, LicTypes, [LicensingNext]_licensingVars
  PROVE  LicTypes'
<1> USE DEF LicTypes
<1>0. /\ {Cap, MaxAsks, MaxTurns} \subseteq Nat /\ NoLicense \notin Keys /\ NoLicense \notin License
      /\ Cardinality(Busy) \in Nat
  BY BusyChange, FS_Subset, FS_CardinalityType
  DEF LicAssumptions, LicensingAssumption, NoLicenseAssumption, Busy
<1>1. ASSUME NEW d \in Deskers, StartsPlain(d) \/ StartsOfKey(d) PROVE LicTypes'
  <2>1. PICK r : /\ AskStarts(d, r) /\ told' \in [Keys -> ToldType]
                 /\ \/ r.pc \in {"trial", "entitled"} /\ r.key = NoLicense
                    \/ r.pc = "verify" /\ r.key \in Keys
    <3>1. CASE StartsPlain(d)
      <4>1. PICK r : AskStarts(d, r) /\ r.key = NoLicense /\ r.pc \in {"trial", "entitled"} /\ told' = told
        BY <3>1 DEF StartsPlain
      <4> QED BY <4>1 DEF AskTyped
    <3>2. CASE StartsOfKey(d)
      BY <3>2, UntellEffect DEF StartsOfKey, AskTyped
    <3> QED BY <1>1, <3>1, <3>2
  <2>2. LicensingTypeOK' /\ Stamped' /\ PointerInstance'
    BY <1>0, <2>1 DEF AskStarts, LicensingTypeOK, Stamped, PointerInstance, Rows
  <2>3. AskTyped'
    BY <1>0, <2>1 DEF AskStarts, AskTyped, OfKey
  <2>4. MadeByAsks'
    <3>1. ask' = [ask EXCEPT ![d] = r] /\ made' = made /\ asks' = asks + 1
      BY <2>1 DEF AskStarts
    <3> QED BY <3>1, MadeKept
  <2> QED BY <2>2, <2>3, <2>4
<1>2. ASSUME NEW d \in Deskers, NEW k \in TrialKeys, TrialAnswer(d, k) PROVE LicTypes'
  <2>1. k \in Keys
    BY DEF Keys
  <2>2. PICK r \in AskType : /\ ask' = [ask EXCEPT ![d] = r]
                             /\ \/ r.pc = "idle" /\ r.key = NoLicense
                                \/ r.pc = "upsert" /\ r.key = k /\ r.valid /\ r.org \in Tenants
    <3>1. CASE Rests(d)
      BY <3>1, RestTyped DEF Rests
    <3>2. CASE Continues(d, [ask[d] EXCEPT !.pc = "upsert", !.key = k, !.valid = TRUE])
      <4>1. ask[d].pc = "trial" /\ ask[d].org \in Tenants /\ "upsert" \in Pcs
        BY <1>2 DEF TrialAnswer, Is, AskTyped, Pcs, OfKey
      <4>2. [ask[d] EXCEPT !.pc = "upsert", !.key = k, !.valid = TRUE] \in AskType
        BY <2>1, <4>1 DEF AskTyped, AskType
      <4>3. LET r == [ask[d] EXCEPT !.pc = "upsert", !.key = k, !.valid = TRUE]
            IN r.pc = "upsert" /\ r.key = k /\ r.valid /\ r.org \in Tenants
        BY <4>1 DEF AskTyped, AskType
      <4> QED BY <3>2, <4>2, <4>3 DEF Continues
    <3> QED BY <1>2, <3>1, <3>2 DEF TrialAnswer
  <2>3. /\ truth' \in [Keys -> BOOLEAN]
        /\ told' \in [Keys -> ToldType]
    <3>1. Tell(d, k, TRUE) => told' \in [Keys -> ToldType]
      BY <2>1, TellEffect DEF AskTyped
    <3> QED BY <1>2, <2>1, <3>1 DEF TrialAnswer, AskTyped
  <2>4. LicensingTypeOK' /\ Stamped' /\ PointerInstance'
    BY <1>2 DEF TrialAnswer, LicensingTypeOK, Stamped, PointerInstance, Rows
  <2>5. AskTyped'
    BY <1>0, <1>2, <2>1, <2>2, <2>3 DEF TrialAnswer, AskTyped, OfKey
  <2>6. MadeByAsks'
    BY <1>2, <2>2, MadeKept DEF TrialAnswer, Is
  <2> QED BY <2>4, <2>5, <2>6
<1>3. ASSUME NEW d \in Deskers, Upsert(d) PROVE LicTypes'
  <2> DEFINE k == ask[d].key
             row == [status |-> "active", org |-> ask[d].org,
                     at |-> IF license[k] = NoLicense THEN Stamp ELSE license[k].at]
  <2>1. k \in Keys /\ ask[d].org \in Tenants /\ ask[d].pc = "upsert"
    BY <1>3 DEF Upsert, Is, AskTyped, AskType, OfKey
  <2>2. row \in License
    BY <2>1, StampFits DEF License, LicensingTypeOK
  <2>3. license' = [license EXCEPT ![k] = row]
    BY <1>3, <2>1 DEF Upsert, LicensingTypeOK
  <2>4. /\ license' \in [Keys -> License \union {NoLicense}]
        /\ Rows' = Rows \union {k}
        /\ Stamped' /\ \A i, j \in Rows' : i # j => license'[i].at # license'[j].at
    <3>1. row.at = IF license[k] = NoLicense THEN Stamp ELSE license[k].at
      OBVIOUS
    <3> HIDE DEF row, k
    <3> QED BY <2>1, <2>2, <2>3, <3>1, LicenseWritten
  <2>5. PICK r \in AskType : /\ ask' = [ask EXCEPT ![d] = r]
                             /\ \/ r.pc = "idle" /\ r.key = NoLicense
                                \/ ~inCloud /\ r.pc = "point" /\ r.key = k /\ r.org \in Tenants
    <3>1. CASE inCloud
      BY <1>3, <3>1, RestTyped DEF Upsert, Rests
    <3>2. CASE ~inCloud
      <4>1. "point" \in Pcs
        BY DEF Pcs, OfKey
      <4> QED BY <1>3, <2>1, <3>2, <4>1, GoesOn DEF Upsert, Continues
    <3> QED BY <3>1, <3>2
  <2> HIDE DEF row, k
  <2>6. LicensingTypeOK' /\ PointerInstance'
    BY <1>3, <2>4 DEF Upsert, LicensingTypeOK, PointerInstance
  <2>7. AskTyped'
    <3>1. \A e \in Deskers : license[ask[e].key] # NoLicense /\ ask[e].key \in Keys => license'[ask[e].key] # NoLicense
      BY <2>4 DEF Rows
    <3>2. license'[k] # NoLicense
      BY <2>4 DEF Rows
    <3> QED BY <1>0, <1>3, <2>1, <2>5, <3>1, <3>2 DEF Upsert, AskTyped, AskType, OfKey
  <2>8. MadeByAsks'
    BY <1>3, <2>1, <2>5, MadeKept DEF Upsert
  <2> QED BY <2>4, <2>6, <2>7, <2>8
<1>4. ASSUME NEW d \in Deskers, Point(d) PROVE LicTypes'
  <2>1. ask' = [ask EXCEPT ![d] = Rest] /\ ask[d].pc = "point" /\ ask[d].key \in Keys
        /\ ~inCloud /\ license[ask[d].key] # NoLicense
    BY <1>4 DEF Point, Rests, Is, AskTyped, AskType, OfKey
  <2>2. LicensingTypeOK' /\ Stamped' /\ PointerInstance'
    BY <1>4, <2>1 DEF Point, LicensingTypeOK, Stamped, PointerInstance, Rows
  <2>3. AskTyped'
    BY <1>4, <2>1, RestTyped DEF Point, AskTyped, OfKey
  <2>4. MadeByAsks'
    BY <1>4, <2>1, MadeKept DEF Point
  <2> QED BY <2>2, <2>3, <2>4
<1>5. ASSUME NEW d \in Deskers, VerifyAnswer(d) PROVE LicTypes'
  <2>0. ask[d].pc = "verify" /\ ask[d].key \in Keys /\ truth[ask[d].key] \in BOOLEAN
    BY <1>5 DEF VerifyAnswer, Is, AskTyped, AskType, OfKey
  <2>1. PICK r \in AskType : /\ ask' = [ask EXCEPT ![d] = r]
                             /\ \/ r.pc = "idle" /\ r.key = NoLicense
                                \/ r.pc = "verdict" /\ r.key = ask[d].key /\ r.org \in Tenants
    <3> DEFINE v == truth[ask[d].key]
               r == [ask[d] EXCEPT !.pc = "verdict", !.valid = v]
    <3>1. CASE Rests(d)
      BY <3>1, RestTyped DEF Rests
    <3>2. CASE Continues(d, r)
      <4>1. ask[d].org \in Tenants /\ "verdict" \in Pcs
        BY <2>0 DEF AskTyped, Pcs, OfKey
      <4>2. r \in AskType /\ r.pc = "verdict" /\ r.key = ask[d].key /\ r.org \in Tenants
        BY <2>0, <4>1 DEF AskTyped, AskType
      <4> QED BY <3>2, <4>2 DEF Continues
    <3> QED BY <1>5, <3>1, <3>2 DEF VerifyAnswer
  <2>2. told' \in [Keys -> ToldType]
    <3>1. Tell(d, ask[d].key, truth[ask[d].key]) => told' \in [Keys -> ToldType]
      BY <2>0, TellEffect DEF AskTyped
    <3> QED BY <1>5, <3>1 DEF VerifyAnswer, AskTyped
  <2>3. LicensingTypeOK' /\ Stamped' /\ PointerInstance'
    BY <1>5 DEF VerifyAnswer, LicensingTypeOK, Stamped, PointerInstance, Rows
  <2>4. AskTyped'
    BY <1>0, <1>5, <2>0, <2>1, <2>2 DEF VerifyAnswer, AskTyped, OfKey
  <2>5. MadeByAsks'
    BY <1>5, <2>0, <2>1, MadeKept DEF VerifyAnswer
  <2> QED BY <2>3, <2>4, <2>5
<1>6. ASSUME NEW d \in Deskers, WriteVerdict(d) PROVE LicTypes'
  <2> DEFINE k == ask[d].key
             row == [license[k] EXCEPT !.status = IF ask[d].valid THEN "active" ELSE "refused"]
  <2>0. ask[d].pc = "verdict" /\ k \in Keys
    BY <1>6 DEF WriteVerdict, Is, AskTyped, AskType, OfKey
  <2>1. PICK r \in AskType : /\ ask' = [ask EXCEPT ![d] = r]
                             /\ \/ r.pc = "idle" /\ r.key = NoLicense
                                \/ r.pc = "upsert" /\ r.valid /\ r.key = k /\ r.org \in Tenants
    <3>1. CASE ask[d].valid /\ ask[d].then = "upsert"
      <4>1. ask[d].org \in Tenants /\ "upsert" \in Pcs
        BY <2>0 DEF AskTyped, Pcs, OfKey
      <4>2. ask' = [ask EXCEPT ![d] = [ask[d] EXCEPT !.pc = "upsert"]]
        BY <1>6, <3>1 DEF WriteVerdict, Continues
      <4> DEFINE r == [ask[d] EXCEPT !.pc = "upsert"]
      <4>3. r \in AskType /\ r.pc = "upsert" /\ r.key = k /\ r.org = ask[d].org
            /\ r.valid
        BY <3>1, <4>1, GoesOn DEF AskTyped, AskType
      <4>4. r.org \in Tenants
        BY <4>1, <4>3
      <4>5. ask' = [ask EXCEPT ![d] = r]
        BY <4>2
      <4> HIDE DEF r, k
      <4> QED BY <4>3, <4>4, <4>5, Zenon
    <3>2. CASE ~(ask[d].valid /\ ask[d].then = "upsert")
      BY <1>6, <3>2, RestTyped DEF WriteVerdict, Rests
    <3> QED BY <3>1, <3>2
  <2>2. /\ license' \in [Keys -> License \union {NoLicense}] /\ Rows' = Rows
        /\ Stamped' /\ \A i, j \in Rows' : i # j => license'[i].at # license'[j].at
    <3>1. CASE license[k] = NoLicense
      BY <1>6, <3>1 DEF WriteVerdict, LicensingTypeOK, Rows, Stamped
    <3>2. CASE license[k] # NoLicense
      <4>1. license' = [license EXCEPT ![k] = row]
        BY <1>6, <3>2, <2>0 DEF WriteVerdict, Verdict, LicensingTypeOK
      <4>2. license[k] \in License
        BY <2>0, <3>2 DEF LicensingTypeOK
      <4>3. row \in License /\ row.at = license[k].at
        BY <4>2 DEF License
      <4>4. k \in Rows
        BY <2>0, <3>2 DEF Rows
      <4> HIDE DEF row, k
      <4>5. Rows' = Rows \union {k}
            /\ license' \in [Keys -> License \union {NoLicense}]
            /\ Stamped' /\ \A i, j \in Rows' : i # j => license'[i].at # license'[j].at
        BY <2>0, <3>2, <4>1, <4>3, LicenseWritten
      <4> QED BY <4>4, <4>5
    <3> QED BY <3>1, <3>2
  <2> HIDE DEF row, k
  <2>3. LicensingTypeOK' /\ PointerInstance'
    BY <1>6, <2>2 DEF WriteVerdict, LicensingTypeOK, PointerInstance
  <2>4. AskTyped'
    <3>1. \A j \in Keys : license[j] # NoLicense => license'[j] # NoLicense
      BY <2>2 DEF Rows
    <3> QED BY <1>0, <1>6, <2>0, <2>1, <3>1 DEF WriteVerdict, AskTyped, AskType, OfKey
  <2>5. MadeByAsks'
    BY <1>6, <2>0, <2>1, MadeKept DEF WriteVerdict
  <2> QED BY <2>2, <2>3, <2>4, <2>5
<1>7. ASSUME NEW d \in Deskers, Entitled(d) \/ Capped(d) PROVE LicTypes'
  <2>1. PICK r \in AskType : /\ ask' = [ask EXCEPT ![d] = r]
                             /\ r.pc = "idle" \/ (r.pc \in {"cap", "make"} /\ r.org \in Tenants)
                             /\ r.key = NoLicense
    <3>1. ask[d].pc \in {"entitled", "cap"} /\ ask[d].org \in Tenants /\ ask[d].key = NoLicense
      BY <1>7 DEF Entitled, Capped, Is, AskTyped, OfKey
    <3>2. Rests(d) \/ \E pc \in {"cap", "make"} : Continues(d, [ask[d] EXCEPT !.pc = pc])
      BY <1>7 DEF Entitled, Capped
    <3>3. "cap" \in Pcs /\ "make" \in Pcs
      BY DEF Pcs
    <3>4. CASE Rests(d)
      BY <3>4, RestTyped DEF Rests
    <3>5. ASSUME NEW pc \in {"cap", "make"}, Continues(d, [ask[d] EXCEPT !.pc = pc])
          PROVE  \E r \in AskType : /\ ask' = [ask EXCEPT ![d] = r]
                                    /\ r.pc \in {"cap", "make"} /\ r.org \in Tenants
                                    /\ r.key = NoLicense
      BY <3>1, <3>3, <3>5, GoesOn DEF Continues
    <3> QED BY <3>2, <3>4, <3>5
  <2>2. ask[d].pc # "idle"
        /\ UNCHANGED <<inCloud, truth, trialOf, license, pointer, made, asks, turns, told>>
    BY <1>7 DEF Entitled, Capped, Is
  <2>3. LicensingTypeOK' /\ Stamped' /\ PointerInstance'
    BY <2>2 DEF LicensingTypeOK, Stamped, PointerInstance, Rows
  <2>4. AskTyped'
    BY <1>0, <2>1, <2>2 DEF AskTyped, OfKey
  <2>5. MadeByAsks'
    BY <2>1, <2>2, MadeKept
  <2> QED BY <2>3, <2>4, <2>5
<1>8. ASSUME NEW d \in Deskers, Make(d) PROVE LicTypes'
  <2>1. ask' = [ask EXCEPT ![d] = Rest] /\ ask[d].pc = "make" /\ ask[d].org \in Tenants
    BY <1>8 DEF Make, Rests, Is, AskTyped
  <2>2. Cardinality(Busy') = Cardinality(Busy) - 1
    BY <2>1, RestTyped, BusyChange
  <2>3. Cardinality(Busy') \in Nat
    <3>1. Busy' \subseteq Deskers
      BY DEF Busy
    <3> QED BY <3>1, FS_Subset, FS_CardinalityType DEF LicAssumptions, LicensingAssumption
  <2>4. MadeByAsks'
    BY <1>0, <1>8, <2>1, <2>2 DEF Make, MadeByAsks, LicensingTypeOK
  <2>5. LicensingTypeOK'
    BY <1>0, <1>8, <2>1, <2>2, <2>3 DEF Make, MadeByAsks, LicensingTypeOK, Rows
  <2>6. Stamped' /\ PointerInstance'
    BY <1>8 DEF Make, Stamped, PointerInstance, Rows
  <2>7. AskTyped'
    BY <1>0, <1>8, <2>1, RestTyped DEF Make, AskTyped, OfKey
  <2> QED BY <2>4, <2>5, <2>6, <2>7
<1>9. ASSUME NEW d \in Deskers, AskBreaks(d) PROVE LicTypes'
  <2>1. ask' = [ask EXCEPT ![d] = Rest] /\ ask[d].pc # "idle"
    BY <1>9 DEF AskBreaks, Rests, Is
  <2>2. LicensingTypeOK' /\ Stamped' /\ PointerInstance'
    BY <1>9 DEF AskBreaks, LicensingTypeOK, Stamped, PointerInstance, Rows
  <2>3. AskTyped'
    <3>1. told' \in [Keys -> ToldType]
      BY <1>9, UntellEffect DEF AskBreaks, AskTyped
    <3> QED BY <1>0, <1>9, <2>1, <3>1, RestTyped DEF AskBreaks, AskTyped, OfKey
  <2>4. MadeByAsks'
    BY <1>9, <2>1, MadeKept DEF AskBreaks
  <2> QED BY <2>2, <2>3, <2>4
<1>10. ASSUME NEW o \in Tenants, Status(o) PROVE LicTypes'
  <2> DEFINE k == Current(o)
             row == [license[k] EXCEPT !.org = o]
  <2>1. k \in Rows
    BY <1>10, CurrentIsRow DEF Status
  <2>2. k \in Keys /\ license[k] \in License /\ license[k] # NoLicense
    BY <2>1 DEF Rows, LicensingTypeOK
  <2>3. row \in License /\ row.at = license[k].at
    BY <2>2 DEF License
  <2>4. license' = [license EXCEPT ![k] = row]
    BY <1>10 DEF Status
  <2> HIDE DEF k, row
  <2>5. Rows' = Rows \union {k}
        /\ license' \in [Keys -> License \union {NoLicense}]
        /\ Stamped' /\ \A i, j \in Rows' : i # j => license'[i].at # license'[j].at
    BY <2>2, <2>3, <2>4, LicenseWritten
  <2>6. LicensingTypeOK' /\ PointerInstance'
    BY <1>10, <2>1, <2>5 DEF Status, LicensingTypeOK, PointerInstance
  <2>7. AskTyped'
    <3>1. \A j \in Keys : license[j] # NoLicense => license'[j] # NoLicense
      BY <2>5 DEF Rows
    <3> QED BY <1>10, <3>1 DEF Status, AskTyped, AskType, OfKey
  <2>8. MadeByAsks'
    BY <1>10 DEF Status, MadeByAsks, Busy
  <2> QED BY <2>5, <2>6, <2>7, <2>8
<1>11. ASSUME NEW k \in Keys, Turn(k) PROVE LicTypes'
  <2>1. LicensingTypeOK' /\ Stamped' /\ PointerInstance' /\ MadeByAsks'
    BY <1>0, <1>11 DEF Turn, LicensingTypeOK, Stamped, PointerInstance, Rows, MadeByAsks, Busy
  <2>2. AskTyped'
    BY <1>11 DEF Turn, AskTyped
  <2> QED BY <2>1, <2>2
<1>12. CASE UNCHANGED licensingVars
  BY <1>12 DEF licensingVars, LicensingTypeOK, AskTyped, Stamped, PointerInstance, Rows, MadeByAsks, Busy
<1> QED
  BY <1>1, <1>2, <1>3, <1>4, <1>5, <1>6, <1>7, <1>8, <1>9, <1>10, <1>11, <1>12,
     PlainStarts, KeyStarts
  DEF LicensingNext

-----------------------------------------------------------------------------
Answers == OneSpeaks /\ HoldsAnswer /\ RowTold

\* A request that speaks of no judged key ends, or starts without a key.
LEMMA AnswersKept ==
  ASSUME AskTyped, Answers, NoLicense \notin Keys, NEW d \in Deskers, NEW r, ask' = [ask EXCEPT ![d] = r],
         r.key = NoLicense, ask[d].pc \notin Judged, told' = told, license' = license
  PROVE  Answers'
<1>1. OneSpeaks'
  BY DEF AskTyped, Answers, OneSpeaks
<1>2. HoldsAnswer'
  BY DEF AskTyped, Answers, HoldsAnswer
<1>3. RowTold'
  <2> SUFFICES ASSUME NEW k \in Rows', told'[k].ordered,
                      \A e \in Deskers : ask'[e].key = k => ask'[e].pc \notin Judged
               PROVE  (license'[k].status = "active") = told'[k].valid
    BY DEF RowTold
  <2>1. \A e \in Deskers : ask[e].key = k => ask[e].pc \notin Judged
    BY DEF AskTyped
  <2>2. k \in Rows /\ told[k].ordered
    BY DEF Rows
  <2>3. (license[k].status = "active") = told[k].valid
    BY <2>1, <2>2 DEF Answers, RowTold
  <2> QED BY <2>3
<1> QED BY <1>1, <1>2, <1>3 DEF Answers

\* A request speaks of one key before and after its step, and nothing else is
\* written: what holds of that key is enough.
LEMMA AnswersOfKey ==
  ASSUME AskTyped, Answers, NoLicense \notin Keys, NEW d \in Deskers, NEW k \in Keys, NEW r,
         ask' = [ask EXCEPT ![d] = r],
         ask[d].key \in {k, NoLicense}, r.key \in {k, NoLicense},
         \A j \in Keys \ {k} : told'[j] = told[j] /\ license'[j] = license[j],
         told'[k].ordered => \A e \in Deskers \ {d} : ask[e].key # k,
         told'[k].ordered /\ r.key = k =>
           /\ r.pc \in {"verdict", "upsert"} => r.valid = told'[k].valid
           /\ r.pc = "point" => told'[k].valid /\ license'[k].status = "active",
         told'[k].ordered /\ license'[k] # NoLicense /\ (r.key = k => r.pc \notin Judged) =>
           (license'[k].status = "active") = told'[k].valid
  PROVE  Answers'
<1>1. OneSpeaks'
  <2> SUFFICES ASSUME NEW j \in Keys, told'[j].ordered, NEW e \in Deskers, NEW f \in Deskers,
                      ask'[e].key = j, ask'[f].key = j
               PROVE  e = f
    BY DEF OneSpeaks
  <2>1. CASE j = k
    BY <2>1 DEF AskTyped
  <2>2. CASE j # k
    <3>1. e # d /\ f # d
      BY <2>2 DEF AskTyped
    <3>2. told[j].ordered
      BY <2>2
    <3> QED BY <3>1, <3>2 DEF AskTyped, Answers, OneSpeaks
  <2> QED BY <2>1, <2>2
<1>2. HoldsAnswer'
  <2> SUFFICES ASSUME NEW e \in Deskers, ask'[e].key # NoLicense, told'[ask'[e].key].ordered
               PROVE  /\ ask'[e].pc \in {"verdict", "upsert"} => ask'[e].valid = told'[ask'[e].key].valid
                      /\ ask'[e].pc = "point" => told'[ask'[e].key].valid
                                                 /\ license'[ask'[e].key].status = "active"
    BY DEF HoldsAnswer
  <2>1. CASE e = d
    <3>1. ask'[e] = r /\ r.key = k
      BY <2>1 DEF AskTyped
    <3> QED BY <3>1
  <2>2. CASE e # d
    <3>1. ask'[e] = ask[e] /\ ask[e].key \in Keys
      BY <2>2 DEF AskTyped, AskType
    <3>2. ask[e].key # k
      BY <2>2, <3>1
    <3>3. told'[ask[e].key] = told[ask[e].key] /\ license'[ask[e].key] = license[ask[e].key]
      BY <3>1, <3>2
    <3> QED BY <3>1, <3>3 DEF Answers, HoldsAnswer
  <2> QED BY <2>1, <2>2
<1>3. RowTold'
  <2> SUFFICES ASSUME NEW j \in Rows', told'[j].ordered,
                      \A e \in Deskers : ask'[e].key = j => ask'[e].pc \notin Judged
               PROVE  (license'[j].status = "active") = told'[j].valid
    BY DEF RowTold
  <2>0. j \in Keys /\ license'[j] # NoLicense
    BY DEF Rows
  <2>1. CASE j = k
    <3>1. r.key = k => r.pc \notin Judged
      BY <2>1 DEF AskTyped
    <3> QED BY <2>0, <2>1, <3>1
  <2>2. CASE j # k
    <3>1. told'[j] = told[j] /\ license'[j] = license[j]
      BY <2>0, <2>2
    <3>2. \A e \in Deskers : ask[e].key = j => ask[e].pc \notin Judged
      BY <2>0, <2>2 DEF AskTyped
    <3>3. j \in Rows
      BY <2>0, <3>1 DEF Rows
    <3>4. (license[j].status = "active") = told[j].valid
      BY <3>1, <3>2, <3>3 DEF Answers, RowTold
    <3> QED BY <3>1, <3>4
  <2> QED BY <2>1, <2>2
<1> QED BY <1>1, <1>2, <1>3 DEF Answers

\* Every step keeps what the rows tell.
LEMMA LicAnswersStep ==
  ASSUME LicAssumptions, LicTypes, Answers, [LicensingNext]_licensingVars
  PROVE  Answers'
<1> USE DEF LicTypes
<1>0. NoLicense \notin Keys /\ NoLicense \notin License
      /\ \A d \in Deskers : ask[d].pc \notin OfKey => ask[d].key = NoLicense /\ ask[d].pc \notin Judged
  BY DEF LicAssumptions, LicensingAssumption, NoLicenseAssumption, AskTyped, OfKey, Judged
<1>1. ASSUME NEW d \in Deskers, StartsPlain(d) PROVE Answers'
  BY <1>0, <1>1, AnswersKept DEF StartsPlain, AskStarts, OfKey
<1>2. ASSUME NEW d \in Deskers, StartsOfKey(d) PROVE Answers'
  <2>1. PICK r : /\ AskStarts(d, r) /\ r.key \in Keys /\ r.pc = "verify"
                 /\ told' = IF \E e \in Deskers \ {d} : ask[e].key = r.key
                            THEN Untell(r.key) ELSE told
    BY <1>2 DEF StartsOfKey
  <2> DEFINE k == r.key
  <2>2. ask' = [ask EXCEPT ![d] = r] /\ license' = license /\ ask[d].key = NoLicense
    BY <1>0, <2>1 DEF AskStarts, OfKey
  <2>3. CASE \E e \in Deskers \ {d} : ask[e].key = k
    <3>1. ~told'[k].ordered /\ \A j \in Keys \ {k} : told'[j] = told[j]
      BY <2>1, <2>3, UntellEffect DEF AskTyped
    <3> HIDE DEF k
    <3>2. k \in Keys /\ r.key = k
      BY <2>1 DEF k
    <3> QED BY <1>0, <2>2, <3>1, <3>2, AnswersOfKey
  <2>4. CASE ~ \E e \in Deskers \ {d} : ask[e].key = k
    <3>1. told' = told
      BY <2>1, <2>4
    <3>2. told'[k].ordered /\ license'[k] # NoLicense => (license'[k].status = "active") = told'[k].valid
      <4>1. told[k].ordered /\ k \in Rows => (license[k].status = "active") = told[k].valid
        BY <1>0, <2>1, <2>2, <2>4 DEF Answers, RowTold
      <4> QED BY <2>1, <2>2, <3>1, <4>1 DEF Rows
    <3>3. k \in Keys /\ r.key = k /\ r.pc = "verify"
      BY <2>1
    <3> HIDE DEF k
    <3> QED BY <1>0, <2>2, <2>4, <3>1, <3>2, <3>3, AnswersOfKey
  <2> QED BY <2>3, <2>4
<1>3. ASSUME NEW d \in Deskers, NEW k \in TrialKeys, TrialAnswer(d, k) PROVE Answers'
  <2>1. k \in Keys /\ ask[d].pc = "trial" /\ ask[d].key = NoLicense /\ license' = license
    BY <1>0, <1>3 DEF Keys, TrialAnswer, Is, OfKey
  <2>2. CASE Rests(d) /\ told' = told
    BY <1>0, <2>1, <2>2, RestTyped, AnswersKept DEF Rests, Judged
  <2>3. CASE Tell(d, k, TRUE) /\ Continues(d, [ask[d] EXCEPT !.pc = "upsert", !.key = k, !.valid = TRUE])
    <3> DEFINE r == [ask[d] EXCEPT !.pc = "upsert", !.key = k, !.valid = TRUE]
    <3>1. r.pc = "upsert" /\ r.key = k /\ r.valid = TRUE
      BY DEF AskTyped, AskType
    <3>2. /\ \A j \in Keys \ {k} : told'[j] = told[j]
          /\ told'[k].valid = TRUE
          /\ told'[k].ordered => \A e \in Deskers \ {d} : ask[e].key # k
      BY <2>1, <2>3, TellEffect DEF AskTyped
    <3>3. ask' = [ask EXCEPT ![d] = r] /\ r.pc \in Judged
      BY <2>3, <3>1 DEF Continues, Judged
    <3> HIDE DEF r
    <3> QED BY <1>0, <2>1, <3>1, <3>2, <3>3, AnswersOfKey
  <2> QED BY <1>3, <2>2, <2>3 DEF TrialAnswer
<1>4. ASSUME NEW d \in Deskers, ask[d].key \in Keys, told' = told, told[ask[d].key].ordered
      PROVE  \A e \in Deskers \ {d} : ask[e].key # ask[d].key
  BY <1>4 DEF Answers, OneSpeaks
<1>5. ASSUME NEW d \in Deskers, Upsert(d) PROVE Answers'
  <2> DEFINE k == ask[d].key
  <2>1. k \in Keys /\ ask[d].pc = "upsert" /\ told' = told
    BY <1>5 DEF Upsert, Is, AskTyped, AskType, OfKey
  <2>2. license'[k].status = "active" /\ \A j \in Keys \ {k} : license'[j] = license[j]
    BY <1>5, <2>1 DEF Upsert, LicensingTypeOK
  <2>3. told'[k].ordered => told'[k].valid = TRUE
    <3>1. ask[d].valid = TRUE
      BY <2>1 DEF AskTyped, AskType
    <3> QED BY <1>0, <2>1, <3>1 DEF Answers, HoldsAnswer
  <2>4. PICK r : /\ ask' = [ask EXCEPT ![d] = r]
                 /\ r.key = NoLicense \/ (r.key = k /\ r.pc = "point")
    <3>1. CASE inCloud
      BY <1>5, <3>1, RestTyped DEF Upsert, Rests
    <3>2. CASE ~inCloud
      <4> DEFINE s == [ask[d] EXCEPT !.pc = "point"]
      <4>1. s.key = k /\ s.pc = "point"
        BY DEF AskTyped, AskType
      <4>2. ask' = [ask EXCEPT ![d] = s]
        BY <1>5, <3>2 DEF Upsert, Continues
      <4> HIDE DEF s, k
      <4> QED BY <4>1, <4>2
    <3> QED BY <3>1, <3>2
  <2>5. told'[k].ordered => \A e \in Deskers \ {d} : ask[e].key # k
    BY <1>4, <2>1
  <2> HIDE DEF k
  <2>6. ask[d].key = k
    BY DEF k
  <2> QED BY <1>0, <2>1, <2>2, <2>3, <2>4, <2>5, <2>6, AnswersOfKey
<1>6. ASSUME NEW d \in Deskers, Point(d) PROVE Answers'
  <2> DEFINE k == ask[d].key
  <2>1. k \in Keys /\ ask[d].pc = "point" /\ told' = told /\ license' = license
    BY <1>6 DEF Point, Is, AskTyped, AskType, OfKey
  <2>2. told'[k].ordered => (license'[k].status = "active") = told'[k].valid
    <3>1. told[k].ordered => told[k].valid /\ license[k].status = "active"
      BY <1>0, <2>1 DEF Answers, HoldsAnswer
    <3>2. told[k].valid \in BOOLEAN
      BY <2>1 DEF AskTyped, ToldType
    <3> QED BY <2>1, <3>1, <3>2
  <2>3. ask' = [ask EXCEPT ![d] = Rest]
    BY <1>6 DEF Point, Rests
  <2>4. told'[k].ordered => \A e \in Deskers \ {d} : ask[e].key # k
    BY <1>4, <2>1
  <2> HIDE DEF k
  <2>5. ask[d].key = k
    BY DEF k
  <2> QED BY <1>0, <2>1, <2>2, <2>3, <2>4, <2>5, RestTyped, AnswersOfKey
<1>7. ASSUME NEW d \in Deskers, VerifyAnswer(d) PROVE Answers'
  <2> DEFINE k == ask[d].key
             v == truth[k]
             r == [ask[d] EXCEPT !.pc = "verdict", !.valid = v]
  <2>1. k \in Keys /\ ask[d].pc = "verify" /\ license' = license /\ v \in BOOLEAN
    BY <1>7 DEF VerifyAnswer, Is, AskTyped, AskType, OfKey
  <2>2. CASE Rests(d) /\ told' = told
    BY <1>0, <2>1, <2>2, RestTyped, AnswersKept DEF Rests, Judged
  <2>3. CASE Tell(d, k, v) /\ Continues(d, r)
    <3>1. r.pc = "verdict" /\ r.key = k /\ r.valid = v
      BY <2>1 DEF AskTyped, AskType
    <3>2. ask' = [ask EXCEPT ![d] = r] /\ ask[d].key = k
      BY <2>3 DEF Continues
    <3> HIDE DEF r, v, k
    <3>3. /\ \A j \in Keys \ {k} : told'[j] = told[j]
          /\ told'[k].valid = v
          /\ told'[k].ordered => \A e \in Deskers \ {d} : ask[e].key # k
      BY <2>1, <2>3, TellEffect DEF AskTyped
    <3>4. r.pc \in Judged
      BY <3>1 DEF Judged
    <3> QED BY <1>0, <2>1, <3>1, <3>2, <3>3, <3>4, AnswersOfKey
  <2> QED BY <1>7, <2>2, <2>3 DEF VerifyAnswer
<1>8. ASSUME NEW d \in Deskers, WriteVerdict(d) PROVE Answers'
  <2> DEFINE k == ask[d].key
             v == ask[d].valid
  <2>1. k \in Keys /\ ask[d].pc = "verdict" /\ told' = told /\ v \in BOOLEAN
    BY <1>8 DEF WriteVerdict, Is, AskTyped, AskType, OfKey
  <2>2. /\ \A j \in Keys \ {k} : license'[j] = license[j]
        /\ license'[k] # NoLicense => (license'[k].status = "active") = v
    <3>1. CASE license[k] = NoLicense
      BY <1>8, <3>1 DEF WriteVerdict
    <3>2. CASE license[k] # NoLicense
      <4>1. license' = [license EXCEPT ![k] = [license[k] EXCEPT !.status = IF v THEN "active" ELSE "refused"]]
        BY <1>8, <2>1, <3>2 DEF WriteVerdict, Verdict, LicensingTypeOK
      <4>2. license[k] \in License
        BY <2>1, <3>2 DEF LicensingTypeOK
      <4>3. license'[k].status = IF v THEN "active" ELSE "refused"
        BY <2>1, <4>1, <4>2 DEF LicensingTypeOK, License
      <4>4. \A j \in Keys \ {k} : license'[j] = license[j]
        BY <4>1 DEF LicensingTypeOK
      <4> HIDE DEF k, v
      <4> QED BY <2>1, <4>3, <4>4
    <3> QED BY <3>1, <3>2
  <2>3. told'[k].ordered => v = told'[k].valid
    BY <1>0, <2>1 DEF Answers, HoldsAnswer
  <2>4. PICK r : /\ ask' = [ask EXCEPT ![d] = r]
                 /\ r.key = NoLicense \/ (r.key = k /\ r.pc = "upsert" /\ r.valid = v)
    <3>1. CASE v /\ ask[d].then = "upsert"
      <4> DEFINE s == [ask[d] EXCEPT !.pc = "upsert"]
      <4>1. s.key = k /\ s.pc = "upsert" /\ s.valid = v
        BY DEF AskTyped, AskType
      <4>2. ask' = [ask EXCEPT ![d] = s]
        BY <1>8, <3>1 DEF WriteVerdict, Continues
      <4> HIDE DEF s, k, v
      <4> QED BY <4>1, <4>2
    <3>2. CASE ~ (v /\ ask[d].then = "upsert")
      BY <1>8, <3>2, RestTyped DEF WriteVerdict, Rests
    <3> QED BY <3>1, <3>2
  <2>5. told'[k].ordered => \A e \in Deskers \ {d} : ask[e].key # k
    BY <1>4, <2>1
  <2>6. ask[d].key = k /\ "upsert" \in Judged
    BY DEF Judged
  <2> HIDE DEF k, v
  <2> QED BY <1>0, <2>1, <2>2, <2>3, <2>4, <2>5, <2>6, AnswersOfKey
<1>9. ASSUME NEW d \in Deskers, Entitled(d) \/ Capped(d) \/ Make(d) PROVE Answers'
  <2>1. ask[d].pc \in {"entitled", "cap", "make"} /\ told' = told /\ license' = license
    BY <1>9 DEF Entitled, Capped, Make, Is
  <2>2. ask[d].key = NoLicense /\ ask[d].pc \notin Judged
    BY <1>0, <2>1 DEF OfKey
  <2>3. PICK r : ask' = [ask EXCEPT ![d] = r] /\ r.key = NoLicense
    <3>1. Rests(d) \/ \E pc \in {"cap", "make"} : Continues(d, [ask[d] EXCEPT !.pc = pc])
      BY <1>9 DEF Entitled, Capped, Make
    <3>2. ASSUME NEW pc \in {"cap", "make"}
          PROVE  [ask[d] EXCEPT !.pc = pc].key = NoLicense
      BY <2>2 DEF AskTyped, AskType
    <3> QED BY <3>1, <3>2, RestTyped DEF Rests, Continues
  <2> QED BY <1>0, <2>1, <2>2, <2>3, AnswersKept
<1>10. ASSUME NEW d \in Deskers, AskBreaks(d) PROVE Answers'
  <2>1. ask' = [ask EXCEPT ![d] = Rest] /\ license' = license
    BY <1>10 DEF AskBreaks, Rests
  <2>2. CASE ask[d].key \in Keys
    <3> DEFINE k == ask[d].key
    <3>1. ~told'[k].ordered /\ \A j \in Keys \ {k} : told'[j] = told[j]
      BY <1>10, <2>2, UntellEffect DEF AskBreaks, AskTyped
    <3> HIDE DEF k
    <3>2. ask[d].key = k /\ k \in Keys
      BY <2>2 DEF k
    <3> QED BY <1>0, <2>1, <3>1, <3>2, RestTyped, AnswersOfKey
  <2>3. CASE ask[d].key \notin Keys
    <3>1. told' = told /\ ask[d].pc \notin Judged
      BY <1>10, <2>3 DEF AskBreaks, AskTyped, AskType, OfKey, Judged
    <3> QED BY <1>0, <2>1, <3>1, RestTyped, AnswersKept
  <2> QED BY <2>2, <2>3
<1>11. ASSUME told' = told, ask' = ask,
             \A k \in Keys : /\ license'[k] = NoLicense <=> license[k] = NoLicense
                             /\ license'[k].status = license[k].status
       PROVE Answers'
  <2>1. Rows' = Rows
    BY <1>11 DEF Rows
  <2>2. HoldsAnswer'
    <3>1. \A d \in Deskers : ask[d].key # NoLicense => ask[d].key \in Keys
      BY DEF AskTyped, AskType
    <3> QED BY <1>11, <3>1 DEF Answers, HoldsAnswer
  <2>3. OneSpeaks'
    BY <1>11 DEF Answers, OneSpeaks
  <2>4. RowTold'
    BY <1>11, <2>1 DEF Answers, RowTold, Rows
  <2> QED BY <2>2, <2>3, <2>4 DEF Answers
<1>12. ASSUME NEW o \in Tenants, Status(o) PROVE Answers'
  <2> DEFINE k == Current(o)
  <2>1. k \in Keys /\ license[k] \in License /\ license[k] # NoLicense
    BY <1>12, CurrentIsRow DEF Status, Rows, LicensingTypeOK
  <2>2. license' = [license EXCEPT ![k] = [license[k] EXCEPT !.org = o]] /\ told' = told /\ ask' = ask
    BY <1>12 DEF Status
  <2> HIDE DEF k
  <2>3. [license[k] EXCEPT !.org = o] \in License
    BY <1>12, <2>1 DEF License
  <2>4. [license[k] EXCEPT !.org = o].status = license[k].status
    BY <2>1 DEF License
  <2> QED BY <1>0, <1>11, <2>1, <2>2, <2>3, <2>4 DEF LicensingTypeOK
<1>13. ASSUME NEW k \in Keys, Turn(k) PROVE Answers'
  BY <1>11, <1>13 DEF Turn
<1>14. CASE UNCHANGED licensingVars
  BY <1>11, <1>14 DEF licensingVars
<1> QED
  BY <1>1, <1>2, <1>3, <1>5, <1>6, <1>7, <1>8, <1>9, <1>10, <1>12, <1>13, <1>14,
     PlainStarts, KeyStarts
  DEF LicensingNext

\* The invariant holds of the rows a behaviour starts from.
LEMMA LicInit == ASSUME LicAssumptions, LicensingInit PROVE LicInv
<1>1. PICK old : /\ old \in {{}} \union {{k} : k \in PaidKeys}
                 /\ inCloud => old = {}
                 /\ license = [k \in Keys |-> IF k \notin old THEN NoLicense
                       ELSE [status |-> "active", org |-> NoTenant, at |-> 1]]
                 /\ pointer \in old \union {NoLicense}
  BY DEF LicensingInit
<1> DEFINE row == [status |-> "active", org |-> NoTenant, at |-> 1]
<1>2. old \subseteq Keys /\ IsFiniteSet(old) /\ Cardinality(old) <= 1
      /\ \A j, k \in old : j = k
  <2>1. CASE old = {}
    BY <2>1, FS_EmptySet
  <2>2. ASSUME NEW k \in PaidKeys, old = {k}
        PROVE  /\ old \subseteq Keys /\ IsFiniteSet(old) /\ Cardinality(old) <= 1
               /\ \A i, j \in old : i = j
    <3>1. IsFiniteSet({k}) /\ Cardinality({k}) = 1
      BY FS_Singleton
    <3>2. k \in Keys
      BY DEF Keys
    <3> QED BY <2>2, <3>1, <3>2
  <2> QED BY <1>1, <2>1, <2>2
<1>3. old # {} => row \in License
  <2> SUFFICES ASSUME NEW k \in old PROVE row \in License
    OBVIOUS
  <2>1. {k} \subseteq Keys
    BY <1>2
  <2>2. Cardinality({k}) <= Cardinality(Keys) /\ Cardinality({k}) = 1 /\ Cardinality(Keys) \in Nat
    BY <2>1, FS_Singleton, FS_Subset, FS_CardinalityType DEF LicAssumptions, LicensingAssumption
  <2> QED BY <2>2 DEF License
<1>4. \A k \in old : row \in License /\ row # NoLicense
  BY <1>3 DEF LicAssumptions, NoLicenseAssumption
<1>5. Rows = old /\ (\A k \in old : license[k] = row)
      /\ license \in [Keys -> License \union {NoLicense}]
  <2>1. \A k \in Keys : license[k] = IF k \notin old THEN NoLicense ELSE row
    BY <1>1
  <2>2. license = [k \in Keys |-> IF k \notin old THEN NoLicense ELSE row]
    BY <1>1
  <2> HIDE DEF row
  <2> QED BY <1>2, <1>4, <2>1, <2>2 DEF Rows
<1>6. LicensingTypeOK
  <2>1. {Cap, MaxAsks, MaxTurns} \subseteq Nat
    BY DEF LicAssumptions, LicensingAssumption
  <2>2. pointer \in Keys \union {NoLicense}
    BY <1>1, <1>2
  <2> QED BY <1>2, <1>5, <2>1, <2>2 DEF LicensingTypeOK, LicensingInit
<1>7. Busy = {} /\ \A d \in Deskers : ask[d] = Rest
  BY DEF LicensingInit, Busy, Rest
<1>8. Rest.pc = "idle" /\ Rest.key = NoLicense /\ Rest \in AskType
  BY RestTyped
<1>9. AskTyped
  <2>1. told \in [Keys -> ToldType] /\ truth \in [Keys -> BOOLEAN] /\ inCloud \in BOOLEAN
    BY DEF LicensingInit, ToldType
  <2>2. ask \in [Deskers -> AskType]
    BY <1>8 DEF LicensingInit
  <2> QED BY <1>7, <1>8, <2>1, <2>2 DEF AskTyped, OfKey
<1>10. Stamped
  <2>1. Cardinality({}) = 0 /\ \A k : Cardinality({k}) = 1
    BY FS_EmptySet, FS_Singleton
  <2>2. \A k \in old : Cardinality(old) = 1
    BY <1>1, <2>1
  <2> QED BY <1>5, <2>2 DEF Stamped
<1>11. MadeByAsks
  BY <1>7, FS_EmptySet DEF MadeByAsks, LicensingInit
<1>12. OneSpeaks /\ HoldsAnswer
  <2>1. NoLicense \notin Keys
    BY DEF LicAssumptions, LicensingAssumption
  <2> QED BY <1>7, <1>8, <2>1 DEF OneSpeaks, HoldsAnswer
<1>13. RowTold
  <2>1. \A k \in Keys : told[k].valid = TRUE
    BY DEF LicensingInit
  <2>2. \A k \in Rows : k \in Keys /\ license[k].status = "active"
    BY <1>2, <1>5
  <2> QED BY <2>1, <2>2 DEF RowTold
<1>14. PointerInstance
  BY <1>1, <1>5 DEF PointerInstance
<1> QED BY <1>6, <1>9, <1>10, <1>11, <1>12, <1>13, <1>14 DEF LicInv

\* The invariant holds in every reachable state.
LEMMA LicInvHolds == LicensingSpec => []LicInv
<1>1. LicAssumptions
  BY LicensingAssumption, NoLicenseAssumption DEF LicAssumptions
<1>2. LicensingInit => LicInv
  BY <1>1, LicInit
<1>3. LicInv /\ [LicensingNext]_licensingVars => LicInv'
  BY <1>1, LicTypesStep, LicAnswersStep DEF LicInv, LicTypes, Answers
<1> QED BY <1>2, <1>3, PTL DEF LicensingSpec

-----------------------------------------------------------------------------
(* The composition.                                                        *)

\* What makes the mailed tokens work once.
LEMMA MailOnceFromInv == MailInv => MailedTokensWorkOnce
BY DEF MailInv, MailedTypeOK, CallTyped, OneSend, AloneHasLink, MailedTokensWorkOnce, Live, Sending

\* The invariants of the five parts.
AccountsInv == WorkspacesInv /\ MailInv /\ LicInv /\ SkillsInv /\ CodesInv

\* Every part starts as it does alone, and takes a step of its own or none.
LEMMA AccountsInvInit == AccountsInit => AccountsInv
<1> SUFFICES ASSUME AccountsInit PROVE AccountsInv
  OBVIOUS
<1>1. WorkspacesInit /\ MailedInit /\ LicensingInit /\ SkillsInit /\ OAuthServerInit
  BY DEF AccountsInit
<1>2. LicAssumptions
  BY LicensingAssumption, NoLicenseAssumption DEF LicAssumptions
<1> QED BY <1>1, <1>2, WorkspacesInvInit, MailInvInit, LicInit, SkillsInvInit, CodesInvInit,
           MailedAssumption, SkillsAssumption, NoSkillAssumption, OAuthServerAssumption
        DEF AccountsInv

LEMMA AccountsParts ==
  [AccountsNext]_accountsVars =>
    /\ [WorkspacesNext]_workspacesVars /\ [MailedNext]_mailedVars
    /\ [LicensingNext]_licensingVars /\ [SkillsNext]_skillsVars
    /\ [OAuthServerNext]_oauthServerVars
BY DEF AccountsNext, accountsVars

LEMMA AccountsInvStep == AccountsInv /\ [AccountsNext]_accountsVars => AccountsInv'
<1> SUFFICES ASSUME AccountsInv, [AccountsNext]_accountsVars PROVE AccountsInv'
  OBVIOUS
<1>1. /\ [WorkspacesNext]_workspacesVars /\ [MailedNext]_mailedVars
      /\ [LicensingNext]_licensingVars /\ [SkillsNext]_skillsVars
      /\ [OAuthServerNext]_oauthServerVars
  BY AccountsParts
<1>2. LicAssumptions
  BY LicensingAssumption, NoLicenseAssumption DEF LicAssumptions
<1>3. WorkspacesInv'
  BY <1>1, WorkspacesInvNext DEF AccountsInv
<1>4. MailInv'
  BY <1>1, MailInvStep, MailedAssumption DEF AccountsInv
<1>5. LicInv'
  BY <1>1, <1>2, LicTypesStep, LicAnswersStep DEF AccountsInv, LicInv, LicTypes, Answers
<1>6. SkillsInv'
  BY <1>1, SkillsInvStep, SkillsAssumption, NoSkillAssumption DEF AccountsInv
<1>7. CodesInv'
  BY <1>1, CodesInvStep, OAuthServerAssumption DEF AccountsInv
<1> QED BY <1>3, <1>4, <1>5, <1>6, <1>7 DEF AccountsInv

\* The five invariants hold in every reachable state of the composition.
THEOREM AccountsInvHolds == AccountsSpec => []AccountsInv
BY AccountsInvInit, AccountsInvStep, PTL DEF AccountsSpec

\* Every variable of the five parts has its type.
THEOREM AccountsTyped == AccountsSpec => []AccountsTypeOK
<1>1. AccountsInv => AccountsTypeOK
  BY TypedFromInv DEF AccountsInv, AccountsTypeOK, MailInv, LicInv, SkillsInv, CodesInv
<1> QED BY <1>1, AccountsInvHolds, PTL

\* A reset link and a code of verification do their work once unless requests with
\* them overlapped, and tokens are granted once for an authorization code, however
\* its requests overlap.
THEOREM AccountsOnce == AccountsSpec => []OneTimeWorksOnce
<1>1. AccountsInv => OneTimeWorksOnce
  BY MailOnceFromInv DEF AccountsInv, OneTimeWorksOnce, CodesInv
<1> QED BY <1>1, AccountsInvHolds, PTL

\* The row of a license tells the last answer of the license server, while its answers
\* were in order and nobody is about to write it.
THEOREM AccountsRowTells == AccountsSpec => []RowTellsVerdict
<1>1. AccountsInv => RowTellsVerdict
  <2>1. LicAssumptions
    BY LicensingAssumption, NoLicenseAssumption DEF LicAssumptions
  <2> QED BY <2>1, RowTellsFromInv DEF AccountsInv
<1> QED BY <1>1, AccountsInvHolds, PTL

\* What the assistants are told had been approved in the place it is told in, by an
\* admin or by the switch for automatic approval, or stands in the unread answer to a
\* merge in a scope where something had been approved.
THEOREM AccountsRulesApproved == AccountsSpec => []ActiveRulesWereApproved
<1>1. AccountsInv => ActiveRulesWereApproved
  BY DEF AccountsInv, SkillsInv, ActiveHasSource, RuleHasSource, MergesOfApproved,
         ActiveRulesWereApproved
<1> QED BY <1>1, AccountsInvHolds, PTL

\* The theorems of the workspaces, of the composition: the active organization is a
\* membership, and an invitation marked used has made one in the invited role.
THEOREM AccountsJoined == AccountsSpec => [](ActiveOrgIsJoined /\ UsedInviteJoined)
<1>1. AccountsInv => ActiveOrgIsJoined /\ UsedInviteJoined
  BY ActiveFromInv, UsedFromInv DEF AccountsInv
<1> QED BY <1>1, AccountsInvHolds, PTL

\* The same for a user that deletes itself: it leaves no organization without admin.
THEOREM AccountsKeepAdmin == AccountsSpec => SelfDeletionLeavesAdmin
<1>1. AccountsInit => WorkspacesInit
  BY DEF AccountsInit
<1>2. [AccountsNext]_accountsVars => [WorkspacesNext]_workspacesVars
  BY AccountsParts
<1>3. AccountsSpec => WorkspacesSpec
  BY <1>1, <1>2, PTL DEF AccountsSpec, WorkspacesSpec
<1> QED BY <1>3, SelfDeletionKeepsAdmin
=============================================================================
