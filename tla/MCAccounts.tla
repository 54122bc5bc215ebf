----------------------------- MODULE MCAccounts -----------------------------
(***************************************************************************)
(* A behaviour is one of the workspaces, of the mailed tokens of a user, of *)
(* the licenses, of the skills of an organization or of the authorization  *)
(* codes of MCP clients.  The parts share the model values, so that one    *)
(* symmetry serves all of them.                                            *)
(***************************************************************************)
EXTENDS Workspaces, MailedTokens, Licensing, KgSkills, OAuthServer, TLC

CONSTANTS u1, u2, u3, i1, i2, q1, q2

VARIABLE part   \* which of the five

User(o, r) == [org |-> o, role |-> r, verified |-> TRUE, server |-> 1]
Member(u, o, r) == [user |-> u, org |-> o, role |-> r]
Everybody(a, b, c) == (u1 :> a @@ u2 :> b @@ u3 :> c)
NoInvites == [i \in {i1, i2} |-> NoInvite]

\* An empty database; an organization with an admin, an editor that is the admin
\* of another one, and an invitation for an admin; an organization with two admins.
MCSeeds ==
  { [account |-> Everybody(NoUser, NoUser, NoUser), orgs |-> {}, lastOrg |-> 0,
     members |-> <<>>, invites |-> NoInvites],
    [account |-> Everybody(User(1, "ADMIN"), User(1, "EDITOR"), NoUser),
     orgs |-> {1, 2}, lastOrg |-> 2,
     members |-> <<Member(u1, 1, "ADMIN"), Member(u2, 2, "ADMIN"), Member(u2, 1, "EDITOR")>>,
     invites |-> [NoInvites EXCEPT ![i1] =
       [email |-> u3, org |-> 1, role |-> "ADMIN", state |-> "pending", created |-> FALSE]]],
    [account |-> Everybody(User(1, "ADMIN"), User(1, "ADMIN"), User(1, "EDITOR")),
     orgs |-> {1}, lastOrg |-> 1,
     members |-> <<Member(u1, 1, "ADMIN"), Member(u2, 1, "ADMIN"), Member(u3, 1, "EDITOR")>>,
     invites |-> NoInvites] }

MCSymmetry == Permutations({q1, q2}) \union Permutations({i1, i2})

accountsVars == <<workspacesVars, mailedVars, licensingVars, skillsVars, oauthServerVars, part>>

AccountsInit ==
  /\ part \in {"workspaces", "mail", "licenses", "skills", "codes"}
  /\ WorkspacesInit /\ MailedInit /\ LicensingInit /\ SkillsInit
  /\ OAuthServerInit
  /\ part # "workspaces" => lastOrg = 0
  /\ part # "licenses" => ~inCloud /\ Rows = {}
  /\ part # "codes" => used = {} /\ \A c \in OAuthClients : grants[c] = {}

AccountsNext ==
  /\ UNCHANGED part
  /\ \/ /\ part = "workspaces" /\ WorkspacesNext
        /\ UNCHANGED <<mailedVars, licensingVars, skillsVars, oauthServerVars>>
     \/ /\ part = "mail" /\ MailedNext
        /\ UNCHANGED <<workspacesVars, licensingVars, skillsVars, oauthServerVars>>
     \/ /\ part = "licenses" /\ LicensingNext
        /\ UNCHANGED <<workspacesVars, mailedVars, skillsVars, oauthServerVars>>
     \/ /\ part = "skills" /\ SkillsNext
        /\ UNCHANGED <<workspacesVars, mailedVars, licensingVars, oauthServerVars>>
     \/ /\ part = "codes" /\ OAuthServerNext
        /\ UNCHANGED <<workspacesVars, mailedVars, licensingVars, skillsVars>>

AccountsSpec == AccountsInit /\ [][AccountsNext]_accountsVars

\* Every variable of the five parts has its type.
AccountsTypeOK ==
  WorkspacesTypeOK /\ MailedTypeOK /\ LicensingTypeOK /\ SkillsTypeOK /\ OAuthServerTypeOK

\* What works once, however its requests overlap: a mailed token (users.service.ts,
\* auth.controller.ts) and an authorization code (prisma-oauth.store.ts).
OneTimeWorksOnce == MailedTokensWorkOnce /\ CodesTradedOnce
=============================================================================
