----------------------------- MODULE Membership -----------------------------
(***************************************************************************)
(* Accounts, organizations and workspaces: who belongs to what, with which  *)
(* role, under requests that run concurrently.                              *)
(*                                                                          *)
(* The platform, each organization and each workspace is a group; a group   *)
(* has one row per member.  "top" is the role the code guards: platform     *)
(* administrator, organization owner, workspace administrator.  A request   *)
(* arrives (reads outside its transaction), locks (the locking reads of     *)
(* InnoDB, and what it reads under them) and commits.  A lock on rows that  *)
(* exist is exclusive; a gap lock hinders nobody but an INSERT.             *)
(*                                                                          *)
(* Code: routes/auth.js, admin.js, organizations.js, workspaces.js,         *)
(* scim.js, lib/platform-admin-guard.js, user-deletion.js,                  *)
(* user-deactivation.js, entra-role-sync.js.                                *)
(***************************************************************************)
EXTENDS Naturals, FiniteSets

CONSTANTS
    Users, Orgs, Workspaces,
    OrgOf,         \* the organization of each workspace
    PrimaryOwner,  \* organizations.owner_user_id
    Platform, NoGroup, NoUser, NoRow,
    Requests,      \* requests that may be in flight together
    MaxRequests    \* how many arrive

ASSUME GroupsAssumption ==
    /\ OrgOf \in [Workspaces -> Orgs]
    /\ PrimaryOwner \in [Orgs -> Users]
    /\ Orgs \cap Workspaces = {} /\ Platform \notin Orgs \cup Workspaces
    /\ NoUser \notin Users \cup Requests /\ NoGroup \notin Orgs \cup Workspaces \cup {Platform}
    /\ IsFiniteSet(Users) /\ IsFiniteSet(Workspaces) /\ MaxRequests \in Nat

Tenants == Orgs \cup Workspaces
Groups == {Platform} \cup Tenants
Roles == {"top", "low"}
Rows == [role : Roles, src : {"manual", "entra"}]
ASSUME RowAssumption == NoRow \notin Rows

Manual(role) == [role |-> role, src |-> "manual"]
ByEntra(role) == [role |-> role, src |-> "entra"]

VARIABLES
    row,      \* users.role, organization_members, workspace_members
    active,   \* users whose deactivated_at is NULL
    alive,    \* the organizations and workspaces that exist
    invites,  \* workspace_invites
    req,      \* the requests in flight
    arrived   \* how many requests have arrived

vars == <<row, active, alive, invites, req, arrived>>

Invite == [id : 1 .. MaxRequests, ws : Workspaces, to : Users, by : Users]

Present == {u \in Users : row[Platform][u] # NoRow}
Members(g) == {u \in Users : row[g][u] # NoRow}
Tops(g) == {u \in Members(g) : row[g][u].role = "top" /\ (g = Platform => u \in active)}
WorkspacesIn(os) == {w \in Workspaces : OrgOf[w] \in os}

-----------------------------------------------------------------------------
(* Requests.  `saw` is what the request read: the members with the top role *)
(* of the group it locked, the workspaces of the user to be moved, or the   *)
(* organizations found to be the user's alone.                              *)

Ops == {"none", "change", "remove", "move", "sync", "role", "deactivate",
        "delete", "register", "invite"}
Stages == {"idle", "queued", "locked", "unlink", "sending"}
Idle == [op |-> "none", stage |-> "idle", user |-> NoUser, group |-> NoGroup,
         want |-> [g \in Groups |-> "none"], saw |-> {}, pre |-> {}, id |-> 0]
Request == [op : Ops, stage : Stages, user : Users \cup {NoUser},
            group : Tenants \cup {NoGroup},
            want : [Groups -> Roles \cup {"none"}],
            saw : SUBSET (Users \cup Groups), pre : SUBSET Tenants, id : 0 .. MaxRequests]

Wants(g, role) == [h \in Groups |-> IF h = g THEN role ELSE "none"]

\* A new request, with what it read before its transaction.
Arrive(r, q) ==
    /\ req[r].stage = "idle"
    /\ arrived < MaxRequests
    /\ arrived' = arrived + 1
    /\ req' = [req EXCEPT ![r] = [q EXCEPT !.stage = "queued", !.id = arrived + 1]]
    /\ UNCHANGED <<row, active, alive, invites>>

Finish(r) == req' = [req EXCEPT ![r] = Idle]

\* The app_locks row 'platform_admins' that a request locks before anything else.
PlatformOps == {"role", "deactivate", "delete", "register"}
\* Mutants: who takes no platform lock.
HoldsUnlessSignUp(r) == req[r].stage = "locked" /\ req[r].op \in PlatformOps \ {"register"}
HoldsUnlessScim(r) == req[r].stage = "locked" /\ req[r].op \in PlatformOps \ {"deactivate"}
HoldsPlatform(r) == req[r].stage = "locked" /\ req[r].op \in PlatformOps

\* Mutant: a change of a role locks the row it changes only.
CoveredOwnRow(q) ==
    CASE q.op = "change" -> {<<q.group, q.user>>}
      [] q.op = "remove" -> {q.group} \X Users
      [] OTHER -> {}
\* The membership rows, and the gaps beside them, that a locking read covers.
Covered(q) ==
    {p \in Groups \X Users :
        \/ q.op \in {"change", "remove"} /\ p[1] = q.group
        \/ q.op = "move" /\ p[1] \in q.pre
        \/ q.op = "sync" /\ p[1] # Platform /\ p[2] = q.user
        \/ q.op \in {"role", "deactivate", "delete"} /\ p = <<Platform, q.user>>}
Held(r) == IF req[r].stage = "locked" THEN Covered(req[r]) ELSE {}

\* The locking reads of r do not have to wait for another transaction.
Grantable(r) ==
    /\ req[r].op \in PlatformOps => \A s \in Requests : ~HoldsPlatform(s)
    /\ \A s \in Requests : \A p \in Covered(req[r]) \cap Held(s) : row[p[1]][p[2]] = NoRow

\* The writes of r (or, for NoUser, of a statement on its own) meet no lock.
Writable(r, ps) == \A s \in Requests \ {r} : Held(s) \cap ps = {}

Lock(r, saw) ==
    /\ req[r].stage = "queued"
    /\ Grantable(r)
    /\ req' = [req EXCEPT ![r].stage = "locked", ![r].saw = saw]
    /\ UNCHANGED <<row, active, alive, invites, arrived>>

\* The request is refused, its audit row cannot be written, a statement fails or InnoDB
\* makes it the victim of a deadlock: nothing it wrote stays.
RollBack(r) ==
    /\ req[r].stage \in {"queued", "locked"}
    /\ Finish(r)
    /\ UNCHANGED <<row, active, alive, invites, arrived>>

-----------------------------------------------------------------------------
(* Roles in an organization or a workspace.                                 *)

\* A role is set (PUT), or an account is added with it (POST); a member is removed.
ArriveChange(r, g, u, role) ==
    /\ g \in alive /\ u \in Present
    /\ Arrive(r, [Idle EXCEPT !.op = "change", !.group = g, !.user = u, !.want = Wants(g, role)])
ArriveRemove(r, g, u) ==
    /\ g \in alive
    /\ Arrive(r, [Idle EXCEPT !.op = "remove", !.group = g, !.user = u])

\* SELECT ... FOR UPDATE of all member rows of the group.
LockGroup(r) == req[r].op \in {"change", "remove"} /\ Lock(r, Tops(req[r].group))

\* `u` is not the last top member among those the request has locked.
NotLast(r, u) == u \in req[r].saw => Cardinality(req[r].saw) > 1
NotPrimary(g, u) == g \in Orgs => PrimaryOwner[g] # u

CommitChange(r) ==
    LET g == req[r].group  u == req[r].user  role == req[r].want[g] IN
    /\ req[r].op = "change" /\ req[r].stage = "locked"
    /\ u \in Members(g) => NotPrimary(g, u) /\ (role = "low" => NotLast(r, u))
    /\ g \in alive /\ u \in Present            \* foreign keys of an INSERT
    /\ Writable(r, {<<g, u>>})
    /\ row' = [row EXCEPT ![g][u] = Manual(role)]
    /\ Finish(r)
    /\ UNCHANGED <<active, alive, invites, arrived>>

CommitRemove(r) ==
    LET g == req[r].group  u == req[r].user IN
    /\ req[r].op = "remove" /\ req[r].stage = "locked"
    /\ u \in Members(g) /\ NotPrimary(g, u) /\ NotLast(r, u)
    /\ Writable(r, {<<g, u>>})
    /\ row' = [row EXCEPT ![g][u] = NoRow]
    /\ Finish(r)
    /\ UNCHANGED <<active, alive, invites, arrived>>

\* An account of one workspace is moved to another.  That it has at most one is read
\* before the transaction, which then deletes all its memberships.
ArriveMove(r, u, w) ==
    LET old == {v \in Workspaces : row[v][u] # NoRow} IN
    /\ u \in Present /\ w \in alive
    /\ Cardinality(old) <= 1 /\ old # {w}
    /\ Arrive(r, [Idle EXCEPT !.op = "move", !.user = u, !.group = w, !.pre = old])

LockMove(r) == req[r].op = "move" /\ Lock(r, UNION {Tops(w) : w \in req[r].pre})

CommitMove(r) ==
    LET u == req[r].user  w == req[r].group IN
    /\ req[r].op = "move" /\ req[r].stage = "locked"
    /\ NotLast(r, u)
    /\ w \in alive /\ u \in Present
    /\ Writable(r, {<<v, u>> : v \in {w} \cup {x \in Workspaces : row[x][u] # NoRow}})
    /\ row' = [g \in Groups |-> IF g \notin Workspaces THEN row[g]
                                ELSE [row[g] EXCEPT ![u] = IF g = w THEN Manual("low") ELSE NoRow]]
    /\ Finish(r)
    /\ UNCHANGED <<active, alive, invites, arrived>>

-----------------------------------------------------------------------------
(* The roles claim of a Microsoft sign-in.                                  *)

\* What the mappings make of the claim: org_admin, or any workspace role.
Claims == {c \in [Groups -> Roles \cup {"none"}] :
             c[Platform] = "none" /\ \A o \in Orgs : c[o] # "top"}

ArriveSync(r, u, c) ==
    /\ u \in Present /\ \A g \in Tenants : c[g] # "none" => g \in alive
    /\ Arrive(r, [Idle EXCEPT !.op = "sync", !.user = u, !.want = c])

\* SELECT ... FOR UPDATE by user_id: `saw` are the groups where the row is the sync's.
SyncedOf(u) == {g \in Tenants : row[g][u] # NoRow /\ row[g][u].src = "entra"}
LockSync(r) == req[r].op = "sync" /\ Lock(r, SyncedOf(req[r].user))

\* Mutant: the row is written whatever its source.
SyncedRowUpsert(r, g) ==
    LET now == row[g][req[r].user]  role == req[r].want[g] IN
    IF role # "none" THEN ByEntra(role) ELSE IF g \in req[r].saw THEN NoRow ELSE now

\* Only rows of source 'entra' are created, changed and removed.
SyncedRow(r, g) ==
    LET now == row[g][req[r].user]  role == req[r].want[g] IN
    IF now # NoRow /\ now.src = "manual" THEN now
    ELSE IF role # "none" THEN ByEntra(role)
    ELSE IF g \in req[r].saw THEN NoRow ELSE now

CommitSync(r) ==
    LET u == req[r].user IN
    /\ req[r].op = "sync" /\ req[r].stage = "locked"
    /\ u \in Present
    /\ \A g \in Tenants : SyncedRow(r, g) # NoRow => g \in alive
    /\ Writable(r, {<<g, u>> : g \in {h \in Tenants : SyncedRow(r, h) # row[h][u]}})
    /\ row' = [g \in Groups |-> IF g \in Tenants
                                THEN [row[g] EXCEPT ![u] = SyncedRow(r, g)] ELSE row[g]]
    /\ Finish(r)
    /\ UNCHANGED <<active, alive, invites, arrived>>

-----------------------------------------------------------------------------
(* Platform roles, deactivation, registration.                              *)

\* An ordinary count, read after the platform lock was granted.
LockPlatformAdmins(r) ==
    /\ req[r].op \in {"role", "deactivate", "delete"}
    /\ Lock(r, Tops(Platform))

ArriveRole(r, u, role) ==
    /\ u \in Present
    /\ Arrive(r, [Idle EXCEPT !.op = "role", !.user = u, !.want = Wants(Platform, role)])

CommitRole(r) ==
    LET u == req[r].user  role == req[r].want[Platform] IN
    /\ req[r].op = "role" /\ req[r].stage = "locked"
    /\ u \in Present
    /\ role = "low" /\ u \in Tops(Platform) => NotLast(r, u)
    /\ row' = [row EXCEPT ![Platform][u] = Manual(role)]
    /\ Finish(r)
    /\ UNCHANGED <<active, alive, invites, arrived>>

\* SCIM deactivates a member of its organization (PATCH), and takes the member out of
\* the organization when the account was deleted there (DELETE: pre is the organization).
ArriveDeactivate(r, o, u, del) ==
    /\ u \in Members(o)
    /\ Tops(Platform) # {u}
    /\ Arrive(r, [Idle EXCEPT !.op = "deactivate", !.user = u, !.pre = IF del THEN {o} ELSE {}])

CommitDeactivate(r) ==
    LET u == req[r].user IN
    /\ req[r].op = "deactivate" /\ req[r].stage = "locked"
    /\ u \in Tops(Platform) => NotLast(r, u)
    /\ active' = active \ {u}
    /\ IF req[r].pre = {} THEN Finish(r) ELSE req' = [req EXCEPT ![r].stage = "unlink"]
    /\ UNCHANGED <<row, alive, invites, arrived>>

\* The membership is deleted by a statement of its own, whatever its role.
Unlink(r) ==
    LET u == req[r].user  ps == req[r].pre \X {u} IN
    /\ req[r].stage = "unlink"
    /\ Writable(r, ps)
    /\ row' = [g \in Groups |-> IF g \in req[r].pre THEN [row[g] EXCEPT ![u] = NoRow] ELSE row[g]]
    /\ Finish(r)
    /\ UNCHANGED <<active, alive, invites, arrived>>

Reactivate(u) ==
    /\ u \in Present \ active
    /\ Writable(NoUser, {<<Platform, u>>})
    /\ active' = active \cup {u}
    /\ UNCHANGED <<row, alive, invites, req, arrived>>

\* A new row has a new id, which no other request in flight can name (an invitation and a
\* sign-up name an address instead).
Named(q) == {q.group} \cup q.pre \cup q.saw \cup {g \in Groups : q.want[g] # "none"}
              \cup (IF q.op \in {"register", "invite"} THEN {} ELSE {q.user})
Fresh(r, names) == \A s \in Requests \ {r} : names \cap Named(req[s]) = {}

\* An organization with its first workspace, owned and administered by its creator.
WithWorkspaces(os) == os \cup WorkspacesIn(os)
WithOrg(rows, o) ==
    [g \in Groups |-> IF g \in WithWorkspaces({o})
                      THEN [rows[g] EXCEPT ![PrimaryOwner[o]] = Manual("top")] ELSE rows[g]]

ArriveRegister(r, u) ==
    Arrive(r, [Idle EXCEPT !.op = "register", !.user = u])

\* The user count is read under the platform lock.
LockRegister(r) == req[r].op = "register" /\ Lock(r, Present)

\* With os = {o} the account gets its personal organization o.
CommitRegister(r, os) ==
    LET u == req[r].user
        role == IF req[r].saw = {} THEN "top" ELSE "low"
        rows == [row EXCEPT ![Platform][u] = Manual(role)] IN
    /\ req[r].op = "register" /\ req[r].stage = "locked"
    /\ u \notin Present                        \* unique key on the address
    /\ Fresh(r, {u} \cup WithWorkspaces(os))
    /\ Writable(r, WithWorkspaces(os) \X {u})
    /\ os \in SUBSET {o \in Orgs \ alive : PrimaryOwner[o] = u} /\ Cardinality(os) <= 1
    /\ row' = IF os = {} THEN rows ELSE WithOrg(rows, CHOOSE o \in os : TRUE)
    /\ alive' = alive \cup WithWorkspaces(os)
    /\ active' = active \cup {u}
    /\ Finish(r)
    /\ UNCHANGED <<invites, arrived>>

\* A platform administrator creates an organization and is its owner.
CreateOrg(o) ==
    /\ o \notin alive /\ PrimaryOwner[o] \in Present
    /\ Fresh(NoUser, WithWorkspaces({o}))
    /\ Writable(NoUser, WithWorkspaces({o}) \X {PrimaryOwner[o]})
    /\ row' = WithOrg(row, o)
    /\ alive' = alive \cup WithWorkspaces({o})
    /\ UNCHANGED <<active, invites, req, arrived>>

\* An administrator creates an account in a workspace; SCIM creates or adopts one in
\* its organization.
CreateMember(g, u, role) ==
    /\ g \in alive /\ Present # {}
    /\ row[g][u] = NoRow
    /\ g \in Workspaces => u \notin Present
    /\ u \notin Present => Fresh(NoUser, {u})
    /\ g \in Orgs => role = "low"
    /\ Writable(NoUser, {<<g, u>>})
    /\ row' = [row EXCEPT ![g][u] = Manual(role),
                          ![Platform][u] = IF @ = NoRow THEN Manual("low") ELSE @]
    /\ \/ active' = IF u \in Present THEN active ELSE active \cup {u}
       \/ g \in Orgs /\ UNCHANGED active   \* SCIM creates a deactivated account too
    /\ UNCHANGED <<alive, invites, req, arrived>>

-----------------------------------------------------------------------------
(* Invitations.                                                             *)

\* The address has no membership; the pending invitations are read by an ordinary
\* SELECT in the transaction, which locks nothing.
ArriveInvite(r, w, u, by) ==
    /\ w \in alive /\ row[w][u] = NoRow /\ by \in Present
    /\ Arrive(r, [Idle EXCEPT !.op = "invite", !.group = w, !.user = u, !.saw = {by}])
ReadPending(r) ==
    /\ req[r].op = "invite"
    /\ ~\E i \in invites : i.ws = req[r].group /\ i.to = req[r].user
    /\ Lock(r, req[r].saw)

CommitInvite(r) ==
    /\ req[r].op = "invite" /\ req[r].stage = "locked"
    /\ req[r].group \in alive /\ req[r].saw \subseteq Present
    /\ \E by \in req[r].saw :
         invites' = invites \cup {[id |-> req[r].id, ws |-> req[r].group, to |-> req[r].user, by |-> by]}
    /\ req' = [req EXCEPT ![r].stage = "sending"]
    /\ UNCHANGED <<row, active, alive, arrived>>

\* The mail is sent, or is not, and then the invitation is withdrawn.
MailSent(r) ==
    /\ req[r].stage = "sending"
    /\ invites' \in {invites, {i \in invites : i.id # req[r].id}}
    /\ Finish(r)
    /\ UNCHANGED <<row, active, alive, arrived>>

\* An invitation is cancelled, or found to have expired.
Cancel(i) ==
    /\ invites' = invites \ {i}
    /\ UNCHANGED <<row, active, alive, req, arrived>>

\* Everything the transaction reads, it locks; an existing membership is kept as it is.
AcceptInvite(i) ==
    /\ i.to \in Present /\ i.ws \in alive
    /\ Writable(NoUser, {<<i.ws, i.to>>})
    /\ row' = [row EXCEPT ![i.ws][i.to] = IF @ = NoRow THEN Manual("low") ELSE @]
    /\ invites' = invites \ {i}
    /\ UNCHANGED <<active, alive, req, arrived>>

-----------------------------------------------------------------------------
(* Deletions.                                                               *)

OwnedBy(u) == {o \in Orgs \cap alive : PrimaryOwner[o] = u}
Shared(o, u) == \E g \in {o} \cup WorkspacesIn({o}) : Members(g) \ {u} # {}

\* Whether an owned organization has other members is read before the transaction.
ArriveDelete(r, u) ==
    /\ u \in Present
    /\ \A o \in OwnedBy(u) : ~Shared(o, u)
    /\ Arrive(r, [Idle EXCEPT !.op = "delete", !.user = u, !.pre = OwnedBy(u)])

RowsOf(gs) == {p \in gs \X Users : row[p[1]][p[2]] # NoRow}
\* Mutant: the rows of the workspaces outlive them.
WithoutOrgs(gs) == [g \in Groups |-> IF g \in gs \cap Orgs THEN [u \in Users |-> NoRow] ELSE row[g]]
Without(gs) == [g \in Groups |-> IF g \in gs THEN [u \in Users |-> NoRow] ELSE row[g]]

CommitDelete(r) ==
    LET u == req[r].user  gone == WithWorkspaces(req[r].pre) IN
    /\ req[r].op = "delete" /\ req[r].stage = "locked"
    /\ u \in Tops(Platform) => NotLast(r, u)
    /\ OwnedBy(u) \subseteq req[r].pre         \* foreign key on owner_user_id
    /\ Writable(r, RowsOf(gone) \cup {p \in RowsOf(Tenants) : p[2] = u})
    /\ row' = [g \in Groups |-> [Without(gone)[g] EXCEPT ![u] = NoRow]]
    /\ active' = active \ {u}
    /\ alive' = alive \ gone
    /\ invites' = {i \in invites : i.ws \notin gone /\ i.by # u}
    /\ Finish(r)
    /\ UNCHANGED arrived

\* An administrator deletes an organization with its workspaces, or one workspace.
DeleteGroup(g) ==
    LET gone == {g} \cup (IF g \in Orgs THEN WorkspacesIn({g}) ELSE {}) IN
    /\ g \in alive
    /\ Writable(NoUser, RowsOf(gone))
    /\ row' = Without(gone)
    /\ alive' = alive \ gone
    /\ invites' = {i \in invites : i.ws \notin gone}
    /\ UNCHANGED <<active, req, arrived>>

-----------------------------------------------------------------------------
\* A fresh installation, or one whose organizations are owned and administered by their
\* creators, who are administrators of the platform, as others may be.
Owners == {PrimaryOwner[o] : o \in Orgs}
Init ==
    /\ \E admins \in {{}} \cup {S \in SUBSET Users : Owners \subseteq S} :
         /\ row = [g \in Groups |-> [u \in Users |->
                     IF u \in admins /\ \A o \in Orgs : g \in WithWorkspaces({o}) => PrimaryOwner[o] = u
                     THEN Manual("top") ELSE NoRow]]
         /\ active = admins
         /\ alive = IF admins = {} THEN {} ELSE Tenants
    /\ invites = {}
    /\ req = [r \in Requests |-> Idle]
    /\ arrived = 0

Arrivals(r) ==
    \/ \E g \in Tenants, u \in Users, role \in Roles : ArriveChange(r, g, u, role)
    \/ \E g \in Tenants, u \in Users : ArriveRemove(r, g, u)
    \/ \E u \in Users, w \in Workspaces : ArriveMove(r, u, w)
    \/ \E u \in Users, c \in Claims : ArriveSync(r, u, c)
    \/ \E u \in Users, role \in Roles : ArriveRole(r, u, role)
    \/ \E o \in Orgs, u \in Users, del \in BOOLEAN : ArriveDeactivate(r, o, u, del)
    \/ \E u \in Users : ArriveRegister(r, u) \/ ArriveDelete(r, u)
    \/ \E w \in Workspaces, u, by \in Users : ArriveInvite(r, w, u, by)

Locking(r) ==
    LockGroup(r) \/ LockMove(r) \/ LockSync(r) \/ LockPlatformAdmins(r)
        \/ LockRegister(r) \/ ReadPending(r)

Committing(r) ==
    \/ CommitChange(r) \/ CommitRemove(r) \/ CommitMove(r) \/ CommitSync(r)
    \/ CommitRole(r) \/ CommitDeactivate(r) \/ Unlink(r) \/ CommitDelete(r)
    \/ \E os \in SUBSET Orgs : CommitRegister(r, os)
    \/ CommitInvite(r) \/ MailSent(r)

Next ==
    \/ \E r \in Requests : Arrivals(r) \/ Locking(r) \/ Committing(r) \/ RollBack(r)
    \/ \E u \in Users : Reactivate(u)
    \/ \E g \in Tenants, u \in Users, role \in Roles : CreateMember(g, u, role)
    \/ \E o \in Orgs : CreateOrg(o)
    \/ \E i \in invites : Cancel(i) \/ AcceptInvite(i)
    \/ \E g \in Tenants : DeleteGroup(g)

Spec == Init /\ [][Next]_vars

-----------------------------------------------------------------------------
(* Properties.                                                              *)

TypeOK ==
    /\ row \in [Groups -> [Users -> Rows \cup {NoRow}]]
    /\ active \subseteq Present
    /\ alive \subseteq Tenants
    /\ \A g \in Tenants : Members(g) \subseteq Present /\ (g \notin alive => Members(g) = {})
    /\ invites \subseteq Invite
    /\ req \in [Requests -> Request]
    /\ arrived \in 0 .. MaxRequests

\* Demotions, deactivations and deletions that run at the same time never leave the
\* installation without an active administrator (lib/platform-admin-guard.js).
AdminPresent == Present # {} => Tops(Platform) # {}

\* However many sign up at once, only an account that found nobody there is made
\* administrator by its registration (createAccountTx).
OnlyFirstIsAdmin ==
    [][\A u \in Users \ Present :
         row'[Platform][u] # NoRow /\ row'[Platform][u].role = "top" => Present = {}]_vars

\* An organization or workspace that goes on existing loses its last top member only if
\* the account is deleted or unlinked by SCIM, if the row was the sign-in sync's, or if a
\* move found the membership after it had read that there was none.
Moved(u, w) == \E r \in Requests : req[r].op = "move" /\ req[r].user = u /\ w \notin req[r].pre
LastTopKept ==
    [][\A g \in alive \cap alive' : \A u \in Tops(g) :
         Tops(g)' = {} =>
            \/ u \notin Present'
            \/ \E r \in Requests : req[r].stage = "unlink" /\ req[r].user = u /\ g \in req[r].pre
            \/ row[g][u].src = "entra"
            \/ Moved(u, g)]_vars

\* The sync at a sign-in leaves every membership that was given by hand as it is, also one
\* that was taken over by hand while the sync was under way (entra-role-sync.js).
ManualKept ==
    [][\A r \in Requests : req[r].op = "sync" /\ req'[r].stage = "idle" =>
         \A g \in Tenants : row[g][req[r].user] # NoRow /\ row[g][req[r].user].src = "manual"
                             => row'[g][req[r].user] = row[g][req[r].user]]_vars

\* "Refuse [...] if the user OWNS an organization that has any other member: don't nuke a
\* shared tenant" (lib/user-deletion.js).
SharedOrgStays ==
    [][\A r \in Requests : req[r].op = "delete" /\ req[r].stage = "locked" /\ req'[r].stage = "idle" =>
         \A o \in OwnedBy(req[r].user) : Shared(o, req[r].user) => o \in alive']_vars
=============================================================================
