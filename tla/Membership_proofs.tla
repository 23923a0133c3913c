------------------------- MODULE Membership_proofs -------------------------
(***************************************************************************)
(* Proofs, for any accounts, groups and number of concurrent requests.      *)
(*                                                                          *)
(* First, the platform keeps an active administrator and only the first     *)
(* account becomes one by signing up.  Neither is inductive: a commit       *)
(* relies on what its request counted under the platform lock.  Counted     *)
(* says that the count is still good, which holds because every other step  *)
(* that could make it stale needs the same lock (Exclusive).                *)
(*                                                                          *)
(* Then, the sign-in sync leaves memberships given by hand alone, and the   *)
(* requests that change or remove a member, or move one, never take the     *)
(* last top member of a group.  The guard of such a request looks at what   *)
(* it read when it took its locks.  Frozen says that this is still what the *)
(* rows say: no step changes a row that another request holds               *)
(* (ChangesMeetNoLock).                                                     *)
(*                                                                          *)
(* Last, no membership outlives its account or its group (References).      *)
(***************************************************************************)
EXTENDS Membership, FiniteSetTheorems, TLAPS

\* The part of TypeOK the argument needs.
Typed ==
    /\ row \in [Groups -> [Users -> Rows \cup {NoRow}]]
    /\ \A i \in invites : i.ws # Platform
    /\ req \in [Requests -> Request]
    /\ arrived \in 0 .. MaxRequests

\* A request that sets a role names one.
Wanted ==
    \A r \in Requests :
        /\ req[r].op = "change" => req[r].group \in Tenants /\ req[r].want[req[r].group] \in Roles
        /\ req[r].op = "role" => req[r].want[Platform] \in Roles

Exclusive == \A r, s \in Requests : HoldsPlatform(r) /\ HoldsPlatform(s) => r = s

\* Who found nobody under the lock is still right, and those found to be administrators
\* still are.
Counted ==
    \A r \in Requests : HoldsPlatform(r) =>
        /\ req[r].saw = {} => Present = {}
        /\ IF req[r].op = "register" THEN req[r].saw # {} => Present # {}
           ELSE req[r].saw \subseteq Tops(Platform)

IInv == Typed /\ Wanted /\ Exclusive /\ Counted /\ AdminPresent

-----------------------------------------------------------------------------
(* Kinds of steps.                                                          *)

NoNewHolder == \A s \in Requests : HoldsPlatform(s)' => HoldsPlatform(s) /\ req'[s] = req[s]
NoHolderLeft == \A s \in Requests : ~HoldsPlatform(s)'
SamePlatform == row'[Platform] = row[Platform] /\ active' = active
Growing ==
    /\ Present \subseteq Present' /\ (Present = {} => Present' = {})
    /\ Tops(Platform) \subseteq Tops(Platform)'

\* Only steps that hold the lock take an administrator away or let the first account in.
LEMMA GrowingKeeps ==
    ASSUME Exclusive, Counted, AdminPresent, Growing, NoNewHolder
    PROVE  Exclusive' /\ Counted' /\ AdminPresent'
BY DEF Exclusive, Counted, AdminPresent, Growing, NoNewHolder

LEMMA SamePlatformIsGrowing == SamePlatform => Growing
BY DEF SamePlatform, Growing, Present, Tops, Members

\* The last step under a lock leaves nothing to keep but AdminPresent.
LEMMA ReleasedKeeps ==
    ASSUME NoHolderLeft
    PROVE  Exclusive' /\ Counted'
BY DEF NoHolderLeft, Exclusive, Counted

\* Whoever the guard lets an administrator be taken away from leaves another one.
LEMMA AnotherRemains ==
    ASSUME Typed, Counted, NEW r \in Requests, HoldsPlatform(r), req[r].op # "register",
           NEW u \in Tops(Platform), NotLast(r, u)
    PROVE  \E v \in Tops(Platform) : v # u
<1>1. req[r].saw \subseteq Tops(Platform) /\ req[r].saw # {}
  BY DEF Counted, Tops, Members, Present
<1>2. CASE u \in req[r].saw
  <2>1. Cardinality(req[r].saw) > 1
    BY <1>2 DEF NotLast
  <2>2. req[r].saw # {u}
    BY <2>1, FS_Singleton
  <2> QED
    BY <1>1, <1>2, <2>2
<1>3. CASE u \notin req[r].saw
  BY <1>1, <1>3
<1> QED
  BY <1>2, <1>3

\* A group's rows are not the platform's.
LEMMA GroupFacts ==
    /\ Platform \in Groups /\ Platform \notin Tenants /\ Tenants \subseteq Groups
    /\ NoGroup \notin Groups /\ Orgs \subseteq Tenants /\ Workspaces \subseteq Tenants
    /\ \A gs \in SUBSET Tenants : WithWorkspaces(gs) \subseteq Tenants
BY GroupsAssumption DEF Groups, Tenants, WithWorkspaces, WorkspacesIn

-----------------------------------------------------------------------------
\* Nobody holds a lock at the start, and whoever is there administers the platform.
LEMMA InitIInv == Init => IInv
<1> SUFFICES ASSUME Init PROVE IInv
  OBVIOUS
<1>1. PICK admins \in {{}} \cup {S \in SUBSET Users : Owners \subseteq S} :
        /\ row = [g \in Groups |-> [u \in Users |->
                    IF u \in admins /\ \A o \in Orgs : g \in WithWorkspaces({o}) => PrimaryOwner[o] = u
                    THEN Manual("top") ELSE NoRow]]
        /\ active = admins
  BY DEF Init
<1>2. Manual("top") \in Rows /\ Manual("top").role = "top"
  BY DEF Manual, Rows, Roles
<1>3. Idle \in Request /\ Idle.op = "none" /\ Idle.stage = "idle"
  BY GroupsAssumption DEF Idle, Request, Ops, Stages
<1>4. Typed
  BY <1>1, <1>2, <1>3, GroupsAssumption DEF Init, Typed
<1>5. Wanted /\ Exclusive /\ Counted
  BY <1>3 DEF Init, Wanted, Exclusive, Counted, HoldsPlatform
<1>6. \A o \in Orgs : Platform \notin WithWorkspaces({o})
  BY GroupFacts
<1>7. \A u \in Users : row[Platform][u] = IF u \in admins THEN Manual("top") ELSE NoRow
  BY <1>1, <1>6, GroupFacts
<1>8. AdminPresent
  BY <1>1, <1>2, <1>7, RowAssumption DEF AdminPresent, Present, Tops, Members
<1> QED
  BY <1>4, <1>5, <1>8 DEF IInv

-----------------------------------------------------------------------------
(* Requests arrive, lock and end.                                           *)

LEMMA ArriveKeeps ==
    ASSUME Typed, Wanted, NEW r \in Requests, NEW q \in Request, Arrive(r, q),
           q.op = "change" => q.group \in Tenants /\ q.want[q.group] \in Roles,
           q.op = "role" => q.want[Platform] \in Roles
    PROVE  Typed' /\ Wanted' /\ SamePlatform /\ NoNewHolder
<1> DEFINE q2 == [q EXCEPT !.stage = "queued", !.id = arrived + 1]
<1>1. req' = [req EXCEPT ![r] = q2] /\ arrived < MaxRequests /\ arrived' = arrived + 1
      /\ UNCHANGED <<row, active, alive, invites>>
  BY DEF Arrive
<1>2. arrived + 1 \in 0 .. MaxRequests
  BY <1>1, GroupsAssumption DEF Typed
<1>3. q2 \in Request /\ q2.stage = "queued" /\ q2.op = q.op /\ q2.group = q.group /\ q2.want = q.want
  BY <1>2 DEF Request, Stages
<1> HIDE DEF q2
<1>4. Typed'
  BY <1>1, <1>2, <1>3 DEF Typed
<1>5. Wanted'
  BY <1>1, <1>3 DEF Wanted, Typed
<1>6. SamePlatform
  BY <1>1 DEF SamePlatform
<1>7. NoNewHolder
  BY <1>1, <1>3 DEF NoNewHolder, HoldsPlatform, Typed
<1> QED
  BY <1>4, <1>5, <1>6, <1>7

LEMMA FinishKeeps ==
    ASSUME Typed, Wanted, Exclusive, NEW r \in Requests, Finish(r)
    PROVE  /\ req' \in [Requests -> Request]
           /\ Wanted' /\ NoNewHolder
           /\ HoldsPlatform(r) => NoHolderLeft
<1>1. Idle \in Request /\ Idle.op = "none" /\ Idle.stage = "idle"
  BY GroupsAssumption DEF Idle, Request, Ops, Stages
<1>2. req' = [req EXCEPT ![r] = Idle]
  BY DEF Finish
<1>3. req' \in [Requests -> Request]
  BY <1>1, <1>2 DEF Typed
<1>4. Wanted'
  BY <1>1, <1>2 DEF Wanted, Typed
<1>5. NoNewHolder
  BY <1>1, <1>2 DEF NoNewHolder, HoldsPlatform, Typed
<1>6. HoldsPlatform(r) => NoHolderLeft
  BY <1>1, <1>2 DEF NoHolderLeft, HoldsPlatform, Exclusive, Typed
<1> QED
  BY <1>3, <1>4, <1>5, <1>6

LEMMA LockKeeps ==
    ASSUME Typed, Wanted, NEW r \in Requests, NEW saw \in SUBSET (Users \cup Groups), Lock(r, saw)
    PROVE  /\ Typed' /\ Wanted' /\ SamePlatform
           /\ req[r].op \notin PlatformOps => NoNewHolder
           /\ req[r].op \in PlatformOps => \A s \in Requests : HoldsPlatform(s)' => s = r
           /\ req'[r].saw = saw /\ req'[r].op = req[r].op
<1> DEFINE q2 == [req[r] EXCEPT !.stage = "locked", !.saw = saw]
<1>1. req' = [req EXCEPT ![r] = q2] /\ UNCHANGED <<row, active, alive, invites, arrived>>
  BY DEF Lock, Typed, Request
<1>2. q2 \in Request /\ q2.op = req[r].op /\ q2.group = req[r].group /\ q2.want = req[r].want
      /\ q2.saw = saw
  BY DEF Request, Stages, Typed
<1> HIDE DEF q2
<1>3. Typed'
  BY <1>1, <1>2 DEF Typed
<1>4. Wanted'
  BY <1>1, <1>2 DEF Wanted, Typed
<1>5. SamePlatform
  BY <1>1 DEF SamePlatform
<1>6. req[r].op \notin PlatformOps => NoNewHolder
  BY <1>1, <1>2 DEF NoNewHolder, HoldsPlatform, Typed
<1>7. req[r].op \in PlatformOps => \A s \in Requests : HoldsPlatform(s)' => s = r
  BY <1>1, <1>2 DEF Lock, Grantable, HoldsPlatform, Typed
<1> QED
  BY <1>1, <1>2, <1>3, <1>4, <1>5, <1>6, <1>7 DEF Typed

-----------------------------------------------------------------------------
(* The steps, by what they do to the platform's rows.                       *)

\* What a request brings along: what its operation will use is filled in.
Filled(q) ==
    /\ q.op = "change" => q.group \in Tenants /\ q.want[q.group] \in Roles
    /\ q.op = "role" => q.want[Platform] \in Roles
    /\ q.op = "remove" => q.group \in Tenants
    /\ q.op = "move" =>
         /\ q.pre \subseteq Workspaces /\ q.group \in Workspaces \ q.pre
         /\ \A v, w \in q.pre : v = w
    /\ q.op = "invite" => q.group \in Workspaces
    /\ q.op \in {"register", "invite"} => q.user \in Users

LEMMA ArrivalsBring ==
    ASSUME NEW r \in Requests, Arrivals(r)
    PROVE  \E q \in Request : Arrive(r, q) /\ Filled(q)
<1> USE GroupFacts DEF Idle, Request, Ops, Stages, Filled
<1>0. NoUser \in Users \cup {NoUser} /\ 0 \in 0 .. MaxRequests
      /\ [g \in Groups |-> "none"] \in [Groups -> Roles \cup {"none"}]
  BY GroupsAssumption
<1>1. ASSUME NEW g \in Tenants, NEW u \in Users, NEW role \in Roles, ArriveChange(r, g, u, role)
      PROVE  \E q \in Request : Arrive(r, q) /\ Filled(q)
  <2> DEFINE q == [Idle EXCEPT !.op = "change", !.group = g, !.user = u, !.want = Wants(g, role)]
  <2>1. Wants(g, role) \in [Groups -> Roles \cup {"none"}] /\ Wants(g, role)[g] = role
    BY DEF Wants
  <2>2. q \in Request /\ Filled(q)
    BY <1>0, <2>1
  <2> QED
    BY <1>1, <2>2 DEF ArriveChange
<1>2. ASSUME NEW g \in Tenants, NEW u \in Users, ArriveRemove(r, g, u)
      PROVE  \E q \in Request : Arrive(r, q) /\ Filled(q)
  <2> DEFINE q == [Idle EXCEPT !.op = "remove", !.group = g, !.user = u]
  <2>1. q \in Request /\ Filled(q)
    BY <1>0
  <2> QED
    BY <1>2, <2>1 DEF ArriveRemove
<1>3. ASSUME NEW u \in Users, NEW w \in Workspaces, ArriveMove(r, u, w)
      PROVE  \E q \in Request : Arrive(r, q) /\ Filled(q)
  <2> DEFINE old == {v \in Workspaces : row[v][u] # NoRow}
             q == [Idle EXCEPT !.op = "move", !.user = u, !.group = w, !.pre = old]
  <2>1. Cardinality(old) <= 1 /\ old # {w} /\ Arrive(r, q)
    BY <1>3 DEF ArriveMove
  <2>2. IsFiniteSet(old)
    BY FS_Subset, GroupsAssumption
  <2>3. old = {} \/ \E v : old = {v}
    <3>1. Cardinality(old) \in Nat
      BY <2>2, FS_CardinalityType
    <3>2. Cardinality(old) = 0 \/ Cardinality(old) = 1
      BY <2>1, <3>1
    <3> QED
      BY <2>2, <3>2, FS_EmptySet, FS_Singleton
  <2>4. old \subseteq Workspaces /\ w \notin old /\ \A v, x \in old : v = x
    BY <2>1, <2>3
  <2>5. q \in Request /\ q.op = "move" /\ q.group = w /\ q.pre = old
    BY <1>0
  <2> HIDE DEF q, old
  <2>6. Filled(q)
    BY <2>4, <2>5
  <2> QED
    BY <2>1, <2>5, <2>6
<1>4. ASSUME NEW u \in Users, NEW c \in Claims, ArriveSync(r, u, c)
      PROVE  \E q \in Request : Arrive(r, q) /\ Filled(q)
  <2> DEFINE q == [Idle EXCEPT !.op = "sync", !.user = u, !.want = c]
  <2>1. q \in Request /\ Filled(q)
    BY <1>0 DEF Claims
  <2> QED
    BY <1>4, <2>1 DEF ArriveSync
<1>5. ASSUME NEW u \in Users, NEW role \in Roles, ArriveRole(r, u, role)
      PROVE  \E q \in Request : Arrive(r, q) /\ Filled(q)
  <2> DEFINE q == [Idle EXCEPT !.op = "role", !.user = u, !.want = Wants(Platform, role)]
  <2>1. Wants(Platform, role) \in [Groups -> Roles \cup {"none"}] /\ Wants(Platform, role)[Platform] = role
    BY DEF Wants
  <2>2. q \in Request /\ q.op = "role" /\ q.want[Platform] = role
    BY <1>0, <2>1
  <2>3. Arrive(r, q)
    BY <1>5 DEF ArriveRole
  <2> HIDE DEF q
  <2> QED
    BY <2>2, <2>3
<1>6. ASSUME NEW o \in Orgs, NEW u \in Users, NEW del \in BOOLEAN, ArriveDeactivate(r, o, u, del)
      PROVE  \E q \in Request : Arrive(r, q) /\ Filled(q)
  <2> DEFINE pre == IF del THEN {o} ELSE {}
             q == [Idle EXCEPT !.op = "deactivate", !.user = u, !.pre = pre]
  <2>1. q \in Request /\ Filled(q)
    BY <1>0
  <2> QED
    BY <1>6, <2>1 DEF ArriveDeactivate
<1>7. ASSUME NEW u \in Users, ArriveRegister(r, u)
      PROVE  \E q \in Request : Arrive(r, q) /\ Filled(q)
  <2> DEFINE q == [Idle EXCEPT !.op = "register", !.user = u]
  <2>1. q \in Request /\ Filled(q)
    BY <1>0
  <2> QED
    BY <1>7, <2>1 DEF ArriveRegister
<1>8. ASSUME NEW u \in Users, ArriveDelete(r, u)
      PROVE  \E q \in Request : Arrive(r, q) /\ Filled(q)
  <2> DEFINE q == [Idle EXCEPT !.op = "delete", !.user = u, !.pre = OwnedBy(u)]
  <2>1. q \in Request /\ Filled(q)
    BY <1>0 DEF OwnedBy
  <2> QED
    BY <1>8, <2>1 DEF ArriveDelete
<1>9. ASSUME NEW w \in Workspaces, NEW u \in Users, NEW by \in Users, ArriveInvite(r, w, u, by)
      PROVE  \E q \in Request : Arrive(r, q) /\ Filled(q)
  <2> DEFINE q == [Idle EXCEPT !.op = "invite", !.group = w, !.user = u, !.saw = {by}]
  <2>1. q \in Request /\ Filled(q)
    BY <1>0
  <2> QED
    BY <1>9, <2>1 DEF ArriveInvite
<1> QED
  BY <1>1, <1>2, <1>3, <1>4, <1>5, <1>6, <1>7, <1>8, <1>9 DEF Arrivals

LEMMA ArrivalsKeep ==
    ASSUME Typed, Wanted, NEW r \in Requests, Arrivals(r)
    PROVE  Typed' /\ Wanted' /\ SamePlatform /\ NoNewHolder
BY ArrivalsBring, ArriveKeeps DEF Filled

\* A request that takes the platform lock counts while nobody else holds it.
LEMMA LockingKeeps ==
    ASSUME IInv, NEW r \in Requests, Locking(r)
    PROVE  IInv' /\ SamePlatform
<1> USE DEF IInv
<1>1. ASSUME NEW saw \in SUBSET (Users \cup Groups), Lock(r, saw), req[r].op \notin PlatformOps
      PROVE  IInv' /\ SamePlatform
  BY <1>1, LockKeeps, SamePlatformIsGrowing, GrowingKeeps
<1>2. CASE LockGroup(r)
  <2>1. Tops(req[r].group) \subseteq Users /\ req[r].op \notin PlatformOps
    BY <1>2 DEF Tops, Members, LockGroup, PlatformOps
  <2> QED
    BY <1>1, <1>2, <2>1 DEF LockGroup
<1>3. CASE LockMove(r)
  <2>1. (UNION {Tops(w) : w \in req[r].pre}) \subseteq Users /\ req[r].op \notin PlatformOps
    BY <1>3 DEF Tops, Members, LockMove, PlatformOps
  <2> QED
    BY <1>1, <1>3, <2>1 DEF LockMove
<1>4. CASE LockSync(r)
  <2>1. SyncedOf(req[r].user) \subseteq Groups /\ req[r].op \notin PlatformOps
    BY <1>4, GroupFacts DEF SyncedOf, LockSync, PlatformOps
  <2> QED
    BY <1>1, <1>4, <2>1 DEF LockSync
<1>5. CASE ReadPending(r)
  <2>1. req[r].saw \in SUBSET (Users \cup Groups) /\ req[r].op \notin PlatformOps
    BY <1>5 DEF ReadPending, PlatformOps, Typed, Request
  <2> QED
    BY <1>1, <1>5, <2>1 DEF ReadPending
<1>6. ASSUME NEW saw \in SUBSET (Users \cup Groups), Lock(r, saw), req[r].op \in PlatformOps,
             saw = {} => Present = {},
             IF req[r].op = "register" THEN saw # {} => Present # {} ELSE saw \subseteq Tops(Platform)
      PROVE  IInv' /\ SamePlatform
  <2>1. Typed' /\ Wanted' /\ SamePlatform /\ req'[r].saw = saw /\ req'[r].op = req[r].op
        /\ \A s \in Requests : HoldsPlatform(s)' => s = r
    BY <1>6, LockKeeps
  <2>2. Present' = Present /\ Tops(Platform)' = Tops(Platform)
    BY <2>1 DEF SamePlatform, Present, Tops, Members
  <2>3. Exclusive'
    BY <2>1 DEF Exclusive
  <2>4. Counted'
    BY <1>6, <2>1, <2>2 DEF Counted
  <2>5. AdminPresent'
    BY <2>2 DEF AdminPresent
  <2> QED
    BY <2>1, <2>3, <2>4, <2>5
<1>7. CASE LockPlatformAdmins(r)
  <2>1. Tops(Platform) \subseteq Users /\ req[r].op \in PlatformOps /\ req[r].op # "register"
    BY <1>7 DEF Tops, Members, LockPlatformAdmins, PlatformOps
  <2>2. Tops(Platform) = {} => Present = {}
    BY DEF AdminPresent
  <2> QED
    BY <1>6, <1>7, <2>1, <2>2 DEF LockPlatformAdmins
<1>8. CASE LockRegister(r)
  <2>1. Present \subseteq Users /\ req[r].op \in PlatformOps
    BY <1>8 DEF Present, LockRegister, PlatformOps
  <2> QED
    BY <1>6, <1>8, <2>1 DEF LockRegister
<1> QED
  BY <1>2, <1>3, <1>4, <1>5, <1>7, <1>8 DEF Locking

\* What a step on the groups' rows has to show.
LEMMA GroupsChange ==
    ASSUME IInv, SamePlatform, NoNewHolder, Typed', Wanted'
    PROVE  IInv'
BY SamePlatformIsGrowing, GrowingKeeps DEF IInv

\* Commits that leave the platform's rows alone.
LEMMA GroupCommitKeeps ==
    ASSUME IInv, NEW r \in Requests,
           \/ CommitChange(r) \/ CommitRemove(r) \/ CommitMove(r) \/ CommitSync(r)
           \/ Unlink(r) \/ CommitInvite(r) \/ MailSent(r) \/ RollBack(r)
    PROVE  IInv' /\ SamePlatform
<1> USE GroupFacts DEF IInv
<1>0. \A role \in Roles : Manual(role) \in Rows /\ ByEntra(role) \in Rows
  BY DEF Manual, ByEntra, Rows
<1>1. ASSUME Finish(r), row' \in [Groups -> [Users -> Rows \cup {NoRow}]], \A i \in invites' : i.ws # Platform,
             row'[Platform] = row[Platform], UNCHANGED <<active, arrived>>
      PROVE  IInv' /\ SamePlatform
  <2>1. SamePlatform
    BY <1>1 DEF SamePlatform
  <2>2. Typed' /\ Wanted' /\ NoNewHolder
    BY <1>1, FinishKeeps DEF Typed
  <2> QED
    BY <2>1, <2>2, GroupsChange
<1>2. CASE CommitChange(r)
  <2>1. req[r].group \in Tenants /\ req[r].want[req[r].group] \in Roles
    BY <1>2 DEF CommitChange, Wanted
  <2>2. row' \in [Groups -> [Users -> Rows \cup {NoRow}]] /\ row'[Platform] = row[Platform]
    BY <1>0, <1>2, <2>1 DEF CommitChange, Typed
  <2> QED
    BY <1>1, <1>2, <2>2 DEF CommitChange, Typed
<1>3. CASE CommitRemove(r)
  <2>1. req[r].group # Platform
    BY GroupsAssumption DEF Typed, Request
  <2>2. row' \in [Groups -> [Users -> Rows \cup {NoRow}]] /\ row'[Platform] = row[Platform]
    BY <1>3, <2>1 DEF CommitRemove, Typed
  <2> QED
    BY <1>1, <1>3, <2>2 DEF CommitRemove, Typed
<1>4. CASE CommitMove(r)
  <2>1. Manual("low") \in Rows /\ Platform \notin Workspaces
    BY <1>0 DEF Roles
  <2>2. row' \in [Groups -> [Users -> Rows \cup {NoRow}]] /\ row'[Platform] = row[Platform]
    BY <1>4, <2>1 DEF CommitMove, Typed
  <2> QED
    BY <1>1, <1>4, <2>2 DEF CommitMove, Typed
<1>5. CASE CommitSync(r)
  <2>1. req[r].user \in Users /\ req[r].want \in [Groups -> Roles \cup {"none"}]
    BY <1>5 DEF CommitSync, Present, Typed, Request
  <2>2. \A g \in Tenants : SyncedRow(r, g) \in Rows \cup {NoRow}
    BY <1>0, <2>1 DEF SyncedRow, Typed
  <2>3. row' \in [Groups -> [Users -> Rows \cup {NoRow}]] /\ row'[Platform] = row[Platform]
    BY <1>5, <2>1, <2>2 DEF CommitSync, Typed
  <2> QED
    BY <1>1, <1>5, <2>3 DEF CommitSync, Typed
<1>6. CASE Unlink(r)
  <2>1. Platform \notin req[r].pre
    BY DEF Typed, Request
  <2>2. row' \in [Groups -> [Users -> Rows \cup {NoRow}]] /\ row'[Platform] = row[Platform]
    BY <1>6, <2>1 DEF Unlink, Typed
  <2> QED
    BY <1>1, <1>6, <2>2 DEF Unlink, Typed
<1>7. CASE CommitInvite(r)
  <2> DEFINE q2 == [req[r] EXCEPT !.stage = "sending"]
  <2>1. req' = [req EXCEPT ![r] = q2] /\ UNCHANGED <<row, active, alive, arrived>>
        /\ req[r].op = "invite" /\ req[r].stage = "locked"
    BY <1>7 DEF CommitInvite, Typed, Request
  <2>2. q2 \in Request /\ q2.stage = "sending" /\ q2.op = "invite"
    BY <2>1 DEF Typed, Request, Stages
  <2>3. \A i \in invites' : i.ws # Platform
    <3>1. PICK by \in req[r].saw :
            invites' = invites \cup {[id |-> req[r].id, ws |-> req[r].group, to |-> req[r].user, by |-> by]}
      BY <1>7 DEF CommitInvite
    <3>2. req[r].group # Platform
      BY GroupsAssumption DEF Typed, Request
    <3> QED
      BY <3>1, <3>2 DEF Typed
  <2> HIDE DEF q2
  <2>4. Typed'
    BY <2>1, <2>2, <2>3 DEF Typed
  <2>5. Wanted' /\ NoNewHolder
    BY <2>1, <2>2 DEF Wanted, NoNewHolder, HoldsPlatform, Typed
  <2>6. SamePlatform
    BY <2>1 DEF SamePlatform
  <2> QED
    BY <2>4, <2>5, <2>6, GroupsChange
<1>8. CASE MailSent(r)
  <2>1. \A i \in invites' : i.ws # Platform
    BY <1>8 DEF MailSent, Typed
  <2> QED
    BY <1>1, <1>8, <2>1 DEF MailSent, Typed
<1>9. CASE RollBack(r)
  BY <1>1, <1>9 DEF RollBack, Typed
<1> QED
  BY <1>2, <1>3, <1>4, <1>5, <1>6, <1>7, <1>8, <1>9

\* Steps of requests that are one statement or one short transaction, outside the
\* platform lock.
LEMMA StatementKeeps ==
    ASSUME IInv,
           \/ \E u \in Users : Reactivate(u)
           \/ \E g \in Tenants, u \in Users, role \in Roles : CreateMember(g, u, role)
           \/ \E o \in Orgs : CreateOrg(o)
           \/ \E i \in invites : Cancel(i) \/ AcceptInvite(i)
           \/ \E g \in Tenants : DeleteGroup(g)
    PROVE  IInv' /\ \A u \in Users \ Present :
                      row'[Platform][u] # NoRow => row'[Platform][u].role # "top"
<1> USE GroupFacts, RowAssumption DEF IInv
<1>0. \A role \in Roles : Manual(role) \in Rows /\ Manual(role).role = role
  BY DEF Manual, Rows
<1>1. ASSUME UNCHANGED <<req, arrived>>
      PROVE  NoNewHolder /\ Wanted'
  BY <1>1 DEF NoNewHolder, HoldsPlatform, Wanted
<1>2. ASSUME SamePlatform, UNCHANGED <<req, arrived>>, row' \in [Groups -> [Users -> Rows \cup {NoRow}]],
             \A i \in invites' : i.ws # Platform
      PROVE  IInv' /\ \A u \in Users \ Present :
                        row'[Platform][u] # NoRow => row'[Platform][u].role # "top"
  <2>1. Typed' /\ Wanted' /\ NoNewHolder
    BY <1>1, <1>2 DEF Typed
  <2>2. IInv'
    BY <1>2, <2>1, GroupsChange
  <2> QED
    BY <1>2, <2>2 DEF SamePlatform, Present
<1>3. ASSUME NEW u \in Users, Reactivate(u)
      PROVE  IInv' /\ \A v \in Users \ Present :
                        row'[Platform][v] # NoRow => row'[Platform][v].role # "top"
  <2>1. Growing
    BY <1>3 DEF Reactivate, Growing, Present, Tops, Members
  <2>2. Typed' /\ Wanted' /\ NoNewHolder
    BY <1>1, <1>3 DEF Reactivate, Typed
  <2>3. IInv'
    BY <2>1, <2>2, GrowingKeeps
  <2> QED
    BY <1>3, <2>3 DEF Reactivate, Present
<1>4. ASSUME NEW g \in Tenants, NEW u \in Users, NEW role \in Roles, CreateMember(g, u, role)
      PROVE  IInv' /\ \A v \in Users \ Present :
                        row'[Platform][v] # NoRow => row'[Platform][v].role # "top"
  <2>1. Manual(role) \in Rows /\ Manual("low") \in Rows /\ Manual("low").role = "low"
    BY <1>0 DEF Roles
  <2>2. row' \in [Groups -> [Users -> Rows \cup {NoRow}]]
    BY <1>4, <2>1 DEF CreateMember, Typed
  <2>3. \A v \in Users : row'[Platform][v] =
          IF v = u /\ row[Platform][u] = NoRow THEN Manual("low") ELSE row[Platform][v]
    BY <1>4 DEF CreateMember, Typed
  <2>4. active \subseteq active' /\ (u \in Present => active' = active) /\ Present # {}
    BY <1>4 DEF CreateMember
  <2>5. Growing
    BY <2>1, <2>3, <2>4 DEF Growing, Present, Tops, Members
  <2>6. Typed' /\ Wanted' /\ NoNewHolder
    BY <1>1, <1>4, <2>2 DEF CreateMember, Typed
  <2>7. IInv'
    BY <2>5, <2>6, GrowingKeeps
  <2> QED
    BY <2>1, <2>3, <2>7 DEF Present
<1>5. ASSUME NEW o \in Orgs, CreateOrg(o)
      PROVE  IInv' /\ \A v \in Users \ Present :
                        row'[Platform][v] # NoRow => row'[Platform][v].role # "top"
  <2>1. Platform \notin WithWorkspaces({o}) /\ Manual("top") \in Rows
    BY <1>0 DEF Roles
  <2>2. row' = WithOrg(row, o) /\ UNCHANGED <<active, invites, req, arrived>>
    BY <1>5 DEF CreateOrg
  <2>3. row' \in [Groups -> [Users -> Rows \cup {NoRow}]] /\ row'[Platform] = row[Platform]
    BY <2>1, <2>2 DEF WithOrg, Typed
  <2> QED
    BY <1>2, <2>2, <2>3 DEF SamePlatform, Typed
<1>6. ASSUME NEW i \in invites, Cancel(i)
      PROVE  IInv' /\ \A v \in Users \ Present :
                        row'[Platform][v] # NoRow => row'[Platform][v].role # "top"
  BY <1>2, <1>6 DEF Cancel, SamePlatform, Typed
<1>7. ASSUME NEW i \in invites, AcceptInvite(i)
      PROVE  IInv' /\ \A v \in Users \ Present :
                        row'[Platform][v] # NoRow => row'[Platform][v].role # "top"
  <2>1. Manual("low") \in Rows /\ i.ws # Platform
    BY <1>0 DEF Roles, Typed
  <2>2. row' \in [Groups -> [Users -> Rows \cup {NoRow}]] /\ row'[Platform] = row[Platform]
    BY <1>7, <2>1 DEF AcceptInvite, Typed
  <2> QED
    BY <1>2, <1>7, <2>2 DEF AcceptInvite, SamePlatform, Typed
<1>8. ASSUME NEW g \in Tenants, DeleteGroup(g)
      PROVE  IInv' /\ \A v \in Users \ Present :
                        row'[Platform][v] # NoRow => row'[Platform][v].role # "top"
  <2> DEFINE gone == {g} \cup (IF g \in Orgs THEN WorkspacesIn({g}) ELSE {})
  <2>1. Platform \notin gone
    BY DEF WorkspacesIn
  <2>2. row' = Without(gone) /\ UNCHANGED <<active, req, arrived>> /\ invites' \subseteq invites
    BY <1>8 DEF DeleteGroup
  <2> HIDE DEF gone
  <2>3. row' \in [Groups -> [Users -> Rows \cup {NoRow}]] /\ row'[Platform] = row[Platform]
    BY <2>1, <2>2 DEF Without, Typed
  <2> QED
    BY <1>2, <2>2, <2>3 DEF SamePlatform, Typed
<1> QED
  BY <1>3, <1>4, <1>5, <1>6, <1>7, <1>8

\* Commits under the platform lock: the count their request took is still good.
LEMMA PlatformCommitKeeps ==
    ASSUME IInv, NEW r \in Requests,
           \/ CommitRole(r) \/ CommitDeactivate(r) \/ CommitDelete(r)
           \/ \E os \in SUBSET Orgs : CommitRegister(r, os)
    PROVE  IInv' /\ \A u \in Users \ Present :
                      row'[Platform][u] # NoRow /\ row'[Platform][u].role = "top" => Present = {}
<1> USE GroupFacts, RowAssumption DEF IInv
<1>0. \A role \in Roles : Manual(role) \in Rows /\ Manual(role).role = role
  BY DEF Manual, Rows
<1>1. ASSUME HoldsPlatform(r), Finish(r), row' \in [Groups -> [Users -> Rows \cup {NoRow}]],
             invites' \subseteq invites, arrived' = arrived, AdminPresent'
      PROVE  IInv'
  <2>1. Typed' /\ Wanted' /\ NoHolderLeft
    BY <1>1, FinishKeeps DEF Typed
  <2> QED
    BY <1>1, <2>1, ReleasedKeeps
<1>2. CASE CommitRole(r)
  <2> DEFINE u == req[r].user  role == req[r].want[Platform]
  <2>1. HoldsPlatform(r) /\ req[r].op = "role" /\ role \in Roles /\ u \in Present /\ u \in Users
    BY <1>2 DEF CommitRole, HoldsPlatform, PlatformOps, Wanted, Present
  <2>2. \A v \in Users : row'[Platform][v] = IF v = u THEN Manual(role) ELSE row[Platform][v]
    BY <1>2, <2>1 DEF CommitRole, Typed
  <2>3. active' = active /\ (role = "low" /\ u \in Tops(Platform) => NotLast(r, u))
    BY <1>2 DEF CommitRole
  <2>4. row' \in [Groups -> [Users -> Rows \cup {NoRow}]]
    BY <1>0, <1>2, <2>1 DEF CommitRole, Typed
  <2>5. Finish(r) /\ UNCHANGED <<invites, arrived>>
    BY <1>2 DEF CommitRole
  <2> HIDE DEF u, role
  <2>6. PICK v \in Tops(Platform) : role = "low" => v # u
    <3>1. Tops(Platform) # {}
      BY <2>1 DEF AdminPresent
    <3>2. CASE role = "low" /\ u \in Tops(Platform)
      BY <2>1, <2>3, <3>2, AnotherRemains
    <3>3. CASE ~(role = "low" /\ u \in Tops(Platform))
      BY <3>1, <3>3
    <3> QED
      BY <3>2, <3>3
  <2>7. role = "low" \/ role = "top"
    BY <2>1 DEF Roles
  <2>8. Manual(role) # NoRow /\ Manual(role).role = role
    BY <1>0, <2>1
  <2>9. v \in Tops(Platform)'
    BY <2>2, <2>3, <2>6, <2>7, <2>8 DEF Tops, Members
  <2>10. AdminPresent'
    BY <2>9 DEF AdminPresent
  <2>11. IInv'
    BY <1>1, <2>1, <2>4, <2>5, <2>10
  <2> QED
    BY <2>1, <2>2, <2>11 DEF Present
<1>3. CASE CommitDeactivate(r)
  <2> DEFINE u == req[r].user  q2 == [req[r] EXCEPT !.stage = "unlink"]
  <2>1. HoldsPlatform(r) /\ req[r].op = "deactivate" /\ (u \in Tops(Platform) => NotLast(r, u))
        /\ active' = active \ {u} /\ UNCHANGED <<row, invites, arrived>>
    BY <1>3 DEF CommitDeactivate, HoldsPlatform, PlatformOps
  <2>2. ASSUME Tops(Platform) # {}
        PROVE  \E v \in Tops(Platform) : v # u
    <3> HIDE DEF u
    <3>1. CASE u \in Tops(Platform)
      BY <2>1, <3>1, AnotherRemains
    <3>2. CASE u \notin Tops(Platform)
      BY <2>2, <3>2
    <3> QED
      BY <3>1, <3>2
  <2>3. AdminPresent'
    BY <2>1, <2>2 DEF AdminPresent, Present, Tops, Members
  <2>4. CASE Finish(r)
    <3>1. IInv'
      BY <1>1, <2>1, <2>3, <2>4 DEF Typed
    <3> QED
      BY <2>1, <3>1 DEF Present
  <2>5. CASE req' = [req EXCEPT ![r].stage = "unlink"]
    <3>1. req' = [req EXCEPT ![r] = q2]
      BY <2>5 DEF Typed, Request
    <3>2. q2 \in Request /\ q2.stage = "unlink" /\ q2.op = "deactivate"
      BY <2>1 DEF Typed, Request, Stages
    <3> HIDE DEF q2
    <3>3. Typed' /\ Wanted'
      BY <2>1, <3>1, <3>2 DEF Typed, Wanted
    <3>4. NoHolderLeft
      BY <2>1, <3>1, <3>2 DEF NoHolderLeft, HoldsPlatform, Exclusive, Typed
    <3>5. IInv'
      BY <2>3, <3>3, <3>4, ReleasedKeeps
    <3> QED
      BY <2>1, <3>5 DEF Present
  <2> QED
    BY <1>3, <2>4, <2>5 DEF CommitDeactivate
<1>4. CASE CommitDelete(r)
  <2> DEFINE u == req[r].user  gone == WithWorkspaces(req[r].pre)
  <2>1. HoldsPlatform(r) /\ req[r].op = "delete" /\ (u \in Tops(Platform) => NotLast(r, u))
    BY <1>4 DEF CommitDelete, HoldsPlatform, PlatformOps
  <2>2. Platform \notin gone
    BY DEF Typed, Request
  <2>3. /\ row' = [g \in Groups |-> [Without(gone)[g] EXCEPT ![u] = NoRow]]
        /\ active' = active \ {u} /\ invites' \subseteq invites /\ arrived' = arrived /\ Finish(r)
    BY <1>4 DEF CommitDelete
  <2> HIDE DEF u, gone
  <2>4. row' \in [Groups -> [Users -> Rows \cup {NoRow}]]
    BY <2>3 DEF Without, Typed
  <2>5. \A v \in Users : row'[Platform][v] = IF v = u THEN NoRow ELSE row[Platform][v]
    BY <2>2, <2>3 DEF Without, Typed
  <2>6. ASSUME Tops(Platform) # {}
        PROVE  \E v \in Tops(Platform) : v # u
    <3>1. CASE u \in Tops(Platform)
      BY <2>1, <3>1, AnotherRemains
    <3>2. CASE u \notin Tops(Platform)
      BY <2>6, <3>2
    <3> QED
      BY <3>1, <3>2
  <2>7. Present' \subseteq Present /\ \A v \in Tops(Platform) : v # u => v \in Tops(Platform)'
    BY <2>3, <2>5 DEF Present, Tops, Members
  <2>8. AdminPresent'
    BY <2>6, <2>7 DEF AdminPresent
  <2>9. IInv'
    BY <1>1, <2>1, <2>3, <2>4, <2>8
  <2> QED
    BY <2>5, <2>9 DEF Present
<1>5. ASSUME NEW os \in SUBSET Orgs, CommitRegister(r, os)
      PROVE  IInv' /\ \A v \in Users \ Present :
                        row'[Platform][v] # NoRow /\ row'[Platform][v].role = "top" => Present = {}
  <2> DEFINE u == req[r].user
             role == IF req[r].saw = {} THEN "top" ELSE "low"
             rows == [row EXCEPT ![Platform][u] = Manual(role)]
  <2>1. HoldsPlatform(r) /\ req[r].op = "register" /\ u \notin Present
    BY <1>5 DEF CommitRegister, HoldsPlatform, PlatformOps
  <2>2. /\ os \in SUBSET {o \in Orgs \ alive : PrimaryOwner[o] = u}
        /\ row' = IF os = {} THEN rows ELSE WithOrg(rows, CHOOSE o \in os : TRUE)
        /\ active' = active \cup {u} /\ Finish(r) /\ UNCHANGED <<invites, arrived>>
    BY <1>5 DEF CommitRegister
  <2>3. role \in Roles /\ Manual(role) \in Rows /\ Manual(role).role = role /\ Manual("top") \in Rows
    BY <1>0 DEF Roles
  <2>4. (role = "top" => Present = {}) /\ (role = "low" => Present # {}) /\ role \in {"top", "low"}
    BY <2>1 DEF Counted
  <2> HIDE DEF u, role
  <2>5. rows \in [Groups -> [Users -> Rows \cup {NoRow}]]
        /\ \A v \in Users : rows[Platform][v] = IF v = u THEN Manual(role) ELSE row[Platform][v]
    BY <2>3 DEF Typed
  <2> HIDE DEF rows
  <2>6. row' \in [Groups -> [Users -> Rows \cup {NoRow}]] /\ row'[Platform] = rows[Platform]
    <3>1. CASE os = {}
      BY <2>2, <2>5, <3>1
    <3>2. CASE os # {}
      <4>1. PICK o \in Orgs : row' = WithOrg(rows, o)
        BY <2>2, <3>2
      <4>2. Platform \notin WithWorkspaces({o})
        OBVIOUS
      <4> QED
        BY <2>3, <2>5, <4>1, <4>2 DEF WithOrg
    <3> QED
      BY <3>1, <3>2
  <2>7. \A v \in Users : row'[Platform][v] = IF v = u THEN Manual(role) ELSE row[Platform][v]
    BY <2>5, <2>6
  <2>8. CASE role = "top"
    <3>1. Present' \subseteq {u} /\ (u \in Present' => u \in Tops(Platform)')
      BY <2>2, <2>3, <2>4, <2>7, <2>8 DEF Present, Tops, Members
    <3>2. AdminPresent'
      BY <3>1 DEF AdminPresent
    <3> QED
      BY <1>1, <2>1, <2>2, <2>4, <2>6, <2>8, <3>2
  <2>9. CASE role = "low"
    <3>1. \A v \in Tops(Platform) : v \in Tops(Platform)'
      BY <2>1, <2>2, <2>7 DEF Present, Tops, Members
    <3>2. AdminPresent'
      BY <2>4, <2>9, <3>1 DEF AdminPresent
    <3>3. IInv'
      BY <1>1, <2>1, <2>2, <2>6, <3>2
    <3> QED
      BY <2>3, <2>7, <2>9, <3>3 DEF Present
  <2> QED
    BY <2>4, <2>8, <2>9
<1> QED
  BY <1>2, <1>3, <1>4, <1>5

-----------------------------------------------------------------------------
(* The platform's theorems.                                                 *)

LEMMA StepKeeps ==
    ASSUME IInv, Next
    PROVE  IInv' /\ \A u \in Users \ Present :
                      row'[Platform][u] # NoRow /\ row'[Platform][u].role = "top" => Present = {}
<1>1. ASSUME IInv', SamePlatform
      PROVE  IInv' /\ \A u \in Users \ Present :
                        row'[Platform][u] # NoRow /\ row'[Platform][u].role = "top" => Present = {}
  BY <1>1 DEF SamePlatform, Present
<1>2. ASSUME NEW r \in Requests, Arrivals(r)
      PROVE  IInv' /\ SamePlatform
  BY <1>2, ArrivalsKeep, GroupsChange DEF IInv
<1>3. ASSUME NEW r \in Requests, Locking(r)
      PROVE  IInv' /\ SamePlatform
  BY <1>3, LockingKeeps
<1>4. ASSUME NEW r \in Requests, Committing(r) \/ RollBack(r)
      PROVE  IInv' /\ \A u \in Users \ Present :
                        row'[Platform][u] # NoRow /\ row'[Platform][u].role = "top" => Present = {}
  BY <1>1, <1>4, GroupCommitKeeps, PlatformCommitKeeps DEF Committing
<1> QED
  BY <1>1, <1>2, <1>3, <1>4, StatementKeeps DEF Next

LEMMA StutterKeeps ==
    ASSUME IInv, UNCHANGED vars
    PROVE  IInv' /\ \A u \in Users \ Present :
                      row'[Platform][u] # NoRow /\ row'[Platform][u].role = "top" => Present = {}
<1>1. IInv'
  BY DEF vars, IInv, Typed, Wanted, Exclusive, Counted, AdminPresent, HoldsPlatform,
         Present, Tops, Members
<1> QED
  BY <1>1 DEF vars, Present

\* Whatever demotions, deactivations, deletions and registrations run together, as long as
\* there are accounts one of them is an active administrator of the platform
\* (lib/platform-admin-guard.js: a count under the lock of platform_admins).
THEOREM AdminIsPresent == Spec => []AdminPresent
<1>1. Init => IInv
  BY InitIInv
<1>2. IInv /\ [Next]_vars => IInv'
  BY StepKeeps, StutterKeeps
<1>3. IInv => AdminPresent
  BY DEF IInv
<1> QED
  BY <1>1, <1>2, <1>3, PTL DEF Spec

\* Of any number of registrations at once, only one that came to an installation without
\* accounts makes its account an administrator (createAccountTx counts under the lock).
THEOREM FirstBecomesAdmin == Spec => OnlyFirstIsAdmin
<1>1. Init => IInv
  BY InitIInv
<1>2. IInv /\ [Next]_vars => IInv'
  BY StepKeeps, StutterKeeps
<1>3. IInv /\ [Next]_vars
        => [\A u \in Users \ Present :
              row'[Platform][u] # NoRow /\ row'[Platform][u].role = "top" => Present = {}]_vars
  BY StepKeeps, StutterKeeps
<1> QED
  BY <1>1, <1>2, <1>3, PTL DEF Spec, OnlyFirstIsAdmin

-----------------------------------------------------------------------------
(* Organizations and workspaces.                                            *)

\* What the requests in flight have in common, beyond Typed.
Shaped ==
    /\ alive \subseteq Tenants
    /\ \A r \in Requests :
        /\ req[r].stage = "idle" => req[r] = Idle
        /\ req[r].stage = "unlink" => req[r].op = "deactivate"
        /\ req[r].op = "remove" => req[r].group \in Tenants
        /\ req[r].op = "move" =>
             /\ req[r].pre \subseteq Workspaces /\ req[r].group \in Workspaces \ req[r].pre
             /\ \A v, w \in req[r].pre : v = w

\* Tops of an organization or a workspace, where `active` plays no role.
top == [g \in Tenants |-> {u \in Users : row[g][u] # NoRow /\ row[g][u].role = "top"}]

LEMMA TopIsTops == \A g \in Tenants : Tops(g) = top[g]
BY GroupFacts DEF Tops, Members, top

LEMMA TopIsTopsPrime == \A g \in Tenants : Tops(g)' = top'[g]
BY GroupFacts DEF Tops, Members, top

Frozen ==
    \A r \in Requests : req[r].stage = "locked" =>
        /\ req[r].op \in {"change", "remove"} => req[r].saw = top[req[r].group]
        /\ req[r].op = "move" => \A w \in req[r].pre : req[r].saw = top[w]

GInv == IInv /\ Shaped /\ Frozen

\* A step of request r, or of none: what it does to other requests and to locked rows.
OthersWait(r) == \A s \in Requests \ {r} : req'[s] = req[s]
ChangesMeetNoLock(r) ==
    \A g \in Tenants, u \in Users :
        row'[g][u] # row[g][u] => \A s \in Requests \ {r} : <<g, u>> \notin Held(s)

\* A request that locks all rows of a group holds each of them.
LEMMA WholeGroupHeld ==
    ASSUME Wanted, Shaped, NEW s \in Requests, req[s].stage = "locked", NEW u \in Users
    PROVE  /\ req[s].op \in {"change", "remove"} =>
                 req[s].group \in Tenants /\ <<req[s].group, u>> \in Held(s)
           /\ req[s].op = "move" => \A w \in req[s].pre : w \in Tenants /\ <<w, u>> \in Held(s)
<1>1. Held(s) = Covered(req[s])
  BY DEF Held
<1>2. ASSUME req[s].op \in {"change", "remove"}
      PROVE  req[s].group \in Tenants /\ <<req[s].group, u>> \in Held(s)
  <2>1. req[s].group \in Tenants /\ <<req[s].group, u>> \in Groups \X Users
    BY <1>2, GroupFacts DEF Wanted, Shaped
  <2> QED
    BY <1>1, <1>2, <2>1 DEF Covered
<1>3. ASSUME req[s].op = "move", NEW w \in req[s].pre
      PROVE  w \in Tenants /\ <<w, u>> \in Held(s)
  <2>1. w \in Tenants /\ <<w, u>> \in Groups \X Users
    BY <1>3, GroupFacts DEF Shaped
  <2> QED
    BY <1>1, <1>3, <2>1 DEF Covered
<1> QED
  BY <1>2, <1>3

\* Rows that a request holds stay as they are, so it stays right about them.
LEMMA FrozenKeeps ==
    ASSUME Wanted, Shaped, Frozen, NEW r, OthersWait(r), ChangesMeetNoLock(r),
           r \in Requests => req'[r].stage # "locked"
    PROVE  Frozen'
<1> SUFFICES ASSUME NEW s \in Requests, req'[s].stage = "locked"
             PROVE  /\ req'[s].op \in {"change", "remove"} => req'[s].saw = top'[req'[s].group]
                    /\ req'[s].op = "move" => \A w \in req'[s].pre : req'[s].saw = top'[w]
  BY DEF Frozen
<1>1. s # r /\ req'[s] = req[s] /\ req[s].stage = "locked"
  BY DEF OthersWait
<1>2. ASSUME NEW g \in Tenants, \A u \in Users : <<g, u>> \in Held(s)
      PROVE  top'[g] = top[g]
  <2>1. \A u \in Users : row'[g][u] = row[g][u]
    BY <1>1, <1>2 DEF ChangesMeetNoLock
  <2> QED
    BY <2>1 DEF top
<1>3. req[s].op \in {"change", "remove"} => top'[req[s].group] = top[req[s].group]
  BY <1>1, <1>2, WholeGroupHeld DEF Wanted, Shaped
<1>4. ASSUME req[s].op = "move", NEW w \in req[s].pre
      PROVE  top'[w] = top[w]
  BY <1>1, <1>2, <1>4, WholeGroupHeld, GroupFacts DEF Shaped
<1> QED
  BY <1>1, <1>3, <1>4 DEF Frozen

\* A write that was checked against the locks, of no other rows.
LEMMA WritableMeetsNoLock ==
    ASSUME NEW r, NEW ps, Writable(r, ps),
           \A g \in Tenants, u \in Users : row'[g][u] # row[g][u] => <<g, u>> \in ps
    PROVE  ChangesMeetNoLock(r)
BY DEF Writable, ChangesMeetNoLock

-----------------------------------------------------------------------------
(* Who loses its top role, by kind of step.                                 *)

\* u is the last top member of g, for which nothing in the comment of LastTopKept speaks.
Unprotected(g, u) ==
    /\ u \in Present'
    /\ ~\E r \in Requests : req[r].stage = "unlink" /\ req[r].user = u /\ g \in req[r].pre
    /\ row[g][u].src # "entra"
    /\ ~Moved(u, g)

TopKept == \A g \in alive \cap alive' : \A u \in top[g] :
              Unprotected(g, u) => top'[g] # {}

\* What the sync of r has to leave alone when it ends.
SyncSpares(r) ==
    req[r].op = "sync" /\ req'[r].stage = "idle" =>
        \A g \in Tenants : row[g][req[r].user] # NoRow /\ row[g][req[r].user].src = "manual"
                            => row'[g][req[r].user] = row[g][req[r].user]

\* Each kind of step: it keeps the shape of requests, touches no row another request holds,
\* takes no last top member, and spares what was given by hand.
Good(r) ==
    /\ Shaped' /\ OthersWait(r) /\ ChangesMeetNoLock(r)
    /\ TopKept /\ (r \in Requests => SyncSpares(r))

\* A step that leaves the rows of organizations and workspaces alone.
LEMMA SameRowsAreGood ==
    ASSUME Shaped, \A g \in Tenants : row'[g] = row[g]
    PROVE  TopKept /\ \A r : ChangesMeetNoLock(r) /\ SyncSpares(r)
<1>1. \A r : ChangesMeetNoLock(r) /\ SyncSpares(r)
  BY DEF ChangesMeetNoLock, SyncSpares
<1>2. \A g \in Tenants : top'[g] = top[g]
  BY DEF top
<1> QED
  BY <1>1, <1>2 DEF TopKept, Shaped

\* A step after which every top member of a group that stays is one still.
LEMMA GrowingRowsAreGood ==
    ASSUME Shaped,
           \A g \in alive', u \in Users : row[g][u] # NoRow => row'[g][u] \in {row[g][u], Manual("top")}
    PROVE  TopKept
<1>1. Manual("top").role = "top" /\ Manual("top") # NoRow
  BY RowAssumption DEF Manual, Rows, Roles
<1>2. \A g \in alive \cap alive' : top[g] \subseteq top'[g]
  BY <1>1 DEF Shaped, top
<1> QED
  BY <1>2 DEF TopKept

LEMMA FinishShape ==
    ASSUME Typed, Shaped, NEW r \in Requests, Finish(r), alive' \subseteq Tenants
    PROVE  Shaped' /\ OthersWait(r) /\ req'[r].stage = "idle"
<1>1. req' = [req EXCEPT ![r] = Idle] /\ Idle.op = "none" /\ Idle.stage = "idle"
  BY DEF Finish, Idle
<1> QED
  BY <1>1 DEF Shaped, OthersWait, Typed

\* Whoever is not the last of those a request has read leaves another one.
LEMMA AnotherSeen ==
    ASSUME NEW r \in Requests, NEW u \in req[r].saw, NotLast(r, u)
    PROVE  \E v \in req[r].saw : v # u
<1>1. Cardinality(req[r].saw) > 1
  BY DEF NotLast
<1>2. Cardinality({u}) = 1
  BY FS_Singleton
<1>3. req[r].saw # {u}
  BY <1>1, <1>2
<1> QED
  BY <1>3

-----------------------------------------------------------------------------
(* Requests arrive and lock.                                                *)

LEMMA ArriveIsGood ==
    ASSUME Typed, Shaped, NEW r \in Requests, NEW q \in Request, Arrive(r, q),
           q.op = "remove" => q.group \in Tenants,
           q.op = "move" => /\ q.pre \subseteq Workspaces /\ q.group \in Workspaces \ q.pre
                            /\ \A v, w \in q.pre : v = w
    PROVE  Good(r) /\ req'[r].stage = "queued"
<1> DEFINE q2 == [q EXCEPT !.stage = "queued", !.id = arrived + 1]
<1>1. req' = [req EXCEPT ![r] = q2] /\ UNCHANGED <<row, active, alive, invites>>
  BY DEF Arrive
<1>2. q2.stage = "queued" /\ q2.op = q.op /\ q2.group = q.group /\ q2.pre = q.pre
  BY DEF Request
<1> HIDE DEF q2
<1>3. Shaped' /\ OthersWait(r) /\ req'[r].stage = "queued"
  BY <1>1, <1>2 DEF Shaped, OthersWait, Typed
<1>4. TopKept /\ ChangesMeetNoLock(r) /\ SyncSpares(r)
  BY <1>1, SameRowsAreGood
<1> QED
  BY <1>3, <1>4 DEF Good

LEMMA ArrivalsAreGood ==
    ASSUME Typed, Shaped, NEW r \in Requests, Arrivals(r)
    PROVE  Good(r) /\ req'[r].stage = "queued"
BY ArrivalsBring, ArriveIsGood DEF Filled

\* What a request reads under its locks is what the rows say.
LEMMA LockingIsGood ==
    ASSUME Typed, Wanted, Shaped, Frozen, NEW r \in Requests, Locking(r)
    PROVE  Good(r) /\ Frozen'
<1>1. ASSUME NEW saw, Lock(r, saw),
             req[r].op \in {"change", "remove"} => saw = top[req[r].group],
             req[r].op = "move" => \A w \in req[r].pre : saw = top[w]
      PROVE  Good(r) /\ Frozen'
  <2> DEFINE q2 == [req[r] EXCEPT !.stage = "locked", !.saw = saw]
  <2>1. req' = [req EXCEPT ![r] = q2] /\ UNCHANGED <<row, active, alive, invites, arrived>>
    BY <1>1 DEF Lock, Typed, Request
  <2>2. q2.op = req[r].op /\ q2.group = req[r].group /\ q2.pre = req[r].pre /\ q2.stage = "locked"
        /\ q2.saw = saw
    BY DEF Typed, Request
  <2> HIDE DEF q2
  <2>3. Shaped' /\ OthersWait(r) /\ req'[r].stage # "idle"
    BY <2>1, <2>2 DEF Shaped, OthersWait, Typed
  <2>4. TopKept /\ ChangesMeetNoLock(r) /\ SyncSpares(r)
    BY <2>1, SameRowsAreGood
  <2>5. top' = top
    BY <2>1 DEF top
  <2>6. Frozen'
    BY <1>1, <2>1, <2>2, <2>5 DEF Frozen, Typed
  <2> QED
    BY <2>3, <2>4, <2>6 DEF Good
<1>2. CASE LockGroup(r)
  <2>1. req[r].group \in Tenants
    BY <1>2 DEF LockGroup, Wanted, Shaped
  <2> QED
    BY <1>1, <1>2, <2>1, TopIsTops DEF LockGroup
<1>3. CASE LockMove(r)
  <2>1. req[r].op = "move" /\ req[r].pre \subseteq Tenants /\ \A v, w \in req[r].pre : v = w
    BY <1>3, GroupFacts DEF LockMove, Shaped
  <2>2. \A w \in req[r].pre : (UNION {Tops(v) : v \in req[r].pre}) = top[w]
    BY <2>1, TopIsTops
  <2> QED
    BY <1>1, <1>3, <2>1, <2>2 DEF LockMove
<1>4. CASE LockSync(r)
  BY <1>1, <1>4 DEF LockSync
<1>5. CASE LockPlatformAdmins(r)
  BY <1>1, <1>5 DEF LockPlatformAdmins
<1>6. CASE LockRegister(r)
  BY <1>1, <1>6 DEF LockRegister
<1>7. CASE ReadPending(r)
  BY <1>1, <1>7 DEF ReadPending
<1> QED
  BY <1>2, <1>3, <1>4, <1>5, <1>6, <1>7 DEF Locking

-----------------------------------------------------------------------------
(* Commits.                                                                 *)

\* A commit of one membership: who else is top remains so.
LEMMA OneRowCommitIsGood ==
    ASSUME Typed, Shaped, NEW r \in Requests, Finish(r), alive' = alive, req[r].op # "sync",
           NEW g \in Tenants, NEW u, NEW x, row' = [row EXCEPT ![g][u] = x],
           Writable(r, {<<g, u>>}),
           u \in top[g] => x = Manual("top") \/ \E v \in top[g] : v # u
    PROVE  Good(r) /\ req'[r].stage # "locked"
<1>1. Manual("top").role = "top" /\ Manual("top") # NoRow
  BY RowAssumption DEF Manual, Rows, Roles
<1>2. \A h \in Tenants, v \in Users : <<h, v>> # <<g, u>> => row'[h][v] = row[h][v]
  BY GroupFacts DEF Typed
<1>3. Shaped' /\ OthersWait(r) /\ req'[r].stage = "idle"
  BY FinishShape DEF Shaped
<1>4. ChangesMeetNoLock(r)
  BY <1>2, WritableMeetsNoLock
<1>5. \A h \in Tenants : top[h] # {} => top'[h] # {}
  <2> SUFFICES ASSUME NEW h \in Tenants, top[h] # {} PROVE top'[h] # {}
    OBVIOUS
  <2>1. CASE \E v \in top[h] : <<h, v>> # <<g, u>>
    <3>1. PICK v \in top[h] : <<h, v>> # <<g, u>>
      BY <2>1
    <3>2. v \in top'[h]
      BY <1>2, <3>1 DEF top
    <3> QED
      BY <3>2
  <2>2. CASE \A v \in top[h] : v = u /\ h = g
    <3>1. u \in top[g] /\ h = g /\ x = Manual("top")
      BY <2>2
    <3>2. u \in Users /\ row'[g][u] = x
      BY <3>1, GroupFacts DEF top, Typed
    <3>3. u \in top'[g]
      BY <1>1, <3>1, <3>2 DEF top
    <3> QED
      BY <3>1, <3>3
  <2> QED
    BY <2>1, <2>2
<1>6. TopKept
  BY <1>5 DEF TopKept, Shaped
<1> QED
  BY <1>3, <1>4, <1>6 DEF Good, SyncSpares

LEMMA CommitChangeIsGood ==
    ASSUME Typed, Wanted, Shaped, Frozen, NEW r \in Requests, CommitChange(r)
    PROVE  Good(r) /\ req'[r].stage # "locked"
<1> DEFINE g == req[r].group  u == req[r].user  role == req[r].want[g]
<1>1. req[r].op = "change" /\ g \in Tenants /\ role \in {"top", "low"} /\ req[r].saw = top[g]
  BY DEF CommitChange, Wanted, Frozen, Roles
<1>2. /\ u \in Members(g) => (role = "low" => NotLast(r, u))
      /\ Writable(r, {<<g, u>>}) /\ row' = [row EXCEPT ![g][u] = Manual(role)]
      /\ Finish(r) /\ alive' = alive
  BY DEF CommitChange
<1> HIDE DEF g, u, role
<1>3. u \in top[g] => Manual(role) = Manual("top") \/ \E v \in top[g] : v # u
  <2> SUFFICES ASSUME u \in top[g], role = "low" PROVE \E v \in top[g] : v # u
    BY <1>1
  <2>1. u \in Members(g)
    BY <1>1, GroupFacts DEF Members, top
  <2> QED
    BY <1>1, <1>2, <2>1, AnotherSeen
<1> QED
  BY <1>1, <1>2, <1>3, OneRowCommitIsGood

LEMMA CommitRemoveIsGood ==
    ASSUME Typed, Wanted, Shaped, Frozen, NEW r \in Requests, CommitRemove(r)
    PROVE  Good(r) /\ req'[r].stage # "locked"
<1> DEFINE g == req[r].group  u == req[r].user
<1>1. req[r].op = "remove" /\ g \in Tenants /\ req[r].saw = top[g]
  BY DEF CommitRemove, Shaped, Frozen
<1>2. /\ NotLast(r, u) /\ Writable(r, {<<g, u>>}) /\ row' = [row EXCEPT ![g][u] = NoRow]
      /\ Finish(r) /\ alive' = alive
  BY DEF CommitRemove
<1> HIDE DEF g, u
<1>3. u \in top[g] => \E v \in top[g] : v # u
  BY <1>1, <1>2, AnotherSeen
<1> QED
  BY <1>1, <1>2, <1>3, OneRowCommitIsGood

\* The move deletes memberships it has not looked at: that of LastTopKept's last case.
LEMMA CommitMoveIsGood ==
    ASSUME Typed, Wanted, Shaped, Frozen, NEW r \in Requests, CommitMove(r)
    PROVE  Good(r) /\ req'[r].stage # "locked"
<1> DEFINE u == req[r].user  w == req[r].group
           ps == {<<v, u>> : v \in {w} \cup {x \in Workspaces : row[x][u] # NoRow}}
<1>1. /\ req[r].op = "move" /\ req[r].stage = "locked" /\ NotLast(r, u) /\ Writable(r, ps)
      /\ row' = [g \in Groups |-> IF g \notin Workspaces THEN row[g]
                                  ELSE [row[g] EXCEPT ![u] = IF g = w THEN Manual("low") ELSE NoRow]]
      /\ Finish(r) /\ alive' = alive
  BY DEF CommitMove
<1>2. /\ req[r].pre \subseteq Workspaces /\ w \in Workspaces /\ w \notin req[r].pre
      /\ \A v \in req[r].pre : req[r].saw = top[v]
  BY <1>1 DEF Shaped, Frozen
<1>3. Shaped' /\ OthersWait(r) /\ req'[r].stage = "idle"
  BY <1>1, FinishShape DEF Shaped
<1> HIDE DEF u, w
<1>4. \A g \in Tenants, v \in Users : v # u => row'[g][v] = row[g][v]
  BY <1>1, GroupFacts DEF Typed
<1>5. \A g \in Tenants, v \in Users : row'[g][v] # row[g][v] => <<g, v>> \in ps
  <2> SUFFICES ASSUME NEW g \in Tenants, NEW v \in Users, row'[g][v] # row[g][v]
               PROVE  <<g, v>> \in ps
    OBVIOUS
  <2>1. v = u /\ g \in Workspaces
    BY <1>1, <1>4, GroupFacts
  <2>2. g = w \/ row[g][u] # NoRow
    BY <1>1, <2>1, GroupFacts DEF Typed
  <2> QED
    BY <2>1, <2>2
<1>6. ChangesMeetNoLock(r)
  <2> HIDE DEF ps
  <2> QED
    BY <1>1, <1>5, WritableMeetsNoLock
<1>7. TopKept
  <2> SUFFICES ASSUME NEW g \in alive \cap alive', NEW x \in top[g], ~Moved(x, g)
               PROVE  top'[g] # {}
    BY DEF TopKept, Unprotected
  <2>1. g \in Tenants /\ x \in Users
    BY DEF Shaped, top
  <2>2. CASE x # u
    <3>1. x \in top'[g]
      BY <1>4, <2>1, <2>2 DEF top
    <3> QED
      BY <3>1
  <2>3. CASE x = u
    <3>1. g \in req[r].pre
      BY <1>1, <2>3 DEF Moved, u
    <3>2. PICK v \in top[g] : v # u
      BY <1>1, <1>2, <2>3, <3>1, AnotherSeen
    <3>3. v \in top'[g]
      BY <1>4, <2>1, <3>2 DEF top
    <3> QED
      BY <3>3
  <2> QED
    BY <2>2, <2>3
<1> QED
  BY <1>1, <1>3, <1>6, <1>7 DEF Good, SyncSpares

LEMMA CommitSyncIsGood ==
    ASSUME Typed, Wanted, Shaped, NEW r \in Requests, CommitSync(r)
    PROVE  Good(r) /\ req'[r].stage # "locked"
<1> DEFINE u == req[r].user
           ps == {<<g, u>> : g \in {h \in Tenants : SyncedRow(r, h) # row[h][u]}}
<1>1. /\ u \in Present /\ Writable(r, ps) /\ Finish(r) /\ alive' = alive
      /\ row' = [g \in Groups |-> IF g \in Tenants
                                  THEN [row[g] EXCEPT ![u] = SyncedRow(r, g)] ELSE row[g]]
  BY DEF CommitSync
<1>2. Shaped' /\ OthersWait(r) /\ req'[r].stage = "idle"
  BY <1>1, FinishShape DEF Shaped
<1>3. \A g \in Tenants : row[g][u] # NoRow /\ row[g][u].src = "manual" => SyncedRow(r, g) = row[g][u]
  BY DEF SyncedRow
<1> HIDE DEF u
<1>4. \A g \in Tenants, v \in Users : row'[g][v] = IF v = u THEN SyncedRow(r, g) ELSE row[g][v]
  BY <1>1, GroupFacts DEF Typed
<1>5. \A g \in Tenants, v \in Users : row'[g][v] # row[g][v] => <<g, v>> \in ps
  BY <1>4
<1>6. ChangesMeetNoLock(r)
  <2> HIDE DEF ps
  <2> QED
    BY <1>1, <1>5, WritableMeetsNoLock
<1>7. TopKept
  <2> SUFFICES ASSUME NEW g \in alive \cap alive', NEW x \in top[g], row[g][x].src # "entra"
               PROVE  top'[g] # {}
    BY DEF TopKept, Unprotected
  <2>1. g \in Tenants /\ x \in Users /\ row[g][x] \in Rows /\ row[g][x] # NoRow
    BY GroupFacts DEF Shaped, top, Typed
  <2>2. row[g][x].src = "manual"
    BY <2>1 DEF Rows
  <2>3. x \in top'[g]
    BY <1>3, <1>4, <2>1, <2>2 DEF top
  <2> QED
    BY <2>3
<1>8. SyncSpares(r)
  <2>1. u \in Users /\ u = req[r].user
    BY <1>1 DEF Present, u
  <2>2. \A g \in Tenants : row[g][u] # NoRow /\ row[g][u].src = "manual" => row'[g][u] = row[g][u]
    BY <1>3, <1>4, <2>1
  <2> QED
    BY <2>1, <2>2 DEF SyncSpares
<1> QED
  BY <1>2, <1>6, <1>7, <1>8 DEF Good

\* Commits of platform requests and of invitations, and what ends without a commit.
LEMMA OtherCommitsAreGood ==
    ASSUME Typed, Shaped, NEW r \in Requests,
           \/ CommitRole(r) \/ CommitDeactivate(r) \/ CommitInvite(r) \/ MailSent(r) \/ RollBack(r)
    PROVE  Good(r) /\ req'[r].stage # "locked"
<1>1. ASSUME \A g \in Tenants : row'[g] = row[g], alive' = alive, Finish(r)
      PROVE  Good(r) /\ req'[r].stage # "locked"
  <2>1. Shaped' /\ OthersWait(r) /\ req'[r].stage = "idle"
    BY <1>1, FinishShape DEF Shaped
  <2> QED
    BY <1>1, <2>1, SameRowsAreGood DEF Good
<1>2. ASSUME row' = row, alive' = alive, NEW stage \in {"unlink", "sending"},
             req' = [req EXCEPT ![r].stage = stage], stage = "unlink" => req[r].op = "deactivate"
      PROVE  Good(r) /\ req'[r].stage # "locked"
  <2> DEFINE q2 == [req[r] EXCEPT !.stage = stage]
  <2>1. req' = [req EXCEPT ![r] = q2]
    BY <1>2 DEF Typed, Request
  <2>2. q2.op = req[r].op /\ q2.group = req[r].group /\ q2.pre = req[r].pre /\ q2.stage = stage
    BY DEF Typed, Request
  <2> HIDE DEF q2
  <2>3. Shaped' /\ OthersWait(r) /\ req'[r].stage # "idle" /\ req'[r].stage # "locked"
    BY <1>2, <2>1, <2>2 DEF Shaped, OthersWait, Typed
  <2> QED
    BY <1>2, <2>3, SameRowsAreGood DEF Good
<1>3. CASE CommitRole(r)
  <2>1. \A g \in Tenants : row'[g] = row[g]
    BY <1>3, GroupFacts DEF CommitRole, Typed
  <2> QED
    BY <1>1, <1>3, <2>1 DEF CommitRole
<1>4. CASE CommitDeactivate(r)
  BY <1>1, <1>2, <1>4 DEF CommitDeactivate
<1>5. CASE CommitInvite(r)
  BY <1>2, <1>5 DEF CommitInvite
<1>6. CASE MailSent(r)
  BY <1>1, <1>6 DEF MailSent
<1>7. CASE RollBack(r)
  BY <1>1, <1>7 DEF RollBack
<1> QED
  BY <1>3, <1>4, <1>5, <1>6, <1>7

LEMMA UnlinkIsGood ==
    ASSUME Typed, Shaped, NEW r \in Requests, Unlink(r)
    PROVE  Good(r) /\ req'[r].stage # "locked"
<1> DEFINE u == req[r].user  ps == req[r].pre \X {u}
<1>1. /\ req[r].stage = "unlink" /\ Writable(r, ps) /\ Finish(r) /\ alive' = alive
      /\ row' = [g \in Groups |-> IF g \in req[r].pre THEN [row[g] EXCEPT ![u] = NoRow] ELSE row[g]]
  BY DEF Unlink
<1>2. Shaped' /\ OthersWait(r) /\ req'[r].stage = "idle"
  BY <1>1, FinishShape DEF Shaped
<1>3. u = req[r].user
  OBVIOUS
<1> HIDE DEF u
<1>4. \A g \in Tenants, v \in Users : g \notin req[r].pre \/ v # u => row'[g][v] = row[g][v]
  BY <1>1, GroupFacts DEF Typed
<1>5. ChangesMeetNoLock(r)
  <2>1. \A g \in Tenants, v \in Users : row'[g][v] # row[g][v] => <<g, v>> \in ps
    BY <1>4
  <2> HIDE DEF ps
  <2> QED
    BY <1>1, <2>1, WritableMeetsNoLock
<1>6. TopKept
  <2> SUFFICES ASSUME NEW g \in alive \cap alive', NEW x \in top[g],
                      ~(req[r].user = x /\ g \in req[r].pre)
               PROVE  top'[g] # {}
    BY <1>1 DEF TopKept, Unprotected
  <2>1. g \in Tenants /\ x \in Users
    BY DEF Shaped, top
  <2>2. x \in top'[g]
    BY <1>3, <1>4, <2>1 DEF top
  <2> QED
    BY <2>2
<1>7. SyncSpares(r)
  BY <1>1 DEF SyncSpares, Shaped
<1> QED
  BY <1>2, <1>5, <1>6, <1>7 DEF Good

LEMMA CommitDeleteIsGood ==
    ASSUME Typed, Shaped, NEW r \in Requests, CommitDelete(r)
    PROVE  Good(r) /\ req'[r].stage # "locked"
<1> DEFINE u == req[r].user  gone == WithWorkspaces(req[r].pre)
           ps == RowsOf(gone) \cup {p \in RowsOf(Tenants) : p[2] = u}
<1>1. /\ req[r].op = "delete" /\ Writable(r, ps) /\ Finish(r) /\ alive' = alive \ gone
      /\ row' = [g \in Groups |-> [Without(gone)[g] EXCEPT ![u] = NoRow]]
  BY DEF CommitDelete
<1> HIDE DEF u, gone
<1>2. Shaped' /\ OthersWait(r) /\ req'[r].stage = "idle"
  BY <1>1, FinishShape DEF Shaped
<1>3. \A g \in Groups, v \in Users :
        row'[g][v] = IF g \in gone \/ v = u THEN NoRow ELSE row[g][v]
  BY <1>1 DEF Without, Typed
<1>4. ChangesMeetNoLock(r)
  <2>1. ASSUME NEW g \in Tenants, NEW v \in Users, row'[g][v] # row[g][v]
        PROVE  <<g, v>> \in ps
    <3>1. row[g][v] # NoRow /\ (g \in gone \/ v = u)
      BY <1>3, <2>1, GroupFacts
    <3> QED
      BY <3>1 DEF RowsOf
  <2> HIDE DEF ps
  <2> QED
    BY <1>1, <2>1, WritableMeetsNoLock
<1>5. TopKept
  <2> SUFFICES ASSUME NEW g \in alive \cap alive', NEW x \in top[g], x \in Present'
               PROVE  top'[g] # {}
    BY DEF TopKept, Unprotected
  <2>1. g \in Tenants /\ x \in Users /\ g \notin gone
    BY <1>1 DEF Shaped, top
  <2>2. x # u
    BY <1>3, <2>1, GroupFacts DEF Present
  <2>3. x \in top'[g]
    BY <1>3, <2>1, <2>2, GroupFacts DEF top
  <2> QED
    BY <2>3
<1> QED
  BY <1>1, <1>2, <1>4, <1>5 DEF Good, SyncSpares

\* A new organization and its workspace only gain rows.
LEMMA WithOrgGrows ==
    ASSUME Typed, NEW rows \in [Groups -> [Users -> Rows \cup {NoRow}]],
           \A g \in Tenants : rows[g] = row[g],
           NEW o \in Orgs, row' = WithOrg(rows, o)
    PROVE  \A g \in Tenants, v \in Users :
             /\ row'[g][v] \in {row[g][v], Manual("top")}
             /\ row'[g][v] # row[g][v] => g \in WithWorkspaces({o}) /\ v = PrimaryOwner[o]
BY GroupFacts DEF WithOrg, Typed

LEMMA CommitRegisterIsGood ==
    ASSUME Typed, Shaped, NEW r \in Requests, NEW os \in SUBSET Orgs, CommitRegister(r, os)
    PROVE  Good(r) /\ req'[r].stage # "locked"
<1> DEFINE u == req[r].user  ps == WithWorkspaces(os) \X {u}
           role == IF req[r].saw = {} THEN "top" ELSE "low"
           rows == [row EXCEPT ![Platform][u] = Manual(role)]
<1>1. /\ req[r].op = "register" /\ Writable(r, ps) /\ Finish(r)
      /\ os \in SUBSET {o \in Orgs \ alive : PrimaryOwner[o] = u}
      /\ row' = IF os = {} THEN rows ELSE WithOrg(rows, CHOOSE o \in os : TRUE)
      /\ alive' = alive \cup WithWorkspaces(os)
  BY DEF CommitRegister
<1>2. alive' \subseteq Tenants
  BY <1>1, GroupFacts DEF Shaped
<1>3. Shaped' /\ OthersWait(r) /\ req'[r].stage = "idle"
  BY <1>1, <1>2, FinishShape
<1>4. Manual(role) \in Rows
  BY DEF Manual, Rows, Roles
<1> HIDE DEF u, role
<1>5. rows \in [Groups -> [Users -> Rows \cup {NoRow}]] /\ \A g \in Tenants : rows[g] = row[g]
  BY <1>4, GroupFacts DEF Typed
<1> HIDE DEF rows
<1>6. \A g \in Tenants, v \in Users :
        /\ row'[g][v] \in {row[g][v], Manual("top")}
        /\ row'[g][v] # row[g][v] => g \in WithWorkspaces(os) /\ v = u
  <2>1. CASE os = {}
    BY <1>1, <1>5, <2>1
  <2>2. CASE os # {}
    <3>1. PICK o \in os : row' = WithOrg(rows, o)
      BY <1>1, <2>2
    <3>2. WithWorkspaces({o}) \subseteq WithWorkspaces(os) /\ PrimaryOwner[o] = u /\ o \in Orgs
      BY <1>1, <3>1 DEF WithWorkspaces, WorkspacesIn
    <3> QED
      BY <1>5, <3>1, <3>2, WithOrgGrows
  <2> QED
    BY <2>1, <2>2
<1>7. ChangesMeetNoLock(r)
  <2>1. \A g \in Tenants, v \in Users : row'[g][v] # row[g][v] => <<g, v>> \in ps
    BY <1>6
  <2> HIDE DEF ps
  <2> QED
    BY <1>1, <2>1, WritableMeetsNoLock
<1>8. TopKept
  BY <1>2, <1>6, GrowingRowsAreGood
<1> QED
  BY <1>1, <1>3, <1>7, <1>8 DEF Good, SyncSpares

-----------------------------------------------------------------------------
\* Steps that are one statement or one short transaction.
LEMMA StatementIsGood ==
    ASSUME Typed, Shaped,
           \/ \E u \in Users : Reactivate(u)
           \/ \E g \in Tenants, u \in Users, role \in Roles : CreateMember(g, u, role)
           \/ \E o \in Orgs : CreateOrg(o)
           \/ \E i \in invites : Cancel(i) \/ AcceptInvite(i)
           \/ \E g \in Tenants : DeleteGroup(g)
    PROVE  Good(NoUser) /\ NoUser \notin Requests
<1> USE GroupFacts
<1>0. NoUser \notin Requests
  BY GroupsAssumption
<1>1. ASSUME req' = req, alive' \subseteq Tenants
      PROVE  Shaped' /\ OthersWait(NoUser)
  BY <1>1 DEF Shaped, OthersWait
<1>2. ASSUME req' = req, alive' = alive, \A g \in Tenants : row'[g] = row[g]
      PROVE  Good(NoUser)
  BY <1>0, <1>1, <1>2, SameRowsAreGood DEF Good, Shaped
<1>3. ASSUME NEW g \in Tenants, NEW u \in Users, row[g][u] = NoRow \/ row' = row, req' = req, alive' = alive,
             \A h \in Tenants, v \in Users : row'[h][v] # row[h][v] => <<h, v>> = <<g, u>>,
             Writable(NoUser, {<<g, u>>})
      PROVE  Good(NoUser)
  <2>1. Shaped' /\ OthersWait(NoUser)
    BY <1>1, <1>3 DEF Shaped
  <2>2. ChangesMeetNoLock(NoUser)
    BY <1>3, WritableMeetsNoLock
  <2>3. \A h \in alive', v \in Users : row[h][v] # NoRow => row'[h][v] = row[h][v]
    BY <1>3 DEF Shaped
  <2>4. TopKept
    BY <2>3, GrowingRowsAreGood
  <2> QED
    BY <1>0, <2>1, <2>2, <2>4 DEF Good
<1>4. ASSUME NEW u \in Users, Reactivate(u)
      PROVE  Good(NoUser)
  BY <1>2, <1>4 DEF Reactivate
<1>5. ASSUME NEW g \in Tenants, NEW u \in Users, NEW role \in Roles, CreateMember(g, u, role)
      PROVE  Good(NoUser)
  <2>1. \A h \in Tenants, v \in Users : row'[h][v] # row[h][v] => <<h, v>> = <<g, u>>
    BY <1>5 DEF CreateMember, Typed
  <2> QED
    BY <1>3, <1>5, <2>1 DEF CreateMember
<1>6. ASSUME NEW o \in Orgs, CreateOrg(o)
      PROVE  Good(NoUser)
  <2> DEFINE ps == WithWorkspaces({o}) \X {PrimaryOwner[o]}
  <2>1. row' = WithOrg(row, o) /\ alive' = alive \cup WithWorkspaces({o}) /\ req' = req
        /\ Writable(NoUser, ps)
    BY <1>6 DEF CreateOrg
  <2>2. \A g \in Tenants, v \in Users :
          /\ row'[g][v] \in {row[g][v], Manual("top")}
          /\ row'[g][v] # row[g][v] => g \in WithWorkspaces({o}) /\ v = PrimaryOwner[o]
    BY <2>1, WithOrgGrows DEF Typed
  <2>3. alive' \subseteq Tenants
    BY <2>1 DEF Shaped
  <2>4. ChangesMeetNoLock(NoUser)
    <3>1. \A g \in Tenants, v \in Users : row'[g][v] # row[g][v] => <<g, v>> \in ps
      BY <2>2
    <3> HIDE DEF ps
    <3> QED
      BY <2>1, <3>1, WritableMeetsNoLock
  <2>5. TopKept
    BY <2>2, <2>3, GrowingRowsAreGood
  <2> QED
    BY <1>0, <1>1, <2>1, <2>3, <2>4, <2>5 DEF Good
<1>7. ASSUME NEW i \in invites, Cancel(i)
      PROVE  Good(NoUser)
  BY <1>2, <1>7 DEF Cancel
<1>8. ASSUME NEW i \in invites, AcceptInvite(i)
      PROVE  Good(NoUser)
  <2> DEFINE g == i.ws  u == i.to
  <2>1. /\ u \in Users /\ g \in Tenants /\ Writable(NoUser, {<<g, u>>}) /\ req' = req /\ alive' = alive
        /\ row' = [row EXCEPT ![g][u] = IF @ = NoRow THEN Manual("low") ELSE @]
    BY <1>8 DEF AcceptInvite, Present, Shaped
  <2> HIDE DEF g, u
  <2>2. \A h \in Tenants, v \in Users : row'[h][v] # row[h][v] => <<h, v>> = <<g, u>> /\ row[g][u] = NoRow
    BY <2>1 DEF Typed
  <2>3. CASE row[g][u] = NoRow
    BY <1>3, <2>1, <2>2, <2>3
  <2>4. CASE row[g][u] # NoRow
    <3>1. \A h \in Tenants : row'[h] = row[h]
      BY <2>1, <2>4 DEF Typed
    <3> QED
      BY <1>2, <2>1, <3>1
  <2> QED
    BY <2>3, <2>4
<1>9. ASSUME NEW g \in Tenants, DeleteGroup(g)
      PROVE  Good(NoUser)
  <2> DEFINE gone == {g} \cup (IF g \in Orgs THEN WorkspacesIn({g}) ELSE {})
  <2>1. row' = Without(gone) /\ req' = req /\ alive' = alive \ gone /\ Writable(NoUser, RowsOf(gone))
    BY <1>9 DEF DeleteGroup
  <2> HIDE DEF gone
  <2>2. \A h \in Groups, v \in Users : row'[h][v] = IF h \in gone THEN NoRow ELSE row[h][v]
    BY <2>1 DEF Without, Typed
  <2>3. alive' \subseteq Tenants /\ \A h \in alive' : h \notin gone
    BY <2>1 DEF Shaped
  <2>4. ChangesMeetNoLock(NoUser)
    <3>1. \A h \in Tenants, v \in Users : row'[h][v] # row[h][v] => <<h, v>> \in RowsOf(gone)
      BY <2>2 DEF RowsOf
    <3> QED
      BY <2>1, <3>1, WritableMeetsNoLock
  <2>5. TopKept
    BY <2>2, <2>3, GrowingRowsAreGood
  <2> QED
    BY <1>0, <1>1, <2>1, <2>3, <2>4, <2>5 DEF Good
<1> QED
  BY <1>0, <1>4, <1>5, <1>6, <1>7, <1>8, <1>9

-----------------------------------------------------------------------------
(* Types and references.                                                    *)

\* Nobody is active, a member or a sender of invitations without an account, and no group
\* that is gone has members.
References ==
    /\ active \subseteq Present
    /\ \A g \in Tenants, u \in Users : row[g][u] # NoRow => u \in Present /\ g \in alive
    /\ invites \subseteq Invite

\* A request that will write an account or an invitation can fill it in.
Complete(q) ==
    /\ q.op = "invite" => q.id \in 1 .. MaxRequests /\ q.group \in Workspaces
    /\ q.op \in {"register", "invite"} => q.user \in Users
Inviting == \A r \in Requests : Complete(req[r])

Refs == References /\ Inviting

LEMMA RequestKeeps ==
    ASSUME Typed, Inviting, NEW r \in Requests, NEW q, req' = [req EXCEPT ![r] = q],
           Complete(q)
    PROVE  Inviting'
BY DEF Typed, Inviting

LEMMA StageKeeps ==
    ASSUME Typed, Inviting, NEW r \in Requests, NEW stage, NEW saw,
           \/ req' = [req EXCEPT ![r].stage = stage]
           \/ req' = [req EXCEPT ![r].stage = stage, ![r].saw = saw]
           \/ Finish(r)
    PROVE  Inviting'
<1>1. \A s \in Requests : req[s] \in Request
  BY DEF Typed
<1>2. CASE req' = [req EXCEPT ![r].stage = stage]
  BY <1>1, <1>2 DEF Typed, Inviting, Complete, Request
<1>3. CASE req' = [req EXCEPT ![r].stage = stage, ![r].saw = saw]
  BY <1>1, <1>3 DEF Typed, Inviting, Complete, Request
<1>4. CASE Finish(r)
  <2>1. Complete(Idle)
    BY DEF Idle, Complete
  <2> QED
    BY <1>4, <2>1, RequestKeeps DEF Finish
<1> QED
  BY <1>2, <1>3, <1>4

LEMMA ReferencesUnchanged ==
    ASSUME References, UNCHANGED <<row, active, alive, invites>>
    PROVE  References'
BY DEF References, Present

LEMMA ArrivalsRefer ==
    ASSUME Typed, Refs, NEW r \in Requests, Arrivals(r)
    PROVE  Refs'
<1>1. PICK q \in Request : Arrive(r, q) /\ Filled(q)
  BY ArrivalsBring
<1> DEFINE q2 == [q EXCEPT !.stage = "queued", !.id = arrived + 1]
<1>2. /\ req' = [req EXCEPT ![r] = q2] /\ arrived < MaxRequests
      /\ UNCHANGED <<row, active, alive, invites>>
  BY <1>1 DEF Arrive
<1>3. q2.op = q.op /\ q2.id = arrived + 1 /\ q2.group = q.group /\ q2.user = q.user
  BY DEF Request
<1>4. arrived + 1 \in 1 .. MaxRequests
  BY <1>2, GroupsAssumption DEF Typed
<1> HIDE DEF q2
<1>5. Inviting'
  BY <1>1, <1>2, <1>3, <1>4, RequestKeeps DEF Refs, Filled, Complete
<1>6. References'
  BY <1>2, ReferencesUnchanged DEF Refs
<1> QED
  BY <1>5, <1>6 DEF Refs

\* A request that locks, or ends without having written.
LEMMA LockingRefers ==
    ASSUME Typed, Refs, NEW r \in Requests, Locking(r) \/ RollBack(r)
    PROVE  Refs'
<1> USE DEF Refs
<1>1. ASSUME NEW saw, Lock(r, saw)
      PROVE  Refs'
  BY <1>1, StageKeeps, ReferencesUnchanged DEF Lock
<1>2. CASE RollBack(r)
  BY <1>2, StageKeeps, ReferencesUnchanged DEF RollBack
<1> QED
  BY <1>1, <1>2 DEF Locking, LockGroup, LockMove, LockSync, LockPlatformAdmins, LockRegister, ReadPending

\* The rows of members are written where account and group exist, and go with either.
LEMMA RowsRefer ==
    ASSUME References, active' \subseteq Present', invites' \subseteq Invite,
           \A g \in Tenants, u \in Users : row'[g][u] # NoRow => u \in Present' /\ g \in alive'
    PROVE  References'
BY DEF References

LEMMA GroupCommitsRefer ==
    ASSUME Typed, Wanted, Shaped, Refs, NEW r \in Requests,
           CommitChange(r) \/ CommitRemove(r) \/ CommitMove(r) \/ CommitSync(r) \/ Unlink(r)
    PROVE  Refs'
<1> USE GroupFacts DEF Refs
<1>0. Finish(r) /\ UNCHANGED <<active, alive, invites>>
  BY DEF CommitChange, CommitRemove, CommitMove, CommitSync, Unlink
<1>1. Inviting'
  BY <1>0, StageKeeps
<1>2. row'[Platform] = row[Platform] \/ Unlink(r)
  <2>1. CASE CommitChange(r)
    BY <2>1 DEF CommitChange, Wanted, Typed
  <2>2. CASE CommitRemove(r)
    BY <2>2 DEF CommitRemove, Shaped, Typed
  <2>3. CASE CommitMove(r)
    BY <2>3 DEF CommitMove
  <2>4. CASE CommitSync(r)
    BY <2>4 DEF CommitSync
  <2> QED
    BY <2>1, <2>2, <2>3, <2>4
<1>3. row'[Platform] = row[Platform]
  BY <1>2 DEF Unlink, Typed, Request
<1>4. Present' = Present
  BY <1>3 DEF Present
<1>5. \A g \in Tenants, u \in Users : row'[g][u] # NoRow => u \in Present /\ g \in alive
  <2> SUFFICES ASSUME NEW g \in Tenants, NEW u \in Users, row'[g][u] # NoRow
               PROVE  u \in Present /\ g \in alive
    OBVIOUS
  <2>0. row[g][u] # NoRow => u \in Present /\ g \in alive
    BY DEF References
  <2>1. CASE CommitChange(r)
    BY <2>0, <2>1 DEF CommitChange, Typed
  <2>2. CASE CommitRemove(r)
    BY <2>0, <2>2 DEF CommitRemove, Typed
  <2>3. CASE CommitMove(r)
    BY <2>0, <2>3 DEF CommitMove, Typed
  <2>4. CASE CommitSync(r)
    BY <2>0, <2>4 DEF CommitSync, Typed
  <2>5. CASE Unlink(r)
    BY <2>0, <2>5 DEF Unlink, Typed
  <2> QED
    BY <2>1, <2>2, <2>3, <2>4, <2>5
<1>6. References'
  BY <1>0, <1>4, <1>5, RowsRefer DEF References
<1> QED
  BY <1>1, <1>6

\* An account that goes takes its memberships along; one that comes is a member of its own.
LEMMA PlatformCommitsRefer ==
    ASSUME Typed, Wanted, Refs, NEW r \in Requests,
           \/ CommitRole(r) \/ CommitDeactivate(r) \/ CommitDelete(r)
           \/ \E os \in SUBSET Orgs : CommitRegister(r, os)
    PROVE  Refs'
<1> USE GroupFacts, RowAssumption DEF Refs
<1>0. \A role \in Roles : Manual(role) \in Rows /\ Manual(role) # NoRow
  BY DEF Manual, Rows
<1>1. CASE CommitRole(r)
  <2> DEFINE u == req[r].user  role == req[r].want[Platform]
  <2>1. Finish(r) /\ UNCHANGED <<active, alive, invites>> /\ role \in Roles
        /\ row' = [row EXCEPT ![Platform][u] = Manual(role)]
    BY <1>1 DEF CommitRole, Wanted
  <2> HIDE DEF u, role
  <2>2. Present \subseteq Present' /\ \A g \in Tenants : row'[g] = row[g]
    BY <1>0, <2>1 DEF Present, Typed
  <2>3. References'
    BY <2>1, <2>2, RowsRefer DEF References
  <2> QED
    BY <2>1, <2>3, StageKeeps
<1>2. CASE CommitDeactivate(r)
  <2>1. active' \subseteq active /\ UNCHANGED <<row, alive, invites>>
        /\ (Finish(r) \/ req' = [req EXCEPT ![r].stage = "unlink"])
    BY <1>2 DEF CommitDeactivate
  <2>2. References'
    BY <2>1 DEF References, Present
  <2> QED
    BY <2>1, <2>2, StageKeeps
<1>3. CASE CommitDelete(r)
  <2> DEFINE u == req[r].user  gone == WithWorkspaces(req[r].pre)
  <2>1. /\ row' = [g \in Groups |-> [Without(gone)[g] EXCEPT ![u] = NoRow]]
        /\ active' = active \ {u} /\ alive' = alive \ gone
        /\ invites' \subseteq invites /\ Finish(r)
    BY <1>3 DEF CommitDelete
  <2>2. Platform \notin gone
    BY DEF Typed, Request
  <2> HIDE DEF u, gone
  <2>3. \A g \in Groups, v \in Users :
          row'[g][v] = IF g \in gone \/ v = u THEN NoRow ELSE row[g][v]
    BY <2>1 DEF Without, Typed
  <2>4. \A v \in Present : v # u => v \in Present'
    BY <2>2, <2>3 DEF Present
  <2>5. \A g \in Tenants, v \in Users : row'[g][v] # NoRow => v \in Present' /\ g \in alive'
    BY <2>1, <2>3, <2>4 DEF References
  <2>6. active' \subseteq Present' /\ invites' \subseteq Invite
    BY <2>1, <2>4 DEF References
  <2> QED
    BY <2>1, <2>5, <2>6, RowsRefer, StageKeeps
<1>4. ASSUME NEW os \in SUBSET Orgs, CommitRegister(r, os)
      PROVE  Refs'
  <2> DEFINE u == req[r].user
             role == IF req[r].saw = {} THEN "top" ELSE "low"
             rows == [row EXCEPT ![Platform][u] = Manual(role)]
  <2>1. /\ req[r].op = "register" /\ Finish(r) /\ UNCHANGED invites
        /\ os \in SUBSET {o \in Orgs \ alive : PrimaryOwner[o] = u}
        /\ row' = IF os = {} THEN rows ELSE WithOrg(rows, CHOOSE o \in os : TRUE)
        /\ alive' = alive \cup WithWorkspaces(os) /\ active' = active \cup {u}
    BY <1>4 DEF CommitRegister
  <2>2. u \in Users /\ role \in Roles
    BY <2>1 DEF Inviting, Complete, Roles
  <2> HIDE DEF u, role
  <2>3. /\ rows \in [Groups -> [Users -> Rows \cup {NoRow}]] /\ \A g \in Tenants : rows[g] = row[g]
        /\ \A v \in Users : rows[Platform][v] = IF v = u THEN Manual(role) ELSE row[Platform][v]
    BY <1>0, <2>2 DEF Typed
  <2> HIDE DEF rows
  <2>4. /\ row'[Platform] = rows[Platform]
        /\ \A g \in Tenants, v \in Users : row'[g][v] # row[g][v] => g \in WithWorkspaces(os) /\ v = u
    <3>1. CASE os = {}
      BY <2>1, <2>3, <3>1
    <3>2. CASE os # {}
      <4>1. PICK o \in os : row' = WithOrg(rows, o)
        BY <2>1, <3>2
      <4>2. WithWorkspaces({o}) \subseteq WithWorkspaces(os) /\ PrimaryOwner[o] = u /\ o \in Orgs
        BY <2>1, <4>1 DEF WithWorkspaces, WorkspacesIn
      <4>3. Platform \notin WithWorkspaces({o})
        BY <4>2
      <4>4. row'[Platform] = rows[Platform]
        BY <4>1, <4>3 DEF WithOrg
      <4> QED
        BY <2>3, <4>1, <4>2, <4>4, WithOrgGrows
    <3> QED
      BY <3>1, <3>2
  <2>5. Present' = Present \cup {u}
    BY <1>0, <2>2, <2>3, <2>4 DEF Present
  <2>6. \A g \in Tenants, v \in Users : row'[g][v] # NoRow => v \in Present' /\ g \in alive'
    BY <2>1, <2>4, <2>5 DEF References
  <2>7. active' \subseteq Present' /\ invites' \subseteq Invite
    BY <2>1, <2>5 DEF References
  <2> QED
    BY <2>1, <2>6, <2>7, RowsRefer, StageKeeps
<1> QED
  BY <1>1, <1>2, <1>3, <1>4

\* An invitation names its workspace, its addressee and a sender who has an account.
LEMMA InvitesRefer ==
    ASSUME Typed, Refs, NEW r \in Requests, CommitInvite(r) \/ MailSent(r)
    PROVE  Refs'
<1> USE DEF Refs
<1>1. CASE CommitInvite(r)
  <2>1. /\ req[r].op = "invite" /\ req[r].saw \subseteq Present
        /\ \E by \in req[r].saw :
             invites' = invites \cup {[id |-> req[r].id, ws |-> req[r].group, to |-> req[r].user, by |-> by]}
        /\ req' = [req EXCEPT ![r].stage = "sending"] /\ UNCHANGED <<row, active, alive>>
    BY <1>1 DEF CommitInvite
  <2>2. req[r].id \in 1 .. MaxRequests /\ req[r].group \in Workspaces /\ req[r].user \in Users
    BY <2>1 DEF Inviting, Complete
  <2>3. invites' \subseteq Invite
    BY <2>1, <2>2 DEF References, Invite, Present
  <2>4. References'
    BY <2>1, <2>3 DEF References, Present
  <2> QED
    BY <2>1, <2>4, StageKeeps
<1>2. CASE MailSent(r)
  <2>1. invites' \subseteq invites /\ Finish(r) /\ UNCHANGED <<row, active, alive>>
    BY <1>2 DEF MailSent
  <2>2. References'
    BY <2>1 DEF References, Present
  <2> QED
    BY <2>1, <2>2, StageKeeps
<1> QED
  BY <1>1, <1>2

LEMMA StatementsRefer ==
    ASSUME Typed, Shaped, Refs,
           \/ \E u \in Users : Reactivate(u)
           \/ \E g \in Tenants, u \in Users, role \in Roles : CreateMember(g, u, role)
           \/ \E o \in Orgs : CreateOrg(o)
           \/ \E i \in invites : Cancel(i) \/ AcceptInvite(i)
           \/ \E g \in Tenants : DeleteGroup(g)
    PROVE  Refs'
<1> USE GroupFacts, RowAssumption DEF Refs
<1>0. \A role \in Roles : Manual(role) \in Rows /\ Manual(role) # NoRow
  BY DEF Manual, Rows
<1>1. req' = req
  BY DEF Reactivate, CreateMember, CreateOrg, Cancel, AcceptInvite, DeleteGroup
<1>2. Inviting'
  BY <1>1 DEF Inviting
<1>3. ASSUME NEW u \in Users, Reactivate(u)
      PROVE  References'
  BY <1>3 DEF Reactivate, References, Present
<1>4. ASSUME NEW g \in Tenants, NEW u \in Users, NEW role \in Roles, CreateMember(g, u, role)
      PROVE  References'
  <2>1. /\ g \in alive /\ UNCHANGED <<alive, invites>>
        /\ row' = [row EXCEPT ![g][u] = Manual(role),
                              ![Platform][u] = IF @ = NoRow THEN Manual("low") ELSE @]
        /\ active' \subseteq active \cup {u}
    BY <1>4 DEF CreateMember
  <2>2. Manual("low") # NoRow
    BY <1>0 DEF Roles
  <2>3. \A v \in Users : row'[Platform][v] =
          IF v = u /\ row[Platform][u] = NoRow THEN Manual("low") ELSE row[Platform][v]
    BY <2>1 DEF Typed
  <2>4. Present' = Present \cup {u}
    BY <2>2, <2>3 DEF Present
  <2>5. \A h \in Tenants, v \in Users : row'[h][v] # row[h][v] => h = g /\ v = u
    BY <2>1 DEF Typed
  <2>6. \A h \in Tenants, v \in Users : row'[h][v] # NoRow => v \in Present' /\ h \in alive'
    BY <2>1, <2>4, <2>5 DEF References
  <2>7. active' \subseteq Present' /\ invites' \subseteq Invite
    BY <2>1, <2>4 DEF References
  <2> QED
    BY <2>6, <2>7, RowsRefer
<1>5. ASSUME NEW o \in Orgs, CreateOrg(o)
      PROVE  References'
  <2>1. /\ row' = WithOrg(row, o) /\ alive' = alive \cup WithWorkspaces({o})
        /\ PrimaryOwner[o] \in Present /\ UNCHANGED <<active, invites>>
    BY <1>5 DEF CreateOrg
  <2>2. \A g \in Tenants, v \in Users :
          /\ row'[g][v] \in {row[g][v], Manual("top")}
          /\ row'[g][v] # row[g][v] => g \in WithWorkspaces({o}) /\ v = PrimaryOwner[o]
    BY <2>1, WithOrgGrows DEF Typed
  <2>3. Platform \notin WithWorkspaces({o})
    OBVIOUS
  <2>4. row'[Platform] = row[Platform]
    BY <2>1, <2>3 DEF WithOrg
  <2>5. Present' = Present
    BY <2>4 DEF Present
  <2>6. \A g \in Tenants, v \in Users : row'[g][v] # NoRow => v \in Present' /\ g \in alive'
    BY <2>1, <2>2, <2>5 DEF References
  <2> QED
    BY <2>1, <2>5, <2>6, RowsRefer DEF References
<1>6. ASSUME NEW i \in invites, Cancel(i)
      PROVE  References'
  BY <1>6 DEF Cancel, References, Present
<1>7. ASSUME NEW i \in invites, AcceptInvite(i)
      PROVE  References'
  <2> DEFINE g == i.ws  u == i.to
  <2>1. /\ g \in Workspaces /\ u \in Present /\ g \in alive
        /\ row' = [row EXCEPT ![g][u] = IF @ = NoRow THEN Manual("low") ELSE @]
        /\ invites' \subseteq invites /\ UNCHANGED <<active, alive>>
    BY <1>7 DEF AcceptInvite, References, Invite
  <2> HIDE DEF g, u
  <2>2. row'[Platform] = row[Platform]
        /\ \A h \in Tenants, v \in Users : row'[h][v] # row[h][v] => h = g /\ v = u
    BY <2>1 DEF Typed
  <2>3. Present' = Present
    BY <2>2 DEF Present
  <2>4. \A h \in Tenants, v \in Users : row'[h][v] # NoRow => v \in Present' /\ h \in alive'
    BY <2>1, <2>2, <2>3 DEF References
  <2> QED
    BY <2>1, <2>3, <2>4, RowsRefer DEF References
<1>8. ASSUME NEW g \in Tenants, DeleteGroup(g)
      PROVE  References'
  <2> DEFINE gone == {g} \cup (IF g \in Orgs THEN WorkspacesIn({g}) ELSE {})
  <2>1. row' = Without(gone) /\ alive' = alive \ gone /\ active' = active /\ invites' \subseteq invites
    BY <1>8 DEF DeleteGroup
  <2>2. Platform \notin gone
    BY DEF WorkspacesIn
  <2> HIDE DEF gone
  <2>3. \A h \in Groups, v \in Users : row'[h][v] = IF h \in gone THEN NoRow ELSE row[h][v]
    BY <2>1 DEF Without, Typed
  <2>4. Present' = Present
    BY <2>2, <2>3 DEF Present
  <2>5. \A h \in Tenants, v \in Users : row'[h][v] # NoRow => v \in Present' /\ h \in alive'
    BY <2>1, <2>3, <2>4 DEF References
  <2> QED
    BY <2>1, <2>4, <2>5, RowsRefer DEF References
<1> QED
  BY <1>2, <1>3, <1>4, <1>5, <1>6, <1>7, <1>8

-----------------------------------------------------------------------------
(* The groups' theorems.                                                    *)

LEMMA GoodKeeps ==
    ASSUME Wanted, Shaped, Frozen, NEW r, Good(r),
           r \in Requests => req'[r].stage # "locked"
    PROVE  Shaped' /\ Frozen'
BY FrozenKeeps DEF Good

\* The sync of another request than the one that takes the step does not end with it.
LEMMA GoodSpares ==
    ASSUME Shaped, NEW r, Good(r)
    PROVE  TopKept /\ \A s \in Requests : SyncSpares(s)
<1> SUFFICES ASSUME NEW s \in Requests, s # r PROVE SyncSpares(s)
  BY DEF Good
<1>1. req'[s] = req[s]
  BY DEF Good, OthersWait
<1>2. Idle.op # "sync"
  BY DEF Idle
<1> QED
  BY <1>1, <1>2 DEF SyncSpares, Shaped

LEMMA InitGInv == Init => GInv
<1> SUFFICES ASSUME Init PROVE GInv
  OBVIOUS
<1>1. Idle.op = "none" /\ Idle.stage = "idle"
  BY DEF Idle
<1>2. alive \subseteq Tenants /\ req = [r \in Requests |-> Idle]
  BY DEF Init
<1>3. Shaped /\ Frozen
  BY <1>1, <1>2 DEF Shaped, Frozen
<1> QED
  BY <1>3, InitIInv DEF GInv

LEMMA StepIsGood ==
    ASSUME GInv, Next
    PROVE  GInv' /\ TopKept /\ \A s \in Requests : SyncSpares(s)
<1> USE DEF GInv, IInv
<1>0. IInv'
  BY StepKeeps
<1>1. ASSUME NEW r \in Requests, Arrivals(r)
      PROVE  Shaped' /\ Frozen' /\ TopKept /\ \A s \in Requests : SyncSpares(s)
  BY <1>1, ArrivalsAreGood, GoodKeeps, GoodSpares
<1>2. ASSUME NEW r \in Requests, Locking(r)
      PROVE  Shaped' /\ Frozen' /\ TopKept /\ \A s \in Requests : SyncSpares(s)
  BY <1>2, LockingIsGood, GoodSpares DEF Good
<1>3. ASSUME NEW r \in Requests, Committing(r) \/ RollBack(r)
      PROVE  Shaped' /\ Frozen' /\ TopKept /\ \A s \in Requests : SyncSpares(s)
  <2>1. Good(r) /\ req'[r].stage # "locked"
    BY <1>3, CommitChangeIsGood, CommitRemoveIsGood, CommitMoveIsGood, CommitSyncIsGood,
       OtherCommitsAreGood, UnlinkIsGood, CommitDeleteIsGood, CommitRegisterIsGood DEF Committing
  <2> QED
    BY <2>1, GoodKeeps, GoodSpares
<1>4. ASSUME \/ \E u \in Users : Reactivate(u)
             \/ \E g \in Tenants, u \in Users, role \in Roles : CreateMember(g, u, role)
             \/ \E o \in Orgs : CreateOrg(o)
             \/ \E i \in invites : Cancel(i) \/ AcceptInvite(i)
             \/ \E g \in Tenants : DeleteGroup(g)
      PROVE  Shaped' /\ Frozen' /\ TopKept /\ \A s \in Requests : SyncSpares(s)
  BY <1>4, StatementIsGood, GoodKeeps, GoodSpares
<1> QED
  BY <1>0, <1>1, <1>2, <1>3, <1>4 DEF Next

LEMMA StutterIsGood == GInv /\ UNCHANGED vars => GInv'
<1> SUFFICES ASSUME GInv, UNCHANGED vars PROVE GInv'
  OBVIOUS
<1>1. IInv'
  BY StutterKeeps DEF GInv
<1>2. row' = row /\ req' = req /\ alive' = alive
  BY DEF vars
<1>3. top' = top
  BY <1>2 DEF top
<1>4. Shaped'
  BY <1>2 DEF GInv, Shaped
<1>5. Frozen'
  BY <1>2, <1>3 DEF GInv, Frozen
<1> QED
  BY <1>1, <1>4, <1>5 DEF GInv

\* However many role changes, removals, moves and syncs run at once: a group that goes on
\* existing loses its last top member only in the cases that LastTopKept names.  The count
\* of the guard is made under the locks that keep every other writer of the group away.
THEOREM LastTopIsKept == Spec => LastTopKept
<1>1. GInv /\ Next
        => \A g \in alive \cap alive' : \A u \in Tops(g) :
             Tops(g)' = {} =>
                \/ u \notin Present'
                \/ \E r \in Requests : req[r].stage = "unlink" /\ req[r].user = u /\ g \in req[r].pre
                \/ row[g][u].src = "entra"
                \/ Moved(u, g)
  <2> SUFFICES ASSUME GInv, Next,
                      NEW g \in alive \cap alive', NEW u \in Tops(g), Tops(g)' = {}
               PROVE  ~Unprotected(g, u)
    BY DEF Unprotected
  <2>1. g \in Tenants /\ TopKept
    BY StepIsGood DEF GInv, Shaped
  <2> QED
    BY <2>1, TopIsTops, TopIsTopsPrime DEF TopKept
<1>2. GInv /\ [Next]_vars => GInv'
  BY StepIsGood, StutterIsGood
<1>3. GInv /\ [Next]_vars
        => [\A g \in alive \cap alive' : \A u \in Tops(g) :
             Tops(g)' = {} =>
                \/ u \notin Present'
                \/ \E r \in Requests : req[r].stage = "unlink" /\ req[r].user = u /\ g \in req[r].pre
                \/ row[g][u].src = "entra"
                \/ Moved(u, g)]_vars
  BY <1>1
<1> QED
  BY InitGInv, <1>2, <1>3, PTL DEF Spec, LastTopKept

\* The sync that ends takes no membership from hand to the sync, and removes none that is by
\* hand, although the rows may have changed hands between its two reads.
THEOREM ManualIsKept == Spec => ManualKept
<1>1. GInv /\ [Next]_vars => GInv'
  BY StepIsGood, StutterIsGood
<1>2. GInv /\ [Next]_vars
        => [\A r \in Requests : req[r].op = "sync" /\ req'[r].stage = "idle" =>
              \A g \in Tenants : row[g][req[r].user] # NoRow /\ row[g][req[r].user].src = "manual"
                                  => row'[g][req[r].user] = row[g][req[r].user]]_vars
  BY StepIsGood DEF SyncSpares
<1> QED
  BY InitGInv, <1>1, <1>2, PTL DEF Spec, ManualKept

LEMMA RefsKeep ==
    ASSUME GInv, Refs, Next
    PROVE  Refs'
<1> USE DEF GInv, IInv
<1>1. ASSUME NEW r \in Requests, Arrivals(r) \/ Locking(r) \/ RollBack(r)
      PROVE  Refs'
  BY <1>1, ArrivalsRefer, LockingRefers
<1>2. ASSUME NEW r \in Requests, Committing(r)
      PROVE  Refs'
  BY <1>2, GroupCommitsRefer, PlatformCommitsRefer, InvitesRefer DEF Committing
<1> QED
  BY <1>1, <1>2, StatementsRefer DEF Next

LEMMA InitRefs == Init => Refs
<1> SUFFICES ASSUME Init PROVE Refs
  OBVIOUS
<1>1. PICK admins \in {{}} \cup {S \in SUBSET Users : Owners \subseteq S} :
        /\ row = [g \in Groups |-> [u \in Users |->
                    IF u \in admins /\ \A o \in Orgs : g \in WithWorkspaces({o}) => PrimaryOwner[o] = u
                    THEN Manual("top") ELSE NoRow]]
        /\ active = admins /\ alive = IF admins = {} THEN {} ELSE Tenants
  BY DEF Init
<1>2. Manual("top") # NoRow
  BY RowAssumption DEF Manual, Rows, Roles
<1>3. \A o \in Orgs : Platform \notin WithWorkspaces({o})
  BY GroupFacts
<1>4. Present = admins
  BY <1>1, <1>2, <1>3, GroupFacts DEF Present
<1>5. \A g \in Tenants, u \in Users : row[g][u] # NoRow => u \in admins
  BY <1>1, GroupFacts
<1>6. References
  BY <1>1, <1>4, <1>5 DEF References, Init
<1>7. Inviting
  BY DEF Init, Inviting, Complete, Idle
<1> QED
  BY <1>6, <1>7 DEF Refs

\* Accounts, groups, memberships, invitations and requests keep their types.  An active user
\* and a member have an account, a group that is gone has no members: the deletions take
\* along what would refer to nothing (lib/user-deletion.js, routes/organizations.js), and
\* nothing in flight brings it back.
THEOREM TypeIsOK == Spec => []TypeOK
<1>1. GInv /\ Refs => TypeOK
  <2> SUFFICES ASSUME GInv, Refs PROVE TypeOK
    OBVIOUS
  <2>1. \A g \in Tenants : Members(g) \subseteq Present /\ (g \notin alive => Members(g) = {})
    BY DEF Refs, References, Members
  <2> QED
    BY <2>1 DEF GInv, IInv, Typed, Shaped, Refs, References, TypeOK
<1>2. GInv /\ [Next]_vars => GInv'
  BY StepIsGood, StutterIsGood
<1>3. GInv /\ Refs /\ UNCHANGED vars => Refs'
  BY DEF vars, Refs, References, Inviting, Present
<1>4. GInv /\ Refs /\ [Next]_vars => Refs'
  BY <1>3, RefsKeep
<1> QED
  BY InitGInv, InitRefs, <1>1, <1>2, <1>4, PTL DEF Spec
=============================================================================
