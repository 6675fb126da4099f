-------------------------------- MODULE Team --------------------------------
(***************************************************************************)
(* A team: its members and their roles, its invitations, and the cached    *)
(* memberships and views the requests read.  Every request names the team  *)
(* in a header and passes TeamContextGuard and PoliciesGuard; the handlers *)
(* then read the rows, check them, and save what they have read.           *)
(***************************************************************************)
EXTENDS Naturals, Sequences

CONSTANTS TeamRequests, TeamUsers,
          OldRow,          \* the id of the rows and invitations there are at first
          Absent,
          TeamWorkloads    \* the team there is at first, and the requests that come

VARIABLES member,      \* the membership rows: user |-> [id, role], or Absent
          invitation,  \* the invitation rows, named by who created them
          team,        \* the row of the team: "none", "active" or "deleted"
          tcache,      \* Redis: cached memberships, lists and the detail view
          treq,        \* per request: what it is, where it is, what it read
          overwritten, \* history: a row was saved that had changed since it was read
          traced       \* history: cached memberships whose row changed behind them

teamVars == <<member, invitation, team, tcache, treq, overwritten, traced>>

Roles == {"OWNER", "ADMIN", "MEMBER", "VIEWER"}

Ids == TeamRequests \cup {OldRow}

Memberships == [id : Ids, role : Roles]

Invitations == [to : TeamUsers, role : Roles \ {"OWNER"}, late : BOOLEAN,
                status : {"PENDING", "ACCEPTED", "DECLINED", "EXPIRED", "CANCELLED"}]

TeamOps == {"CreateTeam", "ListTeams", "Accept", "Decline", "FindTeam", "Use", "Leave",
            "UpdateRole", "RemoveMember", "Invite", "CancelInvitation", "UpdateTeam",
            "Transfer", "DeleteTeam"}

Jobs == [op : TeamOps, by : TeamUsers, target : TeamUsers, role : Roles, inv : Ids]

OneOwner(rows) ==
    \E u \in TeamUsers :
       /\ rows[u] # Absent /\ rows[u].role = "OWNER"
       /\ \A v \in TeamUsers \ {u} : rows[v] # Absent => rows[v].role # "OWNER"

\* A team that is there has one owner at first, and no other team has members.
ASSUME TeamAssumption ==
    /\ Absent \notin Memberships \cup Invitations \cup Roles
    /\ \A w \in TeamWorkloads :
          /\ w.member \in [TeamUsers -> Memberships \cup {Absent}]
          /\ w.invitation \in [Ids -> Invitations \cup {Absent}]
          /\ w.jobs \in [TeamRequests -> Jobs]
          /\ \/ w.team = "none" /\ \A u \in TeamUsers : w.member[u] = Absent
             \/ w.team = "active" /\ OneOwner(w.member)

Member(u) == <<"member", u>>
List(u)   == <<"list", u>>
Detail    == <<"detail", Absent>>

Keys == {Member(u) : u \in TeamUsers} \cup {List(u) : u \in TeamUsers} \cup {Detail}

TAt(r, pc) == treq[r].pc = pc

TGoto(r, pc) == treq' = [treq EXCEPT ![r].pc = pc]

NewTeamRequest(job) == [op |-> job.op, by |-> job.by, target |-> job.target,
                        role |-> job.role, inv |-> job.inv, pc |-> "new",
                        row |-> Absent, other |-> Absent, drops |-> <<>>, then |-> "done"]

TeamInit ==
    \E w \in TeamWorkloads :
       /\ member = w.member /\ invitation = w.invitation /\ team = w.team
       /\ tcache = [k \in Keys |-> Absent]
       /\ treq = [r \in TeamRequests |-> NewTeamRequest(w.jobs[r])]
       /\ overwritten = FALSE /\ traced = {}

Rows == <<member, invitation, team>>

History == <<overwritten, traced>>

\* Requests without a team header are not asked for a membership.
Personal == {"CreateTeam", "ListTeams", "Accept", "Decline"}

TeamStart(r) ==
    /\ TAt(r, "new")
    /\ TGoto(r, IF treq[r].op \in Personal THEN treq[r].op ELSE "guard")
    /\ UNCHANGED <<Rows, tcache, History>>

Role(u) == IF member[u] = Absent THEN Absent ELSE member[u].role

-----------------------------------------------------------------------------
(* The guards, and the two cached views.                                   *)

\* BuildTeamAbilities, for the routes modelled here.
Allowed(op, role) ==
    CASE role = "OWNER" -> TRUE
      [] role = "ADMIN" -> op \notin {"Transfer", "DeleteTeam"}
      [] OTHER          -> op \in {"FindTeam", "Leave", "Use"}

TKey(r) == CASE treq[r].op = "ListTeams" -> List(treq[r].by)
             [] TAt(r, "FindTeam") \/ TAt(r, "show") \/ TAt(r, "shown") -> Detail
             [] OTHER                    -> Member(treq[r].by)

\* What comes after an answer: a view is returned, a role is checked.
TAnswered(r, role) == IF TKey(r)[1] # "member" THEN "done"
                      ELSE IF Allowed(treq[r].op, role) THEN treq[r].op ELSE "refused"

TAsk(r) ==
    /\ treq[r].pc \in {"guard", "ListTeams", "FindTeam"}
    /\ TGoto(r, CASE tcache[TKey(r)] # Absent -> TAnswered(r, tcache[TKey(r)])
                  [] TAt(r, "guard")          -> "look"
                  [] TAt(r, "ListTeams")      -> "lookList"
                  [] OTHER                    -> "show")
    /\ UNCHANGED <<Rows, tcache, History>>

There(u) == team = "active" /\ Role(u) # Absent

Found(r, pc) ==
    treq' = [treq EXCEPT ![r].pc = pc,
                         ![r].row = IF There(treq[r].by) THEN Role(treq[r].by) ELSE "none"]

\* The guard caches no membership that is not there; the relation to a deleted
\* team is empty, and the guard fails on it.
TLook(r) ==
    /\ TAt(r, "look")
    /\ Found(r, IF There(treq[r].by) THEN "fill" ELSE "refused")
    /\ UNCHANGED <<Rows, tcache, History>>

\* A user's list shows the teams he is in; the detail view shows, to whoever reads
\* it from the cache, the role of who read it first.
ListTeams(r) == TAt(r, "lookList") /\ Found(r, "fill") /\ UNCHANGED <<Rows, tcache, History>>

FindTeam(r) ==
    /\ TAt(r, "show") /\ Found(r, IF team = "active" THEN "shown" ELSE "refused")
    /\ UNCHANGED <<Rows, tcache, History>>

Current(u) == IF team = "active" THEN Role(u) ELSE Absent

\* A membership is put into the cache: by the guard, or "warmed" by who made it.
PutMembership(u, role) ==
    /\ tcache' = [tcache EXCEPT ![Member(u)] = role]
    /\ traced' = IF role = Current(u) THEN traced \ {u} ELSE traced \cup {u}

TFill(r) ==
    /\ treq[r].pc \in {"fill", "shown"}
    /\ IF TKey(r)[1] = "member" THEN PutMembership(treq[r].by, treq[r].row)
       ELSE tcache' = [tcache EXCEPT ![TKey(r)] = treq[r].row] /\ UNCHANGED traced
    /\ TGoto(r, TAnswered(r, treq[r].row))
    /\ UNCHANGED <<Rows, overwritten>>

\* A handler ends by deleting cached keys, one (or one set) after the other.
Finish(r, drops, then) ==
    treq' = [treq EXCEPT ![r].pc = "drop", ![r].drops = drops, ![r].then = then]

\* MembershipPattern: the keys of every member, deleted at once.
Everyone == {Member(u) : u \in TeamUsers}

DropKey(r) ==
    /\ TAt(r, "drop") /\ treq[r].drops # <<>>
    /\ LET gone == Head(treq[r].drops) IN
       /\ tcache' = [k \in Keys |-> IF k \in gone THEN Absent ELSE tcache[k]]
       /\ traced' = {u \in traced : Member(u) \notin gone}
    /\ treq' = [treq EXCEPT ![r].drops = Tail(@)]
    /\ UNCHANGED <<Rows, overwritten>>

AllDropped(r) ==
    /\ TAt(r, "drop") /\ treq[r].drops = <<>> /\ TGoto(r, treq[r].then)
    /\ UNCHANGED <<Rows, tcache, History>>

KeyLapses(k) ==
    /\ tcache[k] # Absent
    /\ tcache' = [tcache EXCEPT ![k] = Absent]
    /\ traced' = {u \in traced : Member(u) # k}
    /\ UNCHANGED <<Rows, treq, overwritten>>

-----------------------------------------------------------------------------
(* Members.                                                                *)

\* save() of a row read before: it is written over, or inserted when it is gone,
\* unless the user has joined anew, as the pair of team and user is unique.
Fails(u, row) == member[u] # Absent /\ member[u].id # row.id

\* remove() deletes by id.
Without(u, row) == IF Fails(u, row) THEN member[u] ELSE Absent

Refuse(r) == TGoto(r, "refused")

\* A handler reads the row of a member, and goes on if it is there and all right.
Read(r, u, pc, ok, then) ==
    /\ TAt(r, pc)
    /\ IF member[u] # Absent /\ ok
         THEN treq' = [treq EXCEPT ![r].pc = then, ![r].other = treq[r].row,
                                   ![r].row = member[u]]
         ELSE Refuse(r)
    /\ UNCHANGED <<Rows, tcache, History>>

\* Mutant of NotOwner: the owner may leave, be removed and be given a role.
NotOwnerForgotten(u) == TRUE

NotOwner(u) == Role(u) # "OWNER"

Other(r) == treq[r].target # treq[r].by

UpdateRole(r) == Read(r, treq[r].by, "UpdateRole", TRUE, "findTarget")

FindTarget(r) ==
    Read(r, treq[r].target, "findTarget",
         NotOwner(treq[r].target) /\ Other(r) /\ treq[r].role # "OWNER", "saveRole")

\* The rows are saved together, or none is.
Save(r, read, rows, drops) ==
    LET fails == \E u \in DOMAIN rows : Fails(u, rows[u]) IN
    /\ member' = IF fails THEN member
                 ELSE [u \in TeamUsers |-> IF u \in DOMAIN rows THEN rows[u] ELSE member[u]]
    /\ overwritten' = (overwritten \/ (~fails /\ \E u \in DOMAIN rows : member[u] # read[u]))
    /\ IF fails THEN Refuse(r) ELSE Finish(r, drops, "done")
    /\ UNCHANGED <<invitation, team, tcache, traced>>

SaveTarget(r, drops) ==
    LET u == treq[r].target  row == treq[r].row IN
    /\ TAt(r, "saveRole")
    /\ Save(r, [x \in {u} |-> row], [x \in {u} |-> [row EXCEPT !.role = treq[r].role]], drops)

\* Mutant of SaveRole: the cached membership is left to lapse.
SaveRoleOnly(r) == SaveTarget(r, <<>>)

SaveRole(r) == SaveTarget(r, <<{Member(treq[r].target)}>>)

RemoveMember(r) ==
    Read(r, treq[r].target, "RemoveMember", NotOwner(treq[r].target) /\ Other(r), "remove")

Leave(r) == Read(r, treq[r].by, "Leave", NotOwner(treq[r].by), "leave")

RemoveRow(r) ==
    LET u == IF TAt(r, "leave") THEN treq[r].by ELSE treq[r].target  row == treq[r].row IN
    /\ treq[r].pc \in {"remove", "leave"}
    /\ member' = [member EXCEPT ![u] = Without(u, row)]
    /\ overwritten' = (overwritten \/ ~(Fails(u, row) \/ member[u] \in {row, Absent}))
    /\ Finish(r, <<{Member(u)}, {List(u)}>>, "done")
    /\ UNCHANGED <<invitation, team, tcache, traced>>

Transfer(r) ==
    Read(r, treq[r].by, "Transfer", Role(treq[r].by) = "OWNER", "findNewOwner")

FindNewOwner(r) == Read(r, treq[r].target, "findNewOwner", Other(r), "saveOwners")

SaveOwners(r) ==
    LET by == treq[r].by  to == treq[r].target  old == treq[r].other  new == treq[r].row IN
    /\ TAt(r, "saveOwners")
    /\ Save(r, [u \in {by, to} |-> IF u = by THEN old ELSE new],
            [u \in {by, to} |-> IF u = by THEN [old EXCEPT !.role = "ADMIN"]
                                ELSE [new EXCEPT !.role = "OWNER"]],
            <<{Member(by)}, {Member(to)}>>)

-----------------------------------------------------------------------------
(* The team itself.                                                        *)

\* The slug is unique, deleted teams included; team and owner in one transaction.
CreateTeam(r) ==
    /\ TAt(r, "CreateTeam")
    /\ IF team = "none"
         THEN /\ team' = "active"
              /\ member' = [member EXCEPT ![treq[r].by] = [id |-> r, role |-> "OWNER"]]
              /\ treq' = [treq EXCEPT ![r].pc = "drop", ![r].then = "warm", ![r].row = "OWNER",
                                      ![r].drops = <<{List(treq[r].by)}>>]
         ELSE Refuse(r) /\ UNCHANGED <<team, member>>
    /\ UNCHANGED <<invitation, tcache, History>>

Warm(r) ==
    /\ TAt(r, "warm")
    /\ PutMembership(treq[r].by, treq[r].row) /\ TGoto(r, "done")
    /\ UNCHANGED <<Rows, overwritten>>

\* Name, description and image: what is saved matters to nobody else here.
UpdateTeam(r) ==
    /\ TAt(r, "UpdateTeam")
    /\ IF team = "active" THEN Finish(r, <<{Detail}, Everyone>>, "done") ELSE Refuse(r)
    /\ UNCHANGED <<Rows, tcache, History>>

DeleteTeam(r) ==
    Read(r, treq[r].by, "DeleteTeam", Role(treq[r].by) = "OWNER", "softDelete")

\* softDelete; then the members' lists (all at once), the detail, the memberships.
SoftDelete(r) ==
    /\ TAt(r, "softDelete")
    /\ IF team = "active" THEN team' = "deleted" /\ TGoto(r, "findMembers")
       ELSE UNCHANGED team /\ Refuse(r)
    /\ UNCHANGED <<member, invitation, tcache, History>>

FindMembers(r) ==
    /\ TAt(r, "findMembers")
    /\ Finish(r, <<{List(u) : u \in {v \in TeamUsers : member[v] # Absent}},
                   {Detail}, Everyone>>, "done")
    /\ UNCHANGED <<Rows, tcache, History>>

-----------------------------------------------------------------------------
(* Invitations.                                                            *)

Pending(i) == invitation[i] # Absent /\ invitation[i].status = "PENDING"

Invite(r) ==
    /\ TAt(r, "Invite")
    /\ TGoto(r, IF /\ member[treq[r].target] = Absent /\ team = "active"
                   /\ treq[r].role # "OWNER"
                THEN "invite" ELSE "refused")
    /\ UNCHANGED <<Rows, tcache, History>>

\* One pending invitation per team and address.
SaveNewInvitation(r) ==
    LET taken == \E i \in DOMAIN invitation : Pending(i) /\ invitation[i].to = treq[r].target
    IN
    /\ TAt(r, "invite")
    /\ invitation' = IF taken THEN invitation
                     ELSE [invitation EXCEPT ![r] =
                              [to |-> treq[r].target, role |-> treq[r].role,
                               status |-> "PENDING", late |-> FALSE]]
    /\ TGoto(r, IF taken THEN "refused" ELSE "done")
    /\ UNCHANGED <<member, team, tcache, History>>

InvitationExpires(i) ==
    /\ Pending(i) /\ ~invitation[i].late
    /\ invitation' = [invitation EXCEPT ![i].late = TRUE]
    /\ UNCHANGED <<member, team, tcache, treq, History>>

\* CancelInvitation, Decline and Accept find it pending and save what they found.
FindInvitation(r) ==
    LET i == treq[r].inv IN
    /\ treq[r].pc \in {"CancelInvitation", "Decline", "Accept"}
    /\ IF Pending(i) /\ (CASE treq[r].op = "CancelInvitation" -> TRUE
                           [] treq[r].op = "Decline" -> invitation[i].to = treq[r].by
                           [] OTHER -> invitation[i].late
                                         \/ (invitation[i].to = treq[r].by /\ team = "active"))
         THEN treq' = [treq EXCEPT
                  ![r].row = invitation[i],
                  ![r].pc  = CASE treq[r].op = "CancelInvitation" -> "CANCELLED"
                               [] treq[r].op = "Decline"          -> "DECLINED"
                               [] invitation[i].late              -> "EXPIRED"
                               [] OTHER                           -> "join"]
         ELSE Refuse(r)
    /\ UNCHANGED <<Rows, tcache, History>>

SaveInvitation(r) ==
    /\ treq[r].pc \in {"CANCELLED", "DECLINED", "EXPIRED", "ACCEPTED", "known"}
    /\ invitation' = [invitation EXCEPT ![treq[r].inv].status =
           IF TAt(r, "known") THEN "ACCEPTED" ELSE treq[r].pc]
    /\ CASE TAt(r, "ACCEPTED") -> treq' = [treq EXCEPT
                 ![r].pc = "drop", ![r].drops = <<{List(treq[r].by)}, {Detail}>>,
                 ![r].then = "warm", ![r].row = treq[r].row.role]
         [] treq[r].pc \in {"EXPIRED", "known"} -> Refuse(r)
         [] OTHER -> TGoto(r, "done")
    /\ UNCHANGED <<member, team, tcache, History>>

\* Accept looks for a membership before it creates one.
FindMembership(r) ==
    /\ TAt(r, "join")
    /\ TGoto(r, IF member[treq[r].by] # Absent THEN "known" ELSE "insert")
    /\ UNCHANGED <<Rows, tcache, History>>

\* A membership that was created meanwhile makes the insert fail.
Join(r) ==
    LET u == treq[r].by IN
    /\ TAt(r, "insert")
    /\ IF member[u] = Absent
         THEN /\ member' = [member EXCEPT ![u] = [id |-> r, role |-> treq[r].row.role]]
              /\ TGoto(r, "ACCEPTED")
         ELSE Refuse(r) /\ UNCHANGED member
    /\ UNCHANGED <<invitation, team, tcache, History>>

UseTeam(r) ==
    /\ TAt(r, "Use") /\ TGoto(r, "done") /\ UNCHANGED <<Rows, tcache, History>>

-----------------------------------------------------------------------------

TeamStep(r) ==
    \/ TeamStart(r) \/ TAsk(r) \/ TLook(r) \/ ListTeams(r) \/ FindTeam(r) \/ TFill(r) \/ DropKey(r) \/ AllDropped(r)
    \/ UpdateRole(r) \/ FindTarget(r) \/ SaveRole(r) \/ RemoveMember(r) \/ Leave(r)
    \/ RemoveRow(r) \/ Transfer(r) \/ FindNewOwner(r) \/ SaveOwners(r)
    \/ CreateTeam(r) \/ Warm(r) \/ UpdateTeam(r) \/ DeleteTeam(r) \/ SoftDelete(r)
    \/ FindMembers(r) \/ Invite(r) \/ SaveNewInvitation(r) \/ FindInvitation(r) \/ SaveInvitation(r)
    \/ FindMembership(r) \/ Join(r) \/ UseTeam(r)

TeamNext ==
    \/ \E r \in TeamRequests : TeamStep(r)
    \/ \E k \in Keys : KeyLapses(k)
    \/ \E i \in DOMAIN invitation : InvitationExpires(i)

TeamSpec == TeamInit /\ [][TeamNext]_teamVars

-----------------------------------------------------------------------------

(* A team has exactly one owner, whatever the requests and their order, as  *)
(* long as no request saves or removes a row that was changed after it had  *)
(* read it (the reads and saves of team-member.service.ts:42-184).          *)
OneOwnerUnlessOverwritten == team # "none" /\ ~overwritten => OneOwner(member)

Dropping(u) ==
    \E r \in TeamRequests :
       \/ TAt(r, "findMembers")
       \/ TAt(r, "drop") /\ \E i \in DOMAIN treq[r].drops : Member(u) \in treq[r].drops[i]

(* The role the guard finds in the cache is the member's, but while the     *)
(* request that changed it is about to delete the key, or when the role was *)
(* read before the change and cached after the delete                       *)
(* (team-context.guard.ts:55-82, team-invitation.service.ts:217).           *)
CachedRoleIsCurrent ==
    \A u \in TeamUsers :
       tcache[Member(u)] \in {Absent, Current(u)} \/ u \in traced \/ Dropping(u)
=============================================================================
