----------------------------- MODULE Membership -----------------------------
(***************************************************************************)
(* The campaigns of one organization, who is a member of them, and what    *)
(* ZITADEL is told about it: creation, self-registration, role changes,    *)
(* removal, transfer of ownership, status and deletion.  The database      *)
(* decides, but every operation also calls ZITADEL, whose grants are the   *)
(* user's in the whole organization, and calls it before its own commit:   *)
(* what fails in between is compensated, or is not.  Whoever carries a     *)
(* token of the organization is made a member by any request               *)
(* (ensure_user_synced).  ZITADEL is external.                             *)
(***************************************************************************)
EXTENDS Integers, FiniteSets

CONSTANTS
  User,
  Home,      \* users whose home organization in ZITADEL is this one
  Campaign,  \* ids that campaigns may get
  Founder, First, \* the user and the campaign there is to begin with
  Slot,      \* requests that may be in flight together
  Given,     \* bound: roles given by hand
  Asks,      \* bound: requests; no token is renewed after the last
  Fails,     \* bound: calls, commits and processes that fail
  None

\* The roles and their order; a manager can do what a volunteer can, here.
Level  == [none |-> -1, viewer |-> 0, volunteer |-> 1, admin |-> 3, owner |-> 4]
Role   == DOMAIN Level \ {"none"}
Status == {"active", "suspended", "archived", "deleted"}

ASSUME MembershipAssumption ==
  /\ Home \subseteq User
  /\ Founder \in User /\ First \in Campaign
  /\ IsFiniteSet(Campaign)
  /\ Given \subseteq Role
  /\ Asks \in Nat /\ Fails \in Nat
  /\ None \notin User \cup Campaign

VARIABLES
  status,  \* campaigns: status; "none": no such campaign
  owner,   \* campaigns: created_by, whom an ownership transfer changes
  member,  \* campaign_members: role of each user in each campaign
  seat,    \* organization_members: role
  grant,   \* ZITADEL: the roles granted to a user in the organization
  token,   \* the role in the user's token; "none": it does not name the organization
  org,     \* ZITADEL: is the organization active?
  req,     \* the requests in flight: how far each is and what it has read
  asks, fails, \* requests and failures left
  raced,   \* history: campaigns handed over to somebody being removed
  astray,  \* history: users with a grant that a failure or an overlap has left
  lapsed   \* history: did a deletion act on a stale count, or its last call fail,
           \* or a campaign appear in an ended organization, or come back?

vars == <<status, owner, member, seat, grant, token, org, req, asks, fails,
          raced, astray, lapsed>>
campaigns == <<status, owner>>
people    == <<member, seat, token>>
zitadel   == <<grant, org>>
history   == <<raced, astray, lapsed>>

Idle == [kind |-> "none", at |-> "idle", by |-> None, c |-> None, to |-> None,
         role |-> "none", view |-> "none", gone |-> FALSE, owner |-> None, saw |-> {}]

\* As create_campaign left it, the founder's token still older.
Init ==
  /\ status = [c \in Campaign |-> IF c = First THEN "active" ELSE "none"]
  /\ owner = [c \in Campaign |-> IF c = First THEN Founder ELSE None]
  /\ member = [c \in Campaign |-> [u \in User |->
                 IF c = First /\ u = Founder THEN "owner" ELSE "none"]]
  /\ seat = [u \in User |-> "none"]
  /\ grant = [u \in User |-> IF u = Founder THEN {"owner"} ELSE {}]
  /\ token = [u \in User |-> IF u \in Home THEN "viewer" ELSE "none"]
  /\ org = TRUE
  /\ req = [s \in Slot |-> Idle]
  /\ asks = Asks
  /\ fails = Fails
  /\ raced = {} /\ astray = {} /\ lapsed = FALSE

Existing == {c \in Campaign : status[c] # "none"}
Live     == {c \in Existing : status[c] # "deleted"}

-----------------------------------------------------------------------------
(* Requests *)

At(s, kind, at) == req[s].kind = kind /\ req[s].at = at
Goes(s, at) == req' = [req EXCEPT ![s].at = at]
Ends(s) == req' = [req EXCEPT ![s] = Idle]
Fail == fails > 0 /\ fails' = fails - 1

\* A request is admitted, and has read what it decides on.
Free(s) == req[s] = Idle /\ asks > 0
Asked(s, r) ==
  /\ Free(s)
  /\ asks' = asks - 1
  /\ req' = [req EXCEPT ![s] = r]

\* A deletion keeps the campaign's row locked until it commits, a registration
\* the key of its member.
RowFree(c) == \A s \in Slot : At(s, "delete", "flushed") => req[s].c # c
KeyFree(c, u) ==
  \A s \in Slot : At(s, "join", "read") \/ At(s, "join", "asked")
                    => req[s].c # c \/ req[s].by # u

\* What a request of u finds missing: rows for the campaigns of its token's
\* organization, a seat for its owners and admins.
Missing(u) == IF token[u] = "none" THEN {}
              ELSE {c \in Existing : member[c][u] = "none"}
Unseated(u) == seat[u] = "none" /\ token[u] \in {"owner", "admin"}
Synced(u) == Missing(u) = {} /\ ~Unseated(u)

SyncedRow(c, u) == IF c \in Missing(u) THEN token[u] ELSE member[c][u]

\* Mutant: the campaign role's name is taken for the organization's.
SeatOfCampaignRole(role) == role
SeatOf(role) == IF role = "owner" THEN "org_owner" ELSE "org_admin"

EnsureUserSynced(u) ==
  /\ ~Synced(u)
  /\ \A c \in Missing(u) : KeyFree(c, u)
  /\ member' = [c \in Campaign |-> [member[c] EXCEPT ![u] = SyncedRow(c, u)]]
  /\ seat' = IF Unseated(u) THEN [seat EXCEPT ![u] = SeatOf(token[u])] ELSE seat
  /\ UNCHANGED <<campaigns, zitadel, token, req, asks, fails, history>>

\* The better one of the member's role and, at home, what the seat amounts to.
SeatLevel(u) ==
  IF u \notin Home \/ seat[u] = "none" THEN -1
  ELSE IF seat[u] = "org_owner" THEN Level["owner"] ELSE Level["admin"]
Effective(c, u) ==
  IF SeatLevel(u) > Level[member[c][u]] THEN SeatLevel(u) ELSE Level[member[c][u]]
May(u, c, role) == c \in Existing /\ Synced(u) /\ Effective(c, u) >= Level[role]

-----------------------------------------------------------------------------
(* ZITADEL *)

\* The token is renewed and shows the best role granted by then.
Best(roles) == CHOOSE r \in roles : \A q \in roles : Level[q] <= Level[r]
RenewToken(u) ==
  /\ asks > 0
  /\ token' = [token EXCEPT ![u] =
       IF grant[u] # {} THEN Best(grant[u]) ELSE IF u \in Home THEN "viewer" ELSE "none"]
  /\ token' # token
  /\ UNCHANGED <<campaigns, member, seat, zitadel, req, asks, fails, history>>

\* A second grant may be refused as existing already, which counts as success.
Assign(g, u, r) ==
  {[g EXCEPT ![u] = @ \cup {r}]} \cup (IF g[u] = {} THEN {} ELSE {g})
Revoke(g, u, r) == [g EXCEPT ![u] = @ \ {r}]
RevokeAll(g, s)  == [g EXCEPT ![req[s].to] = {}]

\* Somebody is about to lose the row and has already lost the grants.
BeingRemoved(u) == \E s \in Slot : At(s, "remove", "asked") /\ req[s].to = u

-----------------------------------------------------------------------------
(* Creation *)

\* The slug is one that no campaign has.
CreateRead(s, u) ==
  /\ Synced(u)
  /\ token[u] # "none"
  /\ \E c \in Campaign \ Existing :
       /\ \A q \in Slot : req[q].c # c
       /\ Asked(s, [Idle EXCEPT !.kind = "create", !.at = "read", !.by = u, !.c = c])
  /\ UNCHANGED <<campaigns, people, zitadel, fails, history>>

\* The grant is asked for before anything is committed.
CreateAssign(s) ==
  /\ At(s, "create", "read") \/ At(s, "create", "again")
  /\ \/ grant' \in Assign(grant, req[s].by, "owner") /\ Goes(s, "asked") /\ UNCHANGED fails
     \/ /\ grant' \in {grant} \cup Assign(grant, req[s].by, "owner")
        /\ Goes(s, "undo")
        /\ Fail
  /\ UNCHANGED <<campaigns, people, org, asks, history>>

CreateCommit(s) ==
  LET c == req[s].c
      u == req[s].by
  IN  /\ At(s, "create", "asked")
      /\ status' = [status EXCEPT ![c] = "active"]
      /\ owner' = [owner EXCEPT ![c] = u]
      /\ member' = [member EXCEPT ![c][u] = "owner"]
      /\ lapsed' = (lapsed \/ ~org \/ \E q \in Slot : At(q, "delete", "deactivate"))
      /\ Ends(s)
      /\ UNCHANGED <<seat, token, zitadel, asks, fails, raced, astray>>

\* Another campaign, of whatever organization, has got the slug since: the commit
\* fails and everything is done again, with another slug; the grant stays.
CreateCollides(s) ==
  /\ At(s, "create", "asked")
  /\ Goes(s, "again")
  /\ Fail
  /\ UNCHANGED <<campaigns, people, zitadel, asks, history>>

-----------------------------------------------------------------------------
(* Members *)

\* Registering through the campaign's link; the row is flushed before ZITADEL
\* is asked.
JoinFlush(s, u, c) ==
  /\ status[c] = "active"
  /\ member[c][u] = "none"
  /\ KeyFree(c, u)
  /\ Asked(s, [Idle EXCEPT !.kind = "join", !.at = "read", !.by = u, !.c = c])
  /\ UNCHANGED <<campaigns, people, zitadel, fails, history>>

\* Without an answer the registration is rolled back, and that is all.
JoinAssign(s) ==
  LET u == req[s].by
  IN  /\ At(s, "join", "read")
      /\ \/ grant' \in Assign(grant, u, "volunteer") /\ Goes(s, "asked") /\ UNCHANGED <<fails, astray>>
         \/ /\ grant' \in {grant} \cup Assign(grant, u, "volunteer")
            /\ astray' = astray \cup {u}
            /\ Ends(s)
            /\ Fail
      /\ UNCHANGED <<campaigns, people, org, asks, raced, lapsed>>

JoinCommit(s) ==
  /\ At(s, "join", "asked")
  /\ member' = [member EXCEPT ![req[s].c][req[s].by] = "volunteer"]
  /\ Ends(s)
  /\ UNCHANGED <<campaigns, seat, token, zitadel, asks, fails, history>>

\* An organization's admin adds one of its members: ZITADEL is not told.
AddMember(u, c, t) ==
  /\ asks > 0
  /\ asks' = asks - 1
  /\ Synced(u) /\ token[u] # "none" /\ seat[u] # "none" /\ seat[t] # "none"
  /\ c \in Existing
  /\ member[c][t] = "none"
  /\ KeyFree(c, t)
  /\ \E r \in Given : member' = [member EXCEPT ![c][t] = r]
  /\ UNCHANGED <<campaigns, seat, token, zitadel, req, fails, history>>

\* An owner gives any role but that one, an admin one below admin; whose role
\* it is does not matter.
RoleRead(s, u, c, t) ==
  /\ May(u, c, "admin")
  /\ member[c][t] # "none"
  /\ \E r \in Given \ {"owner"} :
       /\ Effective(c, u) < Level["owner"] => Level[r] < Level["admin"]
       /\ Asked(s, [Idle EXCEPT !.kind = "role", !.at = "read", !.by = u, !.c = c,
                      !.to = t, !.role = r, !.view = member[c][t]])
  /\ UNCHANGED <<campaigns, people, zitadel, fails, history>>

\* ZITADEL's part is best effort.
RoleAssign(s) ==
  LET t == req[s].to
      after == [grant EXCEPT ![t] = {req[s].role}]
  IN  /\ At(s, "role", "read")
      /\ \/ grant' = after /\ UNCHANGED fails
            /\ astray' = IF BeingRemoved(t) THEN astray \cup {t} ELSE astray
         \/ /\ grant' \in {grant, [grant EXCEPT ![t] = {}], after}
            /\ astray' = astray \cup {t}
            /\ Fail
      /\ Goes(s, "asked")
      /\ UNCHANGED <<campaigns, people, org, asks, raced, lapsed>>

\* Only a role that differs from the one read is written; a row that is gone
\* makes the commit fail, and nothing is undone.
RoleCommit(s) ==
  LET t == req[s].to
      c == req[s].c
      writes == req[s].role # req[s].view /\ ~req[s].gone
  IN  /\ At(s, "role", "asked")
      /\ member' = IF writes THEN [member EXCEPT ![c][t] = req[s].role] ELSE member
      /\ astray' = IF req[s].gone THEN astray \cup {t} ELSE astray
      /\ Ends(s)
      /\ UNCHANGED <<campaigns, seat, token, zitadel, asks, fails, raced, lapsed>>

\* Mutant: it is the role that tells an owner.
RemovableByRole(c, t) == member[c][t] # "owner"
Removable(c, t) == owner[c] # t
RemoveRead(s, u, c, t) ==
  /\ May(u, c, "admin")
  /\ Removable(c, t)
  /\ member[c][t] # "none"
  /\ Asked(s, [Idle EXCEPT !.kind = "remove", !.at = "read", !.by = u, !.c = c,
                 !.to = t, !.view = member[c][t]])
  /\ UNCHANGED <<campaigns, people, zitadel, fails, history>>

RemoveRevoke(s) ==
  /\ At(s, "remove", "read")
  /\ \/ grant' = RevokeAll(grant, s) /\ UNCHANGED <<fails, astray>>
     \/ /\ grant' \in {grant, RevokeAll(grant, s)}
        /\ astray' = astray \cup {req[s].to}
        /\ Fail
  /\ Goes(s, "asked")
  /\ UNCHANGED <<campaigns, people, org, asks, raced, lapsed>>

\* The row that was read goes, and with it what others hold of it; a newer row
\* of the same member stays.
RemoveCommit(s) ==
  LET c == req[s].c
      t == req[s].to
  IN  /\ At(s, "remove", "asked")
      /\ member' = IF req[s].gone THEN member ELSE [member EXCEPT ![c][t] = "none"]
      /\ req' = [q \in Slot |->
           IF q = s THEN Idle
           ELSE IF req[q].c = c /\ req[q].to = t THEN [req[q] EXCEPT !.gone = TRUE]
           ELSE req[q]]
      /\ UNCHANGED <<campaigns, seat, token, zitadel, asks, fails, history>>

-----------------------------------------------------------------------------
(* Transfer of ownership *)

TransferRead(s, u, c, t) ==
  /\ May(u, c, "owner")
  /\ member[c][t] # "none"
  /\ Asked(s, [Idle EXCEPT !.kind = "transfer", !.at = "read", !.by = u, !.c = c,
                 !.to = t, !.view = member[c][t], !.owner = owner[c]])
  /\ UNCHANGED <<campaigns, people, zitadel, fails, history>>

\* Four calls, the first failure ends them.
TransferAssign(s) ==
  LET u == req[s].by
      t == req[s].to
      g1 == Revoke(grant, u, "owner")
  IN  /\ At(s, "transfer", "read")
      /\ \E g2 \in Assign(g1, u, "admin") :
           LET g3 == Revoke(g2, t, req[s].view)
           IN  \E g4 \in Assign(g3, t, "owner") :
                 \/ /\ grant' = g4
                    /\ astray' = astray \cup {v \in {u, t} : BeingRemoved(v)}
                    /\ UNCHANGED fails
                 \/ /\ grant' \in {grant, g1, g2, g3, g4}
                    /\ astray' = astray \cup {u, t}
                    /\ Fail
      /\ Goes(s, "asked")
      /\ UNCHANGED <<campaigns, people, org, asks, raced, lapsed>>

\* The new owner's row is written unless it was an owner's when it was read.
NewOwnerStays(s) ==
  req[s].view = "owner" \/ ~req[s].gone

\* created_by is written unless it was the new owner when it was read.
TransferCommit(s) ==
  LET u == req[s].by
      t == req[s].to
      c == req[s].c
  IN  /\ At(s, "transfer", "asked")
      /\ req[s].owner # t => RowFree(c)
      /\ member[c][u] # "none"
      /\ NewOwnerStays(s)
      /\ owner' = IF req[s].owner = t THEN owner ELSE [owner EXCEPT ![c] = t]
      /\ member' = [member EXCEPT ![c] = [v \in User |->
           CASE v = t -> IF req[s].view = "owner" THEN @[v] ELSE "owner"
             [] v = u /\ v # t -> "admin"
             [] OTHER -> @[v]]]
      /\ raced' = IF \/ \E q \in Slot : /\ req[q].kind = "remove"
                                        /\ req[q].c = c /\ req[q].to = t
                     \/ req[s].gone
                  THEN raced \cup {c} ELSE raced
      /\ astray' = IF req[s].gone THEN astray \cup {t} ELSE astray
      /\ Ends(s)
      /\ UNCHANGED <<status, seat, token, zitadel, asks, fails, lapsed>>

\* The acting owner's row is gone: an error, and nothing is undone, not even for
\* a new owner whose row is gone, too.
TransferAborts(s) ==
  /\ At(s, "transfer", "asked")
  /\ member[req[s].c][req[s].by] = "none"
  /\ astray' = astray \cup {req[s].by} \cup (IF req[s].gone THEN {req[s].to} ELSE {})
  /\ Ends(s)
  /\ UNCHANGED <<campaigns, people, zitadel, asks, fails, raced, lapsed>>

\* The new owner's row is gone: the commit fails in its flush, which expires the
\* campaign whose id the handler logs first, so that none of its calls is made.
TransferMisses(s) ==
  /\ At(s, "transfer", "asked")
  /\ member[req[s].c][req[s].by] # "none"
  /\ ~NewOwnerStays(s)
  /\ astray' = astray \cup {req[s].to}
  /\ Ends(s)
  /\ UNCHANGED <<campaigns, people, zitadel, asks, fails, raced, lapsed>>

-----------------------------------------------------------------------------
(* Failure and compensation *)

\* A commit fails for no reason of the model's, its flush done.  A registration
\* reads its campaign once more after the rollback has expired it, and so takes
\* nothing back: that it fails is Dies.
CommitFails(s) ==
  /\ req[s].kind \in {"create", "transfer"}
  /\ req[s].at = "asked"
  /\ Goes(s, "undo")
  /\ Fail
  /\ UNCHANGED <<campaigns, people, zitadel, asks, history>>

\* Who is being or has been removed: a transfer gives them back the grants they had.
Leavers(s) == {u \in {req[s].by, req[s].to} :
                 member[req[s].c][u] = "none" \/ BeingRemoved(u)}

\* What ZITADEL was asked for is taken back call by call; the one that fails,
\* if any, keeps none of the others from being made.
\* Mutant: nothing is taken back.
TakenBackNever(s, failing) == {grant}
TakenBack(s, failing) ==
  LET u == req[s].by
      t == req[s].to
      Without(i, g, v, r) == IF i = failing THEN g ELSE Revoke(g, v, r)
      With(i, g, v, r)    == IF i = failing THEN {g} ELSE Assign(g, v, r)
  IN  CASE req[s].kind = "create" -> {Without(1, grant, u, "owner")}
        [] OTHER -> UNION {With(4, Without(3, g, u, "admin"), u, "owner") :
                             g \in With(2, Without(1, grant, t, "owner"), t, req[s].view)}

Undo(s) ==
  /\ req[s].at = "undo"
  /\ \/ /\ grant' \in TakenBack(s, 0)
        /\ astray' = astray \cup (IF req[s].kind = "transfer" THEN Leavers(s) ELSE {})
        /\ UNCHANGED fails
     \/ /\ \E failing \in 0..4 : grant' \in TakenBack(s, failing)
        /\ astray' = astray \cup ({req[s].by, req[s].to} \cap User)
        /\ Fail
  /\ Ends(s)
  /\ UNCHANGED <<campaigns, people, org, asks, raced, lapsed>>

\* The process dies, or a commit fails after which nothing is taken back.
Dies(s) ==
  /\ req[s] # Idle
  /\ Fail
  /\ Ends(s)
  /\ astray' = IF req[s].at \in {"asked", "again", "undo"}
               THEN astray \cup ({req[s].by, req[s].to} \cap User) ELSE astray
  /\ lapsed' = (lapsed \/ req[s].at = "deactivate")
  /\ UNCHANGED <<campaigns, people, zitadel, asks, raced>>

-----------------------------------------------------------------------------
(* Status and deletion *)

Transitions == {<<"active", "suspended">>, <<"active", "archived">>,
                <<"suspended", "active">>}

StatusRead(s, u, c) ==
  /\ May(u, c, "admin")
  /\ \E move \in Transitions :
       /\ status[c] = move[1]
       /\ Asked(s, [Idle EXCEPT !.kind = "status", !.at = "read", !.by = u, !.c = c,
                      !.role = move[2], !.view = status[c]])
  /\ UNCHANGED <<campaigns, people, zitadel, fails, history>>

\* The transition was checked on what was read.
StatusCommit(s) ==
  LET c == req[s].c
  IN  /\ At(s, "status", "read")
      /\ RowFree(c)
      /\ status' = [status EXCEPT ![c] = req[s].role]
      /\ lapsed' = (lapsed \/ status[c] # req[s].view)
      /\ Ends(s)
      /\ UNCHANGED <<owner, people, zitadel, asks, fails, raced, astray>>

\* Mutant: deleted siblings count as well.
SiblingsOfAnyStatus(c) == Existing \ {c}
Siblings(c) == Live \ {c}

\* The count flushes the new status, so the row is locked until the commit.
DeleteFlush(s, u, c) ==
  /\ May(u, c, "owner")
  /\ owner[c] = u
  /\ RowFree(c)
  /\ Asked(s, [Idle EXCEPT !.kind = "delete", !.at = "flushed", !.by = u, !.c = c,
                 !.saw = Siblings(c)])
  /\ UNCHANGED <<campaigns, people, zitadel, fails, history>>

DeleteCommit(s) ==
  /\ At(s, "delete", "flushed")
  /\ status' = [status EXCEPT ![req[s].c] = "deleted"]
  /\ IF req[s].saw = {} THEN Goes(s, "deactivate") ELSE Ends(s)
  /\ lapsed' = (lapsed \/ (req[s].saw = {}) # (Siblings(req[s].c) = {}))
  /\ UNCHANGED <<owner, people, zitadel, asks, fails, raced, astray>>

\* Best effort.
Deactivate(s) ==
  /\ At(s, "delete", "deactivate")
  /\ \/ org' = FALSE /\ UNCHANGED <<fails, lapsed>>
     \/ org' \in {org, FALSE} /\ lapsed' = TRUE /\ Fail
  /\ Ends(s)
  /\ UNCHANGED <<campaigns, people, grant, asks, raced, astray>>

-----------------------------------------------------------------------------
Next ==
  \/ \E u \in User :
       \/ EnsureUserSynced(u) \/ RenewToken(u)
       \/ \E c \in Campaign, t \in User : AddMember(u, c, t)
  \/ \E s \in Slot :
       \/ Free(s) /\ \E u \in User :
            \/ CreateRead(s, u)
            \/ \E c \in Campaign :
                 \/ JoinFlush(s, u, c) \/ StatusRead(s, u, c) \/ DeleteFlush(s, u, c)
                 \/ \E t \in User : \/ RoleRead(s, u, c, t) \/ RemoveRead(s, u, c, t)
                                    \/ TransferRead(s, u, c, t)
       \/ CreateAssign(s) \/ CreateCommit(s) \/ CreateCollides(s)
       \/ JoinAssign(s) \/ JoinCommit(s)
       \/ RoleAssign(s) \/ RoleCommit(s)
       \/ RemoveRevoke(s) \/ RemoveCommit(s)
       \/ TransferAssign(s) \/ TransferCommit(s) \/ TransferAborts(s) \/ TransferMisses(s)
       \/ CommitFails(s) \/ Undo(s) \/ Dies(s)
       \/ StatusCommit(s) \/ DeleteCommit(s) \/ Deactivate(s)

Spec == Init /\ [][Next]_vars

-----------------------------------------------------------------------------
(* Properties *)

\* Every variable has its type.
TypeOK ==
  /\ status \in [Campaign -> Status \cup {"none"}]
  /\ owner \in [Campaign -> User \cup {None}]
  /\ member \in [Campaign -> [User -> Role \cup {"none"}]]
  /\ seat \in [User -> {"none", "org_admin", "org_owner"}]
  /\ grant \in [User -> SUBSET Role]
  /\ token \in [User -> Role \cup {"none"}]
  /\ org \in BOOLEAN
  /\ req \in [Slot ->
       [kind: {"none", "create", "join", "role", "remove", "transfer", "status", "delete"},
        at: {"idle", "read", "asked", "again", "undo", "flushed", "deactivate"},
        by: User \cup {None}, c: Campaign \cup {None}, to: User \cup {None},
        role: Role \cup Status \cup {"none"}, view: Role \cup Status \cup {"none"},
        gone: BOOLEAN,
        owner: User \cup {None}, saw: SUBSET Campaign]]
  /\ asks \in 0..Asks /\ fails \in 0..Fails
  /\ raced \subseteq Campaign /\ astray \subseteq User /\ lapsed \in BOOLEAN

\* Whoever a campaign belongs to is a member of it, "Cannot remove owner",
\* unless a removal was under way, or over, when the campaign was handed over.
CreatorIsMember ==
  \A c \in Existing \ raced : member[c][owner[c]] # "none"

\* Nobody keeps a grant in the organization without a place in one of its
\* campaigns once the requests about them are over, though creations and
\* transfers fail at their commit; but a registration that fails there, whose
\* "attempt to remove the orphaned role" is never made, a failing call, a process
\* that dies, a commit that finds its row gone, and a grant made between the two
\* halves of a removal leave some.
GrantHasMember ==
  \A u \in User \ astray :
    (\A s \in Slot : u \notin {req[s].by, req[s].to}) /\ grant[u] # {}
      => \E c \in Campaign : member[c][u] # "none"

\* The organization is active exactly as long as one of its campaigns is not
\* deleted, "only deactivate ZITADEL org if no other active campaigns share it",
\* however deletions overlap with creations and with each other; but the count a
\* deletion acts on may not be true any more when it commits, a campaign appear in
\* an organization that is ending or has ended, the last call fail, or a status be
\* written on an outdated read, which brings a deleted campaign back.
OrgFollowsCampaigns ==
  ~lapsed /\ (\A s \in Slot : ~At(s, "delete", "deactivate")) => (org <=> Live # {})
=============================================================================
