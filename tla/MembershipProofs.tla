-------------------------- MODULE MembershipProofs --------------------------
(***************************************************************************)
(* For any users, campaigns, requests and failures: a campaign's owner is  *)
(* a member of it, the organization lives as long as its campaigns, and    *)
(* whoever holds a grant is a member somewhere.  All rests on what a       *)
(* request that has read and not yet committed may rely on, although       *)
(* others commit in between.                                               *)
(***************************************************************************)
EXTENDS Membership, TLAPS

RequestRow ==
  [kind: {"none", "create", "join", "role", "remove", "transfer", "status", "delete"},
   at: {"idle", "read", "asked", "again", "undo", "flushed", "deactivate"},
   by: User \cup {None}, c: Campaign \cup {None}, to: User \cup {None},
   role: Role \cup Status \cup {"none"}, view: Role \cup Status \cup {"none"},
   gone: BOOLEAN,
   owner: User \cup {None}, saw: SUBSET Campaign]

-----------------------------------------------------------------------------
(* The invariant *)

\* What a request in flight says, by its kind.
Says(r) ==
  /\ r.kind # "none" => r.by \in User /\ r.c \in Campaign
  /\ r.kind \in {"role", "remove", "transfer"} => r.to \in User
  /\ r.kind = "role" => r.role \in Role
  /\ r.kind = "transfer" => r.view \in Role
  /\ r.kind = "status" => r.role \in Status \ {"deleted"} /\ r.view \in Status \ {"deleted"}
  /\ r.kind = "delete" => r.at \in {"flushed", "deactivate"}
  /\ r.at = "undo" => r.kind \in {"create", "transfer"}
RequestsSay == \A s \in Slot : Says(req[s])

\* A campaign that is being created is nobody else's business, and every other
\* request is about one there is.
CampaignsKnown ==
  \A s \in Slot :
    /\ req[s].kind = "create" =>
         /\ req[s].c \notin Existing
         /\ \A q \in Slot \ {s} : req[q].c # req[s].c
    /\ req[s].kind \notin {"none", "create"} => req[s].c \in Existing

\* Every campaign belongs to somebody.
OwnersKnown == \A c \in Existing : owner[c] \in User

\* The row a removal is about to delete is not the owner's.
RemovalsSpareOwner ==
  \A s \in Slot : req[s].kind = "remove" /\ ~req[s].gone =>
    owner[req[s].c] # req[s].to \/ req[s].c \in raced

\* The row a role change, removal or transfer has read is there until somebody marks
\* it as gone.
RequestsSeeRow ==
  \A s \in Slot : req[s].kind \in {"role", "remove", "transfer"} /\ ~req[s].gone =>
    member[req[s].c][req[s].to] # "none"

\* The deletion that is about to end the organization has left no campaign in it.
DeletesKnow ==
  ~lapsed =>
    /\ \A s \in Slot : At(s, "delete", "deactivate") => Live = {}
    /\ (\A s \in Slot : ~At(s, "delete", "deactivate")) => (org <=> Live # {})

Others == /\ CampaignsKnown /\ OwnersKnown
          /\ RemovalsSpareOwner /\ RequestsSeeRow /\ CreatorIsMember /\ DeletesKnow
IInv == TypeOK /\ RequestsSay /\ Others

\* The roles and their order, spelled out.
LEMMA Vocabulary ==
  /\ Role = {"viewer", "volunteer", "admin", "owner"}
  /\ Level["viewer"] = 0 /\ Level["volunteer"] = 1
  /\ Level["admin"] = 3 /\ Level["owner"] = 4
  <1>1. DOMAIN Level = {"none", "viewer", "volunteer", "admin", "owner"}
    BY DEF Level
  <1>2. Role = {"viewer", "volunteer", "admin", "owner"}
    BY <1>1 DEF Role
  <1>3. /\ Level["viewer"] = 0 /\ Level["volunteer"] = 1
        /\ Level["admin"] = 3 /\ Level["owner"] = 4
    BY DEF Level
  <1> QED BY <1>2, <1>3

-----------------------------------------------------------------------------
(* Types *)

\* Admitting, moving and ending a request keeps requests and counters typed.
LEMMA RequestsTyped ==
  ASSUME TypeOK, NEW s \in Slot
  PROVE  /\ req \in [Slot -> RequestRow]
         /\ Ends(s) => req' \in [Slot -> RequestRow]
         /\ \A at \in {"read", "asked", "again", "undo", "deactivate"} :
              Goes(s, at) => req' \in [Slot -> RequestRow]
         /\ \A r \in RequestRow : Asked(s, r) =>
              req' \in [Slot -> RequestRow] /\ asks' \in 0..Asks
         /\ Fail => fails' \in 0..Fails
  <1>1. req \in [Slot -> RequestRow] /\ asks \in 0..Asks /\ fails \in 0..Fails
    BY DEF TypeOK, RequestRow
  <1>2. Idle \in RequestRow
    BY DEF Idle, RequestRow
  <1>3. Asks \in Nat /\ Fails \in Nat
    BY MembershipAssumption
  <1>4. \A at \in {"read", "asked", "again", "undo", "deactivate"} :
           [req[s] EXCEPT !.at = at] \in RequestRow
    BY <1>1 DEF RequestRow
  <1>5. ASSUME NEW at \in {"read", "asked", "again", "undo", "deactivate"}, Goes(s, at)
        PROVE  req' \in [Slot -> RequestRow]
    BY <1>1, <1>4, <1>5 DEF Goes
  <1> QED BY <1>1, <1>2, <1>3, <1>5 DEF Ends, Asked, Free, Fail

\* What ZITADEL may answer with is a set of roles for each user.
LEMMA GrantsTyped ==
  ASSUME NEW g \in [User -> SUBSET Role], NEW u \in User, NEW r \in Role
  PROVE  /\ Assign(g, u, r) \subseteq [User -> SUBSET Role]
         /\ Revoke(g, u, r) \in [User -> SUBSET Role]
  BY DEF Assign, Revoke

\* Of a few granted roles one is the best.
LEMMA BestIsOne ==
  ASSUME NEW roles \in SUBSET Role, roles # {}
  PROVE  Best(roles) \in Role
  <1>1. \E r \in roles : \A q \in roles : Level[q] <= Level[r]
    <2>1. CASE "owner" \in roles
      BY <2>1, Vocabulary
    <2>2. CASE "owner" \notin roles /\ "admin" \in roles
      BY <2>2, Vocabulary
    <2>3. CASE "owner" \notin roles /\ "admin" \notin roles /\ "volunteer" \in roles
      BY <2>3, Vocabulary
    <2>4. CASE roles = {"viewer"}
      BY <2>4, Vocabulary
    <2> QED BY <2>1, <2>2, <2>3, <2>4, Vocabulary
  <1> QED BY <1>1 DEF Best

Typed == /\ status \in [Campaign -> Status \cup {"none"}]
         /\ owner \in [Campaign -> User \cup {None}]
         /\ member \in [Campaign -> [User -> Role \cup {"none"}]]
         /\ seat \in [User -> {"none", "org_admin", "org_owner"}]
         /\ grant \in [User -> SUBSET Role]
         /\ token \in [User -> Role \cup {"none"}]
         /\ org \in BOOLEAN
         /\ asks \in 0..Asks /\ fails \in 0..Fails
         /\ raced \subseteq Campaign /\ astray \subseteq User /\ lapsed \in BOOLEAN

\* The type invariant, with the requests apart.
LEMMA TypeParts == TypeOK <=> Typed /\ req \in [Slot -> RequestRow]
  BY DEF TypeOK, Typed, RequestRow

\* What a request that is asked for is.
LEMMA AskedRows ==
  ASSUME NEW u \in User, NEW c \in Campaign, NEW t \in User
  PROVE  /\ [Idle EXCEPT !.kind = "create", !.at = "read", !.by = u, !.c = c] \in RequestRow
         /\ [Idle EXCEPT !.kind = "join", !.at = "read", !.by = u, !.c = c] \in RequestRow
         /\ \A r, v \in Role :
              [Idle EXCEPT !.kind = "role", !.at = "read", !.by = u, !.c = c,
                 !.to = t, !.role = r, !.view = v] \in RequestRow
         /\ \A v \in Role :
              [Idle EXCEPT !.kind = "remove", !.at = "read", !.by = u, !.c = c,
                 !.to = t, !.view = v] \in RequestRow
         /\ \A v \in Role, o \in User \cup {None} :
              [Idle EXCEPT !.kind = "transfer", !.at = "read", !.by = u, !.c = c,
                 !.to = t, !.view = v, !.owner = o] \in RequestRow
         /\ \A r, v \in Status :
              [Idle EXCEPT !.kind = "status", !.at = "read", !.by = u, !.c = c,
                 !.role = r, !.view = v] \in RequestRow
         /\ \A saw \in SUBSET Campaign :
              [Idle EXCEPT !.kind = "delete", !.at = "flushed", !.by = u, !.c = c,
                 !.saw = saw] \in RequestRow
  BY DEF Idle, RequestRow

\* The invariant holds to begin with.
LEMMA InitInv == Init => IInv
  <1> SUFFICES ASSUME Init PROVE IInv
    OBVIOUS
  <1> USE MembershipAssumption, Vocabulary DEF Init
  <1>1. TypeOK
    <2>1. Idle \in RequestRow
      BY DEF Idle, RequestRow
    <2>2. req \in [Slot -> RequestRow]
      BY <2>1
    <2>3. status \in [Campaign -> Status \cup {"none"}] /\ owner \in [Campaign -> User \cup {None}]
      BY DEF Status
    <2>4. member \in [Campaign -> [User -> Role \cup {"none"}]]
      OBVIOUS
    <2>5. grant \in [User -> SUBSET Role] /\ token \in [User -> Role \cup {"none"}]
      OBVIOUS
    <2>6. seat \in [User -> {"none", "org_admin", "org_owner"}] /\ org \in BOOLEAN
      OBVIOUS
    <2>7. asks \in 0..Asks /\ fails \in 0..Fails
      OBVIOUS
    <2>8. raced \subseteq Campaign /\ astray \subseteq User /\ lapsed \in BOOLEAN
      OBVIOUS
    <2> QED BY <2>2, <2>3, <2>4, <2>5, <2>6, <2>7, <2>8, TypeParts DEF Typed
  <1>2. \A s \in Slot : req[s].kind = "none" /\ req[s].at = "idle"
    BY DEF Idle
  <1>3. RequestsSay /\ CampaignsKnown /\ RemovalsSpareOwner /\ RequestsSeeRow
    BY <1>2 DEF RequestsSay, Says, CampaignsKnown, RemovalsSpareOwner, RequestsSeeRow
  <1>4. CreatorIsMember /\ OwnersKnown
    BY DEF CreatorIsMember, OwnersKnown, Existing
  <1>5. Live # {} /\ org
    BY DEF Live, Existing
  <1>6. DeletesKnow
    BY <1>2, <1>5 DEF DeletesKnow, At
  <1> QED BY <1>1, <1>3, <1>4, <1>6 DEF IInv, Others

-----------------------------------------------------------------------------
(* One step keeps the types *)

\* Every action writes what its variables may hold; the requests say enough of whom
\* and what they are about.
LEMMA TypeStep ==
  ASSUME TypeOK, RequestsSay, [Next]_vars
  PROVE  TypeOK'
  <1> DEFINE Rows == [Slot -> RequestRow]
  <1>1. Typed /\ req \in Rows
    BY TypeParts
  <1>2. TypeOK' <=> Typed' /\ req' \in Rows
    BY DEF TypeOK, Typed, RequestRow
  <1>3. CASE UNCHANGED vars
    BY <1>1, <1>2, <1>3 DEF vars, Typed
  <1>4. ASSUME NEW u \in User, EnsureUserSynced(u) PROVE TypeOK'
    <2>1. req' \in Rows /\ UNCHANGED <<status, owner, grant, org, token, asks, fails, raced, astray, lapsed>>
      BY <1>1, <1>4 DEF EnsureUserSynced, campaigns, zitadel, history
    <2>2. member' \in [Campaign -> [User -> Role \cup {"none"}]]
      <3>1. \A c \in Campaign : SyncedRow(c, u) \in Role \cup {"none"}
        BY <1>1 DEF SyncedRow, Typed
      <3> QED BY <1>1, <1>4, <3>1 DEF EnsureUserSynced, Typed
    <2>3. seat' \in [User -> {"none", "org_admin", "org_owner"}]
      BY <1>1, <1>4 DEF EnsureUserSynced, SeatOf, Typed
    <2> QED BY <1>1, <1>2, <2>1, <2>2, <2>3 DEF Typed
  <1>5. ASSUME NEW u \in User, RenewToken(u) PROVE TypeOK'
    <2>1. req' \in Rows /\ UNCHANGED <<status, owner, member, seat, grant, org, asks, fails, raced, astray, lapsed>>
      BY <1>1, <1>5 DEF RenewToken, campaigns, zitadel, history
    <2>2. grant[u] # {} => Best(grant[u]) \in Role
      BY <1>1, BestIsOne DEF Typed
    <2>3. token' \in [User -> Role \cup {"none"}]
      BY <1>1, <1>5, <2>2, Vocabulary DEF RenewToken, Typed
    <2> QED BY <1>1, <1>2, <2>1, <2>3 DEF Typed
  <1>6. ASSUME NEW u \in User, NEW c \in Campaign, NEW t \in User, AddMember(u, c, t) PROVE TypeOK'
    <2>1. req' \in Rows /\ UNCHANGED <<status, owner, seat, token, grant, org, fails, raced, astray, lapsed>>
      BY <1>1, <1>6 DEF AddMember, campaigns, zitadel, history
    <2>2. member' \in [Campaign -> [User -> Role \cup {"none"}]]
      BY <1>1, <1>6, MembershipAssumption DEF AddMember, Typed
    <2>3. asks' \in 0..Asks
      BY <1>1, <1>6, MembershipAssumption DEF AddMember, Typed
    <2> QED BY <1>1, <1>2, <2>1, <2>2, <2>3 DEF Typed
  <1> SUFFICES ASSUME NEW s \in Slot,
                      \/ Free(s) /\ \E u \in User :
                           \/ CreateRead(s, u)
                           \/ \E c \in Campaign :
                                \/ JoinFlush(s, u, c) \/ StatusRead(s, u, c) \/ DeleteFlush(s, u, c)
                                \/ \E t \in User : \/ RoleRead(s, u, c, t) \/ RemoveRead(s, u, c, t)
                                                   \/ TransferRead(s, u, c, t)
                      \/ CreateAssign(s) \/ CreateCommit(s) \/ CreateCollides(s)
                      \/ JoinAssign(s) \/ JoinCommit(s)
                      \/ RoleAssign(s) \/ RoleCommit(s)
                      \/ RemoveRevoke(s) \/ RemoveCommit(s)
                      \/ TransferAssign(s) \/ TransferCommit(s) \/ TransferAborts(s) \/ TransferMisses(s)
                      \/ CommitFails(s) \/ Undo(s) \/ Dies(s)
                      \/ StatusCommit(s) \/ DeleteCommit(s) \/ Deactivate(s)
               PROVE  TypeOK'
    BY <1>3, <1>4, <1>5, <1>6 DEF Next
  <1>7. req[s] \in RequestRow /\ Says(req[s])
    BY <1>1 DEF RequestsSay
  <1>8. ASSUME NEW r \in RequestRow, Asked(s, r), lapsed' \in BOOLEAN,
               UNCHANGED <<campaigns, people, zitadel, fails, raced, astray>>
        PROVE  TypeOK'
    <2>1. req' \in Rows /\ asks' \in 0..Asks
      BY <1>8, RequestsTyped
    <2> QED BY <1>1, <1>2, <1>8, <2>1 DEF Typed, campaigns, people, zitadel
  <1>9. ASSUME NEW u \in User, CreateRead(s, u) PROVE TypeOK'
    <2>1. PICK c \in Campaign :
            Asked(s, [Idle EXCEPT !.kind = "create", !.at = "read", !.by = u, !.c = c])
      BY <1>9 DEF CreateRead
    <2> QED BY <1>1, <1>8, <1>9, <2>1, AskedRows DEF CreateRead, history, Typed
  <1>10. ASSUME NEW u \in User, NEW c \in Campaign, JoinFlush(s, u, c) PROVE TypeOK'
    BY <1>1, <1>8, <1>10, AskedRows DEF JoinFlush, history, Typed
  <1>11. ASSUME NEW u \in User, NEW c \in Campaign, StatusRead(s, u, c) PROVE TypeOK'
    <2>1. PICK move \in Transitions :
            /\ status[c] = move[1]
            /\ Asked(s, [Idle EXCEPT !.kind = "status", !.at = "read", !.by = u, !.c = c,
                           !.role = move[2], !.view = status[c]])
      BY <1>11 DEF StatusRead
    <2>2. move[1] \in Status /\ move[2] \in Status
      BY DEF Transitions, Status
    <2>3. [Idle EXCEPT !.kind = "status", !.at = "read", !.by = u, !.c = c,
             !.role = move[2], !.view = status[c]] \in RequestRow
      BY <2>1, <2>2, AskedRows
    <2>4. UNCHANGED <<campaigns, people, zitadel, fails, history>> /\ lapsed \in BOOLEAN
      BY <1>1, <1>11 DEF StatusRead, Typed
    <2> QED BY <1>8, <2>1, <2>3, <2>4 DEF history
  <1>12. ASSUME NEW u \in User, NEW c \in Campaign, DeleteFlush(s, u, c) PROVE TypeOK'
    <2>1. Siblings(c) \in SUBSET Campaign
      BY DEF Siblings, Live, Existing
    <2>2. lapsed' \in BOOLEAN
      BY <1>1, <1>12 DEF DeleteFlush, history, Typed
    <2> QED BY <1>1, <1>8, <1>12, <2>1, <2>2, AskedRows DEF DeleteFlush, history
  <1>13. ASSUME NEW u \in User, NEW c \in Campaign, NEW t \in User,
                RoleRead(s, u, c, t) \/ RemoveRead(s, u, c, t) \/ TransferRead(s, u, c, t)
         PROVE  TypeOK'
    <2>1. member[c][t] # "none" => member[c][t] \in Role
      BY <1>1 DEF Typed
    <2>2. CASE RoleRead(s, u, c, t)
      <3>1. PICK r \in Given \ {"owner"} :
              Asked(s, [Idle EXCEPT !.kind = "role", !.at = "read", !.by = u, !.c = c,
                          !.to = t, !.role = r, !.view = member[c][t]])
        BY <2>2 DEF RoleRead
      <3>2. r \in Role
        BY MembershipAssumption
      <3>3. UNCHANGED <<campaigns, people, zitadel, fails, history>> /\ lapsed \in BOOLEAN
        BY <1>1, <2>2 DEF RoleRead, Typed
      <3>4. member[c][t] \in Role
        BY <2>1, <2>2 DEF RoleRead
      <3>5. [Idle EXCEPT !.kind = "role", !.at = "read", !.by = u, !.c = c,
               !.to = t, !.role = r, !.view = member[c][t]] \in RequestRow
        BY <3>2, <3>4, AskedRows
      <3> QED BY <1>8, <3>1, <3>3, <3>5 DEF history
    <2>3. CASE RemoveRead(s, u, c, t)
      BY <1>1, <1>8, <2>1, <2>3, AskedRows DEF RemoveRead, history, Typed
    <2>4. CASE TransferRead(s, u, c, t)
      <3>1. owner[c] \in User \cup {None}
        BY <1>1 DEF Typed
      <3> QED BY <1>1, <1>8, <2>1, <2>4, <3>1, AskedRows DEF TransferRead, history, Typed
    <2> QED BY <1>13, <2>2, <2>3, <2>4
  <1>14. /\ Ends(s) => req' \in Rows
         /\ \A at \in {"read", "asked", "again", "undo", "deactivate"} : Goes(s, at) => req' \in Rows
         /\ Fail => fails' \in 0..Fails
    BY RequestsTyped
  <1> DEFINE Grants == [User -> SUBSET Role]
  <1>15. "owner" \in Role /\ "admin" \in Role /\ "volunteer" \in Role
    BY Vocabulary
  <1>16. grant \in Grants
    BY <1>1 DEF Typed
  <1>17. CASE CreateAssign(s)
    <2>1. req[s].by \in User
      BY <1>7, <1>17 DEF CreateAssign, At, Says
    <2>2. Assign(grant, req[s].by, "owner") \subseteq Grants
      BY <1>15, <1>16, <2>1, GrantsTyped
    <2>3. grant' \in Grants /\ req' \in Rows /\ fails' \in 0..Fails
      BY <1>1, <1>14, <1>16, <1>17, <2>2 DEF CreateAssign, Typed
    <2> QED BY <1>1, <1>2, <1>17, <2>3 DEF CreateAssign, campaigns, people, history, Typed
  <1>18. CASE CreateCommit(s)
    <2>1. req[s].by \in User /\ req[s].c \in Campaign
      BY <1>7, <1>18 DEF CreateCommit, At, Says
    <2>2. status' \in [Campaign -> Status \cup {"none"}] /\ owner' \in [Campaign -> User \cup {None}]
      BY <1>1, <1>18, <2>1 DEF CreateCommit, Typed, Status
    <2>3. member' \in [Campaign -> [User -> Role \cup {"none"}]]
      BY <1>1, <1>15, <1>18, <2>1 DEF CreateCommit, Typed
    <2>4. req' \in Rows /\ lapsed' \in BOOLEAN
      BY <1>14, <1>18 DEF CreateCommit
    <2> QED BY <1>1, <1>2, <1>18, <2>2, <2>3, <2>4 DEF CreateCommit, zitadel, Typed
  <1>19. CASE CreateCollides(s)
    BY <1>1, <1>2, <1>14, <1>19 DEF CreateCollides, campaigns, people, zitadel, history, Typed
  <1>20. CASE JoinAssign(s)
    <2>1. req[s].by \in User
      BY <1>7, <1>20 DEF JoinAssign, At, Says
    <2>2. Assign(grant, req[s].by, "volunteer") \subseteq Grants
      BY <1>15, <1>16, <2>1, GrantsTyped
    <2>3. grant' \in Grants /\ req' \in Rows /\ fails' \in 0..Fails /\ astray' \subseteq User
      BY <1>1, <1>14, <1>16, <1>20, <2>1, <2>2 DEF JoinAssign, Typed
    <2> QED BY <1>1, <1>2, <1>20, <2>3 DEF JoinAssign, campaigns, people, Typed
  <1>21. CASE JoinCommit(s)
    <2>1. req[s].by \in User /\ req[s].c \in Campaign
      BY <1>7, <1>21 DEF JoinCommit, At, Says
    <2>2. member' \in [Campaign -> [User -> Role \cup {"none"}]]
      BY <1>1, <1>15, <1>21, <2>1 DEF JoinCommit, Typed
    <2>3. req' \in Rows
      BY <1>14, <1>21 DEF JoinCommit
    <2> QED BY <1>1, <1>2, <1>21, <2>2, <2>3 DEF JoinCommit, campaigns, zitadel, history, Typed
  <1>22. CASE RoleAssign(s)
    <2>1. req[s].to \in User /\ req[s].role \in Role
      BY <1>7, <1>22 DEF RoleAssign, At, Says
    <2>2. grant' \in Grants
      BY <1>16, <1>22, <2>1 DEF RoleAssign
    <2>3. req' \in Rows /\ fails' \in 0..Fails /\ astray' \subseteq User
      BY <1>1, <1>14, <1>22, <2>1 DEF RoleAssign, Typed
    <2> QED BY <1>1, <1>2, <1>22, <2>2, <2>3 DEF RoleAssign, campaigns, people, Typed
  <1>23. CASE RoleCommit(s)
    <2>1. req[s].to \in User /\ req[s].role \in Role /\ req[s].c \in Campaign
      BY <1>7, <1>23 DEF RoleCommit, At, Says
    <2>2. member' \in [Campaign -> [User -> Role \cup {"none"}]]
      BY <1>1, <1>23, <2>1 DEF RoleCommit, Typed
    <2>3. req' \in Rows /\ astray' \subseteq User
      BY <1>1, <1>14, <1>23, <2>1 DEF RoleCommit, Typed
    <2> QED BY <1>1, <1>2, <1>23, <2>2, <2>3 DEF RoleCommit, campaigns, zitadel, Typed
  <1>24. CASE RemoveRevoke(s)
    <2>1. req[s].to \in User
      BY <1>7, <1>24 DEF RemoveRevoke, At, Says
    <2>2. grant' \in Grants
      BY <1>16, <1>24, <2>1 DEF RemoveRevoke, RevokeAll
    <2>3. req' \in Rows /\ fails' \in 0..Fails /\ astray' \subseteq User
      BY <1>1, <1>14, <1>24, <2>1 DEF RemoveRevoke, Typed
    <2> QED BY <1>1, <1>2, <1>24, <2>2, <2>3 DEF RemoveRevoke, campaigns, people, Typed
  <1>25. CASE RemoveCommit(s)
    <2>1. member' \in [Campaign -> [User -> Role \cup {"none"}]]
      BY <1>1, <1>25 DEF RemoveCommit, Typed
    <2>2. ASSUME NEW r \in RequestRow PROVE [r EXCEPT !.gone = TRUE] \in RequestRow
      BY DEF RequestRow
    <2>3. req' \in Rows
      <3>1. Idle \in RequestRow
        BY DEF Idle, RequestRow
      <3> QED BY <1>1, <1>25, <2>2, <3>1 DEF RemoveCommit
    <2> QED BY <1>1, <1>2, <1>25, <2>1, <2>3 DEF RemoveCommit, campaigns, zitadel, history, Typed
  <1>26. CASE TransferAssign(s)
    <2>1. req[s].by \in User /\ req[s].to \in User /\ req[s].view \in Role
      BY <1>7, <1>26 DEF TransferAssign, At, Says
    <2> DEFINE g1 == Revoke(grant, req[s].by, "owner")
    <2>2. g1 \in Grants
      BY <1>15, <1>16, <2>1, GrantsTyped
    <2>3. PICK g2 \in Assign(g1, req[s].by, "admin") :
            LET g3 == Revoke(g2, req[s].to, req[s].view)
            IN  \E g4 \in Assign(g3, req[s].to, "owner") :
                  grant' \in {grant, g1, g2, g3, g4}
      BY <1>26 DEF TransferAssign
    <2>4. g2 \in Grants
      BY <1>15, <2>1, <2>2, GrantsTyped
    <2>5. Revoke(g2, req[s].to, req[s].view) \in Grants
      BY <2>1, <2>4, GrantsTyped
    <2>6. grant' \in Grants
      BY <1>15, <1>16, <2>1, <2>2, <2>3, <2>4, <2>5, GrantsTyped
    <2>7. req' \in Rows /\ fails' \in 0..Fails /\ astray' \subseteq User
      BY <1>1, <1>14, <1>26, <2>1 DEF TransferAssign, Typed
    <2> QED BY <1>1, <1>2, <1>26, <2>6, <2>7 DEF TransferAssign, campaigns, people, Typed
  <1>27. CASE TransferCommit(s)
    <2>1. req[s].by \in User /\ req[s].to \in User /\ req[s].c \in Campaign
      BY <1>7, <1>27 DEF TransferCommit, At, Says
    <2>2. owner' \in [Campaign -> User \cup {None}]
      BY <1>1, <1>27, <2>1 DEF TransferCommit, Typed
    <2>3. member' \in [Campaign -> [User -> Role \cup {"none"}]]
      BY <1>1, <1>15, <1>27, <2>1 DEF TransferCommit, Typed
    <2>4. req' \in Rows /\ astray' \subseteq User /\ raced' \subseteq Campaign
      BY <1>1, <1>14, <1>27, <2>1 DEF TransferCommit, Typed
    <2> QED BY <1>1, <1>2, <1>27, <2>2, <2>3, <2>4 DEF TransferCommit, zitadel, Typed
  <1>28. CASE TransferAborts(s) \/ TransferMisses(s)
    <2>1. req[s].by \in User /\ req[s].to \in User
      BY <1>7, <1>28 DEF TransferAborts, TransferMisses, At, Says
    <2>2. req' \in Rows /\ astray' \subseteq User
      BY <1>1, <1>14, <1>28, <2>1 DEF TransferAborts, TransferMisses, Typed
    <2> QED BY <1>1, <1>2, <1>28, <2>2
            DEF TransferAborts, TransferMisses, campaigns, people, zitadel, Typed
  <1>29. CASE CommitFails(s)
    BY <1>1, <1>2, <1>14, <1>29 DEF CommitFails, campaigns, people, zitadel, history, Typed
  <1>30. CASE Undo(s)
    <2>1. req[s].by \in User /\ req[s].kind \in {"create", "transfer"}
      BY <1>7, <1>30 DEF Undo, Says
    <2>2. ASSUME NEW i \in 0..4 PROVE TakenBack(s, i) \subseteq Grants
      <3>1. CASE req[s].kind = "create"
        <4>1. Revoke(grant, req[s].by, "owner") \in Grants
          BY <1>15, <1>16, <2>1, GrantsTyped
        <4> QED BY <1>16, <3>1, <4>1 DEF TakenBack
      <3>2. CASE req[s].kind = "transfer"
        <4> DEFINE u == req[s].by
                   t == req[s].to
                   Without(g, v, r, n) == IF n = i THEN g ELSE Revoke(g, v, r)
                   With(g, v, r, n) == IF n = i THEN {g} ELSE Assign(g, v, r)
        <4>1. u \in User /\ t \in User /\ req[s].view \in Role
          BY <1>7, <3>2 DEF Says
        <4>2. \A g \in Grants, v \in User, r \in Role, n \in 1..4 :
                Without(g, v, r, n) \in Grants /\ With(g, v, r, n) \subseteq Grants
          BY GrantsTyped
        <4>3. TakenBack(s, i) =
                UNION {With(Without(g, u, "admin", 3), u, "owner", 4) :
                         g \in With(Without(grant, t, "owner", 1), t, req[s].view, 2)}
          BY <3>2 DEF TakenBack
        <4> HIDE DEF With, Without, Grants, u, t
        <4>4. With(Without(grant, t, "owner", 1), t, req[s].view, 2) \subseteq Grants
          <5>1. Without(grant, t, "owner", 1) \in Grants
            BY <1>15, <1>16, <4>1, <4>2
          <5> QED BY <4>1, <4>2, <5>1
        <4>5. ASSUME NEW g \in Grants
              PROVE  With(Without(g, u, "admin", 3), u, "owner", 4) \subseteq Grants
          <5>1. Without(g, u, "admin", 3) \in Grants
            BY <1>15, <4>1, <4>2
          <5> QED BY <1>15, <4>1, <4>2, <5>1
        <4> QED BY <4>3, <4>4, <4>5
      <3> QED BY <2>1, <3>1, <3>2
    <2>3. grant' \in Grants
      BY <1>30, <2>2 DEF Undo
    <2>4. astray' \subseteq User
      <3>1. req[s].kind = "transfer" => Leavers(s) \subseteq User
        BY <1>7 DEF Leavers, Says
      <3> QED BY <1>1, <1>30, <3>1 DEF Undo, Typed
    <2>5. req' \in Rows /\ fails' \in 0..Fails
      BY <1>1, <1>14, <1>30 DEF Undo, Typed
    <2> QED BY <1>1, <1>2, <1>30, <2>3, <2>4, <2>5 DEF Undo, campaigns, people, Typed
  <1>31. CASE Dies(s)
    <2>1. req' \in Rows /\ fails' \in 0..Fails /\ astray' \subseteq User /\ lapsed' \in BOOLEAN
      BY <1>1, <1>14, <1>31 DEF Dies, Typed
    <2> QED BY <1>1, <1>2, <1>31, <2>1 DEF Dies, campaigns, people, zitadel, Typed
  <1>32. CASE StatusCommit(s)
    <2>1. req[s].c \in Campaign /\ req[s].role \in Status
      BY <1>7, <1>32 DEF StatusCommit, At, Says
    <2>2. req' \in Rows /\ lapsed' \in BOOLEAN
      BY <1>1, <1>14, <1>32 DEF StatusCommit, Typed
    <2>3. status' \in [Campaign -> Status \cup {"none"}]
      BY <1>1, <1>32, <2>1 DEF StatusCommit, Typed
    <2> QED BY <1>1, <1>2, <1>32, <2>2, <2>3 DEF StatusCommit, people, zitadel, Typed
  <1>33. CASE DeleteCommit(s)
    <2>1. status' \in [Campaign -> Status \cup {"none"}]
      BY <1>1, <1>33 DEF DeleteCommit, Typed, Status
    <2>2. req' \in Rows
      BY <1>14, <1>33 DEF DeleteCommit
    <2> QED BY <1>1, <1>2, <1>33, <2>1, <2>2 DEF DeleteCommit, people, zitadel, history, Typed
  <1>34. CASE Deactivate(s)
    <2>1. /\ req' \in Rows /\ fails' \in 0..Fails
          /\ org' \in BOOLEAN /\ lapsed' \in BOOLEAN
      BY <1>1, <1>14, <1>34 DEF Deactivate, Typed
    <2> QED BY <1>1, <1>2, <1>34, <2>1 DEF Deactivate, campaigns, people, Typed
  <1> QED BY <1>9, <1>10, <1>11, <1>12, <1>13, <1>17, <1>18, <1>19, <1>20, <1>21, <1>22, <1>23,
            <1>24, <1>25, <1>26, <1>27, <1>28, <1>29, <1>30, <1>31, <1>32, <1>33, <1>34

-----------------------------------------------------------------------------
(* Steps that commit nothing a request relies on *)

\* A request ends, or goes on with what it has read.
Follows(q) ==
  \/ req'[q] = Idle
  \/ /\ req'[q].kind = req[q].kind /\ req'[q].by = req[q].by
     /\ req'[q].c = req[q].c /\ req'[q].to = req[q].to
     /\ req'[q].role = req[q].role /\ req'[q].view = req[q].view
     /\ req'[q].gone = req[q].gone /\ req'[q].saw = req[q].saw
     /\ req[q].kind = "delete" => req'[q].at = req[q].at

\* Moving or ending one request leaves the others alone.
LEMMA GoingOn ==
  ASSUME TypeOK, RequestsSay, NEW s \in Slot
  PROVE  /\ UNCHANGED req => RequestsSay' /\ \A q \in Slot : Follows(q)
         /\ Ends(s) => RequestsSay' /\ \A q \in Slot : Follows(q)
         /\ \A at \in {"read", "asked", "again", "undo"} :
              Goes(s, at) /\ req[s].kind # "delete"
                /\ (at = "undo" => req[s].kind \in {"create", "transfer"})
              => RequestsSay' /\ \A q \in Slot : Follows(q)
  <1>1. req \in [Slot -> RequestRow] /\ \A q \in Slot : Says(req[q])
    BY TypeParts DEF RequestsSay
  <1>2. CASE UNCHANGED req
    BY <1>1, <1>2 DEF RequestsSay, Follows
  <1>3. CASE Ends(s)
    <2>1. Idle.kind = "none" /\ Says(Idle)
      BY DEF Idle, Says
    <2> QED BY <1>1, <1>3, <2>1 DEF Ends, RequestsSay, Follows
  <1>4. ASSUME NEW at \in {"read", "asked", "again", "undo"}, Goes(s, at), req[s].kind # "delete",
               at = "undo" => req[s].kind \in {"create", "transfer"}
        PROVE  RequestsSay' /\ \A q \in Slot : Follows(q)
    <2>1. \A q \in Slot \ {s} : req'[q] = req[q]
      BY <1>1, <1>4 DEF Goes
    <2>2. req'[s] = [req[s] EXCEPT !.at = at]
      BY <1>1, <1>4 DEF Goes
    <2>3. Follows(s) /\ Says(req'[s])
      BY <1>1, <1>4, <2>2 DEF Follows, Says, RequestRow
    <2> QED BY <1>1, <2>1, <2>3 DEF RequestsSay, Follows
  <1> QED BY <1>2, <1>3, <1>4

\* If campaigns stay, members only join and requests only go on or end, all that the
\* requests rely on stays true.
LEMMA Kept ==
  ASSUME IInv, UNCHANGED <<status, owner, org, raced>>,
         \A c \in Campaign, u \in User : member[c][u] # "none" => member'[c][u] # "none",
         \A q \in Slot : Follows(q),
         lapsed => lapsed',
         ~lapsed' => \A q \in Slot : At(q, "delete", "deactivate") => req'[q] # Idle,
         RequestsSay'
  PROVE  Others'
  <1> USE DEF IInv, Others
  <1>1. Existing' = Existing /\ Live' = Live
    BY DEF Existing, Live
  <1>2. Idle.kind = "none" /\ Idle.c = None
    BY DEF Idle
  <1>3. CampaignsKnown'
    <2> SUFFICES ASSUME NEW s \in Slot, req'[s].kind # "none"
                 PROVE  /\ req'[s].kind = "create" =>
                             /\ req'[s].c \notin Existing
                             /\ \A q \in Slot \ {s} : req'[q].c # req'[s].c
                        /\ req'[s].kind \notin {"none", "create"} => req'[s].c \in Existing
      BY <1>1, <1>2 DEF CampaignsKnown
    <2>1. req'[s].kind = req[s].kind /\ req'[s].c = req[s].c /\ req[s].c \in Campaign
      BY <1>2 DEF Follows, RequestsSay, Says
    <2>2. ASSUME NEW q \in Slot \ {s}, req[q].c # req[s].c PROVE req'[q].c # req'[s].c
      BY <1>2, <2>1, <2>2, MembershipAssumption DEF Follows
    <2> QED BY <2>1, <2>2 DEF CampaignsKnown
  <1>4. OwnersKnown' /\ CreatorIsMember'
    BY <1>1 DEF OwnersKnown, CreatorIsMember, Existing
  <1>5. RemovalsSpareOwner'
    BY <1>2 DEF RemovalsSpareOwner, Follows
  <1>6. RequestsSeeRow'
    <2> SUFFICES ASSUME NEW s \in Slot, req'[s].kind \in {"role", "remove", "transfer"}, ~req'[s].gone
                 PROVE  member'[req'[s].c][req'[s].to] # "none"
      BY DEF RequestsSeeRow
    <2>1. /\ req[s].kind \in {"role", "remove", "transfer"} /\ ~req[s].gone
          /\ req'[s].c = req[s].c /\ req'[s].to = req[s].to
      BY <1>2 DEF Follows
    <2>2. req[s].c \in Campaign /\ req[s].to \in User
      BY <2>1 DEF RequestsSay, Says
    <2> QED BY <2>1, <2>2 DEF RequestsSeeRow
  <1>7. DeletesKnow'
    <2> SUFFICES ASSUME ~lapsed'
                 PROVE  DeletesKnow'
      BY DEF DeletesKnow
    <2>1. DeletesKnow /\ ~lapsed
      OBVIOUS
    <2>2. ASSUME NEW q \in Slot, req'[q].kind = "delete"
          PROVE  /\ req[q].kind = "delete" /\ req'[q].at = req[q].at
                 /\ req'[q].c = req[q].c /\ req'[q].saw = req[q].saw
      BY <1>2, <2>2 DEF Follows
    <2>3. ASSUME NEW q \in Slot, At(q, "delete", "deactivate")
          PROVE  At(q, "delete", "deactivate")'
      BY <2>3 DEF Follows, At
    <2> QED BY <1>1, <2>1, <2>2, <2>3 DEF DeletesKnow, At
  <1> QED BY <1>3, <1>4, <1>5, <1>6, <1>7

\* Members and grants change, or a request fails, and the others need not care.
LEMMA PeopleStep ==
  ASSUME IInv, NEW u \in User,
         \/ EnsureUserSynced(u) \/ RenewToken(u)
         \/ \E c \in Campaign, t \in User : AddMember(u, c, t)
  PROVE  RequestsSay' /\ Others'
  <1>1. Typed
    BY TypeParts DEF IInv
  <1>2. /\ UNCHANGED <<status, owner, org, raced, lapsed, req>>
    BY DEF EnsureUserSynced, RenewToken, AddMember, campaigns, zitadel, history
  <1>3. RequestsSay' /\ \A q \in Slot : Follows(q) /\ req'[q] = req[q]
    BY <1>2 DEF IInv, RequestsSay, Follows
  <1>4. \A c \in Campaign, v \in User : member[c][v] # "none" => member'[c][v] # "none"
    <2>1. CASE EnsureUserSynced(u)
      BY <1>1, <2>1 DEF EnsureUserSynced, SyncedRow, Missing, Typed
    <2>2. CASE RenewToken(u)
      BY <2>2 DEF RenewToken
    <2>3. ASSUME NEW c \in Campaign, NEW t \in User, AddMember(u, c, t)
          PROVE  \A d \in Campaign, v \in User : member[d][v] # "none" => member'[d][v] # "none"
      BY <1>1, <2>3 DEF AddMember, Typed
    <2> QED BY <2>1, <2>2, <2>3
  <1>5. \A q \in Slot : At(q, "delete", "deactivate") => req'[q] # Idle
    BY <1>3 DEF At, Idle
  <1> QED BY <1>2, <1>3, <1>4, <1>5, Kept

\* A request calls ZITADEL, is answered, gives up, or writes a row that stays.
LEMMA RequestStep ==
  ASSUME IInv, NEW s \in Slot,
         \/ CreateAssign(s) \/ CreateCollides(s) \/ JoinAssign(s) \/ JoinCommit(s)
         \/ RoleAssign(s) \/ RoleCommit(s) \/ RemoveRevoke(s)
         \/ TransferAssign(s) \/ TransferAborts(s) \/ TransferMisses(s)
         \/ CommitFails(s) \/ Undo(s) \/ Dies(s)
  PROVE  RequestsSay' /\ Others'
  <1>1. Typed /\ req \in [Slot -> RequestRow]
    BY TypeParts DEF IInv
  <1>2. Says(req[s])
    BY DEF IInv, RequestsSay
  <1>3. UNCHANGED <<status, owner, org, raced>>
    BY DEF CreateAssign, CreateCollides, JoinAssign, JoinCommit, RoleAssign, RoleCommit, RemoveRevoke,
           TransferAssign, TransferAborts, TransferMisses, CommitFails, Undo, Dies,
           campaigns, zitadel, history
  <1>4. \A c \in Campaign, v \in User : member[c][v] # "none" => member'[c][v] # "none"
    <2>1. CASE JoinCommit(s)
      BY <1>1, <1>2, <2>1 DEF JoinCommit, Typed
    <2>2. CASE RoleCommit(s)
      <3>1. req[s].role # "none"
        BY <1>2, <2>2, Vocabulary DEF RoleCommit, At, Says
      <3> QED BY <1>1, <2>2, <3>1 DEF RoleCommit, Typed
    <2>3. CASE ~JoinCommit(s) /\ ~RoleCommit(s)
      BY <2>3 DEF CreateAssign, CreateCollides, JoinAssign, RoleAssign, RemoveRevoke,
           TransferAssign, TransferAborts, TransferMisses, CommitFails, Undo, Dies, people
    <2> QED BY <2>1, <2>2, <2>3
  <1>5. RequestsSay' /\ \A q \in Slot : Follows(q)
    BY <1>2, GoingOn DEF IInv, CreateAssign, CreateCollides, JoinAssign, JoinCommit, RoleAssign,
           RoleCommit, RemoveRevoke, TransferAssign, TransferAborts, TransferMisses, CommitFails,
           Undo, Dies, At, Says
  <1>6. /\ lapsed => lapsed'
        /\ ~lapsed' => \A q \in Slot : At(q, "delete", "deactivate") => req'[q] # Idle
    <2>1. CASE Dies(s)
      <3>1. \A q \in Slot \ {s} : req'[q] = req[q]
        BY <1>1, <2>1 DEF Dies, Ends
      <3>2. lapsed' = (lapsed \/ req[s].at = "deactivate")
        BY <2>1 DEF Dies
      <3>3. (lapsed => lapsed') /\ (~lapsed' => req[s].at # "deactivate")
        BY <3>2, Zenon
      <3>4. \A q \in Slot : At(q, "delete", "deactivate") => req[q] # Idle
        BY DEF At, Idle
      <3> QED BY <3>1, <3>3, <3>4 DEF At
    <2>2. CASE ~Dies(s)
      <3>1. lapsed' = lapsed
        BY <2>2 DEF CreateAssign, CreateCollides, JoinAssign, JoinCommit, RoleAssign, RoleCommit,
           RemoveRevoke, TransferAssign, TransferAborts, TransferMisses, CommitFails, Undo, history
      <3>2. req[s].kind # "delete"
        BY <1>2, <2>2 DEF CreateAssign, CreateCollides, JoinAssign, JoinCommit, RoleAssign, RoleCommit,
           RemoveRevoke, TransferAssign, TransferAborts, TransferMisses, CommitFails, Undo, At, Says
      <3>3. \A q \in Slot \ {s} : req'[q] = req[q]
        BY <1>1, <2>2 DEF CreateAssign, CreateCollides, JoinAssign, JoinCommit, RoleAssign, RoleCommit,
           RemoveRevoke, TransferAssign, TransferAborts, TransferMisses, CommitFails, Undo, Goes, Ends
      <3> QED BY <3>1, <3>2, <3>3 DEF At, Idle
    <2> QED BY <2>1, <2>2
  <1> QED BY <1>3, <1>4, <1>5, <1>6, Kept

-----------------------------------------------------------------------------
(* Requests that are admitted *)

\* A request that has read what its action demands relies on nothing untrue.
LEMMA Admitted ==
  ASSUME IInv, NEW s \in Slot, NEW r \in RequestRow, Asked(s, r), Says(r),
         r.kind = "create" => r.c \notin Existing /\ \A q \in Slot : req[q].c # r.c,
         r.kind # "none", r.kind # "create" => r.c \in Existing,
         r.kind = "remove" => owner[r.c] # r.to,
         r.kind \in {"role", "remove", "transfer"} => member[r.c][r.to] # "none",
         UNCHANGED <<status, owner, member, org, raced>>
  PROVE  /\ RequestsSay' /\ CampaignsKnown' /\ OwnersKnown'
         /\ RemovalsSpareOwner' /\ RequestsSeeRow' /\ CreatorIsMember'
         /\ r.at # "deactivate" /\ UNCHANGED lapsed => DeletesKnow'
  <1> USE DEF IInv, Others
  <1>1. Existing' = Existing /\ Live' = Live
    BY DEF Existing, Live
  <1>2. req \in [Slot -> RequestRow]
    BY TypeParts
  <1>3. /\ req'[s] = r /\ req[s] = Idle
        /\ \A q \in Slot \ {s} : req'[q] = req[q]
    BY <1>2 DEF Asked, Free
  <1>4. RequestsSay'
    BY <1>3 DEF RequestsSay
  <1>5. CampaignsKnown'
    <2>1. ASSUME NEW q \in Slot \ {s}, req[q].kind = "create"
          PROVE  /\ req[q].c \notin Existing
                 /\ \A p \in Slot \ {q} : req'[p].c # req[q].c
      <3>1. req[q].c \in Campaign
        BY <2>1 DEF RequestsSay, Says
      <3>2. r.c # req[q].c
        BY <2>1 DEF CampaignsKnown
      <3> QED BY <1>3, <2>1, <3>2 DEF CampaignsKnown
    <2>2. ASSUME r.kind = "create" PROVE \A q \in Slot \ {s} : req'[q].c # r.c
      BY <1>3, <2>2
    <2> QED BY <1>1, <1>3, <2>1, <2>2 DEF CampaignsKnown
  <1>6. OwnersKnown' /\ CreatorIsMember'
    BY <1>1 DEF OwnersKnown, CreatorIsMember
  <1>7. RemovalsSpareOwner'
    BY <1>3 DEF RemovalsSpareOwner
  <1>8. RequestsSeeRow'
    BY <1>3 DEF RequestsSeeRow
  <1>9. ASSUME r.at # "deactivate", UNCHANGED lapsed PROVE DeletesKnow'
    <2>1. Idle.kind = "none"
      BY DEF Idle
    <2> QED BY <1>1, <1>3, <1>9, <2>1 DEF DeletesKnow, At
  <1> QED BY <1>4, <1>5, <1>6, <1>7, <1>8, <1>9

\* Each operation's first half does.
LEMMA ReadStep ==
  ASSUME IInv, NEW s \in Slot, NEW u \in User,
         \/ CreateRead(s, u)
         \/ \E c \in Campaign :
              \/ JoinFlush(s, u, c) \/ StatusRead(s, u, c) \/ DeleteFlush(s, u, c)
              \/ \E t \in User : \/ RoleRead(s, u, c, t) \/ RemoveRead(s, u, c, t)
                                 \/ TransferRead(s, u, c, t)
  PROVE  RequestsSay' /\ Others'
  <1>1. Typed
    BY TypeParts DEF IInv
  <1>3. CASE CreateRead(s, u)
    <2>1. PICK c \in Campaign \ Existing :
            /\ \A q \in Slot : req[q].c # c
            /\ Asked(s, [Idle EXCEPT !.kind = "create", !.at = "read", !.by = u, !.c = c])
      BY <1>3 DEF CreateRead
    <2> DEFINE r == [Idle EXCEPT !.kind = "create", !.at = "read", !.by = u, !.c = c]
    <2>2. r \in RequestRow
      BY AskedRows
    <2>3. r.kind = "create" /\ r.by = u /\ r.c = c /\ r.at = "read"
      BY DEF Idle
    <2>4. UNCHANGED <<status, owner, member, org, raced, lapsed>>
      BY <1>3 DEF CreateRead, campaigns, people, zitadel, history
    <2> HIDE DEF r
    <2>5. Says(r)
      BY <2>3 DEF Says
    <2> QED BY <2>1, <2>2, <2>3, <2>4, <2>5, Admitted DEF Others, r
  <1>4. ASSUME NEW c \in Campaign, JoinFlush(s, u, c) PROVE RequestsSay' /\ Others'
    <2> DEFINE r == [Idle EXCEPT !.kind = "join", !.at = "read", !.by = u, !.c = c]
    <2>1. Asked(s, r) /\ c \in Existing
      BY <1>4 DEF JoinFlush, Existing
    <2>2. r \in RequestRow
      BY AskedRows
    <2>3. r.kind = "join" /\ r.by = u /\ r.c = c /\ r.at = "read"
      BY DEF Idle
    <2>4. UNCHANGED <<status, owner, member, org, raced, lapsed>>
      BY <1>4 DEF JoinFlush, campaigns, people, zitadel, history
    <2> HIDE DEF r
    <2>5. Says(r)
      BY <2>3 DEF Says
    <2> QED BY <2>1, <2>2, <2>3, <2>4, <2>5, Admitted DEF Others
  <1>5. ASSUME NEW c \in Campaign, StatusRead(s, u, c) PROVE RequestsSay' /\ Others'
    <2>1. PICK move \in Transitions :
            /\ status[c] = move[1]
            /\ Asked(s, [Idle EXCEPT !.kind = "status", !.at = "read", !.by = u, !.c = c,
                           !.role = move[2], !.view = status[c]])
      BY <1>5 DEF StatusRead
    <2> DEFINE r == [Idle EXCEPT !.kind = "status", !.at = "read", !.by = u, !.c = c,
                       !.role = move[2], !.view = status[c]]
    <2>2. move[1] \in Status \ {"deleted"} /\ move[2] \in Status \ {"deleted"}
      BY DEF Transitions, Status
    <2>3. r \in RequestRow
      BY <2>1, <2>2, AskedRows
    <2>4. /\ r.kind = "status" /\ r.by = u /\ r.c = c /\ r.at = "read"
          /\ r.role = move[2] /\ r.view = status[c]
      BY DEF Idle
    <2>5. UNCHANGED <<status, owner, member, org, raced, lapsed>> /\ c \in Existing
      BY <1>5 DEF StatusRead, May, campaigns, people, zitadel, history
    <2> HIDE DEF r
    <2>6. Says(r)
      BY <2>1, <2>2, <2>4 DEF Says
    <2> QED BY <2>1, <2>3, <2>4, <2>5, <2>6, Admitted DEF Others, r
  <1>6. ASSUME NEW c \in Campaign, DeleteFlush(s, u, c) PROVE RequestsSay' /\ Others'
    <2> DEFINE r == [Idle EXCEPT !.kind = "delete", !.at = "flushed", !.by = u, !.c = c,
                       !.saw = Siblings(c)]
    <2>1. Asked(s, r) /\ c \in Existing
      BY <1>6 DEF DeleteFlush, May
    <2>2. r \in RequestRow
      <3>1. Siblings(c) \in SUBSET Campaign
        BY DEF Siblings, Live, Existing
      <3> QED BY <3>1, AskedRows
    <2>3. r.kind = "delete" /\ r.by = u /\ r.c = c /\ r.at = "flushed" /\ r.saw = Live \ {c}
      BY DEF Idle, Siblings
    <2>4. UNCHANGED <<status, owner, member, org, raced, lapsed>>
      BY <1>6 DEF DeleteFlush, campaigns, people, zitadel, history
    <2> HIDE DEF r
    <2>5. Says(r)
      BY <2>3 DEF Says
    <2> QED BY <2>1, <2>2, <2>3, <2>4, <2>5, Admitted DEF Others
  <1>7. ASSUME NEW c \in Campaign, NEW t \in User, RoleRead(s, u, c, t) PROVE RequestsSay' /\ Others'
    <2>1. PICK a \in Given \ {"owner"} :
            Asked(s, [Idle EXCEPT !.kind = "role", !.at = "read", !.by = u, !.c = c,
                        !.to = t, !.role = a, !.view = member[c][t]])
      BY <1>7 DEF RoleRead
    <2> DEFINE r == [Idle EXCEPT !.kind = "role", !.at = "read", !.by = u, !.c = c,
                       !.to = t, !.role = a, !.view = member[c][t]]
    <2>2. a \in Role /\ member[c][t] \in Role /\ member[c][t] # "none"
      <3>1. member[c][t] # "none"
        BY <1>7 DEF RoleRead
      <3>2. member[c][t] \in Role \cup {"none"}
        BY <1>1 DEF Typed
      <3> QED BY <3>1, <3>2, MembershipAssumption
    <2>3. r \in RequestRow
      BY <2>2, AskedRows
    <2>4. r.kind = "role" /\ r.by = u /\ r.c = c /\ r.at = "read" /\ r.to = t /\ r.role = a
      BY DEF Idle
    <2>5. UNCHANGED <<status, owner, member, org, raced, lapsed>> /\ c \in Existing
      BY <1>7 DEF RoleRead, May, campaigns, people, zitadel, history
    <2> HIDE DEF r
    <2>6. Says(r)
      BY <2>2, <2>4 DEF Says
    <2> QED BY <2>1, <2>2, <2>3, <2>4, <2>5, <2>6, Admitted DEF Others, r
  <1>8. ASSUME NEW c \in Campaign, NEW t \in User, RemoveRead(s, u, c, t) PROVE RequestsSay' /\ Others'
    <2> DEFINE r == [Idle EXCEPT !.kind = "remove", !.at = "read", !.by = u, !.c = c,
                       !.to = t, !.view = member[c][t]]
    <2>1. /\ Asked(s, r) /\ c \in Existing /\ owner[c] # t
          /\ member[c][t] \in Role /\ member[c][t] # "none"
      BY <1>1, <1>8 DEF RemoveRead, May, Removable, Typed
    <2>2. r \in RequestRow
      BY <2>1, AskedRows
    <2>3. r.kind = "remove" /\ r.by = u /\ r.c = c /\ r.at = "read" /\ r.to = t
      BY DEF Idle
    <2>4. UNCHANGED <<status, owner, member, org, raced, lapsed>>
      BY <1>8 DEF RemoveRead, campaigns, people, zitadel, history
    <2> HIDE DEF r
    <2>5. Says(r)
      BY <2>3 DEF Says
    <2> QED BY <2>1, <2>2, <2>3, <2>4, <2>5, Admitted DEF Others
  <1>9. ASSUME NEW c \in Campaign, NEW t \in User, TransferRead(s, u, c, t) PROVE RequestsSay' /\ Others'
    <2> DEFINE r == [Idle EXCEPT !.kind = "transfer", !.at = "read", !.by = u, !.c = c,
                       !.to = t, !.view = member[c][t], !.owner = owner[c]]
    <2>1. /\ Asked(s, r) /\ c \in Existing
          /\ member[c][t] # "none" /\ member[c][t] \in Role /\ owner[c] \in User \cup {None}
      <3>1. Asked(s, r) /\ c \in Existing /\ member[c][t] # "none"
        BY <1>9 DEF TransferRead, May
      <3>2. member[c][t] \in Role \cup {"none"} /\ owner[c] \in User \cup {None}
        BY <1>1 DEF Typed
      <3> QED BY <3>1, <3>2
    <2>2. r \in RequestRow
      BY <2>1, AskedRows
    <2>3. /\ r.kind = "transfer" /\ r.by = u /\ r.c = c /\ r.at = "read" /\ r.to = t
          /\ r.view = member[c][t]
      BY DEF Idle
    <2>4. UNCHANGED <<status, owner, member, org, raced, lapsed>>
      BY <1>9 DEF TransferRead, campaigns, people, zitadel, history
    <2> HIDE DEF r
    <2>5. Says(r)
      BY <2>1, <2>3 DEF Says
    <2> QED BY <2>1, <2>2, <2>3, <2>4, <2>5, Admitted DEF Others
  <1> QED BY <1>3, <1>4, <1>5, <1>6, <1>7, <1>8, <1>9

-----------------------------------------------------------------------------
(* Commits *)

\* A campaign appears, with its owner as its member; nobody else knew it.
LEMMA CreateStep ==
  ASSUME IInv, NEW s \in Slot, CreateCommit(s)
  PROVE  RequestsSay' /\ Others'
  <1> DEFINE c == req[s].c
             u == req[s].by
  <1> USE DEF IInv, Others
  <1>1. Typed /\ req \in [Slot -> RequestRow]
    BY TypeParts
  <1>2. At(s, "create", "asked") /\ c \in Campaign /\ u \in User /\ c \notin Existing
    BY DEF CreateCommit, RequestsSay, Says, At, CampaignsKnown
  <1>3. req'[s] = Idle /\ \A q \in Slot \ {s} : req'[q] = req[q]
    BY <1>1 DEF CreateCommit, Ends
  <1>4. Existing' = Existing \cup {c} /\ Live' = Live \cup {c}
    BY <1>1, <1>2 DEF CreateCommit, Existing, Live, Typed
  <1>5. /\ owner'[c] = u /\ member'[c][u] = "owner"
        /\ \A d \in Campaign \ {c} : owner'[d] = owner[d] /\ member'[d] = member[d]
        /\ raced' = raced /\ org' = org
    BY <1>1, <1>2 DEF CreateCommit, Typed, zitadel
  <1>6. Idle.kind = "none" /\ Idle.c = None /\ None \notin Campaign
    BY MembershipAssumption DEF Idle
  <1>7. \A q \in Slot \ {s} : req[q].c # c
    BY <1>2 DEF CampaignsKnown, At
  <1> HIDE DEF c, u
  <1>8. RequestsSay'
    BY <1>3 DEF RequestsSay, Says, Idle
  <1>9. CampaignsKnown'
    BY <1>3, <1>4, <1>6, <1>7 DEF CampaignsKnown, RequestsSay, Says
  <1>10. OwnersKnown' /\ CreatorIsMember'
    BY <1>2, <1>4, <1>5 DEF OwnersKnown, CreatorIsMember, Existing
  <1>11. \A q \in Slot \ {s} : req[q].kind # "none" => req[q].c \in Campaign \ {c}
    BY <1>7 DEF RequestsSay, Says
  <1>12. RemovalsSpareOwner' /\ RequestsSeeRow'
    BY <1>3, <1>5, <1>6, <1>11 DEF RemovalsSpareOwner, RequestsSeeRow
  <1>13. DeletesKnow'
    <2> SUFFICES ASSUME ~lapsed' PROVE DeletesKnow'
      BY DEF DeletesKnow
    <2>1. lapsed' = (lapsed \/ ~org \/ \E q \in Slot : At(q, "delete", "deactivate"))
      BY DEF CreateCommit
    <2>2. org /\ \A q \in Slot : ~At(q, "delete", "deactivate")
      BY <2>1, Zenon
    <2> QED BY <1>3, <1>4, <1>5, <1>6, <2>2 DEF DeletesKnow, At
  <1> QED BY <1>8, <1>9, <1>10, <1>12, <1>13

\* A row goes that was not the owner's; who has read it is told.
LEMMA RemoveStep ==
  ASSUME IInv, NEW s \in Slot, RemoveCommit(s)
  PROVE  RequestsSay' /\ Others'
  <1> DEFINE c == req[s].c
             t == req[s].to
  <1> USE DEF IInv, Others
  <1>1. Typed /\ req \in [Slot -> RequestRow]
    BY TypeParts
  <1>2. At(s, "remove", "asked") /\ c \in Campaign /\ t \in User
    BY DEF RemoveCommit, RequestsSay, Says, At
  <1>3. UNCHANGED <<status, owner, org, raced, lapsed>>
    BY DEF RemoveCommit, campaigns, zitadel, history
  <1>4. Existing' = Existing /\ Live' = Live
    BY <1>3 DEF Existing, Live
  <1>5. req'[s] = Idle /\ Idle.kind = "none" /\ Idle.c = None /\ None \notin Campaign
    BY MembershipAssumption DEF RemoveCommit, Idle
  <1>6. ASSUME NEW q \in Slot \ {s}
        PROVE  /\ req'[q].kind = req[q].kind /\ req'[q].at = req[q].at /\ req'[q].by = req[q].by
               /\ req'[q].c = req[q].c /\ req'[q].to = req[q].to
               /\ req'[q].role = req[q].role /\ req'[q].view = req[q].view
               /\ req'[q].saw = req[q].saw
               /\ ~req'[q].gone => ~req[q].gone /\ (req[q].c # c \/ req[q].to # t)
    <2>1. req'[q] = IF req[q].c = c /\ req[q].to = t THEN [req[q] EXCEPT !.gone = TRUE] ELSE req[q]
      BY DEF RemoveCommit
    <2>2. req[q] \in RequestRow
      BY <1>1
    <2> HIDE DEF c, t
    <2> QED BY <2>1, <2>2 DEF RequestRow
  <1>7. /\ \A d \in Campaign, v \in User : d # c \/ v # t => member'[d][v] = member[d][v]
        /\ req[s].gone => member' = member
    BY <1>1 DEF RemoveCommit, Typed
  <1>8. RequestsSay'
    <2>1. Says(Idle)
      BY DEF Idle, Says
    <2>2. \A q \in Slot \ {s} : Says(req[q]) => Says(req'[q])
      BY <1>6 DEF Says
    <2> QED BY <1>5, <2>1, <2>2 DEF RequestsSay
  <1>9. CampaignsKnown'
    BY <1>4, <1>5, <1>6 DEF CampaignsKnown, RequestsSay, Says
  <1>10. OwnersKnown'
    BY <1>3, <1>4 DEF OwnersKnown
  <1>11. CreatorIsMember'
    BY <1>2, <1>3, <1>4, <1>7 DEF CreatorIsMember, OwnersKnown, RemovalsSpareOwner, Existing, At
  <1>12. RemovalsSpareOwner'
    BY <1>3, <1>5, <1>6 DEF RemovalsSpareOwner
  <1>13. RequestsSeeRow'
    BY <1>5, <1>6, <1>7 DEF RequestsSeeRow, RequestsSay, Says
  <1>14. DeletesKnow'
    BY <1>2, <1>3, <1>4, <1>5, <1>6 DEF DeletesKnow, At
  <1> QED BY <1>8, <1>9, <1>10, <1>11, <1>12, <1>13, <1>14

\* The new owner has a row, or the campaign counts as raced.
LEMMA TransferStep ==
  ASSUME IInv, NEW s \in Slot, TransferCommit(s)
  PROVE  RequestsSay' /\ Others'
  <1> DEFINE c == req[s].c
             t == req[s].to
             u == req[s].by
  <1> USE DEF IInv, Others
  <1>1. Typed /\ req \in [Slot -> RequestRow]
    BY TypeParts
  <1>2. /\ At(s, "transfer", "asked") /\ c \in Campaign /\ t \in User /\ u \in User
        /\ c \in Existing
    BY DEF TransferCommit, RequestsSay, Says, At, CampaignsKnown
  <1>3. UNCHANGED <<status, org, lapsed>>
    BY DEF TransferCommit, zitadel
  <1>4. Existing' = Existing /\ Live' = Live
    BY <1>3 DEF Existing, Live
  <1>5. /\ req'[s] = Idle /\ Idle.kind = "none" /\ Idle.c = None /\ None \notin Campaign
        /\ \A q \in Slot \ {s} : req'[q] = req[q]
    BY <1>1, MembershipAssumption DEF TransferCommit, Ends, Idle
  <1>6. /\ \A d \in Campaign \ {c} : owner'[d] = owner[d] /\ member'[d] = member[d]
        /\ owner'[c] \in {owner[c], t}
    BY <1>1, <1>2 DEF TransferCommit, Typed
  <1>7. /\ \A v \in User \ {t} : member[c][v] # "none" => member'[c][v] # "none"
        /\ req[s].view # "owner" => member'[c][t] # "none"
        /\ member[c][t] # "none" => member'[c][t] # "none"
    BY <1>1, <1>2 DEF TransferCommit, Typed
  <1>8. /\ raced \subseteq raced'
        /\ req[s].gone => c \in raced'
        /\ \A q \in Slot : req[q].kind = "remove" /\ req[q].c = c /\ req[q].to = t => c \in raced'
    BY DEF TransferCommit
  <1> HIDE DEF c, t, u
  <1>9. RequestsSay'
    BY <1>5 DEF RequestsSay, Says, Idle
  <1>10. CampaignsKnown'
    BY <1>4, <1>5 DEF CampaignsKnown, RequestsSay, Says
  <1>11. OwnersKnown'
    BY <1>2, <1>4, <1>6 DEF OwnersKnown, Existing
  <1>12. CreatorIsMember'
    <2>1. ~req[s].gone => member[c][t] # "none"
      BY <1>2 DEF RequestsSeeRow, At, c, t
    <2>2. c \notin raced' => member[c][owner[c]] # "none" /\ owner[c] \in User
      BY <1>2, <1>8 DEF CreatorIsMember, OwnersKnown
    <2>3. c \notin raced' => member'[c][owner'[c]] # "none"
      BY <1>6, <1>7, <1>8, <2>1, <2>2
    <2> QED BY <1>2, <1>4, <1>6, <1>8, <2>3 DEF CreatorIsMember, Existing
  <1>13. RemovalsSpareOwner'
    <2> SUFFICES ASSUME NEW q \in Slot \ {s}, req[q].kind = "remove", ~req[q].gone
                 PROVE  owner'[req[q].c] # req[q].to \/ req[q].c \in raced'
      BY <1>5 DEF RemovalsSpareOwner
    <2>1. req[q].c \in Campaign
      BY DEF RequestsSay, Says
    <2> QED BY <1>6, <1>8, <2>1 DEF RemovalsSpareOwner
  <1>14. RequestsSeeRow'
    <2> SUFFICES ASSUME NEW q \in Slot \ {s}, req[q].kind \in {"role", "remove", "transfer"}, ~req[q].gone
                 PROVE  member'[req[q].c][req[q].to] # "none"
      BY <1>5 DEF RequestsSeeRow
    <2>1. /\ req[q].c \in Campaign /\ req[q].to \in User
          /\ member[req[q].c][req[q].to] # "none"
      BY DEF RequestsSay, Says, RequestsSeeRow
    <2> QED BY <1>6, <1>7, <2>1
  <1>15. DeletesKnow'
    BY <1>2, <1>3, <1>4, <1>5 DEF DeletesKnow, At
  <1> QED BY <1>9, <1>10, <1>11, <1>12, <1>13, <1>14, <1>15

\* A status is written on what was read, or the campaigns count as lapsed.
LEMMA StatusStep ==
  ASSUME IInv, NEW s \in Slot, StatusCommit(s)
  PROVE  RequestsSay' /\ Others'
  <1> DEFINE c == req[s].c
  <1> USE DEF IInv, Others
  <1>1. Typed /\ req \in [Slot -> RequestRow]
    BY TypeParts
  <1>2. /\ At(s, "status", "read") /\ c \in Existing
        /\ req[s].role \in Status \ {"deleted"} /\ req[s].view \in Status \ {"deleted"}
    BY DEF StatusCommit, RequestsSay, Says, At, CampaignsKnown
  <1>3. UNCHANGED <<owner, member, org, raced>>
    BY DEF StatusCommit, people, zitadel
  <1>4. Existing' = Existing /\ (status[c] = req[s].view => Live' = Live)
    BY <1>1, <1>2 DEF StatusCommit, Existing, Live, Typed, Status
  <1>5. /\ req'[s] = Idle /\ Idle.kind = "none" /\ Idle.c = None /\ None \notin Campaign
        /\ \A q \in Slot \ {s} : req'[q] = req[q]
    BY <1>1, MembershipAssumption DEF StatusCommit, Ends, Idle
  <1>6. RequestsSay'
    BY <1>5 DEF RequestsSay, Says, Idle
  <1>7. CampaignsKnown'
    BY <1>4, <1>5 DEF CampaignsKnown, RequestsSay, Says
  <1>8. OwnersKnown' /\ CreatorIsMember' /\ RemovalsSpareOwner' /\ RequestsSeeRow'
    BY <1>3, <1>4, <1>5 DEF OwnersKnown, CreatorIsMember, RemovalsSpareOwner, RequestsSeeRow
  <1>9. DeletesKnow'
    <2> SUFFICES ASSUME ~lapsed' PROVE DeletesKnow'
      BY DEF DeletesKnow
    <2>1. lapsed' = (lapsed \/ status[c] # req[s].view)
      BY DEF StatusCommit
    <2>2. ~lapsed /\ status[c] = req[s].view
      BY <2>1, Zenon
    <2> QED BY <1>2, <1>3, <1>4, <1>5, <2>2 DEF DeletesKnow, At
  <1> QED BY <1>6, <1>7, <1>8, <1>9

\* A campaign is deleted; its deletion goes on if it was the last.
LEMMA DeleteStep ==
  ASSUME IInv, NEW s \in Slot, DeleteCommit(s)
  PROVE  RequestsSay' /\ Others'
  <1> DEFINE c == req[s].c
  <1> USE DEF IInv, Others
  <1>1. Typed /\ req \in [Slot -> RequestRow]
    BY TypeParts
  <1>2. At(s, "delete", "flushed") /\ c \in Existing
    BY DEF DeleteCommit, At, CampaignsKnown
  <1>3. UNCHANGED <<owner, member, org, raced>>
    BY DEF DeleteCommit, people, zitadel
  <1>4. Existing' = Existing /\ Live' = Live \ {c}
    BY <1>1, <1>2 DEF DeleteCommit, Existing, Live, Typed
  <1>5. Idle.kind = "none" /\ Idle.c = None /\ None \notin Campaign /\ Says(Idle)
    BY MembershipAssumption DEF Idle, Says
  <1>6. /\ \A q \in Slot \ {s} : req'[q] = req[q]
        /\ IF req[s].saw = {} THEN req'[s] = [req[s] EXCEPT !.at = "deactivate"]
           ELSE req'[s] = Idle
    BY <1>1 DEF DeleteCommit, Goes, Ends
  <1>7. req[s].saw = {} => /\ req'[s].kind = "delete" /\ req'[s].at = "deactivate"
                           /\ req'[s].by = req[s].by /\ req'[s].c = c
    BY <1>1, <1>2, <1>6 DEF RequestRow, At
  <1>8. RequestsSay'
    <2>1. Says(req'[s])
      BY <1>2, <1>5, <1>6, <1>7 DEF RequestsSay, Says, At
    <2> QED BY <1>6, <2>1 DEF RequestsSay
  <1>9. CampaignsKnown'
    BY <1>2, <1>4, <1>5, <1>6, <1>7 DEF CampaignsKnown, RequestsSay, Says, At
  <1>10. OwnersKnown' /\ CreatorIsMember'
    BY <1>3, <1>4 DEF OwnersKnown, CreatorIsMember
  <1>11. RemovalsSpareOwner' /\ RequestsSeeRow'
    BY <1>3, <1>5, <1>6, <1>7 DEF RemovalsSpareOwner, RequestsSeeRow
  <1>12. DeletesKnow'
    <2> SUFFICES ASSUME ~lapsed' PROVE DeletesKnow'
      BY DEF DeletesKnow
    <2>1. lapsed' = (lapsed \/ (req[s].saw = {}) # (Siblings(c) = {}))
      BY DEF DeleteCommit
    <2>2. ~lapsed /\ (req[s].saw = {} <=> Live' = {})
      BY <1>4, <2>1 DEF Siblings
    <2>3. CASE req[s].saw = {}
      BY <1>6, <1>7, <2>2, <2>3 DEF DeletesKnow, At
    <2>4. CASE req[s].saw # {}
      <3>1. Live # {} /\ Live' # {}
        BY <1>4, <2>2, <2>4
      <3>2. org' /\ \A q \in Slot : ~At(q, "delete", "deactivate")
        BY <1>3, <2>2, <3>1 DEF DeletesKnow
      <3> QED BY <1>5, <1>6, <2>4, <3>1, <3>2 DEF DeletesKnow, At
    <2> QED BY <2>3, <2>4
  <1> QED BY <1>8, <1>9, <1>10, <1>11, <1>12

\* Nothing is left, and the organization ends.
LEMMA DeactivateStep ==
  ASSUME IInv, NEW s \in Slot, Deactivate(s)
  PROVE  RequestsSay' /\ Others'
  <1> USE DEF IInv, Others
  <1>1. req \in [Slot -> RequestRow]
    BY TypeParts
  <1>2. At(s, "delete", "deactivate") /\ UNCHANGED <<status, owner, member, raced>>
    BY DEF Deactivate, campaigns, people
  <1>3. Existing' = Existing /\ Live' = Live
    BY <1>2 DEF Existing, Live
  <1>4. /\ req'[s] = Idle /\ Idle.kind = "none" /\ Idle.c = None /\ None \notin Campaign
        /\ \A q \in Slot \ {s} : req'[q] = req[q]
    BY <1>1, MembershipAssumption DEF Deactivate, Ends, Idle
  <1>5. RequestsSay'
    BY <1>4 DEF RequestsSay, Says, Idle
  <1>6. CampaignsKnown'
    BY <1>3, <1>4 DEF CampaignsKnown, RequestsSay, Says
  <1>7. OwnersKnown' /\ CreatorIsMember' /\ RemovalsSpareOwner' /\ RequestsSeeRow'
    BY <1>2, <1>3, <1>4 DEF OwnersKnown, CreatorIsMember, RemovalsSpareOwner, RequestsSeeRow
  <1>8. DeletesKnow'
    <2> SUFFICES ASSUME ~lapsed' PROVE DeletesKnow'
      BY DEF DeletesKnow
    <2>1. ~lapsed /\ ~org'
      <3>1. CASE org' = FALSE /\ UNCHANGED lapsed
        BY <3>1
      <3>2. CASE lapsed' = TRUE
        BY <3>2
      <3> QED BY <3>1, <3>2 DEF Deactivate
    <2>2. Live = {}
      BY <1>2, <2>1 DEF DeletesKnow, At
    <2> QED BY <1>3, <1>4, <2>1, <2>2 DEF DeletesKnow, At
  <1> QED BY <1>5, <1>6, <1>7, <1>8

-----------------------------------------------------------------------------
(* Who has a grant *)

\* The row of u in c is about to be deleted, the grants are gone.
Leaving(u, c) ==
  \E s \in Slot : At(s, "remove", "asked") /\ req[s].c = c /\ req[s].to = u /\ ~req[s].gone

\* A row that nobody is about to delete.
Place(u) == \E c \in Campaign : member[c][u] # "none" /\ ~Leaving(u, c)

\* The request that has asked for the grant of r to u, or will restore it, and has
\* yet to commit or to take it back.
Awaits(s, u, r) ==
  \/ r = "owner" /\ req[s].kind = "create" /\ req[s].at \in {"asked", "again", "undo"} /\ req[s].by = u
  \/ r = "volunteer" /\ At(s, "join", "asked") /\ req[s].by = u
  \/ At(s, "role", "asked") /\ req[s].to = u /\ ~Leaving(u, req[s].c)
  \/ /\ req[s].kind = "transfer" /\ req[s].at \in {"asked", "undo"}
     /\ u \in {req[s].by, req[s].to} /\ ~Leaving(u, req[s].c)

\* Each grant has a place or a request that answers for it.
Accounted(u, r) == Place(u) \/ \E s \in Slot : Awaits(s, u, r)
GrantsAccounted == \A u \in User \ astray : \A r \in grant[u] : Accounted(u, r)

\* A registration holds the key of its member, which is not taken.
Joining(s, c, u) ==
  (At(s, "join", "read") \/ At(s, "join", "asked")) /\ req[s].c = c /\ req[s].by = u
JoinsHold ==
  \A s \in Slot, c \in Campaign, u \in User : Joining(s, c, u) =>
    member[c][u] = "none" /\ \A q \in Slot : Joining(q, c, u) => q = s

GInv == IInv /\ JoinsHold /\ GrantsAccounted

\* What keeps the registrations' keys: no request becomes one, and a row appears only
\* where there is none.
LEMMA KeysKept ==
  ASSUME JoinsHold,
         \A q \in Slot, c \in Campaign, u \in User : Joining(q, c, u)' => Joining(q, c, u),
         \A c \in Campaign, u \in User : member[c][u] = "none" /\ member'[c][u] # "none" =>
           \A q \in Slot : ~Joining(q, c, u)'
  PROVE  JoinsHold'
  <1> SUFFICES ASSUME NEW s \in Slot, NEW c \in Campaign, NEW u \in User, Joining(s, c, u)'
               PROVE  member'[c][u] = "none" /\ \A q \in Slot : Joining(q, c, u)' => q = s
    BY DEF JoinsHold
  <1> QED BY DEF JoinsHold

\* What keeps a user's grants accounted for: others' requests go on, rows disappear
\* only of those who leave, and the request that moves answers for what it did.
LEMMA AccountsKept ==
  ASSUME NEW u \in User, NEW s \in Slot,
         \A r \in grant[u] : Accounted(u, r),
         \A q \in Slot \ {s} :
           /\ req'[q].kind = req[q].kind /\ req'[q].at = req[q].at /\ req'[q].by = req[q].by
           /\ req'[q].c = req[q].c /\ req'[q].to = req[q].to
           /\ ~req'[q].gone => ~req[q].gone,
         ~(At(s, "remove", "asked")' /\ req'[s].to = u),
         \A c \in Campaign : member[c][u] # "none" /\ ~Leaving(u, c) => member'[c][u] # "none",
         \A r \in grant'[u] : \/ r \in grant[u] /\ (Awaits(s, u, r) => Awaits(s, u, r)')
                              \/ Awaits(s, u, r)'
                              \/ Place(u)'
  PROVE  \A r \in grant'[u] : Accounted(u, r)'
  <1>1. \A c : Leaving(u, c)' => Leaving(u, c)
    BY DEF Leaving, At
  <1>2. Place(u) => Place(u)'
    BY <1>1 DEF Place
  <1>3. \A q \in Slot \ {s} : \A r : Awaits(q, u, r) => Awaits(q, u, r)'
    BY <1>1 DEF Awaits, At
  <1> QED BY <1>2, <1>3 DEF Accounted

\* Every step leaves the keys of the registrations to them.
LEMMA JoinsStep ==
  ASSUME IInv, JoinsHold, [Next]_vars
  PROVE  JoinsHold'
  <1> USE DEF IInv, Others
  <1>1. Typed /\ req \in [Slot -> RequestRow]
    BY TypeParts
  <1>2. Idle.kind = "none"
    BY DEF Idle
  <1>3. CASE UNCHANGED vars
    <2>1. member' = member /\ req' = req
      BY <1>3 DEF vars
    <2> QED BY <2>1, KeysKept DEF Joining, At
  <1>4. ASSUME NEW u \in User, EnsureUserSynced(u) PROVE JoinsHold'
    <2>1. req' = req
      BY <1>4 DEF EnsureUserSynced
    <2>2. \A c \in Campaign, v \in User : member[c][v] = "none" /\ member'[c][v] # "none" =>
            v = u /\ c \in Missing(u)
      BY <1>1, <1>4 DEF EnsureUserSynced, SyncedRow, Typed
    <2>3. \A c \in Missing(u) : KeyFree(c, u)
      BY <1>4 DEF EnsureUserSynced
    <2> QED BY <2>1, <2>2, <2>3, KeysKept DEF Joining, KeyFree, At
  <1>5. ASSUME NEW u \in User, RenewToken(u) PROVE JoinsHold'
    <2>1. member' = member /\ req' = req
      BY <1>5 DEF RenewToken
    <2> QED BY <2>1, KeysKept DEF Joining, At
  <1>6. ASSUME NEW u \in User, NEW c \in Campaign, NEW t \in User, AddMember(u, c, t) PROVE JoinsHold'
    <2>1. req' = req /\ KeyFree(c, t)
      BY <1>6 DEF AddMember
    <2>2. \A d \in Campaign, v \in User : member[d][v] = "none" /\ member'[d][v] # "none" => d = c /\ v = t
      BY <1>1, <1>6 DEF AddMember, Typed
    <2> QED BY <2>1, <2>2, KeysKept DEF Joining, KeyFree, At
  <1>7. ASSUME NEW s \in Slot, NEW r, Asked(s, r), r.kind # "join", UNCHANGED member
        PROVE  JoinsHold'
    <2>1. req'[s] = r /\ \A q \in Slot \ {s} : req'[q] = req[q]
      BY <1>1, <1>7 DEF Asked
    <2> QED BY <1>7, <2>1, KeysKept DEF Joining, At
  <1>8. ASSUME NEW s \in Slot, NEW u \in User, CreateRead(s, u) PROVE JoinsHold'
    <2>1. PICK c \in Campaign :
            Asked(s, [Idle EXCEPT !.kind = "create", !.at = "read", !.by = u, !.c = c])
      BY <1>8 DEF CreateRead
    <2> DEFINE r == [Idle EXCEPT !.kind = "create", !.at = "read", !.by = u, !.c = c]
    <2>2. r.kind = "create" /\ UNCHANGED member
      BY <1>8 DEF Idle, CreateRead, people
    <2> HIDE DEF r
    <2> QED BY <1>7, <2>1, <2>2 DEF r
  <1>9. ASSUME NEW s \in Slot, NEW u \in User, NEW c \in Campaign, JoinFlush(s, u, c) PROVE JoinsHold'
    <2> DEFINE r == [Idle EXCEPT !.kind = "join", !.at = "read", !.by = u, !.c = c]
    <2>1. r.kind = "join" /\ r.at = "read" /\ r.by = u /\ r.c = c
      BY DEF Idle
    <2>2. req'[s] = r /\ \A q \in Slot \ {s} : req'[q] = req[q]
      BY <1>1, <1>9 DEF JoinFlush, Asked
    <2>3. member' = member /\ member[c][u] = "none" /\ \A q \in Slot : ~Joining(q, c, u)
      BY <1>9 DEF JoinFlush, people, KeyFree, Joining
    <2> HIDE DEF r
    <2>4. Joining(s, c, u)' /\ \A d, v : Joining(s, d, v)' => d = c /\ v = u
      BY <2>1, <2>2 DEF Joining, At
    <2>5. \A q \in Slot \ {s} : \A d, v : Joining(q, d, v)' <=> Joining(q, d, v)
      BY <2>2 DEF Joining, At
    <2> QED BY <2>3, <2>4, <2>5 DEF JoinsHold
  <1>10. ASSUME NEW s \in Slot, NEW u \in User, NEW c \in Campaign, StatusRead(s, u, c) PROVE JoinsHold'
    <2>1. PICK move \in Transitions :
            Asked(s, [Idle EXCEPT !.kind = "status", !.at = "read", !.by = u, !.c = c,
                        !.role = move[2], !.view = status[c]])
      BY <1>10 DEF StatusRead
    <2> DEFINE r == [Idle EXCEPT !.kind = "status", !.at = "read", !.by = u, !.c = c,
                       !.role = move[2], !.view = status[c]]
    <2>2. r.kind = "status" /\ UNCHANGED member
      BY <1>10 DEF Idle, StatusRead, people
    <2> HIDE DEF r
    <2> QED BY <1>7, <2>1, <2>2 DEF r
  <1>11. ASSUME NEW s \in Slot, NEW u \in User, NEW c \in Campaign, DeleteFlush(s, u, c) PROVE JoinsHold'
    <2> DEFINE r == [Idle EXCEPT !.kind = "delete", !.at = "flushed", !.by = u, !.c = c,
                       !.saw = Siblings(c)]
    <2>1. Asked(s, r) /\ r.kind = "delete" /\ UNCHANGED member
      BY <1>11 DEF Idle, DeleteFlush, people
    <2> HIDE DEF r
    <2> QED BY <1>7, <2>1
  <1>12. ASSUME NEW s \in Slot, NEW u \in User, NEW c \in Campaign, NEW t \in User,
                RoleRead(s, u, c, t) \/ RemoveRead(s, u, c, t) \/ TransferRead(s, u, c, t)
         PROVE  JoinsHold'
    <2>1. UNCHANGED member
      BY <1>12 DEF RoleRead, RemoveRead, TransferRead, people
    <2>2. CASE RoleRead(s, u, c, t)
      <3>1. PICK a \in Given \ {"owner"} :
              Asked(s, [Idle EXCEPT !.kind = "role", !.at = "read", !.by = u, !.c = c,
                          !.to = t, !.role = a, !.view = member[c][t]])
        BY <2>2 DEF RoleRead
      <3> DEFINE r == [Idle EXCEPT !.kind = "role", !.at = "read", !.by = u, !.c = c,
                         !.to = t, !.role = a, !.view = member[c][t]]
      <3>2. r.kind = "role"
        BY DEF Idle
      <3> HIDE DEF r
      <3> QED BY <1>7, <2>1, <3>1, <3>2 DEF r
    <2>3. CASE RemoveRead(s, u, c, t)
      <3> DEFINE r == [Idle EXCEPT !.kind = "remove", !.at = "read", !.by = u, !.c = c,
                         !.to = t, !.view = member[c][t]]
      <3>1. Asked(s, r) /\ r.kind = "remove"
        BY <2>3 DEF Idle, RemoveRead
      <3> HIDE DEF r
      <3> QED BY <1>7, <2>1, <3>1
    <2>4. CASE TransferRead(s, u, c, t)
      <3> DEFINE r == [Idle EXCEPT !.kind = "transfer", !.at = "read", !.by = u, !.c = c,
                         !.to = t, !.view = member[c][t], !.owner = owner[c]]
      <3>1. Asked(s, r) /\ r.kind = "transfer"
        BY <2>4 DEF Idle, TransferRead
      <3> HIDE DEF r
      <3> QED BY <1>7, <2>1, <3>1
    <2> QED BY <1>12, <2>2, <2>3, <2>4
  <1>13. ASSUME NEW s \in Slot,
                \A q \in Slot \ {s} : req'[q].kind = req[q].kind /\ req'[q].at = req[q].at
                                      /\ req'[q].c = req[q].c /\ req'[q].by = req[q].by,
                \/ req'[s].kind # "join"
                \/ req'[s].at \notin {"read", "asked"}
                \/ req[s].at = "read" /\ req[s].kind = "join"
                     /\ req'[s].c = req[s].c /\ req'[s].by = req[s].by,
                \A c \in Campaign, u \in User : member[c][u] = "none" /\ member'[c][u] # "none" =>
                  \A q \in Slot : ~Joining(q, c, u)'
         PROVE  JoinsHold'
    <2>1. \A q \in Slot, c \in Campaign, u \in User : Joining(q, c, u)' => Joining(q, c, u)
      BY <1>13 DEF Joining, At
    <2> QED BY <1>13, <2>1, KeysKept
  <1>14. ASSUME NEW s \in Slot,
                \/ CreateAssign(s) \/ CreateCollides(s) \/ RoleAssign(s) \/ RemoveRevoke(s)
                \/ TransferAssign(s) \/ TransferAborts(s) \/ TransferMisses(s) \/ CommitFails(s)
                \/ Undo(s) \/ Dies(s) \/ StatusCommit(s) \/ DeleteCommit(s) \/ Deactivate(s)
                \/ JoinAssign(s)
         PROVE  JoinsHold'
    <2>1. UNCHANGED member
      BY <1>14 DEF CreateAssign, CreateCollides, RoleAssign, RemoveRevoke, TransferAssign, TransferAborts,
           TransferMisses, CommitFails, Undo, Dies, StatusCommit, DeleteCommit, Deactivate, JoinAssign,
           people
    <2>2. \A q \in Slot \ {s} : req'[q] = req[q]
      BY <1>1, <1>14 DEF CreateAssign, CreateCollides, RoleAssign, RemoveRevoke, TransferAssign, TransferAborts,
           TransferMisses, CommitFails, Undo, Dies, StatusCommit, DeleteCommit, Deactivate, JoinAssign,
           Goes, Ends
    <2>3. \/ req'[s] = Idle
          \/ req'[s] = [req[s] EXCEPT !.at = "undo"]
          \/ req'[s] = [req[s] EXCEPT !.at = "asked"] /\ At(s, "join", "read")
          \/ \E at \in {"asked", "again", "deactivate"} :
               req'[s] = [req[s] EXCEPT !.at = at] /\ req[s].kind # "join"
      BY <1>1, <1>14 DEF CreateAssign, CreateCollides, RoleAssign, RemoveRevoke, TransferAssign, TransferAborts,
           TransferMisses, CommitFails, Undo, Dies, StatusCommit, DeleteCommit, Deactivate, JoinAssign,
           Goes, Ends, At
    <2>4. \/ req'[s].kind # "join"
          \/ req'[s].at \notin {"read", "asked"}
          \/ req[s].at = "read" /\ req[s].kind = "join"
               /\ req'[s].c = req[s].c /\ req'[s].by = req[s].by
      BY <1>1, <1>2, <2>3 DEF RequestRow, At
    <2> QED BY <1>13, <2>1, <2>2, <2>4
  <1>15. ASSUME NEW s \in Slot, CreateCommit(s) PROVE JoinsHold'
    <2>1. req'[s] = Idle /\ \A q \in Slot \ {s} : req'[q] = req[q]
      BY <1>1, <1>15 DEF CreateCommit, Ends
    <2>2. PICK d : d = req[s].c
      OBVIOUS
    <2>3. /\ \A c \in Campaign \ {d} : member'[c] = member[c]
          /\ \A q \in Slot \ {s} : req[q].c # d
      BY <1>1, <1>15, <2>2 DEF CreateCommit, Typed, CampaignsKnown, At
    <2>4. \A q \in Slot, u \in User : ~Joining(q, d, u)'
      BY <1>2, <2>1, <2>3 DEF Joining, At
    <2>5. \A c \in Campaign, u \in User : member[c][u] = "none" /\ member'[c][u] # "none" =>
                  \A q \in Slot : ~Joining(q, c, u)'
      BY <2>3, <2>4
    <2> QED BY <1>2, <1>13, <2>1, <2>5
  <1>16. ASSUME NEW s \in Slot, JoinCommit(s) PROVE JoinsHold'
    <2>1. req'[s] = Idle /\ \A q \in Slot \ {s} : req'[q] = req[q]
      BY <1>1, <1>16 DEF JoinCommit, Ends
    <2>2. PICK d \in Campaign, v \in User : d = req[s].c /\ v = req[s].by
      BY <1>16 DEF JoinCommit, RequestsSay, Says, At
    <2>3. Joining(s, d, v)
      BY <1>16, <2>2 DEF JoinCommit, Joining
    <2>4. \A c \in Campaign, u \in User : member[c][u] = "none" /\ member'[c][u] # "none" =>
            c = d /\ u = v
      BY <1>1, <1>16, <2>2 DEF JoinCommit, Typed
    <2>5. \A q \in Slot : ~Joining(q, d, v)'
      BY <1>2, <2>1, <2>3 DEF JoinsHold, Joining, At
    <2>6. \A c \in Campaign, u \in User : member[c][u] = "none" /\ member'[c][u] # "none" =>
            \A q \in Slot : ~Joining(q, c, u)'
      BY <2>4, <2>5
    <2> QED BY <1>2, <1>13, <2>1, <2>6
  <1>17. ASSUME NEW s \in Slot, RoleCommit(s) \/ TransferCommit(s) PROVE JoinsHold'
    <2>1. req'[s] = Idle /\ \A q \in Slot \ {s} : req'[q] = req[q]
      BY <1>1, <1>17 DEF RoleCommit, TransferCommit, Ends
    <2>2. req[s].c \in Campaign /\ req[s].to \in User
      BY <1>17 DEF RoleCommit, TransferCommit, RequestsSay, Says, At
    <2>3. ~req[s].gone => member[req[s].c][req[s].to] # "none"
      BY <1>17 DEF RoleCommit, TransferCommit, RequestsSeeRow, At
    <2>4. \A c \in Campaign, u \in User : member[c][u] = "none" => member'[c][u] = "none"
      <3>1. CASE RoleCommit(s)
        BY <1>1, <2>2, <2>3, <3>1 DEF RoleCommit, Typed
      <3>2. CASE TransferCommit(s)
        BY <1>1, <2>2, <2>3, <3>2 DEF TransferCommit, NewOwnerStays, Typed
      <3> QED BY <1>17, <3>1, <3>2
    <2> QED BY <1>2, <1>13, <2>1, <2>4
  <1>18. ASSUME NEW s \in Slot, RemoveCommit(s) PROVE JoinsHold'
    <2>1. req'[s] = Idle
      BY <1>18 DEF RemoveCommit
    <2>2. ASSUME NEW q \in Slot \ {s}
          PROVE req'[q].kind = req[q].kind /\ req'[q].at = req[q].at
                /\ req'[q].c = req[q].c /\ req'[q].by = req[q].by
      <3>1. req'[q] = req[q] \/ req'[q] = [req[q] EXCEPT !.gone = TRUE]
        BY <1>18 DEF RemoveCommit
      <3> QED BY <1>1, <3>1 DEF RequestRow
    <2>3. \A c \in Campaign, u \in User : member[c][u] = "none" => member'[c][u] = "none"
      BY <1>1, <1>18 DEF RemoveCommit, Typed
    <2> QED BY <1>2, <1>13, <2>1, <2>2, <2>3
  <1> QED BY <1>3, <1>4, <1>5, <1>6, <1>8, <1>9, <1>10, <1>11, <1>12, <1>14, <1>15, <1>16, <1>17, <1>18
          DEF Next

\* What is taken back concerns the two users of the request only.
LEMMA TakenBackFrom ==
  ASSUME NEW s \in Slot, TypeOK, RequestsSay, req[s].at = "undo",
         NEW i \in 0..4, NEW g \in TakenBack(s, i)
  PROVE  /\ \A v \in User \ {req[s].by, req[s].to} : g[v] = grant[v]
         /\ i = 0 /\ req[s].kind = "create" => g[req[s].by] = grant[req[s].by] \ {"owner"}
         /\ req[s].kind # "transfer" => \A v \in User \ {req[s].by} : g[v] = grant[v]
  <1> DEFINE Grants == [User -> SUBSET Role]
             u == req[s].by
             t == req[s].to
  <1>1. grant \in Grants /\ u \in User
    BY DEF TypeOK, RequestsSay, Says
  <1>2. \A f \in Grants, v \in User : \A r :
          /\ Revoke(f, v, r) \in Grants
          /\ Revoke(f, v, r)[v] = f[v] \ {r}
          /\ \A w \in User \ {v} : Revoke(f, v, r)[w] = f[w]
    BY DEF Revoke
  <1>3. \A f \in Grants, v \in User, r \in Role : \A h \in Assign(f, v, r) :
           h \in Grants /\ \A w \in User \ {v} : h[w] = f[w]
    BY DEF Assign
  <1>4. CASE req[s].kind = "create"
    <2>1. g \in {grant, Revoke(grant, u, "owner")} /\ (i = 0 => g = Revoke(grant, u, "owner"))
      BY <1>4 DEF TakenBack
    <2> HIDE DEF u, t, Grants
    <2>2. /\ \A v \in User \ {u} : g[v] = grant[v]
          /\ i = 0 => g[u] = grant[u] \ {"owner"}
      BY <1>1, <1>2, <2>1
    <2> QED BY <1>4, <2>2 DEF u, t
  <1>6. CASE req[s].kind = "transfer"
    <2> DEFINE Without(f, v, r, n) == IF n = i THEN f ELSE Revoke(f, v, r)
               With(f, v, r, n) == IF n = i THEN {f} ELSE Assign(f, v, r)
               Beside(f) == f \in Grants /\ \A v \in User \ {u, t} : f[v] = grant[v]
    <2>1. t \in User /\ req[s].view \in Role
      BY <1>6 DEF RequestsSay, Says
    <2>2. "owner" \in Role
      BY Vocabulary
    <2>3. PICK f \in With(Without(grant, t, "owner", 1), t, req[s].view, 2) :
            g \in With(Without(f, u, "admin", 3), u, "owner", 4)
      BY <1>6 DEF TakenBack
    <2>4. ASSUME NEW h, Beside(h), NEW v \in {u, t}, NEW r \in Role, NEW n
          PROVE  /\ Beside(Without(h, v, r, n)) /\ \A k \in With(h, v, r, n) : Beside(k)
      <3>1. v \in User /\ h \in Grants
        BY <1>1, <2>1, <2>4
      <3> HIDE DEF u, t, Grants
      <3>2. Beside(Revoke(h, v, r)) /\ \A k \in Assign(h, v, r) : Beside(k)
        BY <1>2, <1>3, <2>4, <3>1
      <3> QED BY <2>4, <3>2
    <2>5. \A h, n : Beside(h) => Beside(Without(h, u, "admin", n))
      <3> HIDE DEF u, t, Grants
      <3> QED BY <1>1, <1>2
    <2>6. Beside(grant)
      BY <1>1
    <2> HIDE DEF u, t, Grants, Beside, With, Without
    <2>7. Beside(Without(grant, t, "owner", 1))
      BY <2>2, <2>4, <2>6
    <2>8. Beside(f)
      BY <2>1, <2>3, <2>4, <2>7
    <2>9. Beside(Without(f, u, "admin", 3))
      BY <2>5, <2>8
    <2>10. Beside(g)
      BY <2>2, <2>3, <2>4, <2>9
    <2> QED BY <1>6, <2>10 DEF Beside, u, t
  <1> QED BY <1>4, <1>6 DEF RequestsSay, Says

\* Requests that only read, status changes and deletions are about nobody's grants.
LEMMA QuietStep ==
  ASSUME TypeOK, NEW s \in Slot, NEW u \in User,
         \A r \in grant[u] : Accounted(u, r),
         \A q \in Slot \ {s} : req'[q] = req[q],
         UNCHANGED <<member, grant>>,
         req[s] = Idle \/ req[s].kind \in {"status", "delete"},
         req'[s].at = "read" \/ req'[s].kind \in {"none", "status", "delete"}
  PROVE  \A r \in grant'[u] : Accounted(u, r)'
  <1>1. Idle.kind = "none"
    BY DEF Idle
  <1>2. \A r : ~Awaits(s, u, r)
    BY <1>1 DEF Awaits, At
  <1>3. ~(At(s, "remove", "asked")' /\ req'[s].to = u)
    BY DEF At
  <1> QED BY <1>2, <1>3, AccountsKept

\* A request that calls ZITADEL answers for what is granted to its users until it
\* has committed or has taken it back; what it gives up leaves them astray.
LEMMA CallStep ==
  ASSUME IInv, GrantsAccounted, NEW s \in Slot,
         \/ CreateAssign(s) \/ CreateCollides(s) \/ JoinAssign(s) \/ RoleAssign(s)
         \/ RemoveRevoke(s) \/ TransferAssign(s) \/ TransferMisses(s) \/ CommitFails(s)
         \/ Undo(s) \/ Dies(s) \/ TransferAborts(s)
  PROVE  GrantsAccounted'
  <1> USE DEF IInv, Others
  <1>1. Typed /\ req \in [Slot -> RequestRow] /\ Says(req[s])
    BY TypeParts DEF RequestsSay
  <1>2. Idle.kind = "none" /\ Idle.at = "idle"
    BY DEF Idle
  <1>3. /\ \A q \in Slot \ {s} : req'[q] = req[q]
        /\ UNCHANGED member /\ astray \subseteq astray'
    BY <1>1 DEF CreateAssign, CreateCollides, RoleAssign, RemoveRevoke, TransferAssign, TransferAborts,
           TransferMisses, CommitFails, Undo, Dies, JoinAssign, people, history, Goes, Ends
  <1> SUFFICES ASSUME NEW u \in User \ astray'
               PROVE  \A r \in grant'[u] : Accounted(u, r)'
    BY DEF GrantsAccounted
  <1>4. \A r \in grant[u] : Accounted(u, r)
    BY <1>3 DEF GrantsAccounted
  <1>5. ASSUME ~(At(s, "remove", "asked")' /\ req'[s].to = u),
               \A r \in grant'[u] : \/ r \in grant[u] /\ (Awaits(s, u, r) => Awaits(s, u, r)')
                                    \/ Awaits(s, u, r)'
                                    \/ Place(u)'
        PROVE  \A r \in grant'[u] : Accounted(u, r)'
    BY <1>3, <1>4, <1>5, AccountsKept
  <1>6. ASSUME ~(At(s, "remove", "asked")' /\ req'[s].to = u)
        PROVE  \A c : Leaving(u, c)' => Leaving(u, c)
    BY <1>3, <1>6 DEF Leaving, At
  <1>7. \A at : Goes(s, at) => /\ req'[s].kind = req[s].kind /\ req'[s].at = at
                               /\ req'[s].by = req[s].by /\ req'[s].c = req[s].c
                               /\ req'[s].to = req[s].to
    <2> SUFFICES ASSUME NEW at, Goes(s, at)
                 PROVE  /\ req'[s].kind = req[s].kind /\ req'[s].at = at
                        /\ req'[s].by = req[s].by /\ req'[s].c = req[s].c
                        /\ req'[s].to = req[s].to
      OBVIOUS
    <2>1. req'[s] = [req[s] EXCEPT !.at = at]
      BY <1>1 DEF Goes
    <2> QED BY <1>1, <2>1 DEF RequestRow
  <1>8. Ends(s) => req'[s] = Idle
    BY <1>1 DEF Ends
  <1>9. CASE CreateAssign(s)
    <2>1. /\ req'[s].kind = "create" /\ req'[s].by = req[s].by /\ req[s].by \in User
          /\ req'[s].at \in {"asked", "undo"}
          /\ At(s, "create", "read") \/ At(s, "create", "again")
      BY <1>1, <1>7, <1>9 DEF CreateAssign, At, Says
    <2>2. \A r \in grant'[u] : r \in grant[u] \/ (u = req[s].by /\ r = "owner")
      BY <1>1, <1>9, <2>1 DEF CreateAssign, Assign, Typed
    <2>3. \A r : Awaits(s, u, r) => Awaits(s, u, r)'
      BY <2>1 DEF Awaits, At
    <2>4. u = req[s].by => Awaits(s, u, "owner")'
      BY <2>1 DEF Awaits
    <2> QED BY <1>5, <2>1, <2>2, <2>3, <2>4 DEF At
  <1>10. CASE CreateCollides(s) \/ CommitFails(s)
    <2>1. /\ req'[s].kind = req[s].kind /\ req'[s].by = req[s].by /\ req'[s].c = req[s].c
          /\ req'[s].to = req[s].to /\ req'[s].at \in {"again", "undo"} /\ req[s].at = "asked"
          /\ req'[s].at = "again" => req[s].kind = "create"
          /\ req[s].kind \in {"create", "transfer"}
      BY <1>7, <1>10 DEF CreateCollides, CommitFails, At
    <2>2. UNCHANGED grant
      BY <1>10 DEF CreateCollides, CommitFails, zitadel
    <2>3. ~(At(s, "remove", "asked")' /\ req'[s].to = u)
      BY <2>1 DEF At
    <2>4. \A r : Awaits(s, u, r) => Awaits(s, u, r)'
      BY <1>6, <2>1, <2>3 DEF Awaits, At
    <2> QED BY <1>5, <2>2, <2>3, <2>4
  <1>11. CASE JoinAssign(s)
    <2>1. req[s].by \in User /\ req[s].kind = "join" /\ req[s].at = "read"
      BY <1>1, <1>11 DEF JoinAssign, At, Says
    <2>2. \A r \in grant'[u] : r \in grant[u] \/ (u = req[s].by /\ r = "volunteer")
      BY <1>1, <1>11, <2>1 DEF JoinAssign, Assign, Typed
    <2>3. u = req[s].by => Goes(s, "asked")
      BY <1>11 DEF JoinAssign
    <2>4. u = req[s].by => Awaits(s, u, "volunteer")'
      BY <1>7, <2>1, <2>3 DEF Awaits, At
    <2>5. ~(At(s, "remove", "asked")' /\ req'[s].to = u)
      BY <1>2, <1>7, <1>8, <1>11, <2>1 DEF JoinAssign, At
    <2>6. \A r : ~Awaits(s, u, r)
      BY <2>1 DEF Awaits, At
    <2> QED BY <1>5, <2>2, <2>4, <2>5, <2>6
  <1>12. CASE RoleAssign(s)
    <2>1. /\ req'[s].kind = "role" /\ req'[s].at = "asked" /\ req[s].kind = "role" /\ req[s].at = "read"
          /\ req'[s].to = req[s].to /\ req'[s].c = req[s].c /\ req[s].to \in User
      BY <1>1, <1>7, <1>12 DEF RoleAssign, At, Says
    <2>2. ~At(s, "remove", "asked")' /\ \A r : ~Awaits(s, u, r)
      BY <2>1 DEF At, Awaits
    <2>3. CASE u = req[s].to
      <3>1. ~BeingRemoved(u)
        BY <1>12, <2>3 DEF RoleAssign
      <3>2. \A c : ~Leaving(u, c)
        BY <3>1 DEF BeingRemoved, Leaving
      <3>3. \A c : ~Leaving(u, c)'
        BY <1>6, <2>2, <3>2
      <3>4. \A r : Awaits(s, u, r)'
        BY <2>1, <2>3, <3>3 DEF Awaits, At
      <3> QED BY <1>5, <2>2, <3>4
    <2>4. CASE u # req[s].to
      <3>1. grant'[u] = grant[u]
        BY <1>1, <1>12, <2>4 DEF RoleAssign, Typed
      <3> QED BY <1>5, <2>2, <3>1
    <2> QED BY <2>3, <2>4
  <1>13. CASE RemoveRevoke(s)
    <2>1. /\ req'[s].kind = "remove" /\ req'[s].at = "asked" /\ req[s].kind = "remove"
          /\ req'[s].to = req[s].to /\ req[s].to \in User
      BY <1>1, <1>7, <1>13 DEF RemoveRevoke, At, Says
    <2>2. CASE u = req[s].to
      <3>1. grant'[u] = {}
        BY <1>1, <1>13, <2>2 DEF RemoveRevoke, RevokeAll, Typed
      <3> QED BY <3>1
    <2>3. CASE u # req[s].to
      <3>1. grant'[u] = grant[u]
        BY <1>1, <1>13, <2>3 DEF RemoveRevoke, RevokeAll, Typed
      <3>2. ~(At(s, "remove", "asked")' /\ req'[s].to = u) /\ \A r : ~Awaits(s, u, r)
        BY <2>1, <2>3 DEF At, Awaits
      <3> QED BY <1>5, <3>1, <3>2
    <2> QED BY <2>2, <2>3
  <1>14. CASE TransferAssign(s)
    <2>1. /\ req'[s].kind = "transfer" /\ req'[s].at = "asked" /\ req[s].kind = "transfer"
          /\ req[s].at = "read" /\ req'[s].to = req[s].to /\ req'[s].by = req[s].by
          /\ req[s].to \in User /\ req[s].by \in User /\ req[s].view \in Role
      BY <1>1, <1>7, <1>14 DEF TransferAssign, At, Says
    <2>2. ~At(s, "remove", "asked")' /\ \A r : ~Awaits(s, u, r)
      BY <2>1 DEF At, Awaits
    <2>3. CASE u \in {req[s].by, req[s].to}
      <3>1. ~BeingRemoved(u)
        BY <1>14, <2>3 DEF TransferAssign
      <3>2. \A c : ~Leaving(u, c)
        BY <3>1 DEF BeingRemoved, Leaving
      <3>3. \A c : ~Leaving(u, c)'
        BY <1>6, <2>2, <3>2
      <3>4. \A r : Awaits(s, u, r)'
        BY <2>1, <2>3, <3>3 DEF Awaits, At
      <3> QED BY <1>5, <2>2, <3>4
    <2>4. CASE u \notin {req[s].by, req[s].to}
      <3> DEFINE Grants == [User -> SUBSET Role]
      <3>1. grant \in Grants /\ "owner" \in Role /\ "admin" \in Role
        BY <1>1, Vocabulary DEF Typed
      <3>2. \A f \in Grants, v \in User \ {u} : \A r :
              Revoke(f, v, r) \in Grants /\ Revoke(f, v, r)[u] = f[u]
        BY DEF Revoke
      <3>3. \A f \in Grants, v \in User \ {u}, r \in Role : \A h \in Assign(f, v, r) :
               h \in Grants /\ h[u] = f[u]
        BY DEF Assign
      <3> DEFINE g1 == Revoke(grant, req[s].by, "owner")
      <3>4. PICK g2 \in Assign(g1, req[s].by, "admin") :
              LET g3 == Revoke(g2, req[s].to, req[s].view)
              IN  \E g4 \in Assign(g3, req[s].to, "owner") :
                    grant' \in {grant, g1, g2, g3, g4}
        BY <1>14 DEF TransferAssign
      <3> DEFINE g3 == Revoke(g2, req[s].to, req[s].view)
      <3>5. PICK g4 \in Assign(g3, req[s].to, "owner") : grant' \in {grant, g1, g2, g3, g4}
        BY <3>4
      <3>6. req[s].by \in User \ {u} /\ req[s].to \in User \ {u}
        BY <2>1, <2>4
      <3> HIDE DEF Grants
      <3>7. g1 \in Grants /\ g1[u] = grant[u]
        BY <3>1, <3>2, <3>6
      <3>8. g2 \in Grants /\ g2[u] = grant[u]
        BY <3>1, <3>3, <3>4, <3>6, <3>7
      <3>9. g3 \in Grants /\ g3[u] = grant[u]
        BY <3>2, <3>6, <3>8
      <3>10. g4[u] = grant[u]
        BY <3>1, <3>3, <3>5, <3>6, <3>9
      <3>11. grant'[u] = grant[u]
        BY <3>5, <3>7, <3>8, <3>9, <3>10
      <3> QED BY <1>5, <2>2, <3>11
    <2> QED BY <2>3, <2>4
  <1>15. CASE Undo(s)
    <2>1. req[s].at = "undo" /\ req'[s] = Idle /\ req[s].kind \in {"create", "transfer"}
      BY <1>1, <1>8, <1>15 DEF Undo, Says
    <2>2. ~At(s, "remove", "asked")'
      BY <1>2, <2>1 DEF At
    <2>3. PICK i \in 0..4 : grant' \in TakenBack(s, i) /\ (i = 0 \/ u \notin {req[s].by, req[s].to})
      BY <1>15 DEF Undo
    <2>4. CASE u \notin {req[s].by, req[s].to}
      <3>1. grant'[u] = grant[u]
        BY <2>1, <2>3, <2>4, TakenBackFrom
      <3>2. \A r : ~Awaits(s, u, r)
        BY <2>1, <2>4 DEF Awaits, At
      <3> QED BY <1>5, <2>2, <3>1, <3>2
    <2>5. CASE u \in {req[s].by, req[s].to} /\ req[s].kind = "create"
      <3>1. IF u = req[s].by THEN grant'[u] = grant[u] \ {"owner"} ELSE grant'[u] = grant[u]
        BY <2>1, <2>3, <2>5, TakenBackFrom
      <3>2. \A r : Awaits(s, u, r) => u = req[s].by /\ r = "owner"
        BY <2>5 DEF Awaits, At
      <3> QED BY <1>5, <2>2, <3>1, <3>2
    <2>7. CASE u \in {req[s].by, req[s].to} /\ req[s].kind = "transfer"
      <3>1. u \notin Leavers(s)
        BY <1>15, <2>7 DEF Undo, Leavers
      <3>2. member[req[s].c][u] # "none" /\ ~BeingRemoved(u) /\ req[s].c \in Campaign
        BY <1>1, <2>7, <3>1 DEF Leavers, Says
      <3>3. \A c : ~Leaving(u, c)'
        BY <1>6, <2>2, <3>2 DEF BeingRemoved, Leaving
      <3>4. Place(u)'
        BY <1>3, <3>2, <3>3 DEF Place
      <3> QED BY <1>5, <2>2, <3>4
    <2> QED BY <2>1, <2>4, <2>5, <2>7
  <1>16. CASE Dies(s)
    <2>1. req'[s] = Idle /\ UNCHANGED grant
      BY <1>8, <1>16 DEF Dies, zitadel
    <2>2. ~At(s, "remove", "asked")'
      BY <1>2, <2>1 DEF At
    <2>3. \A r : ~Awaits(s, u, r)
      <3>1. req[s].at \in {"asked", "again", "undo"} => u \notin {req[s].by, req[s].to}
        BY <1>16 DEF Dies
      <3> QED BY <3>1 DEF Awaits, At
    <2> QED BY <1>5, <2>1, <2>2, <2>3
  <1>17. CASE TransferAborts(s)
    <2>1. req'[s] = Idle /\ UNCHANGED grant /\ At(s, "transfer", "asked") /\ u # req[s].by
      BY <1>8, <1>17 DEF TransferAborts, zitadel
    <2>2. ~At(s, "remove", "asked")'
      BY <1>2, <2>1 DEF At
    <2>3. ASSUME NEW r, Awaits(s, u, r) PROVE Place(u)'
      <3>1. u = req[s].to /\ ~Leaving(u, req[s].c)
        BY <2>1, <2>3 DEF Awaits, At
      <3>2. ~req[s].gone
        BY <1>17, <3>1 DEF TransferAborts
      <3>3. member[req[s].c][u] # "none" /\ req[s].c \in Campaign
        BY <1>1, <2>1, <3>1, <3>2 DEF RequestsSeeRow, Says, At
      <3>4. PICK c \in Campaign : c = req[s].c
        BY <3>3
      <3>5. ~Leaving(u, c)'
        BY <1>6, <2>2, <3>1, <3>4
      <3> QED BY <1>3, <3>3, <3>4, <3>5 DEF Place
    <2> QED BY <1>5, <2>1, <2>2, <2>3
  <1>18. CASE TransferMisses(s)
    <2>1. req'[s] = Idle /\ UNCHANGED grant /\ At(s, "transfer", "asked") /\ u # req[s].to
      BY <1>8, <1>18 DEF TransferMisses, zitadel
    <2>2. ~At(s, "remove", "asked")'
      BY <1>2, <2>1 DEF At
    <2>3. ASSUME NEW r, Awaits(s, u, r) PROVE Place(u)'
      <3>1. u = req[s].by /\ ~Leaving(u, req[s].c)
        BY <2>1, <2>3 DEF Awaits, At
      <3>2. member[req[s].c][u] # "none" /\ req[s].c \in Campaign
        BY <1>1, <1>18, <2>1, <3>1 DEF TransferMisses, Says, At
      <3>3. PICK c \in Campaign : c = req[s].c
        BY <3>2
      <3>4. ~Leaving(u, c)'
        BY <1>6, <2>2, <3>1, <3>3
      <3> QED BY <1>3, <3>2, <3>3, <3>4 DEF Place
    <2> QED BY <1>5, <2>1, <2>2, <2>3
  <1> QED BY <1>9, <1>10, <1>11, <1>12, <1>13, <1>14, <1>15, <1>16, <1>17, <1>18

\* A commit gives a row to whom it answered for, takes one only from those who leave,
\* and finds the row it was about gone, which leaves its user astray.
LEMMA CommitStep ==
  ASSUME IInv, JoinsHold, GrantsAccounted, NEW s \in Slot,
         \/ CreateCommit(s) \/ JoinCommit(s) \/ RoleCommit(s) \/ RemoveCommit(s) \/ TransferCommit(s)
  PROVE  GrantsAccounted'
  <1> USE DEF IInv, Others
  <1>1. Typed /\ req \in [Slot -> RequestRow] /\ Says(req[s])
    BY TypeParts DEF RequestsSay
  <1>2. Idle.kind = "none" /\ Idle.at = "idle"
    BY DEF Idle
  <1>3. req'[s] = Idle /\ UNCHANGED grant /\ astray \subseteq astray'
    BY <1>1 DEF CreateCommit, JoinCommit, RoleCommit, RemoveCommit, TransferCommit, zitadel, history, Ends
  <1>4. ASSUME NEW q \in Slot \ {s}
        PROVE  /\ req'[q].kind = req[q].kind /\ req'[q].at = req[q].at /\ req'[q].by = req[q].by
               /\ req'[q].c = req[q].c /\ req'[q].to = req[q].to
               /\ ~req'[q].gone => ~req[q].gone
    <2>1. req'[q] = req[q] \/ req'[q] = [req[q] EXCEPT !.gone = TRUE]
      BY <1>1 DEF CreateCommit, JoinCommit, RoleCommit, RemoveCommit, TransferCommit, Ends
    <2> QED BY <1>1, <2>1 DEF RequestRow
  <1>5. ~At(s, "remove", "asked")'
    BY <1>2, <1>3 DEF At
  <1> SUFFICES ASSUME NEW u \in User \ astray'
               PROVE  \A r \in grant'[u] : Accounted(u, r)'
    BY DEF GrantsAccounted
  <1>6. \A r \in grant[u] : Accounted(u, r)
    BY <1>3 DEF GrantsAccounted
  <1>7. ASSUME \A c \in Campaign : member[c][u] # "none" /\ ~Leaving(u, c) => member'[c][u] # "none",
               \A r : Awaits(s, u, r) => Place(u)'
        PROVE  \A r \in grant'[u] : Accounted(u, r)'
    BY <1>3, <1>4, <1>5, <1>6, <1>7, AccountsKept
  <1>8. \A c : Leaving(u, c)' => Leaving(u, c)
    BY <1>4, <1>5 DEF Leaving, At
  <1>9. ASSUME NEW c \in Campaign, member'[c][u] # "none", ~Leaving(u, c)
        PROVE  Place(u)'
    BY <1>8, <1>9 DEF Place
  <1>10. PICK d : d = req[s].c
    OBVIOUS
  <1>11. CASE CreateCommit(s)
    <2>1. At(s, "create", "asked") /\ d \in Campaign /\ req[s].by \in User
      BY <1>1, <1>10, <1>11 DEF CreateCommit, At, Says
    <2>2. \A c \in Campaign : member[c][u] # "none" => member'[c][u] # "none"
      BY <1>1, <1>11, <2>1 DEF CreateCommit, Typed
    <2>3. ~Leaving(u, d)
      BY <1>10, <2>1 DEF CampaignsKnown, Leaving, At
    <2>4. u = req[s].by => member'[d][u] # "none"
      BY <1>1, <1>10, <1>11, <2>1 DEF CreateCommit, Typed
    <2>5. \A r : Awaits(s, u, r) => u = req[s].by
      BY <2>1 DEF Awaits, At
    <2> QED BY <1>7, <1>9, <2>1, <2>2, <2>3, <2>4, <2>5
  <1>12. CASE JoinCommit(s)
    <2>1. At(s, "join", "asked") /\ d \in Campaign /\ req[s].by \in User
      BY <1>1, <1>10, <1>12 DEF JoinCommit, At, Says
    <2>2. \A c \in Campaign : member[c][u] # "none" => member'[c][u] # "none"
      BY <1>1, <1>12, <2>1 DEF JoinCommit, Typed
    <2>3. u = req[s].by => ~Leaving(u, d) /\ member'[d][u] # "none"
      <3> SUFFICES ASSUME u = req[s].by PROVE ~Leaving(u, d) /\ member'[d][u] # "none"
        OBVIOUS
      <3>1. member[d][u] = "none"
        BY <1>10, <2>1 DEF JoinsHold, Joining
      <3>2. ~Leaving(u, d)
        BY <3>1 DEF Leaving, RequestsSeeRow, At
      <3>3. member'[d][u] # "none"
        BY <1>1, <1>10, <1>12, <2>1 DEF JoinCommit, Typed
      <3> QED BY <3>2, <3>3
    <2>4. \A r : Awaits(s, u, r) => u = req[s].by
      BY <2>1 DEF Awaits, At
    <2> QED BY <1>7, <1>9, <2>1, <2>2, <2>3, <2>4
  <1>13. CASE RoleCommit(s)
    <2>1. At(s, "role", "asked") /\ d \in Campaign /\ req[s].to \in User /\ req[s].role # "none"
      BY <1>1, <1>10, <1>13, Vocabulary DEF RoleCommit, At, Says
    <2>2. \A c \in Campaign, v \in User : member[c][v] # "none" => member'[c][v] # "none"
      BY <1>1, <1>13, <2>1 DEF RoleCommit, Typed
    <2>3. u = req[s].to => member[d][u] # "none"
      BY <1>10, <1>13, <2>1 DEF RoleCommit, RequestsSeeRow, At
    <2>4. \A r : Awaits(s, u, r) => u = req[s].to /\ ~Leaving(u, d)
      BY <1>10, <2>1 DEF Awaits, At
    <2> QED BY <1>7, <1>9, <2>1, <2>2, <2>3, <2>4
  <1>14. CASE RemoveCommit(s)
    <2>1. \A r : ~Awaits(s, u, r)
      BY <1>14 DEF RemoveCommit, Awaits, At
    <2>2. \A c \in Campaign : member[c][u] # "none" /\ ~Leaving(u, c) => member'[c][u] # "none"
      <3>1. At(s, "remove", "asked")
        BY <1>14 DEF RemoveCommit
      <3>2. member' = IF req[s].gone THEN member ELSE [member EXCEPT ![d][req[s].to] = "none"]
        BY <1>10, <1>14 DEF RemoveCommit
      <3>3. u = req[s].to /\ ~req[s].gone => Leaving(u, d)
        BY <1>10, <3>1 DEF Leaving
      <3> QED BY <1>1, <3>2, <3>3 DEF Typed
    <2> QED BY <1>7, <2>1, <2>2
  <1>15. CASE TransferCommit(s)
    <2>1. At(s, "transfer", "asked") /\ d \in Campaign /\ req[s].to \in User /\ req[s].by \in User
      BY <1>1, <1>10, <1>15 DEF TransferCommit, At, Says
    <2>2. \A c \in Campaign, v \in User : member[c][v] # "none" => member'[c][v] # "none"
      BY <1>1, <1>15, <2>1 DEF TransferCommit, Typed
    <2>3. u = req[s].by => member[d][u] # "none"
      BY <1>10, <1>15 DEF TransferCommit
    <2>4. u = req[s].to => member[d][u] # "none"
      BY <1>10, <1>15, <2>1 DEF TransferCommit, RequestsSeeRow, At
    <2>5. \A r : Awaits(s, u, r) => u \in {req[s].by, req[s].to} /\ ~Leaving(u, d)
      BY <1>10, <2>1 DEF Awaits, At
    <2> QED BY <1>7, <1>9, <2>1, <2>2, <2>3, <2>4, <2>5
  <1> QED BY <1>11, <1>12, <1>13, <1>14, <1>15

\* Every step leaves each grant with a place or with a request that answers for it.
LEMMA GrantsStep ==
  ASSUME IInv, JoinsHold, GrantsAccounted, [Next]_vars
  PROVE  GrantsAccounted'
  <1> USE DEF IInv, Others
  <1>1. Typed /\ req \in [Slot -> RequestRow]
    BY TypeParts
  <1>2. ASSUME UNCHANGED <<req, grant, astray>>,
               \A c \in Campaign, v \in User : member[c][v] # "none" => member'[c][v] # "none"
        PROVE  GrantsAccounted'
    <2> SUFFICES ASSUME NEW u \in User \ astray, NEW r \in grant[u] PROVE Accounted(u, r)'
      BY <1>2 DEF GrantsAccounted
    <2>1. Accounted(u, r)
      BY DEF GrantsAccounted
    <2>2. \A c : Leaving(u, c)' <=> Leaving(u, c)
      BY <1>2 DEF Leaving, At
    <2>3. Place(u) => Place(u)'
      BY <1>2, <2>2 DEF Place
    <2>4. \A s \in Slot : Awaits(s, u, r) => Awaits(s, u, r)'
      BY <1>2, <2>2 DEF Awaits, At
    <2> QED BY <2>1, <2>3, <2>4 DEF Accounted
  <1>3. CASE UNCHANGED vars
    BY <1>2, <1>3 DEF vars
  <1>4. ASSUME NEW u \in User, EnsureUserSynced(u) PROVE GrantsAccounted'
    <2>1. \A c \in Campaign, v \in User : member[c][v] # "none" => member'[c][v] # "none"
      BY <1>1, <1>4 DEF EnsureUserSynced, SyncedRow, Missing, Typed
    <2> QED BY <1>2, <1>4, <2>1 DEF EnsureUserSynced, zitadel, history
  <1>5. ASSUME NEW u \in User, RenewToken(u) PROVE GrantsAccounted'
    BY <1>2, <1>5 DEF RenewToken, zitadel, history
  <1>6. ASSUME NEW u \in User, NEW c \in Campaign, NEW t \in User, AddMember(u, c, t)
        PROVE  GrantsAccounted'
    <2>1. \A d \in Campaign, v \in User : member[d][v] # "none" => member'[d][v] # "none"
      BY <1>1, <1>6 DEF AddMember, Typed
    <2> QED BY <1>2, <1>6, <2>1 DEF AddMember, zitadel, history
  <1>7. ASSUME NEW s \in Slot,
               \A q \in Slot \ {s} : req'[q] = req[q],
               UNCHANGED <<member, grant, astray>>,
               req[s] = Idle \/ req[s].kind \in {"status", "delete"},
               req'[s].at = "read" \/ req'[s].kind \in {"none", "status", "delete"}
        PROVE  GrantsAccounted'
    <2> SUFFICES ASSUME NEW u \in User \ astray PROVE \A r \in grant'[u] : Accounted(u, r)'
      BY <1>7 DEF GrantsAccounted
    <2>1. \A r \in grant[u] : Accounted(u, r)
      BY DEF GrantsAccounted
    <2> QED BY <1>7, <2>1, QuietStep
  <1>8. ASSUME NEW s \in Slot, NEW r, Asked(s, r), r.at = "read" \/ r.kind \in {"none", "status", "delete"},
               UNCHANGED <<member, grant, astray>>
        PROVE  GrantsAccounted'
    <2>1. req[s] = Idle /\ req'[s] = r /\ \A q \in Slot \ {s} : req'[q] = req[q]
      BY <1>1, <1>8 DEF Asked, Free
    <2> QED BY <1>7, <1>8, <2>1
  <1>9. ASSUME NEW s \in Slot, NEW u \in User, CreateRead(s, u) PROVE GrantsAccounted'
    <2>1. PICK c \in Campaign :
            Asked(s, [Idle EXCEPT !.kind = "create", !.at = "read", !.by = u, !.c = c])
      BY <1>9 DEF CreateRead
    <2> DEFINE r == [Idle EXCEPT !.kind = "create", !.at = "read", !.by = u, !.c = c]
    <2>2. r.at = "read" /\ UNCHANGED <<member, grant, astray>>
      BY <1>9 DEF Idle, CreateRead, people, zitadel, history
    <2> HIDE DEF r
    <2> QED BY <1>8, <2>1, <2>2 DEF r
  <1>10. ASSUME NEW s \in Slot, NEW u \in User, NEW c \in Campaign, JoinFlush(s, u, c)
         PROVE  GrantsAccounted'
    <2> DEFINE r == [Idle EXCEPT !.kind = "join", !.at = "read", !.by = u, !.c = c]
    <2>1. Asked(s, r) /\ r.at = "read" /\ UNCHANGED <<member, grant, astray>>
      BY <1>10 DEF Idle, JoinFlush, people, zitadel, history
    <2> HIDE DEF r
    <2> QED BY <1>8, <2>1
  <1>11. ASSUME NEW s \in Slot, NEW u \in User, NEW c \in Campaign, StatusRead(s, u, c)
         PROVE  GrantsAccounted'
    <2>1. PICK move \in Transitions :
            Asked(s, [Idle EXCEPT !.kind = "status", !.at = "read", !.by = u, !.c = c,
                        !.role = move[2], !.view = status[c]])
      BY <1>11 DEF StatusRead
    <2> DEFINE r == [Idle EXCEPT !.kind = "status", !.at = "read", !.by = u, !.c = c,
                       !.role = move[2], !.view = status[c]]
    <2>2. r.at = "read" /\ UNCHANGED <<member, grant, astray>>
      BY <1>11 DEF Idle, StatusRead, people, zitadel, history
    <2> HIDE DEF r
    <2> QED BY <1>8, <2>1, <2>2 DEF r
  <1>12. ASSUME NEW s \in Slot, NEW u \in User, NEW c \in Campaign, DeleteFlush(s, u, c)
         PROVE  GrantsAccounted'
    <2> DEFINE r == [Idle EXCEPT !.kind = "delete", !.at = "flushed", !.by = u, !.c = c,
                       !.saw = Siblings(c)]
    <2>1. Asked(s, r) /\ r.kind = "delete" /\ UNCHANGED <<member, grant, astray>>
      BY <1>12 DEF Idle, DeleteFlush, people, zitadel, history
    <2> HIDE DEF r
    <2> QED BY <1>8, <2>1
  <1>13. ASSUME NEW s \in Slot, NEW u \in User, NEW c \in Campaign, NEW t \in User,
                RoleRead(s, u, c, t) \/ RemoveRead(s, u, c, t) \/ TransferRead(s, u, c, t)
         PROVE  GrantsAccounted'
    <2>1. UNCHANGED <<member, grant, astray>>
      BY <1>13 DEF RoleRead, RemoveRead, TransferRead, people, zitadel, history
    <2>2. CASE RoleRead(s, u, c, t)
      <3>1. PICK a \in Given \ {"owner"} :
              Asked(s, [Idle EXCEPT !.kind = "role", !.at = "read", !.by = u, !.c = c,
                          !.to = t, !.role = a, !.view = member[c][t]])
        BY <2>2 DEF RoleRead
      <3> DEFINE r == [Idle EXCEPT !.kind = "role", !.at = "read", !.by = u, !.c = c,
                         !.to = t, !.role = a, !.view = member[c][t]]
      <3>2. r.at = "read"
        BY DEF Idle
      <3> HIDE DEF r
      <3> QED BY <1>8, <2>1, <3>1, <3>2 DEF r
    <2>3. CASE RemoveRead(s, u, c, t)
      <3> DEFINE r == [Idle EXCEPT !.kind = "remove", !.at = "read", !.by = u, !.c = c,
                         !.to = t, !.view = member[c][t]]
      <3>1. Asked(s, r) /\ r.at = "read"
        BY <2>3 DEF Idle, RemoveRead
      <3> HIDE DEF r
      <3> QED BY <1>8, <2>1, <3>1
    <2>4. CASE TransferRead(s, u, c, t)
      <3> DEFINE r == [Idle EXCEPT !.kind = "transfer", !.at = "read", !.by = u, !.c = c,
                         !.to = t, !.view = member[c][t], !.owner = owner[c]]
      <3>1. Asked(s, r) /\ r.at = "read"
        BY <2>4 DEF Idle, TransferRead
      <3> HIDE DEF r
      <3> QED BY <1>8, <2>1, <3>1
    <2> QED BY <1>13, <2>2, <2>3, <2>4
  <1>14. ASSUME NEW s \in Slot, StatusCommit(s) \/ DeleteCommit(s) \/ Deactivate(s)
         PROVE  GrantsAccounted'
    <2>1. /\ \A q \in Slot \ {s} : req'[q] = req[q]
          /\ UNCHANGED <<member, grant, astray>> /\ req[s].kind \in {"status", "delete"}
      BY <1>1, <1>14 DEF StatusCommit, DeleteCommit, Deactivate, Goes, Ends, At, people, zitadel, history
    <2>2. req'[s] = Idle \/ req'[s] = [req[s] EXCEPT !.at = "deactivate"]
      BY <1>1, <1>14 DEF StatusCommit, DeleteCommit, Deactivate, Goes, Ends
    <2>3. req'[s].kind \in {"none", "status", "delete"}
      BY <1>1, <2>1, <2>2 DEF Idle, RequestRow
    <2> QED BY <1>7, <2>1, <2>3
  <1> QED BY <1>3, <1>4, <1>5, <1>6, <1>9, <1>10, <1>11, <1>12, <1>13, <1>14, CallStep, CommitStep
          DEF Next

-----------------------------------------------------------------------------
(* The theorems *)

\* Every step keeps the invariant.
LEMMA StepInv == IInv /\ [Next]_vars => IInv'
  <1> SUFFICES ASSUME IInv, [Next]_vars PROVE IInv'
    OBVIOUS
  <1>1. TypeOK'
    BY TypeStep DEF IInv
  <1>2. CASE UNCHANGED vars
    <2>1. UNCHANGED <<status, owner, member, org, req, raced, lapsed>>
      BY <1>2 DEF vars
    <2>2. RequestsSay' /\ \A q \in Slot : Follows(q)
      BY <2>1 DEF IInv, RequestsSay, Follows
    <2>3. \A q \in Slot : At(q, "delete", "deactivate") => req'[q] # Idle
      BY <2>1 DEF At, Idle
    <2> QED BY <1>1, <2>1, <2>2, <2>3, Kept DEF IInv
  <1>3. ASSUME Next PROVE RequestsSay' /\ Others'
    <2> USE <1>3 DEF Next
    <2>1. CASE \E u \in User : \/ EnsureUserSynced(u) \/ RenewToken(u)
                               \/ \E c \in Campaign, t \in User : AddMember(u, c, t)
      BY <2>1, PeopleStep
    <2>2. ASSUME NEW s \in Slot,
                 \E u \in User :
                   \/ CreateRead(s, u)
                   \/ \E c \in Campaign :
                        \/ JoinFlush(s, u, c) \/ StatusRead(s, u, c) \/ DeleteFlush(s, u, c)
                        \/ \E t \in User : \/ RoleRead(s, u, c, t) \/ RemoveRead(s, u, c, t)
                                           \/ TransferRead(s, u, c, t)
          PROVE  RequestsSay' /\ Others'
      BY <2>2, ReadStep
    <2>3. ASSUME NEW s \in Slot,
                 \/ CreateAssign(s) \/ CreateCollides(s) \/ JoinAssign(s) \/ JoinCommit(s)
                 \/ RoleAssign(s) \/ RoleCommit(s) \/ RemoveRevoke(s)
                 \/ TransferAssign(s) \/ TransferAborts(s) \/ TransferMisses(s)
                 \/ CommitFails(s) \/ Undo(s) \/ Dies(s)
          PROVE  RequestsSay' /\ Others'
      BY <2>3, RequestStep
    <2>4. ASSUME NEW s \in Slot,
                 \/ CreateCommit(s) \/ RemoveCommit(s) \/ TransferCommit(s)
                 \/ StatusCommit(s) \/ DeleteCommit(s) \/ Deactivate(s)
          PROVE  RequestsSay' /\ Others'
      BY <2>4, CreateStep, RemoveStep, TransferStep, StatusStep, DeleteStep, DeactivateStep
    <2> QED BY <2>1, <2>2, <2>3, <2>4
  <1> QED BY <1>1, <1>2, <1>3 DEF IInv

\* So do the registrations' keys and the accounts of the grants.
LEMMA GrantsInv == Spec => []GInv
  <1>1. Init => GInv
    <2> SUFFICES ASSUME Init PROVE GInv
      OBVIOUS
    <2>1. \A s \in Slot : req[s].kind = "none"
      BY DEF Init, Idle
    <2>2. JoinsHold
      BY <2>1 DEF JoinsHold, Joining, At
    <2>3. \A u, c : ~Leaving(u, c)
      BY <2>1 DEF Leaving, At
    <2>4. GrantsAccounted
      <3> SUFFICES ASSUME NEW u \in User, NEW r \in grant[u] PROVE Place(u)
        BY DEF GrantsAccounted, Accounted
      <3>1. u = Founder
        BY DEF Init
      <3> QED BY <2>3, <3>1, MembershipAssumption DEF Place, Init
    <2> QED BY <2>2, <2>4, InitInv DEF GInv
  <1>2. GInv /\ [Next]_vars => GInv'
    BY StepInv, JoinsStep, GrantsStep DEF GInv
  <1> QED BY <1>1, <1>2, PTL DEF Spec

\* The invariant holds always.
LEMMA Invariance == Spec => []IInv
  BY InitInv, StepInv, PTL DEF Spec

\* Whatever the users, campaigns and requests, every variable of the model stays
\* within its type: campaigns, members and ZITADEL's grants only ever get roles,
\* statuses and ids there are, also where a commit is compensated.
THEOREM TypeCorrect == Spec => []TypeOK
  <1>1. IInv => TypeOK
    BY DEF IInv
  <1> QED BY <1>1, Invariance, PTL

\* Whoever a campaign belongs to is a member of it, however creations, removals and
\* transfers of ownership overlap, fail and are taken back, unless the campaign was
\* handed over to somebody whose removal was under way or over.
THEOREM CreatorStaysMember == Spec => []CreatorIsMember
  <1>1. IInv => CreatorIsMember
    BY DEF IInv, Others
  <1> QED BY <1>1, Invariance, PTL

\* With no call to end it under way, the organization is active exactly as long as one
\* of its campaigns is not deleted, however many there are and however their creations
\* and deletions overlap, but for a count that is not true any more at its commit and
\* for the failures that the property names.
THEOREM OrgLivesWithCampaigns == Spec => []OrgFollowsCampaigns
  <1>1. IInv => OrgFollowsCampaigns
    BY DEF IInv, Others, DeletesKnow, OrgFollowsCampaigns, At
  <1> QED BY <1>1, Invariance, PTL

\* Nobody keeps a grant in the organization without a place in one of its campaigns
\* once the requests about them are over: whatever the operations ask of ZITADEL before
\* their commit is covered by the commit or taken back, but for the failures that the
\* property names.
THEOREM GrantsHaveMembers == Spec => []GrantHasMember
  <1>1. GInv => GrantHasMember
    <2> SUFFICES ASSUME GInv, NEW u \in User \ astray,
                        \A s \in Slot : u \notin {req[s].by, req[s].to},
                        NEW r \in grant[u]
                 PROVE  \E c \in Campaign : member[c][u] # "none"
      BY DEF GrantHasMember
    <2>1. \A s \in Slot : ~Awaits(s, u, r)
      BY DEF Awaits, At
    <2>2. Place(u)
      BY <2>1 DEF GInv, GrantsAccounted, Accounted
    <2> QED BY <2>2 DEF Place
  <1> QED BY <1>1, GrantsInv, PTL
=============================================================================
