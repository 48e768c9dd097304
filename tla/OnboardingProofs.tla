-------------------------- MODULE OnboardingProofs --------------------------
(***************************************************************************)
(* For any number of invites, requests and webhook calls: an address gets  *)
(* one account, the application shows what happened, and an e-mail's       *)
(* status is the worst that was told of it.  The three hardly meet: the    *)
(* invariant has a part about people, one about the decision and one about *)
(* each e-mail, whose invite has one request until its task is stored.     *)
(***************************************************************************)
EXTENDS Onboarding, TLAPS

InviteRow == [by: {"none", "admin", "approval"}, accepted: BOOLEAN, revoked: BOOLEAN,
              expired: BOOLEAN, mail: MailStatus, tracked: BOOLEAN]
RequestRow(n) == [op: {"none", "create", "approve", "reject", "accept"},
                  at: {"idle", "invite", "queue", "defer", "undo", "decide"},
                  saw: {"pending", "rejected"}, user: 0..n,
                  member: BOOLEAN, found: BOOLEAN, invite: 0..Invites, late: BOOLEAN]
TaskRow == [at: {"none", "queued", "sending", "sent", "done"}, saw: MailStatus]
HookRow == [invite: 0..Invites, event: Events \cup {"pending"}, saw: MailStatus]

-----------------------------------------------------------------------------
(* The invariant *)

\* A request that is about to store the task of the invite it has created.
Mails(x) == x.at \in {"queue", "defer", "undo"}

\* What a request in flight says, by its kind.
Says(x) ==
  /\ Mails(x) => x.op \in {"create", "approve"} /\ x.invite \in Invite
  /\ x.op = "accept" => x.invite \in Invite
  /\ x.op = "reject" => x.saw = "pending"
  /\ x.at = "invite" => x.op = "approve"
RequestsSay == \A r \in Request : Says(req[r])

\* Who found no account when there was one to be found will be late.
LateWithoutAccount ==
  \A r \in Request : req[r].op = "accept" /\ req[r].user = 0 /\ accounts > 0 => req[r].late

SomeVolunteer == \E a \in 0..accounts : volunteer[a] > 0

\* Nothing is left of an approval that was not committed.
Untouched ==
  /\ \A i \in Invite : invite[i].by = "approval" => i \in halfway
  /\ \A a \in 0..accounts : volunteer[a] = 0
StillUntouched ==
  application = "pending" \/ (application = "rejected" /\ ~crossed) => Untouched

\* What an approval has found or done before it commits.
ApprovalsSay == \A r \in Request : req[r].op = "approve" =>
  /\ req[r].found => SomeVolunteer
  /\ req[r].user = 0 /\ accounts > 0 => unseen
  /\ req[r].user = 0 /\ (Mails(req[r]) \/ req[r].at = "decide") =>
       \E i \in Invite : invite[i].by = "approval"

ApprovedShows ==
  application = "approved" =>
    /\ member # {} \/ \E i \in Invite : invite[i].by = "approval"
    /\ SomeVolunteer

LinkedUnlessUnseen == accounts > 0 /\ ~unseen => volunteer[0] = 0

\* An invite without a row has no e-mail, and one whose request has not stored the
\* task has none that was sent.
NoMailYet(i) == task[i].at = "none" /\ ~invite[i].tracked
FollowsAt(r) == Mails(req[r]) =>
  /\ There(req[r].invite)
  /\ req[r].at \in {"queue", "defer"} => NoMailYet(req[r].invite)
  /\ req[r].at = "defer" => invite[req[r].invite].mail = "queued"
MailFollowsInvite ==
  /\ \A i \in Invite : ~There(i) => NoMailYet(i)
  /\ \A r \in Request : FollowsAt(r)
OneRequestPerInvite ==
  \A r, s \in Request : Mails(req[r]) /\ Mails(req[s]) /\ r # s => req[r].invite # req[s].invite

\* The e-mail of an invite that is not astray, until its attempt is committed.
SentAt(i) ==
  /\ invite[i].tracked => task[i].at = "done"
  /\ i \notin astray /\ ~invite[i].tracked =>
       /\ reported[i] = {}
       /\ task[i].at \in {"queued", "sending", "sent"} => invite[i].mail = "queued"
       /\ task[i].at \in {"sending", "sent"} => task[i].saw = "queued"
SentOnce == \A i \in Invite : SentAt(i)

\* A webhook request works for a committed attempt.
HooksSay ==
  \A h \in Hook : hook[h] # NoHook =>
    /\ hook[h].invite \in Invite /\ invite[hook[h].invite].tracked
    /\ hook[h].event \in Events

Ranked(E) == E \subseteq DOMAIN Rank
IsWorst(n, E) ==
  /\ (Ranked(E) /\ n = Rank["submitted"]) \/ \E e \in E : n = RankOf(e)
  /\ Ranked(E) => n >= Rank["submitted"]
  /\ \A e \in E : n >= RankOf(e)
WorstAt(i) ==
  i \notin astray /\ invite[i].tracked => IsWorst(RankOf(invite[i].mail), reported[i])
WorstSoFar == \A i \in Invite : WorstAt(i)

People == /\ OneAccountPerAddress /\ LateWithoutAccount
Decision == StillUntouched /\ ApprovalsSay /\ ApprovedShows /\ LinkedUnlessUnseen
Mailing == MailFollowsInvite /\ OneRequestPerInvite /\ SentOnce /\ HooksSay /\ WorstSoFar
IInv == TypeOK /\ RequestsSay /\ People /\ Decision /\ Mailing

-----------------------------------------------------------------------------
(* Types *)

Typed == /\ application \in {"pending", "approved", "rejected"}
         /\ invite \in [Invite -> InviteRow]
         /\ accounts \in Nat
         /\ member \subseteq 1..accounts
         /\ volunteer \in [0..accounts -> Nat]
         /\ task \in [Invite -> TaskRow]
         /\ reported \in [Invite -> SUBSET Events]
         /\ hook \in [Hook -> HookRow]
         /\ crossed \in BOOLEAN /\ unseen \in BOOLEAN
         /\ halfway \subseteq Invite /\ astray \subseteq Invite
         /\ overtaken \in Nat

\* The type invariant, with the requests apart.
LEMMA TypeParts == TypeOK <=> Typed /\ req \in [Request -> RequestRow(accounts)]
  BY DEF TypeOK, Typed, RequestRow, InviteRow, TaskRow, HookRow

\* The statuses of an e-mail and their ranks.
LEMMA Statuses ==
  /\ DOMAIN Rank = {"queued", "submitted", "delivered", "failed", "bounced", "complained",
                    "suppressed", "skipped"}
  /\ DOMAIN Rank \subseteq MailStatus /\ "pending" \in MailStatus
  /\ Events \subseteq MailStatus /\ "pending" \notin Events
  /\ \A m : RankOf(m) \in Int /\ RankOf(m) >= -1
  /\ \A m \in DOMAIN Rank : Rank[m] = RankOf(m)
  /\ RankOf("queued") < RankOf("submitted")
  <1>1. DOMAIN Rank = {"queued", "submitted", "delivered", "failed", "bounced", "complained",
                       "suppressed", "skipped"}
    BY DEF Rank
  <1>2. /\ Rank["queued"] = 10 /\ Rank["submitted"] = 20
        /\ Rank["delivered"] = 30 /\ Rank["failed"] = 40 /\ Rank["bounced"] = 50
        /\ Rank["complained"] = 60 /\ Rank["suppressed"] = 70 /\ Rank["skipped"] = 80
    BY DEF Rank
  <1>3. ASSUME NEW m PROVE RankOf(m) \in Int /\ RankOf(m) >= -1
    BY <1>1, <1>2 DEF RankOf
  <1>4. \A m \in DOMAIN Rank : Rank[m] = RankOf(m)
    BY DEF RankOf
  <1>5. RankOf("queued") < RankOf("submitted")
    BY <1>1, <1>2 DEF RankOf
  <1>6. /\ DOMAIN Rank \subseteq MailStatus /\ "pending" \in MailStatus
        /\ Events \subseteq MailStatus /\ "pending" \notin Events
    BY OnboardingAssumption DEF MailStatus
  <1> QED BY <1>1, <1>3, <1>4, <1>5, <1>6

LEMMA InvitesNumbered == Invite \subseteq 0..Invites /\ 0 \in 0..Invites /\ 0 \notin Invite
  BY OnboardingAssumption DEF Invite

\* What a status is projected to is a status.
LEMMA ProjectedTyped ==
  ASSUME Typed, NEW i \in Invite, NEW saw, NEW status \in MailStatus
  PROVE  Projected(i, saw, status) \in MailStatus
  BY DEF Projected, Typed, InviteRow

\* Every step keeps the types.
LEMMA TypeStep ==
  ASSUME TypeOK, RequestsSay, HooksSay, [Next]_vars
  PROVE  TypeOK'
  <1> DEFINE Requests == [Request -> RequestRow(accounts)]
  <1>1. Typed /\ req \in Requests
    BY TypeParts
  <1>2. TypeOK' <=> Typed' /\ req' \in [Request -> RequestRow(accounts')]
    BY DEF TypeOK, Typed, RequestRow, InviteRow, TaskRow, HookRow
  <1>3. CASE UNCHANGED vars
    BY <1>1, <1>2, <1>3 DEF vars, Typed
  <1>4. Idle \in RequestRow(accounts)
    BY <1>1, InvitesNumbered DEF Idle, RequestRow, Typed
  <1>5. \A r \in Request, x \in RequestRow(accounts) :
          req' = [req EXCEPT ![r] = x] => req' \in Requests
    BY <1>1
  <1>6. \A r \in Request, at \in {"queue", "defer", "undo", "decide"} :
          /\ [req[r] EXCEPT !.at = at] \in RequestRow(accounts)
          /\ \A i \in 0..Invites : [req[r] EXCEPT !.at = at, !.invite = i] \in RequestRow(accounts)
          /\ \A f \in BOOLEAN : [req[r] EXCEPT !.at = at, !.found = f] \in RequestRow(accounts)
    <2> DEFINE n == accounts
    <2> HIDE DEF n
    <2>1. ASSUME NEW x \in RequestRow(n), NEW at \in {"queue", "defer", "undo", "decide"}
          PROVE  /\ [x EXCEPT !.at = at] \in RequestRow(n)
                 /\ \A i \in 0..Invites : [x EXCEPT !.at = at, !.invite = i] \in RequestRow(n)
                 /\ \A f \in BOOLEAN : [x EXCEPT !.at = at, !.found = f] \in RequestRow(n)
      <3>1. [x EXCEPT !.at = at] \in RequestRow(n)
        BY <2>1 DEF RequestRow
      <3>2. \A i \in 0..Invites : [x EXCEPT !.at = at, !.invite = i] \in RequestRow(n)
        BY <2>1 DEF RequestRow
      <3>3. \A f \in BOOLEAN : [x EXCEPT !.at = at, !.found = f] \in RequestRow(n)
        BY <2>1 DEF RequestRow
      <3> QED BY <3>1, <3>2, <3>3
    <2>2. \A r \in Request : req[r] \in RequestRow(n)
      BY <1>1 DEF n
    <2> QED BY <2>1, <2>2 DEF n
  <1>7. \A i \in Invite :
          /\ \A m \in MailStatus : /\ [invite[i] EXCEPT !.mail = m] \in InviteRow
                                   /\ [invite[i] EXCEPT !.mail = m, !.tracked = TRUE] \in InviteRow
          /\ [invite[i] EXCEPT !.accepted = TRUE] \in InviteRow
          /\ [invite[i] EXCEPT !.revoked = TRUE] \in InviteRow
          /\ [invite[i] EXCEPT !.expired = TRUE] \in InviteRow
          /\ \A by \in {"admin", "approval"} : [invite[i] EXCEPT !.by = by] \in InviteRow
    <2>1. \A i \in Invite : invite[i] \in InviteRow
      BY <1>1 DEF Typed
    <2> QED BY <2>1 DEF InviteRow
  <1>8. \A i \in Invite :
          /\ \A m \in MailStatus :
               /\ [invite EXCEPT ![i].mail = m] \in [Invite -> InviteRow]
               /\ [invite EXCEPT ![i].mail = m, ![i].tracked = TRUE] \in [Invite -> InviteRow]
          /\ [invite EXCEPT ![i].accepted = TRUE] \in [Invite -> InviteRow]
          /\ [invite EXCEPT ![i].revoked = TRUE] \in [Invite -> InviteRow]
          /\ [invite EXCEPT ![i].expired = TRUE] \in [Invite -> InviteRow]
          /\ \A by \in {"admin", "approval"} :
               [invite EXCEPT ![i].by = by] \in [Invite -> InviteRow]
    BY <1>1, <1>7 DEF Typed
  <1>9. \A i \in Invite :
          /\ \A at \in {"none", "queued", "sent"} :
               [task EXCEPT ![i].at = at] \in [Invite -> TaskRow]
          /\ Ends(i) => task' \in [Invite -> TaskRow]
    <2>1. \A i \in Invite : task[i] \in TaskRow
      BY <1>1 DEF Typed
    <2>2. \A i \in Invite, at \in {"none", "queued", "sent"} : [task[i] EXCEPT !.at = at] \in TaskRow
      BY <2>1 DEF TaskRow
    <2>3. [NoTask EXCEPT !.at = "done"] \in TaskRow
      BY Statuses DEF TaskRow, NoTask
    <2> QED BY <1>1, <2>2, <2>3 DEF Typed, Ends
  <1>10. \A i \in Invite : \A saw : Outdated(i, saw) => astray' \subseteq Invite
    BY <1>1 DEF Outdated, Typed
  <1>11. \A r \in Request : GoesOn(r) => req' \in Requests
    <2>1. ASSUME NEW r \in Request, GoesOn(r) PROVE req' \in Requests
      <3>1. req' = [req EXCEPT ![r] =
                IF req[r].op = "approve" THEN [req[r] EXCEPT !.at = "decide", !.found = volunteer[0] > 0]
                ELSE Idle]
        BY <1>1, <2>1 DEF GoesOn
      <3> DEFINE f == volunteer[0] > 0
      <3>2. f \in BOOLEAN
        OBVIOUS
      <3> HIDE DEF f
      <3>3. [req[r] EXCEPT !.at = "decide", !.found = f] \in RequestRow(accounts)
        BY <1>6, <3>2
      <3>4. (IF req[r].op = "approve" THEN [req[r] EXCEPT !.at = "decide", !.found = f] ELSE Idle)
              \in RequestRow(accounts)
        BY <1>4, <3>3
      <3> QED BY <1>5, <3>1, <3>4 DEF f
    <2> QED BY <2>1
  <1>13. ASSUME NEW i \in Invite, NEW by \in {"admin", "approval"}, Inserts(i, by)
         PROVE  invite' \in [Invite -> InviteRow]
    BY <1>8, <1>13, Statuses DEF Inserts
  <1>14. ASSUME NEW r \in Request, CreateInvite(r) PROVE TypeOK'
    <2>1. PICK i \in Invite : /\ Inserts(i, "admin")
                              /\ req' = [req EXCEPT ![r] = [Idle EXCEPT !.op = "create", !.at = "queue",
                                                                        !.invite = i]]
      BY <1>14 DEF CreateInvite
    <2>2. [Idle EXCEPT !.op = "create", !.at = "queue", !.invite = i] \in RequestRow(accounts)
      BY <1>4, InvitesNumbered DEF RequestRow
    <2>3. req' \in Requests /\ invite' \in [Invite -> InviteRow]
      BY <1>5, <1>13, <2>1, <2>2
    <2> QED BY <1>1, <1>2, <1>14, <2>3 DEF CreateInvite, Typed, people, deciding, accepting, mailing
  <1>15. ASSUME NEW r \in Request, QueueMail(r) PROVE TypeOK'
    <2>1. req[r].invite \in Invite
      BY <1>15 DEF QueueMail, RequestsSay, Says, Mails
    <2>2. invite' \in [Invite -> InviteRow]
      BY <1>8, <1>15, <2>1, Statuses DEF QueueMail
    <2>3. req' = [req EXCEPT ![r] = [req[r] EXCEPT !.at = "defer"]]
      BY <1>1, <1>15 DEF QueueMail
    <2>4. req' \in Requests
      BY <1>5, <1>6, <2>3, InvitesNumbered
    <2> QED BY <1>1, <1>2, <1>15, <2>2, <2>4 DEF QueueMail, Typed, people, deciding, accepting, mailing
  <1>16. ASSUME NEW r \in Request, DeferMail(r) PROVE TypeOK'
    <2>1. req[r].invite \in Invite
      BY <1>16 DEF DeferMail, RequestsSay, Says, Mails
    <2>2. task' \in [Invite -> TaskRow] /\ req' \in Requests
      BY <1>9, <1>11, <1>16, <2>1 DEF DeferMail
    <2> QED BY <1>1, <1>2, <1>16, <2>2 DEF DeferMail, Typed, people, deciding, accepting
  <1>17. ASSUME NEW r \in Request, DeferRaises(r) PROVE TypeOK'
    <2>1. req[r].invite \in Invite
      BY <1>17 DEF DeferRaises, RequestsSay, Says, Mails
    <2>2. task' \in [Invite -> TaskRow]
      <3>1. PICK at \in {"none", "queued"} : task' = [task EXCEPT ![req[r].invite].at = at]
        BY <1>17 DEF DeferRaises
      <3> QED BY <1>9, <2>1, <3>1
    <2>3. req' = [req EXCEPT ![r] = [req[r] EXCEPT !.at = "undo"]]
      BY <1>1, <1>17 DEF DeferRaises
    <2>4. req' \in Requests
      BY <1>5, <1>6, <2>3, InvitesNumbered
    <2> QED BY <1>1, <1>2, <1>17, <2>2, <2>4 DEF DeferRaises, Typed, people, deciding, accepting
  <1>18. ASSUME NEW r \in Request, MarkFailed(r) PROVE TypeOK'
    <2>1. req[r].invite \in Invite
      BY <1>18 DEF MarkFailed, RequestsSay, Says, Mails
    <2>2. invite' \in [Invite -> InviteRow]
      BY <1>8, <1>18, <2>1, Statuses DEF MarkFailed
    <2>3. req' \in Requests /\ astray' \subseteq Invite
      BY <1>1, <1>11, <1>18, <2>1 DEF MarkFailed, Typed
    <2> QED BY <1>1, <1>2, <1>18, <2>2, <2>3 DEF MarkFailed, Typed, people, deciding, accepting
  <1>19. ASSUME NEW r \in Request, ApproveRead(r) PROVE TypeOK'
    <2>1. PICK a \in Lookup :
            req' = [req EXCEPT ![r] =
              [op |-> "approve", at |-> IF a = 0 THEN "invite" ELSE "decide",
               saw |-> application, user |-> a, member |-> a \in member,
               found |-> a # 0 /\ volunteer[a] > 0, invite |-> 0, late |-> FALSE]]
      BY <1>19 DEF ApproveRead
    <2>2. a \in 0..accounts /\ application \in {"pending", "rejected"}
      BY <1>1, <1>19 DEF ApproveRead, Lookup, Typed
    <2> DEFINE found == a # 0 /\ volunteer[a] > 0
               mem == a \in member
    <2>3. found \in BOOLEAN /\ mem \in BOOLEAN
      OBVIOUS
    <2>4. req' = [req EXCEPT ![r] =
              [op |-> "approve", at |-> IF a = 0 THEN "invite" ELSE "decide",
               saw |-> application, user |-> a, member |-> mem,
               found |-> found, invite |-> 0, late |-> FALSE]]
      BY <2>1
    <2> HIDE DEF found, mem
    <2>5. [op |-> "approve", at |-> IF a = 0 THEN "invite" ELSE "decide",
           saw |-> application, user |-> a, member |-> mem,
           found |-> found, invite |-> 0, late |-> FALSE] \in RequestRow(accounts)
      BY <2>2, <2>3, InvitesNumbered DEF RequestRow
    <2>6. req' \in Requests
      BY <1>5, <2>4, <2>5
    <2> QED BY <1>1, <1>2, <1>19, <2>6 DEF ApproveRead, Typed, people, deciding, accepting, mailing
  <1>20. ASSUME NEW r \in Request, ApproveInvite(r) PROVE TypeOK'
    <2>1. PICK i \in Invite : /\ Inserts(i, "approval")
                              /\ req' = [req EXCEPT ![r].at = "queue", ![r].invite = i]
                              /\ halfway' = halfway \cup {i}
      BY <1>20 DEF ApproveInvite
    <2>2. req' = [req EXCEPT ![r] = [req[r] EXCEPT !.at = "queue", !.invite = i]]
      BY <1>1, <2>1
    <2>3. req' \in Requests
      BY <1>5, <1>6, <2>2, InvitesNumbered
    <2>4. invite' \in [Invite -> InviteRow] /\ halfway' \subseteq Invite
      BY <1>1, <1>13, <2>1 DEF Typed
    <2> QED BY <1>1, <1>2, <1>20, <2>3, <2>4 DEF ApproveInvite, Typed, people, accepting, mailing
  <1>21. ASSUME NEW r \in Request, ApproveCommit(r) PROVE TypeOK'
    <2>1. req[r].user \in 0..accounts
      BY <1>1 DEF RequestRow
    <2>2. volunteer' \in [0..accounts -> Nat]
      BY <1>1, <1>21, <2>1 DEF ApproveCommit, Typed
    <2>7. req[r].user # 0 => req[r].user \in 1..accounts
      BY <1>1, <2>1 DEF Typed
    <2>3. member' \subseteq 1..accounts
      BY <1>1, <1>21, <2>7 DEF ApproveCommit, Typed
    <2>4. req' \in Requests /\ application' = "approved" /\ halfway' \subseteq Invite
      BY <1>1, <1>4, <1>5, <1>21 DEF ApproveCommit, Typed
    <2>5. crossed' \in BOOLEAN
      BY <1>21, Zenon DEF ApproveCommit
    <2>6. UNCHANGED <<invite, accounts, unseen, overtaken, task, reported, hook, astray>>
      BY <1>21 DEF ApproveCommit, accepting, mailing
    <2> QED BY <1>1, <1>2, <2>2, <2>3, <2>4, <2>5, <2>6 DEF Typed
  <1>22. ASSUME NEW r \in Request, RejectRead(r) PROVE TypeOK'
    <2>1. application = "pending"
      BY <1>22 DEF RejectRead, MayReject
    <2>2. [Idle EXCEPT !.op = "reject", !.at = "decide", !.saw = application] \in RequestRow(accounts)
      BY <1>4, <2>1 DEF RequestRow
    <2>3. req' \in Requests
      BY <1>5, <1>22, <2>2 DEF RejectRead
    <2> QED BY <1>1, <1>2, <1>22, <2>3 DEF RejectRead, Typed, people, deciding, accepting, mailing
  <1>23. ASSUME NEW r \in Request, RejectCommit(r) PROVE TypeOK'
    <2>1. req' \in Requests /\ application' = "rejected"
      BY <1>4, <1>5, <1>23 DEF RejectCommit
    <2>2. crossed' \in BOOLEAN
      BY <1>23, Zenon DEF RejectCommit
    <2>3. UNCHANGED <<invite, halfway, people, accepting, mailing>>
      BY <1>23 DEF RejectCommit
    <2> QED BY <1>1, <1>2, <2>1, <2>2, <2>3 DEF Typed, people, accepting, mailing
  <1>24. ASSUME NEW r \in Request, RequestFails(r) PROVE TypeOK'
    <2>1. req' \in Requests
      BY <1>4, <1>5, <1>24 DEF RequestFails
    <2> QED BY <1>1, <1>2, <1>24, <2>1 DEF RequestFails, Typed, people, deciding, accepting, mailing
  <1>25. ASSUME NEW r \in Request, AcceptRead(r) PROVE TypeOK'
    <2>1. PICK i \in Invite, a \in Lookup :
            req' = [req EXCEPT ![r] = [Idle EXCEPT !.op = "accept", !.at = "decide",
                                                   !.invite = i, !.user = a]]
      BY <1>25 DEF AcceptRead
    <2>2. a \in 0..accounts
      BY <1>1 DEF Lookup, Typed
    <2>3. [Idle EXCEPT !.op = "accept", !.at = "decide", !.invite = i, !.user = a]
            \in RequestRow(accounts)
      BY <1>4, <2>2, InvitesNumbered DEF RequestRow
    <2>4. req' \in Requests
      BY <1>5, <2>1, <2>3
    <2> QED BY <1>1, <1>2, <1>25, <2>4 DEF AcceptRead, Typed, people, deciding, accepting, mailing
  <1>26. ASSUME NEW r \in Request, AcceptCommit(r) PROVE TypeOK'
    <2> DEFINE n == accounts'
    <2>1. /\ req[r].user \in 0..accounts /\ req[r].invite \in Invite
          /\ n = IF req[r].user = 0 THEN accounts + 1 ELSE accounts
      BY <1>1, <1>26 DEF AcceptCommit, RequestRow, RequestsSay, Says
    <2>2. Joined(r) \in 1..n /\ n \in Nat /\ n >= accounts
      BY <1>1, <2>1 DEF Joined, Typed
    <2>3. member' \subseteq 1..n
      BY <1>1, <1>26, <2>2 DEF AcceptCommit, Typed
    <2>4. volunteer' \in [0..n -> Nat]
      <3>1. volunteer' = [b \in 0..n |->
                           IF b = 0 THEN 0
                           ELSE (IF b <= accounts THEN volunteer[b] ELSE 0)
                                  + (IF b = Joined(r) THEN volunteer[0] ELSE 0)]
        BY <1>26 DEF AcceptCommit
      <3>2. \A b \in 0..accounts : volunteer[b] \in Nat
        BY <1>1 DEF Typed
      <3>3. volunteer[0] \in Nat
        BY <1>1, <3>2 DEF Typed
      <3>4. \A b \in 0..n : (IF b <= accounts THEN volunteer[b] ELSE 0) \in Nat
        BY <2>2, <3>2
      <3>5. \A b \in 0..n : (IF b = 0 THEN 0
                             ELSE (IF b <= accounts THEN volunteer[b] ELSE 0)
                                  + (IF b = Joined(r) THEN volunteer[0] ELSE 0)) \in Nat
        BY <3>3, <3>4
      <3> QED BY <3>1, <3>5
    <2>5. invite' \in [Invite -> InviteRow]
      BY <1>8, <1>26, <2>1, Statuses DEF AcceptCommit
    <2>6. overtaken' \in Nat
      BY <1>1, <1>26 DEF AcceptCommit, Typed
    <2>7. unseen' \in BOOLEAN
      <3>1. unseen' = (unseen \/ \E s \in Request : req[s].op = "approve" /\ req[s].user = 0)
        BY <1>26 DEF AcceptCommit
      <3> QED BY <3>1, Zenon
    <2>8. req' \in [Request -> RequestRow(n)]
      <3>1. \A x \in RequestRow(accounts) : x \in RequestRow(n)
        BY <1>1, <2>2 DEF RequestRow, Typed
      <3>2. \A x \in RequestRow(accounts) : [x EXCEPT !.late = TRUE] \in RequestRow(accounts)
        BY DEF RequestRow
      <3>3. req' = [s \in Request |->
                     IF s = r THEN Idle
                     ELSE IF req[s].op = "accept" THEN [req[s] EXCEPT !.late = TRUE] ELSE req[s]]
        BY <1>26 DEF AcceptCommit
      <3> HIDE DEF n
      <3>4. \A s \in Request :
              (IF s = r THEN Idle
               ELSE IF req[s].op = "accept" THEN [req[s] EXCEPT !.late = TRUE] ELSE req[s])
                \in RequestRow(n)
        BY <1>1, <1>4, <3>1, <3>2
      <3> QED BY <3>3, <3>4
    <2>9. UNCHANGED <<application, crossed, halfway, task, reported, hook, astray>>
      BY <1>26 DEF AcceptCommit, deciding, mailing
    <2> QED BY <1>1, <1>2, <2>2, <2>3, <2>4, <2>5, <2>6, <2>7, <2>8, <2>9 DEF Typed
  <1>27. ASSUME NEW i \in Invite, RevokeInvite(i) \/ Expire(i) PROVE TypeOK'
    <2>1. invite' \in [Invite -> InviteRow]
      BY <1>8, <1>27 DEF RevokeInvite, Expire
    <2>2. UNCHANGED <<people, deciding, accepting, mailing, req>>
      BY <1>27 DEF RevokeInvite, Expire
    <2> QED BY <1>1, <1>2, <2>1, <2>2 DEF Typed, people, deciding, accepting, mailing
  <1>28. ASSUME NEW i \in Invite, MailStep(i) PROVE TypeOK'
    <2>1. /\ task[i].saw \in MailStatus /\ invite[i].mail \in MailStatus
          /\ \A m \in {"failed", "submitted"} : Projected(i, task[i].saw, m) \in MailStatus
      BY <1>1, ProjectedTyped, Statuses DEF Typed, TaskRow, InviteRow
    <2>2. task' \in [Invite -> TaskRow]
      <3>1. CASE MailLoad(i)
        <4>1. [at |-> "sending", saw |-> invite[i].mail] \in TaskRow
          BY <2>1 DEF TaskRow
        <4> QED BY <1>1, <3>1, <4>1 DEF MailLoad, Typed
      <3>2. CASE ~MailLoad(i)
        BY <1>9, <1>28, <3>2 DEF MailStep, MailSkip, MailRefused, MailSubmit, MailCommit, MailDies
      <3> QED BY <3>1, <3>2
    <2>3. invite' \in [Invite -> InviteRow]
      <3>1. CASE MailSkip(i)
        BY <1>8, <3>1, Statuses DEF MailSkip
      <3>2. CASE MailRefused(i)
        BY <1>8, <2>1, <3>2 DEF MailRefused
      <3>3. CASE MailCommit(i)
        BY <1>8, <2>1, <3>3 DEF MailCommit
      <3>4. CASE MailLoad(i) \/ MailSubmit(i) \/ MailDies(i)
        BY <1>1, <3>4 DEF MailLoad, MailSubmit, MailDies, Typed
      <3> QED BY <1>28, <3>1, <3>2, <3>3, <3>4 DEF MailStep
    <2>4. astray' \subseteq Invite
      BY <1>1, <1>10, <1>28
         DEF MailStep, MailSkip, MailLoad, MailRefused, MailSubmit, MailCommit, MailDies, Typed
    <2>5. UNCHANGED <<people, deciding, req, accepting, reported, hook>>
      BY <1>28 DEF MailStep, MailSkip, MailLoad, MailRefused, MailSubmit, MailCommit, MailDies
    <2> QED BY <1>1, <1>2, <2>2, <2>3, <2>4, <2>5 DEF Typed, people, deciding, accepting
  <1>29. ASSUME NEW h \in Hook, NEW i \in Invite, NEW e \in Events, Receive(h, i, e) PROVE TypeOK'
    <2>1. [invite |-> i, event |-> e, saw |-> invite[i].mail] \in HookRow
      BY <1>1, InvitesNumbered DEF HookRow, Typed, InviteRow
    <2>2. hook' \in [Hook -> HookRow] /\ astray' \subseteq Invite
      BY <1>1, <1>29, <2>1 DEF Receive, Typed
    <2>3. reported' \in [Invite -> SUBSET Events]
      BY <1>1, <1>29 DEF Receive, Typed
    <2> QED BY <1>1, <1>2, <1>29, <2>2, <2>3 DEF Receive, Typed, people, deciding, accepting
  <1>30. ASSUME NEW h \in Hook, HookCommit(h) \/ HookDies(h) PROVE TypeOK'
    <2>1. hook[h].invite \in Invite /\ hook[h].event \in MailStatus
      BY <1>1, <1>30, Statuses DEF HookCommit, HookDies, HooksSay, Typed, HookRow
    <2>2. NoHook \in HookRow
      BY InvitesNumbered, Statuses DEF HookRow, NoHook
    <2>3. hook' \in [Hook -> HookRow] /\ astray' \subseteq Invite
      BY <1>1, <1>10, <1>30, <2>1, <2>2 DEF HookCommit, HookDies, Typed
    <2>4. invite' \in [Invite -> InviteRow]
      <3>1. Projected(hook[h].invite, hook[h].saw, hook[h].event) \in MailStatus
        BY <1>1, <2>1, ProjectedTyped
      <3>2. CASE HookCommit(h)
        BY <1>8, <2>1, <3>1, <3>2 DEF HookCommit
      <3>3. CASE HookDies(h)
        BY <1>1, <3>3 DEF HookDies, Typed
      <3> QED BY <1>30, <3>2, <3>3
    <2>5. UNCHANGED <<people, deciding, req, accepting, task>>
      BY <1>30 DEF HookCommit, HookDies
    <2>6. reported' \in [Invite -> SUBSET Events]
      <3>1. hook[h].event \in Events
        BY <1>30, <2>1 DEF HookCommit, HookDies, HooksSay
      <3>2. \A E \in SUBSET Events : Handled(E, hook[h].event) \in SUBSET Events
        BY <3>1 DEF Handled
      <3>3. reported \in [Invite -> SUBSET Events]
        BY <1>1 DEF Typed
      <3>4. CASE HookCommit(h)
        <4>1. reported' = [reported EXCEPT ![hook[h].invite] =
                             Handled(reported[hook[h].invite], hook[h].event)]
          BY <3>4 DEF HookCommit
        <4>2. Handled(reported[hook[h].invite], hook[h].event) \in SUBSET Events
          BY <2>1, <3>2, <3>3
        <4> QED BY <3>3, <4>1, <4>2
      <3> QED BY <1>30, <3>3, <3>4 DEF HookDies
    <2> QED BY <1>1, <1>2, <2>3, <2>4, <2>5, <2>6 DEF Typed, people, deciding, accepting
  <1> QED BY <1>3, <1>14, <1>15, <1>16, <1>17, <1>18, <1>19, <1>20, <1>21, <1>22, <1>23, <1>24,
            <1>25, <1>26, <1>27, <1>28, <1>29, <1>30 DEF Next, RequestStep

-----------------------------------------------------------------------------
(* Requests, accounts and decisions *)

\* The actions that create no request and leave people and decisions alone.
Aside == /\ UNCHANGED <<people, deciding, req, accepting>>
         /\ \A i \in Invite : invite'[i].by = invite[i].by

\* What an action does to the request r it runs: it ends, or goes on.
LEMMA AsideSteps ==
  ASSUME TypeOK, HooksSay, [Next]_vars, \A r \in Request : ~RequestStep(r)
  PROVE  Aside
  <1>1. invite \in [Invite -> InviteRow]
    BY DEF TypeOK, InviteRow
  <1>2. ASSUME NEW i \in Invite, NEW m,
               \/ invite' = [invite EXCEPT ![i].mail = m]
               \/ invite' = [invite EXCEPT ![i].mail = m, ![i].tracked = TRUE]
        PROVE  \A k \in Invite : invite'[k].by = invite[k].by
    <2>1. \/ invite' = [invite EXCEPT ![i] = [invite[i] EXCEPT !.mail = m]]
          \/ invite' = [invite EXCEPT ![i] = [invite[i] EXCEPT !.mail = m, !.tracked = TRUE]]
      BY <1>1, <1>2
    <2>2. invite[i] \in InviteRow
      BY <1>1
    <2>3. /\ [invite[i] EXCEPT !.mail = m].by = invite[i].by
          /\ [invite[i] EXCEPT !.mail = m, !.tracked = TRUE].by = invite[i].by
      BY <2>2 DEF InviteRow
    <2> QED BY <1>1, <2>1, <2>3
  <1>3. ASSUME NEW i \in Invite, RevokeInvite(i) \/ Expire(i) PROVE Aside
    BY <1>1, <1>3 DEF RevokeInvite, Expire, Aside, InviteRow
  <1>4. ASSUME NEW i \in Invite, MailStep(i) PROVE Aside
    <2>1. UNCHANGED <<people, deciding, req, accepting>>
      BY <1>4 DEF MailStep, MailSkip, MailLoad, MailRefused, MailSubmit, MailCommit, MailDies
    <2>2. \/ UNCHANGED invite
          \/ \E m : invite' = [invite EXCEPT ![i].mail = m]
          \/ \E m : invite' = [invite EXCEPT ![i].mail = m, ![i].tracked = TRUE]
      BY <1>4 DEF MailStep, MailSkip, MailLoad, MailRefused, MailSubmit, MailCommit, MailDies
    <2>3. \A k \in Invite : invite'[k].by = invite[k].by
      BY <1>2, <2>2
    <2> QED BY <2>1, <2>3 DEF Aside
  <1>5. ASSUME NEW h \in Hook, HookCommit(h) \/ HookDies(h) PROVE Aside
    <2>1. UNCHANGED <<people, deciding, req, accepting>>
      BY <1>5 DEF HookCommit, HookDies
    <2>2. \/ UNCHANGED invite
          \/ \E m : invite' = [invite EXCEPT ![hook[h].invite].mail = m]
      BY <1>5 DEF HookCommit, HookDies
    <2>3. hook[h].invite \in Invite
      BY <1>5 DEF HookCommit, HookDies, HooksSay
    <2>4. \A k \in Invite : invite'[k].by = invite[k].by
      BY <1>2, <2>2, <2>3
    <2> QED BY <2>1, <2>4 DEF Aside
  <1>6. ASSUME NEW h \in Hook, NEW i \in Invite, NEW e \in Events, Receive(h, i, e) PROVE Aside
    BY <1>6 DEF Receive, Aside
  <1>7. UNCHANGED vars => Aside
    BY DEF vars, Aside, people, deciding, accepting
  <1> QED BY <1>3, <1>4, <1>5, <1>6, <1>7 DEF Next

\* What a request may be after a step of its own: a reading that has just been
\* made, or an approval that goes on.
Follows(x, r) ==
  /\ Says(x)
  /\ x.op = "accept" => x.user \in Lookup
  /\ x.op = "approve" =>
       \/ /\ x.user \in Lookup /\ x.at \in {"invite", "decide"}
          /\ x.at = "decide" => x.user # 0
          /\ x.found => volunteer[x.user] > 0
       \/ /\ req[r].op = "approve" /\ x.user = req[r].user
          /\ x.found => req[r].found \/ volunteer[0] > 0
          /\ Mails(req[r]) \/ ApproveInvite(r)

LEMMA OwnRequest ==
  ASSUME TypeOK, RequestsSay, NEW r \in Request, RequestStep(r), ~AcceptCommit(r)
  PROVE  (\A s \in Request : s # r => req'[s] = req[s]) /\ Follows(req'[r], r)
  <1>1. req \in [Request -> RequestRow(accounts)]
    BY TypeParts
  <1>2. Says(req[r]) /\ req[r] \in RequestRow(accounts)
    BY <1>1 DEF RequestsSay
  <1>3. ASSUME NEW x, req' = [req EXCEPT ![r] = x], Follows(x, r)
        PROVE  (\A s \in Request : s # r => req'[s] = req[s]) /\ Follows(req'[r], r)
    <2>1. req'[r] = x /\ \A s \in Request : s # r => req'[s] = req[s]
      BY <1>1, <1>3
    <2> QED BY <1>3, <2>1
  <1>4. Follows(Idle, r)
    BY DEF Follows, Says, Idle, Mails
  <1>5. CASE CreateInvite(r)
    <2>1. PICK i \in Invite :
            req' = [req EXCEPT ![r] = [Idle EXCEPT !.op = "create", !.at = "queue", !.invite = i]]
      BY <1>5 DEF CreateInvite
    <2>2. Follows([Idle EXCEPT !.op = "create", !.at = "queue", !.invite = i], r)
      BY DEF Follows, Says, Idle, Mails
    <2> QED BY <1>3, <2>1, <2>2
  <1>6. CASE QueueMail(r) \/ DeferRaises(r)
    <2>1. PICK at \in {"defer", "undo"} : req' = [req EXCEPT ![r] = [req[r] EXCEPT !.at = at]]
      BY <1>1, <1>6 DEF QueueMail, DeferRaises
    <2>2. Mails(req[r])
      BY <1>6 DEF QueueMail, DeferRaises, Mails
    <2> DEFINE x == [req[r] EXCEPT !.at = at]
    <2>3. x.at = at /\ x.op = req[r].op /\ x.invite = req[r].invite /\ x.user = req[r].user
            /\ x.found = req[r].found
      BY <1>2 DEF RequestRow
    <2> HIDE DEF x
    <2>4. Follows(x, r)
      BY <1>2, <2>2, <2>3 DEF Follows, Says, Mails
    <2> QED BY <1>3, <2>1, <2>4 DEF x
  <1>7. CASE DeferMail(r) \/ MarkFailed(r)
    <2>1. GoesOn(r)
      BY <1>7 DEF DeferMail, MarkFailed
    <2>2. CASE req[r].op = "approve"
      <3> DEFINE x == [req[r] EXCEPT !.at = "decide", !.found = volunteer[0] > 0]
      <3>1. req' = [req EXCEPT ![r] = x]
        BY <1>1, <2>1, <2>2 DEF GoesOn
      <3>2. /\ x.op = "approve" /\ x.at = "decide" /\ x.user = req[r].user
            /\ x.found = (volunteer[0] > 0)
        BY <1>2, <2>2 DEF RequestRow
      <3>3. Mails(req[r])
        BY <1>7 DEF DeferMail, MarkFailed, Mails
      <3> HIDE DEF x
      <3>4. Says(x)
        BY <3>2 DEF Says, Mails
      <3>5. Follows(x, r)
        BY <2>2, <3>2, <3>3, <3>4 DEF Follows
      <3> QED BY <1>3, <3>1, <3>5
    <2>3. CASE req[r].op # "approve"
      <3>1. req' = [req EXCEPT ![r] = Idle]
        BY <1>1, <2>1, <2>3 DEF GoesOn
      <3> QED BY <1>3, <1>4, <3>1
    <2> QED BY <2>2, <2>3
  <1>8. CASE ApproveRead(r)
    <2>1. PICK a \in Lookup :
            req' = [req EXCEPT ![r] =
              [op |-> "approve", at |-> IF a = 0 THEN "invite" ELSE "decide",
               saw |-> application, user |-> a, member |-> a \in member,
               found |-> a # 0 /\ volunteer[a] > 0, invite |-> 0, late |-> FALSE]]
      BY <1>8 DEF ApproveRead
    <2>2. Follows([op |-> "approve", at |-> IF a = 0 THEN "invite" ELSE "decide",
                   saw |-> application, user |-> a, member |-> a \in member,
                   found |-> a # 0 /\ volunteer[a] > 0, invite |-> 0, late |-> FALSE], r)
      BY DEF Follows, Says, Mails
    <2> QED BY <1>3, <2>1, <2>2
  <1>9. CASE ApproveInvite(r)
    <2>1. PICK i \in Invite : req' = [req EXCEPT ![r] = [req[r] EXCEPT !.at = "queue", !.invite = i]]
      BY <1>1, <1>9 DEF ApproveInvite
    <2>2. req[r].op = "approve"
      BY <1>2, <1>9 DEF ApproveInvite, Says
    <2> DEFINE x == [req[r] EXCEPT !.at = "queue", !.invite = i]
    <2>3. /\ x.op = "approve" /\ x.at = "queue" /\ x.invite = i /\ x.user = req[r].user
          /\ x.found = req[r].found
      BY <1>2, <2>2 DEF RequestRow
    <2> HIDE DEF x
    <2>4. Says(x)
      BY <2>3 DEF Says, Mails
    <2>5. Follows(x, r)
      BY <1>9, <2>2, <2>3, <2>4 DEF Follows
    <2> QED BY <1>3, <2>1, <2>5 DEF x
  <1>10. CASE RejectRead(r)
    <2>1. Follows([Idle EXCEPT !.op = "reject", !.at = "decide", !.saw = application], r)
      BY <1>10 DEF RejectRead, MayReject, Follows, Says, Mails, Idle
    <2> QED BY <1>3, <1>10, <2>1 DEF RejectRead
  <1>11. CASE AcceptRead(r)
    <2>1. PICK i \in Invite, a \in Lookup :
            req' = [req EXCEPT ![r] = [Idle EXCEPT !.op = "accept", !.at = "decide",
                                                   !.invite = i, !.user = a]]
      BY <1>11 DEF AcceptRead
    <2>2. Follows([Idle EXCEPT !.op = "accept", !.at = "decide", !.invite = i, !.user = a], r)
      BY DEF Follows, Says, Mails, Idle
    <2> QED BY <1>3, <2>1, <2>2
  <1>12. CASE ApproveCommit(r) \/ RejectCommit(r) \/ RequestFails(r)
    <2>1. req' = [req EXCEPT ![r] = Idle]
      BY <1>12 DEF ApproveCommit, RejectCommit, RequestFails
    <2> QED BY <1>3, <1>4, <2>1
  <1> QED BY <1>5, <1>6, <1>7, <1>8, <1>9, <1>10, <1>11, <1>12 DEF RequestStep

\* An acceptance ends, and tells the others in flight that they are late.
LEMMA AcceptedRequests ==
  ASSUME TypeOK, NEW r \in Request, AcceptCommit(r)
  PROVE  /\ req'[r] = Idle
         /\ \A s \in Request : s # r =>
              /\ req'[s].op = req[s].op /\ req'[s].at = req[s].at /\ req'[s].saw = req[s].saw
              /\ req'[s].user = req[s].user /\ req'[s].found = req[s].found
              /\ req'[s].invite = req[s].invite
              /\ req[s].op = "accept" => req'[s].late
  <1>1. req \in [Request -> RequestRow(accounts)]
    BY TypeParts
  <1>2. req' = [s \in Request |->
                 IF s = r THEN Idle
                 ELSE IF req[s].op = "accept" THEN [req[s] EXCEPT !.late = TRUE] ELSE req[s]]
    BY DEF AcceptCommit
  <1>3. \A x \in RequestRow(accounts) :
          LET y == [x EXCEPT !.late = TRUE]
          IN  /\ y.op = x.op /\ y.at = x.at /\ y.saw = x.saw /\ y.user = x.user
              /\ y.found = x.found /\ y.invite = x.invite /\ y.late
    BY DEF RequestRow
  <1> QED BY <1>1, <1>2, <1>3

LEMMA RequestsStep ==
  ASSUME TypeOK, RequestsSay, HooksSay, [Next]_vars
  PROVE  RequestsSay'
  <1>1. CASE \A r \in Request : ~RequestStep(r)
    BY <1>1, AsideSteps DEF Aside, RequestsSay
  <1>2. ASSUME NEW r \in Request, RequestStep(r) PROVE RequestsSay'
    <2>1. CASE AcceptCommit(r)
      <3>1. \A s \in Request : s # r => Says(req'[s])
        BY <2>1, AcceptedRequests DEF RequestsSay, Says, Mails
      <3>2. Says(req'[r])
        BY <2>1, AcceptedRequests DEF Says, Idle, Mails
      <3>3. \A s \in Request : Says(req'[s])
        BY <3>1, <3>2
      <3> QED BY <3>3 DEF RequestsSay, Says, Mails
    <2>2. CASE ~AcceptCommit(r)
      <3>1. \A s \in Request : Says(req'[s])
        BY <1>2, <2>2, OwnRequest DEF Follows, RequestsSay
      <3> QED BY <3>1 DEF RequestsSay, Says, Mails
    <2> QED BY <2>1, <2>2
  <1> QED BY <1>1, <1>2

\* Accounts and the acceptances that were overtaken grow together.
LEMMA PeopleStep ==
  ASSUME TypeOK, RequestsSay, HooksSay, People, [Next]_vars
  PROVE  People'
  <1>1. accounts \in Nat /\ overtaken \in Nat
    BY DEF TypeOK
  <1>2. CASE \A r \in Request : ~RequestStep(r)
    BY <1>2, AsideSteps
       DEF Aside, people, accepting, People, OneAccountPerAddress, LateWithoutAccount
  <1>3. ASSUME NEW r \in Request, RequestStep(r), ~AcceptCommit(r) PROVE People'
    <2>1. UNCHANGED <<accounts, overtaken>>
      BY <1>3 DEF RequestStep, CreateInvite, QueueMail, DeferMail, DeferRaises, MarkFailed,
                  ApproveRead, ApproveInvite, ApproveCommit, RejectRead, RejectCommit,
                  AcceptRead, RequestFails, people, accepting
    <2>2. (\A s \in Request : s # r => req'[s] = req[s]) /\ Follows(req'[r], r)
      BY <1>3, OwnRequest
    <2>3. req'[r].op = "accept" /\ req'[r].user = 0 => accounts = 0
      BY <1>1, <2>2 DEF Follows, Lookup
    <2> QED BY <1>1, <2>1, <2>2, <2>3 DEF People, OneAccountPerAddress, LateWithoutAccount
  <1>4. ASSUME NEW r \in Request, AcceptCommit(r) PROVE People'
    <2>1. /\ accounts' = IF req[r].user = 0 THEN accounts + 1 ELSE accounts
          /\ overtaken' = IF req[r].late THEN overtaken + 1 ELSE overtaken
          /\ req[r].op = "accept"
      BY <1>4 DEF AcceptCommit
    <2>2. req[r].user = 0 => accounts = 0 \/ req[r].late
      BY <1>1, <2>1 DEF People, LateWithoutAccount
    <2>3. OneAccountPerAddress'
      BY <1>1, <2>1, <2>2 DEF People, OneAccountPerAddress
    <2>4. LateWithoutAccount'
      BY <1>4, AcceptedRequests DEF LateWithoutAccount, Idle
    <2> QED BY <2>3, <2>4 DEF People
  <1> QED BY <1>2, <1>3, <1>4

\* An invite that an approval made stays one, and a new one is halfway.
LEMMA ApprovalInvites ==
  ASSUME TypeOK, RequestsSay, HooksSay, [Next]_vars
  PROVE  /\ \A i \in Invite : invite[i].by = "approval" => invite'[i].by = "approval"
         /\ \A i \in Invite : invite'[i].by = "approval" => invite[i].by = "approval" \/ i \in halfway'
         /\ \A r \in Request : ApproveInvite(r) => \E i \in Invite : invite'[i].by = "approval"
  <1>1. invite \in [Invite -> InviteRow]
    BY TypeParts DEF Typed
  <1>2. ASSUME NEW r \in Request, NEW i \in Invite, NEW by \in {"admin", "approval"}, Inserts(i, by)
        PROVE  /\ invite[i].by = "none" /\ invite'[i].by = by
               /\ \A k \in Invite : k # i => invite'[k] = invite[k]
    BY <1>1, <1>2 DEF Inserts, There, InviteRow
  <1>3. ASSUME NEW i \in Invite, NEW m,
               \/ invite' = [invite EXCEPT ![i].mail = m]
               \/ invite' = [invite EXCEPT ![i].accepted = m]
        PROVE  \A k \in Invite : invite'[k].by = invite[k].by
    <2>1. \/ invite' = [invite EXCEPT ![i] = [invite[i] EXCEPT !.mail = m]]
          \/ invite' = [invite EXCEPT ![i] = [invite[i] EXCEPT !.accepted = m]]
      BY <1>1, <1>3
    <2>2. /\ [invite[i] EXCEPT !.mail = m].by = invite[i].by
          /\ [invite[i] EXCEPT !.accepted = m].by = invite[i].by
      BY <1>1 DEF InviteRow
    <2> QED BY <1>1, <2>1, <2>2
  <1>4. CASE \A r \in Request : ~RequestStep(r)
    <2>1. \A i \in Invite : invite'[i].by = invite[i].by
      BY <1>4, AsideSteps DEF Aside
    <2> QED BY <1>4, <2>1 DEF RequestStep
  <1>5. ASSUME NEW r \in Request, CreateInvite(r)
        PROVE  \A k \in Invite : invite'[k].by = invite[k].by \/ (invite[k].by = "none" /\ invite'[k].by = "admin")
    BY <1>2, <1>5 DEF CreateInvite
  <1>6. ASSUME NEW r \in Request, ApproveInvite(r)
        PROVE  /\ \E i \in Invite : invite'[i].by = "approval"
               /\ \A k \in Invite :
                    invite'[k].by = invite[k].by \/ (invite[k].by = "none" /\ k \in halfway')
    <2>1. PICK i \in Invite : Inserts(i, "approval") /\ halfway' = halfway \cup {i}
      BY <1>6 DEF ApproveInvite
    <2>2. /\ invite[i].by = "none" /\ invite'[i].by = "approval"
          /\ \A k \in Invite : k # i => invite'[k] = invite[k]
      BY <1>2, <2>1
    <2>3. i \in halfway'
      BY <2>1
    <2>4. ASSUME NEW k \in Invite
          PROVE  invite'[k].by = invite[k].by \/ (invite[k].by = "none" /\ k \in halfway')
      BY <2>2, <2>3
    <2> QED BY <2>2, <2>4
  <1>7. ASSUME NEW r \in Request, RequestStep(r), ~CreateInvite(r), ~ApproveInvite(r)
        PROVE  \A k \in Invite : invite'[k].by = invite[k].by
    <2>1. CASE QueueMail(r) \/ MarkFailed(r)
      <3>1. req[r].invite \in Invite
        BY <2>1 DEF QueueMail, MarkFailed, RequestsSay, Says, Mails
      <3> QED BY <1>3, <2>1, <3>1 DEF QueueMail, MarkFailed
    <2>2. CASE AcceptCommit(r)
      <3>1. req[r].invite \in Invite
        BY <2>2 DEF AcceptCommit, RequestsSay, Says
      <3> QED BY <1>3, <2>2, <3>1 DEF AcceptCommit
    <2>3. CASE UNCHANGED invite
      BY <2>3
    <2> QED BY <1>7, <2>1, <2>2, <2>3
            DEF RequestStep, DeferMail, DeferRaises, ApproveRead, ApproveCommit, RejectRead,
                RejectCommit, AcceptRead, RequestFails
  <1>8. \A r \in Request : ApproveInvite(r) => \E i \in Invite : invite'[i].by = "approval"
    BY <1>6
  <1> QED BY <1>4, <1>5, <1>6, <1>7, <1>8

\* Once there is a volunteers row of the address there always is one.
LEMMA VolunteersStay ==
  ASSUME TypeOK, RequestsSay, HooksSay, [Next]_vars
  PROVE  SomeVolunteer => SomeVolunteer'
  <1>1. accounts \in Nat /\ volunteer \in [0..accounts -> Nat]
    BY DEF TypeOK
  <1>2. CASE UNCHANGED people
    BY <1>2 DEF people, SomeVolunteer
  <1>3. ASSUME NEW r \in Request, ApproveCommit(r) PROVE SomeVolunteer => SomeVolunteer'
    <2>1. req[r].user \in 0..accounts /\ accounts' = accounts
      BY <1>3 DEF TypeOK, ApproveCommit
    <2>2. \A a \in 0..accounts : volunteer'[a] >= volunteer[a]
      BY <1>1, <1>3, <2>1 DEF ApproveCommit
    <2>3. volunteer' \in [0..accounts -> Nat]
      BY <1>1, <1>3, <2>1 DEF ApproveCommit
    <2>4. ASSUME NEW a \in 0..accounts, volunteer[a] > 0 PROVE volunteer'[a] > 0
      BY <1>1, <2>2, <2>3, <2>4
    <2> QED BY <2>1, <2>4 DEF SomeVolunteer
  <1>4. ASSUME NEW r \in Request, AcceptCommit(r), NEW a \in 0..accounts, volunteer[a] > 0
        PROVE  SomeVolunteer'
    <2>1. /\ req[r].user \in 0..accounts
          /\ accounts' = IF req[r].user = 0 THEN accounts + 1 ELSE accounts
          /\ volunteer' = [b \in 0..accounts' |->
                             IF b = 0 THEN 0
                             ELSE (IF b <= accounts THEN volunteer[b] ELSE 0)
                                    + (IF b = Joined(r) THEN volunteer[0] ELSE 0)]
      BY <1>4 DEF TypeOK, AcceptCommit
    <2>2. Joined(r) \in 1..accounts' /\ 0..accounts \subseteq 0..accounts' /\ accounts' \in Nat
      BY <1>1, <2>1 DEF Joined
    <2>3. CASE a = 0
      <3>1. volunteer'[Joined(r)] = (IF Joined(r) <= accounts THEN volunteer[Joined(r)] ELSE 0) + volunteer[0]
        BY <2>1, <2>2
      <3>2. Joined(r) <= accounts => volunteer[Joined(r)] \in Nat
        BY <1>1, <2>2
      <3>3. volunteer'[Joined(r)] > 0
        BY <1>1, <1>4, <2>3, <3>1, <3>2
      <3> QED BY <2>2, <3>3 DEF SomeVolunteer
    <2>4. CASE a # 0
      <3>1. volunteer'[a] = volunteer[a] + (IF a = Joined(r) THEN volunteer[0] ELSE 0)
        BY <1>1, <2>1, <2>2, <2>4
      <3>2. volunteer'[a] > 0
        BY <1>1, <1>4, <3>1
      <3> QED BY <2>2, <3>2 DEF SomeVolunteer
    <2> QED BY <2>3, <2>4
  <1>5. UNCHANGED people \/ \E r \in Request : ApproveCommit(r) \/ AcceptCommit(r)
    <2>1. CASE \A r \in Request : ~RequestStep(r)
      BY <2>1, AsideSteps DEF Aside
    <2>2. ASSUME NEW r \in Request, RequestStep(r), ~ApproveCommit(r), ~AcceptCommit(r)
          PROVE  UNCHANGED people
      BY <2>2 DEF RequestStep, CreateInvite, QueueMail, DeferMail, DeferRaises, MarkFailed,
                  ApproveRead, ApproveInvite, RejectRead, RejectCommit, AcceptRead, RequestFails
    <2> QED BY <2>1, <2>2
  <1> QED BY <1>2, <1>3, <1>4, <1>5 DEF SomeVolunteer

\* What a request step leaves of the application and its history.
LEMMA Undecided ==
  ASSUME TypeOK, RequestsSay, HooksSay, [Next]_vars,
         \A r \in Request : ~ApproveCommit(r) /\ ~RejectCommit(r) /\ ~AcceptCommit(r)
  PROVE  UNCHANGED <<application, crossed, people, accepting>> /\ halfway \subseteq halfway'
  <1>1. CASE \A r \in Request : ~RequestStep(r)
    BY <1>1, AsideSteps DEF Aside, deciding
  <1>2. ASSUME NEW r \in Request, RequestStep(r)
        PROVE  UNCHANGED <<application, crossed, people, accepting>> /\ halfway \subseteq halfway'
    BY <1>2 DEF RequestStep, CreateInvite, QueueMail, DeferMail, DeferRaises, MarkFailed,
                ApproveRead, ApproveInvite, RejectRead, AcceptRead, RequestFails, deciding
  <1> QED BY <1>1, <1>2

\* The application and what it says of invites, members and volunteers.
LEMMA ShownStep ==
  ASSUME TypeOK, RequestsSay, HooksSay, Decision, [Next]_vars
  PROVE  StillUntouched' /\ ApprovedShows' /\ LinkedUnlessUnseen'
  <1>1. accounts \in Nat /\ volunteer \in [0..accounts -> Nat] /\ member \subseteq 1..accounts
    BY DEF TypeOK
  <1>2. /\ \A i \in Invite : invite[i].by = "approval" => invite'[i].by = "approval"
        /\ \A i \in Invite : invite'[i].by = "approval" => invite[i].by = "approval" \/ i \in halfway'
        /\ SomeVolunteer => SomeVolunteer'
    BY ApprovalInvites, VolunteersStay
  <1>3. CASE \A r \in Request : ~ApproveCommit(r) /\ ~RejectCommit(r) /\ ~AcceptCommit(r)
    <2>1. UNCHANGED <<application, crossed, people, accepting>> /\ halfway \subseteq halfway'
      BY <1>3, Undecided
    <2>2. Untouched => Untouched'
      BY <1>2, <2>1 DEF Untouched, people
    <2>3. StillUntouched'
      BY <2>1, <2>2 DEF Decision, StillUntouched
    <2>4. ApprovedShows'
      BY <1>2, <2>1 DEF Decision, ApprovedShows, people
    <2>5. LinkedUnlessUnseen'
      BY <2>1 DEF Decision, LinkedUnlessUnseen, people, accepting
    <2> QED BY <2>3, <2>4, <2>5
  <1>4. ASSUME NEW r \in Request, ApproveCommit(r)
        PROVE  StillUntouched' /\ ApprovedShows' /\ LinkedUnlessUnseen'
    <2>1. /\ req[r].op = "approve" /\ req[r].at = "decide" /\ req[r].user \in 0..accounts
          /\ application' = "approved" /\ UNCHANGED <<accounts, unseen>>
          /\ volunteer' = IF req[r].found THEN volunteer
                          ELSE [volunteer EXCEPT ![req[r].user] = @ + 1]
          /\ member' = IF req[r].user = 0 THEN member ELSE member \cup {req[r].user}
      BY <1>4 DEF ApproveCommit, TypeOK, accepting
    <2>2. StillUntouched'
      BY <2>1 DEF StillUntouched
    <2>3. SomeVolunteer'
      <3>1. CASE req[r].found
        BY <1>2, <2>1, <3>1 DEF Decision, ApprovalsSay
      <3>2. CASE ~req[r].found
        <4>1. volunteer'[req[r].user] = volunteer[req[r].user] + 1 /\ volunteer[req[r].user] \in Nat
          BY <1>1, <2>1, <3>2
        <4>2. volunteer'[req[r].user] > 0
          BY <4>1
        <4>3. req[r].user \in 0..accounts'
          BY <2>1
        <4> DEFINE a == req[r].user
        <4> HIDE DEF a
        <4>4. \A b \in 0..accounts' : b = a => volunteer'[b] > 0
          BY <4>2 DEF a
        <4> QED BY <4>3, <4>4 DEF a, SomeVolunteer
      <3> QED BY <3>1, <3>2
    <2>4. member' # {} \/ \E i \in Invite : invite'[i].by = "approval"
      BY <1>2, <2>1 DEF Decision, ApprovalsSay
    <2>5. LinkedUnlessUnseen'
      <3>1. CASE req[r].user = 0 /\ accounts > 0
        BY <2>1, <3>1 DEF Decision, ApprovalsSay, LinkedUnlessUnseen
      <3>2. CASE req[r].user # 0
        <4>1. volunteer'[0] = volunteer[0]
          BY <1>1, <2>1, <3>2
        <4> QED BY <2>1, <4>1 DEF Decision, LinkedUnlessUnseen
      <3>3. CASE ~(accounts > 0)
        BY <2>1, <3>3 DEF LinkedUnlessUnseen
      <3> QED BY <3>1, <3>2, <3>3
    <2>6. ApprovedShows'
      BY <2>3, <2>4 DEF ApprovedShows
    <2> QED BY <2>2, <2>5, <2>6
  <1>5. ASSUME NEW r \in Request, RejectCommit(r)
        PROVE  StillUntouched' /\ ApprovedShows' /\ LinkedUnlessUnseen'
    <2>1. /\ req[r].saw = "pending" /\ application' = "rejected"
          /\ crossed' = (application # req[r].saw)
          /\ UNCHANGED <<invite, halfway, accounts, member, volunteer, unseen>>
      BY <1>5 DEF RejectCommit, RequestsSay, Says, people, accepting
    <2>2. ~crossed' => application = "pending"
      BY <2>1
    <2>3. Untouched => Untouched'
      BY <2>1 DEF Untouched
    <2>4. StillUntouched'
      BY <2>1, <2>2, <2>3 DEF Decision, StillUntouched
    <2>5. ApprovedShows' /\ LinkedUnlessUnseen'
      BY <2>1 DEF Decision, ApprovedShows, LinkedUnlessUnseen
    <2> QED BY <2>4, <2>5
  <1>6. ASSUME NEW r \in Request, AcceptCommit(r)
        PROVE  StillUntouched' /\ ApprovedShows' /\ LinkedUnlessUnseen'
    <2>1. /\ req[r].user \in 0..accounts
          /\ UNCHANGED <<application, crossed, halfway>>
          /\ accounts' = IF req[r].user = 0 THEN accounts + 1 ELSE accounts
          /\ member \subseteq member'
          /\ volunteer' = [b \in 0..accounts' |->
                             IF b = 0 THEN 0
                             ELSE (IF b <= accounts THEN volunteer[b] ELSE 0)
                                    + (IF b = Joined(r) THEN volunteer[0] ELSE 0)]
      BY <1>6 DEF TypeOK, AcceptCommit, deciding
    <2>2. Untouched => Untouched'
      <3>1. ASSUME Untouched, NEW b \in 0..accounts' PROVE volunteer'[b] = 0
        BY <1>1, <2>1, <3>1 DEF Untouched
      <3>2. ASSUME Untouched, NEW i \in Invite, invite'[i].by = "approval" PROVE i \in halfway'
        BY <1>2, <2>1, <3>2 DEF Untouched
      <3> QED BY <3>1, <3>2 DEF Untouched
    <2>3. StillUntouched'
      BY <2>1, <2>2 DEF Decision, StillUntouched
    <2>4. ApprovedShows'
      BY <1>2, <2>1 DEF Decision, ApprovedShows
    <2>5. 0 \in 0..accounts'
      BY <1>1, <2>1
    <2>6. volunteer'[0] = 0
      BY <2>1, <2>5
    <2>7. LinkedUnlessUnseen'
      BY <2>6 DEF LinkedUnlessUnseen
    <2> QED BY <2>3, <2>4, <2>7
  <1> QED BY <1>3, <1>4, <1>5, <1>6

\* What an approval in flight may rely on.
LEMMA ApprovalsStep ==
  ASSUME TypeOK, RequestsSay, HooksSay, Decision, [Next]_vars
  PROVE  ApprovalsSay'
  <1>1. accounts \in Nat
    BY DEF TypeOK
  <1>2. /\ \A i \in Invite : invite[i].by = "approval" => invite'[i].by = "approval"
        /\ \A r \in Request : ApproveInvite(r) => \E i \in Invite : invite'[i].by = "approval"
        /\ SomeVolunteer => SomeVolunteer'
    BY ApprovalInvites, VolunteersStay
  <1> DEFINE Fine(x) == /\ x.found => SomeVolunteer'
                        /\ x.user = 0 /\ accounts' > 0 => unseen'
                        /\ x.user = 0 /\ (Mails(x) \/ x.at = "decide") =>
                             \E i \in Invite : invite'[i].by = "approval"
  <1>3. (\A r \in Request : req'[r].op = "approve" => Fine(req'[r])) => ApprovalsSay'
    BY DEF ApprovalsSay, Mails
  <1>4. CASE \A r \in Request : ~RequestStep(r)
    <2>1. UNCHANGED <<accounts, unseen, req>>
      BY <1>4, AsideSteps DEF Aside, people, accepting
    <2>2. \A r \in Request : req'[r].op = "approve" => Fine(req'[r])
      BY <1>2, <2>1 DEF Decision, ApprovalsSay
    <2> QED BY <1>3, <2>2
  <1>5. ASSUME NEW r \in Request, RequestStep(r), ~AcceptCommit(r) PROVE ApprovalsSay'
    <2>1. UNCHANGED <<accounts, unseen>>
      BY <1>5 DEF RequestStep, CreateInvite, QueueMail, DeferMail, DeferRaises, MarkFailed,
                  ApproveRead, ApproveInvite, ApproveCommit, RejectRead, RejectCommit,
                  AcceptRead, RequestFails, people, accepting
    <2>2. (\A s \in Request : s # r => req'[s] = req[s]) /\ Follows(req'[r], r)
      BY <1>5, OwnRequest
    <2>3. \A s \in Request : s # r /\ req'[s].op = "approve" => Fine(req'[s])
      BY <1>2, <2>1, <2>2 DEF Decision, ApprovalsSay
    <2>4. ASSUME req'[r].op = "approve" PROVE Fine(req'[r])
      <3> DEFINE x == req'[r]
      <3>1. CASE /\ x.user \in Lookup /\ x.at \in {"invite", "decide"}
                 /\ x.at = "decide" => x.user # 0
                 /\ x.found => volunteer[x.user] > 0
        <4>1. x.user \in 0..accounts /\ (x.user = 0 => accounts = 0)
          BY <1>1, <3>1 DEF Lookup
        <4>2. x.found => SomeVolunteer
          BY <3>1, <4>1 DEF SomeVolunteer
        <4> QED BY <1>2, <2>1, <3>1, <4>1, <4>2 DEF Mails
      <3>2. CASE /\ req[r].op = "approve" /\ x.user = req[r].user
                 /\ x.found => req[r].found \/ volunteer[0] > 0
                 /\ Mails(req[r]) \/ ApproveInvite(r)
        <4>1. volunteer[0] > 0 => SomeVolunteer
          BY <1>1 DEF SomeVolunteer
        <4>2. x.found => SomeVolunteer
          BY <3>2, <4>1 DEF Decision, ApprovalsSay
        <4>3. x.user = 0 => \E i \in Invite : invite'[i].by = "approval"
          BY <1>2, <3>2 DEF Decision, ApprovalsSay
        <4>4. x.user = 0 /\ accounts' > 0 => unseen'
          BY <2>1, <3>2 DEF Decision, ApprovalsSay
        <4> QED BY <1>2, <4>2, <4>3, <4>4
      <3> QED BY <2>2, <2>4, <3>1, <3>2 DEF Follows
    <2>5. \A s \in Request : req'[s].op = "approve" => Fine(req'[s])
      BY <2>3, <2>4
    <2> QED BY <1>3, <2>5
  <1>6. ASSUME NEW r \in Request, AcceptCommit(r) PROVE ApprovalsSay'
    <2>1. unseen' = (unseen \/ \E s \in Request : req[s].op = "approve" /\ req[s].user = 0)
      BY <1>6 DEF AcceptCommit
    <2>2. req'[r].op # "approve"
      BY <1>6, AcceptedRequests DEF Idle
    <2>3. ASSUME NEW s \in Request, s # r, req'[s].op = "approve" PROVE Fine(req'[s])
      <3>1. /\ req[s].op = "approve" /\ req'[s].at = req[s].at
            /\ req'[s].user = req[s].user /\ req'[s].found = req[s].found
        BY <1>6, <2>3, AcceptedRequests
      <3>2. req[s].user = 0 => unseen'
        BY <2>1, <3>1
      <3> QED BY <1>2, <3>1, <3>2 DEF Decision, ApprovalsSay, Mails
    <2> QED BY <1>3, <2>2, <2>3
  <1> QED BY <1>4, <1>5, <1>6

-----------------------------------------------------------------------------
(* E-mails *)

\* Nothing about the invite k and its e-mail changes but how it was closed.
Same(k) ==
  /\ invite'[k].by = invite[k].by
  /\ invite'[k].mail = invite[k].mail /\ invite'[k].tracked = invite[k].tracked
  /\ task'[k] = task[k] /\ reported'[k] = reported[k] /\ (k \in astray' <=> k \in astray)

LEMMA SameKeeps ==
  ASSUME NEW k \in Invite, Same(k)
  PROVE  /\ SentAt(k) => SentAt(k)'
         /\ WorstAt(k) => WorstAt(k)'
         /\ (~There(k) => NoMailYet(k)) => (~There(k)' => NoMailYet(k)')
         /\ There(k) => There(k)'
         /\ NoMailYet(k) => NoMailYet(k)'
  <1>1. WorstAt(k) => WorstAt(k)'
    BY DEF Same, WorstAt
  <1>2. SentAt(k) => SentAt(k)'
    BY DEF Same, SentAt
  <1> QED BY <1>1, <1>2 DEF Same, There, NoMailYet

\* Only the e-mails of the invites I change, and no request about one begins.
LEMMA MailKept ==
  ASSUME RequestsSay, RequestsSay', MailFollowsInvite, OneRequestPerInvite, SentOnce, WorstSoFar,
         NEW I, \A k \in Invite \ I : Same(k),
         \A k \in I : SentAt(k)' /\ WorstAt(k)' /\ (~There(k)' => NoMailYet(k)'),
         \A r \in Request : Mails(req'[r]) =>
           /\ Mails(req[r]) /\ req'[r].invite = req[r].invite
           /\ IF req[r].invite \in I THEN FollowsAt(r)' ELSE req'[r].at = req[r].at
  PROVE  MailFollowsInvite' /\ OneRequestPerInvite' /\ SentOnce' /\ WorstSoFar'
  <1>1. SentOnce' /\ WorstSoFar'
    BY SameKeeps DEF SentOnce, WorstSoFar
  <1>2. OneRequestPerInvite'
    BY DEF OneRequestPerInvite, Mails
  <1>3. ASSUME NEW k \in Invite PROVE ~There(k)' => NoMailYet(k)'
    BY SameKeeps DEF MailFollowsInvite
  <1>4. ASSUME NEW r \in Request PROVE FollowsAt(r)'
    <2>1. CASE ~Mails(req'[r])
      BY <2>1 DEF FollowsAt, Mails
    <2>2. CASE Mails(req'[r]) /\ req[r].invite \in I
      BY <2>2
    <2>3. CASE Mails(req'[r]) /\ req[r].invite \notin I
      <3>1. PICK k \in Invite \ I : k = req[r].invite
        BY <2>3 DEF RequestsSay, Says
      <3>2. FollowsAt(r) /\ Mails(req[r]) /\ req'[r].invite = k /\ req'[r].at = req[r].at
        BY <2>3, <3>1 DEF MailFollowsInvite
      <3>3. There(k)' /\ (NoMailYet(k) => NoMailYet(k)')
        BY <3>1, <3>2, SameKeeps DEF FollowsAt
      <3>4. invite'[k].mail = invite[k].mail
        BY <3>1 DEF Same
      <3> QED BY <3>1, <3>2, <3>3, <3>4 DEF FollowsAt, There, NoMailYet
    <2> QED BY <2>1, <2>2, <2>3
  <1> QED BY <1>1, <1>2, <1>3, <1>4 DEF MailFollowsInvite

\* Webhook requests stay as they are, and what they rest on does.
LEMMA HooksKept ==
  ASSUME HooksSay, UNCHANGED hook,
         \A k \in Invite : invite[k].tracked => invite'[k].tracked
  PROVE  HooksSay'
  BY DEF HooksSay

\* Requests that neither create an invite nor work on its e-mail.
LEMMA QuietStep ==
  ASSUME RequestsSay, RequestsSay', Mailing, \A k \in Invite : Same(k), UNCHANGED <<hook, reported>>,
         \A r \in Request : Mails(req'[r]) =>
           Mails(req[r]) /\ req'[r].invite = req[r].invite /\ req'[r].at = req[r].at
  PROVE  Mailing'
  <1>1. MailFollowsInvite' /\ OneRequestPerInvite' /\ SentOnce' /\ WorstSoFar'
    <2> DEFINE I == {}
    <2>1. /\ \A k \in Invite \ I : Same(k)
          /\ \A k \in I : SentAt(k)' /\ WorstAt(k)' /\ (~There(k)' => NoMailYet(k)')
          /\ \A r \in Request : Mails(req'[r]) =>
               /\ Mails(req[r]) /\ req'[r].invite = req[r].invite
               /\ IF req[r].invite \in I THEN FollowsAt(r)' ELSE req'[r].at = req[r].at
      OBVIOUS
    <2> HIDE DEF I
    <2> QED BY <2>1, MailKept DEF Mailing
  <1>2. HooksSay'
    BY HooksKept DEF Mailing, Same
  <1> QED BY <1>1, <1>2 DEF Mailing

\* A new invite is nobody else's, and has no e-mail yet.
LEMMA CreationStep ==
  ASSUME TypeOK, RequestsSay, RequestsSay', Mailing, NEW r \in Request,
         CreateInvite(r) \/ ApproveInvite(r)
  PROVE  Mailing'
  <1>1. invite \in [Invite -> InviteRow] /\ req \in [Request -> RequestRow(accounts)]
    BY TypeParts DEF Typed
  <1>2. PICK i \in Invite, by \in {"admin", "approval"} :
          Inserts(i, by) /\ req'[r].invite = i /\ req'[r].at = "queue"
    <2>1. CASE CreateInvite(r)
      BY <1>1, <2>1 DEF CreateInvite, Idle
    <2>2. CASE ApproveInvite(r)
      <3>1. PICK i \in Invite : /\ Inserts(i, "approval")
                                /\ req' = [req EXCEPT ![r] = [req[r] EXCEPT !.at = "queue", !.invite = i]]
        BY <1>1, <2>2 DEF ApproveInvite
      <3> QED BY <1>1, <3>1 DEF RequestRow
    <2> QED BY <2>1, <2>2
  <1>3. \A s \in Request : s # r => req'[s] = req[s]
    BY <1>1 DEF CreateInvite, ApproveInvite
  <1>4. UNCHANGED <<task, reported, hook, astray>>
    BY DEF CreateInvite, ApproveInvite, mailing
  <1>5. /\ ~There(i) /\ invite'[i].by = by
        /\ invite'[i].mail = invite[i].mail /\ invite'[i].tracked = invite[i].tracked
        /\ \A k \in Invite : k # i => invite'[k] = invite[k]
    BY <1>1, <1>2 DEF Inserts, InviteRow
  <1>6. \A k \in Invite : k # i => Same(k)
    BY <1>4, <1>5 DEF Same
  <1>8. SentAt(i)' /\ WorstAt(i)' /\ NoMailYet(i) /\ NoMailYet(i)'
    BY <1>4, <1>5
       DEF Mailing, MailFollowsInvite, SentOnce, WorstSoFar, SentAt, WorstAt, NoMailYet
  <1>9. There(i)'
    BY <1>5 DEF There
  <1>10. SentOnce' /\ WorstSoFar'
    BY <1>6, <1>8, SameKeeps DEF Mailing, SentOnce, WorstSoFar
  <1>11. \A s \in Request : s # r /\ Mails(req[s]) => req[s].invite # i
    BY <1>5 DEF Mailing, MailFollowsInvite, FollowsAt
  <1>12. OneRequestPerInvite'
    BY <1>2, <1>3, <1>11 DEF Mailing, OneRequestPerInvite, Mails
  <1>13. ASSUME NEW s \in Request PROVE FollowsAt(s)'
    <2>1. CASE s = r
      BY <1>2, <1>8, <1>9, <2>1 DEF FollowsAt, There, NoMailYet
    <2>2. CASE s # r /\ Mails(req[s])
      <3>1. PICK k \in Invite : k = req[s].invite
        BY <2>2 DEF RequestsSay, Says
      <3>2. k # i /\ req'[s] = req[s] /\ FollowsAt(s)
        BY <1>3, <1>11, <2>2, <3>1 DEF Mailing, MailFollowsInvite
      <3>3. invite'[k] = invite[k]
        BY <1>5, <3>2
      <3> QED BY <1>4, <3>1, <3>2, <3>3 DEF FollowsAt, There, NoMailYet, Mails
    <2>3. CASE s # r /\ ~Mails(req[s])
      BY <1>3, <2>3 DEF FollowsAt, Mails
    <2> QED BY <2>1, <2>2, <2>3
  <1>14. ASSUME NEW k \in Invite PROVE ~There(k)' => NoMailYet(k)'
    BY <1>6, <1>8, SameKeeps DEF Mailing, MailFollowsInvite
  <1>15. HooksSay'
    <2>1. \A k \in Invite : invite'[k].tracked = invite[k].tracked
      BY <1>5
    <2> QED BY <1>4, <2>1, HooksKept DEF Mailing
  <1> QED BY <1>10, <1>12, <1>13, <1>14, <1>15 DEF Mailing, MailFollowsInvite

\* Queueing, deferring, and what follows a deferral that raises.
LEMMA QueueStep ==
  ASSUME TypeOK, RequestsSay, RequestsSay', Mailing, NEW r \in Request,
         QueueMail(r) \/ DeferMail(r) \/ DeferRaises(r) \/ MarkFailed(r)
  PROVE  Mailing'
  <1>1. /\ invite \in [Invite -> InviteRow] /\ req \in [Request -> RequestRow(accounts)]
        /\ task \in [Invite -> TaskRow] /\ astray \subseteq Invite
    BY TypeParts DEF Typed
  <1>2. Mails(req[r])
    BY DEF QueueMail, DeferMail, DeferRaises, MarkFailed, Mails
  <1>3. PICK i \in Invite : i = req[r].invite
    BY <1>2 DEF RequestsSay, Says
  <1>4. /\ There(i) /\ SentAt(i)
        /\ req[r].at \in {"queue", "defer"} => NoMailYet(i)
        /\ req[r].at = "defer" => invite[i].mail = "queued"
    BY <1>2, <1>3 DEF Mailing, MailFollowsInvite, FollowsAt, SentOnce
  <1>5. \A s \in Request : s # r /\ Mails(req[s]) => req[s].invite # i
    BY <1>2, <1>3 DEF Mailing, OneRequestPerInvite
  <1>6. UNCHANGED <<reported, hook>>
    BY DEF QueueMail, DeferMail, DeferRaises, MarkFailed, mailing
  <1>7. /\ \A s \in Request : s # r => req'[s] = req[s]
        /\ Mails(req'[r]) =>
             /\ req'[r].invite = i /\ (QueueMail(r) \/ DeferRaises(r))
             /\ req'[r].at = IF QueueMail(r) THEN "defer" ELSE "undo"
    <2>1. CASE QueueMail(r)
      BY <1>1, <1>3, <2>1 DEF QueueMail, RequestRow
    <2>2. CASE DeferRaises(r)
      <3>1. ~QueueMail(r)
        BY <2>2 DEF DeferRaises, QueueMail
      <3> QED BY <1>1, <1>3, <2>2, <3>1 DEF DeferRaises, RequestRow
    <2>3. CASE DeferMail(r) \/ MarkFailed(r)
      <3>1. GoesOn(r)
        BY <2>3 DEF DeferMail, MarkFailed
      <3>2. ~Mails(req'[r])
        BY <1>1, <3>1 DEF GoesOn, Mails, Idle, RequestRow
      <3> QED BY <1>1, <3>1, <3>2 DEF GoesOn
    <2> QED BY <2>1, <2>2, <2>3
  <1>8. /\ \A k \in Invite : k # i => invite'[k] = invite[k] /\ task'[k] = task[k]
        /\ \A k \in Invite : k # i => (k \in astray' <=> k \in astray)
        /\ invite'[i].by = invite[i].by /\ invite'[i].tracked = invite[i].tracked
        /\ i \in astray => i \in astray'
        /\ \/ /\ QueueMail(r) /\ invite'[i].mail = "queued" /\ task'[i] = task[i]
              /\ req[r].at = "queue"
           \/ /\ DeferMail(r) \/ DeferRaises(r)
              /\ invite'[i].mail = invite[i].mail /\ task'[i].at \in {"none", "queued"}
              /\ req[r].at = "defer"
           \/ /\ MarkFailed(r) /\ task'[i] = task[i] /\ req[r].at = "undo"
              /\ task[i].at # "none" => i \in astray'
    <2>1. CASE QueueMail(r)
      BY <1>1, <1>3, <2>1 DEF QueueMail, InviteRow, mailing
    <2>2. CASE DeferMail(r)
      BY <1>1, <1>3, <2>2 DEF DeferMail, InviteRow, TaskRow
    <2>3. CASE DeferRaises(r)
      <3>1. PICK at \in {"none", "queued"} : task' = [task EXCEPT ![i].at = at]
        BY <1>3, <2>3 DEF DeferRaises
      <3>2. task'[i].at = at /\ \A k \in Invite : k # i => task'[k] = task[k]
        BY <1>1, <3>1 DEF TaskRow
      <3> QED BY <2>3, <3>2 DEF DeferRaises
    <2>4. CASE MarkFailed(r)
      BY <1>1, <1>3, <2>4 DEF MarkFailed, InviteRow
    <2> QED BY <2>1, <2>2, <2>3, <2>4
  <1>9. \A k \in Invite \ {i} : Same(k)
    BY <1>6, <1>8 DEF Same
  <1>10. There(i)'
    BY <1>4, <1>8 DEF There
  <1>12. SentAt(i)' /\ WorstAt(i)'
    BY <1>4, <1>6, <1>8 DEF SentAt, WorstAt, NoMailYet
  <1>13. FollowsAt(r)'
    <2>1. CASE QueueMail(r)
      <3>1. req[r].at = "queue"
        BY <2>1 DEF QueueMail
      <3>2. task'[i] = task[i] /\ invite'[i].mail = "queued"
        BY <1>8, <3>1
      <3>3. NoMailYet(i)'
        BY <1>4, <1>8, <3>1, <3>2 DEF NoMailYet
      <3> QED BY <1>7, <1>10, <3>2, <3>3 DEF FollowsAt, NoMailYet, There
    <2>2. CASE ~QueueMail(r) /\ Mails(req'[r])
      BY <1>7, <1>10, <2>2 DEF FollowsAt, There
    <2>3. CASE ~Mails(req'[r])
      BY <2>3 DEF FollowsAt, Mails
    <2> QED BY <2>1, <2>2, <2>3
  <1>14. MailFollowsInvite' /\ OneRequestPerInvite' /\ SentOnce' /\ WorstSoFar'
    <2>1. \A k \in {i} : SentAt(k)' /\ WorstAt(k)' /\ (~There(k)' => NoMailYet(k)')
      BY <1>10, <1>12
    <2>2. \A s \in Request : Mails(req'[s]) =>
            /\ Mails(req[s]) /\ req'[s].invite = req[s].invite
            /\ IF req[s].invite \in {i} THEN FollowsAt(s)' ELSE req'[s].at = req[s].at
      BY <1>2, <1>3, <1>5, <1>7, <1>13
    <2> QED BY <1>9, <2>1, <2>2, MailKept DEF Mailing
  <1>15. HooksSay'
    BY <1>6, <1>8, HooksKept DEF Mailing
  <1> QED BY <1>14, <1>15 DEF Mailing

\* What is written over a status that was read when it was as it is now.
LEMMA ProjectedRank ==
  ASSUME TypeOK, NEW i \in Invite, NEW status \in DOMAIN Rank
  PROVE  LET saw == invite[i].mail
             new == Projected(i, saw, status)
         IN  /\ new \in {saw, status}
             /\ RankOf(new) >= RankOf(saw) /\ RankOf(new) >= RankOf(status)
  <1>1. /\ Rank[status] = RankOf(status)
        /\ RankOf(status) \in Int /\ RankOf(invite[i].mail) \in Int
    BY Statuses
  <1> QED BY <1>1 DEF Projected, Promotes

\* A status without a rank is always written.
LEMMA ProjectedUnranked ==
  ASSUME TypeOK, NEW i \in Invite, NEW status, status \notin DOMAIN Rank
  PROVE  Projected(i, invite[i].mail, status) = status /\ RankOf(status) = -1
  BY DEF Projected, Promotes, RankOf

\* The e-mail task, which works on its invite alone.
LEMMA TaskStep ==
  ASSUME TypeOK, RequestsSay, RequestsSay', Mailing, NEW i \in Invite, MailStep(i)
  PROVE  Mailing'
  <1>1. /\ invite \in [Invite -> InviteRow] /\ task \in [Invite -> TaskRow]
        /\ astray \subseteq Invite
    BY TypeParts DEF Typed
  <1>2. UNCHANGED <<req, reported, hook>>
    BY DEF MailStep, MailSkip, MailLoad, MailRefused, MailSubmit, MailCommit, MailDies
  <1>3. SentAt(i) /\ task[i].at \in {"queued", "sending", "sent"} /\ ~invite[i].tracked
    BY DEF Mailing, SentOnce, SentAt, MailStep, MailSkip, MailLoad, MailRefused, MailSubmit,
           MailCommit, MailDies
  <1>4. There(i)
    BY <1>3 DEF Mailing, MailFollowsInvite, NoMailYet
  <1>5. /\ \A k \in Invite : k # i => invite'[k] = invite[k] /\ task'[k] = task[k]
        /\ \A k \in Invite : k # i => (k \in astray' <=> k \in astray)
        /\ invite'[i].by = invite[i].by /\ (i \in astray => i \in astray')
    <2>1. CASE MailSkip(i)
      BY <1>1, <2>1 DEF MailSkip, Ends, InviteRow
    <2>2. CASE MailLoad(i) \/ MailSubmit(i) \/ MailDies(i)
      BY <1>1, <2>2 DEF MailLoad, MailSubmit, MailDies, Ends
    <2>3. CASE MailRefused(i)
      BY <1>1, <2>3 DEF MailRefused, Ends, Outdated, InviteRow
    <2>4. CASE MailCommit(i)
      BY <1>1, <2>4 DEF MailCommit, Ends, Outdated, InviteRow
    <2> QED BY <2>1, <2>2, <2>3, <2>4 DEF MailStep
  <1>6. \/ /\ ~invite'[i].tracked /\ task'[i].at = "done"
        \/ /\ MailLoad(i) /\ invite'[i] = invite[i] /\ task'[i].at = "sending"
           /\ task'[i].saw = invite[i].mail
        \/ /\ MailSubmit(i) /\ invite'[i] = invite[i] /\ task'[i].at = "sent"
           /\ task'[i].saw = task[i].saw
        \/ /\ MailCommit(i) /\ invite'[i].tracked /\ task'[i].at = "done"
           /\ i \notin astray' => i \notin astray /\ invite[i].mail = task[i].saw
           /\ invite'[i].mail = Projected(i, task[i].saw, "submitted")
    <2>1. CASE MailSkip(i)
      BY <1>1, <1>3, <2>1 DEF MailSkip, Ends, InviteRow, NoTask, TaskRow
    <2>2. CASE MailLoad(i)
      BY <1>1, <2>2 DEF MailLoad
    <2>3. CASE MailSubmit(i)
      BY <1>1, <2>3 DEF MailSubmit, TaskRow
    <2>4. CASE MailDies(i)
      BY <1>1, <1>3, <2>4 DEF MailDies, Ends, NoTask, TaskRow
    <2>5. CASE MailRefused(i)
      BY <1>1, <1>3, <2>5 DEF MailRefused, Ends, InviteRow, NoTask, TaskRow
    <2>6. CASE MailCommit(i)
      <3>1. invite'[i].tracked /\ invite'[i].mail = Projected(i, task[i].saw, "submitted")
        BY <1>1, <2>6 DEF MailCommit, InviteRow
      <3>2. task'[i].at = "done"
        BY <1>1, <2>6 DEF MailCommit, Ends, NoTask, TaskRow
      <3>3. i \notin astray' => i \notin astray /\ invite[i].mail = task[i].saw
        BY <2>6 DEF MailCommit, Outdated
      <3> QED BY <2>6, <3>1, <3>2, <3>3
    <2> QED BY <2>1, <2>2, <2>3, <2>4, <2>5, <2>6 DEF MailStep
  <1>7. SentAt(i)'
    <2>1. i \notin astray' => i \notin astray
      BY <1>5
    <2>2. MailLoad(i) => task[i].at = "queued"
      BY DEF MailLoad
    <2>3. MailSubmit(i) => task[i].at = "sending"
      BY DEF MailSubmit
    <2> QED BY <1>2, <1>3, <1>6, <2>1, <2>2, <2>3 DEF SentAt
  <1>8. WorstAt(i)'
    <2>1. CASE MailCommit(i) /\ i \notin astray'
      <3>1. i \notin astray /\ invite[i].mail = task[i].saw /\ task[i].at = "sent"
        BY <1>6, <2>1 DEF MailCommit, Outdated
      <3>2. invite[i].mail = "queued" /\ task[i].saw = "queued" /\ reported[i] = {}
        BY <1>3, <3>1 DEF SentAt
      <3>3. invite'[i].mail = Projected(i, invite[i].mail, "submitted")
        BY <2>1, <3>1, <1>1 DEF MailCommit, InviteRow
      <3>4. /\ RankOf("queued") \in Int /\ RankOf("submitted") \in Int
            /\ RankOf("submitted") > RankOf("queued") /\ "submitted" \in DOMAIN Rank
            /\ Rank["submitted"] = RankOf("submitted")
        BY Statuses
      <3>5. invite'[i].mail = "submitted"
        BY <3>2, <3>3, <3>4 DEF Projected, Promotes
      <3>6. reported'[i] = {}
        BY <1>2, <3>2
      <3>7. IsWorst(RankOf("submitted"), {})
        BY <3>4 DEF IsWorst, Ranked
      <3> QED BY <3>5, <3>6, <3>7 DEF WorstAt
    <2>2. CASE i \in astray' \/ ~invite'[i].tracked
      BY <2>2 DEF WorstAt
    <2>3. ~MailCommit(i) => ~invite'[i].tracked
      BY <1>3, <1>6
    <2> QED BY <2>1, <2>2, <2>3
  <1>9. \A k \in Invite \ {i} : Same(k)
    BY <1>2, <1>5 DEF Same
  <1>10. There(i)'
    BY <1>4, <1>5 DEF There
  <1>11. \A s \in Request : Mails(req[s]) /\ req[s].invite = i => req[s].at = "undo"
    BY <1>3 DEF Mailing, MailFollowsInvite, FollowsAt, Mails, NoMailYet
  <1>12. \A s \in Request : Mails(req'[s]) =>
           /\ Mails(req[s]) /\ req'[s].invite = req[s].invite
           /\ IF req[s].invite \in {i} THEN FollowsAt(s)' ELSE req'[s].at = req[s].at
    BY <1>2, <1>10, <1>11 DEF FollowsAt, There
  <1>13. MailFollowsInvite' /\ OneRequestPerInvite' /\ SentOnce' /\ WorstSoFar'
    <2>1. \A k \in {i} : SentAt(k)' /\ WorstAt(k)' /\ (~There(k)' => NoMailYet(k)')
      BY <1>7, <1>8, <1>10
    <2> QED BY <1>9, <1>12, <2>1, MailKept DEF Mailing
  <1>14. HooksSay'
    <2>1. \A k \in Invite : invite[k].tracked => invite'[k].tracked
      BY <1>3, <1>5
    <2> QED BY <1>2, <2>1, HooksKept DEF Mailing
  <1> QED BY <1>13, <1>14 DEF Mailing

\* What a webhook request leaves alone.
LEMMA HookAlone ==
  ASSUME TypeOK, RequestsSay, RequestsSay', Mailing, HooksSay', NEW i \in Invite,
         UNCHANGED <<req, task>>, \A k \in Invite \ {i} : Same(k),
         invite'[i].by = invite[i].by, invite'[i].tracked = invite[i].tracked,
         invite'[i].mail = invite[i].mail \/ invite[i].tracked,
         SentAt(i)', WorstAt(i)'
  PROVE  Mailing'
  <1>1. ~There(i)' => NoMailYet(i)'
    BY DEF Mailing, MailFollowsInvite, There, NoMailYet
  <1>2. \A s \in Request : Mails(req[s]) /\ req[s].invite = i => FollowsAt(s)'
    BY DEF Mailing, MailFollowsInvite, FollowsAt, There, NoMailYet, Mails
  <1>3. MailFollowsInvite' /\ OneRequestPerInvite' /\ SentOnce' /\ WorstSoFar'
    <2>1. \A k \in {i} : SentAt(k)' /\ WorstAt(k)' /\ (~There(k)' => NoMailYet(k)')
      BY <1>1
    <2>2. \A s \in Request : Mails(req'[s]) =>
            /\ Mails(req[s]) /\ req'[s].invite = req[s].invite
            /\ IF req[s].invite \in {i} THEN FollowsAt(s)' ELSE req'[s].at = req[s].at
      BY <1>2
    <2> QED BY <2>1, <2>2, MailKept DEF Mailing
  <1> QED BY <1>3 DEF Mailing

\* An event is recorded: it waits in a webhook request, or its e-mail is astray.
LEMMA ReceiveStep ==
  ASSUME TypeOK, RequestsSay, RequestsSay', Mailing,
         NEW h \in Hook, NEW i \in Invite, NEW e \in Events, Receive(h, i, e)
  PROVE  Mailing'
  <1>1. /\ invite \in [Invite -> InviteRow] /\ hook \in [Hook -> HookRow]
        /\ astray \subseteq Invite
    BY TypeParts DEF Typed
  <1>2. UNCHANGED <<invite, req, task, reported>>
    BY DEF Receive
  <1>3. SentAt(i) /\ WorstAt(i) /\ HooksSay
    BY DEF Mailing, SentOnce, WorstSoFar
  <1>4. /\ \A g \in Hook : g # h => hook'[g] = hook[g]
        /\ \/ /\ invite[i].tracked /\ astray' = astray
              /\ hook'[h].invite = i /\ hook'[h].event = e
           \/ /\ ~invite[i].tracked /\ astray' = astray \cup {i} /\ hook' = hook
    BY <1>1 DEF Receive
  <1>5. \A k \in Invite \ {i} : Same(k)
    BY <1>2, <1>4 DEF Same
  <1>6. HooksSay'
    BY <1>2, <1>3, <1>4 DEF HooksSay
  <1>7. SentAt(i)'
    BY <1>2, <1>3, <1>4 DEF SentAt
  <1>8. WorstAt(i)'
    BY <1>2, <1>3, <1>4 DEF WorstAt
  <1> QED BY <1>2, <1>5, <1>6, <1>7, <1>8, HookAlone

\* One more event: the worst so far, or the event, or all there is.
LEMMA WorstHandled ==
  ASSUME TypeOK, NEW i \in Invite, NEW e \in Events, NEW E \in SUBSET Events,
         IsWorst(RankOf(invite[i].mail), E)
  PROVE  IsWorst(RankOf(Projected(i, invite[i].mail, e)), Handled(E, e))
  <1> DEFINE old == invite[i].mail
             new == Projected(i, old, e)
  <1>1. /\ RankOf(old) \in Int /\ RankOf(new) \in Int /\ RankOf(e) \in Int
        /\ Rank["submitted"] \in Int /\ \A x \in E : RankOf(x) \in Int
    BY Statuses
  <1>2. CASE e \in DOMAIN Rank
    <2>1. /\ new \in {old, e} /\ RankOf(new) >= RankOf(old) /\ RankOf(new) >= RankOf(e)
      BY <1>2, ProjectedRank
    <2>2. Handled(E, e) = E \cup {e} /\ (Ranked(E \cup {e}) <=> Ranked(E))
      BY <1>2 DEF Handled, Ranked
    <2> HIDE DEF old, new
    <2>3. (Ranked(E) /\ RankOf(new) = Rank["submitted"]) \/ \E x \in E \cup {e} : RankOf(new) = RankOf(x)
      BY <2>1 DEF IsWorst, old
    <2>4. /\ Ranked(E) => RankOf(new) >= Rank["submitted"]
          /\ \A x \in E \cup {e} : RankOf(new) >= RankOf(x)
      <3>1. Ranked(E) => RankOf(old) >= Rank["submitted"]
        BY DEF IsWorst, old
      <3>2. \A x \in E : RankOf(old) >= RankOf(x)
        BY DEF IsWorst, old
      <3> QED BY <1>1, <2>1, <3>1, <3>2
    <2>5. IsWorst(RankOf(new), E \cup {e})
      BY <2>2, <2>3, <2>4 DEF IsWorst
    <2> QED BY <2>2, <2>5 DEF new, old
  <1>3. CASE e \notin DOMAIN Rank
    <2>1. new = e /\ Handled(E, e) = {e} /\ ~Ranked({e})
      BY <1>3, ProjectedUnranked DEF Handled, Ranked
    <2> HIDE DEF new
    <2>2. IsWorst(RankOf(e), {e})
      BY <1>1, <2>1 DEF IsWorst
    <2> QED BY <2>1, <2>2 DEF new, old
  <1> QED BY <1>2, <1>3

\* A webhook request ends: its event is applied, or it dies and the e-mail is astray.
LEMMA HookEnds ==
  ASSUME TypeOK, RequestsSay, RequestsSay', Mailing, NEW h \in Hook, HookCommit(h) \/ HookDies(h)
  PROVE  Mailing'
  <1>1. /\ invite \in [Invite -> InviteRow] /\ hook \in [Hook -> HookRow]
        /\ reported \in [Invite -> SUBSET Events] /\ astray \subseteq Invite
    BY TypeParts DEF Typed
  <1>2. hook[h] # NoHook /\ HooksSay
    BY DEF HookCommit, HookDies, Mailing
  <1>3. PICK i \in Invite : i = hook[h].invite
    BY <1>2 DEF HooksSay
  <1>4. invite[i].tracked /\ hook[h].event \in Events /\ SentAt(i) /\ WorstAt(i)
    BY <1>2, <1>3 DEF HooksSay, Mailing, SentOnce, WorstSoFar
  <1>5. /\ UNCHANGED <<req, task>>
        /\ hook'[h] = NoHook /\ \A g \in Hook : g # h => hook'[g] = hook[g]
    BY <1>1 DEF HookCommit, HookDies
  <1>6. /\ \A k \in Invite : k # i => /\ invite'[k] = invite[k] /\ reported'[k] = reported[k]
                                      /\ k \in astray' <=> k \in astray
        /\ invite'[i].by = invite[i].by /\ invite'[i].tracked = invite[i].tracked
        /\ i \notin astray' =>
             /\ i \notin astray /\ hook[h].saw = invite[i].mail
             /\ invite'[i].mail = Projected(i, invite[i].mail, hook[h].event)
             /\ reported'[i] = Handled(reported[i], hook[h].event)
    <2>1. CASE HookCommit(h)
      BY <1>1, <1>3, <2>1 DEF HookCommit, Outdated, InviteRow
    <2>2. CASE HookDies(h)
      BY <1>1, <1>3, <2>2 DEF HookDies
    <2> QED BY <2>1, <2>2
  <1>7. \A k \in Invite \ {i} : Same(k)
    BY <1>5, <1>6 DEF Same
  <1>8. HooksSay'
    <2>1. ASSUME NEW g \in Hook, hook'[g] # NoHook
          PROVE  /\ hook'[g].invite \in Invite /\ invite'[hook'[g].invite].tracked
                 /\ hook'[g].event \in Events
      <3>1. g # h /\ hook'[g] = hook[g]
        BY <1>5, <2>1
      <3>2. PICK k \in Invite : k = hook[g].invite
        BY <1>2, <2>1, <3>1 DEF HooksSay
      <3>3. invite[k].tracked /\ hook[g].event \in Events
        BY <1>2, <2>1, <3>1, <3>2 DEF HooksSay
      <3>4. invite'[k].tracked
        BY <1>6, <3>3
      <3> QED BY <3>1, <3>2, <3>3, <3>4
    <2> QED BY <2>1 DEF HooksSay
  <1>9. SentAt(i)'
    BY <1>4, <1>5, <1>6 DEF SentAt
  <1>10. WorstAt(i)'
    <2>1. SUFFICES ASSUME i \notin astray' PROVE IsWorst(RankOf(invite'[i].mail), reported'[i])
      BY DEF WorstAt
    <2>2. IsWorst(RankOf(invite[i].mail), reported[i]) /\ reported[i] \in SUBSET Events
      BY <1>1, <1>4, <1>6, <2>1 DEF WorstAt
    <2>3. IsWorst(RankOf(Projected(i, invite[i].mail, hook[h].event)),
                  Handled(reported[i], hook[h].event))
      BY <1>4, <2>2, WorstHandled
    <2> QED BY <1>6, <2>1, <2>3
  <1> QED BY <1>4, <1>5, <1>6, <1>7, <1>8, <1>9, <1>10, HookAlone

\* Requests about people and decisions begin no e-mail and go on with none.
LEMMA OtherRequests ==
  ASSUME TypeOK, RequestsSay, NEW r \in Request,
         \/ ApproveRead(r) \/ ApproveCommit(r) \/ RejectRead(r) \/ RejectCommit(r)
         \/ AcceptRead(r) \/ AcceptCommit(r) \/ RequestFails(r)
  PROVE  /\ \A s \in Request : Mails(req'[s]) =>
              Mails(req[s]) /\ req'[s].invite = req[s].invite /\ req'[s].at = req[s].at
         /\ \A k \in Invite : Same(k)
         /\ UNCHANGED <<hook, reported>>
  <1>1. /\ invite \in [Invite -> InviteRow] /\ req \in [Request -> RequestRow(accounts)]
    BY TypeParts DEF Typed
  <1>2. UNCHANGED mailing
    BY DEF ApproveRead, ApproveCommit, RejectRead, RejectCommit, AcceptRead, AcceptCommit,
           RequestFails
  <1>3. ~Mails(req'[r]) /\ \A s \in Request : s # r =>
          /\ req'[s].invite = req[s].invite /\ req'[s].at = req[s].at
    <2>1. CASE AcceptCommit(r)
      BY <2>1, AcceptedRequests DEF Mails, Idle
    <2>2. CASE ApproveRead(r)
      <3>1. req' = [req EXCEPT ![r] = req'[r]] /\ req'[r].at \in {"invite", "decide"}
        BY <1>1, <2>2 DEF ApproveRead
      <3> QED BY <1>1, <3>1 DEF Mails
    <2>3. CASE AcceptRead(r)
      <3>1. PICK i \in Invite, a \in Lookup :
              req' = [req EXCEPT ![r] = [Idle EXCEPT !.op = "accept", !.at = "decide",
                                                    !.invite = i, !.user = a]]
        BY <2>3 DEF AcceptRead
      <3> QED BY <1>1, <3>1 DEF Mails, Idle
    <2>4. CASE RejectRead(r)
      BY <1>1, <2>4 DEF RejectRead, Mails, Idle
    <2>5. CASE ApproveCommit(r) \/ RejectCommit(r) \/ RequestFails(r)
      BY <1>1, <2>5 DEF ApproveCommit, RejectCommit, RequestFails, Mails, Idle
    <2> QED BY <2>1, <2>2, <2>3, <2>4, <2>5
  <1>4. \A k \in Invite : /\ invite'[k].by = invite[k].by /\ invite'[k].mail = invite[k].mail
                          /\ invite'[k].tracked = invite[k].tracked
    <2>1. CASE AcceptCommit(r)
      <3>1. req[r].invite \in Invite
        BY <2>1 DEF AcceptCommit, RequestsSay, Says
      <3> QED BY <1>1, <2>1, <3>1 DEF AcceptCommit, InviteRow
    <2>2. CASE ~AcceptCommit(r)
      BY <2>2 DEF ApproveRead, ApproveCommit, RejectRead, RejectCommit, AcceptRead, RequestFails
    <2> QED BY <2>1, <2>2
  <1> QED BY <1>2, <1>3, <1>4 DEF Same, mailing, Mails

\* Every step keeps what is said of the e-mails.
LEMMA MailingStep ==
  ASSUME TypeOK, RequestsSay, RequestsSay', Mailing, [Next]_vars
  PROVE  Mailing'
  <1>1. ASSUME NEW r \in Request, RequestStep(r) PROVE Mailing'
    <2>1. CASE CreateInvite(r) \/ ApproveInvite(r)
      BY <2>1, CreationStep
    <2>2. CASE QueueMail(r) \/ DeferMail(r) \/ DeferRaises(r) \/ MarkFailed(r)
      BY <2>2, QueueStep
    <2>3. CASE \/ ApproveRead(r) \/ ApproveCommit(r) \/ RejectRead(r) \/ RejectCommit(r)
               \/ AcceptRead(r) \/ AcceptCommit(r) \/ RequestFails(r)
      BY <2>3, OtherRequests, QuietStep
    <2> QED BY <1>1, <2>1, <2>2, <2>3 DEF RequestStep
  <1>2. ASSUME NEW i \in Invite, RevokeInvite(i) \/ Expire(i) PROVE Mailing'
    <2>1. invite \in [Invite -> InviteRow]
      BY TypeParts DEF Typed
    <2>2. UNCHANGED <<mailing, req>>
      BY <1>2 DEF RevokeInvite, Expire
    <2>3. \A k \in Invite : /\ invite'[k].by = invite[k].by /\ invite'[k].mail = invite[k].mail
                            /\ invite'[k].tracked = invite[k].tracked
      BY <1>2, <2>1 DEF RevokeInvite, Expire, InviteRow
    <2>4. \A k \in Invite : Same(k)
      BY <2>2, <2>3 DEF Same, mailing
    <2> QED BY <2>2, <2>4, QuietStep DEF mailing
  <1>3. ASSUME NEW i \in Invite, MailStep(i) PROVE Mailing'
    BY <1>3, TaskStep
  <1>4. ASSUME NEW h \in Hook, HookCommit(h) \/ HookDies(h) PROVE Mailing'
    BY <1>4, HookEnds
  <1>5. ASSUME NEW h \in Hook, NEW i \in Invite, NEW e \in Events, Receive(h, i, e)
        PROVE  Mailing'
    BY <1>5, ReceiveStep
  <1>6. CASE UNCHANGED vars
    <2>1. UNCHANGED <<mailing, req, invite>>
      BY <1>6 DEF vars, mailing
    <2>2. \A k \in Invite : Same(k)
      BY <2>1 DEF Same, mailing
    <2> QED BY <2>1, <2>2, QuietStep DEF mailing
  <1> QED BY <1>1, <1>2, <1>3, <1>4, <1>5, <1>6 DEF Next

-----------------------------------------------------------------------------
(* The theorems *)

LEMMA InitInv == Init => IInv
  <1> SUFFICES ASSUME Init PROVE IInv
    OBVIOUS
  <1>1. TypeOK
    <2>1. NoInvite \in InviteRow /\ NoTask \in TaskRow
      BY Statuses DEF NoInvite, NoTask, InviteRow, TaskRow
    <2>2. NoHook \in HookRow
      BY Statuses, InvitesNumbered DEF NoHook, HookRow
    <2>3. accounts \in Nat
      BY DEF Init
    <2>4. Idle \in RequestRow(accounts)
      BY <2>3, InvitesNumbered DEF Idle, RequestRow
    <2>5. volunteer \in [0..accounts -> Nat]
      BY DEF Init
    <2> QED BY <2>1, <2>2, <2>3, <2>4, <2>5, TypeParts DEF Init, Typed
  <1>2. RequestsSay
    BY DEF Init, RequestsSay, Says, Idle, Mails
  <1>3. People
    BY DEF Init, People, OneAccountPerAddress, LateWithoutAccount, Idle
  <1>4. Decision
    BY DEF Init, Decision, StillUntouched, Untouched, ApprovalsSay, ApprovedShows,
           LinkedUnlessUnseen, Idle, NoInvite
  <1>5. Mailing
    <2>1. MailFollowsInvite /\ OneRequestPerInvite /\ SentOnce /\ WorstSoFar
      BY DEF Init, MailFollowsInvite, OneRequestPerInvite, SentOnce, WorstSoFar, FollowsAt, SentAt,
             WorstAt, NoMailYet, Mails, Idle, NoInvite, NoTask
    <2>2. HooksSay
      BY DEF Init, HooksSay
    <2> QED BY <2>1, <2>2 DEF Mailing
  <1> QED BY <1>1, <1>2, <1>3, <1>4, <1>5 DEF IInv

LEMMA StepInv == IInv /\ [Next]_vars => IInv'
  <1> SUFFICES ASSUME IInv, [Next]_vars PROVE IInv'
    OBVIOUS
  <1>1. TypeOK /\ RequestsSay /\ HooksSay /\ People /\ Decision /\ Mailing
    BY DEF IInv, Mailing
  <1>2. TypeOK' /\ RequestsSay' /\ People'
    BY <1>1, TypeStep, RequestsStep, PeopleStep
  <1>3. Decision'
    BY <1>1, ShownStep, ApprovalsStep DEF Decision
  <1>4. Mailing'
    BY <1>1, <1>2, MailingStep
  <1> QED BY <1>2, <1>3, <1>4 DEF IInv

LEMMA InvHolds == Spec => []IInv
  BY InitInv, StepInv, PTL DEF Spec

\* Every variable keeps its type, however many invites, requests and webhook
\* requests there are.
THEOREM TypeCorrect == Spec => []TypeOK
  <1>1. IInv => TypeOK
    BY DEF IInv
  <1> QED BY <1>1, InvHolds, PTL

\* An address has one account, and one more for each acceptance that overlapped
\* another (accept_invite locks neither the token nor the address).
THEOREM OneAccount == Spec => []OneAccountPerAddress
  <1>1. IInv => OneAccountPerAddress
    BY DEF IInv, People
  <1> QED BY <1>1, InvHolds, PTL

\* A rejected application has left nobody invited or volunteering, and an approved
\* one has: what approve_application and reject_application show is what happened,
\* unless two decisions crossed or an invite was accepted in between.
THEOREM DecisionIsTrue == Spec => []DecisionReachesApplicant
  <1>1. IInv => DecisionReachesApplicant
    BY DEF IInv, Decision, DecisionReachesApplicant, StillUntouched, Untouched, ApprovedShows,
           LinkedUnlessUnseen, SomeVolunteer
  <1> QED BY <1>1, InvHolds, PTL

\* In whichever order the events of an e-mail come and are applied, its status is
\* the worst of them since the last one of a type the webhook does not know (the
\* ranks of the projection), but for the e-mails that a lost event, a dead handler
\* or a race set astray.
THEOREM MailStatusIsWorst == Spec => []MailShowsWorst
  <1>1. ASSUME IInv, NEW i \in Invite \ astray, invite[i].tracked
        PROVE  RankOf(invite[i].mail) =
                 Max({RankOf(e) : e \in reported[i]} \cup
                     (IF reported[i] \subseteq DOMAIN Rank THEN {Rank["submitted"]} ELSE {}))
    <2> DEFINE n == RankOf(invite[i].mail)
               S == {RankOf(e) : e \in reported[i]} \cup
                    (IF reported[i] \subseteq DOMAIN Rank THEN {Rank["submitted"]} ELSE {})
    <2>1. IsWorst(n, reported[i])
      BY <1>1 DEF IInv, Mailing, WorstSoFar, WorstAt
    <2>2. S \subseteq Int
      BY Statuses
    <2>3. n \in S /\ \A x \in S : n >= x
      BY <2>1 DEF IsWorst, Ranked
    <2> HIDE DEF n, S
    <2>4. \A x \in S : (\A y \in S : x >= y) => x = n
      BY <2>2, <2>3
    <2>5. Max(S) = n
      BY <2>3, <2>4 DEF Max
    <2> QED BY <2>5 DEF n, S
  <1>2. IInv => MailShowsWorst
    BY <1>1 DEF MailShowsWorst
  <1> QED BY <1>2, InvHolds, PTL
=============================================================================
