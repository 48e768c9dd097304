----------------------------- MODULE Onboarding -----------------------------
(***************************************************************************)
(* How one e-mail address joins one campaign: a volunteer's application    *)
(* and its approval or rejection, the invites that admins and approvals    *)
(* create, the task that e-mails an invite and the provider's events about *)
(* it, and the acceptance that makes an account and a membership.  No      *)
(* request locks what it reads; what keeps them apart are the unique       *)
(* indexes on open invites and on memberships.  An approval commits its    *)
(* invite before it commits itself.                                        *)
(***************************************************************************)
EXTENDS Integers, FiniteSets, FiniteSetsExt

CONSTANTS
  Invites,  \* bound: invites created
  Request,  \* requests of admins and invitees that may be in flight together
  Hook,     \* webhook requests that may be in flight together
  Events    \* statuses the provider's events carry, in any order and number

\* STATUS_RANK, the order of authority of an e-mail's statuses.
Rank == [queued |-> 10, submitted |-> 20, delivered |-> 30, failed |-> 40,
         bounced |-> 50, complained |-> 60, suppressed |-> 70, skipped |-> 80]

\* An event of a type the webhook does not know, such as opened or clicked, is
\* a status of its own; it has no rank, and neither has a new invite's.
MailStatus == DOMAIN Rank \cup {"pending"} \cup Events
RankOf(status) == IF status \in DOMAIN Rank THEN Rank[status] ELSE -1

ASSUME OnboardingAssumption ==
  /\ Invites \in Nat
  /\ Events \cap {"pending", "queued", "skipped"} = {}

Invite == 1..Invites

VARIABLES
  application, \* status of the application
  invite,      \* invites rows: how created, closed and e-mailed
  accounts,    \* users rows with the address, numbered from 1
  member,      \* those with a campaign_members row
  volunteer,   \* how many volunteers rows each account has; 0: unlinked rows
  req,         \* the requests in flight: how far each is and what it has read
  task,        \* the e-mail task of each invite, and the status it loaded
  reported,    \* the events handled for each e-mail since the last one without
               \* a rank, that one included
  hook,        \* webhook requests: the invite, the event, the status read
  crossed,     \* history: was the application decided on an outdated read?
  halfway,     \* history: invites of approvals that have not committed
  unseen,      \* history: was an invite accepted during an approval without
               \* account?
  overtaken,   \* history: acceptances committed after another one that they
               \* overlapped
  astray       \* history: invites an event of which was lost, or whose status
               \* was written on an outdated read

vars == <<application, invite, accounts, member, volunteer, req, task, reported,
          hook, crossed, halfway, unseen, overtaken, astray>>
people  == <<accounts, member, volunteer>>
mailing == <<task, reported, hook, astray>>
deciding == <<application, crossed, halfway>>
accepting == <<unseen, overtaken>>

NoInvite == [by |-> "none", accepted |-> FALSE, revoked |-> FALSE,
             expired |-> FALSE, mail |-> "pending", tracked |-> FALSE]
Idle   == [op |-> "none", at |-> "idle", saw |-> "pending", user |-> 0,
           member |-> FALSE, found |-> FALSE, invite |-> 0, late |-> FALSE]
NoTask == [at |-> "none", saw |-> "pending"]
NoHook == [invite |-> 0, event |-> "pending", saw |-> "pending"]

\* A pending application of somebody who was not logged in; the address may
\* have an account from elsewhere.
Init ==
  /\ application = "pending"
  /\ invite = [i \in Invite |-> NoInvite]
  /\ accounts \in {0, 1}
  /\ member = {}
  /\ volunteer = [a \in 0..accounts |-> 0]
  /\ req = [r \in Request |-> Idle]
  /\ task = [i \in Invite |-> NoTask]
  /\ reported = [i \in Invite |-> {}]
  /\ hook = [h \in Hook |-> NoHook]
  /\ crossed = FALSE /\ halfway = {} /\ unseen = FALSE /\ overtaken = 0 /\ astray = {}

-----------------------------------------------------------------------------
(* Invites *)

There(i) == invite[i].by # "none"

\* What the unique index allows once per address: it does not ask the time.
Open(i) == There(i) /\ ~invite[i].accepted /\ ~invite[i].revoked

\* What lets an invite be accepted or e-mailed.
Valid(i) == Open(i) /\ ~invite[i].expired

\* Bound: e-mails, which do not depend on one another, are followed while the
\* address has one invite, and a second one is created before that.
OnlyOne(i) == \A k \in Invite : k # i => ~There(k)
Unworked(i) == task[i].at \in {"none", "queued"}

\* The next row; an open one, expired or not, refuses it.
Inserts(i, by) ==
  /\ \A k \in Invite : ~Open(k) /\ Unworked(k)
  /\ ~There(i)
  /\ \A k \in Invite : k < i => There(k)
  /\ invite' = [invite EXCEPT ![i].by = by]

CreateInvite(r) ==
  /\ req[r] = Idle
  /\ \E i \in Invite :
       /\ Inserts(i, "admin")
       /\ req' = [req EXCEPT ![r] = [Idle EXCEPT !.op = "create", !.at = "queue",
                                                      !.invite = i]]
  /\ UNCHANGED <<people, deciding, accepting, mailing>>

\* enqueue_invite_email commits the status, then stores the task over another
\* connection.
QueueMail(r) ==
  /\ req[r].at = "queue"
  /\ invite' = [invite EXCEPT ![req[r].invite].mail = "queued"]
  /\ req' = [req EXCEPT ![r].at = "defer"]
  /\ UNCHANGED <<people, deciding, accepting, mailing>>

\* An approval goes on to the volunteer's row, which it looks for by address.
GoesOn(r) ==
  req' = [req EXCEPT ![r] =
    IF @.op = "approve" THEN [@ EXCEPT !.at = "decide", !.found = volunteer[0] > 0]
    ELSE Idle]

DeferMail(r) ==
  /\ req[r].at = "defer"
  /\ task' = [task EXCEPT ![req[r].invite].at = "queued"]
  /\ GoesOn(r)
  /\ UNCHANGED <<invite, people, deciding, accepting, reported, hook, astray>>

\* The deferral raises; the task may have been stored all the same.
DeferRaises(r) ==
  /\ req[r].at = "defer"
  /\ \E at \in {"none", "queued"} :
       task' = [task EXCEPT ![req[r].invite].at = at]
  /\ req' = [req EXCEPT ![r].at = "undo"]
  /\ UNCHANGED <<invite, people, deciding, accepting, reported, hook, astray>>

MarkFailed(r) ==
  LET i == req[r].invite
  IN  /\ req[r].at = "undo"
      /\ invite' = [invite EXCEPT ![i].mail = "failed"]
      /\ astray' = IF task[i].at = "none" THEN astray ELSE astray \cup {i}
      /\ GoesOn(r)
      /\ UNCHANGED <<people, deciding, accepting, task, reported, hook>>

\* Revoking asks nothing of the invite, but nobody looks whether an accepted
\* one is revoked, nor whether a closed one has expired.
RevokeInvite(i) ==
  /\ Open(i)
  /\ invite' = [invite EXCEPT ![i].revoked = TRUE]
  /\ UNCHANGED <<people, deciding, accepting, mailing, req>>

Expire(i) ==
  /\ Valid(i)
  /\ invite' = [invite EXCEPT ![i].expired = TRUE]
  /\ UNCHANGED <<people, deciding, accepting, mailing, req>>

-----------------------------------------------------------------------------
(* The application *)

\* Mutant: the address is compared with its capitals.
LookupMisses == {0}
\* users.email is not unique: the query returns any of the accounts.
Lookup == IF accounts = 0 THEN {0} ELSE 1..accounts

\* Without an account the approval sends an invite first.
ApproveRead(r) ==
  /\ req[r] = Idle
  /\ application # "approved"
  /\ \E a \in Lookup :
       req' = [req EXCEPT ![r] =
         [op |-> "approve", at |-> IF a = 0 THEN "invite" ELSE "decide",
          saw |-> application, user |-> a, member |-> a \in member,
          found |-> a # 0 /\ volunteer[a] > 0, invite |-> 0, late |-> FALSE]]
  /\ UNCHANGED <<invite, people, deciding, accepting, mailing>>

ApproveInvite(r) ==
  /\ req[r].at = "invite"
  /\ \E i \in Invite :
       /\ Inserts(i, "approval")
       /\ req' = [req EXCEPT ![r].at = "queue", ![r].invite = i]
       /\ halfway' = halfway \cup {i}
  /\ UNCHANGED <<application, crossed, people, accepting, mailing>>

\* The volunteer's row, the membership and the decision are one transaction; a
\* membership inserted meanwhile makes it fail.
ApproveCommit(r) ==
  LET a == req[r].user
  IN  /\ req[r].op = "approve"
      /\ req[r].at = "decide"
      /\ a \in member => req[r].member
      /\ volunteer' = IF req[r].found THEN volunteer
                      ELSE [volunteer EXCEPT ![a] = @ + 1]
      /\ member' = IF a = 0 THEN member ELSE member \cup {a}
      /\ application' = "approved"
      /\ crossed' = (application # req[r].saw)
      /\ halfway' = halfway \ {req[r].invite}
      /\ req' = [req EXCEPT ![r] = Idle]
      /\ UNCHANGED <<invite, accounts, accepting, mailing>>

\* Mutant: an approved application may be rejected.
MayRejectAny(status) == status # "rejected"
MayReject(status) == status = "pending"

RejectRead(r) ==
  /\ req[r] = Idle
  /\ MayReject(application)
  /\ req' = [req EXCEPT ![r] = [Idle EXCEPT !.op = "reject", !.at = "decide",
                                                 !.saw = application]]
  /\ UNCHANGED <<invite, people, deciding, accepting, mailing>>

RejectCommit(r) ==
  /\ req[r].op = "reject"
  /\ application' = "rejected"
  /\ crossed' = (application # req[r].saw)
  /\ req' = [req EXCEPT ![r] = Idle]
  /\ UNCHANGED <<invite, halfway, people, accepting, mailing>>

\* An invite that is open already, a conflicting row, the identity provider or
\* the process: what is not committed is lost.
RequestFails(r) ==
  /\ req[r] # Idle
  /\ req' = [req EXCEPT ![r] = Idle]
  /\ UNCHANGED <<invite, people, deciding, accepting, mailing>>

-----------------------------------------------------------------------------
(* Accepting *)

AcceptRead(r) ==
  /\ req[r] = Idle
  /\ \E i \in Invite, a \in Lookup :
       /\ Valid(i)
       /\ req' = [req EXCEPT ![r] = [Idle EXCEPT !.op = "accept", !.at = "decide",
                                                !.invite = i, !.user = a]]
  /\ UNCHANGED <<invite, people, deciding, accepting, mailing>>

\* Mutant: the membership is given to what the lookup returned.
JoinedAsFound(r) == req[r].user
Joined(r) == IF req[r].user = 0 THEN accounts + 1 ELSE req[r].user

\* The account, its membership, the unlinked volunteers rows and the invite are
\* one transaction; who is a member already cannot be inserted again.
AcceptCommit(r) ==
  LET a == Joined(r)
  IN  /\ req[r].op = "accept"
      /\ a \notin member
      /\ accounts' = IF req[r].user = 0 THEN accounts + 1 ELSE accounts
      /\ member' = member \cup {a}
      /\ volunteer' = [b \in 0..accounts' |->
                         IF b = 0 THEN 0
                         ELSE (IF b <= accounts THEN volunteer[b] ELSE 0)
                                + (IF b = a THEN volunteer[0] ELSE 0)]
      /\ invite' = [invite EXCEPT ![req[r].invite].accepted = TRUE]
      /\ overtaken' = IF req[r].late THEN overtaken + 1 ELSE overtaken
      /\ unseen' = (unseen \/ \E s \in Request :
                                req[s].op = "approve" /\ req[s].user = 0)
      /\ req' = [s \in Request |->
                   IF s = r THEN Idle
                   ELSE IF req[s].op = "accept" THEN [req[s] EXCEPT !.late = TRUE]
                   ELSE req[s]]
      /\ UNCHANGED <<deciding, mailing>>

-----------------------------------------------------------------------------
(* The e-mail task and the provider's events *)

\* Mutant: the last event wins.
PromotesAlways(saw, status) == TRUE
Promotes(saw, status) == status \in DOMAIN Rank => Rank[status] >= RankOf(saw)

\* The status written by who has read saw: only a change of what was read is
\* written.
Projected(i, saw, status) ==
  IF Promotes(saw, status) /\ status # saw THEN status ELSE invite[i].mail

Outdated(i, saw) ==
  astray' = IF invite[i].mail = saw THEN astray ELSE astray \cup {i}

Ends(i) == task' = [task EXCEPT ![i] = [NoTask EXCEPT !.at = "done"]]

MailSkip(i) ==
  /\ task[i].at = "queued"
  /\ OnlyOne(i)
  /\ ~Valid(i)
  /\ invite' = [invite EXCEPT ![i].mail = "skipped"]
  /\ Ends(i)
  /\ UNCHANGED <<people, deciding, req, accepting, reported, hook, astray>>

\* An invite has one task, so that it has been sent before is never seen here.
MailLoad(i) ==
  /\ task[i].at = "queued"
  /\ OnlyOne(i)
  /\ Valid(i)
  /\ task' = [task EXCEPT ![i] = [at |-> "sending", saw |-> invite[i].mail]]
  /\ UNCHANGED <<invite, people, deciding, req, accepting, reported, hook, astray>>

\* The provider refuses, or its answer does not arrive.
MailRefused(i) ==
  /\ task[i].at = "sending"
  /\ invite' = [invite EXCEPT ![i].mail = Projected(i, task[i].saw, "failed")]
  /\ Outdated(i, task[i].saw)
  /\ Ends(i)
  /\ UNCHANGED <<people, deciding, req, accepting, reported, hook>>

MailSubmit(i) ==
  /\ task[i].at = "sending"
  /\ task' = [task EXCEPT ![i].at = "sent"]
  /\ UNCHANGED <<invite, people, deciding, req, accepting, reported, hook, astray>>

\* Only now can an event be matched with the attempt.
MailCommit(i) ==
  /\ task[i].at = "sent"
  /\ invite' = [invite EXCEPT ![i].mail = Projected(i, task[i].saw, "submitted"),
                              ![i].tracked = TRUE]
  /\ Outdated(i, task[i].saw)
  /\ Ends(i)
  /\ UNCHANGED <<people, deciding, req, accepting, reported, hook>>

\* The worker dies; nobody runs the task again.
MailDies(i) ==
  /\ task[i].at \in {"sending", "sent"}
  /\ Ends(i)
  /\ UNCHANGED <<invite, people, deciding, req, accepting, reported, hook, astray>>

\* The event is recorded, once and for all, before it is applied.  Bound: two
\* events that say the same of an e-mail are handled one after the other.
Receive(h, i, e) ==
  /\ hook[h] = NoHook
  /\ \A g \in Hook : hook[g].invite = i => hook[g].event # e
  /\ task[i].at = "sent" \/ invite[i].tracked
  /\ IF invite[i].tracked
     THEN /\ hook' = [hook EXCEPT ![h] = [invite |-> i, event |-> e,
                                          saw |-> invite[i].mail]]
          /\ UNCHANGED astray
     ELSE astray' = astray \cup {i} /\ UNCHANGED hook
  /\ UNCHANGED <<invite, people, deciding, req, accepting, task, reported>>

\* History: an event without a rank makes the e-mail's past irrelevant.
Handled(events, e) == IF e \in DOMAIN Rank THEN events \cup {e} ELSE {e}

HookCommit(h) ==
  LET i == hook[h].invite
  IN  /\ hook[h] # NoHook
      /\ invite' = [invite EXCEPT ![i].mail = Projected(i, hook[h].saw, hook[h].event)]
      /\ Outdated(i, hook[h].saw)
      /\ reported' = [reported EXCEPT ![i] = Handled(@, hook[h].event)]
      /\ hook' = [hook EXCEPT ![h] = NoHook]
      /\ UNCHANGED <<people, deciding, req, accepting, task>>

\* Its redelivery counts as a duplicate.
HookDies(h) ==
  /\ hook[h] # NoHook
  /\ astray' = astray \cup {hook[h].invite}
  /\ hook' = [hook EXCEPT ![h] = NoHook]
  /\ UNCHANGED <<invite, people, deciding, req, accepting, task, reported>>

-----------------------------------------------------------------------------
RequestStep(r) ==
  \/ CreateInvite(r) \/ QueueMail(r) \/ DeferMail(r) \/ DeferRaises(r)
  \/ MarkFailed(r) \/ ApproveRead(r) \/ ApproveInvite(r) \/ ApproveCommit(r)
  \/ RejectRead(r) \/ RejectCommit(r)
  \/ AcceptRead(r) \/ AcceptCommit(r) \/ RequestFails(r)

MailStep(i) ==
  \/ MailSkip(i) \/ MailLoad(i) \/ MailRefused(i) \/ MailSubmit(i)
  \/ MailCommit(i) \/ MailDies(i)

Next ==
  \/ \E r \in Request : RequestStep(r)
  \/ \E i \in Invite : RevokeInvite(i) \/ Expire(i) \/ MailStep(i)
  \/ \E h \in Hook :
       \/ HookCommit(h) \/ HookDies(h)
       \/ \E i \in Invite, e \in Events : Receive(h, i, e)

Spec == Init /\ [][Next]_vars

-----------------------------------------------------------------------------
(* Properties *)

\* Every variable has its type.
TypeOK ==
  /\ application \in {"pending", "approved", "rejected"}
  /\ invite \in [Invite -> [by: {"none", "admin", "approval"}, accepted: BOOLEAN,
                            revoked: BOOLEAN, expired: BOOLEAN, mail: MailStatus,
                            tracked: BOOLEAN]]
  /\ accounts \in Nat
  /\ member \subseteq 1..accounts
  /\ volunteer \in [0..accounts -> Nat]
  /\ req \in [Request -> [op: {"none", "create", "approve", "reject", "accept"},
                          at: {"idle", "invite", "queue", "defer", "undo", "decide"},
                          saw: {"pending", "rejected"}, user: 0..accounts,
                          member: BOOLEAN, found: BOOLEAN, invite: 0..Invites,
                          late: BOOLEAN]]
  /\ task \in [Invite -> [at: {"none", "queued", "sending", "sent", "done"},
                          saw: MailStatus]]
  /\ reported \in [Invite -> SUBSET Events]
  /\ hook \in [Hook -> [invite: 0..Invites, event: Events \cup {"pending"},
                        saw: MailStatus]]
  /\ crossed \in BOOLEAN /\ unseen \in BOOLEAN
  /\ halfway \subseteq Invite /\ astray \subseteq Invite
  /\ overtaken \in Nat

\* However often an address is invited, revoked and invited again, it gets one
\* account: a second one only by an acceptance that overlapped another, since
\* the token is not locked while it is used and users.email is not unique.
OneAccountPerAddress == accounts <= 1 + overtaken

\* What the application shows is what happened, unless two decisions crossed.
\* Rejected: no approval has left an invite behind, but one that died half-way,
\* or is still there; nobody is a volunteer.  Approved: the applicant is invited
\* or a member, has a volunteers row, and the row is theirs as soon as they have
\* an account, unless they accepted an invite while the approval was under way.
DecisionReachesApplicant ==
  /\ application = "rejected" /\ ~crossed =>
       /\ \A i \in Invite : invite[i].by = "approval" => i \in halfway
       /\ \A a \in 0..accounts : volunteer[a] = 0
  /\ application = "approved" =>
       /\ member # {} \/ \E i \in Invite : invite[i].by = "approval"
       /\ \E a \in 0..accounts : volunteer[a] > 0
       /\ accounts > 0 /\ ~unseen => volunteer[0] = 0

\* The status of an e-mail is the worst its events have told, in whichever
\* order they came, unless an event met no committed attempt, died with its
\* handler or raced with another one, or the deferral was thought to have
\* failed.  An event of a type the webhook does not know always takes over, and
\* what came before it no longer counts: after a click a bounced e-mail may be
\* shown as delivered.
MailShowsWorst ==
  \A i \in Invite \ astray :
    invite[i].tracked =>
      RankOf(invite[i].mail) =
        Max({RankOf(e) : e \in reported[i]} \cup
            (IF reported[i] \subseteq DOMAIN Rank THEN {Rank["submitted"]} ELSE {}))
=============================================================================
