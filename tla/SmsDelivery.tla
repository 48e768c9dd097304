---------------------------- MODULE SmsDelivery ----------------------------
(***************************************************************************)
(* Texting one voter from one organisation's number: single sends and bulk *)
(* tasks with their budget and opt-out gates, the conversation row that a  *)
(* send keeps locked while Twilio is asked, and the webhooks for replies   *)
(* and delivery states.  A webhook is refused, or is two transactions: the *)
(* first records the event so that a redelivery is recognised, the second  *)
(* applies it.  Twilio is external: it takes texts, posts events in any    *)
(* order, and posts again what was not answered.                           *)
(***************************************************************************)
EXTENDS Integers, FiniteSets, FiniteSetsExt

CONSTANTS
  Single,   \* texts sent from the compose form
  Bulk,     \* texts of bulk sends, a task each
  Reported, \* texts whose states Twilio posts: set up at Twilio, not by the code
  Text,     \* the voter's replies
  Handler,  \* webhook requests that may be in flight together
  Budget,   \* the organisation's soft budget
  Crashes,  \* bound: requests and tasks that die
  None

Send == Single \cup Bulk

ASSUME SmsAssumption ==
  /\ IsFiniteSet(Send)
  /\ Single \cap Bulk = {}
  /\ Reported \subseteq Send
  /\ Send \cap Text = {}
  /\ None \notin Send \cup Text
  /\ Budget \in Nat
  /\ Crashes \in Nat

\* Twilio's states of a text.
Delivery == {"queued", "sent", "delivered", "failed"}
Final    == {"delivered", "failed"}

\* STOP and its synonyms, START and its synonyms, anything else.
Word == {"STOP", "START", "other"}

\* A post tells a reply's word or a text's new state.
Post   == [of: Text, says: Word] \cup [of: Send, says: Delivery]
NoPost == [of |-> None, says |-> "other"]
OptOut == {"none", "active", "opted_out"}

VARIABLES
  owned,    \* is the voter's number in org_phone_numbers as well, as the number
            \* of a member of the staff or of a test may be?  It stays what it is.
  optout,   \* status of the sms_opt_outs row; "none": no row
  conv,     \* the sms_conversations row: is it there, opt_out_status
  send,     \* how far each text is
  message,  \* the texts that have an sms_messages row
  ledger,   \* their communication_ledgers rows: pending_cost, cost_cents (0: null)
  twilio,   \* Twilio's state of each text, as far as it posts it; "none": not
            \* handed over
  replied,  \* the replies the voter has sent
  posts,    \* webhooks Twilio still has to get answered
  events,   \* webhook_events rows
  hook,     \* each webhook request: how far it is, its post, what it has read
  crashes,  \* crashes left
  word,     \* history: the last keyword applied
  mixed,    \* history: was it applied on an outdated read?
  late,     \* history: texts checked before, locked after an opt-out committed
  applied   \* history: the posts whose handler has committed

vars == <<owned, optout, conv, send, message, ledger, twilio, replied, posts, events,
          hook, crashes, word, mixed, late, applied>>
rows == <<owned, optout, conv, message, ledger>>
provider == <<twilio, replied, posts>>
history == <<word, mixed, late, applied>>

NoView == [opt |-> "none", conv |-> [there |-> FALSE, optout |-> "active"],
           pending |-> FALSE]
Idle == [at |-> "idle", post |-> NoPost, view |-> NoView]

Init ==
  /\ owned \in BOOLEAN
  /\ optout = "none"
  /\ conv = [there |-> FALSE, optout |-> "active"]
  /\ send = [s \in Send |-> "new"]
  /\ message = {}
  /\ ledger = [s \in Send |-> [pending |-> FALSE, cost |-> 0]]
  /\ twilio = [s \in Send |-> "none"]
  /\ replied = {}
  /\ posts = {}
  /\ events = {}
  /\ hook = [h \in Handler |-> Idle]
  /\ crashes = Crashes
  /\ word = "other"
  /\ mixed = FALSE
  /\ late = {}
  /\ applied = {}

-----------------------------------------------------------------------------
(* Gates and locks *)

\* A cost that has not arrived counts nothing.
Spent == MapThenSumSet(LAMBDA s : ledger[s].cost, Send)
GateOpen == Spent < Budget

Eligible == optout # "opted_out"

\* get_or_create_conversation flushes its row, so a send has it locked until it
\* commits; every other writer of the conversation waits.
\* Mutant: nothing is flushed before Twilio is asked.
ConvFreeAlways == TRUE
ConvFree == \A s \in Send : send[s] \notin {"locked", "submitted"}

\* Only an attribute that differs from what the session has read is written.
\* Mutant: every attribute is.
SetAlways(old, view, new) == new
Set(old, view, new) == IF view = new THEN old ELSE new

Step(s, from, to) == send[s] = from /\ send' = [send EXCEPT ![s] = to]

-----------------------------------------------------------------------------
(* Sending *)

\* The compose form: budget and eligibility, then send_single_sms asks again.
SendSms(s) ==
  /\ s \in Single
  /\ GateOpen
  /\ Eligible
  /\ Step(s, "new", "checked")
  /\ UNCHANGED <<rows, provider, events, hook, crashes, history>>

\* A bulk send asks for the budget once, whatever the number of its recipients ...
BulkSend(R) ==
  /\ R # {}
  /\ \A s \in R : send[s] = "new"
  /\ GateOpen
  /\ send' = [s \in Send |-> IF s \in R THEN "batched" ELSE send[s]]
  /\ UNCHANGED <<rows, provider, events, hook, crashes, history>>

\* ... and for each one's opt-out, and leaves the rest to a task ...
BulkQueue(s) ==
  /\ IF Eligible THEN Step(s, "batched", "task") ELSE Step(s, "batched", "failed")
  /\ UNCHANGED <<rows, provider, events, hook, crashes, history>>

\* ... which looks at the opt-out again, but not at the budget.
TaskCheck(s) ==
  /\ IF Eligible THEN Step(s, "task", "checked") ELSE Step(s, "task", "failed")
  /\ UNCHANGED <<rows, provider, events, hook, crashes, history>>

LockConversation(s) ==
  /\ ConvFree
  /\ Step(s, "checked", "locked")
  /\ UNCHANGED <<rows, provider, events, hook, crashes, history>>

Submit(s) ==
  /\ Step(s, "locked", "submitted")
  /\ twilio' = [twilio EXCEPT ![s] = "queued"]
  /\ UNCHANGED <<rows, replied, posts, events, hook, crashes, history>>

\* The conversation, the message and its ledger entry are one transaction.
SendCommit(s) ==
  /\ Step(s, "submitted", "done")
  /\ conv' = [conv EXCEPT !.there = TRUE]
  /\ message' = message \cup {s}
  /\ ledger' = [ledger EXCEPT ![s].pending = TRUE]
  /\ UNCHANGED <<owned, optout, provider, events, hook, crashes, history>>

\* Twilio refuses, or another request has just created the conversation.
SendFails(s) ==
  /\ Step(s, "locked", "failed") \/ Step(s, "checked", "failed")
  /\ UNCHANGED <<rows, provider, events, hook, crashes, history>>

\* The process dies or loses its connection: what Twilio has taken stays taken.
SendCrash(s) ==
  /\ crashes > 0
  /\ Step(s, "submitted", "failed")
  /\ crashes' = crashes - 1
  /\ UNCHANGED <<rows, provider, events, hook, history>>

-----------------------------------------------------------------------------
(* Twilio and the voter *)

\* The text moves on, and the new state is posted; what is not posted concerns
\* nobody.
Moves == {<<"queued", "sent">>, <<"queued", "failed">>, <<"sent", "delivered">>,
          <<"sent", "failed">>}
Progress(s) ==
  /\ s \in Reported
  /\ \E move \in Moves :
       /\ twilio[s] = move[1]
       /\ twilio' = [twilio EXCEPT ![s] = move[2]]
       /\ posts' = posts \cup {[of |-> s, says |-> move[2]]}
  /\ UNCHANGED <<rows, send, replied, events, hook, crashes, history>>

Reply(t) ==
  /\ t \notin replied
  /\ replied' = replied \cup {t}
  /\ \E w \in Word : posts' = posts \cup {[of |-> t, says |-> w]}
  /\ UNCHANGED <<rows, send, twilio, events, hook, crashes, history>>

-----------------------------------------------------------------------------
(* Webhooks: check_idempotency commits the event before it is applied *)

Handling(h, at) == hook[h].at = at
IsReply(h) == hook[h].post.of \in Text
OfText(h)  == hook[h].post.of

\* The request is answered, and Twilio is satisfied.
Answer(h) ==
  /\ hook' = [hook EXCEPT ![h] = Idle]
  /\ posts' = posts \ {hook[h].post}

\* The organisation is looked up by To, the number the text went to: a reply went
\* to the organisation's, a text of ours to the voter's.
Resolved(p) == p.of \in Text \/ owned

\* Mutant: an event that is recorded already is handled again.
UnseenAlways(p) == TRUE
Unseen(p) == p \notin events

Receive(h, p) ==
  /\ Handling(h, "idle")
  /\ p \in posts
  /\ Resolved(p)
  /\ Unseen(p)
  /\ events' = events \cup {p}
  /\ hook' = [hook EXCEPT ![h] = [Idle EXCEPT !.at = "seen", !.post = p]]
  /\ UNCHANGED <<rows, send, provider, crashes, history>>

\* Posted again while, or after, it was handled: answered and left at that.
Duplicate(p) ==
  /\ p \in posts \cap events
  /\ Resolved(p)
  /\ posts' = posts \ {p}
  /\ UNCHANGED <<rows, send, twilio, replied, events, hook, crashes, history>>

\* Unknown number (404), credentials or signature that do not fit (403), too many
\* requests (429): an answer, and nothing is recorded.
Refuse(p) ==
  /\ p \in posts
  /\ posts' = posts \ {p}
  /\ UNCHANGED <<rows, send, twilio, replied, events, hook, crashes, history>>

\* The handler raises or dies.  Its event stays recorded.
HookFails(h) ==
  /\ hook' = [hook EXCEPT ![h] = Idle]
  /\ UNCHANGED <<rows, send, provider, events, history>>

HookCrash(h) ==
  /\ crashes > 0
  /\ ~Handling(h, "idle")
  /\ crashes' = crashes - 1
  /\ HookFails(h)

-----------------------------------------------------------------------------
(* Replies *)

\* The conversation and, for a keyword, the opt-out are loaded.
ReplyRead(h) ==
  /\ Handling(h, "seen")
  /\ IsReply(h)
  /\ hook' = [hook EXCEPT ![h].at = "read",
                          ![h].view = [NoView EXCEPT !.opt = optout, !.conv = conv]]
  /\ UNCHANGED <<rows, send, provider, events, crashes, history>>

\* Rows this request found missing have been inserted since.
Conflict(h) ==
  \/ conv.there # hook[h].view.conv.there
  \/ hook[h].post.says # "other" /\ hook[h].view.opt = "none" /\ optout # "none"

\* Mutant: the keyword itself is stored.
DecisionKeyword(w) == w
Decision(w) == IF w = "STOP" THEN "opted_out" ELSE "active"

\* Mutant: the conversation is not told.
SyncNever(view, w) == conv.optout
Sync(view, w) == Set(conv.optout, view.conv.optout, Decision(w))

ReplyCommit(h) ==
  LET v == hook[h].view
      w == hook[h].post.says
  IN  /\ Handling(h, "read")
      /\ IsReply(h)
      /\ ConvFree
      /\ ~Conflict(h)
      /\ IF w = "other"
         THEN /\ conv' = [conv EXCEPT !.there = TRUE]
              /\ UNCHANGED <<optout, word, mixed, late>>
         ELSE /\ optout' = Set(optout, v.opt, Decision(w))
              /\ conv' = [there |-> TRUE, optout |-> Sync(v, w)]
              /\ word' = w
              /\ mixed' = (v.opt # optout \/ v.conv.optout # conv.optout)
              /\ late' = IF optout' = "opted_out"
                         THEN late \cup {s \in Send : send[s] = "checked"} ELSE late
      /\ Answer(h)
      /\ applied' = applied \cup {hook[h].post}
      /\ UNCHANGED <<owned, send, message, ledger, twilio, replied, events, crashes>>

ReplyConflict(h) ==
  /\ Handling(h, "read")
  /\ IsReply(h)
  /\ ConvFree
  /\ Conflict(h)
  /\ HookFails(h)
  /\ UNCHANGED crashes

-----------------------------------------------------------------------------
(* Delivery states *)

StatusRead(h) ==
  LET s == OfText(h)
  IN  /\ Handling(h, "seen")
      /\ ~IsReply(h)
      /\ s \in message
      /\ hook' = [hook EXCEPT ![h].at = "read",
                              ![h].view = [NoView EXCEPT !.pending = ledger[s].pending]]
      /\ UNCHANGED <<rows, send, provider, events, crashes, history>>

\* The send has not committed, or never will: there is no row to update.
StatusUnknown(h) ==
  /\ Handling(h, "seen")
  /\ ~IsReply(h)
  /\ OfText(h) \notin message
  /\ Answer(h)
  /\ UNCHANGED <<rows, send, twilio, replied, events, crashes, history>>

\* A price or a final state settles the cost.
StillPending(pending, status, price) == status \notin Final /\ price = 0 /\ pending

\* The state overwrites the row's provider_status, which nothing here reads.
StatusCommit(h) ==
  LET s == OfText(h)
      v == hook[h].view
  IN  /\ Handling(h, "read")
      /\ ~IsReply(h)
      /\ ConvFree
      /\ \E price \in {0, 1} :
           ledger' = [ledger EXCEPT
             ![s].pending =
               Set(@, v.pending, StillPending(v.pending, hook[h].post.says, price)),
             ![s].cost = IF price = 0 THEN @ ELSE price]
      /\ Answer(h)
      /\ applied' = applied \cup {hook[h].post}
      /\ UNCHANGED <<owned, optout, conv, message, send, twilio, replied, events,
                     crashes, word, mixed, late>>

-----------------------------------------------------------------------------
Next ==
  \/ \E s \in Send :
       \/ SendSms(s) \/ BulkQueue(s) \/ TaskCheck(s) \/ LockConversation(s)
       \/ Submit(s) \/ SendCommit(s) \/ SendFails(s) \/ SendCrash(s) \/ Progress(s)
  \/ \E R \in SUBSET Bulk : BulkSend(R)
  \/ \E t \in Text : Reply(t)
  \/ \E p \in posts :
       Duplicate(p) \/ Refuse(p) \/ \E h \in Handler : Receive(h, p)
  \/ \E h \in Handler :
       \/ HookCrash(h) \/ ReplyRead(h) \/ ReplyCommit(h) \/ ReplyConflict(h)
       \/ StatusRead(h) \/ StatusUnknown(h) \/ StatusCommit(h)

Spec == Init /\ [][Next]_vars

-----------------------------------------------------------------------------
(* Properties *)

\* Every variable has its type.
TypeOK ==
  /\ owned \in BOOLEAN
  /\ optout \in OptOut
  /\ conv \in [there: BOOLEAN, optout: {"active", "opted_out"}]
  /\ send \in [Send -> {"new", "batched", "task", "checked", "locked", "submitted",
                        "done", "failed"}]
  /\ message \subseteq Send
  /\ ledger \in [Send -> [pending: BOOLEAN, cost: {0, 1}]]
  /\ twilio \in [Send -> Delivery \cup {"none"}]
  /\ replied \subseteq Text
  /\ posts \subseteq Post
  /\ events \subseteq Post
  /\ hook \in [Handler -> [at: {"idle", "seen", "read"}, post: Post \cup {NoPost},
                view: [opt: OptOut, conv: [there: BOOLEAN, optout: {"active", "opted_out"}],
                       pending: BOOLEAN]]]
  /\ crashes \in Nat
  /\ word \in Word
  /\ mixed \in BOOLEAN
  /\ late \subseteq Send
  /\ applied \subseteq Post

\* Nothing is handed to Twilio for a voter who has opted out, also not by a task
\* that was queued before.  The one gap is between the check and the lock on the
\* conversation: with the lock held, no opt-out commits until the text is sent.
OptOutHeld ==
  [][\A s \in Send : twilio[s] = "none" /\ twilio'[s] # "none"
       => optout # "opted_out" \/ s \in late]_vars

\* The keyword applied last decides, and the conversation shows what the gate
\* goes by, unless that keyword was applied on a read that another keyword's
\* commit had outdated: then the attribute it finds unchanged is not written.
KeywordDecides ==
  word # "other" /\ ~mixed => optout = Decision(word) /\ conv.optout = optout

\* A post is applied once at most, however often Twilio repeats it: no two
\* requests handle it together, and none handles it when it has been applied.
AppliedOnce ==
  \A h \in Handler : hook[h].at # "idle" =>
    /\ hook[h].post \notin applied
    /\ \A g \in Handler : g # h => hook[g].post # hook[h].post

\* A cost that is settled is never pending again, whatever comes later or was
\* read earlier.
SettledStays ==
  [][\A s \in message : ~ledger[s].pending
       => ~ledger'[s].pending]_vars
=============================================================================
