-------------------------- MODULE SmsDeliveryProofs --------------------------
(***************************************************************************)
(* For any texts, replies, handlers and budget: nothing is sent after an   *)
(* opt-out but through the one gap, the last keyword decides, a webhook is *)
(* applied once at most, and a settled cost stays settled.                 *)
(***************************************************************************)
EXTENDS SmsDelivery, TLAPS

-----------------------------------------------------------------------------
(* The invariant *)

\* Where a text is, and where its rows are.
SendInv ==
  \A s \in Send :
    /\ send[s] \in {"new", "batched", "task", "checked", "locked"} => twilio[s] = "none"
    /\ s \in message => send[s] = "done"

\* A text on its way was checked before the voter opted out, or is late.
GapInv ==
  \A s \in Send :
    send[s] \in {"checked", "locked"} => optout # "opted_out" \/ s \in late

\* A handler has recorded its post, which is nobody else's and not applied yet.
HookInv ==
  /\ applied \subseteq events
  /\ \A h \in Handler :
       /\ hook[h].at = "idle" => hook[h].post = NoPost
       /\ hook[h].at # "idle" => hook[h].post \in events \ applied
  /\ AppliedOnce

IInv == TypeOK /\ SendInv /\ GapInv /\ KeywordDecides /\ HookInv

-----------------------------------------------------------------------------
(* Rows and handlers *)

\* A ledger entry that is settled or given a cost is still an entry.
LEMMA LedgerUpdate ==
  ASSUME NEW f \in [Send -> [pending: BOOLEAN, cost: {0, 1}]],
         NEW s \in Send, NEW p \in BOOLEAN, NEW c \in {0, 1}
  PROVE  /\ [f EXCEPT ![s].pending = p] \in [Send -> [pending: BOOLEAN, cost: {0, 1}]]
         /\ [f EXCEPT ![s].pending = p, ![s].cost = c]
              \in [Send -> [pending: BOOLEAN, cost: {0, 1}]]
  <1> DEFINE e1 == [f[s] EXCEPT !.pending = p]
             e2 == [e1 EXCEPT !.cost = c]
  <1>1. e1 \in [pending: BOOLEAN, cost: {0, 1}]
    OBVIOUS
  <1>2. e2 \in [pending: BOOLEAN, cost: {0, 1}]
    BY <1>1
  <1>3. /\ [f EXCEPT ![s].pending = p] = [f EXCEPT ![s] = e1]
        /\ [f EXCEPT ![s].pending = p, ![s].cost = c] = [f EXCEPT ![s] = e2]
    OBVIOUS
  <1> HIDE DEF e1, e2
  <1> QED BY <1>1, <1>2, <1>3

\* A handler's view is taken: it keeps its post.
LEMMA HookUpdate ==
  ASSUME NEW V, NEW f \in [Handler -> [at: {"idle", "seen", "read"},
                                       post: Post \cup {NoPost}, view: V]],
         NEW h \in Handler, NEW v
  PROVE  [f EXCEPT ![h].at = "read", ![h].view = v]
           = [f EXCEPT ![h] = [at |-> "read", post |-> f[h].post, view |-> v]]
  <1>1. f[h] \in [at: {"idle", "seen", "read"}, post: Post \cup {NoPost}, view: V]
    OBVIOUS
  <1>2. [[f[h] EXCEPT !.at = "read"] EXCEPT !.view = v]
          = [at |-> "read", post |-> f[h].post, view |-> v]
    <2> DEFINE r == f[h]
               q == [r EXCEPT !.at = "read"]
    <2>1. r = [at |-> r.at, post |-> r.post, view |-> r.view]
      BY <1>1
    <2> HIDE DEF r
    <2>2. q = [at |-> "read", post |-> r.post, view |-> r.view]
      BY <2>1
    <2> HIDE DEF q
    <2>3. [q EXCEPT !.view = v] = [at |-> "read", post |-> r.post, view |-> v]
      BY <2>2
    <2> QED BY <2>3 DEF q, r
  <1>3. [f EXCEPT ![h].at = "read", ![h].view = v]
           = [f EXCEPT ![h] = [[f[h] EXCEPT !.at = "read"] EXCEPT !.view = v]]
    OBVIOUS
  <1> QED BY <1>2, <1>3

LEMMA PostFacts ==
  ASSUME NEW p \in Post
  PROVE  /\ p # NoPost
         /\ p.of \in Text => p.says \in Word
         /\ p.of \notin Text => p.of \in Send
  BY SmsAssumption DEF Post, NoPost

LEMMA InitInv == Init => IInv
  <1> SUFFICES ASSUME Init PROVE IInv
    OBVIOUS
  <1>1. TypeOK
    BY SmsAssumption
    DEF Init, TypeOK, Idle, NoView, NoPost, OptOut, Word, Delivery
  <1>2. SendInv /\ GapInv /\ KeywordDecides
    BY SmsAssumption DEF Init, SendInv, GapInv, KeywordDecides
  <1>3. HookInv
    BY DEF Init, HookInv, AppliedOnce, Idle
  <1> QED BY <1>1, <1>2, <1>3 DEF IInv

-----------------------------------------------------------------------------
(* Sending: texts move, webhooks do not *)

LEMMA HookUnchanged ==
  ASSUME HookInv, UNCHANGED <<events, hook, applied>>
  PROVE  HookInv'
  BY DEF HookInv, AppliedOnce

\* The texts R, not sent yet, move on, and nothing is handed over.
MovesOn(R, to) ==
  /\ R \in SUBSET Send
  /\ to \in {"batched", "task", "checked", "locked", "failed"}
  /\ send' = [s \in Send |-> IF s \in R THEN to ELSE send[s]]
  /\ to = "checked" => Eligible
  /\ \A s \in R : /\ send[s] # "done"
                  /\ to # "failed" => send[s] \in {"new", "batched", "task", "checked"}
                  /\ to = "locked" => send[s] = "checked"
  /\ UNCHANGED <<rows, provider, events, hook, history>>
  /\ crashes' \in Nat

LEMMA QuietSend ==
  ASSUME IInv, NEW R, NEW to, MovesOn(R, to)
  PROVE  IInv'
  <1>1. TypeOK'
    BY DEF IInv, TypeOK, rows, provider, history, MovesOn
  <1>2. SendInv'
    BY DEF IInv, TypeOK, SendInv, rows, provider, MovesOn
  <1>3. GapInv'
    BY DEF IInv, TypeOK, GapInv, Eligible, rows, history, MovesOn
  <1>4. KeywordDecides'
    BY DEF IInv, KeywordDecides, rows, history, MovesOn
  <1>5. HookInv'
    BY HookUnchanged DEF IInv, history, MovesOn
  <1> QED BY <1>1, <1>2, <1>3, <1>4, <1>5 DEF IInv

LEMMA OneSend ==
  ASSUME IInv, NEW s \in Send,
         \/ SendSms(s) \/ BulkQueue(s) \/ TaskCheck(s) \/ LockConversation(s)
         \/ SendFails(s) \/ SendCrash(s)
  PROVE  IInv'
  <1>1. UNCHANGED <<rows, provider, events, hook, history>> /\ crashes' \in Nat
    BY DEF SendSms, BulkQueue, TaskCheck, LockConversation, SendFails, SendCrash, IInv, TypeOK
  <1>2. PICK to \in {"task", "checked", "locked", "failed"} :
          /\ send' = [send EXCEPT ![s] = to]
          /\ send[s] # "done"
          /\ to # "failed" => send[s] \in {"new", "batched", "task", "checked"}
          /\ to = "checked" => Eligible
          /\ to = "locked" => send[s] = "checked"
    BY DEF SendSms, BulkQueue, TaskCheck, LockConversation, SendFails, SendCrash, Step
  <1>3. MovesOn({s}, to)
    <2>1. send' = [u \in Send |-> IF u \in {s} THEN to ELSE send[u]]
      BY <1>2 DEF IInv, TypeOK
    <2> QED BY <1>1, <1>2, <2>1 DEF MovesOn
  <1> QED BY <1>3, QuietSend

LEMMA BulkStep ==
  ASSUME IInv, NEW R \in SUBSET Bulk, BulkSend(R)
  PROVE  IInv'
  <1>1. MovesOn(R, "batched")
    BY DEF BulkSend, Send, IInv, TypeOK, MovesOn
  <1> QED BY <1>1, QuietSend

LEMMA SubmitStep ==
  ASSUME IInv, NEW s \in Send, Submit(s)
  PROVE  IInv'
  <1>1. /\ send[s] = "locked"
        /\ send' = [send EXCEPT ![s] = "submitted"]
        /\ twilio' = [twilio EXCEPT ![s] = "queued"]
        /\ UNCHANGED <<rows, replied, posts, events, hook, crashes, history>>
    BY DEF Submit, Step
  <1>2. TypeOK'
    BY <1>1 DEF IInv, TypeOK, rows, history, Delivery
  <1>3. SendInv' /\ GapInv' /\ KeywordDecides'
    BY <1>1 DEF IInv, TypeOK, SendInv, GapInv, KeywordDecides, rows, history
  <1>4. HookInv'
    BY <1>1, HookUnchanged DEF IInv, history
  <1> QED BY <1>2, <1>3, <1>4 DEF IInv

LEMMA SendCommitStep ==
  ASSUME IInv, NEW s \in Send, SendCommit(s)
  PROVE  IInv'
  <1>1. /\ send[s] = "submitted"
        /\ send' = [send EXCEPT ![s] = "done"]
        /\ conv' = [conv EXCEPT !.there = TRUE]
        /\ message' = message \cup {s}
        /\ ledger' = [ledger EXCEPT ![s].pending = TRUE]
        /\ UNCHANGED <<owned, optout, provider, events, hook, crashes, history>>
    BY DEF SendCommit, Step
  <1>2. TypeOK'
    <2>1. ledger' \in [Send -> [pending: BOOLEAN, cost: {0, 1}]]
      BY <1>1, LedgerUpdate DEF IInv, TypeOK
    <2>2. conv' \in [there: BOOLEAN, optout: {"active", "opted_out"}]
      BY <1>1 DEF IInv, TypeOK
    <2> QED BY <1>1, <2>1, <2>2 DEF IInv, TypeOK, provider, history
  <1>3. SendInv' /\ GapInv' /\ KeywordDecides'
    BY <1>1 DEF IInv, TypeOK, SendInv, GapInv, KeywordDecides, provider, history
  <1>4. HookInv'
    BY <1>1, HookUnchanged DEF IInv, history
  <1> QED BY <1>2, <1>3, <1>4 DEF IInv

-----------------------------------------------------------------------------
(* The provider *)

LEMMA ProgressStep ==
  ASSUME IInv, NEW s \in Send, Progress(s)
  PROVE  IInv'
  <1>1. PICK move \in Moves :
          /\ twilio[s] = move[1]
          /\ twilio' = [twilio EXCEPT ![s] = move[2]]
          /\ posts' = posts \cup {[of |-> s, says |-> move[2]]}
    BY DEF Progress
  <1>2. UNCHANGED <<rows, send, replied, events, hook, crashes, history>>
    BY DEF Progress
  <1>3. twilio[s] # "none" /\ move[2] \in Delivery
    BY <1>1 DEF Moves, Delivery
  <1>4. [of |-> s, says |-> move[2]] \in Post
    BY <1>3 DEF Post
  <1>5. TypeOK'
    BY <1>1, <1>2, <1>3, <1>4 DEF IInv, TypeOK, rows, history
  <1>6. SendInv'
    BY <1>1, <1>2, <1>3 DEF IInv, TypeOK, SendInv, rows
  <1>7. GapInv' /\ KeywordDecides'
    BY <1>2 DEF IInv, GapInv, KeywordDecides, rows, history
  <1>8. HookInv'
    BY <1>2, HookUnchanged DEF IInv, history
  <1> QED BY <1>5, <1>6, <1>7, <1>8 DEF IInv

\* What a step owes besides TypeOK and HookInv when it leaves texts and rows alone.
LEMMA WebhookOnly ==
  ASSUME IInv, UNCHANGED <<rows, send, twilio, word, mixed, late>>
  PROVE  SendInv' /\ GapInv' /\ KeywordDecides'
  BY DEF IInv, SendInv, GapInv, KeywordDecides, rows

\* A reply is posted, a post is refused or known already.
LEMMA PostStep ==
  ASSUME IInv,
         \/ \E t \in Text : Reply(t)
         \/ \E p \in posts : Duplicate(p) \/ Refuse(p)
  PROVE  IInv'
  <1>1. UNCHANGED <<rows, send, twilio, events, hook, crashes, history>>
    BY DEF Reply, Duplicate, Refuse
  <1>2. posts' \subseteq Post /\ replied' \subseteq Text
    BY DEF Reply, Duplicate, Refuse, IInv, TypeOK, Post
  <1>3. TypeOK'
    BY <1>1, <1>2 DEF IInv, TypeOK, rows, history
  <1>4. SendInv' /\ GapInv' /\ KeywordDecides'
    BY <1>1, WebhookOnly DEF history
  <1>5. HookInv'
    BY <1>1, HookUnchanged DEF IInv, history
  <1> QED BY <1>3, <1>4, <1>5 DEF IInv

-----------------------------------------------------------------------------
(* Webhooks *)

LEMMA ReceiveStep ==
  ASSUME IInv, NEW h \in Handler, NEW p \in posts, Receive(h, p)
  PROVE  IInv'
  <1>1. /\ hook[h].at = "idle" /\ p \in Post /\ p \notin events
        /\ events' = events \cup {p}
        /\ hook' = [hook EXCEPT ![h] = [at |-> "seen", post |-> p, view |-> NoView]]
        /\ UNCHANGED <<rows, send, provider, crashes, history>>
    <2>1. [Idle EXCEPT !.at = "seen", !.post = p] = [at |-> "seen", post |-> p, view |-> NoView]
      <3> DEFINE i == Idle
                 q == [i EXCEPT !.at = "seen"]
      <3>1. i = [at |-> "idle", post |-> NoPost, view |-> NoView]
        BY DEF Idle
      <3> HIDE DEF i
      <3>2. q = [at |-> "seen", post |-> NoPost, view |-> NoView]
        BY <3>1
      <3> HIDE DEF q
      <3>3. [q EXCEPT !.post = p] = [at |-> "seen", post |-> p, view |-> NoView]
        BY <3>2
      <3> QED BY <3>3 DEF q, i
    <2>2. p \in Post
      BY DEF IInv, TypeOK
    <2> QED BY <2>1, <2>2 DEF Receive, Handling, Unseen
  <1>2. /\ hook'[h].at = "seen" /\ hook'[h].post = p
        /\ \A g \in Handler : g # h => hook'[g] = hook[g]
    BY <1>1 DEF IInv, TypeOK
  <1>3. TypeOK'
    BY <1>1 DEF IInv, TypeOK, NoView, OptOut, rows, provider, history
  <1>4. SendInv' /\ GapInv' /\ KeywordDecides'
    BY <1>1, WebhookOnly DEF provider, history
  <1>5. HookInv'
    <2>1. applied' = applied /\ p \notin applied /\ p # NoPost
      BY <1>1, PostFacts DEF history, IInv, HookInv
    <2> QED BY <1>1, <1>2, <2>1 DEF IInv, HookInv, AppliedOnce
  <1> QED BY <1>3, <1>4, <1>5 DEF IInv

\* A handler has read what it needs.
LEMMA ReadStep ==
  ASSUME IInv, NEW h \in Handler, ReplyRead(h) \/ StatusRead(h)
  PROVE  IInv'
  <1>1. PICK v \in [opt: OptOut,
                    conv: [there: BOOLEAN, optout: {"active", "opted_out"}],
                    pending: BOOLEAN] :
          hook' = [hook EXCEPT ![h].at = "read", ![h].view = v]
    <2>1. CASE ReplyRead(h)
      BY <2>1 DEF ReplyRead, NoView, IInv, TypeOK
    <2>2. CASE StatusRead(h)
      <3> DEFINE v == [NoView EXCEPT !.pending = ledger[OfText(h)].pending]
      <3>1. hook[h].post \in Post
        BY <2>2 DEF StatusRead, Handling, IInv, HookInv, TypeOK
      <3>2. OfText(h) \in Send
        BY <2>2, <3>1, PostFacts DEF StatusRead, IsReply, OfText
      <3>3. v \in [opt: OptOut, conv: [there: BOOLEAN, optout: {"active", "opted_out"}],
                   pending: BOOLEAN]
        BY <3>2 DEF NoView, OptOut, IInv, TypeOK
      <3>4. hook' = [hook EXCEPT ![h].at = "read", ![h].view = v]
        BY <2>2 DEF StatusRead
      <3> HIDE DEF v
      <3> QED BY <3>3, <3>4
    <2> QED BY <2>1, <2>2
  <1>2. hook[h].at = "seen" /\ UNCHANGED <<rows, send, provider, events, crashes, history>>
    BY DEF ReplyRead, StatusRead, Handling
  <1> DEFINE new == [at |-> "read", post |-> hook[h].post, view |-> v]
  <1>3. hook' = [hook EXCEPT ![h] = new]
    BY <1>1, HookUpdate DEF IInv, TypeOK
  <1>4. /\ hook'[h].at = "read"
        /\ \A g \in Handler : hook'[g].post = hook[g].post
        /\ \A g \in Handler : g # h => hook'[g] = hook[g]
    BY <1>3 DEF IInv, TypeOK
  <1>5. TypeOK'
    <2>1. hook[h].post \in Post \cup {NoPost}
      BY DEF IInv, TypeOK
    <2>2. new \in [at: {"idle", "seen", "read"}, post: Post \cup {NoPost},
                  view: [opt: OptOut, conv: [there: BOOLEAN, optout: {"active", "opted_out"}],
                         pending: BOOLEAN]]
      BY <1>1, <2>1
    <2> HIDE DEF new
    <2> QED BY <1>2, <1>3, <2>2 DEF IInv, TypeOK, rows, provider, history
  <1>6. SendInv' /\ GapInv' /\ KeywordDecides'
    BY <1>2, WebhookOnly DEF provider, history
  <1>7. HookInv'
    <2>1. UNCHANGED <<events, applied>>
      BY <1>2 DEF history
    <2> HIDE DEF new
    <2> QED BY <1>2, <1>4, <2>1 DEF IInv, HookInv, AppliedOnce
  <1> QED BY <1>5, <1>6, <1>7 DEF IInv

\* A handler ends and lets go of its post, which is applied or is not.
LEMMA HookEnds ==
  ASSUME TypeOK, HookInv, NEW h \in Handler, hook[h].at # "idle",
         hook' = [hook EXCEPT ![h] = Idle],
         applied' \in {applied, applied \cup {hook[h].post}},
         UNCHANGED events
  PROVE  HookInv'
  <1>1. /\ hook'[h] = Idle /\ Idle.at = "idle" /\ Idle.post = NoPost
        /\ \A g \in Handler : g # h => hook'[g] = hook[g] /\ hook[g].post # hook[h].post
    <2>1. hook[h].post # NoPost
      BY PostFacts DEF TypeOK, HookInv
    <2> QED BY <2>1 DEF TypeOK, HookInv, AppliedOnce, Idle
  <1>2. hook[h].post \in events
    BY DEF HookInv
  <1>3. applied' \subseteq events
    BY <1>2 DEF HookInv
  <1>4. ASSUME NEW g \in Handler
        PROVE  /\ hook'[g].at = "idle" => hook'[g].post = NoPost
               /\ hook'[g].at # "idle" => hook'[g].post \in events \ applied'
    BY <1>1 DEF HookInv
  <1>5. AppliedOnce'
    <2> SUFFICES ASSUME NEW f \in Handler, hook'[f].at # "idle"
                 PROVE  /\ hook'[f].post \notin applied'
                        /\ \A g \in Handler : g # f => hook'[g].post # hook'[f].post
      BY DEF AppliedOnce
    <2>1. f # h /\ hook'[f] = hook[f] /\ hook[f].post # NoPost
      BY <1>1, PostFacts DEF TypeOK, HookInv
    <2>2. \A g \in Handler : g # f => hook[g].post # hook[f].post
      BY <1>1, <2>1 DEF HookInv, AppliedOnce
    <2> QED BY <1>1, <1>4, <2>1, <2>2
  <1> QED BY <1>3, <1>4, <1>5 DEF HookInv

\* A handler raises, dies or finds no row: nothing is written.
LEMMA HookLost ==
  ASSUME IInv, NEW h \in Handler, HookCrash(h) \/ ReplyConflict(h) \/ StatusUnknown(h)
  PROVE  IInv'
  <1>1. /\ hook[h].at # "idle"
        /\ hook' = [hook EXCEPT ![h] = Idle]
        /\ posts' \subseteq posts /\ crashes' \in Nat
        /\ UNCHANGED <<rows, send, twilio, replied, events, history>>
    BY DEF HookCrash, ReplyConflict, StatusUnknown, HookFails, Answer, Handling, provider,
           IInv, TypeOK
  <1>2. TypeOK'
    BY <1>1 DEF IInv, TypeOK, Idle, NoView, NoPost, OptOut, rows, history
  <1>3. SendInv' /\ GapInv' /\ KeywordDecides'
    BY <1>1, WebhookOnly DEF history
  <1>4. HookInv'
    BY <1>1, HookEnds DEF IInv, history
  <1> QED BY <1>2, <1>3, <1>4 DEF IInv

LEMMA ReplyCommitStep ==
  ASSUME IInv, NEW h \in Handler, ReplyCommit(h)
  PROVE  IInv'
  <1> DEFINE v == hook[h].view
             w == hook[h].post.says
  <1>1. /\ hook[h].at = "read" /\ IsReply(h) /\ ConvFree
        /\ UNCHANGED <<owned, send, message, ledger, twilio, replied, events, crashes>>
        /\ hook' = [hook EXCEPT ![h] = Idle]
        /\ posts' = posts \ {hook[h].post}
        /\ applied' = applied \cup {hook[h].post}
    BY DEF ReplyCommit, Handling, Answer
  <1>2. hook[h].post \in Post /\ w \in Word
    BY <1>1, PostFacts DEF IInv, TypeOK, HookInv, IsReply, OfText
  <1>3. HookInv'
    BY <1>1, HookEnds DEF IInv
  <1>4. CASE w = "other"
    <2>1. conv' = [conv EXCEPT !.there = TRUE] /\ UNCHANGED <<optout, word, mixed, late>>
      BY <1>4 DEF ReplyCommit
    <2>2. TypeOK'
      BY <1>1, <1>2, <2>1 DEF IInv, TypeOK, Idle, NoView, NoPost, OptOut
    <2>3. SendInv' /\ GapInv' /\ KeywordDecides'
      BY <1>1, <2>1 DEF IInv, TypeOK, SendInv, GapInv, KeywordDecides
    <2> QED BY <1>3, <2>2, <2>3 DEF IInv
  <1>5. CASE w # "other"
    <2>1. /\ optout' = Set(optout, v.opt, Decision(w))
          /\ conv' = [there |-> TRUE, optout |-> Sync(v, w)]
          /\ word' = w
          /\ mixed' = (v.opt # optout \/ v.conv.optout # conv.optout)
          /\ late' = IF optout' = "opted_out"
                     THEN late \cup {s \in Send : send[s] = "checked"} ELSE late
      BY <1>5 DEF ReplyCommit
    <2>2. optout' \in OptOut /\ Sync(v, w) \in {"active", "opted_out"}
      BY <2>1 DEF Set, Sync, Decision, OptOut, IInv, TypeOK
    <2>3. TypeOK'
      BY <1>1, <1>2, <2>1, <2>2 DEF IInv, TypeOK, Idle, NoView, NoPost, OptOut
    <2>4. SendInv'
      BY <1>1 DEF IInv, SendInv
    <2>5. GapInv'
      BY <1>1, <2>1 DEF IInv, GapInv, ConvFree
    <2>6. KeywordDecides'
      BY <2>1 DEF KeywordDecides, Set, Sync
    <2> QED BY <1>3, <2>3, <2>4, <2>5, <2>6 DEF IInv
  <1> QED BY <1>4, <1>5

LEMMA StatusCommitStep ==
  ASSUME IInv, NEW h \in Handler, StatusCommit(h)
  PROVE  IInv'
  <1> DEFINE s == OfText(h)
             v == hook[h].view
             x == hook[h].post.says
  <1>1. /\ hook[h].at = "read" /\ ~IsReply(h)
        /\ UNCHANGED <<owned, optout, conv, message, send, twilio, replied, events,
                       crashes, word, mixed, late>>
        /\ hook' = [hook EXCEPT ![h] = Idle]
        /\ posts' = posts \ {hook[h].post}
        /\ applied' = applied \cup {hook[h].post}
    BY DEF StatusCommit, Handling, Answer
  <1>2. PICK price \in {0, 1} :
          ledger' = [ledger EXCEPT
             ![s].pending = Set(@, v.pending, StillPending(v.pending, x, price)),
             ![s].cost = IF price = 0 THEN @ ELSE price]
    BY DEF StatusCommit
  <1>3. s \in Send /\ hook[h].post \in Post
    BY <1>1, PostFacts DEF IInv, TypeOK, HookInv, IsReply, OfText
  <1> HIDE DEF s, x, v
  <1>4. TypeOK'
    <2>1. ledger' \in [Send -> [pending: BOOLEAN, cost: {0, 1}]]
      <3>1. v.pending \in BOOLEAN /\ StillPending(v.pending, x, price) \in BOOLEAN
        BY DEF StillPending, v, IInv, TypeOK
      <3>2. Set(ledger[s].pending, v.pending, StillPending(v.pending, x, price)) \in BOOLEAN
        BY <1>3, <3>1 DEF Set, IInv, TypeOK
      <3> DEFINE p == Set(ledger[s].pending, v.pending, StillPending(v.pending, x, price))
                 c == IF price = 0 THEN ledger[s].cost ELSE price
      <3>3. ledger' = [ledger EXCEPT ![s].pending = p, ![s].cost = c]
        BY <1>2
      <3>4. p \in BOOLEAN /\ c \in {0, 1}
        BY <1>3, <3>2 DEF IInv, TypeOK
      <3> HIDE DEF p, c
      <3>5. ledger \in [Send -> [pending: BOOLEAN, cost: {0, 1}]] /\ s \in Send
        BY <1>3 DEF IInv, TypeOK
      <3>6. [ledger EXCEPT ![s].pending = p, ![s].cost = c]
              \in [Send -> [pending: BOOLEAN, cost: {0, 1}]]
        BY <3>4, <3>5, LedgerUpdate, ZenonT(30)
      <3> QED BY <3>3, <3>6
    <2> QED BY <1>1, <1>3, <2>1 DEF IInv, TypeOK, Idle, NoView, NoPost, OptOut
  <1>5. SendInv' /\ GapInv' /\ KeywordDecides'
    BY <1>1 DEF IInv, SendInv, GapInv, KeywordDecides
  <1>6. HookInv'
    BY <1>1, HookEnds DEF IInv
  <1> QED BY <1>4, <1>5, <1>6 DEF IInv

-----------------------------------------------------------------------------
(* The theorems *)

LEMMA StepInv == IInv /\ [Next]_vars => IInv'
  <1> SUFFICES ASSUME IInv, [Next]_vars PROVE IInv'
    OBVIOUS
  <1>1. ASSUME NEW s \in Send,
               \/ SendSms(s) \/ BulkQueue(s) \/ TaskCheck(s) \/ LockConversation(s)
               \/ Submit(s) \/ SendCommit(s) \/ SendFails(s) \/ SendCrash(s)
               \/ Progress(s)
        PROVE  IInv'
    BY <1>1, OneSend, SubmitStep, SendCommitStep, ProgressStep
  <1>2. ASSUME NEW R \in SUBSET Bulk, BulkSend(R) PROVE IInv'
    BY <1>2, BulkStep
  <1>3. ASSUME \/ \E t \in Text : Reply(t)
               \/ \E p \in posts : Duplicate(p) \/ Refuse(p)
        PROVE  IInv'
    BY <1>3, PostStep
  <1>4. ASSUME NEW p \in posts, NEW h \in Handler, Receive(h, p) PROVE IInv'
    BY <1>4, ReceiveStep
  <1>5. ASSUME NEW h \in Handler,
               \/ HookCrash(h) \/ ReplyRead(h) \/ ReplyCommit(h) \/ ReplyConflict(h)
               \/ StatusRead(h) \/ StatusUnknown(h) \/ StatusCommit(h)
        PROVE  IInv'
    BY <1>5, HookLost, ReadStep, ReplyCommitStep, StatusCommitStep
  <1>6. CASE UNCHANGED vars
    <2>1. TypeOK' /\ SendInv' /\ GapInv' /\ KeywordDecides'
      BY <1>6 DEF vars, IInv, TypeOK, SendInv, GapInv, KeywordDecides
    <2>2. HookInv'
      BY <1>6, HookUnchanged DEF vars, IInv
    <2> QED BY <2>1, <2>2 DEF IInv
  <1> QED BY <1>1, <1>2, <1>3, <1>4, <1>5, <1>6 DEF Next

\* The invariant, and with it what each part says of the code.
THEOREM InvHolds == Spec => []IInv
  BY InitInv, StepInv, PTL DEF Spec

\* Every variable keeps its type, whatever handlers and providers do.
THEOREM TypeCorrect == Spec => []TypeOK
  <1>1. IInv => TypeOK
    BY DEF IInv
  <1> QED BY <1>1, InvHolds, PTL

\* The keyword applied last decides, and the conversation agrees with the gate,
\* unless it was applied on an outdated read.
THEOREM LastKeywordDecides == Spec => []KeywordDecides
  <1>1. IInv => KeywordDecides
    BY DEF IInv
  <1> QED BY <1>1, InvHolds, PTL

\* However often Twilio repeats a post and however its deliveries overlap, it is
\* applied once at most.
THEOREM EventsOnce == Spec => []AppliedOnce
  <1>1. IInv => AppliedOnce
    BY DEF IInv, HookInv
  <1> QED BY <1>1, InvHolds, PTL

\* No text is handed over after an opt-out, but one that had been checked and
\* was waiting for the conversation when the opt-out committed.
THEOREM OptOutRespected == Spec => OptOutHeld
  <1>1. IInv /\ [Next]_vars =>
          [\A s \in Send : twilio[s] = "none" /\ twilio'[s] # "none"
             => optout # "opted_out" \/ s \in late]_vars
    <2> SUFFICES ASSUME IInv, Next, NEW s \in Send, twilio[s] = "none", twilio'[s] # "none"
                 PROVE  optout # "opted_out" \/ s \in late
      OBVIOUS
    <2>1. \E u \in Send : Submit(u) \/ Progress(u)
      BY DEF Next, SendSms, BulkSend, BulkQueue, TaskCheck, LockConversation, SendCommit, SendFails,
             SendCrash, Reply, Duplicate, Refuse, Receive, HookCrash, HookFails, ReplyRead,
             ReplyCommit, ReplyConflict, StatusRead, StatusUnknown, StatusCommit, provider
    <2>2. ASSUME NEW u \in Send, Submit(u) PROVE optout # "opted_out" \/ s \in late
      <3>1. u = s
        BY <2>2 DEF Submit, IInv, TypeOK
      <3> QED BY <2>2, <3>1 DEF Submit, Step, IInv, GapInv
    <2>3. ASSUME NEW u \in Send, Progress(u) PROVE FALSE
      <3>1. twilio[u] # "none" /\ \A t \in Send : t # u => twilio'[t] = twilio[t]
        BY <2>3 DEF Progress, Moves, IInv, TypeOK
      <3> QED BY <3>1
    <2> QED BY <2>1, <2>2, <2>3
  <1> QED BY <1>1, InvHolds, PTL DEF Spec, OptOutHeld

\* A settled cost is never pending again.
THEOREM CostsStaySettled == Spec => SettledStays
  <1>1. IInv /\ [Next]_vars =>
          [\A s \in message : ~ledger[s].pending
             => ~ledger'[s].pending]_vars
    <2> SUFFICES ASSUME IInv, Next, NEW s \in message, ~ledger[s].pending
                 PROVE  ~ledger'[s].pending
      OBVIOUS
    <2>0. s \in Send
      BY DEF IInv, TypeOK
    <2>1. \/ UNCHANGED ledger
          \/ \E u \in Send : SendCommit(u)
          \/ \E h \in Handler : StatusCommit(h)
      BY DEF Next, SendSms, BulkSend, BulkQueue, TaskCheck, LockConversation, Submit, SendFails,
             SendCrash, Progress, Reply, Duplicate, Refuse, Receive, HookCrash, HookFails,
             ReplyRead, ReplyCommit, ReplyConflict, StatusRead, StatusUnknown, rows
    <2>2. CASE UNCHANGED ledger
      BY <2>2
    <2>3. ASSUME NEW u \in Send, SendCommit(u) PROVE ~ledger'[s].pending
      <3>1. u # s
        BY <2>0, <2>3 DEF SendCommit, Step, IInv, SendInv
      <3> QED BY <2>0, <2>3, <3>1 DEF SendCommit, IInv, TypeOK
    <2>4. ASSUME NEW h \in Handler, StatusCommit(h) PROVE ~ledger'[s].pending
      <3> DEFINE u == OfText(h)
                 v == hook[h].view
      <3>1. PICK status, price :
              ledger' = [ledger EXCEPT
                ![u].pending = Set(@, v.pending, StillPending(v.pending, status, price)),
                ![u].cost = IF price = 0 THEN @ ELSE price]
        BY <2>4 DEF StatusCommit
      <3>2. ~Set(FALSE, v.pending, StillPending(v.pending, status, price))
        BY DEF Set, StillPending, IInv, TypeOK
      <3> DEFINE p == Set(ledger[u].pending, v.pending, StillPending(v.pending, status, price))
                 c == IF price = 0 THEN ledger[u].cost ELSE price
      <3>3. ledger' = [ledger EXCEPT ![u].pending = p, ![u].cost = c]
        BY <3>1
      <3>4. ledger \in [Send -> [pending: BOOLEAN, cost: {0, 1}]]
        BY DEF IInv, TypeOK
      <3>5. CASE u = s
        <4>1. ~ledger[u].pending /\ v.pending \in BOOLEAN
          BY <2>0, <3>5 DEF IInv, TypeOK
        <4>2. ~p
          BY <3>2, <3>4, <3>5, <4>1 DEF Set, StillPending
        <4> HIDE DEF u, v, p, c
        <4> QED BY <2>0, <3>3, <3>4, <3>5, <4>2
      <3>6. CASE u # s
        <4> HIDE DEF u, v, p, c
        <4> QED BY <2>0, <3>3, <3>4, <3>6
      <3> QED BY <3>5, <3>6
    <2> QED BY <2>1, <2>2, <2>3, <2>4
  <1> QED BY <1>1, InvHolds, PTL DEF Spec, SettledStays
=============================================================================
