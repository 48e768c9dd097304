-------------------------- MODULE OfflineSyncProofs --------------------------
(***************************************************************************)
(* For any knocks, triples, calls and ids: no saved outcome is lost, and   *)
(* the drain's snapshot never outlives the queue.                          *)
(***************************************************************************)
EXTENDS OfflineSync, TLAPS

\* A call awaits the POST of a knock; its 201 or 409 means that the row exists.
PostsTrue ==
    \A c \in Call : \/ call[c] = NoRequest
                    \/ /\ call[c].uuid \in Knock
                       /\ call[c].answer \in {"created", "duplicate"} => call[c].uuid \in rows

\* The same of the drain, which holds the lock while it awaits anything and
\* awaits an item it has taken off its snapshot.
ReplayTrue ==
    /\ ~syncing => todo = {} /\ sending = NoRequest
    /\ \/ sending = NoRequest
       \/ /\ sending.uuid \in items \ todo
          /\ sending.answer \in {"created", "duplicate"} => sending.uuid \in rows
    /\ todo \subseteq items
    /\ items \cap dead = {}

IInv == TypeOK /\ PostsTrue /\ ReplayTrue /\ NothingLost

\* Ids keep their knock, and a uuid that is somewhere stays somewhere.
Keeps == /\ \A u \in QueueId : pushed[u] # None => pushed'[u] = pushed[u]
         /\ Places \subseteq Places'

LEMMA InitInv == Init => IInv
  <1> SUFFICES ASSUME Init PROVE IInv
    OBVIOUS
  <1>1. TypeOK
    BY IdsAssumption DEF Init, TypeOK, NoRequest, Request, Unused, Uuid
  <1>2. PostsTrue /\ ReplayTrue /\ NothingLost
    BY DEF Init, PostsTrue, ReplayTrue, NothingLost
  <1> QED BY <1>1, <1>2 DEF IInv

\* What was among the places is among them after a step that keeps.
LEMMA AmongKept ==
  ASSUME TypeOK, Keeps, NEW k, Among(k, Places)
  PROVE  Among(k, Places)'
  <1>1. PICK u \in Places : KnockOf(u) \in Knock /\ TripleOf[KnockOf(u)] = TripleOf[k]
    BY DEF Among
  <1>2. u \in Places'
    BY <1>1 DEF Keeps
  <1>3. KnockOf(u)' = KnockOf(u)
    BY <1>1, IdsAssumption DEF KnockOf, Keeps
  <1> QED BY <1>1, <1>2, <1>3 DEF Among

\* A push keeps every uuid's knock, and afterwards the triple pushed is queued.
LEMMA PushKeeps ==
  ASSUME TypeOK, NEW k \in Knock, Push(k)
  PROVE  /\ \A u \in QueueId : pushed[u] # None => pushed'[u] = pushed[u]
         /\ pushed' \in [QueueId -> Knock \cup {None}]
         /\ items \subseteq items'
         /\ items' \ items \subseteq Unused
         /\ \A u \in items' : pushed'[u] # None
         /\ items' \subseteq QueueId
         /\ \E u \in items' : TripleOf[pushed'[u]] = TripleOf[k] /\ pushed'[u] \in Knock
  <1>1. \A u \in items : u \in QueueId /\ pushed[u] \in Knock
    BY DEF TypeOK, Unused
  <1>2. CASE /\ \E u \in items : TripleOf[pushed[u]] = TripleOf[k]
             /\ UNCHANGED <<pushed, items>>
    BY <1>1, <1>2, IdsAssumption DEF TypeOK
  <1>3. CASE /\ Unused # {}
             /\ LET u == CHOOSE i \in Unused : TRUE
                IN  pushed' = [pushed EXCEPT ![u] = k] /\ items' = items \cup {u}
    <2>1. PICK u \in Unused : pushed' = [pushed EXCEPT ![u] = k] /\ items' = items \cup {u}
      BY <1>3
    <2>2. u \in QueueId /\ pushed[u] = None /\ k # None
      BY <2>1, IdsAssumption DEF Unused
    <2> QED BY <1>1, <2>1, <2>2, IdsAssumption DEF TypeOK
  <1> QED BY <1>2, <1>3 DEF Push

\* What one step owes: the parts of the invariant but NothingLost, the places
\* kept, and a place for every knock it reports saved.
Owed == /\ (TypeOK /\ PostsTrue /\ ReplayTrue)'
        /\ Keeps
        /\ \A k \in saved' \ saved : Among(k, Places)'

\* Steps that touch neither the queue's ids nor saved keep by monotone places.
LEMMA SubmitOnlineOwes ==
  ASSUME IInv, NEW c \in Call, NEW k \in Knock, SubmitOnline(c, k)
  PROVE  Owed
  <1> USE DEF IInv, SubmitOnline, net, queue, drain, server
  <1>1. TypeOK'
    BY DEF TypeOK, Asked, Sent, Request, Answer, Uuid, Unused
  <1>2. PostsTrue'
    BY DEF TypeOK, PostsTrue, Sent, NoRequest
  <1>3. ReplayTrue' /\ Keeps /\ saved' = saved
    BY DEF ReplayTrue, Keeps, Places
  <1> QED BY <1>1, <1>2, <1>3 DEF Owed

LEMMA HandlePostOwes ==
  ASSUME IInv, NEW c \in Call, HandlePost(c)
  PROVE  Owed
  <1> USE DEF IInv, HandlePost, net, queue, drain, server
  <1>1. PICK a \in Answer : Handle(call[c].uuid, a) /\ call' = [call EXCEPT ![c].answer = a]
    OBVIOUS
  <1>2. call[c] \in Request /\ call[c].uuid \in Knock
    BY DEF TypeOK, PostsTrue, Waiting, NoRequest
  <1>3. rows \subseteq rows' /\ rows' \subseteq Uuid
    BY <1>1, <1>2 DEF Handle, TypeOK, Uuid
  <1>4. TypeOK'
    BY <1>1, <1>2, <1>3 DEF TypeOK, Request, Unused
  <1>5. PostsTrue'
    <2> SUFFICES ASSUME NEW d \in Call
                 PROVE  \/ call'[d] = NoRequest
                        \/ /\ call'[d].uuid \in Knock
                           /\ call'[d].answer \in {"created", "duplicate"} => call'[d].uuid \in rows'
      BY DEF PostsTrue
    <2>1. CASE d = c
      BY <2>1, <1>1, <1>2 DEF Handle, TypeOK, Request, Answer
    <2>2. CASE d # c
      BY <2>2, <1>1, <1>3 DEF PostsTrue, TypeOK
    <2> QED BY <2>1, <2>2
  <1>6. ReplayTrue' /\ Keeps /\ saved' = saved
    BY <1>3 DEF ReplayTrue, Keeps, Places
  <1> QED BY <1>4, <1>5, <1>6 DEF Owed

LEMMA HandleReplayOwes ==
  ASSUME IInv, HandleReplay
  PROVE  Owed
  <1> USE DEF IInv, HandleReplay, net, queue, page
  <1>1. PICK a \in Answer : Handle(sending.uuid, a) /\ sending' = [sending EXCEPT !.answer = a]
    OBVIOUS
  <1>2. sending \in Request /\ sending # NoRequest /\ sending.uuid \in QueueId
    BY DEF TypeOK, ReplayTrue, Waiting, NoRequest
  <1>3. rows \subseteq rows' /\ rows' \subseteq Uuid
    BY <1>1, <1>2 DEF Handle, TypeOK, Uuid
  <1>4. TypeOK'
    BY <1>1, <1>2, <1>3 DEF TypeOK, Request, Unused
  <1>5. PostsTrue'
    BY <1>3 DEF PostsTrue
  <1>6. ReplayTrue'
    <2>1. sending'.uuid = sending.uuid /\ sending'.answer = a
      BY <1>1, <1>2 DEF Request
    <2>2. a \in {"created", "duplicate"} => sending.uuid \in rows'
      BY <1>1 DEF Handle
    <2> QED BY <1>2, <2>1, <2>2 DEF ReplayTrue
  <1>7. Keeps /\ saved' = saved
    BY <1>3 DEF Keeps, Places
  <1> QED BY <1>4, <1>5, <1>6, <1>7 DEF Owed

LEMMA HandleStrayOwes ==
  ASSUME IInv, NEW u \in Uuid, HandleStray(u)
  PROVE  Owed
  <1> USE DEF IInv, HandleStray, net, queue, page, drain
  <1>1. rows \subseteq rows' /\ rows' \subseteq Uuid
    BY DEF Handle, TypeOK
  <1>2. TypeOK'
    BY <1>1 DEF TypeOK, Unused
  <1>3. PostsTrue' /\ ReplayTrue' /\ Keeps /\ saved' = saved
    BY <1>1 DEF PostsTrue, ReplayTrue, Keeps, Places
  <1> QED BY <1>2, <1>3 DEF Owed

LEMMA SubmitOfflineOwes ==
  ASSUME IInv, NEW k \in Knock, SubmitOffline(k)
  PROVE  Owed
  <1> USE DEF IInv, SubmitOffline, net, drain, server
  <1>1. TypeOK'
    BY PushKeeps DEF TypeOK, Asked, Unused
  <1>2. PostsTrue'
    BY DEF PostsTrue
  <1>3. ReplayTrue'
    BY PushKeeps DEF ReplayTrue, TypeOK
  <1>4. Keeps
    BY PushKeeps DEF Keeps, Places
  <1>5. Among(k, Places)'
    BY PushKeeps, IdsAssumption DEF Among, Places, KnockOf
  <1> QED BY <1>1, <1>2, <1>3, <1>4, <1>5 DEF Owed

LEMMA PostSavedOwes ==
  ASSUME IInv, NEW c \in Call, PostSaved(c)
  PROVE  Owed
  <1> USE DEF IInv, PostSaved, net, queue, drain, server
  <1>1. call[c].uuid \in Knock /\ call[c].uuid \in rows
    BY DEF PostsTrue, NoRequest
  <1>2. TypeOK'
    BY <1>1 DEF TypeOK, NoRequest, Request, Unused
  <1>3. PostsTrue' /\ ReplayTrue' /\ Keeps
    BY DEF TypeOK, PostsTrue, ReplayTrue, Keeps, Places
  <1>4. ASSUME NEW k \in saved' \ saved PROVE Among(k, Places)'
    <2>1. k \in Knock /\ k \in Places' /\ KnockOf(k)' = k
      BY <1>1, <1>4, IdsAssumption DEF Places, KnockOf
    <2> QED BY <2>1 DEF Among
  <1> QED BY <1>2, <1>3, <1>4 DEF Owed

LEMMA PostFailedOwes ==
  ASSUME IInv, NEW c \in Call, PostFailed(c)
  PROVE  Owed
  <1> USE DEF IInv, PostFailed, net, queue, drain
  <1>1. stray' \subseteq Uuid
    BY DEF Abandon, TypeOK, PostsTrue, Uuid
  <1>2. TypeOK'
    BY <1>1 DEF TypeOK, NoRequest, Request, Unused
  <1>3. PostsTrue' /\ ReplayTrue' /\ Keeps /\ saved' = saved
    BY DEF TypeOK, PostsTrue, ReplayTrue, Keeps, Places
  <1> QED BY <1>2, <1>3 DEF Owed

LEMMA PostBrokenOwes ==
  ASSUME IInv, NEW c \in Call, PostBroken(c)
  PROVE  Owed
  <1> USE DEF IInv, PostBroken, net, drain
  <1>1. call[c].uuid \in Knock
    BY DEF PostsTrue
  <1>2. stray' \subseteq Uuid
    BY <1>1 DEF Abandon, TypeOK, Uuid
  <1>3. TypeOK'
    BY <1>1, <1>2, PushKeeps DEF TypeOK, NoRequest, Request, Unused
  <1>4. PostsTrue'
    BY DEF TypeOK, PostsTrue
  <1>5. ReplayTrue'
    BY <1>1, PushKeeps DEF ReplayTrue, TypeOK
  <1>6. Keeps
    BY <1>1, PushKeeps DEF Keeps, Places
  <1>7. ASSUME NEW k \in saved' \ saved PROVE Among(k, Places)'
    <2>1. k \in Knock /\ Push(k)
      BY <1>1, <1>7
    <2> QED BY <2>1, PushKeeps, IdsAssumption DEF Among, Places, KnockOf
  <1> QED BY <1>3, <1>4, <1>5, <1>6, <1>7 DEF Owed

\* The drain takes items out of the queue only for a row or a dead letter.
LEMMA DrainOwes ==
  ASSUME IInv, DrainStep
  PROVE  Owed
  <1> USE DEF IInv, net, page, queue, server
  <1>1. CASE DrainStart
    <2>1. TypeOK'
      BY <1>1 DEF DrainStart, TypeOK, Unused
    <2>2. PostsTrue' /\ ReplayTrue' /\ Keeps /\ saved' = saved
      BY <1>1 DEF DrainStart, PostsTrue, ReplayTrue, Keeps, Places
    <2> QED BY <2>1, <2>2 DEF Owed
  <1>2. ASSUME NEW u \in QueueId, DrainSend(u)
        PROVE  Owed
    <2>1. TypeOK'
      BY <1>2 DEF DrainSend, TypeOK, Sent, Request, Uuid, Unused
    <2>2. PostsTrue' /\ Keeps /\ saved' = saved
      BY <1>2 DEF DrainSend, PostsTrue, Keeps, Places
    <2>3. ReplayTrue'
      BY <1>2 DEF DrainSend, ReplayTrue, Sent
    <2> QED BY <2>1, <2>2, <2>3 DEF Owed
  <1>3. CASE DrainRemove
    <2>1. sending.uuid \in rows /\ sending.uuid \in items \ todo
      BY <1>3 DEF DrainRemove, ReplayTrue, NoRequest
    <2>2. TypeOK'
      BY <1>3 DEF DrainRemove, TypeOK, NoRequest, Request, Unused
    <2>3. PostsTrue' /\ ReplayTrue' /\ Keeps /\ saved' = saved
      BY <1>3, <2>1 DEF DrainRemove, PostsTrue, ReplayTrue, Keeps, Places
    <2> QED BY <2>2, <2>3 DEF Owed
  <1>4. CASE MoveToDeadLetter
    <2>1. sending.uuid \in items \ todo
      BY <1>4 DEF MoveToDeadLetter, ReplayTrue, NoRequest
    <2>2. TypeOK'
      BY <1>4 DEF MoveToDeadLetter, TypeOK, NoRequest, Request, Unused
    <2>3. PostsTrue' /\ ReplayTrue' /\ Keeps /\ saved' = saved
      BY <1>4, <2>1 DEF MoveToDeadLetter, PostsTrue, ReplayTrue, Keeps, Places
    <2> QED BY <2>2, <2>3 DEF Owed
  <1>5. CASE DrainBackoff
    <2>1. stray' \subseteq Uuid
      BY <1>5 DEF DrainBackoff, Abandon, TypeOK, ReplayTrue, Uuid
    <2>2. TypeOK'
      BY <1>5, <2>1 DEF DrainBackoff, TypeOK, NoRequest, Request, Unused
    <2>3. PostsTrue' /\ ReplayTrue' /\ Keeps /\ saved' = saved
      BY <1>5 DEF DrainBackoff, PostsTrue, ReplayTrue, Keeps, Places
    <2> QED BY <2>2, <2>3 DEF Owed
  <1>6. CASE DrainEnd
    <2>1. TypeOK'
      BY <1>6 DEF DrainEnd, TypeOK, Unused
    <2>2. PostsTrue' /\ ReplayTrue' /\ Keeps /\ saved' = saved
      BY <1>6 DEF DrainEnd, PostsTrue, ReplayTrue, Keeps, Places
    <2> QED BY <2>1, <2>2 DEF Owed
  <1> QED BY <1>1, <1>2, <1>3, <1>4, <1>5, <1>6 DEF DrainStep

LEMMA QueueStepOwes ==
  ASSUME IInv, NEW u \in QueueId,
         BackoffOver(u) \/ RetryDeadLetter(u) \/ DiscardDeadLetter(u)
  PROVE  Owed
  <1> USE DEF IInv, BackoffOver, RetryDeadLetter, DiscardDeadLetter, net, page, drain, server
  <1>1. TypeOK'
    BY DEF TypeOK, Unused
  <1>2. PostsTrue' /\ ReplayTrue'
    BY DEF PostsTrue, ReplayTrue
  <1>3. Keeps /\ saved' = saved
    BY DEF Keeps, Places
  <1> QED BY <1>1, <1>2, <1>3 DEF Owed

LEMMA BrowserOwes ==
  ASSUME IInv, Connectivity \/ Settle \/ UNCHANGED vars
  PROVE  Owed
  <1> USE DEF IInv, Connectivity, Settle, vars, net, page, queue, drain, server
  <1>1. TypeOK'
    BY DEF TypeOK, Unused
  <1>2. PostsTrue' /\ ReplayTrue' /\ Keeps /\ saved' = saved
    BY DEF PostsTrue, ReplayTrue, Keeps, Places
  <1> QED BY <1>1, <1>2 DEF Owed

LEMMA ReloadOwes ==
  ASSUME IInv, Reload
  PROVE  Owed
  <1> USE DEF IInv, Reload, net, queue
  <1>1. stray' \subseteq Uuid
    <2>1. \A r \in {sending} \cup {call[c] : c \in Call} : Waiting(r) => r.uuid \in Uuid
      BY DEF TypeOK, PostsTrue, ReplayTrue, Waiting, NoRequest, Uuid
    <2> QED BY <2>1 DEF Abandon, TypeOK
  <1>2. TypeOK'
    BY <1>1 DEF TypeOK, NoRequest, Request, Unused
  <1>3. PostsTrue' /\ ReplayTrue' /\ Keeps /\ saved' = saved
    BY DEF PostsTrue, ReplayTrue, Keeps, Places
  <1> QED BY <1>2, <1>3 DEF Owed

LEMMA StepInv == IInv /\ [Next]_vars => IInv'
  <1> SUFFICES ASSUME IInv, [Next]_vars PROVE IInv'
    OBVIOUS
  <1>1. Owed
    BY SubmitOnlineOwes, HandlePostOwes, PostSavedOwes, PostFailedOwes, PostBrokenOwes,
       SubmitOfflineOwes, DrainOwes, HandleReplayOwes, QueueStepOwes, HandleStrayOwes,
       BrowserOwes, ReloadOwes DEF Next
  <1>2. NothingLost'
    <2> SUFFICES ASSUME NEW k \in saved' PROVE Among(k, Places)'
      BY DEF NothingLost
    <2>1. CASE k \in saved
      BY <2>1, <1>1, AmongKept DEF IInv, NothingLost, Owed
    <2>2. CASE k \notin saved
      BY <2>2, <1>1 DEF Owed
    <2> QED BY <2>1, <2>2
  <1> QED BY <1>1, <1>2 DEF IInv, Owed

\* The state keeps its types: an item, a dead letter and a discarded one always
\* have the knock they were pushed for, and only queued items back off.
THEOREM SyncTypeCorrect == Spec => []TypeOK
  <1> QED BY InitInv, StepInv, PTL DEF Spec, IInv

\* No outcome reported saved is ever lost (submitDoorKnock, push, drainQueue,
\* moveToDeadLetter, retryDeadLetter).
THEOREM SavedIsNeverLost == Spec => []NothingLost
  <1> QED BY InitInv, StepInv, PTL DEF Spec, IInv

\* A drain never replays a knock that has left the queue (drainQueue's snapshot).
THEOREM SnapshotNeverStale == Spec => []SnapshotIsQueued
  <1>1. IInv => SnapshotIsQueued
    BY DEF IInv, ReplayTrue, SnapshotIsQueued
  <1> QED BY <1>1, InitInv, StepInv, PTL DEF Spec
==============================================================================
