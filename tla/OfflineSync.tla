---------------------------- MODULE OfflineSync ----------------------------
(***************************************************************************)
(* Door knocks on their way from a volunteer's phone to the server: the    *)
(* POST of submitDoorKnock with its offline fallback, the persisted queue  *)
(* with its dead letter, the drain that replays it, and the endpoint that  *)
(* recognises a replay by its client_uuid.                                 *)
(***************************************************************************)

CONSTANTS Knock,      \* outcomes tapped; the tap's client_uuid is the knock itself
          Triple,     \* (walk_list_entry_id, voter_id, result_code)
          TripleOf,   \* the triple each knock carries
          QueueId,    \* ids push() can draw: the bound on pushes
          Call,       \* bound on the POSTs awaited at a time
          None

ASSUME IdsAssumption == /\ TripleOf \in [Knock -> Triple]
                        /\ Knock \cap QueueId = {}
                        /\ None \notin Knock \cup QueueId

VARIABLES
    online,     \* navigator.onLine
    healthy,    \* from here on the network, the server and the session hold
    tapped,     \* knocks submitted at least once
    saved,      \* knocks the volunteer was told are saved (submitDoorKnock gave true)
    call,       \* the POST each call awaits
    last,       \* lastDoorKnockPayloadRef
    toast,      \* "Couldn't save - tap to retry" is on screen
    pushed,     \* the knock queued under each id
    items,      \* the queue, persisted
    backoff,    \* items whose nextAttemptAt has not passed
    dead,       \* the dead letter, persisted, by original id
    discarded,  \* dead letters the volunteer dropped (history)
    syncing,    \* isSyncing
    todo,       \* rest of the drain's snapshot
    sending,    \* the drain's replayMutation
    rows,       \* client_uuids of the committed interactions
    stray       \* requests nobody awaits that the server may still get

net    == <<online, healthy>>
page   == <<call, last, toast>>
queue  == <<pushed, items, backoff, dead, discarded>>
drain  == <<syncing, todo, sending>>
server == <<rows, stray>>
vars   == <<net, tapped, saved, page, queue, drain, server>>

Uuid    == Knock \cup QueueId
Answer  == {"created", "duplicate", "refused"}
Request == [uuid : Uuid \cup {None}, answer : Answer \cup {"none"}]

NoRequest  == [uuid |-> None, answer |-> "none"]
Sent(u)    == [uuid |-> u, answer |-> "none"]
Waiting(r) == r.uuid # None /\ r.answer = "none"
Unused     == {u \in QueueId : pushed[u] = None}
KnockOf(u) == IF u \in QueueId THEN pushed[u] ELSE u

TypeOK ==
    /\ online \in BOOLEAN /\ healthy \in BOOLEAN
    /\ tapped \subseteq Knock /\ saved \subseteq Knock
    /\ call \in [Call -> Request]
    /\ last \in Knock \cup {None} /\ toast \in BOOLEAN
    /\ pushed \in [QueueId -> Knock \cup {None}]
    /\ items \subseteq QueueId \ Unused /\ backoff \subseteq items
    /\ dead \subseteq QueueId \ Unused /\ discarded \subseteq QueueId \ Unused
    /\ syncing \in BOOLEAN /\ todo \subseteq QueueId
    /\ sending \in Request
    /\ rows \subseteq Uuid /\ stray \subseteq Uuid

Init ==
    /\ online \in BOOLEAN /\ healthy = FALSE
    /\ tapped = {} /\ saved = {}
    /\ call = [c \in Call |-> NoRequest] /\ last = None /\ toast = FALSE
    /\ pushed = [u \in QueueId |-> None]
    /\ items = {} /\ backoff = {} /\ dead = {} /\ discarded = {}
    /\ syncing = FALSE /\ todo = {} /\ sending = NoRequest
    /\ rows = {} /\ stray = {}

----------------------------------------------------------------------------
(* The server.                                                             *)

\* The endpoint handles the request with uuid u and answers a: the 409 comes
\* from the unique index on client_uuid, any other 4xx leaves no row. A 5xx is,
\* to its caller, a lost answer, and maybe a lost request.
Handle(u, a) ==
    \/ a = "created" /\ u \notin rows /\ rows' = rows \cup {u}
    \/ a = "duplicate" /\ u \in rows /\ UNCHANGED rows
    \/ a = "refused" /\ UNCHANGED rows

HandlePost(c) ==
    /\ Waiting(call[c])
    /\ \E a \in Answer : /\ Handle(call[c].uuid, a)
                         /\ call' = [call EXCEPT ![c].answer = a]
    /\ UNCHANGED <<net, tapped, saved, last, toast, queue, drain, stray>>

HandleReplay ==
    /\ Waiting(sending)
    /\ \E a \in Answer : Handle(sending.uuid, a) /\ sending' = [sending EXCEPT !.answer = a]
    /\ UNCHANGED <<net, tapped, saved, page, queue, syncing, todo, stray>>

\* A request whose caller has gone is handled after all.
HandleStray(u) ==
    /\ u \in stray
    /\ \E a \in Answer : Handle(u, a)
    /\ stray' = stray \ {u}
    /\ UNCHANGED <<net, tapped, saved, page, queue, drain>>

\* Whoever awaited the requests R gives up on them.
Abandon(R) == stray' = stray \cup {r.uuid : r \in {q \in R : Waiting(q)}}

----------------------------------------------------------------------------
(* submitDoorKnock.                                                        *)

\* A new tap, or the Retry action of the toast, which submits whatever payload
\* was submitted last.
Asked(k) ==
    \/ k \in Knock \ tapped /\ tapped' = tapped \cup {k} /\ UNCHANGED toast
    \/ toast /\ k = last /\ toast' = FALSE /\ UNCHANGED tapped

\* Mutant: the item is queued without its payload.
PushEmpty(k) ==
    /\ Unused # {}
    /\ items' = items \cup {CHOOSE i \in Unused : TRUE}
    /\ UNCHANGED pushed

\* Adds k under an id of its own, unless an item with its triple is queued.
Push(k) ==
    \/ /\ \E u \in items : TripleOf[pushed[u]] = TripleOf[k]
       /\ UNCHANGED <<pushed, items>>
    \/ /\ \A u \in items : TripleOf[pushed[u]] # TripleOf[k]
       /\ Unused # {}
       /\ LET u == CHOOSE i \in Unused : TRUE
          IN  pushed' = [pushed EXCEPT ![u] = k] /\ items' = items \cup {u}

SubmitOnline(c, k) ==
    /\ online /\ call[c] = NoRequest
    /\ Asked(k)
    /\ last' = k
    /\ call' = [call EXCEPT ![c] = Sent(k)]
    /\ UNCHANGED <<net, saved, queue, drain, server>>

SubmitOffline(k) ==
    /\ ~online
    /\ Asked(k)
    /\ last' = k
    /\ Push(k)
    /\ saved' = saved \cup {k}
    /\ UNCHANGED <<net, call, backoff, dead, discarded, drain, server>>

PostSaved(c) ==
    /\ call[c].answer = "created"
    /\ saved' = saved \cup {call[c].uuid}
    /\ call' = [call EXCEPT ![c] = NoRequest]
    /\ UNCHANGED <<net, tapped, last, toast, queue, drain, server>>

\* Every error but a TypeError raises the toast: an error status, the 409
\* included, or the client's own timeout, after which the request may arrive.
PostFailed(c) ==
    /\ call[c] # NoRequest
    /\ call[c].answer \in {"duplicate", "refused"} \/ ~healthy
    /\ toast' = TRUE
    /\ Abandon({call[c]})
    /\ call' = [call EXCEPT ![c] = NoRequest]
    /\ UNCHANGED <<net, tapped, saved, last, queue, drain, rows>>

\* fetch fails with a TypeError, before or after the server has the request.
PostBroken(c) ==
    /\ ~healthy /\ call[c] # NoRequest
    /\ Push(call[c].uuid)
    /\ saved' = saved \cup {call[c].uuid}
    /\ Abandon({call[c]})
    /\ call' = [call EXCEPT ![c] = NoRequest]
    /\ UNCHANGED <<net, tapped, last, toast, backoff, dead, discarded, drain, rows>>

----------------------------------------------------------------------------
(* drainQueue.                                                             *)

DrainStart ==
    /\ items # {} /\ ~syncing /\ online
    /\ syncing' = TRUE
    /\ todo' = items \ backoff
    /\ UNCHANGED <<net, tapped, saved, page, queue, sending, server>>

DrainSend(u) ==
    /\ u \in todo /\ sending = NoRequest
    /\ sending' = Sent(u)
    /\ todo' = todo \ {u}
    /\ UNCHANGED <<net, tapped, saved, page, queue, syncing, server>>

DrainRemove ==
    /\ sending.answer \in {"created", "duplicate"}
    /\ items' = items \ {sending.uuid}
    /\ backoff' = backoff \ {sending.uuid}
    /\ sending' = NoRequest
    /\ UNCHANGED <<net, tapped, saved, page, pushed, dead, discarded, syncing, todo, server>>

\* Mutant: a refused item is dropped, as it was before there was a dead letter.
DropRefused ==
    /\ sending.answer = "refused"
    /\ items' = items \ {sending.uuid}
    /\ backoff' = backoff \ {sending.uuid}
    /\ sending' = NoRequest
    /\ UNCHANGED <<net, tapped, saved, page, pushed, dead, discarded, syncing, todo, server>>

MoveToDeadLetter ==
    /\ sending.answer = "refused"
    /\ items' = items \ {sending.uuid}
    /\ backoff' = backoff \ {sending.uuid}
    /\ dead' = dead \cup ({sending.uuid} \cap items)
    /\ sending' = NoRequest
    /\ UNCHANGED <<net, tapped, saved, page, pushed, discarded, syncing, todo, server>>

\* Network errors, timeouts, 5xx and the errors without a response (401, 403).
DrainBackoff ==
    /\ ~healthy /\ sending # NoRequest
    /\ backoff' = backoff \cup ({sending.uuid} \cap items)
    /\ Abandon({sending})
    /\ sending' = NoRequest
    /\ UNCHANGED <<net, tapped, saved, page, pushed, items, dead, discarded, syncing, todo, rows>>

\* Mutant: the lock is released only when there is nothing left to report.
DrainEndCaughtUp ==
    /\ syncing /\ todo = {} /\ sending = NoRequest /\ dead = {}
    /\ syncing' = FALSE
    /\ UNCHANGED <<net, tapped, saved, page, queue, todo, sending, server>>

DrainEnd ==
    /\ syncing /\ todo = {} /\ sending = NoRequest
    /\ syncing' = FALSE
    /\ UNCHANGED <<net, tapped, saved, page, queue, todo, sending, server>>

DrainStep == DrainStart \/ (\E u \in QueueId : DrainSend(u)) \/ DrainRemove
             \/ MoveToDeadLetter \/ DrainBackoff \/ DrainEnd

\* nextAttemptAt passes.
BackoffOver(u) ==
    /\ u \in backoff
    /\ backoff' = backoff \ {u}
    /\ UNCHANGED <<net, tapped, saved, page, pushed, items, dead, discarded, drain, server>>

RetryDeadLetter(u) ==
    /\ u \in dead
    /\ dead' = dead \ {u}
    /\ items' = items \cup {u}
    /\ UNCHANGED <<net, tapped, saved, page, pushed, backoff, discarded, drain, server>>

DiscardDeadLetter(u) ==
    /\ u \in dead
    /\ dead' = dead \ {u}
    /\ discarded' = discarded \cup {u}
    /\ UNCHANGED <<net, tapped, saved, page, pushed, items, backoff, drain, server>>

----------------------------------------------------------------------------
(* The browser.                                                            *)

Connectivity ==
    /\ ~healthy
    /\ online' = ~online
    /\ UNCHANGED <<healthy, tapped, saved, page, queue, drain, server>>

Settle ==
    /\ ~healthy
    /\ healthy' = TRUE /\ online' = TRUE
    /\ UNCHANGED <<tapped, saved, page, queue, drain, server>>

\* The page is reloaded: only what partialize() keeps is there afterwards.
Reload ==
    /\ ~healthy
    /\ call' = [c \in Call |-> NoRequest] /\ last' = None /\ toast' = FALSE
    /\ syncing' = FALSE /\ todo' = {} /\ sending' = NoRequest
    /\ Abandon({sending} \cup {call[c] : c \in Call})
    /\ UNCHANGED <<net, tapped, saved, queue, rows>>

Next ==
    \/ \E c \in Call : \/ \E k \in Knock : SubmitOnline(c, k)
                       \/ HandlePost(c) \/ PostSaved(c) \/ PostFailed(c) \/ PostBroken(c)
    \/ \E k \in Knock : SubmitOffline(k)
    \/ DrainStep \/ HandleReplay
    \/ \E u \in QueueId : BackoffOver(u) \/ RetryDeadLetter(u) \/ DiscardDeadLetter(u)
    \/ \E u \in Uuid : HandleStray(u)
    \/ Connectivity \/ Settle \/ Reload

Spec == Init /\ [][Next]_vars

\* The timers of useSyncEngine keep calling drainQueue, time passes, and the
\* server answers; nothing is assumed of the volunteer or of the network.
FairSpec == /\ Spec
            /\ WF_vars(DrainStep) /\ WF_vars(HandleReplay)
            /\ \A u \in QueueId : WF_vars(BackoffOver(u))

----------------------------------------------------------------------------
(* Properties.                                                             *)

\* Where a knock can be: recorded, queued, set aside, or dropped by the volunteer.
Places == rows \cup items \cup dead \cup discarded

\* Some knock with the triple of k is under one of the uuids in U.
Among(k, U) == \E u \in U : /\ KnockOf(u) \in Knock
                            /\ TripleOf[KnockOf(u)] = TripleOf[k]

\* An outcome the volunteer was told is saved is recorded on the server, or
\* still queued or in the dead letter for the volunteer to see, whatever
\* answers, reloads, retries and the double-tap guard did in between
\* (submitDoorKnock's "return true").
NothingLost == \A k \in saved : Among(k, Places)

\* What the drain awaits, and what is left of its snapshot, is still in the
\* queue: a drain works on a copy taken before its first await, and no other
\* handler makes it replay a knock that has left the queue.
SnapshotIsQueued ==
    /\ todo \subseteq items
    /\ sending # NoRequest => sending.uuid \in items

\* Once connection, server and session hold, a saved outcome reaches the server
\* or is set aside for the volunteer: no item stays in the queue for ever
\* (endSync in the finally block, the timers, the backoff).
KnockArrives ==
    \A k \in Knock : (healthy /\ k \in saved) ~> Among(k, rows \cup dead \cup discarded)

\* One tap makes at most one row: "the online mutation AND the offline fallback
\* share the same UUID" (useCanvassingWizard.ts, submitDoorKnock).
AtMostOnce == \A u, v \in rows : KnockOf(u) = KnockOf(v) => u = v
=============================================================================
