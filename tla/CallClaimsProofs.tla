-------------------------- MODULE CallClaimsProofs --------------------------
(***************************************************************************)
(* For any callers, voters, numbers and requests: a voter is on one        *)
(* caller's screen, stays done when done, is not tried too often, and is   *)
(* never claimed by nobody.  All of it rests on two things: what a claim   *)
(* has selected stays as it was until it commits, since it is locked, and  *)
(* any other write that finds the row as it was read finds it in progress. *)
(***************************************************************************)
EXTENDS CallClaims, FiniteSetTheorems, TLAPS

RequestRow == [op: {"none", "claim", "record", "release", "reassign"},
               who: Caller \cup {None}, entry: Entry \cup {None},
               arg: Caller \cup {None}, view: EntryRow,
               stale: SUBSET Entry]

-----------------------------------------------------------------------------
(* The invariant *)

\* What a request in flight says, by its kind.
Says(r) ==
  /\ r.op = "claim" => r.who \in Caller
  /\ r.op \in {"record", "release", "reassign"} => r.entry \in Entry
  /\ r.op = "record" => r.who \in Caller
  /\ r.op = "reassign" => r.arg \in Caller
RequestsSay == \A r \in Request : Says(req[r])

\* The rows a claim has selected and found stale, which it keeps locked.
Locked(r) == {e \in Entry : req[r].op = "claim" /\ (e = req[r].entry \/ e \in req[r].stale)}

\* No two claims lock the same row.
ClaimsApart == \A r, s \in Request : r # s => Locked(r) \cap Locked(s) = {}

\* What a claim has locked is as it found it.
ClaimsHold ==
  \A r \in Request : req[r].op = "claim" =>
    /\ \A e \in req[r].stale : Stale(entry[e])
    /\ req[r].entry # None =>
         req[r].entry \in req[r].stale \/ entry[req[r].entry].status = "AVAILABLE"

\* A voter on a screen is in progress as long as nobody else has ended the claim.
ScreensInProgress ==
  \A c \in Caller : screen[c] # None /\ screen[c] \notin taken
    => entry[screen[c]].status = "IN_PROGRESS"

\* The tries of one voter.  Of two numbers the one saved is the only one that can
\* have been recorded as wrong without ending the entry.
Tries(row, bad) ==
  /\ row.attempts <= MaxAttempts
  /\ row.status \notin Done => row.attempts < MaxAttempts
  /\ Cardinality(Phone) <= 2 /\ row.status \notin Done =>
       /\ bad # Phone
       /\ bad \subseteq row.tried
       /\ \A p, q \in row.tried : p = q

\* One entry, with the numbers recorded as wrong and whether its voter was reached.
Good(row, bad, hit) ==
  /\ Tries(row, bad)
  /\ hit => row.status \in {"COMPLETED", "TERMINAL"}
  /\ row.status = "IN_PROGRESS" => row.by # None /\ row.since # "null"
RowsGood == \A e \in Entry \ late : Good(entry[e], wrong[e], e \in reached)

IInv == /\ TypeOK /\ RequestsSay /\ ClaimsApart /\ ClaimsHold /\ ScreensInProgress
        /\ OneCallerPerVoter /\ RowsGood

-----------------------------------------------------------------------------
(* Types *)

Typed == /\ entry \in [Entry -> EntryRow]
         /\ open \in BOOLEAN
         /\ session \in {"ACTIVE", "PAUSED", "COMPLETED"}
         /\ listed \subseteq Caller
         /\ screen \in [Caller -> Entry \cup {None}]
         /\ left \in [results: Nat, helps: Nat]
         /\ taken \subseteq Entry /\ late \subseteq Entry /\ reached \subseteq Entry
         /\ wrong \in [Entry -> SUBSET Phone]

\* The type invariant, with the requests apart.
LEMMA TypeParts == TypeOK <=> Typed /\ req \in [Request -> RequestRow]
  BY DEF TypeOK, Typed, RequestRow

\* None is nobody.
LEMMA NoneApart == None \notin Caller /\ None \notin Entry /\ None \notin Phone
  BY CallAssumption

\* Rows that were never claimed, released, read and written keep their type.
LEMMA RowsTyped ==
  ASSUME NEW row \in EntryRow
  PROVE  /\ Released(row) \in EntryRow /\ Read(row) \in EntryRow
         /\ NewEntry \in EntryRow
         /\ [row EXCEPT !.since = "stale"] \in EntryRow
         /\ \A c \in Caller : [row EXCEPT !.status = "IN_PROGRESS", !.by = c, !.since = "fresh"]
                                \in EntryRow
         /\ \A c \in Caller \cup {None} : [row EXCEPT !.by = c, !.since = "fresh"] \in EntryRow
         /\ \A v, w \in EntryRow : Write(row, v, w) \in EntryRow
  <1>1. Released(row) \in EntryRow /\ NewEntry \in EntryRow
    BY DEF Released, EntryRow, Status, Done, NewEntry
  <1>2. Read(row) \in EntryRow /\ [row EXCEPT !.since = "stale"] \in EntryRow
    BY DEF Read, EntryRow
  <1>3. \A c \in Caller : [row EXCEPT !.status = "IN_PROGRESS", !.by = c, !.since = "fresh"]
                            \in EntryRow
    BY DEF EntryRow, Status
  <1>4. \A c \in Caller \cup {None} : [row EXCEPT !.by = c, !.since = "fresh"] \in EntryRow
    BY DEF EntryRow
  <1>5. ASSUME NEW v \in EntryRow, NEW w \in EntryRow
        PROVE  Write(row, v, w) \in EntryRow
    BY DEF Write, Set, EntryRow
  <1> QED BY <1>1, <1>2, <1>3, <1>4, <1>5

\* So does what a result makes of a row.
LEMMA AfterTyped ==
  ASSUME NEW view \in EntryRow, NEW res \in Result, NEW p \in Phone
  PROVE  After(view, res, p) \in EntryRow
  <1>1. TriedWritten(view, p) \in SUBSET Phone
    BY DEF TriedWritten, EntryRow
  <1>2. view.attempts \in Nat /\ view.attempts + 1 \in Nat
    BY DEF EntryRow
  <1>3. Recycled(view.attempts + 1) \in Status
    BY DEF Recycled, Status, Done
  <1>4. CASE res = "answered"
    <2>1. After(view, res, p) = [view EXCEPT !.status = "COMPLETED", !.attempts = @ + 1]
      BY <1>4 DEF After
    <2> QED BY <1>2, <2>1 DEF EntryRow, Status, Done
  <1>5. CASE res = "person"
    <2>1. After(view, res, p) = [view EXCEPT !.status = "TERMINAL"]
      BY <1>5 DEF After
    <2> QED BY <2>1 DEF EntryRow, Status, Done
  <1>6. CASE res = "number"
    <2>1. After(view, res, p) =
            [view EXCEPT !.status = IF view.tried \cup {p} = Phone THEN "TERMINAL" ELSE "AVAILABLE",
                         !.tried = TriedWritten(view, p)]
      BY <1>6 DEF After
    <2> QED BY <1>1, <2>1 DEF EntryRow, Status, Done
  <1>7. CASE res = "recycle"
    <2>1. After(view, res, p) =
            [view EXCEPT !.status = Recycled(view.attempts + 1), !.attempts = @ + 1,
                         !.tried = TriedWritten(view, p)]
      BY <1>7 DEF After
    <2> QED BY <1>1, <1>2, <1>3, <2>1 DEF EntryRow
  <1> QED BY <1>4, <1>5, <1>6, <1>7 DEF Result

\* Every step keeps the types.
LEMMA TypeStep ==
  ASSUME TypeOK, RequestsSay, [Next]_vars
  PROVE  TypeOK'
  <1> DEFINE Requests == [Request -> RequestRow]
  <1>1. Typed /\ req \in Requests
    BY TypeParts
  <1>2. TypeOK' <=> Typed' /\ req' \in Requests
    BY DEF TypeOK, Typed, RequestRow
  <1>3. CASE UNCHANGED vars
    BY <1>1, <1>2, <1>3 DEF vars, Typed
  <1>4. Idle \in RequestRow
    BY RowsTyped DEF Idle, RequestRow, NewEntry, EntryRow, Status
  <1>5. \A r \in Request : Finish(r) => req' \in Requests
    BY <1>1, <1>4 DEF Finish
  <1>6. \A E : Takes(E) /\ E \subseteq Entry => taken' \subseteq Entry
    BY <1>1 DEF Takes, Typed
  <1>7. Helped => left' \in [results: Nat, helps: Nat]
    BY <1>1 DEF Helped, Typed
  <1>8. \A c \in Caller : \A e : Answered(c, e) => screen' \in [Caller -> Entry \cup {None}]
    BY <1>1 DEF Answered, Typed
  <1>9. \A E : ReleaseAll(E) /\ E \subseteq Entry =>
                 entry' \in [Entry -> EntryRow] /\ taken' \subseteq Entry
    <2>1. \A e \in Entry : Released(entry[e]) \in EntryRow /\ entry[e] \in EntryRow
      BY <1>1, RowsTyped DEF Typed
    <2> QED BY <1>6, <2>1 DEF ReleaseAll
  <1>10. ASSUME NEW r \in Request, NEW c \in Caller, ClaimSelect(r, c) PROVE TypeOK'
    <2>1. PICK e \in Entry \cup {None} :
            req' = [req EXCEPT ![r] = [Idle EXCEPT !.op = "claim", !.who = c, !.entry = e,
                                                   !.stale = {d \in Entry : Stale(entry[d])}]]
      BY <1>10 DEF ClaimSelect
    <2>2. [Idle EXCEPT !.op = "claim", !.who = c, !.entry = e,
                       !.stale = {d \in Entry : Stale(entry[d])}] \in RequestRow
      BY <1>4 DEF RequestRow
    <2>3. req' \in Requests
      BY <1>1, <2>1, <2>2
    <2> QED BY <1>1, <1>2, <1>10, <2>3 DEF ClaimSelect, Typed, bank, outcomes
  <1>11. ASSUME NEW r \in Request, ClaimCommit(r) PROVE TypeOK'
    <2>1. req[r].who \in Caller /\ req[r].entry \in Entry \cup {None} /\ req[r].stale \subseteq Entry
      BY <1>1, <1>11 DEF ClaimCommit, RequestsSay, Says, RequestRow
    <2>2. entry' \in [Entry -> EntryRow]
      BY <1>1, <1>11, <2>1, RowsTyped DEF ClaimCommit, Typed
    <2>3. screen' \in [Caller -> Entry \cup {None}]
      BY <1>1, <1>11, <2>1 DEF ClaimCommit, Typed
    <2>4. req' \in Requests /\ taken' \subseteq Entry
      BY <1>5, <1>6, <1>11, <2>1 DEF ClaimCommit
    <2> QED BY <1>1, <1>2, <1>11, <2>2, <2>3, <2>4 DEF ClaimCommit, Typed, bank, outcomes
  <1> DEFINE Row(op, c, e, a) == [op |-> op, who |-> c, entry |-> e, arg |-> a,
                                  view |-> Read(entry[e]), stale |-> {}]
  <1>12. \A op \in {"record", "release", "reassign"}, c, a \in Caller \cup {None}, e \in Entry :
           Row(op, c, e, a) \in RequestRow
    <2>1. \A e \in Entry : Read(entry[e]) \in EntryRow
      BY <1>1, RowsTyped DEF Typed
    <2> QED BY <2>1 DEF RequestRow
  <1>13. ASSUME NEW r \in Request, NEW c \in Caller, RecordRead(r, c) PROVE TypeOK'
    <2>1. screen[c] \in Entry
      BY <1>1, <1>13 DEF RecordRead, Typed
    <2>2. req' = [req EXCEPT ![r] = Row("record", c, screen[c], None)]
      BY <1>13 DEF RecordRead
    <2>3. req' \in Requests
      BY <1>1, <1>12, <2>1, <2>2
    <2>4. left' \in [results: Nat, helps: Nat]
      BY <1>1, <1>13 DEF RecordRead, Typed
    <2> QED BY <1>1, <1>2, <1>13, <2>3, <2>4 DEF RecordRead, Typed, bank, outcomes
  <1>14. ASSUME NEW r \in Request, RecordWrite(r) PROVE TypeOK'
    <2>1. PICK res \in Result, p \in Phone :
            /\ entry' = [entry EXCEPT ![req[r].entry] =
                           Write(@, req[r].view, After(req[r].view, res, p))]
            /\ reached' = IF res \in {"answered", "person"} THEN reached \cup {req[r].entry}
                          ELSE reached
            /\ wrong' = IF res = "number" THEN [wrong EXCEPT ![req[r].entry] = @ \cup {p}]
                        ELSE wrong
      BY <1>14 DEF RecordWrite
    <2>2. req[r].who \in Caller /\ req[r].entry \in Entry /\ req[r].view \in EntryRow
      BY <1>1, <1>14 DEF RecordWrite, RequestsSay, Says, RequestRow
    <2>3. entry[req[r].entry] \in EntryRow /\ After(req[r].view, res, p) \in EntryRow
      BY <1>1, <2>2, AfterTyped DEF Typed
    <2>4. entry' \in [Entry -> EntryRow]
      BY <1>1, <2>1, <2>2, <2>3, RowsTyped DEF Typed
    <2>5. reached' \subseteq Entry /\ wrong' \in [Entry -> SUBSET Phone]
      BY <1>1, <2>1, <2>2 DEF Typed
    <2>6. late' \subseteq Entry /\ taken' \subseteq Entry /\ req' \in Requests
      BY <1>1, <1>5, <1>6, <1>14, <2>2 DEF RecordWrite, Typed
    <2>7. screen' \in [Caller -> Entry \cup {None}]
      BY <1>8, <1>14, <2>2 DEF RecordWrite
    <2> QED BY <1>1, <1>2, <1>14, <2>4, <2>5, <2>6, <2>7 DEF RecordWrite, Typed, bank
  <1>15. ASSUME NEW r \in Request, ReleaseRead(r) PROVE TypeOK'
    <2>1. CASE \E c \in Caller :
                 /\ screen[c] # None
                 /\ req' = [req EXCEPT ![r] = Row("release", c, screen[c], None)]
                 /\ UNCHANGED left
      <3>1. PICK c \in Caller : /\ screen[c] # None
                                /\ req' = [req EXCEPT ![r] = Row("release", c, screen[c], None)]
                                /\ UNCHANGED left
        BY <2>1
      <3>2. screen[c] \in Entry
        BY <1>1, <3>1 DEF Typed
      <3>3. req' \in Requests
        BY <1>1, <1>12, <3>1, <3>2
      <3> QED BY <1>1, <1>2, <1>15, <3>1, <3>3 DEF ReleaseRead, Typed, bank, outcomes
    <2>2. CASE Helped /\ \E e \in Entry : req' = [req EXCEPT ![r] = Row("release", None, e, None)]
      <3>1. req' \in Requests
        BY <1>1, <1>12, <2>2
      <3> QED BY <1>1, <1>2, <1>7, <1>15, <2>2, <3>1 DEF ReleaseRead, Typed, bank, outcomes
    <2> QED BY <1>15, <2>1, <2>2 DEF ReleaseRead
  <1>16. ASSUME NEW r \in Request, ReleaseWrite(r) PROVE TypeOK'
    <2>1. /\ req[r].who \in Caller \cup {None} /\ req[r].entry \in Entry
          /\ req[r].view \in EntryRow
      BY <1>1, <1>16 DEF ReleaseWrite, RequestsSay, Says, RequestRow
    <2>2. entry[req[r].entry] \in EntryRow /\ Released(req[r].view) \in EntryRow
      BY <1>1, <2>1, RowsTyped DEF Typed
    <2>3. entry' \in [Entry -> EntryRow]
      BY <1>1, <1>16, <2>1, <2>2, RowsTyped DEF ReleaseWrite, Typed
    <2>4. late' \subseteq Entry /\ taken' \subseteq Entry /\ req' \in Requests
      BY <1>1, <1>5, <1>6, <1>16, <2>1 DEF ReleaseWrite, Typed
    <2>5. screen' \in [Caller -> Entry \cup {None}]
      BY <1>1, <1>8, <1>16, <2>1 DEF ReleaseWrite, Typed
    <2> QED BY <1>1, <1>2, <1>16, <2>3, <2>4, <2>5 DEF ReleaseWrite, Typed, bank, outcomes
  <1>17. ASSUME NEW r \in Request, ReassignRead(r) PROVE TypeOK'
    <2>1. PICK e \in Entry, c \in Caller : req' = [req EXCEPT ![r] = Row("reassign", None, e, c)]
      BY <1>17 DEF ReassignRead
    <2>2. req' \in Requests
      BY <1>1, <1>12, <2>1
    <2> QED BY <1>1, <1>2, <1>7, <1>17, <2>2 DEF ReassignRead, Typed, bank, outcomes
  <1>18. ASSUME NEW r \in Request, ReassignWrite(r) PROVE TypeOK'
    <2>1. req[r].entry \in Entry /\ req[r].arg \in Caller
      BY <1>18 DEF ReassignWrite, RequestsSay, Says
    <2>2. Set(entry[req[r].entry].by, req[r].view.by, req[r].arg) \in Caller \cup {None}
      BY <1>1, <2>1 DEF Set, Typed, EntryRow
    <2>3. entry' \in [Entry -> EntryRow]
      BY <1>1, <1>18, <2>1, <2>2 DEF ReassignWrite, Typed, EntryRow
    <2>4. taken' \subseteq Entry /\ req' \in Requests
      BY <1>5, <1>6, <1>18, <2>1 DEF ReassignWrite
    <2> QED BY <1>1, <1>2, <1>18, <2>3, <2>4 DEF ReassignWrite, Typed, bank, outcomes
  <1>19. ASSUME NEW r \in Request, Rollback(r) PROVE TypeOK'
    BY <1>1, <1>2, <1>5, <1>19 DEF Rollback, Typed, bank, outcomes
  <1>20. ASSUME NEW c \in Caller, AddCaller(c) \/ CheckOut(c) \/ RemoveCaller(c) \/ Reload(c)
         PROVE  TypeOK'
    <2>1. CallersEntries(c) \subseteq Entry
      BY DEF CallersEntries
    <2>2. CASE AddCaller(c)
      BY <1>1, <1>2, <2>2 DEF AddCaller, Typed, outcomes
    <2>3. CASE CheckOut(c)
      BY <1>1, <1>2, <1>9, <2>1, <2>3 DEF CheckOut, Typed, bank, outcomes
    <2>4. CASE RemoveCaller(c)
      BY <1>1, <1>2, <1>7, <1>9, <2>1, <2>4 DEF RemoveCaller, Typed, outcomes
    <2>5. CASE Reload(c)
      BY <1>1, <1>2, <1>6, <2>5 DEF Reload, Typed, bank, outcomes
    <2> QED BY <1>20, <2>2, <2>3, <2>4, <2>5
  <1>21. ASSUME NEW e \in Entry, ClaimTimesOut(e) PROVE TypeOK'
    <2>1. entry' \in [Entry -> EntryRow]
      BY <1>1, <1>21, RowsTyped DEF ClaimTimesOut, Typed
    <2> QED BY <1>1, <1>2, <1>21, <2>1 DEF ClaimTimesOut, Typed, bank, outcomes
  <1>22. CASE UpdateSession
    <2>1. entry' \in [Entry -> EntryRow] /\ taken' \subseteq Entry
      BY <1>1, <1>9, <1>22 DEF UpdateSession, Typed
    <2> QED BY <1>1, <1>2, <1>7, <1>22, <2>1 DEF UpdateSession, Typed, outcomes
  <1>23. CASE CloseList
    BY <1>1, <1>2, <1>7, <1>23 DEF CloseList, Typed, outcomes
  <1> QED BY <1>3, <1>10, <1>11, <1>13, <1>14, <1>15, <1>16, <1>17, <1>18, <1>19, <1>20, <1>21,
            <1>22, <1>23 DEF Next, WriteStep

-----------------------------------------------------------------------------
(* Rows *)

\* Two different numbers are all there are, if there are at most two.
LEMMA TwoNumbers ==
  ASSUME Cardinality(Phone) <= 2, NEW p \in Phone, NEW q \in Phone, p # q
  PROVE  {p, q} = Phone
  <1>1. IsFiniteSet({p}) /\ Cardinality({p}) = 1
    BY FS_Singleton
  <1>2. Cardinality({p} \cup {q}) = 2
    BY <1>1, FS_AddElement
  <1>3. {p} \cup {q} \subseteq Phone /\ IsFiniteSet(Phone)
    BY CallAssumption
  <1>4. Cardinality({p} \cup {q}) <= Cardinality(Phone) /\ Cardinality(Phone) \in Nat
    BY <1>3, FS_Subset, FS_CardinalityType
  <1>5. Cardinality({p} \cup {q}) = Cardinality(Phone)
    BY <1>2, <1>4
  <1> QED BY <1>3, <1>5, FS_Subset

\* Releasing, claiming and reassigning a row, and the clock.
LEMMA GoodHeld ==
  ASSUME NEW row \in EntryRow, NEW bad \in SUBSET Phone, NEW hit \in BOOLEAN,
         Good(row, bad, hit)
  PROVE  /\ row.status = "IN_PROGRESS" => Good(Released(row), bad, hit)
         /\ row.status \in {"AVAILABLE", "IN_PROGRESS"} => \A c \in Caller :
              Good([row EXCEPT !.status = "IN_PROGRESS", !.by = c, !.since = "fresh"], bad, hit)
         /\ row.since = "fresh" => Good([row EXCEPT !.since = "stale"], bad, hit)
         /\ \A c \in Caller, old \in Caller \cup {None} :
              Good([row EXCEPT !.by = Set(@, old, c), !.since = "fresh"], bad, hit)
  <1>1. row.status = "IN_PROGRESS" => Good(Released(row), bad, hit)
    BY DEF Good, Tries, Released, EntryRow, Done
  <1>2. ASSUME row.status \in {"AVAILABLE", "IN_PROGRESS"}, NEW c \in Caller
        PROVE  Good([row EXCEPT !.status = "IN_PROGRESS", !.by = c, !.since = "fresh"], bad, hit)
    BY <1>2, NoneApart DEF Good, Tries, EntryRow, Done
  <1>3. row.since = "fresh" => Good([row EXCEPT !.since = "stale"], bad, hit)
    BY DEF Good, Tries, EntryRow, Done
  <1>4. ASSUME NEW c \in Caller, NEW old \in Caller \cup {None}
        PROVE  Good([row EXCEPT !.by = Set(@, old, c), !.since = "fresh"], bad, hit)
    <2>1. row.status = "IN_PROGRESS" => Set(row.by, old, c) # None
      BY NoneApart DEF Good, Set
    <2> QED BY <2>1 DEF Good, Tries, EntryRow, Done
  <1> QED BY <1>1, <1>2, <1>3, <1>4

\* A result or a release written over the row it was decided on.
LEMMA WrittenOver ==
  ASSUME NEW row \in EntryRow, NEW new \in EntryRow, new.since \in {"null", Read(row).since}
  PROVE  /\ Write(row, Read(row), new) \in EntryRow
         /\ Write(row, Read(row), new).status = new.status
         /\ Write(row, Read(row), new).by = new.by
         /\ Write(row, Read(row), new).attempts = new.attempts
         /\ Write(row, Read(row), new).tried = new.tried
  <1>1. Read(row) \in EntryRow
    BY RowsTyped
  <1>2. /\ Read(row).status = row.status /\ Read(row).by = row.by
        /\ Read(row).attempts = row.attempts /\ Read(row).tried = row.tried
    BY DEF Read, EntryRow
  <1> DEFINE v == Read(row)
  <1> HIDE DEF v
  <1>3. Write(row, v, new) = [row EXCEPT !.status = Set(@, v.status, new.status),
                                         !.by = Set(@, v.by, new.by),
                                         !.since = Set(@, v.since, new.since),
                                         !.attempts = Set(@, v.attempts, new.attempts),
                                         !.tried = Set(@, v.tried, new.tried)]
    BY DEF Write
  <1>4. /\ Write(row, v, new).status = Set(row.status, v.status, new.status)
        /\ Write(row, v, new).by = Set(row.by, v.by, new.by)
        /\ Write(row, v, new).attempts = Set(row.attempts, v.attempts, new.attempts)
        /\ Write(row, v, new).tried = Set(row.tried, v.tried, new.tried)
    BY <1>3 DEF EntryRow
  <1>5. /\ Write(row, v, new).status = new.status /\ Write(row, v, new).by = new.by
        /\ Write(row, v, new).attempts = new.attempts /\ Write(row, v, new).tried = new.tried
    BY <1>2, <1>4 DEF Set, v
  <1> QED BY <1>1, <1>5, RowsTyped DEF v

LEMMA GoodReleased ==
  ASSUME NEW row \in EntryRow, NEW bad \in SUBSET Phone, NEW hit \in BOOLEAN,
         Good(row, bad, hit), row.status = "IN_PROGRESS"
  PROVE  Good(Write(row, Read(row), Released(Read(row))), bad, hit)
  <1> DEFINE new == Released(Read(row))
  <1>1. new \in EntryRow
    BY RowsTyped
  <1>2. /\ new.status = "AVAILABLE" /\ new.since = "null"
        /\ new.attempts = row.attempts /\ new.tried = row.tried
    BY DEF Released, Read, EntryRow
  <1> HIDE DEF new
  <1>3. /\ Write(row, Read(row), new).status = "AVAILABLE"
        /\ Write(row, Read(row), new).attempts = row.attempts
        /\ Write(row, Read(row), new).tried = row.tried
    BY <1>1, <1>2, WrittenOver
  <1>4. Good(Write(row, Read(row), new), bad, hit)
    BY <1>3 DEF Good, Tries, Done
  <1> QED BY <1>4 DEF new

LEMMA GoodRecorded ==
  ASSUME NEW row \in EntryRow, NEW bad \in SUBSET Phone, NEW hit \in BOOLEAN,
         Good(row, bad, hit), row.status = "IN_PROGRESS",
         NEW res \in Result, NEW p \in Phone
  PROVE  Good(Write(row, Read(row), After(Read(row), res, p)),
              IF res = "number" THEN bad \cup {p} ELSE bad,
              hit \/ res \in {"answered", "person"})
  <1> DEFINE v == Read(row)
             new == After(v, res, p)
             end == Write(row, v, new)
  <1>1. v \in EntryRow /\ new \in EntryRow
    BY RowsTyped, AfterTyped
  <1>2. /\ v.status = "IN_PROGRESS" /\ v.by = row.by
        /\ v.attempts = row.attempts /\ v.tried = row.tried
    BY DEF Read, EntryRow
  <1>3. /\ row.attempts \in Nat /\ MaxAttempts \in Nat /\ row.attempts < MaxAttempts
        /\ row.tried \subseteq Phone /\ ~hit /\ row.status \notin Done
    BY CallAssumption DEF Good, Tries, EntryRow, Done
  <1>4. Cardinality(Phone) <= 2 => /\ bad # Phone /\ bad \subseteq row.tried
                                   /\ \A q, s \in row.tried : q = s
    BY <1>3 DEF Good, Tries
  <1> HIDE DEF v
  <1>5. new.since = v.since
    BY <1>1 DEF After, EntryRow, Result
  <1> HIDE DEF new
  <1>6. /\ end.status = new.status /\ end.attempts = new.attempts /\ end.tried = new.tried
    BY <1>1, <1>5, WrittenOver DEF v
  <1> HIDE DEF end
  <1>7. TriedWritten(v, p) = IF row.tried = {} THEN {p} ELSE row.tried
    BY <1>2 DEF TriedWritten
  <1>8. CASE res = "answered"
    <2>1. new = [v EXCEPT !.status = "COMPLETED", !.attempts = @ + 1]
      BY <1>8 DEF new, After
    <2>2. end.status = "COMPLETED" /\ end.attempts = row.attempts + 1
      BY <1>1, <1>2, <1>6, <2>1 DEF EntryRow
    <2>3. Good(end, bad, TRUE)
      BY <1>3, <2>2 DEF Good, Tries, Done
    <2> QED BY <1>8, <2>3 DEF end, new, v
  <1>9. CASE res = "person"
    <2>1. new = [v EXCEPT !.status = "TERMINAL"]
      BY <1>9 DEF new, After
    <2>2. end.status = "TERMINAL" /\ end.attempts = row.attempts
      BY <1>1, <1>2, <1>6, <2>1 DEF EntryRow
    <2>3. Good(end, bad, TRUE)
      BY <1>3, <2>2 DEF Good, Tries, Done
    <2> QED BY <1>9, <2>3 DEF end, new, v
  <1>10. CASE res = "number"
    <2>1. new = [v EXCEPT !.status = IF v.tried \cup {p} = Phone THEN "TERMINAL" ELSE "AVAILABLE",
                          !.tried = TriedWritten(v, p)]
      BY <1>10 DEF new, After
    <2>2. /\ end.status = IF row.tried \cup {p} = Phone THEN "TERMINAL" ELSE "AVAILABLE"
          /\ end.attempts = row.attempts
          /\ end.tried = IF row.tried = {} THEN {p} ELSE row.tried
      BY <1>1, <1>2, <1>6, <1>7, <2>1 DEF EntryRow
    <2>3. ASSUME Cardinality(Phone) <= 2, end.status \notin Done
          PROVE  /\ bad \cup {p} # Phone
                 /\ bad \cup {p} \subseteq end.tried
                 /\ \A q, s \in end.tried : q = s
      <3>1. row.tried \cup {p} # Phone
        BY <2>2, <2>3 DEF Done
      <3>2. bad \subseteq row.tried /\ \A q, s \in row.tried : q = s
        BY <1>4, <2>3
      <3>3. \A q \in row.tried : q = p
        <4>1. ASSUME NEW q \in row.tried, q # p PROVE FALSE
          <5>1. {q, p} = Phone
            BY <1>3, <2>3, <4>1, TwoNumbers
          <5> QED BY <1>3, <3>1, <4>1, <5>1
        <4> QED BY <4>1
      <3> QED BY <1>3, <2>2, <3>1, <3>2, <3>3
    <2>4. end.status \in {"TERMINAL", "AVAILABLE"}
      BY <2>2
    <2>5. Tries(end, bad \cup {p})
      BY <1>3, <2>2, <2>3 DEF Tries
    <2>6. Good(end, bad \cup {p}, FALSE)
      BY <2>4, <2>5 DEF Good
    <2>7. hit = FALSE
      BY <1>3
    <2> QED BY <1>10, <2>6, <2>7 DEF end, new, v
  <1>11. CASE res = "recycle"
    <2>1. new = [v EXCEPT !.status = Recycled(v.attempts + 1), !.attempts = @ + 1,
                          !.tried = TriedWritten(v, p)]
      BY <1>11 DEF new, After
    <2>2. /\ end.status = Recycled(row.attempts + 1)
          /\ end.attempts = row.attempts + 1
          /\ end.tried = IF row.tried = {} THEN {p} ELSE row.tried
      BY <1>1, <1>2, <1>6, <1>7, <2>1 DEF EntryRow
    <2>3. /\ end.status \in {"AVAILABLE", "MAX_ATTEMPTS"}
          /\ end.status \notin Done => row.attempts + 1 < MaxAttempts
      BY <1>3, <2>2 DEF Recycled, Exhausted, Done
    <2>4. Cardinality(Phone) <= 2 => /\ bad \subseteq end.tried
                                     /\ \A q, s \in end.tried : q = s
      BY <1>4, <2>2
    <2>5. Tries(end, bad)
      BY <1>3, <1>4, <2>2, <2>3, <2>4 DEF Tries
    <2>6. Good(end, bad, FALSE)
      BY <2>3, <2>5 DEF Good
    <2>7. hit = FALSE
      BY <1>3
    <2> QED BY <1>11, <2>6, <2>7 DEF end, new, v
  <1> QED BY <1>8, <1>9, <1>10, <1>11 DEF Result

-----------------------------------------------------------------------------
(* The first state *)

LEMMA InitInv == Init => IInv
  <1> SUFFICES ASSUME Init PROVE IInv
    OBVIOUS
  <1>1. NewEntry \in EntryRow /\ Idle \in RequestRow
    BY CallAssumption DEF NewEntry, EntryRow, Status, Idle, RequestRow
  <1>2. TypeOK
    <2>1. Typed /\ req \in [Request -> RequestRow]
      BY <1>1, CallAssumption DEF Init, Typed
    <2> QED BY <2>1, TypeParts
  <1>3. RequestsSay /\ ClaimsApart /\ ClaimsHold
    BY DEF Init, Idle, RequestsSay, Says, ClaimsApart, ClaimsHold, Locked
  <1>4. ScreensInProgress /\ OneCallerPerVoter
    BY DEF Init, ScreensInProgress, OneCallerPerVoter
  <1>5. Good(NewEntry, {}, FALSE)
    <2>1. 0 <= MaxAttempts /\ 0 < MaxAttempts /\ Phone # {}
      BY CallAssumption
    <2> QED BY <2>1 DEF Good, Tries, NewEntry
  <1>6. RowsGood
    <2>1. \A e \in Entry : entry[e] = NewEntry /\ wrong[e] = {} /\ (e \in reached) = FALSE
      BY DEF Init
    <2> QED BY <1>5, <2>1 DEF RowsGood
  <1> QED BY <1>2, <1>3, <1>4, <1>6 DEF IInv

-----------------------------------------------------------------------------
(* Requests and the rows they lock *)

\* A request says what its kind needs, from the moment it is made.
LEMMA RequestsStep ==
  ASSUME TypeOK, RequestsSay, [Next]_vars
  PROVE  RequestsSay'
  <1>1. req \in [Request -> RequestRow]
    BY TypeParts
  <1>2. ASSUME NEW r \in Request, NEW x, req' = [req EXCEPT ![r] = x], Says(x)
        PROVE  RequestsSay'
    <2>1. ASSUME NEW q \in Request PROVE Says(req'[q])
      <3>1. req'[q] = x \/ req'[q] = req[q]
        BY <1>1, <1>2
      <3> QED BY <1>2, <3>1 DEF RequestsSay
    <2> QED BY <2>1 DEF RequestsSay, Says
  <1>3. Says(Idle)
    BY DEF Says, Idle
  <1>4. ASSUME NEW r \in Request, Finish(r) PROVE RequestsSay'
    BY <1>2, <1>3, <1>4 DEF Finish
  <1>5. \A c \in Caller : screen[c] # None => screen[c] \in Entry
    BY DEF TypeOK
  <1>6. ASSUME NEW r \in Request, NEW c \in Caller, ClaimSelect(r, c) PROVE RequestsSay'
    <2>1. PICK e : req' = [req EXCEPT ![r] =
                     [Idle EXCEPT !.op = "claim", !.who = c, !.entry = e,
                                  !.stale = {d \in Entry : Stale(entry[d])}]]
      BY <1>6 DEF ClaimSelect
    <2> DEFINE x == [Idle EXCEPT !.op = "claim", !.who = c, !.entry = e,
                                 !.stale = {d \in Entry : Stale(entry[d])}]
    <2>2. Says(x)
      BY DEF Says, Idle
    <2> QED BY <1>2, <2>1, <2>2
  <1> DEFINE Row(op, c, e, a) == [op |-> op, who |-> c, entry |-> e, arg |-> a,
                                  view |-> Read(entry[e]), stale |-> {}]
  <1>7. \A c, a \in Caller, d \in Caller \cup {None}, e \in Entry :
          Says(Row("record", c, e, None)) /\ Says(Row("release", d, e, None))
            /\ Says(Row("reassign", None, e, a))
    BY DEF Says
  <1>8. ASSUME NEW r \in Request, NEW c \in Caller, RecordRead(r, c) PROVE RequestsSay'
    <2>1. screen[c] \in Entry /\ req' = [req EXCEPT ![r] = Row("record", c, screen[c], None)]
      BY <1>5, <1>8 DEF RecordRead
    <2> QED BY <1>2, <1>7, <2>1
  <1>9. ASSUME NEW r \in Request, ReleaseRead(r) PROVE RequestsSay'
    <2>1. PICK d \in Caller \cup {None}, e \in Entry :
            req' = [req EXCEPT ![r] = Row("release", d, e, None)]
      BY <1>5, <1>9 DEF ReleaseRead
    <2>2. Says(Row("release", d, e, None))
      BY DEF Says
    <2> QED BY <1>2, <2>1, <2>2
  <1>10. ASSUME NEW r \in Request, ReassignRead(r) PROVE RequestsSay'
    <2>1. \E a \in Caller, e \in Entry :
            req' = [req EXCEPT ![r] = Row("reassign", None, e, a)]
      BY <1>10 DEF ReassignRead
    <2> QED BY <1>2, <1>7, <2>1
  <1>11. ASSUME UNCHANGED req PROVE RequestsSay'
    BY <1>11 DEF RequestsSay
  <1>12. ASSUME NEW r \in Request, WriteStep(r) \/ Rollback(r) PROVE RequestsSay'
    BY <1>4, <1>12 DEF WriteStep, ClaimCommit, RecordWrite, ReleaseWrite, ReassignWrite, Rollback
  <1>13. ASSUME NEW c \in Caller, AddCaller(c) \/ CheckOut(c) \/ RemoveCaller(c) \/ Reload(c)
         PROVE  RequestsSay'
    BY <1>11, <1>13 DEF AddCaller, CheckOut, RemoveCaller, Reload
  <1>14. ASSUME NEW e \in Entry, ClaimTimesOut(e) PROVE RequestsSay'
    BY <1>11, <1>14 DEF ClaimTimesOut
  <1>15. UpdateSession \/ CloseList \/ UNCHANGED vars => UNCHANGED req
    BY DEF UpdateSession, CloseList, vars
  <1> QED BY <1>6, <1>8, <1>9, <1>10, <1>11, <1>12, <1>13, <1>14, <1>15 DEF Next

\* What a claim has locked stays as it was while nothing but unlocked rows is written.
LEMMA ClaimsKept ==
  ASSUME TypeOK, ClaimsApart, ClaimsHold,
         \A r \in Request : req'[r] = req[r] \/ req'[r].op # "claim",
         \A e \in Entry : \/ RowFree(e)
                          \/ /\ entry'[e].status = entry[e].status
                             /\ Stale(entry[e]) => Stale(entry'[e])
  PROVE  ClaimsApart' /\ ClaimsHold'
  <1>1. \A r \in Request : Locked(r)' = Locked(r) \/ Locked(r)' = {}
    BY DEF Locked
  <1>2. ClaimsApart'
    BY <1>1 DEF ClaimsApart
  <1>3. ASSUME NEW r \in Request, req'[r].op = "claim"
        PROVE  /\ \A e \in req'[r].stale : Stale(entry'[e])
               /\ req'[r].entry # None =>
                    req'[r].entry \in req'[r].stale \/ entry'[req'[r].entry].status = "AVAILABLE"
    <2>1. req'[r] = req[r] /\ req[r].op = "claim"
      BY <1>3
    <2>2. req[r].stale \subseteq Entry /\ req[r].entry \in Entry \cup {None}
      BY DEF TypeOK
    <2>5. \A e \in Entry : e = req[r].entry \/ e \in req[r].stale => ~RowFree(e)
      BY <2>1 DEF RowFree
    <2>6. /\ \A e \in req[r].stale : Stale(entry[e])
          /\ req[r].entry # None =>
               req[r].entry \in req[r].stale \/ entry[req[r].entry].status = "AVAILABLE"
      BY <2>1 DEF ClaimsHold
    <2>3. ASSUME NEW e \in req[r].stale PROVE Stale(entry'[e])
      <3>1. e \in Entry /\ ~RowFree(e)
        BY <2>2, <2>5
      <3> QED BY <2>6, <3>1
    <2>4. ASSUME req[r].entry # None, req[r].entry \notin req[r].stale
          PROVE  entry'[req[r].entry].status = "AVAILABLE"
      <3>1. req[r].entry \in Entry /\ ~RowFree(req[r].entry)
        BY <2>2, <2>4, <2>5
      <3> QED BY <2>4, <2>6, <3>1
    <2> QED BY <2>1, <2>3, <2>4
  <1>4. ClaimsHold'
    BY <1>3 DEF ClaimsHold, Stale
  <1> QED BY <1>2, <1>4

\* A claim locks rows that no other has locked, and finds them as it says.
LEMMA ClaimsSelected ==
  ASSUME TypeOK, ClaimsApart, ClaimsHold, NEW r \in Request, NEW c \in Caller, ClaimSelect(r, c)
  PROVE  ClaimsApart' /\ ClaimsHold'
  <1> DEFINE stale == {e \in Entry : Stale(entry[e])}
  <1>1. PICK e \in Entry \cup {None} :
          /\ req' = [req EXCEPT ![r] = [Idle EXCEPT !.op = "claim", !.who = c, !.entry = e,
                                                     !.stale = stale]]
          /\ e # None => Claimable(e, stale) /\ RowFree(e)
    BY NoneApart DEF ClaimSelect
  <1>2. (\A d \in stale : RowFree(d)) /\ UNCHANGED entry
    BY DEF ClaimSelect
  <1>3. req \in [Request -> RequestRow]
    BY TypeParts
  <1>4. /\ req'[r].op = "claim" /\ req'[r].entry = e /\ req'[r].stale = stale
        /\ \A s \in Request : s # r => req'[s] = req[s]
    BY <1>1, <1>3 DEF Idle
  <1>5. \A s \in Request : s # r => Locked(s)' = Locked(s)
    BY <1>4 DEF Locked
  <1>6. \A d \in Locked(r)' : RowFree(d)
    BY <1>1, <1>2, <1>4, NoneApart DEF Locked
  <1>7. \A s \in Request, d \in Entry : RowFree(d) => d \notin Locked(s)
    BY DEF RowFree, Locked
  <1>8. Locked(r)' \subseteq Entry
    BY DEF Locked
  <1>9. ClaimsApart'
    BY <1>5, <1>6, <1>7, <1>8 DEF ClaimsApart
  <1>10. ASSUME NEW s \in Request, req'[s].op = "claim"
         PROVE  /\ \A d \in req'[s].stale : Stale(entry[d])
                /\ req'[s].entry # None =>
                     req'[s].entry \in req'[s].stale \/ entry[req'[s].entry].status = "AVAILABLE"
    <2>1. CASE s = r
      BY <1>1, <1>4, <2>1 DEF Claimable
    <2>2. CASE s # r
      BY <1>4, <1>10, <2>2 DEF ClaimsHold
    <2> QED BY <2>1, <2>2
  <1>11. ClaimsHold'
    BY <1>2, <1>10 DEF ClaimsHold, Stale
  <1> QED BY <1>9, <1>11

\* A claim that commits writes only what it had locked.
LEMMA ClaimsCommitted ==
  ASSUME TypeOK, ClaimsApart, ClaimsHold, NEW r \in Request, ClaimCommit(r)
  PROVE  ClaimsApart' /\ ClaimsHold'
  <1>1. req \in [Request -> RequestRow]
    BY TypeParts
  <1>2. req'[r].op = "none" /\ \A s \in Request : s # r => req'[s] = req[s]
    BY <1>1 DEF ClaimCommit, Finish, Idle
  <1>3. \A s \in Request : Locked(s)' = Locked(s) \/ Locked(s)' = {}
    BY <1>2 DEF Locked
  <1>4. ClaimsApart'
    BY <1>3 DEF ClaimsApart
  <1>5. \A e \in Entry \ Locked(r) : entry'[e] = entry[e]
    BY DEF ClaimCommit, Locked
  <1>6. ASSUME NEW s \in Request, req'[s].op = "claim"
        PROVE  /\ \A d \in req'[s].stale : Stale(entry'[d])
               /\ req'[s].entry # None =>
                    req'[s].entry \in req'[s].stale \/ entry'[req'[s].entry].status = "AVAILABLE"
    <2>1. s # r /\ req'[s] = req[s] /\ req[s].op = "claim"
      BY <1>2, <1>6
    <2>2. req[s].stale \subseteq Entry /\ req[s].entry \in Entry \cup {None}
      BY DEF TypeOK
    <2>3. \A d \in Locked(s) : entry'[d] = entry[d]
      BY <1>5, <2>1 DEF ClaimsApart, Locked
    <2>4. \A d \in req[s].stale : d \in Locked(s)
      BY <2>1, <2>2 DEF Locked
    <2>5. req[s].entry # None => req[s].entry \in Locked(s)
      BY <2>1, <2>2 DEF Locked
    <2> QED BY <2>1, <2>3, <2>4, <2>5 DEF ClaimsHold
  <1>7. ClaimsHold'
    BY <1>6 DEF ClaimsHold, Stale
  <1> QED BY <1>4, <1>7

-----------------------------------------------------------------------------
(* Screens and rows *)

\* Screens that only empty, while every row E that leaves progress is taken from them.
LEMMA ScreensKept ==
  ASSUME TypeOK, TypeOK', ScreensInProgress, OneCallerPerVoter, NEW E,
         \A c \in Caller : screen'[c] \in {screen[c], None},
         \A c \in Caller : screen'[c] \in taken \cup E => screen'[c] \in taken',
         \A e \in Entry \ E : entry[e].status = "IN_PROGRESS" => entry'[e].status = "IN_PROGRESS"
  PROVE  ScreensInProgress' /\ OneCallerPerVoter'
  <1>1. \A c \in Caller : screen'[c] # None => screen'[c] \in Entry /\ screen'[c] = screen[c]
    BY DEF TypeOK
  <1>2. ASSUME NEW c \in Caller, screen'[c] # None, screen'[c] \notin taken'
        PROVE  entry'[screen'[c]].status = "IN_PROGRESS"
    <2>1. screen'[c] = screen[c] /\ screen[c] \in Entry \ E /\ screen[c] \notin taken
      BY <1>1, <1>2
    <2>2. entry[screen[c]].status = "IN_PROGRESS"
      BY <1>2, <2>1 DEF ScreensInProgress
    <2> QED BY <2>1, <2>2
  <1>3. ASSUME NEW c \in Caller, NEW d \in Caller, c # d, screen'[c] # None,
               screen'[c] = screen'[d]
        PROVE  screen'[c] \in taken'
    <2>1. screen[c] = screen'[c] /\ screen[d] = screen'[d]
      BY <1>1, <1>3
    <2>2. screen[c] \in taken
      BY <1>3, <2>1 DEF OneCallerPerVoter
    <2> QED BY <2>1, <2>2
  <1>4. ScreensInProgress'
    BY <1>2 DEF ScreensInProgress
  <1>5. OneCallerPerVoter'
    BY <1>3 DEF OneCallerPerVoter
  <1> QED BY <1>4, <1>5

\* What Takes does for the screens.
LEMMA TakesFromScreens ==
  ASSUME NEW E, Takes(E)
  PROVE  \A c \in Caller : screen'[c] \in taken \cup E => screen'[c] \in taken'
  BY DEF Takes, ShownNext

\* A row that is good with what is recorded of it.
GoodAt(e) == Good(entry[e], wrong[e], e \in reached)

\* Rows are good again when each is.
LEMMA RowsKept ==
  ASSUME RowsGood, late \subseteq late',
         \A e \in Entry \ late' : GoodAt(e) => GoodAt(e)'
  PROVE  RowsGood'
  <1>1. \A e \in Entry \ late : GoodAt(e)
    BY DEF RowsGood, GoodAt
  <1>2. \A e \in Entry \ late' : GoodAt(e)'
    BY <1>1
  <1> QED BY <1>2 DEF RowsGood, GoodAt

\* What a step must keep beside the types and what the requests say.
Rest == ClaimsApart /\ ClaimsHold /\ ScreensInProgress /\ OneCallerPerVoter /\ RowsGood

\* Nothing is written, and no claim is begun.
LEMMA Unwritten ==
  ASSUME IInv, TypeOK', UNCHANGED <<entry, screen, taken, late, outcomes>>,
         \A r \in Request : req'[r] = req[r] \/ req'[r].op # "claim"
  PROVE  Rest'
  <1>1. ClaimsApart' /\ ClaimsHold'
    BY ClaimsKept DEF IInv
  <1>2. ScreensInProgress' /\ OneCallerPerVoter'
    BY DEF IInv, ScreensInProgress, OneCallerPerVoter
  <1>3. RowsGood'
    BY DEF IInv, RowsGood, outcomes
  <1> QED BY <1>1, <1>2, <1>3 DEF Rest

\* Rows in progress are released by a check-out, a removal or the session's end.
LEMMA ReleasedAll ==
  ASSUME IInv, TypeOK', NEW E \in SUBSET Entry, \A e \in E : entry[e].status = "IN_PROGRESS",
         ReleaseAll(E), UNCHANGED <<req, late, outcomes>>,
         \A c \in Caller : screen'[c] \in {screen[c], None}
  PROVE  Rest'
  <1>1. \A e \in Entry : e \notin E => entry'[e] = entry[e]
    BY DEF ReleaseAll
  <1>2. \A e \in E : RowFree(e) /\ entry'[e] = Released(entry[e])
    BY DEF ReleaseAll
  <1>3. ClaimsApart' /\ ClaimsHold'
    <2>1. \A e \in Entry : RowFree(e) \/ entry'[e] = entry[e]
      BY <1>1, <1>2
    <2>2. \A e \in Entry : \/ RowFree(e)
                           \/ /\ entry'[e].status = entry[e].status
                              /\ Stale(entry[e]) => Stale(entry'[e])
      BY <2>1
    <2> QED BY <2>2, ClaimsKept DEF IInv
  <1>4. ScreensInProgress' /\ OneCallerPerVoter'
    <2>1. Takes(E)
      BY DEF ReleaseAll
    <2>2. \A e \in Entry \ E : entry[e].status = "IN_PROGRESS" => entry'[e].status = "IN_PROGRESS"
      BY <1>1
    <2>3. \A c \in Caller : screen'[c] \in taken \cup E => screen'[c] \in taken'
      BY <2>1, TakesFromScreens
    <2> QED BY <2>2, <2>3, ScreensKept DEF IInv
  <1>5. ASSUME NEW e \in Entry, GoodAt(e) PROVE GoodAt(e)'
    <2>1. wrong'[e] = wrong[e] /\ reached' = reached
      BY DEF outcomes
    <2>2. CASE e \notin E
      BY <1>1, <1>5, <2>1, <2>2 DEF GoodAt
    <2>3. CASE e \in E
      <3>1. entry[e] \in EntryRow /\ wrong[e] \in SUBSET Phone
        BY DEF IInv, TypeOK
      <3>2. \A hit \in BOOLEAN : Good(entry[e], wrong[e], hit) => Good(Released(entry[e]), wrong[e], hit)
        BY <2>3, <3>1, GoodHeld
      <3>3. (e \in reached) \in BOOLEAN
        OBVIOUS
      <3>4. Good(Released(entry[e]), wrong[e], e \in reached)
        BY <1>5, <3>2, <3>3 DEF GoodAt
      <3> QED BY <1>2, <2>1, <2>3, <3>4 DEF GoodAt
    <2> QED BY <2>2, <2>3
  <1>6. RowsGood'
    BY <1>5, RowsKept DEF IInv
  <1> QED BY <1>3, <1>4, <1>6 DEF Rest

\* One unlocked row is written: its screens are taken from it, and it is late or good.
LEMMA OneWritten ==
  ASSUME IInv, TypeOK', NEW e \in Entry, RowFree(e), Takes({e}),
         \A d \in Entry : d # e => entry'[d] = entry[d] /\ wrong'[d] = wrong[d],
         reached' \subseteq reached \cup {e}, reached \subseteq reached',
         late \subseteq late', e \notin late' => (GoodAt(e) => GoodAt(e)'),
         \A c \in Caller : screen'[c] \in {screen[c], None},
         \A r \in Request : req'[r] = req[r] \/ req'[r].op # "claim"
  PROVE  Rest'
  <1>1. ClaimsApart' /\ ClaimsHold'
    <2>1. \A d \in Entry : \/ RowFree(d)
                           \/ /\ entry'[d].status = entry[d].status
                              /\ Stale(entry[d]) => Stale(entry'[d])
      OBVIOUS
    <2> QED BY <2>1, ClaimsKept DEF IInv
  <1>2. ScreensInProgress' /\ OneCallerPerVoter'
    <2>1. \A c \in Caller : screen'[c] \in taken \cup {e} => screen'[c] \in taken'
      BY TakesFromScreens
    <2> QED BY <2>1, ScreensKept DEF IInv
  <1>3. ASSUME NEW d \in Entry, d # e, GoodAt(d) PROVE GoodAt(d)'
    <2>1. entry'[d] = entry[d] /\ wrong'[d] = wrong[d]
      BY <1>3
    <2>2. (d \in reached') = (d \in reached)
      BY <1>3
    <2> QED BY <1>3, <2>1, <2>2 DEF GoodAt
  <1>4. RowsGood'
    <2>1. \A d \in Entry \ late' : GoodAt(d) => GoodAt(d)'
      BY <1>3
    <2> QED BY <2>1, RowsKept DEF IInv
  <1> QED BY <1>1, <1>2, <1>4 DEF Rest

\* A request that ends is no claim.
LEMMA FinishClaimsNothing ==
  ASSUME TypeOK, NEW r \in Request, Finish(r)
  PROVE  \A s \in Request : req'[s] = req[s] \/ req'[s].op # "claim"
  <1>1. Idle.op = "none" /\ req \in [Request -> RequestRow]
    BY TypeParts DEF Idle
  <1> QED BY <1>1 DEF Finish

LEMMA RecordStep ==
  ASSUME IInv, TypeOK', NEW r \in Request, RecordWrite(r)
  PROVE  Rest'
  <1>0. PICK e \in Entry : e = req[r].entry
    BY DEF IInv, RequestsSay, Says, RecordWrite
  <1> DEFINE row == entry[e]
  <1>1. row \in EntryRow /\ wrong[e] \in SUBSET Phone /\ RowFree(e) /\ Takes({e})
    BY <1>0 DEF IInv, TypeOK, RecordWrite
  <1>2. PICK res \in Result, p \in Phone :
          /\ entry' = [entry EXCEPT ![e] = Write(@, req[r].view, After(req[r].view, res, p))]
          /\ reached' = IF res \in {"answered", "person"} THEN reached \cup {e} ELSE reached
          /\ wrong' = IF res = "number" THEN [wrong EXCEPT ![e] = @ \cup {p}] ELSE wrong
    BY <1>0 DEF RecordWrite
  <1>3. /\ late' = IF UpToDate(r) THEN late ELSE late \cup {e}
        /\ Answered(req[r].who, e)
        /\ Finish(r)
    BY <1>0 DEF RecordWrite
  <1>4. entry \in [Entry -> EntryRow] /\ wrong \in [Entry -> SUBSET Phone]
        /\ screen \in [Caller -> Entry \cup {None}]
    BY DEF IInv, TypeOK
  <1>5. \A d \in Entry : d # e => entry'[d] = entry[d] /\ wrong'[d] = wrong[d]
    BY <1>1, <1>2, <1>4
  <1>6. ASSUME e \notin late', GoodAt(e) PROVE GoodAt(e)'
    <2>1. UpToDate(r)
      BY <1>3, <1>6
    <2>2. row.status = "IN_PROGRESS" /\ req[r].view = Read(row)
      BY <1>0, <2>1 DEF UpToDate
    <2>3. \A hit \in BOOLEAN : Good(row, wrong[e], hit) =>
            Good(Write(row, Read(row), After(Read(row), res, p)),
                 IF res = "number" THEN wrong[e] \cup {p} ELSE wrong[e],
                 hit \/ res \in {"answered", "person"})
      BY <1>1, <2>2, GoodRecorded
    <2>4. (e \in reached) \in BOOLEAN
      OBVIOUS
    <2>5. Good(Write(row, Read(row), After(Read(row), res, p)),
               IF res = "number" THEN wrong[e] \cup {p} ELSE wrong[e],
               (e \in reached) \/ res \in {"answered", "person"})
      BY <1>6, <2>3, <2>4 DEF GoodAt
    <2>6. entry'[e] = Write(row, Read(row), After(Read(row), res, p))
      BY <1>1, <1>2, <1>4, <2>2
    <2>7. wrong'[e] = IF res = "number" THEN wrong[e] \cup {p} ELSE wrong[e]
      BY <1>1, <1>2, <1>4
    <2>8. (e \in reached') = ((e \in reached) \/ res \in {"answered", "person"})
      BY <1>2
    <2>9. Good(entry'[e], wrong'[e], e \in reached')
      BY <2>5, <2>6, <2>7, <2>8
    <2> QED BY <2>9 DEF GoodAt
  <1>7. reached \subseteq reached' /\ reached' \subseteq reached \cup {e} /\ late \subseteq late'
    BY <1>2, <1>3
  <1>8. \A c \in Caller : screen'[c] \in {screen[c], None}
    BY <1>3, <1>4 DEF Answered
  <1>9. \A s \in Request : req'[s] = req[s] \/ req'[s].op # "claim"
    BY <1>3, FinishClaimsNothing DEF IInv
  <1> QED BY <1>1, <1>5, <1>6, <1>7, <1>8, <1>9, OneWritten

LEMMA ReleaseStep ==
  ASSUME IInv, TypeOK', NEW r \in Request, ReleaseWrite(r)
  PROVE  Rest'
  <1>0. PICK e \in Entry : e = req[r].entry
    BY DEF IInv, RequestsSay, Says, ReleaseWrite
  <1> DEFINE row == entry[e]
  <1>1. row \in EntryRow /\ wrong[e] \in SUBSET Phone /\ RowFree(e) /\ Takes({e})
    BY <1>0 DEF IInv, TypeOK, ReleaseWrite
  <1>2. /\ entry' = [entry EXCEPT ![e] = Write(@, req[r].view, Released(req[r].view))]
        /\ UNCHANGED <<reached, wrong>>
    BY <1>0 DEF ReleaseWrite, outcomes
  <1>3. /\ late' = IF UpToDate(r) THEN late ELSE late \cup {e}
        /\ UNCHANGED screen \/ Answered(req[r].who, e)
        /\ Finish(r)
    BY <1>0 DEF ReleaseWrite
  <1>4. entry \in [Entry -> EntryRow] /\ screen \in [Caller -> Entry \cup {None}]
    BY DEF IInv, TypeOK
  <1>5. \A d \in Entry : d # e => entry'[d] = entry[d] /\ wrong'[d] = wrong[d]
    BY <1>1, <1>2, <1>4
  <1>6. ASSUME e \notin late', GoodAt(e) PROVE GoodAt(e)'
    <2>1. UpToDate(r)
      BY <1>3, <1>6
    <2>2. row.status = "IN_PROGRESS" /\ req[r].view = Read(row)
      BY <1>0, <2>1 DEF UpToDate
    <2>3. \A hit \in BOOLEAN : Good(row, wrong[e], hit) =>
            Good(Write(row, Read(row), Released(Read(row))), wrong[e], hit)
      BY <1>1, <2>2, GoodReleased
    <2>4. (e \in reached) \in BOOLEAN
      OBVIOUS
    <2>5. Good(Write(row, Read(row), Released(Read(row))), wrong[e], e \in reached)
      BY <1>6, <2>3, <2>4 DEF GoodAt
    <2>6. entry'[e] = Write(row, Read(row), Released(Read(row)))
      BY <1>1, <1>2, <1>4, <2>2
    <2> QED BY <1>2, <2>5, <2>6 DEF GoodAt
  <1>7. reached \subseteq reached' /\ reached' \subseteq reached \cup {e} /\ late \subseteq late'
    BY <1>2, <1>3
  <1>8. \A c \in Caller : screen'[c] \in {screen[c], None}
    BY <1>3, <1>4 DEF Answered
  <1>9. \A s \in Request : req'[s] = req[s] \/ req'[s].op # "claim"
    BY <1>3, FinishClaimsNothing DEF IInv
  <1> QED BY <1>1, <1>5, <1>6, <1>7, <1>8, <1>9, OneWritten

LEMMA ReassignStep ==
  ASSUME IInv, TypeOK', NEW r \in Request, ReassignWrite(r)
  PROVE  Rest'
  <1>0. PICK e \in Entry : e = req[r].entry
    BY DEF IInv, RequestsSay, Says, ReassignWrite
  <1> DEFINE row == entry[e]
             new == [row EXCEPT !.by = Set(@, req[r].view.by, req[r].arg), !.since = "fresh"]
  <1>1. row \in EntryRow /\ wrong[e] \in SUBSET Phone /\ RowFree(e) /\ Takes({e})
    BY <1>0 DEF IInv, TypeOK, ReassignWrite
  <1>2. req[r].arg \in Caller /\ req[r].view.by \in Caller \cup {None}
    BY DEF IInv, TypeOK, RequestsSay, Says, ReassignWrite, EntryRow
  <1>3. entry \in [Entry -> EntryRow]
    BY DEF IInv, TypeOK
  <1>4. entry' = [entry EXCEPT ![e] = new]
    BY <1>0, <1>1, <1>3 DEF ReassignWrite, EntryRow
  <1>5. UNCHANGED <<screen, late, reached, wrong>> /\ Finish(r)
    BY DEF ReassignWrite, outcomes
  <1>6. ASSUME GoodAt(e) PROVE GoodAt(e)'
    <2>1. \A hit \in BOOLEAN : Good(row, wrong[e], hit) => Good(new, wrong[e], hit)
      BY <1>1, <1>2, GoodHeld
    <2>2. (e \in reached) \in BOOLEAN
      OBVIOUS
    <2>3. Good(new, wrong[e], e \in reached)
      BY <1>6, <2>1, <2>2 DEF GoodAt
    <2>4. entry'[e] = new
      BY <1>3, <1>4
    <2> QED BY <1>5, <2>3, <2>4 DEF GoodAt
  <1>7. \A d \in Entry : d # e => entry'[d] = entry[d] /\ wrong'[d] = wrong[d]
    BY <1>3, <1>4, <1>5
  <1>8. \A s \in Request : req'[s] = req[s] \/ req'[s].op # "claim"
    BY <1>5, FinishClaimsNothing DEF IInv
  <1> QED BY <1>1, <1>5, <1>6, <1>7, <1>8, OneWritten

\* The clock marks a claim, and writes nothing else.
LEMMA TimeoutStep ==
  ASSUME IInv, TypeOK', NEW e \in Entry, ClaimTimesOut(e)
  PROVE  Rest'
  <1>1. /\ entry[e].since = "fresh" /\ entry' = [entry EXCEPT ![e].since = "stale"]
        /\ UNCHANGED <<screen, req, taken, late, reached, wrong>>
    BY DEF ClaimTimesOut, outcomes
  <1>2. entry \in [Entry -> EntryRow] /\ wrong[e] \in SUBSET Phone
    BY DEF IInv, TypeOK
  <1>3. entry'[e] = [entry[e] EXCEPT !.since = "stale"] /\ entry'[e].status = entry[e].status
    BY <1>1, <1>2 DEF EntryRow
  <1>4. \A d \in Entry : d # e => entry'[d] = entry[d]
    BY <1>1, <1>2
  <1>5. ClaimsApart' /\ ClaimsHold'
    <2>1. ~Stale(entry[e])
      BY <1>1 DEF Stale
    <2>2. \A d \in Entry : \/ RowFree(d)
                           \/ /\ entry'[d].status = entry[d].status
                              /\ Stale(entry[d]) => Stale(entry'[d])
      BY <1>3, <1>4, <2>1
    <2> QED BY <1>1, <2>2, ClaimsKept DEF IInv
  <1>6. ScreensInProgress' /\ OneCallerPerVoter'
    <2>1. \A d \in Entry \ {} : entry[d].status = "IN_PROGRESS" => entry'[d].status = "IN_PROGRESS"
      BY <1>3, <1>4
    <2> QED BY <1>1, <2>1, ScreensKept DEF IInv
  <1>7. ASSUME NEW d \in Entry, GoodAt(d) PROVE GoodAt(d)'
    <2>1. CASE d # e
      BY <1>1, <1>4, <1>7, <2>1 DEF GoodAt
    <2>2. CASE d = e
      <3>1. entry[e] \in EntryRow
        BY <1>2
      <3>2. \A hit \in BOOLEAN : Good(entry[e], wrong[e], hit) =>
              Good([entry[e] EXCEPT !.since = "stale"], wrong[e], hit)
        BY <1>1, <1>2, <3>1, GoodHeld
      <3>3. (e \in reached) \in BOOLEAN
        OBVIOUS
      <3>4. Good(entry'[e], wrong[e], e \in reached)
        BY <1>3, <1>7, <2>2, <3>2, <3>3 DEF GoodAt
      <3> QED BY <1>1, <2>2, <3>4 DEF GoodAt
    <2> QED BY <2>1, <2>2
  <1>8. RowsGood'
    BY <1>1, <1>7, RowsKept DEF IInv
  <1> QED BY <1>5, <1>6, <1>8 DEF Rest

\* A claim commits: what it shows was on a screen only if its claim had ended.
LEMMA CommitStep ==
  ASSUME IInv, TypeOK', NEW r \in Request, ClaimCommit(r)
  PROVE  Rest'
  <1> DEFINE e == req[r].entry
             c == req[r].who
             stale == req[r].stale
             claimed(row) == [row EXCEPT !.status = "IN_PROGRESS", !.by = c, !.since = "fresh"]
  <1>1. /\ c \in Caller /\ e \in Entry \cup {None} /\ stale \subseteq Entry
        /\ entry \in [Entry -> EntryRow] /\ screen \in [Caller -> Entry \cup {None}]
        /\ wrong \in [Entry -> SUBSET Phone]
    BY DEF IInv, TypeOK, RequestsSay, Says, ClaimCommit
  <1>2. /\ \A d \in stale : Stale(entry[d])
        /\ e # None => e \in stale \/ entry[e].status = "AVAILABLE"
    BY DEF IInv, ClaimsHold, ClaimCommit
  <1>3. \A d \in Entry : entry'[d] = IF d = e THEN claimed(entry[d])
                                   ELSE IF d \in stale THEN Released(entry[d]) ELSE entry[d]
    BY DEF ClaimCommit
  <1>4. /\ \/ screen' = IF screen[c] = None THEN [screen EXCEPT ![c] = e] ELSE screen
           \/ UNCHANGED screen
        /\ Takes(stale)
        /\ UNCHANGED <<late, reached, wrong>>
    BY DEF ClaimCommit, outcomes
  <1>5. ClaimsApart' /\ ClaimsHold'
    BY ClaimsCommitted DEF IInv
  <1>6. \A b \in Caller : screen'[b] \in taken \cup stale => screen'[b] \in taken'
    BY <1>4, TakesFromScreens
  <1>7. \A b \in Caller : \/ screen'[b] = screen[b]
                          \/ b = c /\ screen'[b] = e
    <2>1. CASE screen' = [screen EXCEPT ![c] = e]
      BY <1>1, <2>1
    <2> QED BY <1>4, <2>1
  <1>8. \A b \in Caller : screen[b] # None /\ screen[b] = e => e \in taken \cup stale
    BY <1>1, <1>2 DEF IInv, ScreensInProgress
  <1>9. \A d \in Entry : entry[d].status = "IN_PROGRESS" /\ d \notin stale
                         => entry'[d].status = "IN_PROGRESS"
    BY <1>1, <1>3 DEF EntryRow
  <1>10. e \in Entry => entry'[e].status = "IN_PROGRESS"
    BY <1>1, <1>3 DEF EntryRow
  <1>11. ScreensInProgress'
    <2>1. ASSUME NEW b \in Caller, screen'[b] # None, screen'[b] \notin taken'
          PROVE  entry'[screen'[b]].status = "IN_PROGRESS"
      <3>1. screen'[b] \notin taken \cup stale
        BY <1>6, <2>1
      <3>2. CASE screen'[b] = e
        BY <1>1, <1>10, <2>1, <3>2
      <3>3. CASE screen'[b] = screen[b]
        <4>1. screen[b] \in Entry /\ entry[screen[b]].status = "IN_PROGRESS"
          BY <1>1, <2>1, <3>1, <3>3 DEF IInv, ScreensInProgress
        <4> QED BY <1>9, <3>1, <3>3, <4>1
      <3> QED BY <1>7, <3>2, <3>3
    <2> QED BY <2>1 DEF ScreensInProgress
  <1>12. OneCallerPerVoter'
    <2>1. ASSUME NEW b \in Caller, NEW d \in Caller, b # d, screen'[b] # None,
                 screen'[b] = screen'[d]
          PROVE  screen'[b] \in taken'
      <3>1. CASE screen'[b] = screen[b] /\ screen'[d] = screen[d]
        <4>1. screen[b] \in taken
          BY <2>1, <3>1 DEF IInv, OneCallerPerVoter
        <4> QED BY <1>6, <3>1, <4>1
      <3>2. CASE screen'[b] = e /\ (screen[b] = e \/ screen[d] = e)
        <4>1. e \in taken \cup stale
          BY <1>8, <2>1, <3>2
        <4> QED BY <1>6, <3>2, <4>1
      <3> QED BY <1>7, <2>1, <3>1, <3>2
    <2> QED BY <2>1 DEF OneCallerPerVoter
  <1>13. ASSUME NEW d \in Entry, GoodAt(d) PROVE GoodAt(d)'
    <2>1. entry[d] \in EntryRow /\ wrong[d] \in SUBSET Phone /\ (d \in reached) \in BOOLEAN
      BY <1>1
    <2>2. CASE d = e
      <3>1. entry[d].status \in {"AVAILABLE", "IN_PROGRESS"}
        BY <1>2, <2>2, NoneApart DEF Stale
      <3>2. \A hit \in BOOLEAN : Good(entry[d], wrong[d], hit) => Good(claimed(entry[d]), wrong[d], hit)
        BY <1>1, <2>1, <3>1, GoodHeld
      <3>3. Good(claimed(entry[d]), wrong[d], d \in reached)
        BY <1>13, <2>1, <3>2 DEF GoodAt
      <3> QED BY <1>3, <1>4, <2>2, <3>3 DEF GoodAt
    <2>3. CASE d # e /\ d \in stale
      <3>1. entry[d].status = "IN_PROGRESS"
        BY <1>2, <2>3 DEF Stale
      <3>2. \A hit \in BOOLEAN : Good(entry[d], wrong[d], hit) => Good(Released(entry[d]), wrong[d], hit)
        BY <2>1, <3>1, GoodHeld
      <3>3. Good(Released(entry[d]), wrong[d], d \in reached)
        BY <1>13, <2>1, <3>2 DEF GoodAt
      <3> QED BY <1>3, <1>4, <2>3, <3>3 DEF GoodAt
    <2>4. CASE d # e /\ d \notin stale
      BY <1>3, <1>4, <1>13, <2>4 DEF GoodAt
    <2> QED BY <2>2, <2>3, <2>4
  <1>14. RowsGood'
    BY <1>4, <1>13, RowsKept DEF IInv
  <1> QED BY <1>5, <1>11, <1>12, <1>14 DEF Rest

\* A page that closes shows nobody any more.
LEMMA ReloadStep ==
  ASSUME IInv, TypeOK', NEW c \in Caller, Reload(c)
  PROVE  Rest'
  <1>1. /\ screen' = [screen EXCEPT ![c] = None] /\ Takes({})
        /\ UNCHANGED <<entry, req, late, reached, wrong>>
    BY DEF Reload, outcomes
  <1>2. screen \in [Caller -> Entry \cup {None}]
    BY DEF IInv, TypeOK
  <1>3. ClaimsApart' /\ ClaimsHold'
    BY <1>1, ClaimsKept DEF IInv
  <1>4. ScreensInProgress' /\ OneCallerPerVoter'
    <2>1. \A b \in Caller : screen'[b] \in {screen[b], None}
      BY <1>1, <1>2
    <2>2. \A b \in Caller : screen'[b] \in taken \cup {} => screen'[b] \in taken'
      BY <1>1, TakesFromScreens
    <2> QED BY <1>1, <2>1, <2>2, ScreensKept DEF IInv
  <1>5. RowsGood'
    BY <1>1, RowsKept DEF GoodAt, IInv
  <1> QED BY <1>3, <1>4, <1>5 DEF Rest

-----------------------------------------------------------------------------
(* The theorems *)

LEMMA StepInv == IInv /\ [Next]_vars => IInv'
  <1> SUFFICES ASSUME IInv, [Next]_vars PROVE IInv'
    OBVIOUS
  <1>1. TypeOK' /\ RequestsSay'
    BY TypeStep, RequestsStep DEF IInv
  <1> SUFFICES Rest'
    BY <1>1 DEF IInv, Rest
  <1> DEFINE same == UNCHANGED <<entry, screen, taken, late, outcomes>>
             noClaim == \A s \in Request : req'[s] = req[s] \/ req'[s].op # "claim"
  <1>2. ASSUME same, noClaim PROVE Rest'
    BY <1>1, <1>2, Unwritten
  <1>3. req \in [Request -> RequestRow]
    BY TypeParts DEF IInv
  <1>4. ASSUME NEW r \in Request, WriteStep(r) PROVE Rest'
    BY <1>1, <1>4, CommitStep, RecordStep, ReleaseStep, ReassignStep DEF WriteStep
  <1>5. ASSUME NEW r \in Request, ReleaseRead(r) PROVE Rest'
    <2>1. noClaim
      BY <1>3, <1>5 DEF ReleaseRead
    <2> QED BY <1>2, <1>5, <2>1 DEF ReleaseRead
  <1>6. ASSUME NEW r \in Request, ReassignRead(r) PROVE Rest'
    <2>1. noClaim
      BY <1>3, <1>6 DEF ReassignRead
    <2> QED BY <1>2, <1>6, <2>1 DEF ReassignRead
  <1>7. ASSUME NEW r \in Request, Rollback(r) PROVE Rest'
    <2>1. noClaim
      BY <1>7, FinishClaimsNothing DEF IInv, Rollback
    <2> QED BY <1>2, <1>7, <2>1 DEF Rollback
  <1>8. ASSUME NEW r \in Request, NEW c \in Caller, RecordRead(r, c) PROVE Rest'
    <2>1. noClaim
      BY <1>3, <1>8 DEF RecordRead
    <2> QED BY <1>2, <1>8, <2>1 DEF RecordRead
  <1>9. ASSUME NEW r \in Request, NEW c \in Caller, ClaimSelect(r, c) PROVE Rest'
    <2>1. ClaimsApart' /\ ClaimsHold'
      BY <1>9, ClaimsSelected DEF IInv
    <2>2. same
      BY <1>9 DEF ClaimSelect
    <2>3. ScreensInProgress' /\ OneCallerPerVoter' /\ RowsGood'
      BY <2>2 DEF IInv, ScreensInProgress, OneCallerPerVoter, RowsGood, outcomes
    <2> QED BY <2>1, <2>3 DEF Rest
  <1>10. ASSUME NEW c \in Caller, CheckOut(c) \/ RemoveCaller(c) PROVE Rest'
    <2>1. /\ CallersEntries(c) \in SUBSET Entry
          /\ \A e \in CallersEntries(c) : entry[e].status = "IN_PROGRESS"
      BY DEF CallersEntries
    <2>2. ReleaseAll(CallersEntries(c)) /\ UNCHANGED <<req, late, outcomes>>
      BY <1>10 DEF CheckOut, RemoveCaller
    <2>3. \A b \in Caller : screen'[b] \in {screen[b], None}
      BY <1>10 DEF CheckOut, RemoveCaller, IInv, TypeOK
    <2> QED BY <1>1, <2>1, <2>2, <2>3, ReleasedAll
  <1>11. ASSUME NEW c \in Caller, AddCaller(c) PROVE Rest'
    BY <1>2, <1>11 DEF AddCaller
  <1>12. ASSUME NEW c \in Caller, Reload(c) PROVE Rest'
    BY <1>1, <1>12, ReloadStep
  <1>13. ASSUME NEW e \in Entry, ClaimTimesOut(e) PROVE Rest'
    BY <1>1, <1>13, TimeoutStep
  <1>14. CASE UpdateSession
    <2>1. CASE UNCHANGED <<entry, taken>>
      BY <1>2, <1>14, <2>1 DEF UpdateSession
    <2>2. CASE ReleaseAll({e \in Entry : entry[e].status = "IN_PROGRESS"})
      <3>1. UNCHANGED <<req, late, outcomes>> /\ \A b \in Caller : screen'[b] \in {screen[b], None}
        BY <1>14 DEF UpdateSession
      <3> QED BY <1>1, <2>2, <3>1, ReleasedAll
    <2> QED BY <1>14, <2>1, <2>2 DEF UpdateSession
  <1>15. CASE CloseList
    BY <1>2, <1>15 DEF CloseList
  <1>16. CASE UNCHANGED vars
    BY <1>2, <1>16 DEF vars, outcomes
  <1> QED BY <1>4, <1>5, <1>6, <1>7, <1>8, <1>9, <1>10, <1>11, <1>12, <1>13, <1>14, <1>15, <1>16
          DEF Next

LEMMA InvHolds == Spec => []IInv
  BY InitInv, StepInv, PTL DEF Spec

\* Every reachable state is typed: what requests wrote over rows they had read
\* earlier is still a row of the table.
THEOREM TypeCorrect == Spec => []TypeOK
  <1>1. IInv => TypeOK
    BY DEF IInv
  <1> QED BY <1>1, InvHolds, PTL

\* SKIP LOCKED keeps two callers from one voter: for two to see the same one
\* somebody must have ended a claim that was still on a screen.
THEOREM VotersNotShared == Spec => []OneCallerPerVoter
  <1>1. IInv => OneCallerPerVoter
    BY DEF IInv
  <1> QED BY <1>1, InvHolds, PTL

\* Who answered, refused or has died is not called again, unless a result came
\* late or an entry was released by hand.
THEOREM DoneStaysDone == Spec => []ReachedStaysDone
  <1>1. ASSUME IInv, NEW e \in reached \ late
        PROVE  entry[e].status \in {"COMPLETED", "TERMINAL"}
    <2>1. e \in Entry \ late
      BY <1>1 DEF IInv, TypeOK
    <2>2. Good(entry[e], wrong[e], e \in reached)
      BY <1>1, <2>1 DEF IInv, RowsGood
    <2> QED BY <1>1, <2>2 DEF Good
  <1>2. IInv => ReachedStaysDone
    BY <1>1 DEF ReachedStaysDone
  <1> QED BY <1>2, InvHolds, PTL

\* Nobody is called more often than max_attempts, and of at most two wrong
\* numbers none is called again.
THEOREM TriesAreBounded == Spec => []TriesRunOut
  <1>1. ASSUME IInv, NEW e \in Entry \ late
        PROVE  /\ entry[e].attempts <= MaxAttempts
               /\ entry[e].status = "AVAILABLE" => entry[e].attempts < MaxAttempts
               /\ Cardinality(Phone) <= 2 /\ wrong[e] = Phone => entry[e].status \in Done
    <2>1. Tries(entry[e], wrong[e])
      BY <1>1 DEF IInv, RowsGood, Good
    <2> QED BY <2>1 DEF Tries, Done
  <1>2. IInv => TriesRunOut
    BY <1>1 DEF TriesRunOut
  <1> QED BY <1>2, InvHolds, PTL

\* A claim has a caller and a time, so that it can be released by its timeout.
THEOREM ClaimsCanTimeOut == Spec => []ClaimHasOwner
  <1>1. IInv => ClaimHasOwner
    BY DEF IInv, RowsGood, Good, ClaimHasOwner
  <1> QED BY <1>1, InvHolds, PTL
=============================================================================
