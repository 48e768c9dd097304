---------------------------- MODULE CallClaims ----------------------------
(***************************************************************************)
(* The entries of one call list, the callers who work through it and the   *)
(* phone bank session around them: claiming with FOR UPDATE SKIP LOCKED,   *)
(* claims that time out, results, releases and reassignments, the end of   *)
(* the session, and the calling screen, which shows a caller one voter.    *)
(* Apart from a claim, which locks what it selects, every request reads    *)
(* the entry, checks what it read, and writes the attributes it changed.   *)
(***************************************************************************)
EXTENDS Integers, FiniteSets

CONSTANTS
  Caller,
  Entry,        \* voters on the list
  Phone,        \* numbers of each voter
  MaxAttempts,  \* call_list.max_attempts
  Request,      \* requests that may be in flight together
  Results,      \* bound: results recorded
  Helps,        \* bound: interventions of a supervisor or manager
  None

ASSUME CallAssumption ==
  /\ None \notin Caller \cup Entry \cup Phone
  /\ IsFiniteSet(Phone) /\ Phone # {} \* voters without a number are not listed
  /\ MaxAttempts \in Nat \ {0}
  /\ Results \in Nat
  /\ Helps \in Nat

\* answered; refused, deceased; wrong number, disconnected; no answer, busy,
\* voicemail.
Result == {"answered", "person", "number", "recycle"}
Done   == {"COMPLETED", "TERMINAL", "MAX_ATTEMPTS"}
Status == Done \cup {"AVAILABLE", "IN_PROGRESS"}

\* since compares claimed_at with the claim timeout; tried: keys of the
\* phone_attempts column.
EntryRow == [status: Status, by: Caller \cup {None}, since: {"null", "fresh", "stale"},
             attempts: Nat, tried: SUBSET Phone]
NewEntry == [status |-> "AVAILABLE", by |-> None, since |-> "null",
             attempts |-> 0, tried |-> {}]

VARIABLES
  entry,    \* call_list_entries
  open,     \* is the call list ACTIVE?  COMPLETED otherwise
  session,  \* phone_bank_sessions.status, once it has been activated
  listed,   \* callers with a session_callers row
  screen,   \* the entry on each caller's calling screen
  req,      \* the requests in flight
  left,     \* results and interventions left
  taken,    \* history: entries whose claim somebody else ended while they were
            \* on a screen
  late,     \* history: entries written on an outdated read, or released by hand
            \* when they were done
  reached,  \* history: entries whose voter answered, refused or has died
  wrong     \* history: each entry's numbers that were recorded as wrong

vars == <<entry, open, session, listed, screen, req, left, taken, late, reached,
          wrong>>
bank == <<open, session, listed>>
outcomes == <<reached, wrong>>

Idle == [op |-> "none", who |-> None, entry |-> None, arg |-> None,
         view |-> NewEntry, stale |-> {}]

Init ==
  /\ entry = [e \in Entry |-> NewEntry]
  /\ open = TRUE
  /\ session = "ACTIVE"
  /\ listed \in SUBSET Caller
  /\ screen = [c \in Caller |-> None]
  /\ req = [r \in Request |-> Idle]
  /\ left = [results |-> Results, helps |-> Helps]
  /\ taken = {} /\ late = {} /\ reached = {}
  /\ wrong = [e \in Entry |-> {}]

-----------------------------------------------------------------------------
(* Rows, locks and screens *)

\* A claim keeps the rows it selected, and the stale ones it releases, locked.
RowFree(e) ==
  \A r \in Request :
    req[r].op = "claim" => e # req[r].entry /\ e \notin req[r].stale

Stale(row) == row.status = "IN_PROGRESS" /\ row.since = "stale"

\* Mutant: who releases an entry keeps it in progress.
ReleasedHalf(row) == [row EXCEPT !.by = None, !.since = "null"]
Released(row) == [row EXCEPT !.status = "AVAILABLE", !.by = None, !.since = "null"]

\* Only an attribute that differs from what the request has read is written.
Set(old, view, new) == IF view = new THEN old ELSE new

ShownNext(e) == \E c \in Caller : screen'[c] = e

\* The entries E are written over what a screen may still show.
Takes(E) == taken' = {e \in taken \cup E : ShownNext(e)}

\* What a request reads; how old the claim is, it does not ask.
Read(row) == [row EXCEPT !.since = IF @ = "stale" THEN "fresh" ELSE @]

\* Bound: one intervention less.
Helped == left.helps > 0 /\ left' = [left EXCEPT !.helps = @ - 1]

Finish(r) == req' = [req EXCEPT ![r] = Idle]

\* The caller's screen moves on if the answer arrives and still concerns it.
Answered(c, e) ==
  \/ screen' = [screen EXCEPT ![c] = IF @ = e THEN None ELSE @]
  \/ UNCHANGED screen

-----------------------------------------------------------------------------
(* Claiming *)

\* Mutant: entries in progress are offered as well.
ClaimableTwice(e, stale) == entry[e].status \in {"AVAILABLE", "IN_PROGRESS"}
Claimable(e, stale) == entry[e].status = "AVAILABLE" \/ e \in stale

\* The list is read, the stale claims are released and an available entry that
\* nobody else has locked is selected.  The session is not looked at.
ClaimSelect(r, c) ==
  LET stale == {e \in Entry : Stale(entry[e])}
  IN  /\ req[r] = Idle
      /\ open
      /\ screen[c] = None
      /\ \A e \in stale : RowFree(e)
      /\ LET offered == {e \in Entry : Claimable(e, stale) /\ RowFree(e)}
         IN  \E e \in IF offered = {} THEN {None} ELSE offered :
               req' = [req EXCEPT ![r] =
                        [Idle EXCEPT !.op = "claim", !.who = c, !.entry = e,
                                     !.stale = stale]]
  /\ UNCHANGED <<entry, bank, screen, left, taken, late, outcomes>>

ClaimCommit(r) ==
  LET e == req[r].entry
      c == req[r].who
  IN  /\ req[r].op = "claim"
      /\ entry' = [d \in Entry |->
           IF d = e
           THEN [entry[d] EXCEPT !.status = "IN_PROGRESS", !.by = c, !.since = "fresh"]
           ELSE IF d \in req[r].stale THEN Released(entry[d]) ELSE entry[d]]
      /\ \/ screen' = IF screen[c] = None THEN [screen EXCEPT ![c] = e] ELSE screen
         \/ UNCHANGED screen
      /\ Takes(req[r].stale)
      /\ Finish(r)
      /\ UNCHANGED <<bank, left, late, outcomes>>

-----------------------------------------------------------------------------
(* Recording a result *)

\* record_call asks only that the entry was claimed by this caller.
RecordRead(r, c) ==
  /\ req[r] = Idle
  /\ left.results > 0
  /\ screen[c] # None
  /\ entry[screen[c]].by = c
  /\ req' = [req EXCEPT ![r] = [op |-> "record", who |-> c, entry |-> screen[c],
                                arg |-> None, view |-> Read(entry[screen[c]]), stale |-> {}]]
  /\ left' = [left EXCEPT !.results = @ - 1]
  /\ UNCHANGED <<entry, bank, screen, taken, late, outcomes>>

\* phone_attempts grown in place is no change: only a first number is written,
\* but what this request tries counts for it.
TriedWritten(view, p) == IF view.tried = {} THEN {p} ELSE view.tried

\* Mutant: one attempt more.
ExhaustedLate(n) == n > MaxAttempts
Exhausted(n) == n >= MaxAttempts

\* Mutant: a status the column does not have.
RecycledRetry(n) == IF Exhausted(n) THEN "MAX_ATTEMPTS" ELSE "RETRY"
Recycled(n) == IF Exhausted(n) THEN "MAX_ATTEMPTS" ELSE "AVAILABLE"

\* What the result makes of the entry this request has read.
After(view, res, p) ==
  CASE res = "answered" -> [view EXCEPT !.status = "COMPLETED", !.attempts = @ + 1]
    [] res = "person"   -> [view EXCEPT !.status = "TERMINAL"]
    [] res = "number"   ->
         [view EXCEPT !.status = IF view.tried \cup {p} = Phone THEN "TERMINAL"
                                 ELSE "AVAILABLE",
                      !.tried = TriedWritten(view, p)]
    [] res = "recycle"  ->
         [view EXCEPT !.status = Recycled(view.attempts + 1),
                      !.attempts = @ + 1,
                      !.tried = TriedWritten(view, p)]

Write(row, view, new) ==
  [row EXCEPT !.status = Set(@, view.status, new.status),
              !.by = Set(@, view.by, new.by),
              !.since = Set(@, view.since, new.since),
              !.attempts = Set(@, view.attempts, new.attempts),
              !.tried = Set(@, view.tried, new.tried)]

\* The row is as the request has read it, the clock aside, and in progress.
UpToDate(r) ==
  LET e == req[r].entry
  IN  /\ entry[e].status = "IN_PROGRESS"
      /\ Read(entry[e]) = req[r].view

RecordWrite(r) ==
  LET e == req[r].entry
      v == req[r].view
  IN  /\ req[r].op = "record"
      /\ RowFree(e)
      /\ \E res \in Result, p \in Phone :
           /\ entry' = [entry EXCEPT ![e] = Write(@, v, After(v, res, p))]
           /\ reached' = IF res \in {"answered", "person"} THEN reached \cup {e}
                         ELSE reached
           /\ wrong' = IF res = "number" THEN [wrong EXCEPT ![e] = @ \cup {p}] ELSE wrong
      /\ Answered(req[r].who, e)
      /\ Takes({e})
      /\ late' = IF UpToDate(r) THEN late ELSE late \cup {e}
      /\ Finish(r)
      /\ UNCHANGED <<bank, left>>

-----------------------------------------------------------------------------
(* Releasing and reassigning *)

\* The caller skips the voter on the screen, or a supervisor takes any entry.
ReleaseRead(r) ==
  /\ req[r] = Idle
  /\ \/ \E c \in Caller :
          /\ screen[c] # None
          /\ entry[screen[c]].by = c
          /\ req' = [req EXCEPT ![r] = [op |-> "release", who |-> c, entry |-> screen[c],
                       arg |-> None, view |-> Read(entry[screen[c]]), stale |-> {}]]
          /\ UNCHANGED left
     \/ /\ Helped
        /\ \E e \in Entry :
             req' = [req EXCEPT ![r] = [op |-> "release", who |-> None, entry |-> e,
                       arg |-> None, view |-> Read(entry[e]), stale |-> {}]]
  /\ UNCHANGED <<entry, bank, screen, taken, late, outcomes>>

ReleaseWrite(r) ==
  LET e == req[r].entry
      v == req[r].view
  IN  /\ req[r].op = "release"
      /\ RowFree(e)
      /\ entry' = [entry EXCEPT ![e] = Write(@, v, Released(v))]
      /\ IF req[r].who = None THEN UNCHANGED screen ELSE Answered(req[r].who, e)
      /\ Takes({e})
      /\ late' = IF UpToDate(r) THEN late ELSE late \cup {e}
      /\ Finish(r)
      /\ UNCHANGED <<bank, left, outcomes>>

\* The new caller is not told.
ReassignRead(r) ==
  /\ req[r] = Idle
  /\ Helped
  /\ \E e \in Entry, c \in Caller :
       req' = [req EXCEPT ![r] = [op |-> "reassign", who |-> None, entry |-> e,
                 arg |-> c, view |-> Read(entry[e]), stale |-> {}]]
  /\ UNCHANGED <<entry, bank, screen, taken, late, outcomes>>

ReassignWrite(r) ==
  LET e == req[r].entry
  IN  /\ req[r].op = "reassign"
      /\ RowFree(e)
      /\ entry' = [entry EXCEPT ![e].by = Set(@, req[r].view.by, req[r].arg),
                                ![e].since = "fresh"]
      /\ UNCHANGED <<bank, screen, left, late, outcomes>>
      /\ Takes({e})
      /\ Finish(r)

\* Mutant: the status is left out of the condition.
CallersEntriesAnyStatus(c) == {e \in Entry : entry[e].by = c}
CallersEntries(c) == {e \in Entry : entry[e].by = c /\ entry[e].status = "IN_PROGRESS"}

ReleaseAll(E) ==
  /\ \A e \in E : RowFree(e)
  /\ entry' = [e \in Entry |-> IF e \in E THEN Released(entry[e]) ELSE entry[e]]
  /\ Takes(E)

-----------------------------------------------------------------------------
(* The session, its callers, and the passing of time *)

\* check_in asks for an ACTIVE session, assign_caller for none.
AddCaller(c) ==
  /\ c \notin listed
  /\ listed' = listed \cup {c}
  /\ UNCHANGED <<entry, open, session, screen, req, left, taken, late, outcomes>>

\* The caller leaves the calling screen and checks out, or the supervisor ends
\* the caller's session.
CheckOut(c) ==
  /\ c \in listed
  /\ screen' = [screen EXCEPT ![c] = None]
  /\ ReleaseAll(CallersEntries(c))
  /\ UNCHANGED <<bank, req, left, late, outcomes>>

RemoveCaller(c) ==
  /\ c \in listed
  /\ Helped
  /\ listed' = listed \ {c}
  /\ UNCHANGED <<open, session, screen, req, late, outcomes>>
  /\ ReleaseAll(CallersEntries(c))

\* Pausing and resuming touch no entry; completing releases those in progress.
UpdateSession ==
  /\ Helped
  /\ UNCHANGED <<open, listed, screen, req, late, outcomes>>
  /\ \/ /\ session = "ACTIVE"
        /\ session' = "PAUSED"
        /\ UNCHANGED <<entry, taken>>
     \/ /\ session = "PAUSED"
        /\ session' = "ACTIVE"
        /\ UNCHANGED <<entry, taken>>
     \/ /\ session # "COMPLETED"
        /\ session' = "COMPLETED"
        /\ ReleaseAll({e \in Entry : entry[e].status = "IN_PROGRESS"})

CloseList ==
  /\ open
  /\ open' = FALSE
  /\ Helped
  /\ UNCHANGED <<entry, session, listed, screen, req, taken, late, outcomes>>

\* The claim timeout passes; claimed_at stays when a result is recorded.
ClaimTimesOut(e) ==
  /\ entry[e].since = "fresh"
  /\ entry' = [entry EXCEPT ![e].since = "stale"]
  /\ UNCHANGED <<bank, screen, req, left, taken, late, outcomes>>

\* The page is closed or reloaded: the screen is gone, the claim is not.
Reload(c) ==
  /\ screen[c] # None
  /\ screen' = [screen EXCEPT ![c] = None]
  /\ Takes({})
  /\ UNCHANGED <<entry, bank, req, left, late, outcomes>>

\* The request fails before it commits.
Rollback(r) ==
  /\ req[r] # Idle
  /\ Finish(r)
  /\ UNCHANGED <<entry, bank, screen, left, taken, late, outcomes>>

-----------------------------------------------------------------------------
WriteStep(r) == ClaimCommit(r) \/ RecordWrite(r) \/ ReleaseWrite(r) \/ ReassignWrite(r)

Next ==
  \/ \E r \in Request :
       \/ WriteStep(r) \/ ReleaseRead(r) \/ ReassignRead(r) \/ Rollback(r)
       \/ \E c \in Caller : ClaimSelect(r, c) \/ RecordRead(r, c)
  \/ \E c \in Caller : AddCaller(c) \/ CheckOut(c) \/ RemoveCaller(c) \/ Reload(c)
  \/ \E e \in Entry : ClaimTimesOut(e)
  \/ UpdateSession \/ CloseList

Spec == Init /\ [][Next]_vars

-----------------------------------------------------------------------------
(* Properties *)

\* Every variable has its type.
TypeOK ==
  /\ entry \in [Entry -> EntryRow]
  /\ open \in BOOLEAN
  /\ session \in {"ACTIVE", "PAUSED", "COMPLETED"}
  /\ listed \subseteq Caller
  /\ screen \in [Caller -> Entry \cup {None}]
  /\ req \in [Request -> [op: {"none", "claim", "record", "release", "reassign"},
                          who: Caller \cup {None}, entry: Entry \cup {None},
                          arg: Caller \cup {None}, view: EntryRow,
                          stale: SUBSET Entry]]
  /\ left \in [results: Nat, helps: Nat]
  /\ taken \subseteq Entry /\ late \subseteq Entry /\ reached \subseteq Entry
  /\ wrong \in [Entry -> SUBSET Phone]

\* No voter is on two callers' screens, unless somebody ended the claim of one
\* who still had the voter on screen: its timeout, a supervisor, the end of the
\* session, or a result or release that came late or twice.
OneCallerPerVoter ==
  \A c, d \in Caller : c # d /\ screen[c] # None /\ screen[c] = screen[d]
    => screen[c] \in taken

\* A voter who answered, refused or has died is not offered again, although
\* claimed_by and claimed_at stay on the entry: no timeout, check-out, removal
\* or end of a session brings it back, only a late write or a release by hand.
ReachedStaysDone ==
  \A e \in reached \ late : entry[e].status \in {"COMPLETED", "TERMINAL"}

\* A voter whose tries are used up leaves the list, whoever made them: after
\* max_attempts without an answer, or when every number was recorded as wrong; only
\* a late write loses count.  The numbers only if there are at most two:
\* phone_attempts is grown in place and saved with its first number only, so a
\* third is never found to be the last one.
TriesRunOut ==
  \A e \in Entry \ late :
    /\ entry[e].attempts <= MaxAttempts
    /\ entry[e].status = "AVAILABLE" => entry[e].attempts < MaxAttempts
    /\ Cardinality(Phone) <= 2 /\ wrong[e] = Phone => entry[e].status \in Done

\* An entry in progress is somebody's, since some time, so that its claim can
\* time out; only a late release leaves it nobody's for ever.
ClaimHasOwner ==
  \A e \in Entry \ late :
    entry[e].status = "IN_PROGRESS" => entry[e].by # None /\ entry[e].since # "null"
=============================================================================
