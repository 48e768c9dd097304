---------------------------- MODULE ShiftSignup ----------------------------
(***************************************************************************)
(* One volunteer shift: signups under a capacity, the waitlist, check-in   *)
(* and check-out.  Every request that depends on the capacity locks the    *)
(* shift row first; check-in and check-out read the signup before they ask *)
(* for that lock.  A request is one transaction: it decides when it has    *)
(* read, and writes when it commits.  The SessionCaller or                 *)
(* WalkListCanvasser row that a check also writes is shared with the phone *)
(* bank and the walk lists, nothing here reads it, and it is left out; its *)
(* insert may fail, and the request with it.                               *)
(***************************************************************************)
EXTENDS Integers, FiniteSets

CONSTANTS
  Volunteer,   \* active volunteers, with an emergency contact
  Request,     \* requests that may be in flight together
  Sizes,       \* values of max_volunteers a manager may choose
  Resizes,     \* bound: changes of max_volunteers
  Checks,      \* bound: check-ins and check-outs
  None

ASSUME ShiftAssumption ==
  /\ IsFiniteSet(Volunteer)
  /\ Sizes \subseteq Int
  /\ Sizes # {}
  /\ Resizes \in Nat
  /\ Checks \in Nat
  /\ None \notin Volunteer

\* ABSENT: no row.  (shift, volunteer) is unique, and rows are never deleted.
Active       == {"SIGNED_UP", "WAITLISTED", "CHECKED_IN", "CHECKED_OUT"}
SignupStatus == Active \cup {"CANCELLED", "ABSENT"}
\* CLOSED: ACTIVE, COMPLETED or CANCELLED, which no request tells apart.
ShiftStatus  == {"SCHEDULED", "CLOSED", "DELETED"}

Signup(status, position) == [status |-> status, position |-> position]
Place    == Signup("SIGNED_UP", 0)
NoSignup == Signup("ABSENT", 0)

VARIABLES
  shift,      \* the shift row: status, max_volunteers
  signup,     \* each volunteer's row: status, waitlist_position (0: null)
  req,        \* the requests in flight
  left,       \* changes of max_volunteers and checks left
  allowed,    \* history: the first max_volunteers, each place added to it and
              \* each place a manager gave
  vacated     \* history: places that came free without a promotion since the
              \* line formed

vars == <<shift, signup, req, left, allowed, vacated>>
history == <<allowed, vacated>>

Idle == [op |-> "none", vol |-> None, at |-> "idle", row |-> NoSignup, next |-> None]

Larger(m, n) == IF m < n THEN n ELSE m

Init ==
  /\ shift \in [status: {"SCHEDULED"}, max: Sizes]
  /\ signup = [v \in Volunteer |-> NoSignup]
  /\ req = [r \in Request |-> Idle]
  /\ left = [resizes |-> Resizes, checks |-> Checks]
  /\ allowed = Larger(shift.max, 0)
  /\ vacated = 0

-----------------------------------------------------------------------------
(* The rows, and the lock on the shift row *)

With(status) == {v \in Volunteer : signup[v].status = status}
SignedUp == With("SIGNED_UP")
Waiting  == With("WAITLISTED")

\* Mutant: the shift is read without FOR UPDATE.
ShiftFreeAlways == shift.status # "DELETED"
ShiftFree ==
  /\ shift.status # "DELETED"
  /\ \A r \in Request : req[r].at # "locked"

\* Mutant: the position is a count of the line, not the end of it.
EndOfLineCount == Cardinality(Waiting) + 1
EndOfLine ==
  CHOOSE n \in 1..(Cardinality(Volunteer) + 1) :
    /\ \A v \in Waiting : signup[v].position < n
    /\ n = 1 \/ \E v \in Waiting : signup[v].position = n - 1

\* Mutant: the query for the next in line has no order.
FirstInLineAny(v) == v \in Waiting
FirstInLine(v) ==
  /\ v \in Waiting
  /\ \A u \in Waiting : signup[v].position <= signup[u].position

\* The request holds the shift row from here to its end.
Locks(r, op, v, row, next) ==
  req' = [req EXCEPT ![r] =
            [op |-> op, vol |-> v, at |-> "locked", row |-> row, next |-> next]]

-----------------------------------------------------------------------------
(* Signing up, being assigned, cancelling *)

HasPlace == Cardinality(SignedUp) < shift.max

\* A cancelled signup does not count as one.
MaySign(v) == signup[v].status \notin Active

SignupVolunteer(r, v) ==
  /\ req[r] = Idle
  /\ ShiftFree
  /\ MaySign(v)
  /\ Locks(r, "signup", v,
           IF HasPlace THEN Place ELSE Signup("WAITLISTED", EndOfLine), None)
  /\ UNCHANGED <<shift, signup, left, history>>

ManagerAssign(r, v) ==
  /\ req[r] = Idle
  /\ ShiftFree
  /\ MaySign(v)
  /\ Locks(r, "assign", v, Place, None)
  /\ UNCHANGED <<shift, signup, left, history>>

\* Mutant: nobody is promoted.
PromotesNever(v) == FALSE
\* Only who leaves a counted place makes room for the next in line.
Promotes(v) == v \in SignedUp /\ Waiting # {}

CancelSignup(r, v) ==
  /\ req[r] = Idle
  /\ ShiftFree
  /\ signup[v].status \in Active
  /\ \/ /\ Promotes(v)
        /\ \E u \in Volunteer :
             FirstInLine(u) /\ Locks(r, "cancel", v, Signup("CANCELLED", 0), u)
     \/ ~Promotes(v) /\ Locks(r, "cancel", v, Signup("CANCELLED", 0), None)
  /\ UNCHANGED <<shift, signup, left, history>>

\* A signup is a new row, which the cancelled one in its place does not allow.
InsertRefused(r) ==
  /\ req[r].at = "locked"
  /\ req[r].op \in {"signup", "assign"}
  /\ signup[req[r].vol].status # "ABSENT"
  /\ req' = [req EXCEPT ![r] = Idle]
  /\ UNCHANGED <<shift, signup, left, history>>

\* Nothing is owed to a line that has gone.
StillVacated(n) ==
  IF \E v \in Volunteer : signup'[v].status = "WAITLISTED" THEN n ELSE 0

Commit(r) ==
  /\ req[r].at = "locked"
  /\ req[r].op # "cancel" => signup[req[r].vol].status = "ABSENT"
  /\ signup' = [v \in Volunteer |-> IF v = req[r].vol THEN req[r].row
                                    ELSE IF v = req[r].next THEN Place
                                    ELSE signup[v]]
  /\ allowed' = IF req[r].op = "assign" THEN allowed + 1 ELSE allowed
  /\ vacated' = StillVacated(vacated)
  /\ req' = [req EXCEPT ![r] = Idle]
  /\ UNCHANGED <<shift, left>>

-----------------------------------------------------------------------------
(* The shift itself *)

\* Nobody is promoted into a place that is added.  The other fields that may be
\* set, the type and the phone bank session among them, decide no signup.
UpdateShift(m) ==
  /\ ShiftFree
  /\ shift.status = "SCHEDULED"
  /\ left.resizes > 0
  /\ shift' = [shift EXCEPT !.max = m]
  /\ left' = [left EXCEPT !.resizes = @ - 1]
  /\ UNCHANGED <<signup, req>>
  /\ allowed' = allowed + Larger(m - shift.max, 0)
  /\ vacated' = StillVacated(vacated + Larger(m - shift.max, 0))

\* Forward only: no status leads back to SCHEDULED.
UpdateStatus ==
  /\ ShiftFree
  /\ shift.status = "SCHEDULED"
  /\ shift' = [shift EXCEPT !.status = "CLOSED"]
  /\ UNCHANGED <<signup, req, left, history>>

\* A shift that anybody ever signed up for is kept by the foreign key.
DeleteShift ==
  /\ ShiftFree
  /\ shift.status = "SCHEDULED"
  /\ With("ABSENT") = Volunteer
  /\ shift' = [shift EXCEPT !.status = "DELETED"]
  /\ UNCHANGED <<signup, req, left, history>>

-----------------------------------------------------------------------------
(* Check-in and check-out: the signup is read before the shift is locked *)

CheckRead(r, v) ==
  /\ req[r] = Idle
  /\ left.checks > 0
  /\ signup[v].status \in Active
  /\ \E op \in {"check_in", "check_out"} :
       req' = [req EXCEPT ![r] = [op |-> op, vol |-> v, at |-> "read",
                                  row |-> Signup(signup[v].status, 0), next |-> None]]
  /\ left' = [left EXCEPT !.checks = @ - 1]
  /\ UNCHANGED <<shift, signup, history>>

\* Mutant: who is checked out counts as a no-show.
TargetNoShow(op) == IF op = "check_in" THEN "CHECKED_IN" ELSE "NO_SHOW"
Target(op) == IF op = "check_in" THEN "CHECKED_IN" ELSE "CHECKED_OUT"

\* The status is written unless the request has read it so.
Checked(r, v) ==
  IF req[r].row.status = Target(req[r].op) THEN signup[v]
  ELSE [signup[v] EXCEPT !.status = Target(req[r].op)]

CheckWrite(r) ==
  LET v == req[r].vol
  IN  /\ req[r].at = "read"
      /\ ShiftFree
      /\ signup' = [signup EXCEPT ![v] = Checked(r, v)]
      /\ vacated' = StillVacated(
           IF signup[v].status = "SIGNED_UP" /\ Checked(r, v) # signup[v]
           THEN vacated + 1 ELSE vacated)
      /\ req' = [req EXCEPT ![r] = Idle]
      /\ UNCHANGED <<shift, left, allowed>>

\* The request ends with nothing written: a lost connection, a check-in whose
\* walk list has this canvasser already, or the deadlock of a check-in, which has
\* written its row and wants the shift, with a cancellation, which has the shift
\* and wants the row.
Rollback(r) ==
  /\ req[r] # Idle
  /\ req' = [req EXCEPT ![r] = Idle]
  /\ UNCHANGED <<shift, signup, left, history>>

-----------------------------------------------------------------------------
Next ==
  \/ \E r \in Request, v \in Volunteer :
       \/ SignupVolunteer(r, v) \/ ManagerAssign(r, v)
       \/ CancelSignup(r, v) \/ CheckRead(r, v)
  \/ \E r \in Request :
       InsertRefused(r) \/ Commit(r) \/ CheckWrite(r) \/ Rollback(r)
  \/ \E m \in Sizes : UpdateShift(m)
  \/ UpdateStatus \/ DeleteShift

Spec == Init /\ [][Next]_vars

-----------------------------------------------------------------------------
(* Properties *)

\* Every variable has its type.
TypeOK ==
  /\ shift \in [status: ShiftStatus, max: Int]
  /\ signup \in [Volunteer -> [status: SignupStatus, position: Nat]]
  /\ req \in [Request -> [op: {"none", "signup", "assign", "cancel", "check_in",
                               "check_out"},
                          vol: Volunteer \cup {None},
                          at: {"idle", "read", "locked"},
                          row: [status: SignupStatus, position: Nat],
                          next: Volunteer \cup {None}]]
  /\ left \in [resizes: Nat, checks: Nat]
  /\ allowed \in Nat
  /\ vacated \in Nat

\* "Hard capacity cap: max_volunteers field, self-signup blocked when full,
\* managers can override": nobody holds a place but those the shift was given and
\* those its managers added, however signups, cancellations, promotions and
\* check-ins interleave.  (Who is checked in no longer counts: see README.)
CapacityHeld == Cardinality(SignedUp) <= allowed

\* While somebody waits, every place is taken, apart from those that a check-in
\* or a larger capacity freed, for which the code promotes nobody: no
\* cancellation loses a promotion.
NoPlaceIdle ==
  Waiting # {} => Cardinality(SignedUp) + vacated >= shift.max

\* No two volunteers wait at the same position, so the line has an order.
PositionsDistinct ==
  \A u, v \in Waiting : u # v => signup[u].position # signup[v].position

\* A promotion takes the first of those who wait, and whoever joins the line
\* joins it at the end, also when the request decided long before it commits.
FirstComeFirstPromoted ==
  [][\A u, v \in Volunteer :
       signup[u].status = "WAITLISTED" =>
         /\ signup[v].status = "WAITLISTED" /\ signup'[v].status = "SIGNED_UP"
              => signup[v].position <= signup[u].position
         /\ signup[v].status # "WAITLISTED" /\ signup'[v].status = "WAITLISTED"
              => signup[u].position < signup'[v].position]_vars

\* A cancellation stands: no signup, no assignment and no promotion, however long
\* before it was decided, brings a cancelled volunteer back.  Only a check-in or
\* check-out does that read the signup before it was cancelled.
CancellationStands ==
  [][\A v \in Volunteer :
       signup[v].status = "CANCELLED" /\ signup'[v].status # "CANCELLED" =>
         \E r \in Request :
           /\ req[r].at = "read" /\ req[r].vol = v
           /\ req[r].row.status # "CANCELLED"
           /\ signup'[v].status = Target(req[r].op)]_vars
=============================================================================
