-------------------------- MODULE ShiftSignupProofs --------------------------
(***************************************************************************)
(* For any volunteers, requests and capacities: the capacity holds, no     *)
(* promotion is lost, and the line keeps its order.  All of it rests on    *)
(* what a request that holds the shift row has decided: it stays true      *)
(* until that request commits, because everybody else waits for the row.   *)
(***************************************************************************)
EXTENDS ShiftSignup, FiniteSetTheorems, WellFoundedInduction, TLAPS

-----------------------------------------------------------------------------
(* The end of the line *)

\* Volunteers with a row; a row is never deleted, so they only grow.
Rows == {v \in Volunteer : signup[v].status # "ABSENT"}

\* Nobody waits further back than there are rows.
LineBounded == \A v \in Waiting : signup[v].position <= Cardinality(Rows)

LEMMA SetsFinite ==
  ASSUME NEW S \in SUBSET Volunteer
  PROVE  IsFiniteSet(S) /\ Cardinality(S) \in Nat /\ Cardinality(S) <= Cardinality(Volunteer)
  BY FS_Subset, FS_CardinalityType, ShiftAssumption

\* A set of naturals that is not empty has a least element.
LEMMA LeastNatural ==
  ASSUME NEW T \in SUBSET Nat, T # {}
  PROVE  \E n \in T : \A m \in T : n <= m
  <1> DEFINE Less == OpToRel(<, Nat)
  <1>1. IsWellFoundedOn(Less, Nat)
    BY NatLessThanWellFounded
  <1>2. \A m, n \in Nat : m < n => <<m, n>> \in Less
    BY DEF OpToRel
  <1> HIDE DEF Less
  <1>3. PICK n \in T : \A m \in T : ~(<<m, n>> \in Less)
    BY <1>1, WFMin
  <1>4. \A m \in T : m \in Nat /\ n \in Nat /\ ~(m < n)
    BY <1>2, <1>3, Zenon
  <1> QED BY <1>4

\* The position after the last one exists: EndOfLine finds it.
LEMMA EndOfLineBehind ==
  ASSUME TypeOK, LineBounded
  PROVE  /\ EndOfLine \in 1..(Cardinality(Rows) + 1)
         /\ \A v \in Waiting : signup[v].position < EndOfLine
  <1> DEFINE Behind == {n \in 1..(Cardinality(Rows) + 1) :
                          \A v \in Waiting : signup[v].position < n}
  <1>1. Cardinality(Rows) \in Nat /\ Cardinality(Rows) <= Cardinality(Volunteer)
    BY SetsFinite DEF Rows
  <1>2. Cardinality(Volunteer) \in Nat
    BY FS_CardinalityType, ShiftAssumption
  <1>3. \A v \in Waiting : signup[v].position \in Nat
    BY DEF TypeOK, Waiting, With
  <1>4. Cardinality(Rows) + 1 \in Behind /\ Behind \in SUBSET Nat
    BY <1>1, <1>3 DEF LineBounded
  <1>5. PICK n \in Behind : \A m \in Behind : n <= m
    BY <1>4, LeastNatural
  <1>6. n = 1 \/ \E v \in Waiting : signup[v].position = n - 1
    <2>1. CASE n # 1
      <3>1. n - 1 \in 1..(Cardinality(Rows) + 1) /\ n - 1 \notin Behind
        BY <1>1, <1>5, <2>1
      <3>2. PICK v \in Waiting : ~(signup[v].position < n - 1)
        BY <3>1
      <3> QED BY <1>1, <1>3, <1>5, <3>1, <3>2
    <2> QED BY <2>1
  <1>7. PICK e \in 1..(Cardinality(Volunteer) + 1) :
          /\ e = EndOfLine
          /\ \A v \in Waiting : signup[v].position < e
          /\ e = 1 \/ \E v \in Waiting : signup[v].position = e - 1
    BY <1>1, <1>2, <1>5, <1>6 DEF EndOfLine
  <1>8. e <= Cardinality(Rows) + 1
    BY <1>1, <1>2, <1>3, <1>7 DEF LineBounded
  <1> QED BY <1>1, <1>2, <1>7, <1>8

-----------------------------------------------------------------------------
(* The invariant *)

\* One request at a time has the shift row.
OneHolder ==
  \A r, s \in Request : req[r].at = "locked" /\ req[s].at = "locked" => r = s

\* What the holder has decided, and that it is still so.
Joins(q) ==
  /\ q.op = "signup"
  /\ q.next = None
  /\ \/ q.row = Place /\ HasPlace
     \/ /\ q.row.status = "WAITLISTED"
        /\ q.row.position \in 1..(Cardinality(Rows) + 1)
        /\ \A v \in Waiting : signup[v].position < q.row.position
        /\ ~HasPlace
Assigned(q) == q.op = "assign" /\ q.row = Place /\ q.next = None
Leaves(q) ==
  /\ q.op = "cancel"
  /\ q.row = Signup("CANCELLED", 0)
  /\ signup[q.vol].status \in Active
  /\ \/ q.next = None /\ (q.vol \in SignedUp => Waiting = {})
     \/ q.vol \in SignedUp /\ FirstInLine(q.next)
Decided(q) == q.vol \in Volunteer /\ (Joins(q) \/ Assigned(q) \/ Leaves(q))
HolderDecided == \A r \in Request : req[r].at = "locked" => Decided(req[r])

\* A check-in or check-out in flight is somebody's.
ChecksSomebody ==
  \A r \in Request : req[r].at = "read" =>
    req[r].vol \in Volunteer /\ req[r].op \in {"check_in", "check_out"}

\* What holds of the rows whoever is at work on them.
RowsInv ==
  /\ LineBounded
  /\ PositionsDistinct
  /\ CapacityHeld
  /\ shift.max <= allowed
  /\ NoPlaceIdle

IInv ==
  TypeOK /\ OneHolder /\ HolderDecided /\ ChecksSomebody /\ RowsInv

LEMMA InitInv == Init => IInv
  <1> SUFFICES ASSUME Init PROVE IInv
    OBVIOUS
  <1>1. shift.max \in Int
    BY ShiftAssumption DEF Init
  <1>2. Waiting = {} /\ SignedUp = {}
    BY DEF Init, Waiting, SignedUp, With, NoSignup, Signup
  <1>3. TypeOK
    BY <1>1, ShiftAssumption
    DEF Init, TypeOK, NoSignup, Signup, SignupStatus, ShiftStatus, Idle, Larger
  <1>4. OneHolder /\ HolderDecided /\ ChecksSomebody
    BY DEF Init, Idle, OneHolder, HolderDecided, ChecksSomebody
  <1>5. RowsInv
    BY <1>1, <1>2, FS_EmptySet
    DEF Init, RowsInv, LineBounded, PositionsDistinct, CapacityHeld, NoPlaceIdle, Larger
  <1> QED BY <1>3, <1>4, <1>5 DEF IInv

-----------------------------------------------------------------------------
(* Steps that leave the rows alone *)

\* The facts about the rows depend on nothing else.
LEMMA RowsUnchanged ==
  ASSUME UNCHANGED <<shift, signup, allowed, vacated>>, RowsInv
  PROVE  RowsInv'
  BY DEF RowsInv, LineBounded, PositionsDistinct, CapacityHeld, NoPlaceIdle, Rows,
         Waiting, SignedUp, With

LEMMA DecidedUnchanged ==
  ASSUME UNCHANGED <<shift, signup>>, NEW q, Decided(q)
  PROVE  Decided(q)'
  BY DEF Decided, Joins, Assigned, Leaves, HasPlace, FirstInLine, Rows, Waiting,
         SignedUp, With, Place, Signup

\* A request that ends, or has only read, holds nothing.
LEMMA QuietStep ==
  ASSUME IInv, NEW r \in Request,
         \/ InsertRefused(r) \/ Rollback(r)
         \/ \E v \in Volunteer : CheckRead(r, v)
  PROVE  IInv'
  <1>1. UNCHANGED <<shift, signup, allowed, vacated>>
    BY DEF InsertRefused, Rollback, CheckRead, history
  <1>2. TypeOK'
    <2>1. CASE InsertRefused(r) \/ Rollback(r)
      <3>1. req' = [req EXCEPT ![r] = Idle] /\ UNCHANGED left
        BY <2>1 DEF InsertRefused, Rollback, history
      <3> QED BY <1>1, <3>1 DEF IInv, TypeOK, Idle, NoSignup, Signup, SignupStatus
    <2>2. CASE \E v \in Volunteer : CheckRead(r, v)
      <3>1. PICK v \in Volunteer : CheckRead(r, v)
        BY <2>2
      <3>2. left' \in [resizes: Nat, checks: Nat]
        BY <3>1 DEF IInv, TypeOK, CheckRead
      <3>3. Signup(signup[v].status, 0) \in [status: SignupStatus, position: Nat]
        BY DEF IInv, TypeOK, Signup
      <3>4. PICK op \in {"check_in", "check_out"} :
              req' = [req EXCEPT ![r] = [op |-> op, vol |-> v, at |-> "read",
                                         row |-> Signup(signup[v].status, 0), next |-> None]]
        BY <3>1 DEF CheckRead
      <3> QED BY <1>1, <3>1, <3>2, <3>3, <3>4 DEF IInv, TypeOK, CheckRead
    <2> QED BY <2>1, <2>2
  <1>3. PICK q : /\ req' = [req EXCEPT ![r] = q]
                 /\ q.at # "locked"
                 /\ q.at = "read" => q.vol \in Volunteer /\ q.op \in {"check_in", "check_out"}
    BY DEF InsertRefused, Rollback, CheckRead, Idle
  <1>4. OneHolder' /\ ChecksSomebody'
    BY <1>3 DEF IInv, OneHolder, ChecksSomebody, TypeOK
  <1>5. HolderDecided'
    <2> SUFFICES ASSUME NEW s \in Request, req'[s].at = "locked"
                 PROVE  Decided(req[s])' 
      BY DEF HolderDecided
    <2>1. s # r /\ req'[s] = req[s]
      BY <1>3 DEF IInv, TypeOK
    <2>2. Decided(req[s])
      BY <2>1 DEF IInv, HolderDecided
    <2> QED BY <1>1, <2>1, <2>2, DecidedUnchanged
  <1> QED BY <1>1, <1>2, <1>4, <1>5, RowsUnchanged DEF IInv

\* A request takes the shift row, which was free, and has decided.
LEMMA LockStep ==
  ASSUME IInv, NEW r \in Request, NEW v \in Volunteer, NEW op, NEW row, NEW next,
         ShiftFree,
         op \in {"signup", "assign", "cancel"},
         row \in [status: SignupStatus, position: Nat],
         next \in Volunteer \cup {None},
         Locks(r, op, v, row, next),
         Decided([op |-> op, vol |-> v, at |-> "locked", row |-> row, next |-> next]),
         UNCHANGED <<shift, signup, left, history>>
  PROVE  IInv'
  <1> DEFINE q == [op |-> op, vol |-> v, at |-> "locked", row |-> row, next |-> next]
  <1>1. req' = [req EXCEPT ![r] = q]
    BY DEF Locks
  <1>2. TypeOK'
    BY <1>1 DEF IInv, TypeOK, history
  <1>3. \A s \in Request : s # r => req'[s] = req[s] /\ req'[s].at # "locked"
    BY <1>1 DEF IInv, TypeOK, ShiftFree
  <1>4. req'[r] = q
    BY <1>1 DEF IInv, TypeOK
  <1>5. OneHolder' /\ ChecksSomebody'
    BY <1>3, <1>4 DEF IInv, OneHolder, ChecksSomebody
  <1>6. Decided(q)'
    BY DecidedUnchanged
  <1>7. HolderDecided'
    <2> HIDE DEF q
    <2> QED BY <1>3, <1>4, <1>6 DEF HolderDecided, Decided, Joins, Assigned, Leaves
  <1> QED BY <1>2, <1>5, <1>7, RowsUnchanged DEF IInv, history

LEMMA SignupStep ==
  ASSUME IInv, NEW r \in Request, NEW v \in Volunteer, SignupVolunteer(r, v)
  PROVE  IInv'
  <1> DEFINE row == IF HasPlace THEN Place ELSE Signup("WAITLISTED", EndOfLine)
             q == [op |-> "signup", vol |-> v, at |-> "locked", row |-> row, next |-> None]
  <1>1. /\ EndOfLine \in 1..(Cardinality(Rows) + 1)
        /\ \A u \in Waiting : signup[u].position < EndOfLine
    BY EndOfLineBehind DEF IInv, RowsInv
  <1>2. Cardinality(Rows) \in Nat
    BY SetsFinite DEF Rows
  <1>3. row \in [status: SignupStatus, position: Nat]
    BY <1>1, <1>2 DEF Place, Signup, SignupStatus, Active
  <1>4. Joins(q)
    BY <1>1 DEF Joins, Place, Signup
  <1>5. Decided(q)
    BY <1>4 DEF Decided
  <1>6. ShiftFree /\ Locks(r, "signup", v, row, None)
    BY DEF SignupVolunteer
  <1> HIDE DEF row
  <1> QED BY <1>3, <1>5, <1>6, LockStep DEF SignupVolunteer

LEMMA AssignStep ==
  ASSUME IInv, NEW r \in Request, NEW v \in Volunteer, ManagerAssign(r, v)
  PROVE  IInv'
  <1>1. Place \in [status: SignupStatus, position: Nat]
    BY DEF Place, Signup, SignupStatus, Active
  <1>2. Decided([op |-> "assign", vol |-> v, at |-> "locked", row |-> Place, next |-> None])
    BY DEF Decided, Assigned
  <1> QED BY <1>1, <1>2, LockStep DEF ManagerAssign

LEMMA CancelStep ==
  ASSUME IInv, NEW r \in Request, NEW v \in Volunteer, CancelSignup(r, v)
  PROVE  IInv'
  <1> DEFINE row == Signup("CANCELLED", 0)
  <1>1. row \in [status: SignupStatus, position: Nat]
    BY DEF Signup, SignupStatus
  <1>2. CASE Promotes(v)
    <2>1. PICK u \in Volunteer : FirstInLine(u) /\ Locks(r, "cancel", v, row, u)
      BY <1>2 DEF CancelSignup
    <2>2. Decided([op |-> "cancel", vol |-> v, at |-> "locked", row |-> row, next |-> u])
      BY <1>2, <2>1 DEF Decided, Leaves, CancelSignup, Promotes
    <2> QED BY <1>1, <2>1, <2>2, LockStep DEF CancelSignup
  <1>3. CASE ~Promotes(v)
    <2>1. Decided([op |-> "cancel", vol |-> v, at |-> "locked", row |-> row, next |-> None])
      BY <1>3 DEF Decided, Leaves, CancelSignup, Promotes
    <2> QED BY <1>1, <1>3, <2>1, LockStep DEF CancelSignup
  <1> QED BY <1>2, <1>3

-----------------------------------------------------------------------------
(* Steps on the rows while nobody holds the shift *)

LEMMA NobodyHolds ==
  ASSUME ShiftFree, NEW r \in Request, OneHolder, HolderDecided, ChecksSomebody, TypeOK,
         UNCHANGED req \/ req' = [req EXCEPT ![r] = Idle]
  PROVE  OneHolder' /\ HolderDecided' /\ ChecksSomebody'
  <1>1. \A s \in Request : req'[s].at # "locked" /\ (req'[s] = req[s] \/ req'[s].at = "idle")
    BY DEF ShiftFree, TypeOK, Idle
  <1> QED BY <1>1 DEF OneHolder, HolderDecided, ChecksSomebody

LEMMA SetsUnchanged ==
  ASSUME UNCHANGED signup
  PROVE  SignedUp' = SignedUp /\ Waiting' = Waiting /\ Rows' = Rows
  BY DEF SignedUp, Waiting, With, Rows

LEMMA UpdateShiftStep ==
  ASSUME IInv, NEW m \in Sizes, UpdateShift(m)
  PROVE  IInv'
  <1> DEFINE more == Larger(m - shift.max, 0)
  <1>1. m \in Int /\ shift.max \in Int /\ more \in Nat /\ m <= shift.max + more
    BY ShiftAssumption DEF IInv, TypeOK, Larger
  <1>2. /\ shift' = [shift EXCEPT !.max = m]
        /\ allowed' = allowed + more
        /\ vacated' = StillVacated(vacated + more)
        /\ UNCHANGED <<signup, req>>
    BY DEF UpdateShift
  <1> HIDE DEF more
  <1>3. TypeOK'
    <2>1. left' \in [resizes: Nat, checks: Nat]
      BY DEF IInv, TypeOK, UpdateShift
    <2>2. vacated' \in Nat
      BY <1>1, <1>2 DEF IInv, TypeOK, StillVacated
    <2> QED BY <1>1, <1>2, <2>1, <2>2 DEF IInv, TypeOK
  <1>4. OneHolder' /\ HolderDecided' /\ ChecksSomebody'
    BY <1>2
    DEF UpdateShift, IInv, OneHolder, HolderDecided, ChecksSomebody, ShiftFree, TypeOK
  <1>5. RowsInv'
    <2>1. SignedUp' = SignedUp /\ Waiting' = Waiting /\ Rows' = Rows
      BY <1>2, SetsUnchanged
    <2>2. LineBounded' /\ PositionsDistinct'
      BY <1>2, <2>1 DEF IInv, RowsInv, LineBounded, PositionsDistinct
    <2>3. Cardinality(SignedUp) \in Nat /\ allowed \in Nat /\ vacated \in Nat
      BY SetsFinite DEF SignedUp, With, IInv, TypeOK
    <2>4. shift'.max = m
      BY <1>2 DEF IInv, TypeOK
    <2>5. CapacityHeld' /\ (shift.max <= allowed)'
      BY <1>1, <1>2, <2>1, <2>3, <2>4 DEF IInv, RowsInv, CapacityHeld
    <2>6. NoPlaceIdle'
      <3> SUFFICES ASSUME Waiting # {} PROVE Cardinality(SignedUp) + vacated' >= m
        BY <2>1, <2>4 DEF NoPlaceIdle
      <3>1. vacated' = vacated + more
        BY <1>2 DEF StillVacated, Waiting, With
      <3> QED BY <1>1, <2>3, <3>1 DEF IInv, RowsInv, NoPlaceIdle
    <2> QED BY <2>2, <2>5, <2>6 DEF RowsInv
  <1> QED BY <1>3, <1>4, <1>5 DEF IInv

LEMMA StatusStep ==
  ASSUME IInv, UpdateStatus \/ DeleteShift
  PROVE  IInv'
  <1>1. /\ shift'.max = shift.max
        /\ shift'.status \in ShiftStatus
        /\ shift' \in [status: ShiftStatus, max: Int]
        /\ UNCHANGED <<signup, req, left, allowed, vacated>>
    BY DEF UpdateStatus, DeleteShift, history, IInv, TypeOK, ShiftStatus
  <1>2. TypeOK'
    BY <1>1 DEF IInv, TypeOK
  <1>3. OneHolder' /\ HolderDecided' /\ ChecksSomebody'
    BY <1>1 DEF UpdateStatus, DeleteShift, IInv, OneHolder, HolderDecided,
                ChecksSomebody, ShiftFree, TypeOK
  <1>4. RowsInv'
    BY <1>1, SetsUnchanged
    DEF IInv, RowsInv, LineBounded, PositionsDistinct, CapacityHeld, NoPlaceIdle
  <1> QED BY <1>2, <1>3, <1>4 DEF IInv

\* A check moves one volunteer out of the places or the line, or nobody.
LEMMA CheckMoves ==
  ASSUME IInv, NEW r \in Request, CheckWrite(r), NEW v, v = req[r].vol
  PROVE  /\ v \in Volunteer
         /\ \/ signup' = signup
            \/ \E status \in {"CHECKED_IN", "CHECKED_OUT"} :
                 signup' = [signup EXCEPT ![v].status = status]
         /\ Waiting' \subseteq Waiting
         /\ \A u \in Volunteer : signup'[u].position = signup[u].position
         /\ Rows \subseteq Rows'
         /\ SignedUp' = IF v \in SignedUp /\ Checked(r, v) # signup[v]
                        THEN SignedUp \ {v} ELSE SignedUp
  <1>1. v \in Volunteer
    BY DEF CheckWrite, IInv, ChecksSomebody
  <1>2. signup' = [signup EXCEPT ![v] = Checked(r, v)]
    BY DEF CheckWrite
  <1>3. \/ Checked(r, v) = signup[v]
        \/ \E status \in {"CHECKED_IN", "CHECKED_OUT"} :
              Checked(r, v) = [signup[v] EXCEPT !.status = status]
    BY DEF Checked, Target
  <1>4. CASE Checked(r, v) = signup[v]
    <2>1. signup' = signup
      BY <1>1, <1>2, <1>4 DEF IInv, TypeOK
    <2> QED BY <1>1, <1>4, <2>1 DEF Waiting, SignedUp, With, Rows
  <1>5. CASE Checked(r, v) # signup[v]
    <2>1. PICK status \in {"CHECKED_IN", "CHECKED_OUT"} :
            signup' = [signup EXCEPT ![v].status = status]
      BY <1>2, <1>3, <1>5
    <2>2. signup \in [Volunteer -> [status: SignupStatus, position: Nat]]
      BY DEF IInv, TypeOK
    <2>3. \A u \in Volunteer :
            /\ signup'[u].position = signup[u].position
            /\ signup'[u].status = IF u = v THEN status ELSE signup[u].status
      BY <1>1, <2>1, <2>2
    <2>4. status \notin {"WAITLISTED", "SIGNED_UP", "ABSENT"}
      OBVIOUS
    <2>5. \A u \in Waiting' : u \in Waiting
      BY <2>3, <2>4 DEF Waiting, With
    <2>6. \A u \in Rows : u \in Rows'
      BY <2>3, <2>4 DEF Rows
    <2>7. \A u \in SignedUp' : u \in SignedUp /\ u # v
      BY <2>3, <2>4 DEF SignedUp, With
    <2>8. \A u \in SignedUp : u # v => u \in SignedUp'
      BY <2>3, <2>4 DEF SignedUp, With
    <2>9. SignedUp' = IF v \in SignedUp THEN SignedUp \ {v} ELSE SignedUp
      BY <2>7, <2>8
    <2>10. SignedUp' = IF v \in SignedUp /\ Checked(r, v) # signup[v]
                       THEN SignedUp \ {v} ELSE SignedUp
      BY <1>5, <2>9
    <2> QED BY <1>1, <2>1, <2>3, <2>5, <2>6, <2>10
  <1> QED BY <1>4, <1>5

LEMMA CheckWriteStep ==
  ASSUME IInv, NEW r \in Request, CheckWrite(r)
  PROVE  IInv'
  <1> DEFINE v == req[r].vol
  <1>1. /\ v \in Volunteer
        /\ \/ signup' = signup
           \/ \E status \in {"CHECKED_IN", "CHECKED_OUT"} :
                signup' = [signup EXCEPT ![v].status = status]
        /\ Waiting' \subseteq Waiting
        /\ \A u \in Volunteer : signup'[u].position = signup[u].position
        /\ Rows \subseteq Rows'
        /\ SignedUp' = IF v \in SignedUp /\ Checked(r, v) # signup[v]
                       THEN SignedUp \ {v} ELSE SignedUp
    BY CheckMoves
  <1>2. TypeOK'
    <2>1. signup' \in [Volunteer -> [status: SignupStatus, position: Nat]]
      <3>1. signup \in [Volunteer -> [status: SignupStatus, position: Nat]]
        BY DEF IInv, TypeOK
      <3>2. CASE signup' # signup
        <4>1. PICK status \in {"CHECKED_IN", "CHECKED_OUT"} :
                signup' = [signup EXCEPT ![v].status = status]
          BY <1>1, <3>2
        <4>2. status \in SignupStatus
          BY DEF SignupStatus, Active
        <4> HIDE DEF v
        <4> QED BY <1>1, <3>1, <4>1, <4>2
      <3> QED BY <3>1, <3>2
    <2>3. vacated' \in Nat
      BY DEF IInv, TypeOK, CheckWrite, StillVacated
    <2>4. req' \in [Request -> [op: {"none", "signup", "assign", "cancel", "check_in",
                                    "check_out"},
                               vol: Volunteer \cup {None},
                               at: {"idle", "read", "locked"},
                               row: [status: SignupStatus, position: Nat],
                               next: Volunteer \cup {None}]]
      BY DEF IInv, TypeOK, CheckWrite, Idle, NoSignup, Signup, SignupStatus
    <2>5. UNCHANGED <<shift, left, allowed>>
      BY DEF CheckWrite
    <2> QED BY <2>1, <2>3, <2>4, <2>5 DEF IInv, TypeOK
  <1>3. OneHolder' /\ HolderDecided' /\ ChecksSomebody'
    BY NobodyHolds DEF IInv, CheckWrite
  <1>4. RowsInv'
    <2>1. /\ Cardinality(SignedUp) \in Nat /\ IsFiniteSet(SignedUp)
          /\ allowed \in Nat /\ vacated \in Nat
      BY SetsFinite DEF SignedUp, With, IInv, TypeOK
    <2>2. LineBounded'
      <3>1. Cardinality(Rows) <= Cardinality(Rows')
        BY <1>1, SetsFinite, FS_Subset DEF Rows
      <3>2. Cardinality(Rows) \in Nat /\ Cardinality(Rows') \in Nat
        BY SetsFinite DEF Rows
      <3>3. \A u \in Waiting : u \in Volunteer /\ signup[u].position \in Nat
        BY DEF Waiting, With, IInv, TypeOK
      <3> QED BY <1>1, <3>1, <3>2, <3>3 DEF IInv, RowsInv, LineBounded
    <2>3. PositionsDistinct'
      BY <1>1 DEF IInv, RowsInv, PositionsDistinct, Waiting, With
    <2>4. /\ Cardinality(SignedUp') <= Cardinality(SignedUp)
          /\ Cardinality(SignedUp') \in Nat
          /\ v \in SignedUp /\ Checked(r, v) # signup[v]
               => Cardinality(SignedUp') = Cardinality(SignedUp) - 1
          /\ ~(v \in SignedUp /\ Checked(r, v) # signup[v])
               => Cardinality(SignedUp') = Cardinality(SignedUp)
      <3>1. CASE v \in SignedUp /\ Checked(r, v) # signup[v]
        <4>1. SignedUp' = SignedUp \ {v}
          BY <1>1, <3>1
        <4>2. Cardinality(SignedUp \ {v}) = Cardinality(SignedUp) - 1
          BY <2>1, <3>1, FS_RemoveElement
        <4>3. Cardinality(SignedUp \ {v}) \in Nat
          BY SetsFinite DEF SignedUp, With
        <4> QED BY <2>1, <3>1, <4>1, <4>2, <4>3
      <3>2. CASE ~(v \in SignedUp /\ Checked(r, v) # signup[v])
        <4>1. SignedUp' = SignedUp
          BY <1>1, <3>2
        <4> QED BY <2>1, <3>2, <4>1
      <3> QED BY <3>1, <3>2
    <2>5. CapacityHeld' /\ (shift.max <= allowed)'
      BY <2>1, <2>4 DEF IInv, RowsInv, CapacityHeld, CheckWrite
    <2>6. NoPlaceIdle'
      <3> SUFFICES ASSUME Waiting' # {}
                   PROVE  Cardinality(SignedUp') + vacated' >= shift.max
        BY DEF NoPlaceIdle, CheckWrite
      <3>1. Cardinality(SignedUp) + vacated >= shift.max
        BY <1>1 DEF IInv, RowsInv, NoPlaceIdle
      <3>2. vacated' = IF v \in SignedUp /\ Checked(r, v) # signup[v]
                       THEN vacated + 1 ELSE vacated
        BY <1>1 DEF CheckWrite, StillVacated, Waiting, SignedUp, With
      <3>3. shift.max \in Int
        BY DEF IInv, TypeOK
      <3> QED BY <2>1, <2>4, <3>1, <3>2, <3>3
    <2> QED BY <2>2, <2>3, <2>5, <2>6 DEF RowsInv
  <1> QED BY <1>2, <1>3, <1>4 DEF IInv

-----------------------------------------------------------------------------
(* The commit of what the holder of the shift decided *)

\* A line that only loses people keeps its order.
LEMMA LineShrinks ==
  ASSUME TypeOK, LineBounded, PositionsDistinct,
         Waiting' \subseteq Waiting, Rows \subseteq Rows',
         \A u \in Waiting' : signup'[u].position = signup[u].position
  PROVE  LineBounded' /\ PositionsDistinct'
  <1>1. Cardinality(Rows) <= Cardinality(Rows')
    BY SetsFinite, FS_Subset DEF Rows
  <1>2. Cardinality(Rows) \in Nat /\ Cardinality(Rows') \in Nat
    BY SetsFinite DEF Rows
  <1>3. \A u \in Waiting : signup[u].position \in Nat
    BY DEF Waiting, With, TypeOK
  <1>4. LineBounded'
    BY <1>1, <1>2, <1>3 DEF LineBounded
  <1>5. PositionsDistinct'
    BY DEF PositionsDistinct
  <1> QED BY <1>4, <1>5

\* The rows after the commit of request r.
LEMMA CommitRows ==
  ASSUME IInv, NEW r \in Request, Commit(r)
  PROVE  /\ Decided(req[r])
         /\ req[r].row \in [status: SignupStatus, position: Nat]
         /\ \A u \in Volunteer :
              signup'[u] = IF u = req[r].vol THEN req[r].row
                           ELSE IF u = req[r].next THEN Place ELSE signup[u]
         /\ signup' \in [Volunteer -> [status: SignupStatus, position: Nat]]
         /\ req[r].op # "cancel" => signup[req[r].vol].status = "ABSENT"
         /\ Waiting' # {} => vacated' = vacated
  <1>1. Decided(req[r]) /\ req[r].row \in [status: SignupStatus, position: Nat]
    BY DEF Commit, IInv, HolderDecided, TypeOK
  <1>2. Place \in [status: SignupStatus, position: Nat]
    BY DEF Place, Signup, SignupStatus, Active
  <1>3. signup' \in [Volunteer -> [status: SignupStatus, position: Nat]]
    BY <1>1, <1>2 DEF Commit, IInv, TypeOK
  <1>4. Waiting' # {} => vacated' = vacated
    BY DEF Commit, StillVacated, Waiting, With
  <1>5. \A u \in Volunteer :
          signup'[u] = IF u = req[r].vol THEN req[r].row
                       ELSE IF u = req[r].next THEN Place ELSE signup[u]
    BY DEF Commit
  <1>6. req[r].op # "cancel" => signup[req[r].vol].status = "ABSENT"
    BY DEF Commit
  <1> QED BY <1>1, <1>3, <1>4, <1>5, <1>6

\* A place is taken: the capacity allowed it, or a manager.
LEMMA CommitPlace ==
  ASSUME IInv, NEW r \in Request, Commit(r),
         req[r].row = Place, req[r].next = None, req[r].vol \in Volunteer,
         \/ req[r].op = "signup" /\ HasPlace
         \/ req[r].op = "assign"
  PROVE  /\ RowsInv'
         /\ Waiting' = Waiting
         /\ \A u \in Volunteer : u # req[r].vol => signup'[u] = signup[u]
  <1> DEFINE v == req[r].vol
  <1>1. v \in Volunteer /\ signup[v].status = "ABSENT"
    BY CommitRows
  <1>2. \A u \in Volunteer : signup'[u] = IF u = v THEN Place ELSE signup[u]
    BY CommitRows, ShiftAssumption
  <1>3. Place.status = "SIGNED_UP"
    BY DEF Place, Signup
  <1> HIDE DEF v
  <1>4. SignedUp' = SignedUp \cup {v} /\ v \notin SignedUp
    BY <1>1, <1>2, <1>3 DEF SignedUp, With
  <1>5. Waiting' = Waiting /\ v \notin Waiting
    BY <1>1, <1>2, <1>3 DEF Waiting, With
  <1>6. Rows \subseteq Rows'
    BY <1>1, <1>2, <1>3 DEF Rows
  <1>7. LineBounded' /\ PositionsDistinct'
    <2>1. \A u \in Waiting' : signup'[u].position = signup[u].position
      BY <1>2, <1>5 DEF Waiting, With
    <2> QED BY <1>5, <1>6, <2>1, LineShrinks DEF IInv, RowsInv
  <1>8. /\ Cardinality(SignedUp) \in Nat
        /\ Cardinality(SignedUp') = Cardinality(SignedUp) + 1
    BY <1>4, SetsFinite, FS_AddElement DEF SignedUp, With
  <1>9. /\ shift.max \in Int /\ shift' = shift
        /\ allowed \in Nat /\ vacated \in Nat
        /\ allowed' = IF req[r].op = "assign" THEN allowed + 1 ELSE allowed
    BY DEF Commit, IInv, TypeOK
  <1>10. CapacityHeld' /\ (shift.max <= allowed)'
    BY <1>8, <1>9 DEF IInv, RowsInv, CapacityHeld, HasPlace
  <1>11. NoPlaceIdle'
    BY <1>5, <1>8, <1>9, CommitRows DEF IInv, RowsInv, NoPlaceIdle
  <1> QED BY <1>1, <1>2, <1>5, <1>7, <1>10, <1>11 DEF RowsInv, v

\* Somebody joins the line, because every place is taken, and joins its end.
LEMMA CommitWait ==
  ASSUME IInv, NEW r \in Request, Commit(r), Joins(req[r]), req[r].row # Place,
         req[r].vol \in Volunteer
  PROVE  /\ RowsInv'
         /\ \A u \in Volunteer : u # req[r].vol => signup'[u] = signup[u]
         /\ \A u \in Waiting : signup[u].position < req[r].row.position
  <1> DEFINE v   == req[r].vol
             row == req[r].row
  <1>1. v \in Volunteer /\ signup[v].status = "ABSENT"
    BY CommitRows DEF Joins
  <1>2. \A u \in Volunteer : signup'[u] = IF u = v THEN row ELSE signup[u]
    BY CommitRows, ShiftAssumption DEF Joins
  <1>3. /\ row.status = "WAITLISTED"
        /\ row.position \in 1..(Cardinality(Rows) + 1)
        /\ \A u \in Waiting : signup[u].position < row.position
        /\ ~HasPlace
    BY DEF Joins
  <1> HIDE DEF v, row
  <1>4. SignedUp' = SignedUp
    BY <1>1, <1>2, <1>3 DEF SignedUp, With
  <1>5. Waiting' = Waiting \cup {v} /\ v \notin Waiting
    BY <1>1, <1>2, <1>3 DEF Waiting, With
  <1>6. Rows' = Rows \cup {v} /\ v \notin Rows
    BY <1>1, <1>2, <1>3 DEF Rows
  <1>7. /\ Cardinality(Rows) \in Nat
        /\ Cardinality(Rows') = Cardinality(Rows) + 1
    BY <1>6, SetsFinite, FS_AddElement DEF Rows
  <1>8. \A u \in Waiting : /\ u \in Volunteer /\ u # v
                           /\ signup'[u] = signup[u]
                           /\ signup[u].position \in Nat
    BY <1>2, <1>5 DEF Waiting, With, IInv, TypeOK
  <1>9. signup'[v].position = row.position
    BY <1>1, <1>2
  <1>10. LineBounded'
    <2>1. \A u \in Waiting : signup'[u].position <= Cardinality(Rows) + 1
      BY <1>7, <1>8 DEF IInv, RowsInv, LineBounded
    <2>2. signup'[v].position <= Cardinality(Rows) + 1
      BY <1>3, <1>7, <1>9
    <2> QED BY <1>5, <1>7, <2>1, <2>2 DEF LineBounded
  <1>11. PositionsDistinct'
    <2> SUFFICES ASSUME NEW u \in Waiting', NEW w \in Waiting', u # w
                 PROVE  signup'[u].position # signup'[w].position
      BY DEF PositionsDistinct
    <2>1. CASE u \in Waiting /\ w \in Waiting
      BY <1>8, <2>1 DEF IInv, RowsInv, PositionsDistinct
    <2>2. CASE u = v
      BY <1>3, <1>5, <1>8, <1>9, <2>2
    <2>3. CASE w = v
      BY <1>3, <1>5, <1>8, <1>9, <2>3
    <2> QED BY <1>5, <2>1, <2>2, <2>3
  <1>12. /\ shift.max \in Int /\ shift' = shift
         /\ allowed' = allowed /\ vacated \in Nat
    BY DEF Commit, IInv, TypeOK, Joins
  <1>13. CapacityHeld' /\ (shift.max <= allowed)'
    BY <1>4, <1>12 DEF IInv, RowsInv, CapacityHeld
  <1>14. NoPlaceIdle'
    <2>1. Cardinality(SignedUp) \in Nat
      BY SetsFinite DEF SignedUp, With
    <2> QED BY <1>3, <1>4, <1>5, <1>12, <2>1, CommitRows DEF NoPlaceIdle, HasPlace
  <1> QED BY <1>2, <1>3, <1>10, <1>11, <1>13, <1>14 DEF RowsInv, v, row

\* Somebody leaves, and nobody has a claim to the place.
LEMMA CommitLeave ==
  ASSUME IInv, NEW r \in Request, Commit(r), Leaves(req[r]), req[r].next = None,
         req[r].vol \in Volunteer
  PROVE  /\ RowsInv'
         /\ Waiting' \subseteq Waiting
         /\ \A u \in Volunteer : u # req[r].vol => signup'[u] = signup[u]
  <1> DEFINE v == req[r].vol
  <1>1. \A u \in Volunteer : signup'[u] = IF u = v THEN Signup("CANCELLED", 0) ELSE signup[u]
    BY CommitRows, ShiftAssumption DEF Leaves
  <1>2. v \in Volunteer /\ signup[v].status \in Active /\ (v \in SignedUp => Waiting = {})
    BY ShiftAssumption DEF Leaves, FirstInLine, Waiting, With
  <1>3. Signup("CANCELLED", 0).status = "CANCELLED"
    BY DEF Signup
  <1> HIDE DEF v
  <1>4. SignedUp' = SignedUp \ {v}
    BY <1>1, <1>2, <1>3 DEF SignedUp, With
  <1>5. Waiting' = Waiting \ {v}
    BY <1>1, <1>2, <1>3 DEF Waiting, With
  <1>6. Rows \subseteq Rows'
    BY <1>1, <1>2, <1>3 DEF Rows
  <1>7. LineBounded' /\ PositionsDistinct'
    <2>1. \A u \in Waiting' : signup'[u].position = signup[u].position
      BY <1>1, <1>5 DEF Waiting, With
    <2> QED BY <1>5, <1>6, <2>1, LineShrinks DEF IInv, RowsInv
  <1>8. /\ shift.max \in Int /\ shift' = shift
        /\ allowed' = allowed /\ allowed \in Nat /\ vacated \in Nat
    BY DEF Commit, IInv, TypeOK, Leaves
  <1>9. CapacityHeld' /\ (shift.max <= allowed)'
    <2>1. /\ Cardinality(SignedUp') <= Cardinality(SignedUp)
          /\ Cardinality(SignedUp') \in Nat /\ Cardinality(SignedUp) \in Nat
      BY <1>4, SetsFinite, FS_Subset DEF SignedUp, With
    <2> QED BY <1>8, <2>1 DEF IInv, RowsInv, CapacityHeld
  <1>10. NoPlaceIdle'
    <2> SUFFICES ASSUME Waiting' # {}
                 PROVE  Cardinality(SignedUp') + vacated' >= shift'.max
      BY DEF NoPlaceIdle
    <2>1. SignedUp' = SignedUp /\ Waiting # {} /\ vacated' = vacated
      BY <1>2, <1>4, <1>5, CommitRows
    <2> QED BY <1>8, <2>1 DEF IInv, RowsInv, NoPlaceIdle
  <1> QED BY <1>1, <1>5, <1>7, <1>9, <1>10 DEF RowsInv, v

\* Somebody leaves a place, and the first in line takes it.
LEMMA CommitPromote ==
  ASSUME IInv, NEW r \in Request, Commit(r), Leaves(req[r]), req[r].next # None,
         req[r].vol \in Volunteer
  PROVE  /\ RowsInv'
         /\ Waiting' \subseteq Waiting
         /\ FirstInLine(req[r].next)
         /\ req[r].vol # req[r].next
         /\ \A u \in Volunteer : u # req[r].vol /\ u # req[r].next => signup'[u] = signup[u]
         /\ signup'[req[r].next] = Place
  <1> DEFINE v == req[r].vol
             n == req[r].next
  <1>1. /\ v \in SignedUp /\ FirstInLine(n) /\ n \in Waiting
        /\ req[r].row = Signup("CANCELLED", 0)
    BY DEF Leaves, FirstInLine
  <1>2. v \in Volunteer /\ n \in Volunteer /\ v # n
    BY <1>1 DEF SignedUp, Waiting, With
  <1>3. \A u \in Volunteer : signup'[u] = IF u = v THEN Signup("CANCELLED", 0)
                                          ELSE IF u = n THEN Place ELSE signup[u]
    BY <1>1, CommitRows
  <1>4. Signup("CANCELLED", 0).status = "CANCELLED" /\ Place.status = "SIGNED_UP"
    BY DEF Signup, Place
  <1> HIDE DEF v, n
  <1>5. SignedUp' = (SignedUp \ {v}) \cup {n} /\ n \notin SignedUp
    BY <1>1, <1>2, <1>3, <1>4 DEF SignedUp, Waiting, With
  <1>6. Waiting' = Waiting \ {n}
    BY <1>1, <1>2, <1>3, <1>4 DEF SignedUp, Waiting, With
  <1>7. Rows \subseteq Rows'
    BY <1>2, <1>3, <1>4 DEF Rows
  <1>8. LineBounded' /\ PositionsDistinct'
    <2>1. \A u \in Waiting' : signup'[u].position = signup[u].position
      BY <1>1, <1>3, <1>6 DEF SignedUp, Waiting, With
    <2> QED BY <1>6, <1>7, <2>1, LineShrinks DEF IInv, RowsInv
  <1>9. Cardinality(SignedUp') = Cardinality(SignedUp)
    <2>1. IsFiniteSet(SignedUp) /\ IsFiniteSet(SignedUp \ {v})
      BY SetsFinite DEF SignedUp, With
    <2>2. Cardinality(SignedUp) \in Nat /\ Cardinality(SignedUp \ {v}) = Cardinality(SignedUp) - 1
      BY <1>1, <2>1, FS_RemoveElement, FS_CardinalityType
    <2>3. n \notin SignedUp \ {v}
      BY <1>5
    <2>4. Cardinality((SignedUp \ {v}) \cup {n}) = Cardinality(SignedUp \ {v}) + 1
      BY <2>1, <2>3, FS_AddElement
    <2> QED BY <1>5, <2>2, <2>4
  <1>10. /\ shift' = shift /\ allowed' = allowed
    BY DEF Commit, Leaves
  <1>11. CapacityHeld' /\ (shift.max <= allowed)' /\ NoPlaceIdle'
    BY <1>6, <1>9, <1>10, CommitRows DEF IInv, RowsInv, CapacityHeld, NoPlaceIdle
  <1> QED BY <1>1, <1>2, <1>3, <1>6, <1>8, <1>11 DEF RowsInv, v, n

LEMMA CommitStep ==
  ASSUME IInv, NEW r \in Request, Commit(r)
  PROVE  IInv'
  <1> DEFINE q == req[r]
  <1>1. /\ Decided(q) /\ q.vol \in Volunteer
        /\ q.row \in [status: SignupStatus, position: Nat]
        /\ signup' \in [Volunteer -> [status: SignupStatus, position: Nat]]
    BY CommitRows DEF Decided
  <1>2. TypeOK'
    <2>1. allowed' \in Nat /\ vacated' \in Nat
      BY DEF IInv, TypeOK, Commit, StillVacated
    <2>2. req' \in [Request -> [op: {"none", "signup", "assign", "cancel", "check_in",
                                    "check_out"},
                               vol: Volunteer \cup {None},
                               at: {"idle", "read", "locked"},
                               row: [status: SignupStatus, position: Nat],
                               next: Volunteer \cup {None}]]
      BY DEF IInv, TypeOK, Commit, Idle, NoSignup, Signup, SignupStatus
    <2>3. UNCHANGED <<shift, left>>
      BY DEF Commit
    <2> QED BY <1>1, <2>1, <2>2, <2>3 DEF IInv, TypeOK
  <1>3. OneHolder' /\ HolderDecided' /\ ChecksSomebody'
    <2>1. \A s \in Request : /\ req'[s].at # "locked"
                             /\ req'[s] = req[s] \/ req'[s].at = "idle"
      BY DEF Commit, IInv, OneHolder, TypeOK, Idle
    <2> QED BY <2>1 DEF IInv, OneHolder, HolderDecided, ChecksSomebody
  <1>4. RowsInv'
    <2>1. CASE Joins(q) /\ q.row = Place
      <3>1. HasPlace
        BY <2>1 DEF Joins, Place, Signup
      <3> QED BY <1>1, <2>1, <3>1, CommitPlace DEF Joins
    <2>2. CASE Joins(q) /\ q.row # Place
      BY <1>1, <2>2, CommitWait
    <2>3. CASE Assigned(q)
      BY <1>1, <2>3, CommitPlace DEF Assigned
    <2>4. CASE Leaves(q)
      BY <1>1, <2>4, CommitLeave, CommitPromote
    <2> QED BY <1>1, <2>1, <2>2, <2>3, <2>4 DEF Decided
  <1> QED BY <1>2, <1>3, <1>4 DEF IInv

LEMMA NextInv ==
  ASSUME IInv, [Next]_vars
  PROVE  IInv'
  <1>1. CASE UNCHANGED vars
    <2>1. UNCHANGED <<shift, signup, req, left, allowed, vacated>>
      BY <1>1 DEF vars
    <2>2. TypeOK' /\ OneHolder' /\ ChecksSomebody'
      BY <2>1 DEF IInv, TypeOK, OneHolder, ChecksSomebody
    <2>3. HolderDecided'
      BY <2>1, DecidedUnchanged DEF IInv, HolderDecided
    <2>4. RowsInv'
      BY <2>1, RowsUnchanged DEF IInv
    <2> QED BY <2>2, <2>3, <2>4 DEF IInv
  <1>2. CASE \E r \in Request, v \in Volunteer :
               \/ SignupVolunteer(r, v) \/ ManagerAssign(r, v)
               \/ CancelSignup(r, v) \/ CheckRead(r, v)
    BY <1>2, SignupStep, AssignStep, CancelStep, QuietStep
  <1>3. CASE \E r \in Request : InsertRefused(r) \/ Rollback(r)
    BY <1>3, QuietStep
  <1>4. CASE \E r \in Request : Commit(r)
    BY <1>4, CommitStep
  <1>5. CASE \E r \in Request : CheckWrite(r)
    BY <1>5, CheckWriteStep
  <1>6. CASE \E m \in Sizes : UpdateShift(m)
    BY <1>6, UpdateShiftStep
  <1>7. CASE UpdateStatus \/ DeleteShift
    BY <1>7, StatusStep
  <1> QED BY <1>1, <1>2, <1>3, <1>4, <1>5, <1>6, <1>7 DEF Next

-----------------------------------------------------------------------------
(* The theorems *)

LEMMA Invariance == Spec => []IInv
  BY InitInv, NextInv, PTL DEF Spec

\* Every variable has its type in every behaviour.
THEOREM TypeCorrect == Spec => []TypeOK
  <1>1. IInv => TypeOK
    BY DEF IInv
  <1> QED BY <1>1, Invariance, PTL

\* However signups, cancellations, promotions, check-ins and changes of
\* max_volunteers interleave, the places taken are covered by the capacities the
\* shift was given and those its managers added.
THEOREM CapacityNeverExceeded == Spec => []CapacityHeld
  <1>1. IInv => CapacityHeld
    BY DEF IInv, RowsInv
  <1> QED BY <1>1, Invariance, PTL

\* No cancellation loses a promotion: while somebody waits, a place is idle only
\* when a check-in or a larger capacity freed it.
THEOREM NoPromotionLost == Spec => []NoPlaceIdle
  <1>1. IInv => NoPlaceIdle
    BY DEF IInv, RowsInv
  <1> QED BY <1>1, Invariance, PTL

\* No two waiting volunteers ever share a waitlist_position.
THEOREM LineHasAnOrder == Spec => []PositionsDistinct
  <1>1. IInv => PositionsDistinct
    BY DEF IInv, RowsInv
  <1> QED BY <1>1, Invariance, PTL

\* A step leaves the line in order: what it promotes was first, and what it adds
\* is last.
InOrder ==
  \A u, v \in Volunteer :
    signup[u].status = "WAITLISTED" =>
      /\ signup[v].status = "WAITLISTED" /\ signup'[v].status = "SIGNED_UP"
           => signup[v].position <= signup[u].position
      /\ signup[v].status # "WAITLISTED" /\ signup'[v].status = "WAITLISTED"
           => signup[u].position < signup'[v].position

LEMMA CommitInOrder ==
  ASSUME IInv, NEW r \in Request, Commit(r)
  PROVE  InOrder
  <1> DEFINE q == req[r]
  <1>1. Decided(q) /\ q.vol \in Volunteer
    BY CommitRows DEF Decided
  <1>2. \A u \in Volunteer :
          signup'[u] = IF u = q.vol THEN q.row
                       ELSE IF u = q.next THEN Place ELSE signup[u]
    BY CommitRows
  <1>3. Place.status = "SIGNED_UP" /\ Signup("CANCELLED", 0).status = "CANCELLED"
    BY DEF Place, Signup
  <1>4. q.op # "cancel" => signup[q.vol].status = "ABSENT"
    BY CommitRows
  <1> SUFFICES ASSUME NEW u \in Volunteer, NEW v \in Volunteer,
                      signup[u].status = "WAITLISTED"
               PROVE  /\ signup[v].status = "WAITLISTED" /\ signup'[v].status = "SIGNED_UP"
                           => signup[v].position <= signup[u].position
                      /\ signup[v].status # "WAITLISTED" /\ signup'[v].status = "WAITLISTED"
                           => signup[u].position < signup'[v].position
    BY DEF InOrder
  <1>5. u \in Waiting
    BY DEF Waiting, With
  <1> HIDE DEF q
  <1>6. ASSUME signup[v].status = "WAITLISTED", signup'[v].status = "SIGNED_UP"
        PROVE  signup[v].position <= signup[u].position
    <2>1. v = q.next /\ v # q.vol
      BY <1>1, <1>2, <1>3, <1>4, <1>6 DEF Decided, Joins, Assigned, Leaves
    <2>2. FirstInLine(v)
      BY <1>1, <2>1, ShiftAssumption DEF Decided, Joins, Assigned, Leaves
    <2> QED BY <1>5, <2>2 DEF FirstInLine
  <1>7. ASSUME signup[v].status # "WAITLISTED", signup'[v].status = "WAITLISTED"
        PROVE  signup[u].position < signup'[v].position
    <2>1. v = q.vol /\ signup'[v] = q.row
      BY <1>2, <1>3, <1>7
    <2>2. Joins(q) /\ q.row # Place
      BY <1>1, <1>3, <1>7, <2>1 DEF Decided, Assigned, Leaves
    <2> QED BY <1>5, <2>1, <2>2 DEF Joins
  <1> QED BY <1>6, <1>7

LEMMA StepInOrder ==
  ASSUME IInv, [Next]_vars
  PROVE  InOrder
  <1>1. CASE \E r \in Request : Commit(r)
    BY <1>1, CommitInOrder
  <1>2. CASE \E r \in Request : CheckWrite(r)
    <2>1. PICK r \in Request : CheckWrite(r)
      BY <1>2
    <2>2. req[r].vol \in Volunteer /\ signup \in [Volunteer -> [status: SignupStatus, position: Nat]]
      BY <2>1, CheckMoves DEF IInv, TypeOK
    <2>3. \A v \in Volunteer : \/ signup'[v] = signup[v]
                               \/ signup'[v].status \in {"CHECKED_IN", "CHECKED_OUT"}
      BY <2>1, <2>2, CheckMoves
    <2> QED BY <2>3 DEF InOrder
  <1>3. CASE UNCHANGED signup
    BY <1>3 DEF InOrder
  <1> QED BY <1>1, <1>2, <1>3
      DEF Next, vars, history, SignupVolunteer, ManagerAssign, CancelSignup, CheckRead,
          InsertRefused, Rollback, UpdateShift, UpdateStatus, DeleteShift

\* A promotion takes the first of those who wait, and whoever joins the line joins
\* it at the end, also when the request decided long before it commits.
THEOREM PromotionsInOrder == Spec => FirstComeFirstPromoted
  <1>1. IInv /\ [Next]_vars => [InOrder]_vars
    BY StepInOrder
  <1> QED BY <1>1, Invariance, PTL DEF Spec, FirstComeFirstPromoted, InOrder

\* What a step does to a cancelled volunteer.
Stands ==
  \A v \in Volunteer :
    signup[v].status = "CANCELLED" /\ signup'[v].status # "CANCELLED" =>
      \E r \in Request :
        /\ req[r].at = "read" /\ req[r].vol = v
        /\ req[r].row.status # "CANCELLED"
        /\ signup'[v].status = Target(req[r].op)

\* A check in flight read a signup that was not cancelled.
ReadActive ==
  \A r \in Request : req[r].at = "read" => req[r].row.status # "CANCELLED"

LEMMA ReadActiveStep ==
  ASSUME IInv, ReadActive, [Next]_vars
  PROVE  ReadActive'
  <1>1. CASE UNCHANGED req
    BY <1>1 DEF ReadActive
  <1>2. CASE \E r \in Request, v \in Volunteer :
               SignupVolunteer(r, v) \/ ManagerAssign(r, v) \/ CancelSignup(r, v)
    <2>1. PICK r \in Request, v \in Volunteer :
            SignupVolunteer(r, v) \/ ManagerAssign(r, v) \/ CancelSignup(r, v)
      BY <1>2
    <2>2. PICK op, row, next : Locks(r, op, v, row, next)
      BY <2>1 DEF SignupVolunteer, ManagerAssign, CancelSignup
    <2>3. \A s \in Request : req'[s].at = "read" => req'[s] = req[s]
      BY <2>2 DEF Locks, IInv, TypeOK
    <2> QED BY <2>3 DEF ReadActive
  <1>3. CASE \E r \in Request, v \in Volunteer : CheckRead(r, v)
    <2>1. PICK r \in Request, v \in Volunteer : CheckRead(r, v)
      BY <1>3
    <2>2. PICK op \in {"check_in", "check_out"} :
            req' = [req EXCEPT ![r] = [op |-> op, vol |-> v, at |-> "read",
                                       row |-> Signup(signup[v].status, 0), next |-> None]]
      BY <2>1 DEF CheckRead
    <2>3. signup[v].status # "CANCELLED"
      BY <2>1 DEF CheckRead, Active
    <2> QED BY <2>2, <2>3 DEF ReadActive, Signup, IInv, TypeOK
  <1>4. CASE \E r \in Request :
               InsertRefused(r) \/ Commit(r) \/ CheckWrite(r) \/ Rollback(r)
    <2>1. PICK r \in Request : req' = [req EXCEPT ![r] = Idle]
      BY <1>4 DEF InsertRefused, Commit, CheckWrite, Rollback
    <2> QED BY <2>1 DEF ReadActive, IInv, TypeOK, Idle
  <1> QED BY <1>1, <1>2, <1>3, <1>4
      DEF Next, vars, UpdateShift, UpdateStatus, DeleteShift

LEMMA StepStands ==
  ASSUME IInv, ReadActive, [Next]_vars
  PROVE  Stands
  <1>1. CASE \E r \in Request : Commit(r)
    <2>1. PICK r \in Request : Commit(r)
      BY <1>1
    <2> DEFINE q == req[r]
    <2>2. Decided(q) /\ (q.op # "cancel" => signup[q.vol].status = "ABSENT")
      BY <2>1, CommitRows
    <2>3. \A u \in Volunteer :
            signup'[u] = IF u = q.vol THEN q.row
                         ELSE IF u = q.next THEN Place ELSE signup[u]
      BY <2>1, CommitRows
    <2>4. signup[q.vol].status # "CANCELLED"
      BY <2>2 DEF Decided, Joins, Assigned, Leaves, Active
    <2>5. q.next \in Volunteer => signup[q.next].status # "CANCELLED"
      BY <2>2, ShiftAssumption DEF Decided, Joins, Assigned, Leaves, FirstInLine, Waiting, With
    <2> QED BY <2>3, <2>4, <2>5 DEF Stands
  <1>2. CASE \E r \in Request : CheckWrite(r)
    <2>1. PICK r \in Request : CheckWrite(r)
      BY <1>2
    <2>2. /\ req[r].vol \in Volunteer /\ req[r].at = "read"
          /\ signup' = [signup EXCEPT ![req[r].vol] = Checked(r, req[r].vol)]
      BY <2>1, CheckMoves DEF CheckWrite
    <2>3. signup \in [Volunteer -> [status: SignupStatus, position: Nat]]
      BY DEF IInv, TypeOK
    <2>4. req[r].row.status # "CANCELLED"
      BY <2>2 DEF ReadActive
    <2>5. \/ Checked(r, req[r].vol) = signup[req[r].vol]
          \/ Checked(r, req[r].vol).status = Target(req[r].op)
      BY <2>2, <2>3 DEF Checked
    <2> QED BY <2>2, <2>3, <2>4, <2>5 DEF Stands
  <1>3. CASE UNCHANGED signup
    BY <1>3 DEF Stands
  <1> QED BY <1>1, <1>2, <1>3
      DEF Next, vars, history, SignupVolunteer, ManagerAssign, CancelSignup, CheckRead,
          InsertRefused, Rollback, UpdateShift, UpdateStatus, DeleteShift

\* A cancelled volunteer stays cancelled, whatever was decided before: only a
\* check that read the signup earlier brings one back.
THEOREM CancelledStayOut == Spec => CancellationStands
  <1>1. Init => ReadActive
    BY DEF Init, ReadActive, Idle
  <1>2. IInv /\ ReadActive /\ [Next]_vars => ReadActive'
    BY ReadActiveStep
  <1>3. IInv /\ ReadActive /\ [Next]_vars => [Stands]_vars
    BY StepStands
  <1> QED BY <1>1, <1>2, <1>3, Invariance, PTL DEF Spec, CancellationStands, Stands
=============================================================================
