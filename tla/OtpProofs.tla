------------------------------ MODULE OtpProofs ------------------------------
(***************************************************************************)
(* Types, limits and single use of Otp for any number of requests, sends,  *)
(* attempts, windows and failures.                                         *)
(***************************************************************************)
EXTENDS Otp, FiniteSetTheorems, SequenceTheorems, TLAPS

\* A verification, and a send with its row, work on a row there is.
WellFormed ==
    \A r \in Request :
        request[r].step \in {"enqueue"} \cup Verifying => request[r].otp \in Row

TypeInv == TypeOK /\ WellFormed

-----------------------------------------------------------------------------
(* Sequences and requests *)

\* The rows are numbered from 1.
LEMMA Rows == ASSUME TypeInv PROVE Len(otps) \in Nat /\ Row = 1 .. Len(otps)
BY DEF TypeInv, TypeOK, Row

LEMMA RowType == ASSUME TypeInv, NEW o \in Row PROVE otps[o] \in Otp
<1>1. otps \in Seq(Otp) /\ o \in 1 .. Len(otps)
  BY Rows DEF TypeInv, TypeOK
<1>2. QED
  BY <1>1, ElementOfSeq

\* A new OTP appends a row and leaves the others alone.
LEMMA AppendRow ==
    ASSUME TypeInv,
           otps' = Append(otps, [attempts |-> 0, verified |-> FALSE, expired |-> FALSE]),
           signIns' = Append(signIns, 0)
    PROVE  /\ otps' \in Seq(Otp) /\ signIns' \in Seq(Nat)
           /\ Len(otps') = Len(otps) + 1 /\ Len(signIns') = Len(otps')
           /\ Row' = Row \cup {Len(otps) + 1}
           /\ \A o \in Row : otps'[o] = otps[o] /\ signIns'[o] = signIns[o]
           /\ otps'[Len(otps) + 1] = [attempts |-> 0, verified |-> FALSE, expired |-> FALSE]
           /\ signIns'[Len(otps) + 1] = 0
<1> DEFINE new == [attempts |-> 0, verified |-> FALSE, expired |-> FALSE]
<1>1. otps \in Seq(Otp) /\ signIns \in Seq(Nat) /\ Len(signIns) = Len(otps)
  BY DEF TypeInv, TypeOK
<1>2. new \in Otp
  BY DEF Otp
<1> HIDE DEF new
<1>3. /\ Append(otps, new) \in Seq(Otp)
      /\ Len(Append(otps, new)) = Len(otps) + 1
      /\ \A o \in 1 .. Len(otps) : Append(otps, new)[o] = otps[o]
      /\ Append(otps, new)[Len(otps) + 1] = new
  BY <1>1, <1>2, AppendProperties
<1>4. /\ Append(signIns, 0) \in Seq(Nat)
      /\ Len(Append(signIns, 0)) = Len(signIns) + 1
      /\ \A o \in 1 .. Len(signIns) : Append(signIns, 0)[o] = signIns[o]
      /\ Append(signIns, 0)[Len(signIns) + 1] = 0
  BY <1>1, AppendProperties
<1>5. otps' = Append(otps, new)
  BY DEF new
<1>6. Row = 1 .. Len(otps) /\ Row' = 1 .. Len(otps') /\ Len(otps) \in Nat
  BY <1>1, <1>3, <1>5, LenProperties DEF Row
<1>7. Row' = Row \cup {Len(otps) + 1}
  BY <1>3, <1>5, <1>6
<1>8. QED
  BY <1>1, <1>3, <1>4, <1>5, <1>6, <1>7 DEF new

\* A change to one row keeps the numbering and the other rows.
LEMMA ChangeRow ==
    ASSUME TypeInv, NEW o \in Row, NEW e \in Otp, otps' = [otps EXCEPT ![o] = e]
    PROVE  /\ otps' \in Seq(Otp) /\ Len(otps') = Len(otps) /\ Row' = Row
           /\ \A p \in Row : otps'[p] = IF p = o THEN e ELSE otps[p]
<1>1. otps \in Seq(Otp) /\ o \in 1 .. Len(otps)
  BY Rows DEF TypeInv, TypeOK
<1>2. QED
  BY <1>1, ExceptSeq DEF Row

\* A request takes a step of its own, keeps its row, or ends.
LEMMA StepRequest ==
    ASSUME TypeInv, NEW r \in Request, NEW step \in Sending \cup Verifying, Goto(r, step),
           step \in {"enqueue"} \cup Verifying => request[r].otp \in Row,
           Row' = Row
    PROVE  request' \in [Request -> RequestState] /\ WellFormed'
<1>1. request[r] \in RequestState
  BY DEF TypeInv, TypeOK
<1>2. [request[r] EXCEPT !.step = step] \in RequestState
  BY <1>1 DEF RequestState
<1>3. request' = [request EXCEPT ![r] = [request[r] EXCEPT !.step = step]]
  BY DEF Goto
<1>4. request' \in [Request -> RequestState]
  BY <1>2, <1>3 DEF TypeInv, TypeOK
<1>5. WellFormed'
  BY <1>1, <1>3 DEF TypeInv, TypeOK, WellFormed, RequestState
<1>6. QED
  BY <1>4, <1>5

LEMMA EndRequest ==
    ASSUME TypeInv, NEW r \in Request, End(r), Row' = Row
    PROVE  request' \in [Request -> RequestState] /\ WellFormed'
BY DEF TypeInv, TypeOK, WellFormed, End, Idle, RequestState, Sending, Verifying

\* What the requests are after a step of one of them.
LEMMA AfterGoto ==
    ASSUME TypeInv, NEW r \in Request, NEW step, Goto(r, step)
    PROVE  \A q \in Request : request'[q] = IF q = r THEN [step |-> step, otp |-> request[r].otp]
                                            ELSE request[q]
BY DEF Goto, TypeInv, TypeOK, RequestState

LEMMA AfterEnd ==
    ASSUME TypeInv, NEW r \in Request, End(r)
    PROVE  \A q \in Request : request'[q] = IF q = r THEN Idle ELSE request[q]
BY DEF End, TypeInv, TypeOK

LEMMA AfterBecomes ==
    ASSUME TypeInv, NEW r \in Request, NEW s, request' = [request EXCEPT ![r] = s]
    PROVE  \A q \in Request : request'[q] = IF q = r THEN s ELSE request[q]
BY DEF TypeInv, TypeOK

\* A step that is neither a verification's read nor its answer.
LEMMA OtherStep ==
    ASSUME TypeInv, NEW r \in Request,
           \/ Increment(r) \/ Expire(r) \/ Enqueue(r) \/ FindUser(r) \/ CreateUser(r)
           \/ IssueTokens(r) \/ Fail(r)
    PROVE  /\ otps' = otps
           /\ \A q \in Request : q # r => request'[q] = request[q]
           /\ \/ request'[r] = request[r]
              \/ request'[r].step \notin {"wrong", "mark"}
<1>1. otps' = otps
  BY DEF Increment, Expire, Enqueue, FindUser, CreateUser, IssueTokens, Fail
<1>2. \/ request' = request \/ End(r)
      \/ \E step \in {"expire", "create", "tokens", "newUser"} : Goto(r, step)
  BY DEF Increment, Expire, Enqueue, FindUser, CreateUser, IssueTokens, Fail
<1>3. CASE request' = request
  BY <1>1, <1>3
<1>4. CASE End(r)
  BY <1>1, <1>4, AfterEnd DEF Idle
<1>5. CASE \E step \in {"expire", "create", "tokens", "newUser"} : Goto(r, step)
  <2>1. PICK step \in {"expire", "create", "tokens", "newUser"} : Goto(r, step)
    BY <1>5
  <2>2. \A q \in Request : request'[q] = IF q = r THEN [step |-> step, otp |-> request[r].otp]
                                          ELSE request[q]
    BY <2>1, AfterGoto
  <2>3. request'[r].step = step
    BY <2>2
  <2>4. QED
    BY <1>1, <2>2, <2>3
<1>6. QED
  BY <1>2, <1>3, <1>4, <1>5

\* Next, one disjunct per action.
LEMMA NextCases ==
    ASSUME Next
    PROVE  \/ \E r \in Request :
                 \/ Increment(r) \/ Expire(r) \/ CreateOtp(r) \/ Enqueue(r)
                 \/ CountAttempt(r) \/ MarkVerified(r) \/ FindUser(r) \/ CreateUser(r)
                 \/ IssueTokens(r) \/ Fail(r)
                 \/ \E code \in messaged \cup {0} : Find(r, code)
           \/ \E o \in Row : OtpExpires(o)
           \/ WindowEnds
BY DEF Next, Step

LEMMA InitTypeInv == Init => TypeInv
<1> SUFFICES ASSUME Init PROVE TypeInv
  OBVIOUS
<1>1. otps \in Seq(Otp) /\ signIns \in Seq(Nat) /\ Len(signIns) = Len(otps)
  BY EmptySeq DEF Init
<1>2. request \in [Request -> RequestState] /\ WellFormed
  BY DEF Init, Idle, RequestState, WellFormed, Sending, Verifying
<1>3. windows \in 0 .. MaxWindows /\ failures \in 0 .. MaxFailures
  BY OtpAssumption DEF Init
<1>4. hasTTL \in BOOLEAN /\ hasUser \in BOOLEAN
  BY Zenon DEF Init
<1>5. QED
  BY <1>1, <1>2, <1>3, <1>4 DEF Init, TypeInv, TypeOK

LEMMA NextTypeInv == TypeInv /\ [Next]_vars => TypeInv'
<1> SUFFICES ASSUME TypeInv, [Next]_vars PROVE TypeInv'
  OBVIOUS
<1> USE OtpAssumption
<1>1. ASSUME NEW r \in Request, Increment(r) PROVE TypeInv'
  <2>1. Row' = Row
    BY <1>1 DEF Increment, Row
  <2>2. request' \in [Request -> RequestState] /\ WellFormed'
    <3>1. CASE UNCHANGED request
      BY <2>1, <3>1 DEF TypeInv, TypeOK, WellFormed
    <3>2. CASE Goto(r, "expire")
      BY <2>1, <3>2, StepRequest DEF Sending, Verifying
    <3>3. CASE Goto(r, "create")
      BY <2>1, <3>3, StepRequest DEF Sending, Verifying
    <3>4. QED
      BY <1>1, <3>1, <3>2, <3>3 DEF Increment
  <2>3. counter' \in Nat /\ windows' \in 0 .. MaxWindows
    BY <1>1 DEF Increment, TypeInv, TypeOK
  <2>4. QED
    BY <1>1, <2>1, <2>2, <2>3 DEF Increment, TypeInv, TypeOK, account
<1>2. ASSUME NEW r \in Request, Expire(r) PROVE TypeInv'
  <2>1. Row' = Row
    BY <1>2 DEF Expire, Row
  <2>2. request' \in [Request -> RequestState] /\ WellFormed'
    BY <1>2, <2>1, StepRequest DEF Expire, Sending, Verifying
  <2>3. QED
    BY <1>2, <2>1, <2>2 DEF Expire, TypeInv, TypeOK, account
<1>3. ASSUME NEW r \in Request, CreateOtp(r) PROVE TypeInv'
  <2>1. /\ otps' \in Seq(Otp) /\ signIns' \in Seq(Nat) /\ Len(signIns') = Len(otps')
        /\ Row' = Row \cup {Len(otps) + 1} /\ Len(otps) + 1 \in Nat
    BY <1>3, AppendRow, Rows DEF CreateOtp
  <2>2. [step |-> "enqueue", otp |-> Len(otps) + 1] \in RequestState
    BY <2>1 DEF RequestState, Sending
  <2>3. request' \in [Request -> RequestState]
    BY <1>3, <2>2 DEF CreateOtp, TypeInv, TypeOK
  <2>4. WellFormed'
    BY <1>3, <2>1 DEF CreateOtp, TypeInv, TypeOK, WellFormed
  <2>5. QED
    BY <1>3, <2>1, <2>3, <2>4 DEF CreateOtp, TypeInv, TypeOK, limiter
<1>4. ASSUME NEW r \in Request, Enqueue(r) PROVE TypeInv'
  <2>1. Row' = Row
    BY <1>4 DEF Enqueue, Row
  <2>2. request' \in [Request -> RequestState] /\ WellFormed'
    BY <1>4, <2>1, EndRequest DEF Enqueue
  <2>3. messaged' \subseteq Row
    BY <1>4 DEF Enqueue, TypeInv, TypeOK, WellFormed
  <2>4. QED
    BY <1>4, <2>1, <2>2, <2>3 DEF Enqueue, TypeInv, TypeOK, limiter, account
<1>5. ASSUME NEW r \in Request, CountAttempt(r) PROVE TypeInv'
  <2> DEFINE o == request[r].otp
  <2>1. o \in Row
    BY <1>5 DEF CountAttempt, TypeInv, WellFormed, Verifying
  <2>2. [otps[o] EXCEPT !.attempts = @ + 1] \in Otp
    BY <2>1, RowType DEF Otp
  <2>3. otps' = [otps EXCEPT ![o] = [otps[o] EXCEPT !.attempts = @ + 1]]
    BY <1>5 DEF CountAttempt
  <2>4. otps' \in Seq(Otp) /\ Len(otps') = Len(otps) /\ Row' = Row
    BY <2>1, <2>2, <2>3, ChangeRow
  <2>5. request' \in [Request -> RequestState] /\ WellFormed'
    BY <1>5, <2>4, EndRequest DEF CountAttempt
  <2>6. QED
    BY <1>5, <2>4, <2>5 DEF CountAttempt, TypeInv, TypeOK, limiter, account
<1>6. ASSUME NEW r \in Request, MarkVerified(r) PROVE TypeInv'
  <2> DEFINE o == request[r].otp
  <2>1. o \in Row
    BY <1>6 DEF MarkVerified, TypeInv, WellFormed, Verifying
  <2>2. [otps[o] EXCEPT !.verified = TRUE] \in Otp
    BY <2>1, RowType DEF Otp
  <2>3. otps' = [otps EXCEPT ![o] = [otps[o] EXCEPT !.verified = TRUE]]
    BY <1>6 DEF MarkVerified
  <2>4. otps' \in Seq(Otp) /\ Len(otps') = Len(otps) /\ Row' = Row
    BY <2>1, <2>2, <2>3, ChangeRow
  <2>5. request' \in [Request -> RequestState] /\ WellFormed'
    BY <1>6, <2>1, <2>4, StepRequest DEF MarkVerified, Verifying
  <2>6. QED
    BY <1>6, <2>4, <2>5 DEF MarkVerified, TypeInv, TypeOK, limiter, account
<1>7. ASSUME NEW r \in Request, FindUser(r) PROVE TypeInv'
  <2>1. Row' = Row /\ request[r].otp \in Row
    BY <1>7 DEF FindUser, Row, TypeInv, WellFormed, Verifying
  <2>2. request' \in [Request -> RequestState] /\ WellFormed'
    BY <1>7, <2>1, StepRequest DEF FindUser, Verifying
  <2>3. QED
    BY <1>7, <2>1, <2>2 DEF FindUser, TypeInv, TypeOK, limiter, account
<1>8. ASSUME NEW r \in Request, CreateUser(r) PROVE TypeInv'
  <2>1. Row' = Row /\ request[r].otp \in Row
    BY <1>8 DEF CreateUser, Row, TypeInv, WellFormed, Verifying
  <2>2. request' \in [Request -> RequestState] /\ WellFormed'
    BY <1>8, <2>1, StepRequest, EndRequest DEF CreateUser, Verifying
  <2>3. newUsers' \in Nat
    BY <1>8 DEF CreateUser, TypeInv, TypeOK
  <2>4. hasUser' \in BOOLEAN
    BY <1>8, Zenon DEF CreateUser, TypeInv, TypeOK
  <2>5. QED
    BY <1>8, <2>1, <2>2, <2>3, <2>4 DEF CreateUser, TypeInv, TypeOK, limiter
<1>9. ASSUME NEW r \in Request, IssueTokens(r) PROVE TypeInv'
  <2> DEFINE o == request[r].otp
  <2>1. Row' = Row /\ o \in 1 .. Len(signIns)
    BY <1>9, Rows DEF IssueTokens, Row, TypeInv, TypeOK, WellFormed, Verifying
  <2>2. request' \in [Request -> RequestState] /\ WellFormed'
    BY <1>9, <2>1, EndRequest DEF IssueTokens
  <2>3. signIns[o] + 1 \in Nat
    BY <2>1, ElementOfSeq DEF TypeInv, TypeOK
  <2>4. signIns' = [signIns EXCEPT ![o] = signIns[o] + 1]
    BY <1>9 DEF IssueTokens
  <2>5. signIns' \in Seq(Nat) /\ Len(signIns') = Len(signIns)
    BY <2>1, <2>3, <2>4, ExceptSeq DEF TypeInv, TypeOK
  <2>6. QED
    BY <1>9, <2>1, <2>2, <2>5 DEF IssueTokens, TypeInv, TypeOK, limiter
<1>10. ASSUME NEW r \in Request, Fail(r) PROVE TypeInv'
  <2>1. Row' = Row
    BY <1>10 DEF Fail, Row
  <2>2. request' \in [Request -> RequestState] /\ WellFormed'
    BY <1>10, <2>1, EndRequest DEF Fail
  <2>3. failures' \in 0 .. MaxFailures
    BY <1>10 DEF Fail, TypeInv, TypeOK
  <2>4. QED
    BY <1>10, <2>1, <2>2, <2>3 DEF Fail, TypeInv, TypeOK, limiter, account
<1>11. ASSUME NEW r \in Request, NEW code, Find(r, code) PROVE TypeInv'
  <2>1. PICK o \in Row :
          /\ request' = [request EXCEPT ![r] =
                 [step |-> IF code = o THEN "mark" ELSE "wrong", otp |-> o]]
          /\ contended' = contended \cup (IF code = o /\ At("mark", o) # {} THEN {o} ELSE {})
    BY <1>11 DEF Find
  <2>2. Row' = Row /\ o \in Nat
    BY <1>11, Rows DEF Find, Row
  <2>3. [step |-> IF code = o THEN "mark" ELSE "wrong", otp |-> o] \in RequestState
    BY <2>2 DEF RequestState, Verifying
  <2>4. request' \in [Request -> RequestState]
    BY <2>1, <2>3 DEF TypeInv, TypeOK
  <2>5. WellFormed'
    BY <2>1, <2>2 DEF TypeInv, TypeOK, WellFormed
  <2>6. contended' \subseteq Row
    BY <2>1 DEF TypeInv, TypeOK
  <2>7. QED
    BY <1>11, <2>2, <2>4, <2>5, <2>6 DEF Find, TypeInv, TypeOK, limiter, account
<1>12. ASSUME NEW o \in Row, OtpExpires(o) PROVE TypeInv'
  <2>1. [otps[o] EXCEPT !.expired = TRUE] \in Otp
    BY RowType DEF Otp
  <2>2. otps' = [otps EXCEPT ![o] = [otps[o] EXCEPT !.expired = TRUE]]
    BY <1>12 DEF OtpExpires
  <2>3. otps' \in Seq(Otp) /\ Len(otps') = Len(otps) /\ Row' = Row
    BY <2>1, <2>2, ChangeRow
  <2>4. WellFormed'
    BY <1>12, <2>3 DEF OtpExpires, TypeInv, WellFormed
  <2>5. QED
    BY <1>12, <2>3, <2>4 DEF OtpExpires, TypeInv, TypeOK, limiter, account
<1>13. CASE WindowEnds
  BY <1>13 DEF WindowEnds, TypeInv, TypeOK, WellFormed, Row, account
<1>14. CASE UNCHANGED vars
  BY <1>14 DEF vars, TypeInv, TypeOK, WellFormed, Row, limiter, account
<1>15. QED
  BY <1>1, <1>2, <1>3, <1>4, <1>5, <1>6, <1>7, <1>8, <1>9, <1>10, <1>11, <1>12,
     <1>13, <1>14, NextCases

\* Rows, requests and counters keep their types.
THEOREM TypeCorrect == Spec => []TypeOK
<1>1. TypeInv => TypeOK
  BY DEF TypeInv
<1>2. QED
  BY InitTypeInv, NextTypeInv, <1>1, PTL DEF Spec

-----------------------------------------------------------------------------
(* AttemptsBounded: a wrong guess that has been read and not yet counted    *)
(* counts already.                                                          *)

Wrong(o) == {r \in Request : request[r].step = "wrong" /\ request[r].otp = o}

AttemptsInv ==
    /\ TypeInv
    /\ \A o \in Row : otps[o].attempts + Cardinality(Wrong(o))
                         <= MaxAttempts + Cardinality(Request) - 1

LEMMA WrongFinite ==
    ASSUME NEW o
    PROVE  /\ IsFiniteSet(Wrong(o)) /\ IsFiniteSet(Request)
           /\ Cardinality(Wrong(o)) \in Nat /\ Cardinality(Request) \in Nat
           /\ Cardinality(Wrong(o)) <= Cardinality(Request)
<1>1. Wrong(o) \in SUBSET Request
  BY DEF Wrong
<1>2. QED
  BY <1>1, OtpAssumption, FS_Subset, FS_CardinalityType

LEMMA WrongFinitePrime ==
    ASSUME NEW o
    PROVE  /\ IsFiniteSet(Wrong(o)') /\ Cardinality(Wrong(o)') \in Nat
           /\ Cardinality(Wrong(o)') <= Cardinality(Request)
<1>1. Wrong(o)' \in SUBSET Request
  BY DEF Wrong
<1>2. QED
  BY <1>1, OtpAssumption, FS_Subset, FS_CardinalityType

\* Nothing is counted and nobody else reads a wrong guess.
LEMMA NoNewWrong ==
    ASSUME AttemptsInv, NEW o \in Row, otps'[o].attempts = otps[o].attempts,
           Wrong(o)' \subseteq Wrong(o)
    PROVE  otps'[o].attempts + Cardinality(Wrong(o)')
             <= MaxAttempts + Cardinality(Request) - 1
<1>1. Cardinality(Wrong(o)') <= Cardinality(Wrong(o))
  BY WrongFinite, FS_Subset
<1>2. otps[o].attempts \in Nat
  BY RowType DEF AttemptsInv, Otp
<1>3. QED
  BY <1>1, <1>2, WrongFinite, WrongFinitePrime, OtpAssumption DEF AttemptsInv

LEMMA NextAttemptsInv == AttemptsInv /\ [Next]_vars => AttemptsInv'
<1> SUFFICES ASSUME AttemptsInv, [Next]_vars, NEW o \in Row'
             PROVE  otps'[o].attempts + Cardinality(Wrong(o)')
                      <= MaxAttempts + Cardinality(Request) - 1
  BY NextTypeInv DEF AttemptsInv
<1> DEFINE Bounded == otps'[o].attempts + Cardinality(Wrong(o)')
                        <= MaxAttempts + Cardinality(Request) - 1
<1>0. TypeInv
  BY DEF AttemptsInv
<1>1. ASSUME NEW r \in Request, o \in Row,
             \/ Increment(r) \/ Expire(r) \/ Enqueue(r) \/ FindUser(r) \/ CreateUser(r)
             \/ IssueTokens(r) \/ Fail(r)
      PROVE  Bounded
  <2>1. otps' = otps
    BY <1>0, <1>1, OtherStep
  <2>2. Wrong(o)' \subseteq Wrong(o)
    <3>1. /\ \A q \in Request : q # r => request'[q] = request[q]
          /\ request'[r] = request[r] \/ request'[r].step \notin {"wrong", "mark"}
      BY <1>0, <1>1, OtherStep
    <3>2. QED
      BY <3>1 DEF Wrong
  <2>3. QED
    BY <1>1, <2>1, <2>2, NoNewWrong
<1>2. ASSUME NEW r \in Request, CreateOtp(r) PROVE Bounded
  <2>1. /\ Row' = Row \cup {Len(otps) + 1} /\ \A p \in Row : otps'[p] = otps[p]
        /\ otps'[Len(otps) + 1].attempts = 0 /\ Len(otps) \in Nat /\ Row = 1 .. Len(otps)
    BY <1>0, <1>2, AppendRow, Rows DEF CreateOtp
  <2>2. Wrong(o)' \subseteq Wrong(o)
    BY <1>0, <1>2 DEF CreateOtp, Wrong, TypeInv, TypeOK
  <2>3. CASE o \in Row
    BY <2>1, <2>2, <2>3, NoNewWrong
  <2>4. CASE o = Len(otps) + 1
    <3>1. Wrong(o) = {}
      BY <1>0, <2>1, <2>4 DEF Wrong, TypeInv, WellFormed, Verifying
    <3>2. Cardinality(Wrong(o)') = 0
      BY <2>2, <3>1, FS_EmptySet
    <3>3. otps'[o].attempts = 0
      BY <2>1, <2>4
    <3>4. QED
      BY <3>2, <3>3, WrongFinite, OtpAssumption
  <2>5. QED
    BY <2>1, <2>3, <2>4
<1>3. ASSUME NEW r \in Request, CountAttempt(r) PROVE Bounded
  <2> DEFINE p == request[r].otp
             e == [otps[p] EXCEPT !.attempts = @ + 1]
  <2>1. p \in Row /\ otps[p] \in Otp
    BY <1>0, <1>3, RowType DEF CountAttempt, TypeInv, WellFormed, Verifying
  <2>2. otps' = [otps EXCEPT ![p] = e]
    BY <1>3 DEF CountAttempt
  <2>3. e \in Otp /\ e.attempts = otps[p].attempts + 1
    BY <2>1 DEF Otp
  <2> HIDE DEF e
  <2>4. Row' = Row /\ \A q \in Row : otps'[q] = IF q = p THEN e ELSE otps[q]
    BY <1>0, <2>1, <2>2, <2>3, ChangeRow
  <2>5. Wrong(o)' = Wrong(o) \ {r}
    <3>1. \A q \in Request : request'[q] = IF q = r THEN Idle ELSE request[q]
      BY <1>0, <1>3, AfterEnd DEF CountAttempt
    <3>2. QED
      BY <3>1 DEF Wrong, Idle
  <2>6. CASE o # p
    BY <2>4, <2>5, <2>6, NoNewWrong
  <2>7. CASE o = p
    <3>1. r \in Wrong(o)
      BY <1>3, <2>7 DEF CountAttempt, Wrong
    <3>2. Cardinality(Wrong(o)') = Cardinality(Wrong(o)) - 1
      BY <2>5, <3>1, WrongFinite, FS_RemoveElement
    <3>3. otps'[o].attempts = otps[o].attempts + 1 /\ otps[o].attempts \in Nat
      BY <2>1, <2>3, <2>4, <2>7 DEF Otp
    <3>4. QED
      BY <2>1, <2>7, <3>2, <3>3, WrongFinite, OtpAssumption DEF AttemptsInv
  <2>8. QED
    BY <2>6, <2>7
<1>4. ASSUME NEW r \in Request, MarkVerified(r) PROVE Bounded
  <2> DEFINE p == request[r].otp
             e == [otps[p] EXCEPT !.verified = TRUE]
  <2>1. p \in Row /\ otps[p] \in Otp
    BY <1>0, <1>4, RowType DEF MarkVerified, TypeInv, WellFormed, Verifying
  <2>2. otps' = [otps EXCEPT ![p] = e]
    BY <1>4 DEF MarkVerified
  <2>3. e \in Otp /\ e.attempts = otps[p].attempts
    BY <2>1 DEF Otp
  <2> HIDE DEF e
  <2>4. Row' = Row /\ \A q \in Row : otps'[q] = IF q = p THEN e ELSE otps[q]
    BY <1>0, <2>1, <2>2, <2>3, ChangeRow
  <2>5. Wrong(o)' \subseteq Wrong(o)
    <3>1. \A q \in Request : request'[q] = IF q = r THEN [step |-> "user", otp |-> p]
                                            ELSE request[q]
      BY <1>0, <1>4, AfterGoto DEF MarkVerified
    <3>2. QED
      BY <3>1 DEF Wrong
  <2>6. QED
    BY <2>3, <2>4, <2>5, NoNewWrong
<1>5. ASSUME NEW r \in Request, NEW code, Find(r, code) PROVE Bounded
  <2>1. PICK p \in Row :
          /\ request[r] = Idle /\ otps[p].attempts < MaxAttempts
          /\ request' = [request EXCEPT ![r] =
                 [step |-> IF code = p THEN "mark" ELSE "wrong", otp |-> p]]
    BY <1>5 DEF Find
  <2>2. otps' = otps /\ Row' = Row
    BY <1>5 DEF Find, Row
  <2>3. CASE o # p
    <3>1. Wrong(o)' \subseteq Wrong(o)
      BY <1>0, <2>1, <2>3 DEF Wrong, TypeInv, TypeOK
    <3>2. QED
      BY <2>2, <3>1, NoNewWrong
  <2>4. CASE o = p
    <3>1. otps[p].attempts \in Nat
      BY <1>0, RowType DEF Otp
    <3>2. QED
      BY <2>1, <2>2, <2>4, <3>1, WrongFinite, WrongFinitePrime, OtpAssumption
  <2>5. QED
    BY <2>3, <2>4
<1>6. ASSUME NEW q \in Row, OtpExpires(q) PROVE Bounded
  <2> DEFINE e == [otps[q] EXCEPT !.expired = TRUE]
  <2>1. otps[q] \in Otp
    BY <1>0, RowType
  <2>2. otps' = [otps EXCEPT ![q] = e]
    BY <1>6 DEF OtpExpires
  <2>3. e \in Otp /\ e.attempts = otps[q].attempts
    BY <2>1 DEF Otp
  <2> HIDE DEF e
  <2>4. Row' = Row /\ \A p \in Row : otps'[p] = IF p = q THEN e ELSE otps[p]
    BY <1>0, <2>2, <2>3, ChangeRow
  <2>5. Wrong(o)' \subseteq Wrong(o)
    BY <1>6 DEF OtpExpires, Wrong
  <2>6. QED
    BY <2>3, <2>4, <2>5, NoNewWrong
<1>7. ASSUME WindowEnds \/ UNCHANGED vars PROVE Bounded
  <2>1. otps' = otps /\ Row' = Row /\ Wrong(o)' = Wrong(o)
    BY <1>7 DEF WindowEnds, vars, Row, Wrong
  <2>2. QED
    BY <2>1, NoNewWrong
<1>8. ASSUME NEW r \in Request,
             \/ Increment(r) \/ Expire(r) \/ Enqueue(r) \/ FindUser(r) \/ CreateUser(r)
             \/ IssueTokens(r) \/ Fail(r)
      PROVE  o \in Row
  BY <1>8 DEF Increment, Expire, Enqueue, FindUser, CreateUser, IssueTokens, Fail, Row
<1>9. QED
  BY <1>1, <1>2, <1>3, <1>4, <1>5, <1>6, <1>7, <1>8, NextCases

\* A code takes at most MaxAttempts wrong guesses, and one for every other
\* request that read the row before the last of them was counted.
THEOREM AttemptsLimited == Spec => []AttemptsBounded
<1>1. Init => AttemptsInv
  BY InitTypeInv DEF Init, AttemptsInv, Row
<1>2. AttemptsInv => AttemptsBounded
  <2> SUFFICES ASSUME AttemptsInv, NEW o \in Row
               PROVE  otps[o].attempts <= MaxAttempts + Cardinality(Request) - 1
    BY DEF AttemptsBounded
  <2>1. otps[o].attempts \in Nat
    BY RowType DEF AttemptsInv, Otp
  <2>2. QED
    BY <2>1, WrongFinite, OtpAssumption DEF AttemptsInv
<1>3. QED
  BY <1>1, <1>2, NextAttemptsInv, PTL DEF Spec

-----------------------------------------------------------------------------
(* CounterExpires and OneNewUser: inductive, given the types.               *)

\* A step of one request leaves the others where they are.
LEMMA OthersStay ==
    ASSUME TypeInv, NEW r \in Request,
           \/ Increment(r) \/ Step(r) \/ Fail(r)
           \/ \E code \in messaged \cup {0} : Find(r, code)
    PROVE  \A q \in Request : q # r => request'[q] = request[q]
BY DEF TypeInv, TypeOK, Goto, End, Step, Increment, Expire, CreateOtp, Enqueue, Find, CountAttempt,
       MarkVerified, FindUser, CreateUser, IssueTokens, Fail

LEMMA NextCounterExpires == TypeInv /\ CounterExpires /\ [Next]_vars => CounterExpires'
<1> SUFFICES ASSUME TypeInv, CounterExpires, [Next]_vars, failures' = 0, counter' # 0
             PROVE  hasTTL' \/ \E r \in Request : request'[r].step = "expire"
  BY DEF CounterExpires
<1>1. ASSUME NEW r \in Request, Increment(r), counter = 0
      PROVE  \E q \in Request : request'[q].step = "expire"
  <2>1. Goto(r, "expire")
    BY <1>1 DEF Increment
  <2>2. request'[r] = [step |-> "expire", otp |-> request[r].otp]
    BY <2>1, AfterGoto
  <2>3. QED
    BY <2>2
<1>2. ASSUME NEW r \in Request, Expire(r) PROVE hasTTL'
  BY <1>2 DEF Expire
<1>3. ASSUME NEW r \in Request, Fail(r) PROVE FALSE
  BY <1>3 DEF Fail, TypeInv, TypeOK
<1>4. ASSUME NEW r \in Request,
             \/ Increment(r) /\ counter # 0
             \/ Step(r) /\ ~Expire(r)
             \/ \E code \in messaged \cup {0} : Find(r, code)
      PROVE  hasTTL' \/ \E q \in Request : request'[q].step = "expire"
  <2>1. failures = 0 /\ counter # 0 /\ hasTTL' = hasTTL
    BY <1>4 DEF Step, Increment, CreateOtp, Enqueue, Find, CountAttempt, MarkVerified, FindUser,
                CreateUser, IssueTokens, limiter
  <2>2. request[r].step # "expire"
    BY <1>4 DEF Step, Increment, CreateOtp, Enqueue, Find, CountAttempt, MarkVerified, FindUser,
                CreateUser, IssueTokens, Idle
  <2>3. \A q \in Request : q # r => request'[q] = request[q]
    BY <1>4, OthersStay
  <2>4. QED
    BY <2>1, <2>2, <2>3 DEF CounterExpires
<1>5. ASSUME NEW o \in Row, OtpExpires(o)
      PROVE  hasTTL' \/ \E r \in Request : request'[r].step = "expire"
  BY <1>5 DEF OtpExpires, limiter, CounterExpires
<1>6. ASSUME WindowEnds PROVE FALSE
  BY <1>6 DEF WindowEnds
<1>7. CASE UNCHANGED vars
  BY <1>7 DEF vars, limiter, CounterExpires
<1>8. QED
  BY <1>1, <1>2, <1>3, <1>4, <1>5, <1>6, <1>7 DEF Next

\* While no handler dies, a counter always has, or is about to get, its TTL.
THEOREM CountersExpire == Spec => []CounterExpires
<1>1. Init => CounterExpires
  BY DEF Init, CounterExpires
<1>2. QED
  BY <1>1, InitTypeInv, NextTypeInv, NextCounterExpires, PTL DEF Spec

\* The number of answers that said isNewUser follows the User row.
NewUserInv == newUsers = IF hasUser THEN 1 ELSE 0

\* However many first sign-ins race, one of them makes the account.
THEOREM OneAccount == Spec => []OneNewUser
<1>1. Init => NewUserInv
  BY DEF Init, NewUserInv
<1>2. NewUserInv /\ [Next]_vars => NewUserInv'
  <2> SUFFICES ASSUME NewUserInv, [Next]_vars PROVE NewUserInv'
    OBVIOUS
  <2>1. ASSUME NEW r \in Request, CreateUser(r) PROVE NewUserInv'
    BY <2>1 DEF CreateUser, NewUserInv
  <2>2. UNCHANGED <<hasUser, newUsers>> \/ \E r \in Request : CreateUser(r)
    BY NextCases DEF Increment, Expire, CreateOtp, Enqueue, Find, CountAttempt, MarkVerified, FindUser,
           IssueTokens, Fail, OtpExpires, WindowEnds, vars, account
  <2>3. QED
    BY <2>1, <2>2 DEF NewUserInv
<1>3. NewUserInv => OneNewUser
  BY DEF NewUserInv, OneNewUser
<1>4. QED
  BY <1>1, <1>2, <1>3, PTL DEF Spec

\* Only a send adds rows.
LEMMA RowsStay ==
    ASSUME TypeInv, NEW r \in Request,
           \/ Enqueue(r) \/ CountAttempt(r) \/ MarkVerified(r) \/ FindUser(r) \/ CreateUser(r)
           \/ IssueTokens(r) \/ Fail(r)
           \/ \E code \in messaged \cup {0} : Find(r, code)
    PROVE  Len(otps') = Len(otps)
<1>1. CASE otps' = otps
  BY <1>1
<1>2. ASSUME NEW o \in Row, NEW e, otps' = [otps EXCEPT ![o] = e] PROVE Len(otps') = Len(otps)
  BY <1>2, Rows, LenProperties DEF TypeInv, TypeOK
<1>3. CASE CountAttempt(r)
  <2>1. request[r].otp \in Row
    BY <1>3 DEF CountAttempt, TypeInv, WellFormed, Verifying
  <2>2. QED
    BY <1>2, <1>3, <2>1 DEF CountAttempt
<1>4. CASE MarkVerified(r)
  <2>1. request[r].otp \in Row
    BY <1>4 DEF MarkVerified, TypeInv, WellFormed, Verifying
  <2>2. QED
    BY <1>2, <1>4, <2>1 DEF MarkVerified
<1>5. QED
  BY <1>1, <1>3, <1>4 DEF Enqueue, FindUser, CreateUser, IssueTokens, Fail, Find

LEMMA ExpiryStays ==
    ASSUME TypeInv, NEW o \in Row, OtpExpires(o)
    PROVE  /\ Len(otps') = Len(otps) /\ Row' = Row
           /\ \A p \in Row : otps'[p].verified = otps[p].verified
<1> DEFINE e == [otps[o] EXCEPT !.expired = TRUE]
<1>1. e \in Otp /\ e.verified = otps[o].verified
  BY RowType DEF Otp
<1>2. otps' = [otps EXCEPT ![o] = e]
  BY DEF OtpExpires
<1> HIDE DEF e
<1>3. /\ Len(otps') = Len(otps) /\ Row' = Row
      /\ \A p \in Row : otps'[p] = IF p = o THEN e ELSE otps[p]
  BY <1>1, <1>2, ChangeRow
<1>4. QED
  BY <1>1, <1>3

-----------------------------------------------------------------------------
(* SendsBounded: a window that is open has a send left for every one its     *)
(* counter has not given out.                                                *)

Pending == {r \in Request : request[r].step \in {"expire", "create"}}

\* Sends of the last window that are spent; all of them when it is over.
Spent == IF counter = 0 \/ counter > MaxSends THEN MaxSends ELSE counter

SendsInv == Len(otps) + Cardinality(Pending) + MaxSends <= MaxSends * windows + Spent

LEMMA PendingFinite ==
    /\ IsFiniteSet(Pending) /\ Cardinality(Pending) \in Nat
    /\ IsFiniteSet(Pending') /\ Cardinality(Pending') \in Nat
<1>1. Pending \in SUBSET Request /\ Pending' \in SUBSET Request
  BY DEF Pending
<1>2. QED
  BY <1>1, OtpAssumption, FS_Subset, FS_CardinalityType

LEMMA Numbers ==
    ASSUME TypeInv
    PROVE  /\ MaxSends \in Nat \ {0} /\ counter \in Nat /\ Len(otps) \in Nat
           /\ Spent \in Nat /\ MaxSends * windows \in Nat
           /\ MaxSends * (windows + 1) = MaxSends * windows + MaxSends
<1>1. MaxSends \in Nat \ {0} /\ counter \in Nat /\ windows \in Nat /\ Len(otps) \in Nat
  BY OtpAssumption, Rows DEF TypeInv, TypeOK
<1>2. Spent \in Nat
  BY <1>1 DEF Spent
<1>3. QED
  BY <1>1, <1>2

\* Nobody new is about to send, and the counter and the rows stay.
LEMMA NoNewSend ==
    ASSUME TypeInv, SendsInv, Pending' \subseteq Pending, counter' = counter,
           windows' = windows, Len(otps') = Len(otps)
    PROVE  SendsInv'
<1>1. Cardinality(Pending') <= Cardinality(Pending)
  BY PendingFinite, FS_Subset
<1>2. Spent' = Spent
  BY DEF Spent
<1> DEFINE total == MaxSends * windows
<1>3. total' = total
  OBVIOUS
<1>4. Len(otps) + Cardinality(Pending) + MaxSends <= total + Spent
  BY DEF SendsInv
<1>5. total \in Nat
  BY Numbers
<1> HIDE DEF total
<1>6. Len(otps') + Cardinality(Pending') + MaxSends <= total' + Spent'
  BY <1>1, <1>2, <1>3, <1>4, <1>5, PendingFinite, Numbers
<1>7. QED
  BY <1>6 DEF SendsInv, total

LEMMA NextSendsInv == TypeInv /\ SendsInv /\ [Next]_vars => SendsInv'
<1> SUFFICES ASSUME TypeInv, SendsInv, [Next]_vars PROVE SendsInv'
  OBVIOUS
<1> DEFINE total == MaxSends * windows
           n == Cardinality(Pending)
           rows == Len(otps)
<1>0. rows + n + MaxSends <= total + Spent
  BY DEF SendsInv
<1>1. ASSUME NEW r \in Request, Increment(r) PROVE SendsInv'
  <2>1. r \notin Pending /\ otps' = otps
    BY <1>1 DEF Increment, Pending, Idle
  <2>2. CASE counter > MaxSends
    BY <1>1, <2>2, Numbers DEF Increment
  <2>3. CASE counter = MaxSends
    <3>1. Pending' = Pending /\ windows' = windows /\ Spent' = Spent
      BY <1>1, <2>3, Numbers DEF Increment, Pending, Spent
    <3>2. QED
      BY <2>1, <3>1 DEF SendsInv
  <2>4. CASE counter < MaxSends
    <3>1. PICK step \in {"expire", "create"} : Goto(r, step)
      BY <1>1, <2>4, Numbers DEF Increment
    <3>2. \A q \in Request : request'[q] = IF q = r THEN [step |-> step, otp |-> request[r].otp]
                                            ELSE request[q]
      BY <3>1, AfterGoto
    <3>3. Pending' = Pending \cup {r}
      BY <3>1, <3>2 DEF Pending
    <3>4. n' = n + 1
      BY <2>1, <3>3, PendingFinite, FS_AddElement
    <3>5. total' + Spent' = total + Spent + 1
      <4>1. CASE counter = 0
        <5>1. total' = total + MaxSends
          BY <1>1, <4>1, Numbers DEF Increment
        <5>2. Spent' = 1 /\ Spent = MaxSends
          BY <1>1, <4>1, Numbers DEF Increment, Spent
        <5>3. total \in Nat /\ MaxSends \in Nat
          BY Numbers
        <5> HIDE DEF total
        <5>4. QED
          BY <5>1, <5>2, <5>3
      <4>2. CASE counter # 0
        <5>1. total' = total
          BY <1>1, <4>2 DEF Increment
        <5>2. Spent' = Spent + 1 /\ Spent \in Nat
          BY <1>1, <2>4, <4>2, Numbers DEF Increment, Spent
        <5>3. total \in Nat
          BY Numbers
        <5> HIDE DEF total
        <5>4. QED
          BY <5>1, <5>2, <5>3
      <4>3. QED
        BY <4>1, <4>2
    <3>6. rows' = rows
      BY <2>1
    <3>7. rows \in Nat /\ n \in Nat /\ MaxSends \in Nat /\ total + Spent \in Nat
      BY Numbers, PendingFinite
    <3> HIDE DEF total, n, rows
    <3>8. rows' + n' + MaxSends <= total' + Spent'
      BY <1>0, <3>4, <3>5, <3>6, <3>7
    <3>9. QED
      BY <3>8 DEF SendsInv, total, n, rows
  <2>5. QED
    BY <2>2, <2>3, <2>4, Numbers
<1>2. ASSUME NEW r \in Request, Expire(r) PROVE SendsInv'
  <2>1. \A q \in Request : request'[q] = IF q = r THEN [step |-> "create", otp |-> request[r].otp]
                                          ELSE request[q]
    BY <1>2, AfterGoto DEF Expire
  <2>2. Pending' \subseteq Pending
    BY <1>2, <2>1 DEF Pending, Expire
  <2>3. QED
    BY <1>2, <2>2, NoNewSend DEF Expire
<1>3. ASSUME NEW r \in Request, CreateOtp(r) PROVE SendsInv'
  <2>1. rows' = rows + 1
    BY <1>3, AppendRow DEF CreateOtp
  <2>2. r \in Pending
    BY <1>3 DEF CreateOtp, Pending
  <2>3. \A q \in Request : request'[q] = IF q = r THEN [step |-> "enqueue", otp |-> Len(otps) + 1]
                                          ELSE request[q]
    BY <1>3, AfterBecomes DEF CreateOtp
  <2>4. Pending' = Pending \ {r}
    BY <2>3 DEF Pending
  <2>5. n' = n - 1
    BY <2>2, <2>4, PendingFinite, FS_RemoveElement
  <2>6. total' = total /\ Spent' = Spent
    BY <1>3 DEF CreateOtp, limiter, Spent
  <2>7. rows \in Nat /\ n \in Nat /\ n' \in Nat /\ MaxSends \in Nat /\ total + Spent \in Nat
    BY Numbers, PendingFinite
  <2> HIDE DEF total, n, rows
  <2>8. rows' + n' + MaxSends <= total' + Spent'
    BY <1>0, <2>1, <2>5, <2>6, <2>7
  <2>9. QED
    BY <2>8 DEF SendsInv, total, n, rows
<1>4. ASSUME NEW r \in Request,
             \/ Enqueue(r) \/ CountAttempt(r) \/ MarkVerified(r) \/ FindUser(r) \/ CreateUser(r)
             \/ IssueTokens(r) \/ Fail(r)
             \/ \E code \in messaged \cup {0} : Find(r, code)
      PROVE  SendsInv'
  <2>1. counter' = counter /\ windows' = windows
    BY <1>4 DEF Enqueue, Find, CountAttempt, MarkVerified, FindUser, CreateUser, IssueTokens, Fail,
                limiter
  <2>2. Len(otps') = Len(otps)
    BY <1>4, RowsStay
  <2>3. \A q \in Request : q # r => request'[q] = request[q]
    BY <1>4, OthersStay DEF Step
  <2>4. request'[r].step \notin {"expire", "create"}
    <3>1. CASE End(r)
      BY <3>1, AfterEnd DEF Idle
    <3>2. ASSUME NEW step \in {"user", "newUser", "tokens"}, Goto(r, step)
          PROVE  request'[r].step \notin {"expire", "create"}
      <4>1. request'[r] = [step |-> step, otp |-> request[r].otp]
        BY <3>2, AfterGoto
      <4>2. QED
        BY <4>1
    <3>3. ASSUME NEW code, Find(r, code) PROVE request'[r].step \notin {"expire", "create"}
      <4>1. PICK o : request' = [request EXCEPT ![r] =
                         [step |-> IF code = o THEN "mark" ELSE "wrong", otp |-> o]]
        BY <3>3 DEF Find
      <4>2. request'[r] = [step |-> IF code = o THEN "mark" ELSE "wrong", otp |-> o]
        BY <4>1 DEF TypeInv, TypeOK
      <4>3. QED
        BY <4>2
    <3>4. QED
      BY <1>4, <3>1, <3>2, <3>3 DEF Enqueue, CountAttempt, MarkVerified, FindUser, CreateUser,
                                    IssueTokens, Fail
  <2>5. Pending' \subseteq Pending
    BY <2>3, <2>4 DEF Pending
  <2>6. QED
    BY <2>1, <2>2, <2>5, NoNewSend
<1>5. ASSUME NEW o \in Row, OtpExpires(o) PROVE SendsInv'
  <2>1. Len(otps') = Len(otps) /\ UNCHANGED <<counter, windows, request>>
    BY <1>5, ExpiryStays DEF OtpExpires, limiter
  <2>2. QED
    BY <2>1, NoNewSend DEF Pending
<1>6. ASSUME WindowEnds PROVE SendsInv'
  <2>1. Spent <= Spent' /\ Spent \in Nat /\ Spent' \in Nat
    BY <1>6, Numbers DEF WindowEnds, Spent
  <2>2. rows' = rows /\ n' = n /\ total' = total
    BY <1>6 DEF WindowEnds, Pending
  <2>3. rows \in Nat /\ n \in Nat /\ MaxSends \in Nat /\ total \in Nat
    BY Numbers, PendingFinite
  <2> HIDE DEF total, n, rows
  <2>4. \A a, b, c, d, e, f \in Nat : a + b + c <= d + e /\ e <= f => a + b + c <= d + f
    OBVIOUS
  <2>5. rows + n + MaxSends <= total + Spent'
    BY <1>0, <2>1, <2>3, <2>4, Zenon
  <2>6. rows' + n' + MaxSends <= total' + Spent'
    BY <2>2, <2>5
  <2>7. QED
    BY <2>6 DEF SendsInv, total, n, rows
<1>7. CASE UNCHANGED vars
  BY <1>7 DEF vars, limiter, SendsInv, Spent, Pending
<1>8. QED
  BY <1>1, <1>2, <1>3, <1>4, <1>5, <1>6, <1>7, NextCases

\* A phone gets at most MaxSends OTPs for every window that was opened.
THEOREM SendsLimited == Spec => []SendsBounded
<1>1. Init => SendsInv
  <2> SUFFICES ASSUME Init PROVE SendsInv
    OBVIOUS
  <2>1. Pending = {}
    BY DEF Init, Idle, Pending
  <2>2. Cardinality(Pending) = 0 /\ Len(otps) = 0
    BY <2>1, FS_EmptySet DEF Init
  <2>3. Spent = MaxSends /\ MaxSends * windows = 0 /\ MaxSends \in Nat
    BY OtpAssumption DEF Init, Spent
  <2>4. QED
    BY <2>2, <2>3 DEF SendsInv
<1>2. TypeInv /\ SendsInv => SendsBounded
  <2> SUFFICES ASSUME TypeInv, SendsInv PROVE SendsBounded
    OBVIOUS
  <2> DEFINE total == MaxSends * windows
  <2>1. Len(otps) + Cardinality(Pending) + MaxSends <= total + Spent
    BY DEF SendsInv
  <2>2. Spent <= MaxSends /\ Spent \in Nat
    BY Numbers DEF Spent
  <2>3. total \in Nat
    BY Numbers
  <2> HIDE DEF total
  <2>4. Len(otps) + Cardinality(Pending) <= total
    BY <2>1, <2>2, <2>3, Numbers, PendingFinite
  <2>5. QED
    BY <2>4 DEF SendsBounded, Pending, total
<1>3. QED
  BY <1>1, <1>2, InitTypeInv, NextTypeInv, NextSendsInv, PTL DEF Spec

-----------------------------------------------------------------------------
(* OneSignInPerCode: of a row nobody contended for, one verification at a    *)
(* time is past its read, it marks the row before it goes on, and when its   *)
(* tokens are out nobody can read the row again.                             *)

Accepting == {"mark", "user", "newUser", "tokens"}
Accepts(r, o) == request[r].step \in Accepting /\ request[r].otp = o

UsedOnce(o) ==
    /\ \A r, q \in Request : Accepts(r, o) /\ Accepts(q, o) => r = q
    /\ \A r \in Request : Accepts(r, o) /\ request[r].step # "mark" => otps[o].verified
    /\ signIns[o] > 0 => otps[o].verified /\ \A r \in Request : ~Accepts(r, o)
    /\ signIns[o] <= 1

SingleUse == \A o \in Row \ contended : UsedOnce(o)

\* Nobody new is past the read, and those who are past the mark have marked.
LEMMA KeepsUse ==
    ASSUME NEW o, UsedOnce(o), signIns'[o] = signIns[o],
           otps[o].verified => otps'[o].verified,
           \A q \in Request : Accepts(q, o)' => Accepts(q, o),
           \A q \in Request : Accepts(q, o)' /\ request'[q].step # "mark"
                                 => request[q].step # "mark" \/ otps'[o].verified
    PROVE  UsedOnce(o)'
BY DEF UsedOnce

LEMMA NextSingleUse == TypeInv /\ SingleUse /\ [Next]_vars => SingleUse'
<1> SUFFICES ASSUME TypeInv, SingleUse, [Next]_vars, NEW o \in Row', o \notin contended'
             PROVE  UsedOnce(o)'
  BY DEF SingleUse
<1>0. contended \subseteq contended' /\ (o \in Row => UsedOnce(o))
  <2>1. contended \subseteq contended'
    BY NextCases DEF Increment, Expire, CreateOtp, Enqueue, Find, CountAttempt, MarkVerified,
           FindUser, CreateUser, IssueTokens, Fail, OtpExpires, WindowEnds, vars
  <2>2. QED
    BY <2>1 DEF SingleUse
<1>1. ASSUME NEW r \in Request,
             \/ Increment(r) \/ Expire(r) \/ Enqueue(r) \/ FindUser(r) \/ CreateUser(r)
             \/ Fail(r)
      PROVE  UsedOnce(o)'
  <2>1. otps' = otps /\ signIns' = signIns /\ o \in Row
    BY <1>1 DEF Increment, Expire, Enqueue, FindUser, CreateUser, Fail, account, Row
  <2>2. \A q \in Request : q # r => request'[q] = request[q]
    BY <1>1, OthersStay DEF Step
  <2>3. Accepts(r, o)' => \/ Accepts(r, o) /\ request[r].step # "mark"
                          \/ request'[r] = request[r]
    <3>1. CASE request' = request
      BY <3>1
    <3>2. CASE End(r)
      BY <3>2, AfterEnd DEF Idle, Accepts, Accepting
    <3>3. CASE \E step \in {"expire", "create"} : Goto(r, step)
      <4>1. PICK step \in {"expire", "create"} : Goto(r, step)
        BY <3>3
      <4>2. request'[r] = [step |-> step, otp |-> request[r].otp]
        BY <4>1, AfterGoto
      <4>3. QED
        BY <4>2 DEF Accepts, Accepting
    <3>4. CASE request[r].step \in {"user", "newUser"}
              /\ \E step \in {"tokens", "newUser"} : Goto(r, step)
      <4>1. PICK step \in {"tokens", "newUser"} : Goto(r, step)
        BY <3>4
      <4>2. request'[r] = [step |-> step, otp |-> request[r].otp]
        BY <4>1, AfterGoto
      <4>3. QED
        BY <3>4, <4>2 DEF Accepts, Accepting
    <3>5. QED
      BY <1>1, <3>1, <3>2, <3>3, <3>4 DEF Increment, Expire, Enqueue, FindUser, CreateUser, Fail
  <2>4. QED
    BY <1>0, <2>1, <2>2, <2>3, KeepsUse DEF Accepts
<1>2. ASSUME NEW r \in Request, CreateOtp(r) PROVE UsedOnce(o)'
  <2>1. /\ Row' = Row \cup {Len(otps) + 1} /\ signIns'[Len(otps) + 1] = 0
        /\ \A p \in Row : otps'[p] = otps[p] /\ signIns'[p] = signIns[p]
        /\ Len(otps) \in Nat /\ Row = 1 .. Len(otps)
    BY <1>2, AppendRow, Rows DEF CreateOtp
  <2>2. \A q \in Request : request'[q] = IF q = r THEN [step |-> "enqueue", otp |-> Len(otps) + 1]
                                          ELSE request[q]
    BY <1>2, AfterBecomes DEF CreateOtp
  <2>3. \A q \in Request : Accepts(q, o)' => Accepts(q, o) /\ request'[q] = request[q]
    BY <2>2 DEF Accepts, Accepting
  <2>4. CASE o \in Row
    BY <1>0, <2>1, <2>3, <2>4, KeepsUse
  <2>5. CASE o = Len(otps) + 1
    <3>1. \A q \in Request : ~Accepts(q, o)
      BY <2>1, <2>5 DEF Accepts, Accepting, TypeInv, WellFormed, Verifying
    <3>2. QED
      BY <2>1, <2>3, <2>5, <3>1 DEF UsedOnce
  <2>6. QED
    BY <2>1, <2>4, <2>5
<1>3. ASSUME NEW r \in Request, CountAttempt(r) PROVE UsedOnce(o)'
  <2> DEFINE p == request[r].otp
             e == [otps[p] EXCEPT !.attempts = @ + 1]
  <2>1. p \in Row /\ otps[p] \in Otp
    BY <1>3, RowType DEF CountAttempt, TypeInv, WellFormed, Verifying
  <2>2. otps' = [otps EXCEPT ![p] = e]
    BY <1>3 DEF CountAttempt
  <2>3. e \in Otp /\ e.verified = otps[p].verified
    BY <2>1 DEF Otp
  <2> HIDE DEF e
  <2>4. Row' = Row /\ \A q \in Row : otps'[q] = IF q = p THEN e ELSE otps[q]
    BY <2>1, <2>2, <2>3, ChangeRow
  <2>5. \A q \in Request : request'[q] = IF q = r THEN Idle ELSE request[q]
    BY <1>3, AfterEnd DEF CountAttempt
  <2>6. \A q \in Request : Accepts(q, o)' => Accepts(q, o) /\ request'[q] = request[q]
    BY <2>5 DEF Accepts, Accepting, Idle
  <2>7. signIns' = signIns /\ otps'[o].verified = otps[o].verified /\ o \in Row
    BY <1>3, <2>3, <2>4 DEF CountAttempt, account
  <2>8. QED
    BY <1>0, <2>6, <2>7, KeepsUse
<1>4. ASSUME NEW r \in Request, MarkVerified(r) PROVE UsedOnce(o)'
  <2> DEFINE p == request[r].otp
             e == [otps[p] EXCEPT !.verified = TRUE]
  <2>1. p \in Row /\ otps[p] \in Otp
    BY <1>4, RowType DEF MarkVerified, TypeInv, WellFormed, Verifying
  <2>2. otps' = [otps EXCEPT ![p] = e]
    BY <1>4 DEF MarkVerified
  <2>3. e \in Otp /\ e.verified = TRUE
    BY <2>1 DEF Otp
  <2> HIDE DEF e
  <2>4. Row' = Row /\ \A q \in Row : otps'[q] = IF q = p THEN e ELSE otps[q]
    BY <2>1, <2>2, <2>3, ChangeRow
  <2>5. \A q \in Request : request'[q] = IF q = r THEN [step |-> "user", otp |-> p] ELSE request[q]
    BY <1>4, AfterGoto DEF MarkVerified
  <2>6. request[r].step = "mark"
    BY <1>4 DEF MarkVerified
  <2>7. \A q \in Request : Accepts(q, o)' => Accepts(q, o)
    BY <2>5, <2>6 DEF Accepts, Accepting
  <2>8. \A q \in Request : Accepts(q, o)' /\ request'[q].step # "mark"
                              => request[q].step # "mark" \/ otps'[o].verified
    <3>1. o \in Row
      BY <2>4
    <3>2. ASSUME Accepts(r, o)' PROVE otps'[o].verified
      <4>1. o = p
        BY <2>5, <3>2 DEF Accepts
      <4>2. QED
        BY <2>3, <2>4, <3>1, <4>1
    <3>3. QED
      BY <2>5, <3>2 DEF Accepts
  <2>9. signIns' = signIns /\ (otps[o].verified => otps'[o].verified) /\ o \in Row
    BY <1>4, <2>3, <2>4 DEF MarkVerified, account
  <2>10. QED
    BY <1>0, <2>7, <2>8, <2>9, KeepsUse
<1>5. ASSUME NEW r \in Request, IssueTokens(r) PROVE UsedOnce(o)'
  <2> DEFINE p == request[r].otp
  <2>1. otps' = otps /\ Row' = Row /\ o \in Row /\ request[r].step = "tokens"
    BY <1>5 DEF IssueTokens, Row
  <2>2. p \in Row /\ Row = 1 .. Len(signIns)
    BY <2>1, Rows DEF TypeInv, TypeOK, WellFormed, Verifying
  <2>3. signIns' = [signIns EXCEPT ![p] = signIns[p] + 1] /\ signIns[p] \in Nat
    BY <1>5, <2>2, ElementOfSeq DEF IssueTokens, TypeInv, TypeOK
  <2>4. signIns'[o] = IF o = p THEN signIns[p] + 1 ELSE signIns[o]
    BY <2>1, <2>2, <2>3, ExceptSeq DEF TypeInv, TypeOK
  <2>5. \A q \in Request : request'[q] = IF q = r THEN Idle ELSE request[q]
    BY <1>5, AfterEnd DEF IssueTokens
  <2>6. \A q \in Request : Accepts(q, o)' => Accepts(q, o) /\ request'[q] = request[q] /\ q # r
    BY <2>5 DEF Accepts, Accepting, Idle
  <2>7. CASE o # p
    BY <1>0, <2>1, <2>4, <2>6, <2>7, KeepsUse
  <2>8. CASE o = p
    <3>1. Accepts(r, o)
      BY <2>1, <2>8 DEF Accepts, Accepting
    <3>2. otps[o].verified /\ ~(signIns[o] > 0)
      BY <1>0, <2>1, <3>1 DEF UsedOnce
    <3>3. signIns'[o] = 1
      BY <2>3, <2>4, <2>8, <3>2
    <3>4. \A q \in Request : ~Accepts(q, o)'
      BY <1>0, <2>1, <2>6, <3>1 DEF UsedOnce
    <3>5. QED
      BY <2>1, <3>2, <3>3, <3>4 DEF UsedOnce
  <2>9. QED
    BY <2>7, <2>8
<1>6. ASSUME NEW r \in Request, NEW code, Find(r, code) PROVE UsedOnce(o)'
  <2>1. PICK p \in Row :
          /\ request[r] = Idle /\ Latest(p)
          /\ request' = [request EXCEPT ![r] =
                 [step |-> IF code = p THEN "mark" ELSE "wrong", otp |-> p]]
          /\ contended' = contended \cup (IF code = p /\ At("mark", p) # {} THEN {p} ELSE {})
    BY <1>6 DEF Find
  <2>2. otps' = otps /\ signIns' = signIns /\ o \in Row
    BY <1>6 DEF Find, Row, account
  <2> DEFINE s == [step |-> IF code = p THEN "mark" ELSE "wrong", otp |-> p]
  <2>3. \A q \in Request : request'[q] = IF q = r THEN s ELSE request[q]
    BY <2>1 DEF TypeInv, TypeOK
  <2>4. CASE code # p \/ o # p
    <3>1. \A q \in Request : Accepts(q, o)' => Accepts(q, o) /\ request'[q] = request[q]
      BY <2>3, <2>4 DEF Accepts, Accepting
    <3>2. QED
      BY <1>0, <2>2, <3>1, KeepsUse
  <2>5. CASE code = p /\ o = p
    <3>1. ~otps[o].verified /\ signIns[o] <= 1 /\ ~(signIns[o] > 0)
      BY <1>0, <2>1, <2>2, <2>5 DEF Latest, Live, UsedOnce
    <3>2. \A q \in Request : ~Accepts(q, o)
      <4>1. SUFFICES ASSUME NEW q \in Request, Accepts(q, o) PROVE FALSE
        OBVIOUS
      <4>2. request[q].step = "mark" /\ request[q].otp = p
        BY <1>0, <2>2, <2>5, <3>1, <4>1 DEF UsedOnce, Accepts
      <4>3. request[q] = [step |-> "mark", otp |-> p]
        BY <4>2 DEF TypeInv, TypeOK, RequestState
      <4>4. q \in At("mark", p)
        BY <4>3 DEF At
      <4>5. QED
        BY <2>1, <2>5, <4>4
    <3>3. \A q \in Request : Accepts(q, o)' => q = r /\ request'[q].step = "mark"
      BY <2>3, <2>5, <3>2 DEF Accepts
    <3>4. QED
      BY <2>2, <3>1, <3>3 DEF UsedOnce
  <2>6. QED
    BY <2>4, <2>5
<1>7. ASSUME NEW p \in Row, OtpExpires(p) PROVE UsedOnce(o)'
  <2>1. o \in Row /\ otps'[o].verified = otps[o].verified
    BY <1>7, ExpiryStays
  <2>2. request' = request /\ signIns' = signIns
    BY <1>7 DEF OtpExpires, account
  <2>3. QED
    BY <1>0, <2>1, <2>2, KeepsUse DEF Accepts
<1>8. CASE WindowEnds \/ UNCHANGED vars
  <2>1. o \in Row /\ UNCHANGED <<otps, signIns, request>>
    BY <1>8 DEF WindowEnds, vars, account, Row
  <2>2. QED
    BY <1>0, <2>1 DEF UsedOnce, Accepts
<1>9. QED
  BY <1>1, <1>2, <1>3, <1>4, <1>5, <1>6, <1>7, <1>8, NextCases

\* A code signs in once, unless two verifications were about to accept it together.
THEOREM SingleSignIn == Spec => []OneSignInPerCode
<1>1. Init => SingleUse
  BY DEF Init, SingleUse, Row
<1>2. SingleUse => OneSignInPerCode
  BY DEF SingleUse, UsedOnce, OneSignInPerCode
<1>3. QED
  BY <1>1, <1>2, InitTypeInv, NextTypeInv, NextSingleUse, PTL DEF Spec

=============================================================================
