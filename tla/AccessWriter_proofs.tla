------------------------ MODULE AccessWriter_proofs ------------------------
(***************************************************************************)
(* Proofs, for any number of requests and closers and any capacity, of the *)
(* safety properties of AccessWriter and of its refinement of EventSink.   *)
(***************************************************************************)
EXTENDS AccessWriter, TLAPS, SequenceTheorems

(***************************************************************************)
(* Where each kind of caller can be (a request has no answer until enqueue *)
(* is through), and who holds the mutex: exactly the caller that is        *)
(* between Lock and Unlock.                                                *)
(***************************************************************************)
Points ==
  /\ \A e \in Events :
       /\ pc[e] \in {"idle", "lock", "check", "offer", "unlock", "returned"}
       /\ pc[e] \in {"idle", "lock", "check", "offer"} => answer[e] = "none"
  /\ \A c \in Closers :
       pc[c] \in {"idle", "lock", "check", "unlock", "wait", "nil", "expired"}

Mutex ==
  \A p \in Callers : pc[p] \in {"check", "offer", "unlock"} <=> mu = p

(***************************************************************************)
(* The flag and the channel agree, and under the mutex a request that saw  *)
(* the flag unset still may send.                                          *)
(***************************************************************************)
Flag ==
  /\ closed = shut
  /\ \A e \in Events : pc[e] = "offer" => ~closed
  /\ \A c \in Closers : pc[c] \in {"unlock", "wait", "nil", "expired"} => shut

(***************************************************************************)
(* run holds a record exactly while it calls the store; it ends either     *)
(* because a deadline struck or with the channel closed and empty.         *)
(***************************************************************************)
Runner ==
  /\ run = "store" <=> hand # << >>
  /\ run = "done" => \/ \E c \in Closers : pc[c] = "expired"
                     \/ shut /\ queue = << >>
  /\ cancelled => run = "done" \/ \E c \in Closers : pc[c] = "expired"
  /\ \A c \in Closers : pc[c] = "nil" => run = "done"

IInv == TypeOK /\ Points /\ Mutex /\ Flag /\ Runner /\ Accounted
-----------------------------------------------------------------------------
LEMMA CapacityType == Capacity \in Nat \ {0}
BY WriterAssumption DEF Capacity

(***************************************************************************)
(* The three ways a record moves keep the accounting.                      *)
(***************************************************************************)
LEMMA AppendAccounts ==
  \A a, h, q \in Seq(Events), e \in Events :
    Append(a \o h \o q, e) = a \o h \o Append(q, e)
<1>. SUFFICES ASSUME NEW a \in Seq(Events), NEW h \in Seq(Events),
                     NEW q \in Seq(Events), NEW e \in Events
              PROVE  Append((a \o h) \o q, e) = (a \o h) \o Append(q, e)
  OBVIOUS
<1>. DEFINE b == a \o h
<1>1. b \in Seq(Events) /\ b \o q \in Seq(Events) /\ <<e>> \in Seq(Events)
  OBVIOUS
<1>. HIDE DEF b
<1>2. Append(b \o q, e) = (b \o q) \o <<e>> /\ Append(q, e) = q \o <<e>>
  BY <1>1, AppendIsConcat
<1>3. (b \o q) \o <<e>> = b \o (q \o <<e>>)
  BY <1>1, ConcatAssociative
<1>. QED
  BY <1>2, <1>3 DEF b

LEMMA ReceiveAccounts ==
  ASSUME NEW S, NEW a \in Seq(S), NEW q \in Seq(S), q # << >>
  PROVE  /\ <<Head(q)>> \in Seq(S) /\ Len(<<Head(q)>>) = 1 /\ Tail(q) \in Seq(S)
         /\ Len(Tail(q)) < Len(q)
         /\ << >> \o q = <<Head(q)>> \o Tail(q)
         /\ a \o << >> \o q = a \o <<Head(q)>> \o Tail(q)
<1>1. Head(q) \in S /\ Tail(q) \in Seq(S) /\ Len(Tail(q)) = Len(q) - 1 /\ Len(q) \in Nat
  OBVIOUS
<1>2. q = <<Head(q)>> \o Tail(q)
  BY <1>1
<1>3. << >> \o q = q /\ a \o << >> = a
  OBVIOUS
<1>4. a \o q = a \o (<<Head(q)>> \o Tail(q))
  BY <1>2
<1>5. a \o (<<Head(q)>> \o Tail(q)) = (a \o <<Head(q)>>) \o Tail(q)
  BY <1>1
<1>. QED
  BY <1>1, <1>2, <1>3, <1>4, <1>5

LEMMA StoreAccounts ==
  ASSUME NEW S, NEW a \in Seq(S), NEW h \in Seq(S), NEW q \in Seq(S)
  PROVE  a \o h \o q = (a \o h) \o << >> \o q
OBVIOUS
-----------------------------------------------------------------------------
LEMMA InitIInv == Init => IInv
<1>. SUFFICES ASSUME Init PROVE IInv
  OBVIOUS
<1>1. TypeOK
  <2>1. Len(<< >>) = 0 /\ << >> \in Seq(Events) /\ 0 <= Capacity
    BY CapacityType
  <2>2. /\ closed \in BOOLEAN /\ shut \in BOOLEAN /\ cancelled \in BOOLEAN
        /\ run \in {"top", "select", "store", "done"}
        /\ mu \in Callers \cup {Nobody}
    BY DEF Init
  <2>3. pc \in [Callers -> ControlPoints]
    BY DEF Init, ControlPoints
  <2>4. answer \in [Events -> {"none", "accepted", "dropped"}]
    BY DEF Init
  <2>5. /\ queue = << >> /\ hand = << >> /\ attempted = << >> /\ accepted = << >>
    BY DEF Init
  <2>6. /\ queue \in Seq(Events) /\ hand \in Seq(Events)
        /\ attempted \in Seq(Events) /\ accepted \in Seq(Events)
        /\ Len(queue) <= Capacity /\ Len(hand) <= 1
    BY <2>1, <2>5
  <2>. QED
    BY <2>2, <2>3, <2>4, <2>6 DEF TypeOK
<1>2. Points /\ Mutex /\ Flag
  BY WriterAssumption DEF Init, Points, Mutex, Flag, Callers
<1>3. Runner /\ Accounted
  BY WriterAssumption DEF Init, Runner, Accounted, Callers
<1>. QED
  BY <1>1, <1>2, <1>3 DEF IInv
-----------------------------------------------------------------------------
(***************************************************************************)
(* Moving one caller's control point.                                      *)
(***************************************************************************)
LEMMA GotoMoves ==
  ASSUME TypeOK, NEW p \in Callers, NEW point \in ControlPoints, Goto(p, point)
  PROVE  /\ pc' \in [Callers -> ControlPoints]
         /\ pc'[p] = point
         /\ \A q \in Callers : q # p => pc'[q] = pc[q]
BY DEF TypeOK, Goto

(***************************************************************************)
(* Steps that move a caller and leave the writer alone.                    *)
(***************************************************************************)
LEMMA CallStep ==
  ASSUME IInv, NEW p \in Callers, Call(p)
  PROVE  IInv'
<1>1. /\ pc[p] = "idle" /\ mu' = mu /\ closed' = closed /\ shut' = shut
      /\ queue' = queue /\ answer' = answer /\ run' = run /\ hand' = hand
      /\ cancelled' = cancelled /\ attempted' = attempted /\ accepted' = accepted
      /\ Goto(p, "lock") /\ "lock" \in ControlPoints
  BY DEF Call, callerVars, ControlPoints
<1>2. /\ pc' \in [Callers -> ControlPoints] /\ pc'[p] = "lock"
      /\ \A q \in Callers : q # p => pc'[q] = pc[q]
  BY <1>1, GotoMoves DEF IInv
<1>3. TypeOK'
  BY <1>1, <1>2 DEF IInv, TypeOK
<1>4. Points' /\ Mutex' /\ Flag'
  BY <1>1, <1>2 DEF IInv, Points, Mutex, Flag, Callers
<1>5. Runner'
  BY <1>1, <1>2 DEF IInv, Runner, Callers
<1>6. Accounted'
  BY <1>1 DEF IInv, Accounted
<1>. QED
  BY <1>3, <1>4, <1>5, <1>6 DEF IInv

LEMMA LockStep ==
  ASSUME IInv, NEW p \in Callers, Lock(p)
  PROVE  IInv'
<1>1. /\ pc[p] = "lock" /\ mu = Nobody /\ mu' = p
      /\ closed' = closed /\ shut' = shut
      /\ queue' = queue /\ answer' = answer /\ run' = run /\ hand' = hand
      /\ cancelled' = cancelled /\ attempted' = attempted /\ accepted' = accepted
      /\ Goto(p, "check") /\ "check" \in ControlPoints
  BY DEF Lock, callerVars, ControlPoints
<1>2. /\ pc' \in [Callers -> ControlPoints] /\ pc'[p] = "check"
      /\ \A q \in Callers : q # p => pc'[q] = pc[q]
  BY <1>1, GotoMoves DEF IInv
<1>3. TypeOK'
  BY <1>1, <1>2 DEF IInv, TypeOK
<1>4. Points' /\ Flag'
  BY <1>1, <1>2 DEF IInv, Points, Flag, Callers
<1>5. Mutex'
  BY <1>1, <1>2, WriterAssumption DEF IInv, Mutex, Callers
<1>6. Runner'
  BY <1>1, <1>2 DEF IInv, Runner, Callers
<1>7. Accounted'
  BY <1>1 DEF IInv, Accounted
<1>. QED
  BY <1>3, <1>4, <1>5, <1>6, <1>7 DEF IInv

LEMMA UnlockStep ==
  ASSUME IInv, NEW p \in Callers, NEW point \in {"returned", "wait"},
         p \in Events <=> point = "returned", Unlock(p, point)
  PROVE  IInv'
<1>1. /\ pc[p] = "unlock" /\ mu' = Nobody
      /\ closed' = closed /\ shut' = shut
      /\ queue' = queue /\ answer' = answer /\ run' = run /\ hand' = hand
      /\ cancelled' = cancelled /\ attempted' = attempted /\ accepted' = accepted
      /\ Goto(p, point) /\ point \in ControlPoints
  BY DEF Unlock, callerVars, ControlPoints
<1>2. /\ pc' \in [Callers -> ControlPoints] /\ pc'[p] = point
      /\ \A q \in Callers : q # p => pc'[q] = pc[q]
  BY <1>1, GotoMoves DEF IInv
<1>3. TypeOK'
  BY <1>1, <1>2 DEF IInv, TypeOK
<1>4. Points'
  <2>1. p \in Events => point = "returned" /\ p \notin Closers
    BY WriterAssumption
  <2>2. p \in Closers => point = "wait" /\ p \notin Events
    BY WriterAssumption
  <2>. QED
    BY <1>1, <1>2, <2>1, <2>2 DEF IInv, Points, Callers
<1>5. Mutex'
  BY <1>1, <1>2, WriterAssumption DEF IInv, Mutex, Callers
<1>6. Flag'
  BY <1>1, <1>2 DEF IInv, Flag, Callers
<1>7. Runner'
  BY <1>1, <1>2 DEF IInv, Runner, Callers
<1>8. Accounted'
  BY <1>1 DEF IInv, Accounted
<1>. QED
  BY <1>3, <1>4, <1>5, <1>6, <1>7, <1>8 DEF IInv
-----------------------------------------------------------------------------
(***************************************************************************)
(* Steps of enqueue.                                                       *)
(***************************************************************************)
LEMMA CheckClosedStep ==
  ASSUME IInv, NEW e \in Events, CheckClosed(e)
  PROVE  IInv'
<1>1. /\ pc[e] = "check" /\ mu' = mu /\ closed' = closed /\ shut' = shut
      /\ queue' = queue /\ run' = run /\ hand' = hand
      /\ cancelled' = cancelled /\ attempted' = attempted /\ accepted' = accepted
  BY DEF CheckClosed
<1>2. PICK point \in {"unlock", "offer"} : Goto(e, point) /\ (point = "offer" => ~closed)
  BY DEF CheckClosed
<1>3. e \in Callers /\ point \in ControlPoints
  BY DEF Callers, ControlPoints
<1>4. /\ pc' \in [Callers -> ControlPoints] /\ pc'[e] = point
      /\ \A q \in Callers : q # e => pc'[q] = pc[q]
  BY <1>2, <1>3, GotoMoves DEF IInv
<1>5. /\ answer' \in [Events -> {"none", "accepted", "dropped"}]
      /\ \A f \in Events : f # e => answer'[f] = answer[f]
      /\ point = "offer" => answer' = answer
  <2>1. "unlock" # "offer"
    OBVIOUS
  <2>. QED
    BY <1>2, <1>3, <1>4, <2>1 DEF CheckClosed, Goto, IInv, TypeOK
<1>6. TypeOK'
  BY <1>1, <1>4, <1>5 DEF IInv, TypeOK
<1>7. Points' /\ Mutex' /\ Flag' /\ Runner'
  BY <1>1, <1>2, <1>4, <1>5, WriterAssumption
  DEF IInv, Points, Mutex, Flag, Runner, Callers
<1>8. Accounted'
  BY <1>1 DEF IInv, Accounted
<1>. QED
  BY <1>6, <1>7, <1>8 DEF IInv

LEMMA OfferStep ==
  ASSUME IInv, NEW e \in Events, Offer(e)
  PROVE  IInv'
<1>1. /\ pc[e] = "offer" /\ mu' = mu /\ closed' = closed /\ shut' = shut
      /\ run' = run /\ hand' = hand
      /\ cancelled' = cancelled /\ attempted' = attempted
      /\ Goto(e, "unlock")
  BY DEF Offer, Accept, Refuse
<1>2. e \in Callers /\ "unlock" \in ControlPoints
  BY DEF Callers, ControlPoints
<1>3. /\ pc' \in [Callers -> ControlPoints] /\ pc'[e] = "unlock"
      /\ \A q \in Callers : q # e => pc'[q] = pc[q]
  BY <1>1, <1>2, GotoMoves DEF IInv
<1>4. /\ answer' \in [Events -> {"none", "accepted", "dropped"}]
      /\ \A f \in Events : f # e => answer'[f] = answer[f]
  BY DEF Offer, Accept, Refuse, IInv, TypeOK
<1>5. ~shut
  BY <1>1 DEF IInv, Flag
<1>6. /\ queue \in Seq(Events) /\ hand \in Seq(Events) /\ attempted \in Seq(Events)
      /\ accepted \in Seq(Events) /\ Len(queue) <= Capacity
  BY DEF IInv, TypeOK
<1>7. /\ queue' \in Seq(Events) /\ accepted' \in Seq(Events)
      /\ Len(queue') <= Capacity /\ Accounted'
  <2>1. CASE Len(queue) < Capacity
    <3>1. queue' = Append(queue, e) /\ accepted' = Append(accepted, e)
      BY <2>1 DEF Offer, Accept, Refuse
    <3>2. /\ queue' \in Seq(Events) /\ accepted' \in Seq(Events)
          /\ Len(queue') = Len(queue) + 1
      BY <1>6, <3>1, AppendProperties
    <3>3. accepted' = attempted \o hand \o queue'
      <4>1. Append(attempted \o hand \o queue, e) = attempted \o hand \o Append(queue, e)
        BY <1>6, AppendAccounts
      <4>2. accepted = attempted \o hand \o queue
        BY DEF IInv, Accounted
      <4>. QED
        BY <3>1, <4>1, <4>2
    <3>. QED
      BY <1>1, <1>6, <2>1, <3>2, <3>3, CapacityType, LenProperties DEF Accounted
  <2>2. CASE ~(Len(queue) < Capacity)
    <3>1. queue' = queue /\ accepted' = accepted
      BY <2>2 DEF Offer, Accept, Refuse
    <3>. QED
      BY <1>1, <1>6, <3>1 DEF IInv, Accounted
  <2>. QED
    BY <2>1, <2>2
<1>8. TypeOK'
  BY <1>1, <1>3, <1>4, <1>7 DEF IInv, TypeOK
<1>9. Points' /\ Mutex' /\ Flag'
  BY <1>1, <1>3, <1>4, WriterAssumption DEF IInv, Points, Mutex, Flag, Callers
<1>10. Runner'
  BY <1>1, <1>3, <1>5, WriterAssumption DEF IInv, Runner, Callers
<1>. QED
  BY <1>7, <1>8, <1>9, <1>10 DEF IInv
-----------------------------------------------------------------------------
(***************************************************************************)
(* Steps of Close.                                                         *)
(***************************************************************************)
LEMMA CloseQueueStep ==
  ASSUME IInv, NEW c \in Closers, CloseQueue(c)
  PROVE  IInv'
<1>1. /\ pc[c] = "check" /\ mu' = mu /\ closed' = TRUE /\ shut' = TRUE
      /\ queue' = queue /\ answer' = answer /\ run' = run /\ hand' = hand
      /\ cancelled' = cancelled /\ attempted' = attempted /\ accepted' = accepted
      /\ Goto(c, "unlock")
  BY DEF CloseQueue
<1>2. c \in Callers /\ "unlock" \in ControlPoints
  BY DEF Callers, ControlPoints
<1>3. /\ pc' \in [Callers -> ControlPoints] /\ pc'[c] = "unlock"
      /\ \A q \in Callers : q # c => pc'[q] = pc[q]
  BY <1>1, <1>2, GotoMoves DEF IInv
<1>4. TypeOK'
  BY <1>1, <1>3 DEF IInv, TypeOK
<1>5. Points' /\ Mutex'
  BY <1>1, <1>3, WriterAssumption DEF IInv, Points, Mutex, Callers
<1>6. Flag'
  <2>1. \A e \in Events : pc'[e] = pc[e] /\ pc[e] # "offer"
    BY <1>1, <1>3, WriterAssumption DEF IInv, Mutex, Callers
  <2>. QED
    BY <1>1, <2>1 DEF Flag
<1>7. Runner'
  BY <1>1, <1>3, WriterAssumption DEF IInv, Runner, Callers
<1>8. Accounted'
  BY <1>1 DEF IInv, Accounted
<1>. QED
  BY <1>4, <1>5, <1>6, <1>7, <1>8 DEF IInv

LEMMA CloseReturnsStep ==
  ASSUME IInv, NEW c \in Closers, CloseDrained(c) \/ CloseExpires(c)
  PROVE  IInv'
<1>1. /\ pc[c] = "wait" /\ mu' = mu /\ closed' = closed /\ shut' = shut
      /\ queue' = queue /\ answer' = answer /\ run' = run /\ hand' = hand
      /\ attempted' = attempted /\ accepted' = accepted
  BY DEF CloseDrained, CloseExpires, callerVars
<1>2. PICK point \in {"nil", "expired"} :
        /\ Goto(c, point)
        /\ point = "nil" => run = "done" /\ cancelled' = cancelled
        /\ point = "expired" => cancelled' = TRUE
  BY DEF CloseDrained, CloseExpires, callerVars
<1>3. c \in Callers /\ point \in ControlPoints
  BY DEF Callers, ControlPoints
<1>4. /\ pc' \in [Callers -> ControlPoints] /\ pc'[c] = point
      /\ \A q \in Callers : q # c => pc'[q] = pc[q]
  BY <1>2, <1>3, GotoMoves DEF IInv
<1>5. TypeOK'
  BY <1>1, <1>2, <1>4 DEF IInv, TypeOK
<1>6. Points' /\ Mutex' /\ Flag'
  BY <1>1, <1>4, WriterAssumption DEF IInv, Points, Mutex, Flag, Callers
<1>7. Runner'
  BY <1>1, <1>2, <1>4, WriterAssumption DEF IInv, Runner, Callers
<1>8. Accounted'
  BY <1>1 DEF IInv, Accounted
<1>. QED
  BY <1>5, <1>6, <1>7, <1>8 DEF IInv
-----------------------------------------------------------------------------
(***************************************************************************)
(* Steps of run.                                                           *)
(***************************************************************************)
LEMMA RunReceiveStep ==
  ASSUME IInv, RunReceive
  PROVE  IInv'
<1>1. /\ run = "select" /\ queue # << >> /\ hand' = <<Head(queue)>>
      /\ queue' = Tail(queue) /\ run' = "store" /\ pc' = pc /\ mu' = mu
      /\ closed' = closed /\ shut' = shut /\ answer' = answer
      /\ accepted' = accepted /\ cancelled' = cancelled /\ attempted' = attempted
  BY DEF RunReceive, runVars
<1>2. /\ queue \in Seq(Events) /\ attempted \in Seq(Events) /\ hand = << >>
      /\ Len(queue) <= Capacity
  BY <1>1 DEF IInv, TypeOK, Runner
<1>3. /\ hand' \in Seq(Events) /\ Len(hand') = 1 /\ queue' \in Seq(Events)
      /\ Len(queue') < Len(queue)
      /\ attempted \o hand \o queue = attempted' \o hand' \o queue'
  BY <1>1, <1>2, ReceiveAccounts
<1>4. Len(queue') <= Capacity
  BY <1>2, <1>3, CapacityType, LenProperties
<1>5. TypeOK'
  BY <1>1, <1>3, <1>4 DEF IInv, TypeOK
<1>6. Points' /\ Mutex' /\ Flag'
  BY <1>1 DEF IInv, Points, Mutex, Flag
<1>7. Runner'
  <2>1. hand' # << >>
    BY <1>1
  <2>. QED
    BY <1>1, <2>1 DEF IInv, Runner
<1>8. Accounted'
  BY <1>1, <1>3 DEF IInv, Accounted
<1>. QED
  BY <1>5, <1>6, <1>7, <1>8 DEF IInv

LEMMA RunLoopStep ==
  ASSUME IInv, RunTop \/ RunCancelled \/ RunFinished
  PROVE  IInv'
<1>1. /\ run \in {"top", "select"} /\ pc' = pc /\ mu' = mu
      /\ closed' = closed /\ shut' = shut /\ answer' = answer
      /\ accepted' = accepted /\ queue' = queue /\ hand' = hand /\ attempted' = attempted
      /\ run' \in {"select", "done"} /\ cancelled' \in BOOLEAN
  BY DEF RunTop, RunCancelled, RunFinished, runVars, IInv, TypeOK
<1>2. /\ run' = "done" => cancelled \/ (shut /\ queue = << >>)
      /\ run' # "done" => cancelled' = cancelled
  BY DEF RunTop, RunCancelled, RunFinished
<1>3. TypeOK'
  BY <1>1 DEF IInv, TypeOK
<1>4. Points' /\ Mutex' /\ Flag'
  BY <1>1 DEF IInv, Points, Mutex, Flag
<1>5. Runner'
  BY <1>1, <1>2 DEF IInv, Runner
<1>6. Accounted'
  BY <1>1 DEF IInv, Accounted
<1>. QED
  BY <1>3, <1>4, <1>5, <1>6 DEF IInv

LEMMA StoreReturnsStep ==
  ASSUME IInv, StoreReturns
  PROVE  IInv'
<1>1. /\ run = "store" /\ attempted' = attempted \o hand /\ hand' = << >>
      /\ run' = "top" /\ pc' = pc /\ mu' = mu /\ cancelled' = cancelled
      /\ closed' = closed /\ shut' = shut /\ answer' = answer
      /\ accepted' = accepted /\ queue' = queue
  BY DEF StoreReturns, runVars
<1>2. /\ queue \in Seq(Events) /\ attempted \in Seq(Events) /\ hand \in Seq(Events)
  BY DEF IInv, TypeOK
<1>3. attempted' \in Seq(Events) /\ hand' \in Seq(Events) /\ Len(hand') <= 1
  BY <1>1, <1>2
<1>4. TypeOK'
  BY <1>1, <1>3 DEF IInv, TypeOK
<1>5. Points' /\ Mutex' /\ Flag'
  BY <1>1 DEF IInv, Points, Mutex, Flag
<1>6. Runner'
  BY <1>1 DEF IInv, Runner
<1>7. Accounted'
  <2>1. attempted \o hand \o queue = (attempted \o hand) \o << >> \o queue
    BY <1>2, StoreAccounts
  <2>. QED
    BY <1>1, <2>1 DEF IInv, Accounted
<1>. QED
  BY <1>4, <1>5, <1>6, <1>7 DEF IInv
-----------------------------------------------------------------------------
LEMMA NextIInv == IInv /\ [Next]_vars => IInv'
<1>. SUFFICES ASSUME IInv, [Next]_vars PROVE IInv'
  OBVIOUS
<1>1. ASSUME NEW p \in Callers, Call(p) PROVE IInv'
  BY <1>1, CallStep
<1>2. ASSUME NEW e \in Events, TrackStep(e) PROVE IInv'
  <2>1. e \in Callers
    BY DEF Callers
  <2>. QED
    BY <1>2, <2>1, LockStep, UnlockStep, CheckClosedStep, OfferStep DEF TrackStep
<1>3. ASSUME NEW c \in Closers, CloseStep(c) \/ CloseExpires(c) PROVE IInv'
  <2>1. c \in Callers /\ c \notin Events
    BY WriterAssumption DEF Callers
  <2>. QED
    BY <1>3, <2>1, LockStep, UnlockStep, CloseQueueStep, CloseReturnsStep DEF CloseStep
<1>4. ASSUME RunStep PROVE IInv'
  BY <1>4, RunLoopStep, RunReceiveStep DEF RunStep
<1>5. ASSUME StoreReturns PROVE IInv'
  BY <1>5, StoreReturnsStep
<1>6. ASSUME UNCHANGED vars PROVE IInv'
  BY <1>6 DEF vars, IInv, TypeOK, Points, Mutex, Flag, Runner, Accounted
<1>. QED
  BY <1>1, <1>2, <1>3, <1>4, <1>5, <1>6 DEF Next

(***************************************************************************)
(* The inductive invariant of the writer.                                  *)
(***************************************************************************)
THEOREM WriterInvariant == Spec => []IInv
BY InitIInv, NextIInv, PTL DEF Spec

(***************************************************************************)
(* The writer's variables keep their ranges, the queue its capacity.       *)
(***************************************************************************)
THEOREM WriterTypeCorrect == Spec => []TypeOK
<1>1. IInv => TypeOK
  BY DEF IInv
<1>. QED
  BY <1>1, WriterInvariant, PTL

(***************************************************************************)
(* No request ever sends on the closed channel and it is closed once.      *)
(***************************************************************************)
THEOREM WriterNeverPanics == Spec => []NoSendOnClosed
<1>1. IInv => NoSendOnClosed
  BY DEF IInv, Flag, NoSendOnClosed
<1>. QED
  BY <1>1, WriterInvariant, PTL

(***************************************************************************)
(* Accepted records are attempted in order, none lost, none twice.         *)
(***************************************************************************)
THEOREM WriterAccounts == Spec => []Accounted
<1>1. IInv => Accounted
  BY DEF IInv
<1>. QED
  BY <1>1, WriterInvariant, PTL

(***************************************************************************)
(* Close returns nil only once every accepted record has been attempted.   *)
(***************************************************************************)
THEOREM WriterDrainsBeforeNil == Spec => []NilMeansDrained
<1>1. IInv => NilMeansDrained
  <2>. SUFFICES ASSUME IInv, \E c \in Closers : pc[c] = "nil",
                       \A c \in Closers : pc[c] # "expired"
                PROVE  attempted = accepted
    BY DEF NilMeansDrained
  <2>1. hand = << >> /\ queue = << >>
    BY DEF IInv, Runner
  <2>2. attempted \in Seq(Events)
    BY DEF IInv, TypeOK
  <2>3. attempted \o << >> \o << >> = attempted
    BY <2>2
  <2>. QED
    BY <2>1, <2>3 DEF IInv, Accounted
<1>. QED
  BY <1>1, WriterInvariant, PTL
-----------------------------------------------------------------------------
(***************************************************************************)
(* Refinement.  The abstract pending queue is the record in hand followed  *)
(* by the buffer; a record moves from one to the other in a stutter.       *)
(***************************************************************************)
Pending == hand \o queue

Phase == IF ~shut THEN "open" ELSE IF run = "done" THEN "stopped" ELSE "closing"

LEMMA PendingLength ==
  ASSUME IInv
  PROVE  /\ Pending \in Seq(Events)
         /\ Len(Pending) = Len(hand) + Len(queue)
         /\ Len(hand) \in Nat /\ Len(queue) \in Nat
BY ConcatProperties, LenProperties DEF IInv, TypeOK, Pending

LEMMA SinkInit == Init => Sink!Init
BY DEF Init, Sink!Init

LEMMA SinkStutter ==
  ASSUME answer' = answer, Pending' = Pending, attempted' = attempted, Phase' = Phase
  PROVE  UNCHANGED Sink!sinkVars
BY DEF Sink!sinkVars, Pending, Phase

(***************************************************************************)
(* Without a shutdown run cannot have ended, and cancellation means one.   *)
(***************************************************************************)
LEMMA EndMeansShut ==
  ASSUME IInv
  PROVE  run = "done" \/ cancelled => shut
BY DEF IInv, Runner, Flag

LEMMA CheckClosedSinks ==
  ASSUME IInv, NEW e \in Events, CheckClosed(e)
  PROVE  [Sink!Next]_Sink!sinkVars
<1>1. /\ shut' = shut /\ queue' = queue /\ run' = run /\ hand' = hand
      /\ attempted' = attempted /\ pc[e] = "check"
  BY DEF CheckClosed
<1>2. CASE closed
  <2>1. answer' = [answer EXCEPT ![e] = "dropped"]
    BY <1>2 DEF CheckClosed
  <2>2. answer[e] = "none" /\ shut
    BY <1>1, <1>2 DEF IInv, Points, Flag
  <2>3. Sink!Drop(e)
    BY <1>1, <2>1, <2>2 DEF Sink!Drop
  <2>. QED
    BY <2>3 DEF Sink!Next
<1>3. CASE ~closed
  BY <1>1, <1>3, SinkStutter DEF CheckClosed, Pending, Phase
<1>. QED
  BY <1>2, <1>3

LEMMA OfferSinks ==
  ASSUME IInv, NEW e \in Events, Offer(e)
  PROVE  [Sink!Next]_Sink!sinkVars
<1>1. /\ shut' = shut /\ run' = run /\ hand' = hand
      /\ attempted' = attempted /\ pc[e] = "offer"
  BY DEF Offer, Accept, Refuse
<1>2. answer[e] = "none" /\ ~shut
  BY <1>1 DEF IInv, Points, Flag
<1>3. /\ queue \in Seq(Events) /\ hand \in Seq(Events)
      /\ Len(hand) <= 1 /\ Len(queue) <= Capacity
  BY DEF IInv, TypeOK
<1>4. Len(Pending) = Len(hand) + Len(queue) /\ Len(hand) \in Nat /\ Len(queue) \in Nat
  BY PendingLength
<1>5. CASE Len(queue) < Capacity
  <2>1. queue' = Append(queue, e) /\ answer' = [answer EXCEPT ![e] = "accepted"]
    BY <1>5 DEF Offer, Accept, Refuse
  <2>2. Len(Pending) <= Capacity
    BY <1>3, <1>4, <1>5, CapacityType
  <2>3. hand \o Append(queue, e) = Append(hand \o queue, e)
    <3>1. << >> \in Seq(Events) /\ << >> \o hand = hand
      BY <1>3
    <3>. QED
      BY <1>3, <3>1, AppendAccounts
  <2>4. hand' \o queue' = Append(hand \o queue, e)
    BY <1>1, <2>1, <2>3
  <2>5. Sink!Accept(e)
    BY <1>1, <1>2, <2>1, <2>2, <2>4 DEF Sink!Accept, Pending
  <2>. QED
    BY <2>5 DEF Sink!Next
<1>6. CASE ~(Len(queue) < Capacity)
  <2>1. queue' = queue /\ answer' = [answer EXCEPT ![e] = "dropped"]
    BY <1>6 DEF Offer, Accept, Refuse
  <2>2. Len(Pending) >= Capacity
    BY <1>3, <1>4, <1>6, CapacityType
  <2>3. Sink!Drop(e)
    BY <1>1, <1>2, <2>1, <2>2 DEF Sink!Drop, Pending
  <2>. QED
    BY <2>3 DEF Sink!Next
<1>. QED
  BY <1>5, <1>6

LEMMA CloseQueueSinks ==
  ASSUME IInv, NEW c \in Closers, CloseQueue(c)
  PROVE  [Sink!Next]_Sink!sinkVars
<1>1. /\ shut' /\ queue' = queue /\ run' = run /\ hand' = hand
      /\ attempted' = attempted /\ answer' = answer
  BY DEF CloseQueue
<1>2. CASE shut
  BY <1>1, <1>2, SinkStutter DEF Pending, Phase
<1>3. CASE ~shut
  <2>1. run # "done"
    BY <1>3, EndMeansShut
  <2>2. Sink!Shut
    BY <1>1, <1>3, <2>1 DEF Sink!Shut
  <2>. QED
    BY <2>2 DEF Sink!Next
<1>. QED
  BY <1>2, <1>3

LEMMA RunLoopSinks ==
  ASSUME IInv, RunTop \/ RunCancelled \/ RunFinished
  PROVE  [Sink!Next]_Sink!sinkVars
<1>1. /\ shut' = shut /\ queue' = queue /\ hand' = hand /\ run # "done"
      /\ attempted' = attempted /\ answer' = answer /\ run' \in {"select", "done"}
  BY DEF RunTop, RunCancelled, RunFinished, runVars
<1>2. CASE run' = "select"
  BY <1>1, <1>2, SinkStutter DEF Pending, Phase
<1>3. CASE run' = "done"
  <2>1. shut
    BY <1>1, <1>3, EndMeansShut DEF RunTop, RunCancelled, RunFinished
  <2>2. Sink!Stop
    BY <1>1, <1>3, <2>1 DEF Sink!Stop
  <2>. QED
    BY <2>2 DEF Sink!Next
<1>. QED
  BY <1>1, <1>2, <1>3

LEMMA RunReceiveSinks ==
  ASSUME IInv, RunReceive
  PROVE  [Sink!Next]_Sink!sinkVars
<1>1. /\ run = "select" /\ queue # << >> /\ hand' = <<Head(queue)>>
      /\ queue' = Tail(queue) /\ run' = "store" /\ shut' = shut
      /\ answer' = answer /\ attempted' = attempted
  BY DEF RunReceive, runVars
<1>2. queue \in Seq(Events) /\ hand = << >>
  BY <1>1 DEF IInv, TypeOK, Runner
<1>3. << >> \in Seq(Events)
  OBVIOUS
<1>4. Pending' = Pending
  BY <1>1, <1>2, <1>3, ReceiveAccounts DEF Pending
<1>. QED
  BY <1>1, <1>4, SinkStutter DEF Phase

LEMMA StoreReturnsSinks ==
  ASSUME IInv, StoreReturns
  PROVE  [Sink!Next]_Sink!sinkVars
<1>1. /\ run = "store" /\ attempted' = attempted \o hand /\ hand' = << >>
      /\ run' = "top" /\ shut' = shut /\ answer' = answer /\ queue' = queue
  BY DEF StoreReturns, runVars
<1>2. /\ queue \in Seq(Events) /\ attempted \in Seq(Events)
      /\ hand \in Seq(Events) /\ Len(hand) <= 1 /\ hand # << >>
  BY <1>1 DEF IInv, TypeOK, Runner
<1>3. hand[1] \in Events /\ hand = <<hand[1]>>
  <2>1. Len(hand) = 1
    <3>1. Len(hand) \in Nat \ {0}
      BY <1>2, EmptySeq, Zenon
    <3>2. \A n \in Nat \ {0} : n <= 1 => n = 1
      OBVIOUS
    <3>. QED
      BY <1>2, <3>1, <3>2, Zenon
  <2>. QED
    BY <1>2, <2>1
<1>. DEFINE e == hand[1]
<1>4. attempted' = Append(attempted, e)
  BY <1>1, <1>2, <1>3, AppendIsConcat
<1>5. hand \o queue # << >> /\ Head(hand \o queue) = e /\ Tail(hand \o queue) = queue
  <2>. HIDE DEF e
  <2>1. e \in Events /\ hand = <<e>>
    BY <1>3 DEF e
  <2>. QED
    BY <1>2, <2>1
<1>6. hand' \o queue' = queue
  BY <1>1, <1>2
<1>7. Sink!Attempt
  BY <1>1, <1>4, <1>5, <1>6 DEF Sink!Attempt
<1>. QED
  BY <1>7 DEF Sink!Next

LEMMA SinkNext == IInv /\ [Next]_vars => [Sink!Next]_Sink!sinkVars
<1>. SUFFICES ASSUME IInv, [Next]_vars PROVE [Sink!Next]_Sink!sinkVars
  OBVIOUS
<1>. DEFINE Still == /\ answer' = answer /\ hand' = hand /\ queue' = queue
                     /\ attempted' = attempted /\ shut' = shut /\ run' = run
<1>0. ASSUME Still PROVE [Sink!Next]_Sink!sinkVars
  BY <1>0, SinkStutter DEF Pending, Phase
<1>1. ASSUME NEW p \in Callers, Call(p) \/ Lock(p) PROVE [Sink!Next]_Sink!sinkVars
  BY <1>0, <1>1 DEF Call, Lock, callerVars
<1>2. ASSUME NEW p \in Callers, NEW point, Unlock(p, point) PROVE [Sink!Next]_Sink!sinkVars
  BY <1>0, <1>2 DEF Unlock, callerVars
<1>3. ASSUME NEW e \in Events, TrackStep(e) PROVE [Sink!Next]_Sink!sinkVars
  <2>1. e \in Callers
    BY DEF Callers
  <2>. QED
    BY <1>1, <1>2, <1>3, <2>1, CheckClosedSinks, OfferSinks DEF TrackStep
<1>4. ASSUME NEW c \in Closers, CloseDrained(c) \/ CloseExpires(c)
      PROVE  [Sink!Next]_Sink!sinkVars
  BY <1>0, <1>4 DEF CloseDrained, CloseExpires, callerVars
<1>5. ASSUME NEW c \in Closers, CloseStep(c) PROVE [Sink!Next]_Sink!sinkVars
  <2>1. c \in Callers
    BY DEF Callers
  <2>. QED
    BY <1>1, <1>2, <1>4, <1>5, <2>1, CloseQueueSinks DEF CloseStep
<1>6. ASSUME RunStep \/ StoreReturns PROVE [Sink!Next]_Sink!sinkVars
  BY <1>6, RunLoopSinks, RunReceiveSinks, StoreReturnsSinks DEF RunStep
<1>7. ASSUME UNCHANGED vars PROVE [Sink!Next]_Sink!sinkVars
  BY <1>0, <1>7 DEF vars
<1>. QED
  BY <1>1, <1>3, <1>4, <1>5, <1>6, <1>7 DEF Next

(***************************************************************************)
(* The writer implements the best-effort sink.                             *)
(***************************************************************************)
THEOREM WriterImplementsSink == Spec => ImplementsSink
<1>1. Spec => Sink!Init /\ [][Sink!Next]_Sink!sinkVars
  BY SinkInit, SinkNext, WriterInvariant, PTL DEF Spec
<1>. QED
  BY <1>1 DEF ImplementsSink, Sink!Spec

(***************************************************************************)
(* Nothing is accepted once the channel is closed.                         *)
(***************************************************************************)
THEOREM WriterAcceptsNothingLate == Spec => NothingAcceptedLate
<1>1. IInv /\ [Next]_vars => [shut => accepted' = accepted]_vars
  <2>. SUFFICES ASSUME IInv, [Next]_vars, shut PROVE accepted' = accepted
    OBVIOUS
  <2>1. \A e \in Events : ~Offer(e)
    BY DEF IInv, Flag, Offer, Accept, Refuse
  <2>. QED
    BY <2>1 DEF Next, TrackStep, CloseStep, RunStep, Call, Lock, Unlock, CheckClosed,
       CloseQueue, CloseDrained, CloseExpires, RunTop, RunCancelled, RunReceive,
       RunFinished, StoreReturns, callerVars, runVars, vars
<1>. QED
  BY <1>1, WriterInvariant, PTL DEF Spec, NothingAcceptedLate
-----------------------------------------------------------------------------
(***************************************************************************)
(* Only Offer accepts a record, from a request that has no answer yet.     *)
(***************************************************************************)
Once ==
  /\ \A i \in DOMAIN accepted : answer[accepted[i]] = "accepted"
  /\ \A i, j \in DOMAIN accepted : accepted[i] = accepted[j] => i = j

LEMMA OfferOnce ==
  ASSUME IInv, Once, NEW e \in Events, Offer(e)
  PROVE  Once'
<1>1. /\ accepted \in Seq(Events) /\ answer \in [Events -> {"none", "accepted", "dropped"}]
      /\ answer[e] = "none"
  BY DEF IInv, TypeOK, Points, Offer, Accept, Refuse
<1>2. \A i \in DOMAIN accepted : accepted[i] \in Events /\ accepted[i] # e
  BY <1>1 DEF Once
<1>3. \A d \in Events : d # e => answer'[d] = answer[d]
  BY <1>1 DEF Offer, Accept, Refuse
<1>4. CASE accepted' = accepted
  BY <1>2, <1>3, <1>4 DEF Once
<1>5. CASE accepted' = Append(accepted, e) /\ answer'[e] = "accepted"
  <2>1. /\ Len(accepted) \in Nat /\ DOMAIN accepted = 1..Len(accepted)
        /\ DOMAIN accepted' = 1..(Len(accepted) + 1)
        /\ accepted'[Len(accepted) + 1] = e
        /\ \A i \in 1..Len(accepted) : accepted'[i] = accepted[i]
    BY <1>1, <1>5
  <2>. QED
    BY <1>2, <1>3, <1>5, <2>1 DEF Once
<1>. QED
  BY <1>1, <1>4, <1>5 DEF Offer, Accept, Refuse

LEMMA CheckClosedOnce ==
  ASSUME IInv, Once, NEW e \in Events, CheckClosed(e)
  PROVE  Once'
<1>1. /\ accepted \in Seq(Events) /\ answer \in [Events -> {"none", "accepted", "dropped"}]
      /\ answer[e] = "none"
  BY DEF IInv, TypeOK, Points, CheckClosed
<1>2. \A i \in DOMAIN accepted : accepted[i] \in Events /\ accepted[i] # e
  BY <1>1 DEF Once
<1>3. \A d \in Events : d # e => answer'[d] = answer[d]
  BY <1>1 DEF CheckClosed
<1>. QED
  BY <1>2, <1>3 DEF Once, CheckClosed

LEMMA OnceStep == IInv /\ Once /\ [Next]_vars => Once'
<1>. SUFFICES ASSUME IInv, Once, [Next]_vars PROVE Once'
  OBVIOUS
<1>1. ASSUME UNCHANGED <<answer, accepted>> PROVE Once'
  BY <1>1 DEF Once
<1>2. ASSUME NEW e \in Events, TrackStep(e) PROVE Once'
  BY <1>1, <1>2, OfferOnce, CheckClosedOnce DEF TrackStep, Lock, Unlock, callerVars
<1>3. ASSUME NEW c \in Closers, CloseStep(c) \/ CloseExpires(c) PROVE Once'
  BY <1>1, <1>3 DEF CloseStep, Lock, CloseQueue, Unlock, CloseDrained, CloseExpires,
     callerVars
<1>4. ASSUME RunStep \/ StoreReturns PROVE Once'
  BY <1>1, <1>4 DEF RunStep, RunTop, RunCancelled, RunReceive, RunFinished,
     StoreReturns, runVars
<1>5. ASSUME NEW p \in Callers, Call(p) PROVE Once'
  BY <1>1, <1>5 DEF Call, callerVars
<1>. QED
  BY <1>1, <1>2, <1>3, <1>4, <1>5 DEF Next, vars

(***************************************************************************)
(* The store is called at most once for a record, and only for records     *)
(* whose Track returned true: what it is called with begins the accepted   *)
(* records, which are accepted once.                                       *)
(***************************************************************************)
AttemptsOnce ==
  /\ \A i \in DOMAIN attempted :
       answer[attempted[i]] = "accepted" /\ i \in DOMAIN accepted
       /\ attempted[i] = accepted[i]
  /\ \A i, j \in DOMAIN attempted : attempted[i] = attempted[j] => i = j

THEOREM WriterAttemptsOnce == Spec => []AttemptsOnce
<1>1. Init => Once
  BY DEF Init, Once
<1>2. IInv /\ Once => AttemptsOnce
  <2>. SUFFICES ASSUME IInv, Once PROVE AttemptsOnce
    OBVIOUS
  <2>1. /\ attempted \in Seq(Events) /\ hand \in Seq(Events) /\ queue \in Seq(Events)
        /\ accepted = (attempted \o hand) \o queue
    BY DEF IInv, TypeOK, Accounted
  <2>2. \A i \in DOMAIN attempted :
          i \in DOMAIN accepted /\ attempted[i] = accepted[i]
    BY <2>1
  <2>. QED
    BY <2>2 DEF Once, AttemptsOnce
<1>. QED
  BY <1>1, <1>2, WriterInvariant, OnceStep, PTL DEF Spec
=============================================================================
