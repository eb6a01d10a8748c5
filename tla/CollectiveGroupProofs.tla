------------------------ MODULE CollectiveGroupProofs ------------------------
(***************************************************************************)
(* Theorems about the collective control plane, for any set of workers,    *)
(* slots, lanes and operations and any join requests: the fencing of       *)
(* operations by the epoch, the plan and its source, and the cohort of a   *)
(* transfer, which runs over the workers it was opened for and completes   *)
(* only when all of them have reported.                                    *)
(***************************************************************************)
EXTENDS CollectiveGroup, FiniteSetTheorems, TLAPS

USE ConstantAssumption

\* Types of what the actions write.
LEMMA SweptType ==
  ASSUME TypeOK
  PROVE  /\ Swept(participants) \in [Slot -> Participant \cup {None}]
         /\ Swept(digests) \in [Slot -> Digest \cup {None}]
         /\ SweptSource \in Worker \cup {None}
BY Zenon DEF TypeOK, Swept, SweptSource

\* A join keeps the plan source the sweep leaves, or clears it.
LEMMA JoinedSourceChoice == \A j \in Joins : JoinedSource(j) \in {None, SweptSource}
BY Zenon DEF JoinedSource

\* Aborting an open operation keeps the operations typed.
LEMMA AbortedType ==
  ASSUME TypeOK
  PROVE  AbortedOps \in [Op -> Operation \cup {None}]
<1>1. ASSUME NEW o \in Op, Open(o)
      PROVE  [ops[o] EXCEPT !.state = "ABORTED"] \in Operation
  <2>1. ops[o] \in Operation
    BY <1>1, Zenon DEF TypeOK, Open
  <2> QED
    BY <2>1, Zenon DEF Operation, OpState
<1> QED
  BY <1>1, Zenon DEF AbortedOps, TypeOK

\* Moving an operation to another state keeps the operations typed.
LEMMA MovedType ==
  ASSUME TypeOK, NEW o \in Op, Open(o), NEW st \in OpState
  PROVE  Moved(o, st) \in [Op -> Operation \cup {None}]
<1>1. ops[o] \in Operation
  BY Zenon DEF TypeOK, Open
<1>2. [ops[o] EXCEPT !.state = st] \in Operation
  BY <1>1, Zenon DEF Operation
<1> QED
  BY <1>2, Zenon DEF Moved, TypeOK

\* An admitted join is a participant.
LEMMA AdmissionType ==
  ASSUME NEW j \in Joins, NEW e \in Nat
  PROVE  Admission(j, e) \in Participant /\ Admission(j, e) # None
<1>1. j \in JoinRequest
  BY JoinAssumption, Zenon
<1>2. j.worker \in Worker /\ j.rank \in Rank
  BY <1>1, Zenon DEF JoinRequest
<1>3. Admission(j, e) = [worker |-> j.worker, rank |-> j.rank, joined |-> e]
  BY Zenon DEF Admission
<1>4. Admission(j, e) \in Participant
  BY <1>2, <1>3 DEF Participant
<1> QED
  BY <1>4, Zenon

\* The fields of a join.
LEMMA JoinFields ==
  ASSUME NEW j \in Joins
  PROVE  j.slot \in Slot /\ j.worker \in Worker /\ j.digest \in Digest
<1>1. j \in JoinRequest
  BY JoinAssumption, Zenon
<1> QED
  BY <1>1, Zenon DEF JoinRequest

\* A group that is not failed is FORMING or READY.
LEMMA StateIfType == \A b \in BOOLEAN : StateIf(b) \in {"FORMING", "READY"}
BY Zenon DEF StateIf

\* The empty keyspace is well typed.
LEMMA InitType == Init => TypeOK
BY DEF Init, TypeOK, NoLanes

\* Every action keeps the types.
LEMMA NextType == TypeOK /\ [Next]_vars => TypeOK'
<1> SUFFICES ASSUME TypeOK, [Next]_vars PROVE TypeOK'
  BY Zenon
<1>1. CASE UNCHANGED vars
  BY <1>1, Zenon DEF vars, groupVars, opVars, TypeOK
<1>2. CASE WorkerNext
  BY <1>2, ZenonT(40) DEF WorkerNext, RegisterWorker, ExpireWorker, groupVars, opVars, TypeOK
<1>3. CASE LoseGroup
  BY <1>3, Zenon DEF LoseGroup, opVars, TypeOK
<1>4. ASSUME NEW j \in Joins, CreateByJoin(j)
      PROVE  TypeOK'
  <2>1. Admission(j, 1) \in Participant
    BY AdmissionType, Zenon
  <2>2. participants' \in [Slot -> Participant \cup {None}] /\ digests' \in [Slot -> Digest \cup {None}]
    BY <1>4, <2>1, JoinFields, Zenon DEF CreateByJoin
  <2>3. state' \in {"FORMING", "READY"}
    BY <1>4, Zenon DEF CreateByJoin, StateIf
  <2>4. planSource' \in Worker \cup {None} /\ planDigest' \in Digest \cup {None}
    BY <1>4, JoinFields, Zenon DEF CreateByJoin
  <2>5. ops' \in [Op -> Operation \cup {None}]
    BY <1>4, AbortedType, Zenon DEF CreateByJoin
  <2> QED
    BY <1>4, <2>2, <2>3, <2>4, <2>5, Zenon DEF CreateByJoin, NoLanes, TypeOK
<1>5. ASSUME NEW j \in Joins, RefuseJoin(j)
      PROVE  TypeOK'
  <2>1. planSource' \in Worker \cup {None}
    BY <1>5, SweptType, JoinedSourceChoice, Zenon DEF RefuseJoin
  <2> QED
    BY <1>5, <2>1, SweptType, Zenon DEF RefuseJoin, opVars, TypeOK
<1>6. ASSUME NEW j \in Joins, AdmitJoin(j)
      PROVE  TypeOK'
  <2>1. epoch' \in Nat
    <3>1. epoch \in Nat
      BY Zenon DEF TypeOK
    <3>2. epoch' = epoch + 1 \/ epoch' = epoch
      BY <1>6, Zenon DEF AdmitJoin
    <3> QED
      BY <3>1, <3>2
  <2>2. participants' = [Swept(participants) EXCEPT ![j.slot] = Admission(j, epoch')]
    BY <1>6, Zenon DEF AdmitJoin
  <2>3. participants' \in [Slot -> Participant \cup {None}]
    BY <2>1, <2>2, AdmissionType, SweptType, ZenonT(30)
  <2>4. digests' \in [Slot -> Digest \cup {None}]
    BY <1>6, SweptType, JoinFields, Zenon DEF AdmitJoin
  <2>5. state' \in {"FORMING", "READY"}
    BY <1>6, Zenon DEF AdmitJoin, StateIf
  <2>6. planSource' \in Worker \cup {None} /\ planDigest' \in Digest \cup {None}
    BY <1>6, SweptType, JoinedSourceChoice, JoinFields, Zenon DEF AdmitJoin
  <2>7. ops' \in [Op -> Operation \cup {None}] /\ active' \subseteq Op
    BY <1>6, AbortedType, Zenon DEF AdmitJoin, TypeOK
  <2>8. lanes' \in [Lane -> Bootstrap \cup {None}]
    BY <1>6, Zenon DEF AdmitJoin, NoLanes, TypeOK
  <2>9. UNCHANGED <<live, reported, reservation, cohort>>
    BY <1>6, Zenon DEF AdmitJoin
  <2> QED
    BY <2>1, <2>3, <2>4, <2>5, <2>6, <2>7, <2>8, <2>9, Zenon DEF TypeOK
<1>7. CASE Refresh
  <2>1. epoch' \in Nat
    <3>1. epoch \in Nat
      BY Zenon DEF TypeOK
    <3>2. epoch' = epoch + 1 \/ epoch' = epoch
      BY <1>7, Zenon DEF Refresh
    <3> QED
      BY <3>1, <3>2
  <2>2. state' \in {"FORMING", "READY"}
    BY <1>7, Zenon DEF Refresh, StateIf
  <2>3. lanes' \in [Lane -> Bootstrap \cup {None}]
    BY <1>7, Zenon DEF Refresh, NoLanes, TypeOK
  <2>4. ops' \in [Op -> Operation \cup {None}] /\ active' \subseteq Op
    BY <1>7, AbortedType, Zenon DEF Refresh, TypeOK
  <2>5. planSource' \in Worker \cup {None}
    BY <1>7, SweptType, Zenon DEF Refresh
  <2> QED
    BY <1>7, <2>1, <2>2, <2>3, <2>4, <2>5, SweptType, Zenon DEF Refresh, TypeOK
<1>8. CASE BootstrapNext
  <2>1. PICK l \in Lane, w \in Worker, id \in BootstrapId : PublishBootstrap(l, w, id)
    BY <1>8, Zenon DEF BootstrapNext
  <2>2. [epoch |-> epoch, by |-> w, id |-> id] \in Bootstrap
    BY Zenon DEF Bootstrap, TypeOK
  <2>3. lanes' \in [Lane -> Bootstrap \cup {None}]
    BY <2>1, <2>2, Zenon DEF PublishBootstrap, TypeOK
  <2>4. state' \in {"FORMING", "READY"}
    BY <2>1, Zenon DEF PublishBootstrap, StateIf
  <2> QED
    BY <2>1, <2>3, <2>4, Zenon DEF PublishBootstrap, opVars, TypeOK
<1>9. CASE OpNext
  <2>1. ASSUME NEW o \in Op, DeleteTransfer(o)
        PROVE  TypeOK'
    BY <2>1, ZenonT(30) DEF DeleteTransfer, groupVars, TypeOK
  <2>2. ASSUME NEW o \in Op, NEW k \in Key, CreateTransfer(o, k)
        PROVE  TypeOK'
    <3>1. [epoch |-> epoch, state |-> "PENDING", key |-> k] \in Operation
      BY Zenon DEF Operation, OpState, TypeOK
    <3>2. ops' \in [Op -> Operation \cup {None}]
      BY <2>2, <3>1, Zenon DEF CreateTransfer, TypeOK
    <3>3. {participants[s].worker : s \in {t \in Slot : participants[t] # None}} \subseteq Worker
      BY DEF TypeOK, Participant
    <3>4. cohort' \in [Op -> SUBSET Worker]
      BY <2>2, <3>3, Zenon DEF CreateTransfer, TypeOK
    <3> QED
      BY <2>2, <3>2, <3>4, ZenonT(40) DEF CreateTransfer, groupVars, TypeOK
  <2>3. ASSUME NEW o \in Op, NEW w \in Worker, ReportSuccess(o, w)
        PROVE  TypeOK'
    <3>1. PICK st \in {"COMPLETE", "RUNNING"} : ops' = Moved(o, st)
      BY <2>3, Zenon DEF ReportSuccess
    <3>2. Open(o)
      BY <2>3, Zenon DEF ReportSuccess, ReportAdmitted
    <3>3. ops' \in [Op -> Operation \cup {None}]
      BY <3>1, <3>2, MovedType, Zenon DEF OpState
    <3> QED
      BY <2>3, <3>3, ZenonT(30) DEF ReportSuccess, groupVars, TypeOK
  <2>4. ASSUME NEW o \in Op, NEW w \in Worker, ReportFailure(o, w)
        PROVE  TypeOK'
    <3>1. ops' \in [Op -> Operation \cup {None}]
      BY <2>4, MovedType, Zenon DEF ReportFailure, ReportAdmitted, OpState
    <3> QED
      BY <2>4, <3>1 DEF ReportFailure, NoLanes, TypeOK
  <2>5. ASSUME NEW k \in Key, ExpireReservation(k)
        PROVE  TypeOK'
    BY <2>5, Zenon DEF ExpireReservation, groupVars, TypeOK
  <2> QED
    BY <1>9, <2>1, <2>2, <2>3, <2>4, <2>5, Zenon DEF OpNext
<1> QED
  BY <1>1, <1>2, <1>3, <1>4, <1>5, <1>6, <1>7, <1>8, <1>9, Zenon DEF Next, JoinNext

\* Every field of the group's keyspace keeps its type.
THEOREM TypeCorrect == Spec => []TypeOK
BY InitType, NextType, PTL DEF Spec

-----------------------------------------------------------------------------
(* Operations                                                              *)

\* Neither conjunct is inductive alone: a failed report moves the epoch without
\* aborting anything, which leaves no open operation behind only because at most
\* one was open; and at most one is open only because BUSY, which looks at the
\* active operations of this epoch, sees them all.
OpInv == OpenOpsCurrent /\ OneOpenOp

\* What an abort does to each operation.
LEMMA AbortedFacts ==
  ASSUME TypeOK, OpInv, ops' = AbortedOps
  PROVE  /\ \A o \in Op : ~Open(o)'
         /\ \A o \in Op : ops[o] # None /\ ~Open(o) => ops'[o] = ops[o]
<1>1. ASSUME NEW o \in Op, Open(o)
      PROVE  ~Open(o)'
  <2>1. o \in active /\ ops[o] \in Operation
    BY <1>1, Zenon DEF OpInv, OpenOpsCurrent, Open, TypeOK
  <2>2. ops'[o] = [ops[o] EXCEPT !.state = "ABORTED"]
    BY <1>1, <2>1, Zenon DEF AbortedOps
  <2>3. ops'[o].state = "ABORTED"
    BY <2>1, <2>2, Zenon DEF Operation
  <2> QED
    BY <2>3, Zenon DEF Open
<1>2. ASSUME NEW o \in Op, ~Open(o)
      PROVE  ops'[o] = ops[o] /\ ~Open(o)'
  <2>1. ops'[o] = ops[o]
    BY <1>2, Zenon DEF AbortedOps
  <2> QED
    BY <1>2, <2>1, Zenon DEF Open
<1> QED
  BY <1>1, <1>2, Zenon

\* What a state change of one operation does to each.
LEMMA MovedFacts ==
  ASSUME TypeOK, NEW o \in Op, Open(o), NEW st \in OpState, ops' = Moved(o, st)
  PROVE  /\ ops'[o] # None /\ ops'[o].state = st /\ ops'[o].epoch = ops[o].epoch
         /\ \A q \in Op : q # o => ops'[q] = ops[q]
<1>1. ops[o] \in Operation
  BY Zenon DEF TypeOK, Open
<1>2. ops'[o] = [ops[o] EXCEPT !.state = st]
  BY Zenon DEF Moved, TypeOK
<1>3. ops'[o] \in Operation /\ ops'[o].state = st /\ ops'[o].epoch = ops[o].epoch
  BY <1>1, <1>2, Zenon DEF Operation
<1>4. \A q \in Op : q # o => ops'[q] = ops[q]
  BY Zenon DEF Moved, TypeOK
<1> QED
  BY <1>3, <1>4, Zenon

\* Terminal states of one step, as TerminalIsFinal states it.
TerminalStep == \A o \in Op : ops[o] # None /\ ~Open(o) => ops'[o] \in {ops[o], None}

\* There are no operations initially.
LEMMA InitOps == Init => OpInv
BY Zenon DEF Init, OpInv, OpenOpsCurrent, OneOpenOp, Open

\* A step that ends every open operation, or leaves operations, the active set
\* and the epoch alone.
LEMMA NoOpChange ==
  ASSUME TypeOK, OpInv,
         \/ ops' = AbortedOps
         \/ UNCHANGED <<ops, active>> /\ (epoch' = epoch \/ epoch' = 0)
  PROVE  OpInv' /\ TerminalStep
<1>1. CASE ops' = AbortedOps
  BY <1>1, AbortedFacts, Zenon DEF OpInv, OpenOpsCurrent, OneOpenOp, TerminalStep
<1>2. CASE UNCHANGED <<ops, active>> /\ (epoch' = epoch \/ epoch' = 0)
  <2>1. \A o \in Op : Open(o)' = Open(o)
    BY <1>2, Zenon DEF Open
  <2> QED
    BY <1>2, <2>1, Zenon DEF OpInv, OpenOpsCurrent, OneOpenOp, TerminalStep
<1> QED
  BY <1>1, <1>2, Zenon

\* No step strands an open operation or reopens a closed one.
LEMMA NextOps == TypeOK /\ OpInv /\ [Next]_vars => OpInv' /\ TerminalStep
<1> SUFFICES ASSUME TypeOK, OpInv, [Next]_vars PROVE OpInv' /\ TerminalStep
  BY Zenon
<1>1. CASE UNCHANGED vars \/ WorkerNext \/ LoseGroup \/ BootstrapNext
  <2>1. UNCHANGED <<ops, active>> /\ (epoch' = epoch \/ epoch' = 0)
    BY <1>1, ZenonT(30) DEF vars, groupVars, opVars, WorkerNext, RegisterWorker, ExpireWorker, LoseGroup,
                BootstrapNext, PublishBootstrap
  <2> QED
    BY <2>1, NoOpChange, Zenon
<1>2. CASE JoinNext \/ Refresh
  <2>1. ops' = AbortedOps \/ (UNCHANGED <<ops, active>> /\ epoch' = epoch)
    BY <1>2, ZenonT(30) DEF JoinNext, CreateByJoin, RefuseJoin, AdmitJoin, Refresh, opVars
  <2> QED
    BY <2>1, NoOpChange, Zenon
<1>3. ASSUME NEW o \in Op, DeleteTransfer(o)
      PROVE  OpInv' /\ TerminalStep
  <2>1. ~Open(o) /\ ops'[o] = None /\ (\A q \in Op : q # o => ops'[q] = ops[q])
    BY <1>3, Zenon DEF DeleteTransfer, TypeOK
  <2>2. ~Open(o)' /\ (\A q \in Op : q # o => Open(q)' = Open(q))
    BY <2>1, Zenon DEF Open
  <2>3. active' = active \ {o} /\ epoch' = epoch
    BY <1>3, Zenon DEF DeleteTransfer, groupVars
  <2> QED
    BY <2>1, <2>2, <2>3, Zenon DEF OpInv, OpenOpsCurrent, OneOpenOp, TerminalStep
<1>4. ASSUME NEW o \in Op, NEW k \in Key, CreateTransfer(o, k)
      PROVE  OpInv' /\ TerminalStep
  <2>1. \A q \in Op : ~Open(q)
    BY <1>4, Zenon DEF CreateTransfer, Busy, OpInv, OpenOpsCurrent
  <2>2. /\ ops'[o].epoch = epoch
        /\ \A q \in Op : q # o => ops'[q] = ops[q]
        /\ ops[o] = None /\ active' = active \cup {o} /\ epoch' = epoch
    BY <1>4, Zenon DEF CreateTransfer, TypeOK, groupVars
  <2>3. \A q \in Op : Open(q)' => q = o
    BY <2>1, <2>2, Zenon DEF Open
  <2> QED
    BY <2>2, <2>3, Zenon DEF OpInv, OpenOpsCurrent, OneOpenOp, TerminalStep
<1>5. ASSUME NEW o \in Op, NEW w \in Worker, ReportSuccess(o, w)
      PROVE  OpInv' /\ TerminalStep
  <2>1. Open(o) /\ epoch' = epoch /\ o \in active
    BY <1>5, Zenon DEF ReportSuccess, ReportAdmitted, groupVars, OpInv, OpenOpsCurrent
  <2>2. PICK st \in {"COMPLETE", "RUNNING"} :
          ops' = Moved(o, st) /\ active' = IF st = "COMPLETE" THEN active \ {o} ELSE active
    BY <1>5, Zenon DEF ReportSuccess
  <2>3. ops'[o].state = st /\ ops'[o].epoch = ops[o].epoch /\ \A q \in Op : q # o => ops'[q] = ops[q]
    BY <2>1, <2>2, MovedFacts, Zenon DEF OpState
  <2>4. \A q \in Op : q # o => ~Open(q)' /\ ~Open(q)
    BY <2>1, <2>3, Zenon DEF OpInv, OneOpenOp, Open
  <2>5. Open(o)' => o \in active' /\ (epoch' # 0 => ops'[o].epoch = epoch')
    BY <2>1, <2>2, <2>3, Zenon DEF Open, OpInv, OpenOpsCurrent
  <2>6. OpInv'
    BY <2>4, <2>5, Zenon DEF OpInv, OpenOpsCurrent, OneOpenOp
  <2> QED
    BY <2>1, <2>3, <2>6, Zenon DEF TerminalStep
<1>6. ASSUME NEW o \in Op, NEW w \in Worker, ReportFailure(o, w)
      PROVE  OpInv' /\ TerminalStep
  <2>1. Open(o) /\ ops' = Moved(o, "FAILED")
    BY <1>6, Zenon DEF ReportFailure, ReportAdmitted
  <2>2. ops'[o].state = "FAILED" /\ \A q \in Op : q # o => ops'[q] = ops[q]
    BY <2>1, MovedFacts, Zenon DEF OpState
  <2>3. \A q \in Op : ~Open(q)'
    BY <2>1, <2>2, Zenon DEF OpInv, OneOpenOp, Open
  <2> QED
    BY <2>1, <2>2, <2>3, Zenon DEF OpInv, OpenOpsCurrent, OneOpenOp, TerminalStep
<1>7. ASSUME NEW k \in Key, ExpireReservation(k)
      PROVE  OpInv' /\ TerminalStep
  <2>1. UNCHANGED <<ops, active, epoch>>
    BY <1>7, Zenon DEF ExpireReservation, groupVars
  <2> QED
    BY <2>1, NoOpChange, Zenon
<1> QED
  BY <1>1, <1>2, <1>3, <1>4, <1>5, <1>6, <1>7, Zenon DEF Next, OpNext

\* No epoch move, failure, sweep or recreation of the group strands an open
\* operation, and at most one operation is open at any time.
THEOREM OperationsFenced == Spec => [](OpenOpsCurrent /\ OneOpenOp)
<1>1. OpInv <=> OpenOpsCurrent /\ OneOpenOp
  BY Zenon DEF OpInv
<1> QED
  BY <1>1, InitType, NextType, InitOps, NextOps, PTL DEF Spec

\* At most one operation is open, so the lane communicators are never shared.
THEOREM OneTransferAtATime == Spec => []OneOpenOp
BY OperationsFenced, PTL

\* COMPLETE, FAILED and ABORTED are final, whatever reports and epoch moves follow.
THEOREM TerminalStatesFinal == Spec => TerminalIsFinal
<1>1. TypeOK /\ OpInv /\ [Next]_vars =>
        [\A o \in Op : ops[o] # None /\ ~Open(o) => ops'[o] \in {ops[o], None}]_vars
  BY NextOps, Zenon DEF TerminalStep
<1> QED
  BY <1>1, InitType, NextType, InitOps, NextOps, PTL DEF Spec, TerminalIsFinal

-----------------------------------------------------------------------------
(* The plan source                                                         *)

\* The plan source that survives a sweep still holds a slot the sweep left.
LEMMA SurvivingSource ==
  ASSUME TypeOK, PlanSourceIsMember, SweptSource # None
  PROVE  /\ SweptSource = planSource
         /\ \E s \in Slot : /\ Swept(participants)[s] # None
                            /\ Swept(participants)[s] = participants[s]
                            /\ participants[s].worker = planSource
<1>1. SweptSource = planSource /\ planSource # None
  BY Zenon DEF SweptSource
<1>2. \A s \in Lapsed : participants[s].worker # planSource
  BY <1>1, Zenon DEF SweptSource
<1>3. PICK s \in Slot : participants[s] # None /\ participants[s].worker = planSource
  BY <1>1, Zenon DEF PlanSourceIsMember, Members
<1>4. Swept(participants)[s] = participants[s]
  BY <1>2, <1>3, Zenon DEF Swept
<1> QED
  BY <1>1, <1>3, <1>4, Zenon

\* No step leaves the plan of a removed participant advertised.
LEMMA NextSource == TypeOK /\ PlanSourceIsMember /\ [Next]_vars => PlanSourceIsMember'
<1> SUFFICES ASSUME TypeOK, PlanSourceIsMember, [Next]_vars PROVE PlanSourceIsMember'
  BY Zenon
<1>1. CASE UNCHANGED <<planSource, participants>>
  BY <1>1, Zenon DEF PlanSourceIsMember, Members
<1>2. CASE planSource' = None
  BY <1>2, Zenon DEF PlanSourceIsMember
<1>3. ASSUME NEW j \in Joins, CreateByJoin(j)
      PROVE  PlanSourceIsMember'
  <2>1. j.slot \in Slot /\ Admission(j, 1) # None /\ Admission(j, 1).worker = j.worker
    BY JoinFields, AdmissionType, Zenon DEF Admission
  <2>2. participants'[j.slot] = Admission(j, 1)
    BY <1>3, <2>1, Zenon DEF CreateByJoin
  <2> QED
    BY <1>3, <2>1, <2>2, ZenonT(30) DEF CreateByJoin, PlanSourceIsMember, Members
<1>4. CASE participants' = Swept(participants) /\ planSource' \in {None, SweptSource}
  BY <1>4, SurvivingSource, Zenon DEF PlanSourceIsMember, Members
<1>5. ASSUME NEW j \in Joins, AdmitJoin(j)
      PROVE  PlanSourceIsMember'
  <2>1. PICK e \in Nat : participants' = [Swept(participants) EXCEPT ![j.slot] = Admission(j, e)]
    <3>1. epoch' \in Nat
      <4>1. epoch \in Nat
        BY Zenon DEF TypeOK
      <4>2. epoch' = epoch + 1 \/ epoch' = epoch
        BY <1>5, ZenonT(30) DEF AdmitJoin
      <4> QED
        BY <4>1, <4>2
    <3>2. participants' = [Swept(participants) EXCEPT ![j.slot] = Admission(j, epoch')]
      BY <1>5, ZenonT(30) DEF AdmitJoin
    <3> QED
      BY <3>1, <3>2, ZenonT(30)
  <2>2. /\ j.slot \in Slot
        /\ Admission(j, e) # None /\ Admission(j, e).worker = j.worker
    BY JoinFields, AdmissionType, ZenonT(30) DEF Admission
  <2>3. /\ participants'[j.slot] # None /\ participants'[j.slot].worker = j.worker
        /\ \A s \in Slot : s # j.slot => participants'[s] = Swept(participants)[s]
    BY <2>1, <2>2, SweptType, Zenon
  <2>4. CASE planSource' = j.worker
    BY <2>2, <2>3, <2>4, Zenon DEF PlanSourceIsMember, Members
  <2>5. CASE planSource' = SweptSource /\ SweptSource # None
                /\ ~(Replaces(j) /\ participants[j.slot].worker = planSource)
    <3>1. PICK s \in Slot : /\ Swept(participants)[s] # None
                            /\ Swept(participants)[s] = participants[s]
                            /\ participants[s].worker = planSource
      BY <2>5, SurvivingSource, Zenon
    <3>2. CASE s = j.slot
      <4>1. ~Replaces(j)
        BY <2>5, <3>1, <3>2, Zenon
      <4>2. participants[s].worker = j.worker
        BY <3>1, <3>2, <4>1, Zenon DEF Replaces
      <4> QED
        BY <2>3, <2>5, <3>1, <3>2, <4>2, SurvivingSource, JoinFields DEF PlanSourceIsMember, Members
    <3>3. CASE s # j.slot
      BY <2>3, <2>5, <3>1, <3>3, SurvivingSource DEF PlanSourceIsMember, Members
    <3> QED
      BY <3>2, <3>3, Zenon
  <2>6. planSource' = j.worker \/ planSource' = None \/ planSource' = JoinedSource(j)
    BY <1>5, Zenon DEF AdmitJoin
  <2>7. ~Conflicts(j) /\ j.slot \in Slot
    BY <1>5, <2>2, Zenon DEF AdmitJoin
  <2>8. Replaces(j) => participants[j.slot].rank = j.rank
    <3>1. Swept(participants)[j.slot] = None \/ Swept(participants)[j.slot] = participants[j.slot]
      BY <2>7, Zenon DEF Swept
    <3> QED
      BY <2>7, <3>1, Zenon DEF Conflicts, Replaces
  <2>9. CASE planSource' = JoinedSource(j) /\ planSource' # None
    BY <2>5, <2>8, <2>9, Zenon DEF JoinedSource
  <2> QED
    BY <1>2, <2>4, <2>6, <2>9, Zenon
<1> QED
  <2>1. CASE UNCHANGED vars \/ WorkerNext \/ BootstrapNext \/ OpNext \/ LoseGroup
    BY <1>1, <1>2, <2>1, ZenonT(30) DEF vars, groupVars, WorkerNext, RegisterWorker, ExpireWorker,
       BootstrapNext, PublishBootstrap, OpNext, DeleteTransfer, CreateTransfer, ReportSuccess,
       ReportFailure, ExpireReservation, LoseGroup
  <2>2. CASE Refresh \/ \E j \in Joins : RefuseJoin(j)
    BY <1>4, <2>2, JoinedSourceChoice, Zenon DEF Refresh, RefuseJoin
  <2> QED
    BY <1>3, <1>5, <2>1, <2>2, Zenon DEF Next, JoinNext

\* The group never advertises the plan endpoint of a worker it no longer admits.
THEOREM PlanSourceAdmitted == Spec => []PlanSourceIsMember
<1>1. Init => PlanSourceIsMember
  BY Zenon DEF Init, PlanSourceIsMember
<1> QED
  BY <1>1, InitType, NextType, NextSource, PTL DEF Spec
-----------------------------------------------------------------------------
(* Membership and epochs                                                   *)

\* A refused join keeps the sweep it made, without moving the epoch.  What
\* follows holds of the behaviours in which no refused join found a lapsed
\* participant; ConsistentJoinsSuffice gives a condition on the clients under
\* which that is every behaviour.
RefusalSweepsNothing == \A j \in Joins : RefuseJoin(j) => Lapsed = {}
QuietRefusals == [][RefusalSweepsNothing]_vars

\* A sweep that finds no lapsed participant removes nothing.
LEMMA SweptNothing ==
  ASSUME TypeOK, Lapsed = {}
  PROVE  Swept(participants) = participants /\ Swept(digests) = digests
BY Zenon DEF Swept, TypeOK

\* What AdmitJoin does to the membership.
LEMMA AdmitFacts ==
  ASSUME TypeOK, NEW j \in Joins, AdmitJoin(j)
  PROVE  /\ j.slot \in Slot /\ epoch # 0 /\ epoch' \in Nat
         /\ participants'[j.slot] # None
         /\ participants'[j.slot].worker = j.worker
         /\ participants'[j.slot].rank = j.rank
         /\ participants'[j.slot].joined = epoch'
         /\ \A s \in Slot : s # j.slot => participants'[s] = Swept(participants)[s]
         /\ JoinBumps(j) => epoch' # epoch /\ lanes' = NoLanes /\ ops' = AbortedOps
         /\ ~JoinBumps(j) => UNCHANGED <<epoch, lanes, ops, planDigest>>
<1>1. epoch \in Nat
  BY Zenon DEF TypeOK
<1>2. \/ JoinBumps(j) /\ epoch' = epoch + 1
      \/ ~JoinBumps(j) /\ epoch' = epoch
  BY ZenonT(30) DEF AdmitJoin
<1>3. epoch' \in Nat /\ (JoinBumps(j) => epoch' # epoch)
  BY <1>1, <1>2
<1>4. participants' = [Swept(participants) EXCEPT ![j.slot] = Admission(j, epoch')]
  BY ZenonT(30) DEF AdmitJoin
<1>5. /\ Admission(j, epoch') # None
      /\ Admission(j, epoch').worker = j.worker
      /\ Admission(j, epoch').rank = j.rank
      /\ Admission(j, epoch').joined = epoch'
  BY <1>3, AdmissionType, ZenonT(30) DEF Admission
<1>6. /\ j.slot \in Slot
      /\ participants'[j.slot] = Admission(j, epoch')
      /\ \A s \in Slot : s # j.slot => participants'[s] = Swept(participants)[s]
  BY <1>4, SweptType, JoinFields, Zenon
<1>7. /\ epoch # 0
      /\ JoinBumps(j) => lanes' = NoLanes /\ ops' = AbortedOps
      /\ ~JoinBumps(j) => UNCHANGED <<lanes, ops>>
  BY ZenonT(30) DEF AdmitJoin
<1>8. ~JoinBumps(j) => planDigest' = planDigest
  BY ZenonT(30) DEF AdmitJoin, JoinBumps
<1> QED
  BY <1>2, <1>3, <1>5, <1>6, <1>7, <1>8, ZenonT(30)

\* A join that leaves the epoch alone although communicators may exist neither
\* removed nor replaced anyone.
LEMMA AdmitKeeps ==
  ASSUME TypeOK, NEW j \in Joins, AdmitJoin(j), epoch' = epoch, NeedsEpochBump
  PROVE  /\ Lapsed = {} /\ ~JoinBumps(j)
         /\ participants[j.slot] # None => participants[j.slot].worker = j.worker
         /\ \A s \in Slot : s # j.slot => participants'[s] = participants[s]
<1>1. ~JoinBumps(j)
  BY AdmitFacts, Zenon
<1>2. Lapsed = {} /\ ~Replaces(j)
  BY <1>1, Zenon DEF JoinBumps
<1>3. Swept(participants) = participants
  BY <1>2, SweptNothing, Zenon
<1> QED
  BY <1>1, <1>2, <1>3, AdmitFacts, Zenon DEF Replaces

\* The lanes stamped for the present epoch.
Stamped(l) == lanes[l] # None /\ lanes[l].epoch = epoch

\* A step that leaves the epoch of an existing group alone while communicators
\* may exist keeps every participant's worker and every stamp of the epoch.
EpochKept ==
  /\ \A s \in Slot : participants[s] # None =>
       /\ participants'[s] # None
       /\ participants'[s].worker = participants[s].worker
       /\ participants'[s].joined \in {participants[s].joined, epoch}
  /\ \A l \in Lane : Stamped(l) => lanes'[l] = lanes[l]

\* Within an epoch the admitted participants stay.
LEMMA SameEpochStep ==
  ASSUME TypeOK, [Next]_vars, RefusalSweepsNothing, epoch # 0, epoch' = epoch, NeedsEpochBump
  PROVE  EpochKept
<1>1. CASE UNCHANGED <<participants, lanes>>
  BY <1>1, Zenon DEF EpochKept
<1>2. ASSUME NEW j \in Joins, RefuseJoin(j)
      PROVE  EpochKept
  <2>1. participants' = participants /\ lanes' = lanes
    BY <1>2, SweptNothing, Zenon DEF RefusalSweepsNothing, RefuseJoin
  <2> QED
    BY <2>1, <1>1, Zenon
<1>3. ASSUME NEW j \in Joins, AdmitJoin(j)
      PROVE  EpochKept
  <2>1. lanes' = lanes
    BY <1>3, AdmitFacts, AdmitKeeps, Zenon
  <2>2. ASSUME NEW s \in Slot, participants[s] # None
        PROVE  /\ participants'[s] # None
               /\ participants'[s].worker = participants[s].worker
               /\ participants'[s].joined \in {participants[s].joined, epoch}
    BY <1>3, <2>2, AdmitFacts, AdmitKeeps
  <2> QED
    BY <2>1, <2>2, Zenon DEF EpochKept
<1>4. CASE Refresh
  <2>1. Lapsed = {} /\ lanes' = lanes
    <3>1. epoch \in Nat /\ epoch + 1 # epoch
      BY DEF TypeOK
    <3> QED
      BY <1>4, <3>1, Zenon DEF Refresh
  <2>2. participants' = participants
    BY <1>4, <2>1, SweptNothing, Zenon DEF Refresh
  <2> QED
    BY <2>1, <2>2, <1>1, Zenon
<1>5. ASSUME NEW l \in Lane, NEW w \in Worker, NEW id \in BootstrapId, PublishBootstrap(l, w, id)
      PROVE  EpochKept
  <2>1. participants' = participants
    BY <1>5, Zenon DEF PublishBootstrap
  <2>2. \A k \in Lane : Stamped(k) => lanes'[k] = lanes[k]
    BY <1>5, Zenon DEF PublishBootstrap, Stamped, TypeOK
  <2> QED
    BY <2>1, <2>2, Zenon DEF EpochKept
<1>6. ASSUME NEW o \in Op, NEW w \in Worker, ReportFailure(o, w)
      PROVE  EpochKept
  <2>1. epoch \in Nat /\ epoch' = epoch + 1
    BY <1>6, Zenon DEF ReportFailure, TypeOK
  <2> QED
    BY <2>1
<1>7. CASE UNCHANGED vars \/ WorkerNext
  BY <1>1, <1>7, Zenon DEF vars, groupVars, WorkerNext, RegisterWorker, ExpireWorker
<1>8. CASE LoseGroup \/ \E j \in Joins : CreateByJoin(j)
  BY <1>8, ZenonT(30) DEF LoseGroup, CreateByJoin
<1>9. ASSUME NEW o \in Op, \/ DeleteTransfer(o)
                           \/ \E k \in Key : CreateTransfer(o, k)
                           \/ \E w \in Worker : ReportSuccess(o, w)
      PROVE  EpochKept
  <2>1. UNCHANGED <<participants, lanes>>
    BY <1>9, Zenon DEF DeleteTransfer, CreateTransfer, ReportSuccess, groupVars
  <2> QED
    BY <2>1, <1>1, Zenon
<1>10. CASE \E k \in Key : ExpireReservation(k)
  BY <1>1, <1>10, Zenon DEF ExpireReservation, groupVars
<1> QED
  BY <1>2, <1>3, <1>4, <1>5, <1>6, <1>7, <1>8, <1>9, <1>10, Zenon
     DEF Next, JoinNext, BootstrapNext, OpNext

\* Unless a refused join swept someone, removing or replacing a participant of a
\* group that may have communicators always moves the epoch.
THEOREM RemovalsAdvanceEpoch == Spec /\ QuietRefusals => RemovalAdvancesEpoch
<1>1. TypeOK /\ [Next]_vars /\ [RefusalSweepsNothing]_vars =>
        [\A s \in Slot :
           /\ epoch # 0
           /\ state = "READY" \/ \E l \in Lane : lanes[l] # None /\ lanes[l].epoch = epoch
           /\ participants[s] # None
           /\ participants'[s] = None \/ participants'[s].worker # participants[s].worker
           => epoch' # epoch]_vars
  BY SameEpochStep, Zenon DEF EpochKept, NeedsEpochBump
<1> QED
  BY <1>1, TypeCorrect, PTL DEF Spec, QuietRefusals, RemovalAdvancesEpoch

-----------------------------------------------------------------------------
(* Bootstraps                                                              *)

\* A stamp of the new epoch is one the leader just wrote or one that was there.
LEMMA StampedAfter ==
  ASSUME TypeOK, [Next]_vars, epoch' # 0, NEW l \in Lane, Stamped(l)'
  PROVE  \/ epoch' = epoch /\ Stamped(l) /\ lanes'[l] = lanes[l]
         \/ \E w \in Worker, id \in BootstrapId : PublishBootstrap(l, w, id)
<1>1. lanes' # NoLanes
  BY Zenon DEF Stamped, NoLanes
<1>2. CASE lanes' = lanes /\ epoch' = epoch
  BY <1>2, Zenon DEF Stamped
<1>3. ASSUME NEW k \in Lane, NEW w \in Worker, NEW id \in BootstrapId, PublishBootstrap(k, w, id)
      PROVE  \/ epoch' = epoch /\ Stamped(l) /\ lanes'[l] = lanes[l]
             \/ \E v \in Worker, i \in BootstrapId : PublishBootstrap(l, v, i)
  <2>1. CASE k = l
    BY <1>3, <2>1, Zenon
  <2>2. CASE k # l
    BY <1>3, <2>2, ZenonT(30) DEF PublishBootstrap, Stamped, TypeOK
  <2> QED
    BY <2>1, <2>2, ZenonT(30)
<1>4. ASSUME NEW j \in Joins, AdmitJoin(j)
      PROVE  lanes' = lanes /\ epoch' = epoch
  BY <1>1, <1>4, AdmitFacts, ZenonT(30)
<1>5. CASE Refresh
  BY <1>1, <1>2, <1>5, Zenon DEF Refresh
<1>6. ASSUME NEW o \in Op,
             \/ DeleteTransfer(o)
             \/ \E k \in Key : CreateTransfer(o, k)
             \/ \E w \in Worker : ReportSuccess(o, w) \/ ReportFailure(o, w)
      PROVE  lanes' = lanes /\ epoch' = epoch
  BY <1>1, <1>6, Zenon DEF DeleteTransfer, CreateTransfer, ReportSuccess, ReportFailure, groupVars
<1>7. CASE \/ UNCHANGED vars \/ WorkerNext
           \/ \E k \in Key : ExpireReservation(k)
           \/ \E j \in Joins : RefuseJoin(j)
  BY <1>2, <1>7, Zenon DEF vars, groupVars, WorkerNext, RegisterWorker, ExpireWorker,
                    ExpireReservation, RefuseJoin
<1>8. CASE LoseGroup \/ \E j \in Joins : CreateByJoin(j)
  BY <1>1, <1>8, ZenonT(30) DEF LoseGroup, CreateByJoin
<1> QED
  BY <1>2, <1>3, <1>4, <1>5, <1>6, <1>7, <1>8, Zenon DEF Next, JoinNext, BootstrapNext, OpNext

\* No step leaves an identifier that the leader did not bootstrap.
LEMMA NextBootstrap ==
  TypeOK /\ BootstrapByLeader /\ [Next]_vars /\ [RefusalSweepsNothing]_vars
    => BootstrapByLeader'
<1> SUFFICES ASSUME TypeOK, BootstrapByLeader, [Next]_vars, [RefusalSweepsNothing]_vars,
                    NEW l \in Lane, epoch' # 0, Stamped(l)'
             PROVE  LET leader == participants'[LeaderSlot[l]]
                    IN  leader # None /\ leader.worker = lanes'[l].by /\ leader.joined = epoch'
  BY ZenonT(30) DEF BootstrapByLeader, Stamped
<1> LeaderSlot[l] \in Slot
  BY Zenon
<1>1. CASE UNCHANGED vars
  BY <1>1, ZenonT(30) DEF BootstrapByLeader, Stamped, vars, groupVars
<1>2. ASSUME NEW w \in Worker, NEW id \in BootstrapId, PublishBootstrap(l, w, id)
      PROVE  LET leader == participants'[LeaderSlot[l]]
             IN  leader # None /\ leader.worker = lanes'[l].by /\ leader.joined = epoch'
  BY <1>2, ZenonT(30) DEF PublishBootstrap, TypeOK
<1>3. CASE ~UNCHANGED vars /\ epoch' = epoch /\ Stamped(l) /\ lanes'[l] = lanes[l]
  <2>1. LET leader == participants[LeaderSlot[l]]
        IN  leader # None /\ leader.worker = lanes[l].by /\ leader.joined = epoch
    BY <1>3, Zenon DEF BootstrapByLeader, Stamped
  <2>2. EpochKept
    BY <1>3, SameEpochStep, Zenon DEF NeedsEpochBump, Stamped
  <2> QED
    BY <1>3, <2>1, <2>2, Zenon DEF EpochKept
<1> QED
  BY <1>1, <1>2, <1>3, StampedAfter, ZenonT(30)

\* Unless a refused join swept someone, the identifier of a lane in the present
\* epoch always comes from the worker that holds the lane's rank 0.
THEOREM BootstrapsByLeader == Spec /\ QuietRefusals => []BootstrapByLeader
<1>1. Init => BootstrapByLeader
  BY Zenon DEF Init, BootstrapByLeader
<1> QED
  BY <1>1, TypeCorrect, NextBootstrap, PTL DEF Spec, QuietRefusals

-----------------------------------------------------------------------------
(* Readiness                                                               *)

\* No two slots hold the same worker or the same rank, READY or not.
DistinctMembers ==
  \A s, t \in Slot :
    s # t /\ participants[s] # None /\ participants[t] # None
      => /\ participants[s].worker # participants[t].worker
         /\ participants[s].rank # participants[t].rank

\* A sweep keeps the participants distinct.
LEMMA SweptDistinct ==
  ASSUME TypeOK, DistinctMembers, participants' = Swept(participants)
  PROVE  DistinctMembers'
BY Zenon DEF DistinctMembers, Swept

\* Every step keeps the participants distinct.
LEMMA NextDistinct == TypeOK /\ DistinctMembers /\ [Next]_vars => DistinctMembers'
<1> SUFFICES ASSUME TypeOK, DistinctMembers, [Next]_vars PROVE DistinctMembers'
  BY Zenon
<1>1. CASE participants' = participants
  BY <1>1, Zenon DEF DistinctMembers
<1>2. ASSUME NEW j \in Joins, CreateByJoin(j)
      PROVE  DistinctMembers'
  <2>1. \A s \in Slot : s # j.slot => participants'[s] = None
    BY <1>2, Zenon DEF CreateByJoin
  <2> QED
    BY <2>1, Zenon DEF DistinctMembers
<1>3. ASSUME NEW j \in Joins, AdmitJoin(j)
      PROVE  DistinctMembers'
  <2>1. \A s \in Slot : s # j.slot /\ participants'[s] # None =>
          participants'[s].rank # j.rank /\ participants'[s].worker # j.worker
    <3>1. ~Conflicts(j)
      BY <1>3, ZenonT(30) DEF AdmitJoin
    <3> QED
      BY <1>3, <3>1, AdmitFacts, Zenon DEF Conflicts
  <2>2. \A s \in Slot : s # j.slot /\ participants'[s] # None =>
          participants'[s] = participants[s] /\ participants[s] # None
    BY <1>3, AdmitFacts, Zenon DEF Swept
  <2>3. participants'[j.slot].worker = j.worker /\ participants'[j.slot].rank = j.rank
    BY <1>3, AdmitFacts, Zenon
  <2> QED
    BY <2>1, <2>2, <2>3, SMTT(30) DEF DistinctMembers
<1>4. CASE Refresh \/ \E j \in Joins : RefuseJoin(j)
  BY <1>4, SweptDistinct, Zenon DEF Refresh, RefuseJoin
<1>5. CASE UNCHANGED vars \/ WorkerNext \/ LoseGroup \/ BootstrapNext \/ OpNext
  BY <1>1, <1>5, ZenonT(30) DEF vars, groupVars, WorkerNext, RegisterWorker, ExpireWorker,
     LoseGroup, BootstrapNext, PublishBootstrap, OpNext, DeleteTransfer, CreateTransfer,
     ReportSuccess, ReportFailure, ExpireReservation
<1> QED
  BY <1>2, <1>3, <1>4, <1>5, Zenon DEF Next, JoinNext

\* A READY group meets the readiness condition it was last evaluated with.
ReadyHolds ==
  state = "READY" => epoch # 0 /\ Ready(participants, digests, lanes, epoch, planDigest)

\* A step makes or leaves READY only a consistent group.
LEMMA NextReady ==
  TypeOK /\ ReadyHolds /\ [Next]_vars /\ [RefusalSweepsNothing]_vars => ReadyHolds'
<1> SUFFICES ASSUME TypeOK, ReadyHolds, [Next]_vars, [RefusalSweepsNothing]_vars,
                    state' = "READY"
             PROVE  epoch' # 0 /\ Ready(participants', digests', lanes', epoch', planDigest')
  BY Zenon DEF ReadyHolds, Ready
<1> DEFINE R == epoch' # 0 /\ Ready(participants', digests', lanes', epoch', planDigest')
<1>0. ASSUME NEW b \in BOOLEAN, state' = StateIf(b)
      PROVE  b
  BY <1>0, Zenon DEF StateIf
<1>1. CASE UNCHANGED groupVars
  BY <1>1, Zenon DEF groupVars, ReadyHolds
<1>2. ASSUME NEW j \in Joins, CreateByJoin(j)
      PROVE  R
  <2>1. epoch' = 1
    BY <1>2, Zenon DEF CreateByJoin
  <2>2. Ready(participants', digests', lanes', epoch', planDigest')
    BY <1>0, <1>2, ZenonT(30) DEF CreateByJoin, Ready
  <2> QED
    BY <2>1, <2>2
<1>3. ASSUME NEW j \in Joins, RefuseJoin(j)
      PROVE  R
  <2>1. CASE UNCHANGED vars
    BY <1>1, <2>1, Zenon DEF vars
  <2>2. CASE RefusalSweepsNothing
    <3>1. Lapsed = {}
      BY <1>3, <2>2, Zenon DEF RefusalSweepsNothing
    <3>2. participants' = participants /\ digests' = digests
      BY <1>3, <3>1, SweptNothing, Zenon DEF RefuseJoin
    <3> QED
      BY <1>3, <3>2, Zenon DEF RefuseJoin, ReadyHolds
  <2> QED
    BY <2>1, <2>2, Zenon
<1>4. ASSUME NEW j \in Joins, AdmitJoin(j)
      PROVE  R
  <2>1. epoch' # 0
    <3>1. epoch \in Nat /\ epoch # 0
      BY <1>4, AdmitFacts, ZenonT(30) DEF TypeOK
    <3>2. epoch' = epoch + 1 \/ epoch' = epoch
      BY <1>4, ZenonT(30) DEF AdmitJoin
    <3> QED
      BY <3>1, <3>2
  <2>2. Ready(participants', digests', lanes', epoch', planDigest')
    BY <1>0, <1>4, ZenonT(30) DEF AdmitJoin, Ready
  <2> QED
    BY <2>1, <2>2, Zenon
<1>5. CASE Refresh
  <2>1. epoch' # 0
    <3>1. epoch \in Nat /\ epoch # 0
      BY <1>5, Zenon DEF TypeOK, Refresh
    <3>2. epoch' = epoch + 1 \/ epoch' = epoch
      BY <1>5, ZenonT(30) DEF Refresh
    <3> QED
      BY <3>1, <3>2
  <2>2. Ready(participants', digests', lanes', epoch', planDigest')
    BY <1>0, <1>5, ZenonT(30) DEF Refresh, Ready
  <2> QED
    BY <2>1, <2>2, Zenon
<1>6. CASE BootstrapNext
  BY <1>0, <1>6, ZenonT(30) DEF BootstrapNext, PublishBootstrap, Ready
<1>7. CASE LoseGroup \/ \E o \in Op, w \in Worker : ReportFailure(o, w)
  BY <1>7, Zenon DEF LoseGroup, ReportFailure
<1>8. CASE \/ UNCHANGED vars \/ WorkerNext
           \/ \E o \in Op : \/ DeleteTransfer(o)
                            \/ \E k \in Key : CreateTransfer(o, k)
                            \/ \E w \in Worker : ReportSuccess(o, w)
           \/ \E k \in Key : ExpireReservation(k)
  BY <1>1, <1>8, ZenonT(30) DEF vars, WorkerNext, RegisterWorker, ExpireWorker, DeleteTransfer,
     CreateTransfer, ReportSuccess, ExpireReservation
<1> QED
  BY <1>2, <1>3, <1>4, <1>5, <1>6, <1>7, <1>8, Zenon DEF Next, JoinNext, OpNext

\* Unless a refused join swept someone, a READY group is complete, consistent and
\* bootstrapped for the present epoch as long as it is READY.
THEOREM ReadyGroupsConsistent == Spec /\ QuietRefusals => []ReadyIsConsistent
<1>1. Init => DistinctMembers /\ ReadyHolds
  BY Zenon DEF Init, DistinctMembers, ReadyHolds
<1>2. DistinctMembers /\ ReadyHolds => ReadyIsConsistent
  BY ZenonT(30) DEF DistinctMembers, ReadyHolds, ReadyIsConsistent, Ready
<1> QED
  BY <1>1, <1>2, TypeCorrect, NextDistinct, NextReady, PTL DEF Spec, QuietRefusals

-----------------------------------------------------------------------------
(* Clients under which no join is refused                                  *)

\* Every slot is asked for at one rank, every rank by one slot, and every process
\* asks for one slot.
ConsistentJoins ==
  \A j, k \in Joins : /\ j.slot = k.slot <=> j.rank = k.rank
                      /\ j.worker = k.worker => j.slot = k.slot

\* Every participant was admitted by a join request for its slot.
FromJoins ==
  \A s \in Slot : participants[s] # None =>
    \E j \in Joins : /\ j.slot = s
                     /\ j.worker = participants[s].worker /\ j.rank = participants[s].rank

\* Every participant comes from a join of a client.
LEMMA NextFromJoins == TypeOK /\ FromJoins /\ [Next]_vars => FromJoins'
<1> SUFFICES ASSUME TypeOK, FromJoins, [Next]_vars PROVE FromJoins'
  BY Zenon
<1>1. CASE participants' = participants
  BY <1>1, Zenon DEF FromJoins
<1>2. CASE participants' = Swept(participants)
  BY <1>2, Zenon DEF FromJoins, Swept
<1>3. ASSUME NEW j \in Joins, CreateByJoin(j)
      PROVE  FromJoins'
  <2>1. \A s \in Slot : participants'[s] = IF s = j.slot THEN Admission(j, 1) ELSE None
    BY <1>3, Zenon DEF CreateByJoin
  <2>2. Admission(j, 1).worker = j.worker /\ Admission(j, 1).rank = j.rank
    BY Zenon DEF Admission
  <2> QED
    BY <2>1, <2>2, Zenon DEF FromJoins
<1>4. ASSUME NEW j \in Joins, AdmitJoin(j)
      PROVE  FromJoins'
  <2>1. \A s \in Slot : s # j.slot /\ participants'[s] # None =>
          participants'[s] = participants[s] /\ participants[s] # None
    BY <1>4, AdmitFacts, Zenon DEF Swept
  <2>2. participants'[j.slot].worker = j.worker /\ participants'[j.slot].rank = j.rank
    BY <1>4, AdmitFacts, Zenon
  <2> QED
    BY SMTT(30), <2>1, <2>2 DEF FromJoins
<1>5. CASE Refresh \/ \E j \in Joins : RefuseJoin(j)
  BY <1>2, <1>5, Zenon DEF Refresh, RefuseJoin
<1>6. CASE UNCHANGED vars \/ WorkerNext \/ LoseGroup \/ BootstrapNext \/ OpNext
  BY <1>1, <1>6, ZenonT(30) DEF vars, groupVars, WorkerNext, RegisterWorker, ExpireWorker,
     LoseGroup, BootstrapNext, PublishBootstrap, OpNext, DeleteTransfer, CreateTransfer,
     ReportSuccess, ReportFailure, ExpireReservation
<1> QED
  BY <1>3, <1>4, <1>5, <1>6, Zenon DEF Next, JoinNext

\* When the clients agree on slots and ranks no join is ever refused for a
\* conflict, so the theorems above hold of every behaviour of the group.
THEOREM ConsistentJoinsSuffice == ConsistentJoins => (Spec => QuietRefusals)
<1> SUFFICES ASSUME ConsistentJoins PROVE Spec => QuietRefusals
  BY Zenon
<1>1. Init => FromJoins
  BY Zenon DEF Init, FromJoins
<1>2. FromJoins => [RefusalSweepsNothing]_vars
  <2> SUFFICES ASSUME FromJoins, NEW j \in Joins, RefuseJoin(j) PROVE FALSE
    BY Zenon DEF RefusalSweepsNothing
  <2>1. Conflicts(j)
    BY Zenon DEF RefuseJoin
  <2>2. \A s \in Slot : Swept(participants)[s] # None => Swept(participants)[s] = participants[s]
    BY Zenon DEF Swept
  <2>3. j.slot \in Slot
    BY JoinFields, Zenon
  <2> QED
    BY <2>1, <2>2, <2>3 DEF Conflicts, FromJoins, ConsistentJoins
<1> QED
  BY <1>1, <1>2, TypeCorrect, NextFromJoins, PTL DEF Spec, QuietRefusals

-----------------------------------------------------------------------------

(* The cohort of a transfer                                                *)

\* A READY group that admits j without moving the epoch stays READY.
LEMMA AdmitStaysReady ==
  ASSUME TypeOK, ReadyHolds, state = "READY", NEW j \in Joins, AdmitJoin(j), epoch' = epoch
  PROVE  state' = "READY"
<1>1. NeedsEpochBump
  BY Zenon DEF NeedsEpochBump
<1>2. Lapsed = {} /\ ~JoinBumps(j)
  BY <1>1, AdmitKeeps, Zenon
<1>3. Ready(participants, digests, lanes, epoch, planDigest)
  BY Zenon DEF ReadyHolds
<1>4. j.digest = planDigest /\ lanes' = lanes /\ planDigest' = planDigest
  BY <1>2, AdmitFacts, Zenon DEF JoinBumps
<1>5. digests' = [digests EXCEPT ![j.slot] = j.digest]
  <2>1. Swept(digests) = digests
    BY <1>2, SweptNothing, Zenon
  <2>2. digests' = [Swept(digests) EXCEPT ![j.slot] = j.digest]
    BY ZenonT(30) DEF AdmitJoin
  <2> QED
    BY <2>1, <2>2, Zenon
<1>6. \A s \in Slot : digests'[s] = planDigest'
  BY <1>3, <1>4, <1>5, Zenon DEF Ready, TypeOK
<1>7. \A s \in Slot : /\ participants'[s] # None
                      /\ participants'[s].joined = epoch'
                      /\ participants'[s].worker \in live
  <2>1. j.worker \in live
    BY ZenonT(30) DEF AdmitJoin, Eligible
  <2>2. \A s \in Slot : participants[s] # None /\ participants[s].joined = epoch
                          /\ participants[s].worker \in live
    BY <1>2, <1>3, Zenon DEF Ready, Lapsed
  <2> QED
    BY SMTT(30), <1>1, <2>1, <2>2, AdmitFacts, AdmitKeeps
<1>8. Ready(participants', digests', lanes', epoch', planDigest') /\ AllLive(participants')
  BY <1>3, <1>4, <1>6, <1>7, Zenon DEF Ready, AllLive
<1>9. state' = StateIf(Ready(participants', digests', lanes', epoch', planDigest')
                       /\ AllLive(participants'))
  BY ZenonT(30) DEF AdmitJoin
<1> QED
  BY <1>8, <1>9, Zenon DEF StateIf

\* While a transfer is open its group is full, its membership is the cohort and
\* any change of it would move the epoch: the group need not stay READY, since a
\* bootstrap published again while a registration has lapsed makes it FORMING.
CohortInv ==
  \A o \in Op : Open(o) /\ epoch # 0 =>
    /\ NeedsEpochBump
    /\ \A s \in Slot : participants[s] # None
    /\ cohort[o] = Members

\* A step that leaves an open transfer open in the present epoch keeps the bump
\* condition.
LEMMA BumpKept ==
  ASSUME TypeOK, ReadyHolds, [Next]_vars, RefusalSweepsNothing,
         epoch # 0, epoch' = epoch, NeedsEpochBump,
         ~\E o \in Op, w \in Worker : ReportFailure(o, w)
  PROVE  NeedsEpochBump'
<1>1. ASSUME NEW l \in Lane, Stamped(l)
      PROVE  NeedsEpochBump'
  <2>1. lanes'[l] = lanes[l]
    BY <1>1, SameEpochStep, Zenon DEF EpochKept
  <2> QED
    BY <1>1, <2>1, Zenon DEF Stamped, NeedsEpochBump
<1>2. CASE state = "READY"
  <2>1. CASE state' = state
    BY <1>2, <2>1, Zenon DEF NeedsEpochBump
  <2>2. ASSUME NEW j \in Joins, AdmitJoin(j)
        PROVE  NeedsEpochBump'
    BY <1>2, <2>2, AdmitStaysReady, Zenon DEF NeedsEpochBump
  <2>3. CASE Refresh
    <3>1. Lapsed = {} /\ lanes' = lanes
      <4>1. epoch \in Nat /\ epoch + 1 # epoch
        BY DEF TypeOK
      <4> QED
        BY <2>3, <4>1, Zenon DEF Refresh
    <3>2. participants' = participants /\ digests' = digests
      BY <2>3, <3>1, SweptNothing, Zenon DEF Refresh
    <3>3. Ready(participants, digests, lanes, epoch, planDigest)
      BY <1>2, Zenon DEF ReadyHolds
    <3>4. state' = StateIf(Ready(participants', digests', lanes', epoch', planDigest))
      BY <2>3, ZenonT(30) DEF Refresh
    <3> QED
      BY <3>1, <3>2, <3>3, <3>4, Zenon DEF StateIf, NeedsEpochBump
  <2>4. ASSUME NEW l \in Lane, NEW w \in Worker, NEW id \in BootstrapId, PublishBootstrap(l, w, id)
        PROVE  NeedsEpochBump'
    <3>1. [epoch |-> epoch, by |-> w, id |-> id] \in Bootstrap
      BY Zenon DEF Bootstrap, TypeOK
    <3>2. lanes'[l] = [epoch |-> epoch, by |-> w, id |-> id]
      BY <2>4, Zenon DEF PublishBootstrap, TypeOK
    <3>3. lanes'[l] # None /\ lanes'[l].epoch = epoch'
      BY <3>1, <3>2
    <3> QED
      BY <3>3, Zenon DEF NeedsEpochBump
  <2>5. CASE LoseGroup \/ \E j \in Joins : CreateByJoin(j)
    BY <2>5, ZenonT(30) DEF LoseGroup, CreateByJoin
  <2>6. CASE \/ UNCHANGED vars \/ WorkerNext \/ \E j \in Joins : RefuseJoin(j)
             \/ \E o \in Op : \/ DeleteTransfer(o)
                              \/ \E k \in Key : CreateTransfer(o, k)
                              \/ \E w \in Worker : ReportSuccess(o, w)
             \/ \E k \in Key : ExpireReservation(k)
    BY <2>1, <2>6, ZenonT(30) DEF vars, groupVars, WorkerNext, RegisterWorker, ExpireWorker,
       RefuseJoin, DeleteTransfer, CreateTransfer, ReportSuccess, ExpireReservation
  <2> QED
    BY <2>2, <2>3, <2>4, <2>5, <2>6, Zenon DEF Next, JoinNext, BootstrapNext, OpNext
<1> QED
  BY <1>1, <1>2, Zenon DEF NeedsEpochBump, Stamped

\* In a full group that keeps every participant's worker the membership stays.
LEMMA MembersKept ==
  ASSUME \A s \in Slot : participants[s] # None, EpochKept
  PROVE  (\A s \in Slot : participants'[s] # None) /\ Members' = Members
<1>1. \A s \in Slot : participants'[s] # None /\ participants'[s].worker = participants[s].worker
  BY Zenon DEF EpochKept
<1> QED
  BY <1>1, Zenon DEF Members

\* An operation that is open after a step was open before it, at the same epoch
\* and with the same cohort, or was just created.
LEMMA OpenAfter ==
  ASSUME TypeOK, OpInv, [Next]_vars, epoch' # 0, NEW o \in Op, Open(o)'
  PROVE  \/ \E k \in Key : CreateTransfer(o, k)
         \/ /\ Open(o) /\ epoch' = epoch /\ cohort'[o] = cohort[o]
            /\ ~\E q \in Op, w \in Worker : ReportFailure(q, w)
<1> DEFINE Goal == /\ Open(o) /\ epoch' = epoch /\ cohort'[o] = cohort[o]
                   /\ ~\E q \in Op, w \in Worker : ReportFailure(q, w)
<1>1. ops' # AbortedOps
  BY AbortedFacts, Zenon
<1>2. ASSUME NEW q \in Op, NEW w \in Worker, ReportFailure(q, w)
      PROVE  FALSE
  <2>1. Open(q) /\ ops' = Moved(q, "FAILED")
    BY <1>2, Zenon DEF ReportFailure, ReportAdmitted
  <2>2. ops'[q].state = "FAILED" /\ \A p \in Op : p # q => ops'[p] = ops[p]
    BY <2>1, MovedFacts, Zenon DEF OpState
  <2> QED
    BY <2>1, <2>2, Zenon DEF OpInv, OneOpenOp, Open
<1>3. ASSUME UNCHANGED <<ops, epoch, cohort>>
      PROVE  Goal
  BY <1>2, <1>3, Zenon DEF Open
<1>4. ASSUME NEW j \in Joins, CreateByJoin(j) \/ RefuseJoin(j)
      PROVE  Goal
  <2>1. UNCHANGED <<ops, epoch, cohort>>
    BY <1>1, <1>4, ZenonT(30) DEF CreateByJoin, RefuseJoin, opVars
  <2> QED
    BY <1>3, <2>1, Zenon
<1>5. ASSUME NEW j \in Joins, AdmitJoin(j)
      PROVE  Goal
  <2>1. UNCHANGED <<ops, epoch>>
    BY <1>1, <1>5, AdmitFacts, Zenon
  <2>2. cohort' = cohort
    BY <1>5, ZenonT(30) DEF AdmitJoin
  <2> QED
    BY <1>3, <2>1, <2>2, Zenon
<1>6. CASE Refresh
  BY <1>1, <1>3, <1>6, ZenonT(30) DEF Refresh
<1>7. ASSUME NEW q \in Op, DeleteTransfer(q)
      PROVE  Goal
  <2>1. q # o
    BY <1>7, Zenon DEF DeleteTransfer, Open, TypeOK
  <2>2. ops'[o] = ops[o] /\ cohort'[o] = cohort[o] /\ epoch' = epoch
    BY <1>7, <2>1, Zenon DEF DeleteTransfer, groupVars, TypeOK
  <2> QED
    BY <1>2, <2>2, Zenon DEF Open
<1>8. ASSUME NEW q \in Op, NEW k \in Key, q # o, CreateTransfer(q, k)
      PROVE  Goal
  <2>1. ops'[o] = ops[o] /\ cohort'[o] = cohort[o] /\ epoch' = epoch
    BY <1>8, Zenon DEF CreateTransfer, groupVars, TypeOK
  <2> QED
    BY <1>2, <2>1, Zenon DEF Open
<1>9. ASSUME NEW q \in Op, NEW w \in Worker, ReportSuccess(q, w)
      PROVE  Goal
  <2>1. Open(q) /\ epoch' = epoch /\ cohort' = cohort
    BY <1>9, Zenon DEF ReportSuccess, ReportAdmitted, groupVars
  <2>2. PICK st \in {"COMPLETE", "RUNNING"} : ops' = Moved(q, st)
    BY <1>9, Zenon DEF ReportSuccess
  <2>3. q # o => ops'[o] = ops[o]
    BY <2>1, <2>2, MovedFacts, Zenon DEF OpState
  <2> QED
    BY <1>2, <2>1, <2>3, Zenon DEF Open
<1>10. CASE LoseGroup
  BY <1>10, Zenon DEF LoseGroup
<1>11. CASE UNCHANGED vars \/ WorkerNext \/ BootstrapNext \/ \E k \in Key : ExpireReservation(k)
  BY <1>3, <1>11, ZenonT(30) DEF vars, groupVars, opVars, WorkerNext, RegisterWorker, ExpireWorker,
     BootstrapNext, PublishBootstrap, ExpireReservation
<1> QED
  BY <1>2, <1>4, <1>5, <1>6, <1>7, <1>8, <1>9, <1>10, <1>11, ZenonT(40) DEF Next, JoinNext, OpNext

\* Every step keeps the cohorts of open operations.
LEMMA NextCohort ==
  TypeOK /\ OpInv /\ ReadyHolds /\ CohortInv /\ [Next]_vars /\ [RefusalSweepsNothing]_vars
    => CohortInv'
<1> SUFFICES ASSUME TypeOK, OpInv, ReadyHolds, CohortInv, [Next]_vars,
                    [RefusalSweepsNothing]_vars, NEW o \in Op, Open(o)', epoch' # 0
             PROVE  /\ NeedsEpochBump'
                    /\ \A s \in Slot : participants'[s] # None
                    /\ cohort'[o] = Members'
  BY Zenon DEF CohortInv
<1>1. ASSUME NEW k \in Key, CreateTransfer(o, k)
      PROVE  /\ NeedsEpochBump'
             /\ \A s \in Slot : participants'[s] # None
             /\ cohort'[o] = Members'
  <2>1. state = "READY" /\ state' = state /\ participants' = participants
    BY <1>1, Zenon DEF CreateTransfer, groupVars
  <2>2. \A s \in Slot : participants[s] # None
    BY <2>1, Zenon DEF ReadyHolds, Ready
  <2>3. cohort'[o] = Members /\ Members' = Members
    BY SMTT(30), <1>1, <2>1 DEF CreateTransfer, Members, TypeOK
  <2> QED
    BY <2>1, <2>2, <2>3, Zenon DEF NeedsEpochBump
<1>2. CASE /\ Open(o) /\ epoch' = epoch /\ cohort'[o] = cohort[o]
           /\ ~\E q \in Op, w \in Worker : ReportFailure(q, w)
  <2>1. /\ NeedsEpochBump
        /\ \A s \in Slot : participants[s] # None
        /\ cohort[o] = Members
    BY <1>2, Zenon DEF CohortInv
  <2>2. CASE RefusalSweepsNothing
    <3>1. NeedsEpochBump'
      BY <1>2, <2>1, <2>2, BumpKept, Zenon
    <3>2. EpochKept
      BY <1>2, <2>1, <2>2, SameEpochStep, Zenon
    <3> QED
      BY <1>2, <2>1, <3>1, <3>2, MembersKept, Zenon
  <2>3. CASE UNCHANGED vars
    <3>1. UNCHANGED <<participants, state, epoch, lanes>>
      BY <2>3, Zenon DEF vars, groupVars
    <3>2. NeedsEpochBump' /\ Members' = Members
      BY <2>1, <3>1, Zenon DEF NeedsEpochBump, Members
    <3> QED
      BY <1>2, <2>1, <3>1, <3>2, Zenon
  <2> QED
    BY <2>2, <2>3, Zenon
<1> QED
  BY <1>1, <1>2, OpenAfter, Zenon

\* The inductive invariant of the open transfer.
TransferInv == OpInv /\ ReadyHolds /\ CohortInv

\* The invariant of transfers, under the hypothesis on refused joins.
LEMMA TransferInvariant == Spec /\ QuietRefusals => []TransferInv
<1>1. Init => TransferInv
  BY InitOps, Zenon DEF Init, TransferInv, ReadyHolds, CohortInv, Open
<1>2. TypeOK /\ TransferInv /\ [Next]_vars /\ [RefusalSweepsNothing]_vars => TransferInv'
  BY NextOps, NextReady, NextCohort, Zenon DEF TransferInv
<1> QED
  BY <1>1, <1>2, TypeCorrect, PTL DEF Spec, QuietRefusals

\* Unless a refused join swept someone, an open transfer never runs over a worker
\* that was not admitted when it was opened.
THEOREM OpenCohortsIntact == Spec /\ QuietRefusals => []OpenCohortIntact
<1>1. TransferInv => OpenCohortIntact
  BY Zenon DEF TransferInv, CohortInv, OpenCohortIntact
<1> QED
  BY <1>1, TransferInvariant, PTL

-----------------------------------------------------------------------------
(* Completion                                                              *)

\* Only members of the cohort report, the cohort fits into the slots, and an
\* operation that does not exist has no reports.
ReportInv ==
  \A o \in Op :
    /\ reported[o] \subseteq cohort[o]
    /\ IsFiniteSet(cohort[o]) /\ Cardinality(cohort[o]) <= Cardinality(Slot)
    /\ ops[o] = None => reported[o] = {}

\* There are no more members than slots.
LEMMA MembersBound == IsFiniteSet(Members) /\ Cardinality(Members) <= Cardinality(Slot)
<1> DEFINE Held == {t \in Slot : participants[t] # None}
           f == [s \in Held |-> participants[s].worker]
<1>1. IsFiniteSet(Held) /\ Cardinality(Held) <= Cardinality(Slot)
  BY FS_Subset, Zenon
<1>2. f \in Surjection(Held, Members)
  BY Zenon DEF Surjection, Members
<1>3. IsFiniteSet(Members) /\ Cardinality(Members) <= Cardinality(Held)
  BY <1>1, <1>2, FS_Surjection, Zenon
<1>4. Cardinality(Members) \in Nat /\ Cardinality(Held) \in Nat /\ Cardinality(Slot) \in Nat
  BY <1>1, <1>3, FS_CardinalityType, Zenon
<1> QED
  BY <1>1, <1>3, <1>4

\* As many reports as slots are the reports of the whole cohort.
LEMMA AllReported ==
  ASSUME NEW C, NEW R \in SUBSET C, IsFiniteSet(C),
         Cardinality(C) <= Cardinality(Slot), Cardinality(R) = Cardinality(Slot)
  PROVE  R = C
<1>1. IsFiniteSet(R) /\ Cardinality(R) <= Cardinality(C) /\ (Cardinality(R) = Cardinality(C) => R = C)
  BY FS_Subset, Zenon
<1>2. Cardinality(R) \in Nat /\ Cardinality(C) \in Nat
  BY <1>1, FS_CardinalityType, Zenon
<1> QED
  BY <1>1, <1>2

\* The empty set fits into the slots.
LEMMA EmptyFits == IsFiniteSet({}) /\ Cardinality({}) <= Cardinality(Slot)
<1>1. IsFiniteSet({}) /\ Cardinality({}) = 0 /\ Cardinality(Slot) \in Nat
  BY FS_EmptySet, FS_CardinalityType, Zenon
<1> QED
  BY <1>1

\* Each step keeps the reports within the cohort, and completes an operation only
\* when the cohort has reported.
LEMMA NextReport ==
  TypeOK /\ TransferInv /\ ReportInv /\ CompleteMeansWholeCohort /\ [Next]_vars
    => ReportInv' /\ CompleteMeansWholeCohort'
<1> SUFFICES ASSUME TypeOK, TransferInv, ReportInv, CompleteMeansWholeCohort, [Next]_vars
             PROVE  ReportInv' /\ CompleteMeansWholeCohort'
  BY Zenon
<1>1. CASE /\ UNCHANGED <<reported, cohort>>
           /\ \A o \in Op : /\ ops'[o] = None <=> ops[o] = None
                            /\ ops'[o] # None /\ ops'[o].state = "COMPLETE" => ops'[o] = ops[o]
  BY <1>1, Zenon DEF ReportInv, CompleteMeansWholeCohort
<1>2. CASE ops' = AbortedOps /\ UNCHANGED <<reported, cohort>>
  <2>1. ASSUME NEW o \in Op, o \in active, Open(o)
        PROVE  ops'[o] # None /\ ops[o] # None /\ ops'[o].state = "ABORTED"
    <3>1. ops[o] \in Operation
      BY <2>1, Zenon DEF Open, TypeOK
    <3>2. ops'[o] = [ops[o] EXCEPT !.state = "ABORTED"]
      BY <1>2, <2>1, Zenon DEF AbortedOps
    <3>3. ops'[o] \in Operation /\ ops'[o].state = "ABORTED"
      BY <3>1, <3>2, Zenon DEF Operation, OpState
    <3> QED
      BY <3>1, <3>3, Zenon
  <2>2. \A o \in Op : ~(o \in active /\ Open(o)) => ops'[o] = ops[o]
    BY <1>2, Zenon DEF AbortedOps
  <2> QED
    BY <1>1, <1>2, <2>1, <2>2, Zenon
<1>3. CASE UNCHANGED <<ops, reported, cohort>>
  BY <1>1, <1>3, Zenon
<1>4. ASSUME NEW o \in Op, DeleteTransfer(o)
      PROVE  ReportInv' /\ CompleteMeansWholeCohort'
  <2>1. /\ ops'[o] = None /\ reported'[o] = {} /\ cohort'[o] = {}
        /\ \A q \in Op : q # o => /\ ops'[q] = ops[q] /\ reported'[q] = reported[q]
                                  /\ cohort'[q] = cohort[q]
    BY <1>4, Zenon DEF DeleteTransfer, TypeOK
  <2> QED
    BY <2>1, EmptyFits, ZenonT(30) DEF ReportInv, CompleteMeansWholeCohort
<1>5. ASSUME NEW o \in Op, NEW k \in Key, CreateTransfer(o, k)
      PROVE  ReportInv' /\ CompleteMeansWholeCohort'
  <2>0. [epoch |-> epoch, state |-> "PENDING", key |-> k] \in Operation
    BY Zenon DEF Operation, OpState, TypeOK
  <2>1. /\ ops[o] = None
        /\ ops'[o] = [epoch |-> epoch, state |-> "PENDING", key |-> k]
        /\ cohort'[o] = Members /\ reported' = reported
        /\ \A q \in Op : q # o => ops'[q] = ops[q] /\ cohort'[q] = cohort[q]
    BY <1>5, Zenon DEF CreateTransfer, Members, TypeOK
  <2>2. ops'[o] \in Operation /\ ops'[o].state = "PENDING"
    BY <2>0, <2>1
  <2>3. ops'[o] # None /\ ops'[o].state # "COMPLETE"
    BY <2>2, Zenon
  <2>4. reported'[o] = {}
    BY <2>1, Zenon DEF ReportInv
  <2> QED
    BY <2>1, <2>3, <2>4, MembersBound, ZenonT(40) DEF ReportInv, CompleteMeansWholeCohort
<1>6. ASSUME NEW o \in Op, NEW w \in Worker, ReportSuccess(o, w) \/ ReportFailure(o, w)
      PROVE  ReportInv' /\ CompleteMeansWholeCohort'
  <2>1. /\ ReportAdmitted(o, w) /\ cohort' = cohort
        /\ reported' = [reported EXCEPT ![o] = reported[o] \cup {w}]
    BY <1>6, Zenon DEF ReportSuccess, ReportFailure
  <2>2. Open(o) /\ epoch # 0 /\ w \in Members
    BY <2>1, Zenon DEF ReportAdmitted, TransferInv, ReadyHolds, Members
  <2>3. w \in cohort[o]
    BY <2>2, Zenon DEF TransferInv, CohortInv
  <2>4. /\ reported'[o] = reported[o] \cup {w}
        /\ \A q \in Op : q # o => reported'[q] = reported[q]
    BY <2>1, Zenon DEF TypeOK
  <2>5. PICK st \in OpState :
          /\ ops' = Moved(o, st)
          /\ st = "COMPLETE" => Cardinality(reported'[o]) = Cardinality(Slot)
    BY <1>6, ZenonT(30) DEF ReportSuccess, ReportFailure, OpState
  <2>6. /\ ops'[o] # None /\ ops'[o].state = st
        /\ \A q \in Op : q # o => ops'[q] = ops[q]
    BY <2>2, <2>5, MovedFacts, Zenon
  <2>7. ReportInv'
    BY <2>1, <2>3, <2>4, <2>6, Zenon DEF ReportInv
  <2>8. st = "COMPLETE" => reported'[o] = cohort'[o]
    BY <2>5, <2>7, AllReported, Zenon DEF ReportInv
  <2> QED
    BY <2>1, <2>4, <2>6, <2>7, <2>8, ZenonT(30) DEF CompleteMeansWholeCohort
<1>7. ASSUME NEW j \in Joins, CreateByJoin(j) \/ RefuseJoin(j) \/ AdmitJoin(j)
      PROVE  ReportInv' /\ CompleteMeansWholeCohort'
  <2>1. (ops' = AbortedOps \/ ops' = ops) /\ UNCHANGED <<reported, cohort>>
    BY <1>7, ZenonT(30) DEF CreateByJoin, RefuseJoin, AdmitJoin, opVars
  <2> QED
    BY <1>2, <1>3, <2>1, Zenon
<1>8. CASE Refresh
  <2>1. (ops' = AbortedOps \/ ops' = ops) /\ UNCHANGED <<reported, cohort>>
    BY <1>8, ZenonT(30) DEF Refresh
  <2> QED
    BY <1>2, <1>3, <2>1, Zenon
<1>9. CASE \/ UNCHANGED vars \/ WorkerNext \/ LoseGroup \/ BootstrapNext
           \/ \E k \in Key : ExpireReservation(k)
  BY <1>3, <1>9, ZenonT(30) DEF vars, opVars, WorkerNext, RegisterWorker, ExpireWorker, LoseGroup,
     BootstrapNext, PublishBootstrap, ExpireReservation
<1> QED
  BY <1>4, <1>5, <1>6, <1>7, <1>8, <1>9, Zenon DEF Next, JoinNext, OpNext

\* Unless a refused join swept someone, a transfer completes only when every
\* worker admitted at its creation has reported success: counting the reports
\* against the number of slots is enough.
THEOREM CompletionIsUnanimous == Spec /\ QuietRefusals => []CompleteMeansWholeCohort
<1>1. Init => ReportInv /\ CompleteMeansWholeCohort
  BY EmptyFits, Zenon DEF Init, ReportInv, CompleteMeansWholeCohort
<1> QED
  BY <1>1, TypeCorrect, TransferInvariant, NextReport, PTL DEF Spec
=============================================================================
