-------------------------- MODULE FalconScanProofs --------------------------
(***************************************************************************)
(* Paid scans and keyword versions, for any number of places, versions,     *)
(* confirmations, batches and workers, however often processes die, leases  *)
(* are given up and answers come late: no confirmed keyword is paid for     *)
(* twice, a batch says what its items say, what is paid for is the version  *)
(* that the merchant's page shows, every active version passes its check,   *)
(* and the whole implements ScanLedger.                                     *)
(***************************************************************************)
EXTENDS FalconScan, TLAPS, WellFoundedInduction, FiniteSetTheorems

-----------------------------------------------------------------------------
(* Types of the tables and workers that spending depends on.                *)

TypeInv ==
    /\ batch \in [Batches -> BatchRow]
    /\ item \in [Batches -> [Positions -> ItemStates]]
    /\ paid \in [Batches -> [Positions -> 0..MaxPaid]]
    /\ worker \in [Workers -> WorkerState]

\* The first of some rows is one of them.
LEMMA FirstIsOne ==
    ASSUME NEW S \in SUBSET Nat, S # {}
    PROVE  First(S) \in S
  <1>1. PICK a \in S : \A b \in S : ~ (<<b, a>> \in OpToRel(<, Nat))
    BY NatLessThanWellFounded, WFMin
  <1>2. \A b \in S : ~ (b < a)
    BY <1>1 DEF OpToRel
  <1>3. \E x \in S : \A b \in S : x <= b
    BY <1>2
  <1>. QED  BY <1>3 DEF First

LEMMA PositionsType == Batches \subseteq Nat /\ Positions \subseteq Nat /\ 1 \in Positions
  BY ScanAssumption, PayloadsAssumption DEF Batches, Positions

LEMMA IdleType == Idle \in WorkerState
  BY ScanAssumption, PositionsType DEF Idle, WorkerState

LEMMA NoBatchType == NoBatch \in BatchRow
  BY CycleBounds DEF NoBatch, BatchRow

LEMMA CreatedType ==
    ASSUME NEW row \in BatchRow, NEW a \in 0..MaxArtifacts, NEW q \in Requests
    PROVE  [row EXCEPT !.status = "submitting", !.art = a, !.id = q] \in BatchRow
  BY DEF BatchRow

LEMMA TypeInit == Init => TypeInv
  <1>1. NoBatch \in BatchRow
    BY NoBatchType
  <1>2. "absent" \in ItemStates /\ 0 \in 0..MaxPaid
    BY ScanAssumption DEF ItemStates
  <1>. QED  BY <1>1, <1>2, IdleType DEF Init, TypeInv

LEMMA WorkerType ==
    ASSUME TypeInv, NEW w \in Workers
    PROVE  /\ worker[w] \in WorkerState /\ worker[w].k \in Positions
           /\ worker[w].todo \in SUBSET Positions /\ worker[w].b \in 0..MaxBatches
  BY DEF TypeInv, WorkerState

LEMMA TypeApproval ==
    ASSUME TypeInv, NEW a \in Artifacts, Approve(a) \/ \E q \in Requests : CreateBatch(q, a)
    PROVE  TypeInv'
  <1>1. CASE Approve(a)
    BY <1>1 DEF Approve, TypeInv
  <1>2. ASSUME NEW q \in Requests, CreateBatch(q, a) PROVE TypeInv'
    <2>1. [NoBatch EXCEPT !.status = "submitting", !.art = a, !.id = q] \in BatchRow
      <3>1. a \in 0..MaxArtifacts
        BY CycleBounds DEF Artifacts
      <3>. QED  BY <3>1, NoBatchType, CreatedType
    <2>2. [k \in Positions |-> IF k \in Cohort(artifact[a].payload) THEN "pending" ELSE "absent"]
            \in [Positions -> ItemStates]
      BY DEF ItemStates
    <2>. HIDE DEF Cohort
    <2>. QED  BY <1>2, <2>1, <2>2 DEF CreateBatch, TypeInv
  <1>. QED  BY <1>1, <1>2

\* What a transaction or a worker writes has the type of what it replaces.
LEMMA StatusType ==
    ASSUME NEW rows \in [Batches -> BatchRow], NEW b,
           NEW s \in {"submitting", "submitted", "partial", "unknown", "completed", "failed"}
    PROVE  [rows EXCEPT ![b].status = s] \in [Batches -> BatchRow]
  BY DEF BatchRow

LEMMA TokenType ==
    ASSUME NEW rows \in [Batches -> BatchRow], NEW b, NEW t \in Workers \cup {NoWorker}
    PROVE  [rows EXCEPT ![b].token = t] \in [Batches -> BatchRow]
  BY DEF BatchRow

LEMMA AgeType ==
    ASSUME NEW rows \in [Batches -> BatchRow], NEW b, NEW age \in {"fresh", "stale"}
    PROVE  [rows EXCEPT ![b].age = age] \in [Batches -> BatchRow]
  BY DEF BatchRow

LEMMA ClaimedType ==
    ASSUME NEW v \in WorkerState, NEW b \in 0..MaxBatches
    PROVE  [v EXCEPT !.b = b, !.at = "claimed"] \in WorkerState
  BY DEF WorkerState

LEMMA TypeWorkers ==
    ASSUME TypeInv, NEW w \in Workers, ClaimBatch(w) \/ WorkerStep(w)
    PROVE  TypeInv'
  <1>0. /\ worker[w] \in WorkerState /\ worker[w].k \in Positions /\ worker[w].todo \in SUBSET Positions
        /\ worker[w].accepted \in BOOLEAN /\ Idle \in WorkerState
    BY IdleType DEF TypeInv, WorkerState
  <1>1. CASE ClaimBatch(w)
    <2>. DEFINE b == First(Waiting)
    <2>1. b \in Waiting /\ Waiting \subseteq Batches
      BY <1>1, FirstIsOne, PositionsType DEF ClaimBatch, Waiting
    <2>. HIDE DEF b
    <2>2. [Idle EXCEPT !.b = b, !.at = "claimed"] \in WorkerState
      <3>1. b \in 0..MaxBatches
        BY <2>1, ScanAssumption DEF Batches
      <3>. QED  BY <1>0, <3>1, ClaimedType
    <2>3. batch' = [batch EXCEPT ![b].token = w, ![b].age = "fresh"]
      BY <1>1 DEF ClaimBatch, b
    <2>4. batch' \in [Batches -> BatchRow]
      <3>. DEFINE rows == [batch EXCEPT ![b].token = w]
      <3>1. rows \in [Batches -> BatchRow]
        BY TokenType DEF TypeInv
      <3>2. batch' = [rows EXCEPT ![b].age = "fresh"]
        BY <2>3
      <3>. HIDE DEF rows
      <3>. QED  BY <3>1, <3>2, AgeType
    <2>5. worker' = [worker EXCEPT ![w] = [Idle EXCEPT !.b = b, !.at = "claimed"]]
      BY <1>1 DEF ClaimBatch, b
    <2>6. worker' \in [Workers -> WorkerState]
      BY <2>2, <2>5 DEF TypeInv
    <2>7. UNCHANGED <<item, paid>>
      BY <1>1 DEF ClaimBatch
    <2>. QED  BY <2>4, <2>6, <2>7 DEF TypeInv
  <1>2. CASE LoadItems(w)
    <2>1. ASSUME NEW todo \in SUBSET Positions, NEW accepted \in BOOLEAN
          PROVE  [worker EXCEPT ![w].at = "next", ![w].todo = todo, ![w].accepted = accepted]
                    \in [Workers -> WorkerState]
      BY DEF TypeInv, WorkerState
    <2>2. \A b, S : Items(b, S) \in SUBSET Positions
      BY DEF Items
    <2>3. (Items(worker[w].b, Acked) # {}) \in BOOLEAN
      OBVIOUS
    <2>4. worker' \in [Workers -> WorkerState]
      <3>1. CASE Leased(w)
        <4>. DEFINE todo == Items(worker[w].b, {"pending"})
                    accepted == Items(worker[w].b, Acked) # {}
        <4>1. worker' = [worker EXCEPT ![w].at = "next", ![w].todo = todo, ![w].accepted = accepted]
          BY <1>2, <3>1 DEF LoadItems
        <4>2. todo \in SUBSET Positions /\ accepted \in BOOLEAN
          BY <2>2
        <4>. HIDE DEF todo, accepted
        <4>. QED  BY <2>1, <4>1, <4>2
      <3>2. CASE ~Leased(w)
        BY <1>0, <1>2, <3>2 DEF LoadItems, Stop, TypeInv
      <3>. QED  BY <3>1, <3>2
    <2>. QED  BY <1>2, <2>4 DEF LoadItems, TypeInv
  <1>3. CASE Heartbeat(w)
    <2>1. First(worker[w].todo) \in Positions
      <3>1. worker[w].todo # {} /\ worker[w].todo \in SUBSET Nat
        BY <1>0, <1>3, PositionsType DEF Heartbeat
      <3>. QED  BY <1>0, <3>1, FirstIsOne
    <2>2. ASSUME NEW k \in Positions
          PROVE  [worker EXCEPT ![w].at = "alive", ![w].k = k] \in [Workers -> WorkerState]
      BY DEF TypeInv, WorkerState
    <2>3. \A b : [batch EXCEPT ![b].age = "fresh"] \in [Batches -> BatchRow]
      BY DEF TypeInv, BatchRow
    <2>4. CASE Leased(w)
      <3>. DEFINE k == First(worker[w].todo)
      <3>1. /\ worker' = [worker EXCEPT ![w].at = "alive", ![w].k = k]
            /\ batch' = [batch EXCEPT ![worker[w].b].age = "fresh"]
            /\ UNCHANGED <<item, paid>>
        BY <1>3, <2>4 DEF Heartbeat
      <3>. HIDE DEF k
      <3>2. worker' \in [Workers -> WorkerState]
        BY <2>1, <2>2, <3>1 DEF k
      <3>. QED  BY <2>3, <3>1, <3>2 DEF TypeInv
    <2>5. CASE ~Leased(w)
      BY <1>0, <1>3, <2>5 DEF Heartbeat, Stop, TypeInv
    <2>. QED  BY <2>4, <2>5
  <1>4. CASE MarkItem(w)
    <2>1. [worker EXCEPT ![w].at = "asking", ![w].todo = @ \ {worker[w].k}] \in [Workers -> WorkerState]
      BY <1>0 DEF TypeInv, WorkerState
    <2>2. [item EXCEPT ![worker[w].b][worker[w].k] = "submitting"] \in [Batches -> [Positions -> ItemStates]]
      BY DEF TypeInv, ItemStates
    <2>. QED  BY <1>0, <1>4, <2>1, <2>2 DEF MarkItem, Stop, TypeInv
  <1>5. ASSUME NEW taken \in BOOLEAN, NEW answer \in {"acknowledged", "error"}, AskLocalFalcon(w, taken, answer)
        PROVE  TypeInv'
    <2>1. [worker EXCEPT ![w].at = answer] \in [Workers -> WorkerState]
      BY DEF TypeInv, WorkerState
    <2>2. paid' \in [Batches -> [Positions -> 0..MaxPaid]]
      <3>1. CASE ~taken
        BY <1>5, <3>1 DEF AskLocalFalcon, TypeInv
      <3>2. CASE taken
        <4>. DEFINE b == worker[w].b
                    k == worker[w].k
        <4>1. paid' = [paid EXCEPT ![b][k] = @ + 1] /\ paid[b][k] < MaxPaid
          BY <1>5, <3>2 DEF AskLocalFalcon
        <4>2. k \in Positions
          BY <1>0
        <4>. HIDE DEF b, k
        <4>3. CASE b \in Batches
          <5>1. paid[b][k] + 1 \in 0..MaxPaid
            BY <4>1, <4>2, <4>3, ScanAssumption DEF TypeInv
          <5>. QED  BY <4>1, <5>1 DEF TypeInv
        <4>4. CASE b \notin Batches
          BY <4>1, <4>4 DEF TypeInv
        <4>. QED  BY <4>3, <4>4
      <3>. QED  BY <3>1, <3>2
    <2>. QED  BY <1>5, <2>1, <2>2 DEF AskLocalFalcon, TypeInv
  <1>6. CASE RecordError(w)
    <2>1. [item EXCEPT ![worker[w].b][worker[w].k] = "unknown"] \in [Batches -> [Positions -> ItemStates]]
      BY DEF TypeInv, ItemStates
    <2>. DEFINE s == AfterError(worker[w].accepted)
                rows == [batch EXCEPT ![worker[w].b].status = s]
    <2>2. s \in {"partial", "unknown"}
      BY DEF AfterError
    <2>3. rows \in [Batches -> BatchRow]
      <3>. HIDE DEF s
      <3>. QED  BY <2>2, StatusType DEF TypeInv
    <2>4. \/ batch' = batch
          \/ batch' = [rows EXCEPT ![worker[w].b].age = "fresh"]
      BY <1>6 DEF RecordError
    <2>5. batch' \in [Batches -> BatchRow]
      <3>. HIDE DEF rows
      <3>1. [rows EXCEPT ![worker[w].b].age = "fresh"] \in [Batches -> BatchRow]
        BY <2>3, AgeType
      <3>2. batch \in [Batches -> BatchRow]
        BY DEF TypeInv
      <3>. QED  BY <2>4, <3>1, <3>2
    <2>. QED  BY <1>0, <1>6, <2>1, <2>5 DEF RecordError, Stop, TypeInv
  <1>7. CASE RecordKey(w)
    <2>1. [item EXCEPT ![worker[w].b][worker[w].k] = "submitted"] \in [Batches -> [Positions -> ItemStates]]
      BY DEF TypeInv, ItemStates
    <2>2. [worker EXCEPT ![w].at = "next", ![w].accepted = TRUE] \in [Workers -> WorkerState]
      BY DEF TypeInv, WorkerState
    <2>. QED  BY <1>0, <1>7, <2>1, <2>2 DEF RecordKey, Stop, TypeInv
  <1>8. CASE FinishBatch(w)
    <2>. DEFINE rows == [batch EXCEPT ![worker[w].b].status = "submitted"]
    <2>1. rows \in [Batches -> BatchRow]
      BY StatusType DEF TypeInv
    <2>2. \/ batch' = batch
          \/ batch' = [rows EXCEPT ![worker[w].b].age = "fresh"]
      BY <1>8 DEF FinishBatch
    <2>3. batch' \in [Batches -> BatchRow]
      <3>. HIDE DEF rows
      <3>1. [rows EXCEPT ![worker[w].b].age = "fresh"] \in [Batches -> BatchRow]
        BY <2>1, AgeType
      <3>2. batch \in [Batches -> BatchRow]
        BY DEF TypeInv
      <3>. QED  BY <2>2, <3>1, <3>2
    <2>. QED  BY <1>0, <1>8, <2>3 DEF FinishBatch, Stop, TypeInv
  <1>. QED  BY <1>1, <1>2, <1>3, <1>4, <1>5, <1>6, <1>7, <1>8 DEF WorkerStep

LEMMA TypeBatches ==
    ASSUME TypeInv, NEW b \in Batches,
           \/ BatchAges(b) \/ GiveUpBatch(b)
           \/ \E k \in Positions : Readback(b, k)
           \/ ConfirmNotSubmitted(b) \/ CloseWithoutRetry(b)
    PROVE  TypeInv'
  <1>0. batch \in [Batches -> BatchRow] /\ item \in [Batches -> [Positions -> ItemStates]]
    BY DEF TypeInv
  <1>1. CASE BatchAges(b)
    <2>1. batch' \in [Batches -> BatchRow]
      BY <1>0, <1>1, AgeType DEF BatchAges
    <2>. QED  BY <1>1, <2>1 DEF BatchAges, TypeInv
  <1>2. CASE GiveUpBatch(b)
    <2>. DEFINE s == AfterError(Items(b, Acked) # {})
                first == [batch EXCEPT ![b].status = s]
                second == [first EXCEPT ![b].token = NoWorker]
    <2>1. s \in {"partial", "unknown"}
      BY DEF AfterError
    <2>2. batch' = [second EXCEPT ![b].age = "fresh"]
      BY <1>2 DEF GiveUpBatch
    <2>. HIDE DEF s
    <2>3. first \in [Batches -> BatchRow]
      BY <1>0, <2>1, StatusType
    <2>. HIDE DEF first
    <2>4. second \in [Batches -> BatchRow]
      BY <2>3, TokenType
    <2>. HIDE DEF second
    <2>5. batch' \in [Batches -> BatchRow]
      BY <2>2, <2>4, AgeType
    <2>6. InDoubt(b) \in [Positions -> ItemStates]
      BY <1>0 DEF InDoubt, ItemStates
    <2>. QED  BY <1>2, <2>5, <2>6 DEF GiveUpBatch, TypeInv
  <1>3. ASSUME NEW k \in Positions, Readback(b, k) PROVE TypeInv'
    <2>. DEFINE rows == [batch EXCEPT ![b].status = "completed"]
    <2>1. rows \in [Batches -> BatchRow]
      BY <1>0, StatusType
    <2>2. \/ batch' = batch
          \/ batch' = [rows EXCEPT ![b].age = "fresh"]
      BY <1>3 DEF Readback
    <2>. HIDE DEF rows
    <2>3. [rows EXCEPT ![b].age = "fresh"] \in [Batches -> BatchRow]
      BY <2>1, AgeType
    <2>4. batch' \in [Batches -> BatchRow]
      BY <1>0, <2>2, <2>3
    <2>5. [item EXCEPT ![b][k] = "completed"] \in [Batches -> [Positions -> ItemStates]]
      BY <1>0 DEF ItemStates
    <2>. QED  BY <1>3, <2>4, <2>5 DEF Readback, TypeInv
  <1>4. ASSUME NEW states, Closed(b, states) PROVE TypeInv'
    <2>. DEFINE rows == [batch EXCEPT ![b].status = "failed"]
    <2>1. rows \in [Batches -> BatchRow]
      BY <1>0, StatusType
    <2>2. batch' = [rows EXCEPT ![b].token = NoWorker]
      BY <1>4 DEF Closed
    <2>. HIDE DEF rows
    <2>3. batch' \in [Batches -> BatchRow]
      BY <2>1, <2>2, TokenType
    <2>4. [k \in Positions |-> IF item[b][k] \in states THEN "failed" ELSE item[b][k]]
            \in [Positions -> ItemStates]
      BY <1>0 DEF ItemStates
    <2>. QED  BY <1>4, <2>3, <2>4 DEF Closed, TypeInv
  <1>. QED  BY <1>1, <1>2, <1>3, <1>4 DEF ConfirmNotSubmitted, CloseWithoutRetry

LEMMA TypeSync ==
    ASSUME TypeInv,
           SyncStart \/ SyncFails \/ \E found \in BOOLEAN, done \in SUBSET Awaited : SyncFinish(found, done)
    PROVE  TypeInv'
  <1>0. batch \in [Batches -> BatchRow] /\ item \in [Batches -> [Positions -> ItemStates]]
    BY DEF TypeInv
  <1>1. CASE SyncStart \/ SyncFails
    BY <1>1 DEF SyncStart, SyncFails, TypeInv
  <1>2. ASSUME NEW found \in BOOLEAN, NEW done \in SUBSET Awaited, SyncFinish(found, done)
        PROVE  TypeInv'
    <2>1. CASE SameLifecycle
      <3>1. \A b \in Batches : [batch[b] EXCEPT !.status = "completed", !.age = "fresh"] \in BatchRow
        BY <1>0 DEF BatchRow
      <3>2. batch' = [b \in Batches |->
                    IF batch[b].status \in UnresolvedStates \ {"unknown"} /\ AllCompleted(item'[b])
                      THEN [batch[b] EXCEPT !.status = "completed", !.age = "fresh"] ELSE batch[b]]
        BY <1>2, <2>1 DEF SyncFinish
      <3>3. batch' \in [Batches -> BatchRow]
        BY <1>0, <3>1, <3>2
      <3>4. item' \in [Batches -> [Positions -> ItemStates]]
        <4>1. item' = [b \in Batches |-> [k \in Positions |->
                         IF <<b, k>> \in done THEN "completed" ELSE item[b][k]]]
          BY <1>2, <2>1 DEF SyncFinish
        <4>2. \A b \in Batches, k \in Positions : item[b][k] \in ItemStates
          BY <1>0
        <4>3. "completed" \in ItemStates
          BY DEF ItemStates
        <4>. HIDE DEF ItemStates
        <4>. QED  BY <4>1, <4>2, <4>3
      <3>. QED  BY <1>2, <3>3, <3>4 DEF SyncFinish, TypeInv
    <2>2. CASE ~SameLifecycle
      BY <1>2, <2>2 DEF SyncFinish, TypeInv
    <2>. QED  BY <2>1, <2>2
  <1>. QED  BY <1>1, <1>2

LEMMA TypeCrash == ASSUME TypeInv, Crash PROVE TypeInv'
  <1>1. worker' \in [Workers -> WorkerState]
    BY IdleType DEF Crash
  <1>2. paid' \in [Batches -> [Positions -> 0..MaxPaid]]
    <2>1. PICK W \in SUBSET {w \in Workers : worker[w].at = "asking"} :
             paid' = [b \in Batches |-> [k \in Positions |->
                        IF \E w \in W : worker[w].b = b /\ worker[w].k = k /\ paid[b][k] < MaxPaid
                          THEN paid[b][k] + 1 ELSE paid[b][k]]]
      BY DEF Crash
    <2>2. \A b \in Batches, k \in Positions :
             /\ paid[b][k] \in 0..MaxPaid
             /\ paid[b][k] < MaxPaid => paid[b][k] + 1 \in 0..MaxPaid
      BY ScanAssumption DEF TypeInv
    <2>. QED  BY <2>1, <2>2
  <1>. QED  BY <1>1, <1>2 DEF Crash, TypeInv

\* The steps that touch nothing that spending depends on, or only end the processes.
Aside ==
    /\ UNCHANGED <<batch, item, paid>>
    /\ worker' = worker \/ worker' = [w \in Workers |-> Idle]

LEMMA AsideSteps ==
    ASSUME \/ CycleStep
           \/ PollDiesTriggering /\ worker' = [w \in Workers |-> Idle] /\ sync' = NoSync
                /\ UNCHANGED <<approved, measured, batch, item, paid, synced>>
           \/ UNCHANGED vars
    PROVE  Aside
  BY DEF CycleStep, scanVars, vars, Aside

LEMMA TypeAside == ASSUME TypeInv, Aside PROVE TypeInv'
  BY IdleType DEF Aside, TypeInv

LEMMA TypeNext == ASSUME TypeInv, [Next]_vars PROVE TypeInv'
  BY TypeApproval, TypeWorkers, TypeBatches, TypeSync, TypeCrash, AsideSteps, TypeAside DEF Next

\* The types hold in every state, whatever fails and in whatever order.
THEOREM ScanTypesKept == Spec => []TypeInv
  <1>1. Init => TypeInv
    BY TypeInit
  <1>2. TypeInv /\ [Next]_vars => TypeInv'
    BY TypeNext
  <1>. QED  BY <1>1, <1>2, PTL DEF Spec

-----------------------------------------------------------------------------
(* The invariant.  PaidOnce is not inductive: why a second request is       *)
(* impossible is that an item in hand was never asked for before, by anyone.*)

Asking(w, b, k) == worker[w].at = "asking" /\ worker[w].b = b /\ worker[w].k = k

\* What waits was never asked for, and nobody is about to ask.
WaitingUnpaid ==
    \A b \in Batches, k \in Positions :
        item[b][k] \in {"absent", "pending"} =>
            paid[b][k] = 0 /\ \A w \in Workers : ~Asking(w, b, k)

\* Who is about to ask is alone, and the first.
AskedAlone ==
    \A b \in Batches, k \in Positions, w \in Workers :
        Asking(w, b, k) =>
            paid[b][k] = 0 /\ \A v \in Workers : Asking(v, b, k) => v = w

AtMostOnce == \A b \in Batches, k \in Positions : paid[b][k] <= 1

\* A batch that is not there yet has no items.
AbsentEmpty ==
    \A b \in Batches : batch[b].status = "absent" => \A k \in Positions : item[b][k] = "absent"

OneBatchEach ==
    \A b, c \in Batches : batch[b].id = batch[c].id /\ batch[b].id # NoRequestId => b = c

IInv == WaitingUnpaid /\ AskedAlone /\ AtMostOnce /\ AbsentEmpty /\ OneBatchEach

LEMMA SafeInit == Init => IInv
  <1>1. ASSUME Init PROVE IInv
    <2>0. \A b \in Batches : batch[b].status = "absent" /\ batch[b].id = NoRequestId
      BY <1>1 DEF Init, NoBatch
    <2>1. \A b \in Batches, k \in Positions : item[b][k] = "absent" /\ paid[b][k] = 0
      BY <1>1 DEF Init
    <2>2. \A w \in Workers : worker[w].at = "idle"
      BY <1>1 DEF Init, Idle
    <2>3. WaitingUnpaid
      BY <2>1, <2>2 DEF WaitingUnpaid, Asking
    <2>4. AskedAlone
      BY <2>2 DEF AskedAlone, Asking
    <2>5. AtMostOnce
      BY <2>1 DEF AtMostOnce
    <2>6. AbsentEmpty /\ OneBatchEach
      BY <2>0, <2>1 DEF AbsentEmpty, OneBatchEach
    <2>. QED  BY <2>3, <2>4, <2>5, <2>6 DEF IInv
  <1>. QED  BY <1>1

\* What every step but a confirmation keeps of a row: its confirmation stays, nothing
\* returns to the queue and nothing comes into being.
RowForward(b) ==
    /\ batch'[b].id = batch[b].id
    /\ batch'[b].status = "absent" => batch[b].status = "absent"

ItemForward(b, k) ==
    /\ item'[b][k] \in {"absent", "pending"} => item'[b][k] = item[b][k]
    /\ item[b][k] = "absent" => item'[b][k] = "absent"

Forward == \A b \in Batches : RowForward(b) /\ \A k \in Positions : ItemForward(b, k)

\* No request is taken and nobody begins to ask.
Quiet ==
    /\ paid' = paid
    /\ \A w \in Workers, b \in Batches, k \in Positions : Asking(w, b, k)' => Asking(w, b, k)

LEMMA ForwardRows == ASSUME IInv, Forward PROVE AbsentEmpty' /\ OneBatchEach'
  <1>1. \A b \in Batches : RowForward(b) /\ \A k \in Positions : ItemForward(b, k)
    BY DEF Forward
  <1>2. AbsentEmpty'
    BY <1>1 DEF IInv, AbsentEmpty, RowForward, ItemForward
  <1>3. OneBatchEach'
    BY <1>1 DEF IInv, OneBatchEach, RowForward
  <1>. QED  BY <1>2, <1>3

LEMMA QuietKeeps == ASSUME IInv, Forward, Quiet PROVE IInv'
  <1>1. ASSUME NEW b \in Batches, NEW k \in Positions, item'[b][k] \in {"absent", "pending"}
        PROVE  paid'[b][k] = 0 /\ \A w \in Workers : ~Asking(w, b, k)'
    <2>1. item[b][k] \in {"absent", "pending"}
      BY <1>1 DEF Forward, ItemForward
    <2>2. paid[b][k] = 0 /\ \A w \in Workers : ~Asking(w, b, k)
      BY <2>1 DEF IInv, WaitingUnpaid
    <2>. QED  BY <2>2 DEF Quiet
  <1>2. AskedAlone'
    BY DEF IInv, AskedAlone, Quiet
  <1>3. AtMostOnce'
    BY DEF IInv, AtMostOnce, Quiet
  <1>4. WaitingUnpaid'
    BY <1>1 DEF WaitingUnpaid
  <1>. QED  BY <1>2, <1>3, <1>4, ForwardRows DEF IInv

\* A step that leaves the batches and the items alone, or one of the two.
LEMMA StillForward == ASSUME UNCHANGED <<batch, item>> PROVE Forward
  BY DEF Forward, RowForward, ItemForward

\* A worker that stops, or moves to another place than the request, asks for nothing.
LEMMA MovesQuietly ==
    ASSUME TypeInv, NEW w \in Workers, UNCHANGED paid,
           \A v \in Workers \ {w} : worker'[v] = worker[v],
           worker'[w].at # "asking"
    PROVE  Quiet
  BY DEF Quiet, Asking

LEMMA StillQuiet == ASSUME UNCHANGED <<paid, worker>> PROVE Quiet
  BY DEF Quiet, Asking

LEMMA SafeCreate ==
    ASSUME TypeInv, IInv, NEW a \in Artifacts, NEW q \in Requests, CreateBatch(q, a)
    PROVE  IInv'
  <1>. DEFINE n == First(FreeBatches)
              row == [NoBatch EXCEPT !.status = "submitting", !.art = a, !.id = q]
              new == [k \in Positions |-> IF k \in Cohort(artifact[a].payload) THEN "pending" ELSE "absent"]
  <1>1. n \in Batches /\ batch[n].status = "absent"
    <2>1. FreeBatches \subseteq Batches /\ FreeBatches # {}
      BY DEF CreateBatch, FreeBatches
    <2>2. n \in FreeBatches
      BY <2>1, FirstIsOne, PositionsType
    <2>. QED  BY <2>2 DEF FreeBatches
  <1>2. /\ batch' = [batch EXCEPT ![n] = row] /\ item' = [item EXCEPT ![n] = new]
        /\ UNCHANGED <<paid, worker>> /\ ~Known(q)
    BY DEF CreateBatch
  <1>3. row.status = "submitting" /\ row.id = q
    BY DEF NoBatch
  <1>4. \A k \in Positions : item[n][k] = "absent"
    BY <1>1 DEF IInv, AbsentEmpty
  <1>. HIDE DEF n, row, new
  <1>5. \A b \in Batches \ {n} : batch'[b] = batch[b] /\ item'[b] = item[b]
    BY <1>2
  <1>6. batch'[n].id = q /\ batch'[n].status = "submitting"
    BY <1>1, <1>2, <1>3 DEF TypeInv
  <1>7. AbsentEmpty'
    BY <1>5, <1>6 DEF IInv, AbsentEmpty
  <1>8. OneBatchEach'
    BY <1>2, <1>5, <1>6 DEF IInv, OneBatchEach, Known
  <1>9. WaitingUnpaid'
    <2>1. ASSUME NEW b \in Batches, NEW k \in Positions, item'[b][k] \in {"absent", "pending"}
          PROVE  paid'[b][k] = 0 /\ \A w \in Workers : ~Asking(w, b, k)'
      <3>1. item[b][k] \in {"absent", "pending"}
        BY <1>4, <1>5, <2>1
      <3>. QED  BY <1>2, <3>1 DEF IInv, WaitingUnpaid, Asking
    <2>. QED  BY <2>1 DEF WaitingUnpaid
  <1>10. AskedAlone' /\ AtMostOnce'
    BY <1>2 DEF IInv, AskedAlone, AtMostOnce, Asking
  <1>. QED  BY <1>7, <1>8, <1>9, <1>10 DEF IInv

\* The worker takes an item in hand in the transaction that finds it pending.
LEMMA SafeMark ==
    ASSUME TypeInv, IInv, NEW w \in Workers, MarkItem(w)
    PROVE  IInv'
  <1>. DEFINE b == worker[w].b
              k == worker[w].k
  <1>0. k \in Positions /\ UNCHANGED <<batch, paid>>
    BY WorkerType DEF MarkItem
  <1>1. CASE Leased(w) /\ item[b][k] = "pending"
    <2>1. /\ item' = [item EXCEPT ![b][k] = "submitting"]
          /\ worker' = [worker EXCEPT ![w].at = "asking", ![w].todo = @ \ {k}]
      BY <1>1 DEF MarkItem
    <2>2. worker'[w].b = b /\ worker'[w].k = k
      BY <2>1 DEF TypeInv, WorkerState
    <2>3. \A v \in Workers \ {w} : worker'[v] = worker[v]
      BY <2>1 DEF TypeInv
    <2>. HIDE DEF b, k
    <2>4. Forward
      <3>1. \A c \in Batches, j \in Positions :
               \/ item'[c][j] = item[c][j]
               \/ c = b /\ j = k /\ item'[c][j] = "submitting"
        BY <1>0, <2>1 DEF TypeInv
      <3>. QED  BY <1>0, <1>1, <3>1 DEF Forward, RowForward, ItemForward
    <2>5. b \in Batches => item'[b][k] = "submitting"
      BY <1>0, <2>1 DEF TypeInv
    <2>6. \A v \in Workers, c \in Batches, j \in Positions :
             Asking(v, c, j)' => Asking(v, c, j) \/ (v = w /\ c = b /\ j = k)
      BY <2>2, <2>3 DEF Asking
    <2>7. b \in Batches => paid[b][k] = 0 /\ \A v \in Workers : ~Asking(v, b, k)
      BY <1>0, <1>1 DEF IInv, WaitingUnpaid
    <2>8. WaitingUnpaid'
      <3>1. ASSUME NEW c \in Batches, NEW j \in Positions, item'[c][j] \in {"absent", "pending"}
            PROVE  paid'[c][j] = 0 /\ \A v \in Workers : ~Asking(v, c, j)'
        <4>1. item[c][j] \in {"absent", "pending"} /\ ~(c = b /\ j = k)
          BY <2>4, <2>5, <3>1 DEF Forward, ItemForward
        <4>. QED  BY <1>0, <2>6, <4>1 DEF IInv, WaitingUnpaid
      <3>. QED  BY <3>1 DEF WaitingUnpaid
    <2>9. AskedAlone'
      <3>1. ASSUME NEW c \in Batches, NEW j \in Positions, NEW v \in Workers, Asking(v, c, j)'
            PROVE  paid'[c][j] = 0 /\ \A u \in Workers : Asking(u, c, j)' => u = v
        BY <1>0, <2>6, <2>7, <3>1 DEF IInv, AskedAlone
      <3>. QED  BY <3>1 DEF AskedAlone
    <2>10. AtMostOnce'
      BY <1>0 DEF IInv, AtMostOnce
    <2>. QED  BY <2>4, <2>8, <2>9, <2>10, ForwardRows DEF IInv
  <1>2. CASE ~(Leased(w) /\ item[b][k] = "pending")
    <2>1. worker' = [worker EXCEPT ![w] = Idle] /\ item' = item
      BY <1>2 DEF MarkItem, Stop
    <2>2. Quiet
      BY <1>0, <2>1, MovesQuietly DEF TypeInv, Idle
    <2>. QED  BY <1>0, <2>1, <2>2, StillForward, QuietKeeps
  <1>. QED  BY <1>1, <1>2

\* The request that is taken is the first, and the worker does not ask again.
LEMMA SafeAsk ==
    ASSUME TypeInv, IInv, NEW w \in Workers, NEW taken \in BOOLEAN,
           NEW answer \in {"acknowledged", "error"}, AskLocalFalcon(w, taken, answer)
    PROVE  IInv'
  <1>. DEFINE b == worker[w].b
              k == worker[w].k
  <1>1. /\ worker' = [worker EXCEPT ![w].at = answer] /\ worker[w].at = "asking"
        /\ UNCHANGED <<batch, item>> /\ k \in Positions
    BY WorkerType DEF AskLocalFalcon
  <1>2. /\ worker'[w].at # "asking"
        /\ \A v \in Workers \ {w} : worker'[v] = worker[v]
    BY <1>1 DEF TypeInv, WorkerState
  <1>3. Forward
    BY <1>1, StillForward
  <1>4. CASE ~taken
    <2>1. UNCHANGED paid
      BY <1>4 DEF AskLocalFalcon
    <2>. QED  BY <1>2, <1>3, <2>1, MovesQuietly, QuietKeeps
  <1>5. CASE taken
    <2>1. paid' = [paid EXCEPT ![b][k] = @ + 1]
      BY <1>5 DEF AskLocalFalcon
    <2>2. Asking(w, b, k)
      BY <1>1 DEF Asking
    <2>. HIDE DEF b, k
    <2>3. b \in Batches => paid[b][k] = 0 /\ item[b][k] \notin {"absent", "pending"}
                             /\ \A v \in Workers : Asking(v, b, k) => v = w
      BY <1>1, <2>2 DEF IInv, AskedAlone, WaitingUnpaid
    <2>4. \A c \in Batches, j \in Positions :
             \/ paid'[c][j] = paid[c][j]
             \/ c = b /\ j = k /\ paid'[c][j] = 1
      BY <1>1, <2>1, <2>3 DEF TypeInv
    <2>5. \A v \in Workers, c \in Batches, j \in Positions :
             Asking(v, c, j)' => Asking(v, c, j) /\ v # w
      BY <1>2 DEF Asking
    <2>6. WaitingUnpaid'
      <3>1. ASSUME NEW c \in Batches, NEW j \in Positions, item'[c][j] \in {"absent", "pending"}
            PROVE  paid'[c][j] = 0 /\ \A v \in Workers : ~Asking(v, c, j)'
        <4>1. item[c][j] \in {"absent", "pending"}
          BY <1>1, <3>1
        <4>2. paid[c][j] = 0 /\ \A v \in Workers : ~Asking(v, c, j)
          BY <4>1 DEF IInv, WaitingUnpaid
        <4>3. ~(c = b /\ j = k)
          BY <2>3, <4>1
        <4>. QED  BY <2>4, <2>5, <4>2, <4>3
      <3>. QED  BY <3>1 DEF WaitingUnpaid
    <2>7. AskedAlone'
      <3>1. ASSUME NEW c \in Batches, NEW j \in Positions, NEW v \in Workers, Asking(v, c, j)'
            PROVE  paid'[c][j] = 0 /\ \A u \in Workers : Asking(u, c, j)' => u = v
        <4>1. Asking(v, c, j) /\ v # w
          BY <2>5, <3>1
        <4>2. paid[c][j] = 0 /\ \A u \in Workers : Asking(u, c, j) => u = v
          BY <4>1 DEF IInv, AskedAlone
        <4>3. ~(c = b /\ j = k)
          BY <2>3, <4>1
        <4>. QED  BY <2>4, <2>5, <4>2, <4>3
      <3>. QED  BY <3>1 DEF AskedAlone
    <2>8. AtMostOnce'
      BY <2>4 DEF IInv, AtMostOnce
    <2>. QED  BY <1>3, <2>6, <2>7, <2>8, ForwardRows DEF IInv
  <1>. QED  BY <1>4, <1>5

\* A request that was on its way may be taken after all; nobody remembers it, but its
\* item is not in the queue.
LEMMA SafeCrash == ASSUME TypeInv, IInv, Crash PROVE IInv'
  <1>1. PICK W \in SUBSET {w \in Workers : worker[w].at = "asking"} :
           paid' = [b \in Batches |-> [k \in Positions |->
                      IF \E w \in W : worker[w].b = b /\ worker[w].k = k /\ paid[b][k] < MaxPaid
                        THEN paid[b][k] + 1 ELSE paid[b][k]]]
    BY DEF Crash
  <1>2. worker' = [w \in Workers |-> Idle] /\ UNCHANGED <<batch, item>>
    BY DEF Crash
  <1>3. \A w \in Workers, b \in Batches, k \in Positions : ~Asking(w, b, k)'
    BY <1>2 DEF Asking, Idle
  <1>4. \A b \in Batches, k \in Positions :
           \/ paid'[b][k] = paid[b][k]
           \/ paid'[b][k] = paid[b][k] + 1 /\ \E w \in Workers : Asking(w, b, k)
    BY <1>1 DEF Asking
  <1>5. AtMostOnce'
    BY <1>4 DEF IInv, AtMostOnce, AskedAlone
  <1>6. AskedAlone'
    BY <1>3 DEF AskedAlone
  <1>7. WaitingUnpaid'
    BY <1>2, <1>3, <1>4 DEF IInv, WaitingUnpaid
  <1>. QED  BY <1>2, <1>5, <1>6, <1>7, StillForward, ForwardRows DEF IInv

\* A row that exists keeps its confirmation and goes on existing, whichever of its
\* other columns is written.
LEMMA AgeForward ==
    ASSUME TypeInv, NEW b, NEW g, batch' = [batch EXCEPT ![b].age = g]
    PROVE  \A c \in Batches : RowForward(c)
  BY DEF RowForward, TypeInv, BatchRow

LEMMA TokenForward ==
    ASSUME TypeInv, NEW b, NEW t, NEW g, batch' = [batch EXCEPT ![b].token = t, ![b].age = g]
    PROVE  \A c \in Batches : RowForward(c)
  BY DEF RowForward, TypeInv, BatchRow

LEMMA StatusForward ==
    ASSUME TypeInv, NEW b, NEW s, s # "absent", NEW g, batch' = [batch EXCEPT ![b].status = s, ![b].age = g]
    PROVE  \A c \in Batches : RowForward(c)
  BY DEF RowForward, TypeInv, BatchRow

LEMMA SameForward == ASSUME batch' = batch PROVE \A c \in Batches : RowForward(c)
  BY DEF RowForward

LEMMA SafeWorkers ==
    ASSUME TypeInv, IInv, NEW w \in Workers,
           \/ ClaimBatch(w) \/ LoadItems(w) \/ Heartbeat(w)
           \/ RecordError(w) \/ RecordKey(w) \/ FinishBatch(w)
    PROVE  IInv'
  <1>. DEFINE b == worker[w].b
              k == worker[w].k
  <1>1. Quiet
    <2>1. UNCHANGED paid
      BY DEF ClaimBatch, LoadItems, Heartbeat, RecordError, RecordKey, FinishBatch
    <2>. DEFINE Elsewhere == /\ worker'[w].at # "asking"
                             /\ \A u \in Workers \ {w} : worker'[u] = worker[u]
    <2>2. ASSUME NEW new, new.at # "asking", worker' = [worker EXCEPT ![w] = new] PROVE Elsewhere
      BY <2>2 DEF TypeInv
    <2>3. worker' = [worker EXCEPT ![w] = Idle] => Elsewhere
      <3>1. Idle.at # "asking"
        BY DEF Idle
      <3>. QED  BY <2>2, <3>1
    <2>4. ASSUME ClaimBatch(w) PROVE Elsewhere
      <3>. DEFINE v == [Idle EXCEPT !.b = First(Waiting), !.at = "claimed"]
      <3>1. v.at = "claimed"
        BY DEF Idle
      <3>2. worker' = [worker EXCEPT ![w] = v]
        BY <2>4 DEF ClaimBatch
      <3>3. v.at # "asking"
        BY <3>1
      <3>. HIDE DEF v, Elsewhere
      <3>. QED  BY <2>2, <3>2, <3>3
    <2>5. ASSUME LoadItems(w) PROVE Elsewhere
      <3>. DEFINE todo == Items(worker[w].b, {"pending"})
                  accepted == Items(worker[w].b, Acked) # {}
      <3>1. \/ worker' = [worker EXCEPT ![w] = Idle]
            \/ worker' = [worker EXCEPT ![w].at = "next", ![w].todo = todo, ![w].accepted = accepted]
        BY <2>5 DEF LoadItems, Stop
      <3>. HIDE DEF todo, accepted
      <3>. QED  BY <2>3, <3>1 DEF TypeInv, WorkerState
    <2>6. ASSUME Heartbeat(w) PROVE Elsewhere
      <3>. DEFINE j == First(worker[w].todo)
      <3>1. \/ worker' = [worker EXCEPT ![w] = Idle]
            \/ worker' = [worker EXCEPT ![w].at = "alive", ![w].k = j]
        BY <2>6 DEF Heartbeat, Stop
      <3>. HIDE DEF j
      <3>. QED  BY <2>3, <3>1 DEF TypeInv, WorkerState
    <2>7. ASSUME RecordKey(w) PROVE Elsewhere
      <3>1. \/ worker' = [worker EXCEPT ![w] = Idle]
            \/ worker' = [worker EXCEPT ![w].at = "next", ![w].accepted = TRUE]
        BY <2>7 DEF RecordKey, Stop
      <3>. QED  BY <2>3, <3>1 DEF TypeInv, WorkerState
    <2>8. ASSUME RecordError(w) \/ FinishBatch(w) PROVE Elsewhere
      <3>1. worker' = [worker EXCEPT ![w] = Idle]
        BY <2>8 DEF RecordError, FinishBatch, Stop
      <3>. QED  BY <2>3, <3>1
    <2>9. Elsewhere
      <3>. HIDE DEF Elsewhere
      <3>. QED  BY <2>4, <2>5, <2>6, <2>7, <2>8
    <2>. QED  BY <2>1, <2>9, MovesQuietly
  <1>2. \A c \in Batches : RowForward(c)
    <2>1. CASE ClaimBatch(w)
      <3>. DEFINE n == First(Waiting)
      <3>1. batch' = [batch EXCEPT ![n].token = w, ![n].age = "fresh"]
        BY <2>1 DEF ClaimBatch
      <3>. HIDE DEF n
      <3>. QED  BY <3>1, TokenForward
    <2>2. CASE LoadItems(w) \/ RecordKey(w)
      <3>1. batch' = batch
        BY <2>2 DEF LoadItems, RecordKey
      <3>. QED  BY <3>1, SameForward
    <2>3. CASE Heartbeat(w)
      <3>1. batch' = batch \/ batch' = [batch EXCEPT ![b].age = "fresh"]
        BY <2>3 DEF Heartbeat
      <3>. HIDE DEF b
      <3>. QED  BY <3>1, SameForward, AgeForward
    <2>4. CASE RecordError(w)
      <3>. DEFINE s == AfterError(worker[w].accepted)
      <3>1. batch' = batch \/ batch' = [batch EXCEPT ![b].status = s, ![b].age = "fresh"]
        BY <2>4 DEF RecordError
      <3>2. s # "absent"
        BY DEF AfterError
      <3>. HIDE DEF b, s
      <3>. QED  BY <3>1, <3>2, SameForward, StatusForward
    <2>5. CASE FinishBatch(w)
      <3>1. batch' = batch \/ batch' = [batch EXCEPT ![b].status = "submitted", ![b].age = "fresh"]
        BY <2>5 DEF FinishBatch
      <3>. HIDE DEF b
      <3>. QED  BY <3>1, SameForward, StatusForward
    <2>. QED  BY <2>1, <2>2, <2>3, <2>4, <2>5
  <1>3. \A c \in Batches, j \in Positions : ItemForward(c, j)
    <2>1. CASE ClaimBatch(w) \/ LoadItems(w) \/ Heartbeat(w) \/ FinishBatch(w)
      BY <2>1 DEF ClaimBatch, LoadItems, Heartbeat, FinishBatch, ItemForward
    <2>2. ASSUME item[b][k] = "submitting", NEW s \in {"unknown", "submitted"},
                 item' = [item EXCEPT ![b][k] = s]
          PROVE  \A c \in Batches, j \in Positions : ItemForward(c, j)
      <3>. HIDE DEF b, k
      <3>. QED  BY <2>2 DEF ItemForward, TypeInv
    <2>3. CASE item' = item
      BY <2>3 DEF ItemForward
    <2>4. CASE RecordError(w)
      BY <2>2, <2>3, <2>4 DEF RecordError
    <2>5. CASE RecordKey(w)
      BY <2>2, <2>3, <2>5 DEF RecordKey
    <2>. QED  BY <2>1, <2>4, <2>5
  <1>. QED  BY <1>1, <1>2, <1>3, QuietKeeps DEF Forward

LEMMA SafeBatches ==
    ASSUME TypeInv, IInv, NEW b \in Batches,
           \/ BatchAges(b) \/ GiveUpBatch(b)
           \/ \E k \in Positions : Readback(b, k)
           \/ ConfirmNotSubmitted(b) \/ CloseWithoutRetry(b)
    PROVE  IInv'
  <1>1. Quiet
    <2>1. UNCHANGED <<paid, worker>>
      BY DEF BatchAges, GiveUpBatch, Readback, ConfirmNotSubmitted, CloseWithoutRetry, Closed
    <2>. QED  BY <2>1, StillQuiet
  <1>2. CASE BatchAges(b)
    <2>1. Forward
      BY <1>2 DEF BatchAges, Forward, RowForward, ItemForward, TypeInv, BatchRow
    <2>. QED  BY <1>1, <2>1, QuietKeeps
  <1>3. CASE GiveUpBatch(b)
    <2>. DEFINE s == AfterError(Items(b, Acked) # {})
    <2>0. s # "absent" /\ batch' = [batch EXCEPT ![b].status = s, ![b].token = NoWorker, ![b].age = "fresh"]
      BY <1>3 DEF GiveUpBatch, AfterError
    <2>. HIDE DEF s
    <2>1. \A c \in Batches : RowForward(c)
      BY <2>0 DEF RowForward, TypeInv, BatchRow
    <2>2. \A c \in Batches, j \in Positions : ItemForward(c, j)
      BY <1>3 DEF GiveUpBatch, InDoubt, ItemForward, TypeInv
    <2>. QED  BY <1>1, <2>1, <2>2, QuietKeeps DEF Forward
  <1>4. ASSUME NEW k \in Positions, Readback(b, k) PROVE IInv'
    <2>1. \A c \in Batches : RowForward(c)
      <3>1. \/ batch' = batch
            \/ batch' = [batch EXCEPT ![b].status = "completed", ![b].age = "fresh"]
        BY <1>4 DEF Readback
      <3>. QED  BY <3>1 DEF RowForward, TypeInv, BatchRow
    <2>2. \A c \in Batches, j \in Positions : ItemForward(c, j)
      BY <1>4 DEF Readback, ItemForward, TypeInv
    <2>. QED  BY <1>1, <2>1, <2>2, QuietKeeps DEF Forward
  <1>5. ASSUME NEW states, "absent" \notin states, Closed(b, states) PROVE IInv'
    <2>1. \A c \in Batches : RowForward(c)
      BY <1>5 DEF Closed, RowForward, TypeInv, BatchRow
    <2>2. \A c \in Batches, j \in Positions : ItemForward(c, j)
      BY <1>5 DEF Closed, ItemForward, TypeInv
    <2>. QED  BY <1>1, <2>1, <2>2, QuietKeeps DEF Forward
  <1>. QED  BY <1>2, <1>3, <1>4, <1>5 DEF ConfirmNotSubmitted, CloseWithoutRetry

LEMMA SafeSync ==
    ASSUME TypeInv, IInv,
           SyncStart \/ SyncFails \/ \E found \in BOOLEAN, done \in SUBSET Awaited : SyncFinish(found, done)
    PROVE  IInv'
  <1>1. Quiet
    <2>1. UNCHANGED <<paid, worker>>
      BY DEF SyncStart, SyncFails, SyncFinish
    <2>. QED  BY <2>1, StillQuiet
  <1>2. CASE SyncStart \/ SyncFails
    <2>1. UNCHANGED <<batch, item>>
      BY <1>2 DEF SyncStart, SyncFails
    <2>. QED  BY <1>1, <2>1, StillForward, QuietKeeps
  <1>3. ASSUME NEW found \in BOOLEAN, NEW done \in SUBSET Awaited, SyncFinish(found, done)
        PROVE  IInv'
    <2>1. CASE SameLifecycle
      <3>1. item' = [b \in Batches |-> [k \in Positions |->
                       IF <<b, k>> \in done THEN "completed" ELSE item[b][k]]]
        BY <1>3, <2>1 DEF SyncFinish
      <3>2. batch' = [b \in Batches |->
                    IF batch[b].status \in UnresolvedStates \ {"unknown"} /\ AllCompleted(item'[b])
                      THEN [batch[b] EXCEPT !.status = "completed", !.age = "fresh"] ELSE batch[b]]
        BY <1>3, <2>1 DEF SyncFinish
      <3>3. \A b \in Batches, k \in Positions : ItemForward(b, k)
        BY <3>1 DEF Awaited, ItemForward
      <3>4. \A b \in Batches : RowForward(b)
        <4>1. \A b \in Batches :
                 \/ batch'[b] = batch[b]
                 \/ batch'[b] = [batch[b] EXCEPT !.status = "completed", !.age = "fresh"]
          BY <3>2
        <4>2. \A b \in Batches : batch[b] \in BatchRow
          BY DEF TypeInv
        <4>3. \A row \in BatchRow :
                 LET new == [row EXCEPT !.status = "completed", !.age = "fresh"]
                 IN  new.id = row.id /\ new.status = "completed"
          BY DEF BatchRow
        <4>. HIDE DEF BatchRow
        <4>. QED  BY <4>1, <4>2, <4>3 DEF RowForward
      <3>. QED  BY <1>1, <3>3, <3>4, QuietKeeps DEF Forward
    <2>2. CASE ~SameLifecycle
      <3>1. UNCHANGED <<batch, item>>
        BY <1>3, <2>2 DEF SyncFinish
      <3>. QED  BY <1>1, <3>1, StillForward, QuietKeeps
    <2>. QED  BY <2>1, <2>2
  <1>. QED  BY <1>2, <1>3

LEMMA SafeAside == ASSUME IInv, Aside PROVE IInv'
  <1>1. Quiet
    BY DEF Aside, Quiet, Asking, Idle
  <1>2. Forward
    BY StillForward DEF Aside
  <1>. QED  BY <1>1, <1>2, QuietKeeps

LEMMA SafeNext == ASSUME TypeInv, IInv, [Next]_vars PROVE IInv'
  <1>1. CASE CycleStep
    BY <1>1, AsideSteps, SafeAside
  <1>2. ASSUME NEW a \in Artifacts, Approve(a) \/ \E q \in Requests : CreateBatch(q, a) PROVE IInv'
    <2>1. CASE Approve(a)
      <3>1. UNCHANGED <<batch, item, paid, worker>>
        BY <2>1 DEF Approve
      <3>. QED  BY <3>1, StillForward, StillQuiet, QuietKeeps
    <2>. QED  BY <1>2, <2>1, SafeCreate
  <1>3. ASSUME NEW w \in Workers, ClaimBatch(w) \/ WorkerStep(w) PROVE IInv'
    BY <1>3, SafeMark, SafeAsk, SafeWorkers DEF WorkerStep
  <1>4. ASSUME NEW b \in Batches,
               \/ BatchAges(b) \/ GiveUpBatch(b)
               \/ \E k \in Positions : Readback(b, k)
               \/ ConfirmNotSubmitted(b) \/ CloseWithoutRetry(b)
        PROVE  IInv'
    BY <1>4, SafeBatches
  <1>5. CASE SyncStart \/ SyncFails \/ \E found \in BOOLEAN, done \in SUBSET Awaited : SyncFinish(found, done)
    BY <1>5, SafeSync
  <1>6. CASE Crash
    BY <1>6, SafeCrash
  <1>7. CASE \/ UNCHANGED vars
             \/ PollDiesTriggering /\ worker' = [w \in Workers |-> Idle] /\ sync' = NoSync
                  /\ UNCHANGED <<approved, measured, batch, item, paid, synced>>
    BY <1>7, AsideSteps, SafeAside
  <1>. QED  BY <1>1, <1>2, <1>3, <1>4, <1>5, <1>6, <1>7 DEF Next

\* No keyword that was confirmed once is paid for twice.
THEOREM PaidAtMostOnce == Spec => []PaidOnce
  <1>1. Init => TypeInv /\ IInv
    BY TypeInit, SafeInit
  <1>2. TypeInv /\ IInv /\ [Next]_vars => (TypeInv /\ IInv)'
    BY TypeNext, SafeNext
  <1>3. TypeInv /\ IInv => PaidOnce
    BY DEF IInv, AtMostOnce, OneBatchEach, PaidOnce
  <1>. QED  BY <1>1, <1>2, <1>3, PTL DEF Spec

-----------------------------------------------------------------------------
(* What the state of a batch says of its items.                             *)

\* st is the status of a batch, it the states of its items.  While it is
\* unresolved something of it is left to do.
Summary(st, it) ==
    /\ st = "absent" => \A k \in Positions : it[k] = "absent"
    /\ st = "submitting" =>
         /\ \A k \in Positions : it[k] \notin {"unknown", "failed"}
         /\ \A j, k \in Positions : it[j] = "submitting" /\ it[k] = "submitting" => j = k
    /\ st = "submitted" => \A k \in Positions : it[k] \in {"absent", "submitted", "completed"}
    /\ st = "partial" =>
         /\ \E k \in Positions : it[k] \in Acked
         /\ \A k \in Positions : it[k] \notin {"submitting", "failed"}
    /\ st = "unknown" => \A k \in Positions : it[k] \in {"absent", "pending", "unknown"}
    /\ st = "completed" => \A k \in Positions : it[k] \in {"absent", "completed"}
    /\ st = "failed" => \A k \in Positions : it[k] \in {"absent", "completed", "failed"}
    /\ st \in UnresolvedStates => \E k \in Positions : it[k] \notin {"absent", "completed"}

SummaryInv == \A b \in Batches : Summary(batch[b].status, item[b])

\* Nobody has touched a batch that waits for a worker.
QueueInv ==
    \A b \in Batches : batch[b].status = "submitting" /\ batch[b].token = NoWorker =>
        \A k \in Positions : item[b][k] \in {"absent", "pending"}

\* What a worker that still holds the lease remembers of its batch is true.
InHand == {"asking", "acknowledged", "error"}

Remembers(v, it) ==
    /\ v.at \notin InHand => \A k \in Positions : it[k] # "submitting"
    /\ v.at \in InHand => \A k \in Positions : it[k] = "submitting" <=> k = v.k
    /\ v.at # "claimed" =>
         /\ \A k \in Positions : k \in v.todo <=> it[k] = "pending"
         /\ v.accepted <=> \E k \in Positions : it[k] \in Acked
    /\ v.at = "alive" => v.k \in v.todo

Holding(w) ==
    worker[w].at # "idle" =>
        worker[w].b \in Batches /\ (Leased(w) => Remembers(worker[w], item[worker[w].b]))

HandInv == \A w \in Workers : Holding(w)

OneOpen == \A b, c \in Unresolved : b = c

ItemsInv == SummaryInv /\ QueueInv /\ HandInv /\ OneOpen

\* The steps as the items see them.  Of a batch that exists the confirmation and the
\* version stay; what is resolved stays so.
SameBatch(c) ==
    /\ batch'[c].id = batch[c].id /\ batch'[c].art = batch[c].art
    /\ batch'[c].status = "absent" <=> batch[c].status = "absent"

StillOpen(c) == batch'[c].status \in UnresolvedStates <=> batch[c].status \in UnresolvedStates

Still == item' = item /\ \A c \in Batches : SameBatch(c) /\ StillOpen(c)

Moves(b, K, to) ==
    /\ b \in Unresolved /\ K \in SUBSET Positions
    /\ \A c \in Batches : SameBatch(c)
    /\ \A c \in Batches \ {b} : StillOpen(c) /\ item'[c] = item[c]
    /\ item'[b] = [k \in Positions |-> IF k \in K THEN to ELSE item[b][k]]

Confirms(b, q, a) ==
    /\ b \in Batches /\ batch[b].status = "absent" /\ ~Known(q) /\ Confirmable(a)
    /\ batch'[b].id = q /\ batch'[b].art = a /\ batch'[b].status = "submitting"
    /\ item'[b] = [k \in Positions |-> IF k \in Cohort(artifact[a].payload) THEN "pending" ELSE "absent"]
    /\ \A c \in Batches \ {b} : batch'[c] = batch[c] /\ item'[c] = item[c]

Asks(b, k) ==
    /\ Moves(b, {k}, "submitting") /\ StillOpen(b)
    /\ item[b][k] = "pending" /\ \A j \in Positions : item[b][j] # "submitting"

Hears(b, k, s) ==
    /\ s \in {"submitted", "unknown"} /\ item[b][k] = "submitting"
    /\ Moves(b, {k}, s) /\ StillOpen(b)

Measures(b, K) ==
    /\ K # {} /\ \A k \in K : item[b][k] = "submitted"
    /\ Moves(b, K, "completed")
    /\ batch'[b].status \in UnresolvedStates <=> ~AllCompleted(item'[b])

DropsAll(b) ==
    /\ \A k \in Positions : item[b][k] \notin {"submitting", "submitted", "completed"}
    /\ Moves(b, Items(b, {"unknown", "pending"}), "failed")
    /\ batch'[b].status = "failed"

DropsRest(b) ==
    /\ \A k \in Positions : item[b][k] \notin {"unknown", "submitting", "submitted"}
    /\ Moves(b, Items(b, {"pending"}), "failed")
    /\ batch'[b].status = "failed"

ItemStep ==
    \/ Still
    \/ \E b \in Batches, q \in Requests, a \in Artifacts : Confirms(b, q, a)
    \/ \E b \in Batches, k \in Positions : Asks(b, k) \/ \E s \in ItemStates : Hears(b, k, s)
    \/ \E b \in Batches, K \in SUBSET Positions : Measures(b, K)
    \/ \E b \in Batches : DropsAll(b) \/ DropsRest(b)

\* A batch that a worker has given back, or that somebody else has settled, leaves
\* what the worker remembers behind.
LEMMA HoldingKept ==
    ASSUME NEW w \in Workers, Holding(w), worker'[w] = worker[w],
           worker[w].b \in Batches /\ Leased(w)' =>
              Leased(w) /\ \A k \in Positions : \/ item'[worker[w].b][k] = item[worker[w].b][k]
                                                \/ /\ item'[worker[w].b][k] \in Acked
                                                   /\ item[worker[w].b][k] \in Acked
    PROVE  Holding(w)'
  <1>1. CASE Leased(w)' /\ worker[w].b \in Batches
    <2>. DEFINE b == worker[w].b
    <2>1. \A k \in Positions :
             /\ item'[b][k] = "submitting" <=> item[b][k] = "submitting"
             /\ item'[b][k] = "pending" <=> item[b][k] = "pending"
             /\ item'[b][k] \in Acked <=> item[b][k] \in Acked
      BY <1>1 DEF Acked
    <2>2. Remembers(worker[w], item[b]) => Remembers(worker[w], item'[b])
      BY <2>1 DEF Remembers
    <2>. QED  BY <1>1, <2>2 DEF Holding
  <1>2. CASE ~(Leased(w)' /\ worker[w].b \in Batches)
    BY <1>2 DEF Holding
  <1>. QED  BY <1>1, <1>2

\* A worker that stops remembers nothing.
LEMMA IdleHolds ==
    ASSUME NEW w \in Workers, worker'[w].at = "idle"
    PROVE  Holding(w)'
  BY DEF Holding

LEMMA OpenKept ==
    ASSUME OneOpen, \A c \in Batches : batch'[c].status \in UnresolvedStates => batch[c].status \in UnresolvedStates
    PROVE  OneOpen'
  BY DEF OneOpen, Unresolved

\* A step of one batch.
LEMMA OneBatchSteps ==
    ASSUME ItemsInv, NEW b \in Batches,
           \A c \in Batches \ {b} : batch'[c] = batch[c] /\ item'[c] = item[c],
           Summary(batch'[b].status, item'[b]),
           batch'[b].status = "submitting" /\ batch'[b].token = NoWorker =>
             \A k \in Positions : item'[b][k] \in {"absent", "pending"},
           batch'[b].status \in UnresolvedStates => b \in Unresolved,
           HandInv'
    PROVE  ItemsInv'
  <1>1. SummaryInv' /\ QueueInv'
    BY DEF ItemsInv, SummaryInv, QueueInv
  <1>2. OneOpen'
    BY OpenKept DEF ItemsInv, Unresolved
  <1>. QED  BY <1>1, <1>2 DEF ItemsInv

LEMMA ItemsInit == Init => ItemsInv
  <1>. SUFFICES ASSUME Init PROVE ItemsInv
    OBVIOUS
  <1>1. \A b \in Batches : batch[b].status = "absent" /\ \A k \in Positions : item[b][k] = "absent"
    BY DEF Init, NoBatch
  <1>2. SummaryInv
    BY <1>1 DEF SummaryInv, Summary, UnresolvedStates
  <1>3. QueueInv /\ OneOpen
    BY <1>1 DEF QueueInv, OneOpen, Unresolved, UnresolvedStates
  <1>4. HandInv
    BY DEF Init, Idle, HandInv, Holding
  <1>. QED  BY <1>2, <1>3, <1>4 DEF ItemsInv

LEMMA CohortIn == \A p : Cohort(p) \in SUBSET Positions
  BY DEF Cohort

LEMMA ItemsCreate ==
    ASSUME TypeInv, ItemsInv, NEW a \in Artifacts, NEW q \in Requests, CreateBatch(q, a)
    PROVE  ItemsInv' /\ ItemStep
  <1>. DEFINE n == First(FreeBatches)
              row == [NoBatch EXCEPT !.status = "submitting", !.art = a, !.id = q]
              set == Cohort(artifact[a].payload)
              new == [k \in Positions |-> IF k \in set THEN "pending" ELSE "absent"]
  <1>1. n \in Batches /\ batch[n].status = "absent"
    <2>1. FreeBatches \subseteq Batches /\ FreeBatches # {}
      BY DEF CreateBatch, FreeBatches
    <2>2. n \in FreeBatches
      BY <2>1, FirstIsOne, PositionsType
    <2>. QED  BY <2>2 DEF FreeBatches
  <1>2. /\ batch' = [batch EXCEPT ![n] = row] /\ item' = [item EXCEPT ![n] = new]
        /\ UNCHANGED worker /\ ~Known(q) /\ Confirmable(a)
    BY DEF CreateBatch
  <1>3. row.status = "submitting" /\ row.id = q /\ row.art = a /\ row.token = NoWorker
    BY DEF NoBatch
  <1>4. set # {} /\ set \in SUBSET Positions
    BY <1>2, CohortIn DEF Confirmable, PaidEligible
  <1>5. Unresolved = {}
    BY <1>2 DEF Confirmable
  <1>. HIDE DEF n, row, set
  <1>6. /\ batch'[n] = row /\ item'[n] = new
        /\ \A c \in Batches \ {n} : batch'[c] = batch[c] /\ item'[c] = item[c]
    BY <1>1, <1>2 DEF TypeInv
  <1>7. Summary("submitting", new)
    BY <1>4 DEF Summary, UnresolvedStates
  <1>8. HandInv'
    <2>1. ASSUME NEW w \in Workers PROVE Holding(w)'
      <3>1. Leased(w)' /\ worker[w].b \in Batches => Leased(w) /\ worker[w].b # n
        BY <1>2, <1>3, <1>6, ScanAssumption DEF Leased
      <3>. QED  BY <1>2, <1>6, <3>1, HoldingKept DEF ItemsInv, HandInv
    <2>. QED  BY <2>1 DEF HandInv
  <1>9. SummaryInv' /\ QueueInv'
    BY <1>3, <1>6, <1>7 DEF ItemsInv, SummaryInv, QueueInv
  <1>10. OneOpen'
    BY <1>5, <1>6 DEF OneOpen, Unresolved
  <1>11. Confirms(n, q, a)
    BY <1>1, <1>2, <1>3, <1>6 DEF Confirms, set
  <1>. QED  BY <1>1, <1>8, <1>9, <1>10, <1>11 DEF ItemsInv, ItemStep

LEMMA OthersHold ==
    ASSUME ItemsInv, NEW w \in Workers, NEW b \in Batches,
           \A v \in Workers \ {w} : worker'[v] = worker[v],
           \A c \in Batches \ {b} : batch'[c] = batch[c] /\ item'[c] = item[c],
           batch'[b].status # "submitting" \/ batch'[b].token = w
    PROVE  \A v \in Workers \ {w} : Holding(v)'
  <1>1. ASSUME NEW v \in Workers \ {w} PROVE Holding(v)'
    <2>1. Leased(v)' /\ worker[v].b \in Batches => Leased(v) /\ worker[v].b # b
      BY <1>1 DEF Leased
    <2>. QED  BY <1>1, <2>1, HoldingKept DEF ItemsInv, HandInv
  <1>. QED  BY <1>1

\* A worker that only moves on.
LEMMA WorkerMoves ==
    ASSUME ItemsInv, NEW w \in Workers, UNCHANGED <<batch, item>>,
           \A v \in Workers \ {w} : worker'[v] = worker[v], Holding(w)'
    PROVE  ItemsInv' /\ ItemStep
  <1>1. ASSUME NEW v \in Workers \ {w} PROVE Holding(v)'
    BY <1>1, HoldingKept DEF ItemsInv, HandInv, Leased
  <1>2. HandInv'
    BY <1>1 DEF HandInv
  <1>3. SummaryInv' /\ QueueInv' /\ OneOpen'
    BY DEF ItemsInv, SummaryInv, QueueInv, OneOpen, Unresolved
  <1>4. Still
    BY DEF Still, SameBatch, StillOpen
  <1>. QED  BY <1>2, <1>3, <1>4 DEF ItemsInv, ItemStep

LEMMA WorkerStops ==
    ASSUME TypeInv, ItemsInv, NEW w \in Workers, UNCHANGED <<batch, item>>, Stop(w)
    PROVE  ItemsInv' /\ ItemStep
  <1>1. worker'[w].at = "idle" /\ \A v \in Workers \ {w} : worker'[v] = worker[v]
    BY DEF Stop, TypeInv, Idle
  <1>. QED  BY <1>1, WorkerMoves, IdleHolds

\* The lease, and what the worker remembers under it.
LEMMA LeaseFacts ==
    ASSUME TypeInv, ItemsInv, NEW w \in Workers, worker[w].at # "idle", Leased(w)
    PROVE  /\ worker[w].b \in Unresolved /\ worker[w].b \in Batches
           /\ batch[worker[w].b].status = "submitting" /\ batch[worker[w].b].token = w
           /\ Remembers(worker[w], item[worker[w].b])
           /\ Summary("submitting", item[worker[w].b])
  BY DEF ItemsInv, HandInv, Holding, SummaryInv, Leased, Unresolved, UnresolvedStates

LEMMA ItemsClaim ==
    ASSUME TypeInv, ItemsInv, NEW w \in Workers, ClaimBatch(w)
    PROVE  ItemsInv' /\ ItemStep
  <1>. DEFINE n == First(Waiting)
              v == [Idle EXCEPT !.b = n, !.at = "claimed"]
  <1>1. n \in Batches /\ batch[n].status = "submitting" /\ batch[n].token = NoWorker
    <2>1. Waiting \subseteq Batches /\ Waiting # {}
      BY DEF ClaimBatch, Waiting
    <2>2. n \in Waiting
      BY <2>1, FirstIsOne, PositionsType
    <2>. QED  BY <2>2 DEF Waiting
  <1>2. /\ batch' = [batch EXCEPT ![n].token = w, ![n].age = "fresh"] /\ item' = item
        /\ worker' = [worker EXCEPT ![w] = v]
    BY DEF ClaimBatch
  <1>3. v.at = "claimed" /\ v.b = n
    BY DEF Idle
  <1>. HIDE DEF n, v
  <1>4. /\ batch'[n].status = "submitting" /\ batch'[n].token = w
        /\ batch'[n].id = batch[n].id /\ batch'[n].art = batch[n].art
        /\ \A c \in Batches \ {n} : batch'[c] = batch[c]
        /\ worker'[w] = v /\ \A u \in Workers \ {w} : worker'[u] = worker[u]
    BY <1>1, <1>2 DEF TypeInv, BatchRow
  <1>5. \A k \in Positions : item[n][k] \in {"absent", "pending"}
    BY <1>1 DEF ItemsInv, QueueInv
  <1>6. Remembers(v, item[n])
    BY <1>3, <1>5 DEF Remembers, InHand
  <1>7. HandInv'
    <2>1. Holding(w)'
      BY <1>1, <1>2, <1>3, <1>4, <1>6 DEF Holding
    <2>2. \A u \in Workers \ {w} : Holding(u)'
      BY <1>1, <1>2, <1>4, OthersHold
    <2>. QED  BY <2>1, <2>2 DEF HandInv
  <1>8. Summary(batch'[n].status, item'[n])
    BY <1>1, <1>2, <1>4 DEF ItemsInv, SummaryInv
  <1>9. Still
    BY <1>1, <1>2, <1>4 DEF Still, SameBatch, StillOpen
  <1>10. ItemsInv'
    BY <1>1, <1>2, <1>4, <1>7, <1>8, ScanAssumption, OneBatchSteps DEF Unresolved, UnresolvedStates
  <1>. QED  BY <1>9, <1>10 DEF ItemStep

LEMMA ItemsLoad ==
    ASSUME TypeInv, ItemsInv, NEW w \in Workers, LoadItems(w)
    PROVE  ItemsInv' /\ ItemStep
  <1>. DEFINE b == worker[w].b
              todo == Items(b, {"pending"})
              accepted == Items(b, Acked) # {}
  <1>1. UNCHANGED <<batch, item>> /\ worker[w].at = "claimed"
    BY DEF LoadItems
  <1>2. CASE Leased(w)
    <2>1. worker' = [worker EXCEPT ![w].at = "next", ![w].todo = todo, ![w].accepted = accepted]
      BY <1>2 DEF LoadItems
    <2>2. /\ \A k \in Positions : k \in todo <=> item[b][k] = "pending"
          /\ accepted <=> \E k \in Positions : item[b][k] \in Acked
      BY DEF Items
    <2>3. b \in Batches /\ Remembers(worker[w], item[b])
      BY <1>1, <1>2, LeaseFacts
    <2>. HIDE DEF todo, accepted
    <2>4. /\ worker'[w].at = "next" /\ worker'[w].todo = todo /\ worker'[w].accepted = accepted
          /\ worker'[w].b = b /\ \A v \in Workers \ {w} : worker'[v] = worker[v]
      BY <2>1 DEF TypeInv, WorkerState
    <2>5. Remembers(worker'[w], item[b])
      BY <1>1, <2>2, <2>3, <2>4 DEF Remembers, InHand
    <2>6. Holding(w)'
      BY <1>1, <2>3, <2>4, <2>5 DEF Holding
    <2>. QED  BY <1>1, <2>4, <2>6, WorkerMoves
  <1>3. CASE ~Leased(w)
    BY <1>1, <1>3, WorkerStops DEF LoadItems
  <1>. QED  BY <1>2, <1>3

LEMMA ItemsHeartbeat ==
    ASSUME TypeInv, ItemsInv, NEW w \in Workers, Heartbeat(w)
    PROVE  ItemsInv' /\ ItemStep
  <1>. DEFINE b == worker[w].b
              k == First(worker[w].todo)
  <1>1. item' = item /\ worker[w].at = "next" /\ worker[w].todo # {}
    BY DEF Heartbeat
  <1>2. CASE Leased(w)
    <2>1. /\ batch' = [batch EXCEPT ![b].age = "fresh"]
          /\ worker' = [worker EXCEPT ![w].at = "alive", ![w].k = k]
      BY <1>2 DEF Heartbeat
    <2>2. k \in worker[w].todo /\ k \in Positions
      <3>1. worker[w].todo \in SUBSET Positions
        BY WorkerType
      <3>. QED  BY <1>1, <3>1, FirstIsOne, PositionsType
    <2>3. /\ b \in Batches /\ b \in Unresolved /\ Remembers(worker[w], item[b])
          /\ batch[b].status = "submitting" /\ batch[b].token = w /\ Summary("submitting", item[b])
      BY <1>1, <1>2, LeaseFacts
    <2>. HIDE DEF k
    <2>4. /\ worker'[w].at = "alive" /\ worker'[w].k = k /\ worker'[w].todo = worker[w].todo
          /\ worker'[w].accepted = worker[w].accepted
          /\ worker'[w].b = b /\ \A v \in Workers \ {w} : worker'[v] = worker[v]
      BY <2>1 DEF TypeInv, WorkerState
    <2>5. /\ batch'[b].status = "submitting" /\ batch'[b].token = w
          /\ batch'[b].id = batch[b].id /\ batch'[b].art = batch[b].art
          /\ \A c \in Batches \ {b} : batch'[c] = batch[c]
      BY <2>1, <2>3 DEF TypeInv, BatchRow
    <2>6. Remembers(worker'[w], item[b])
      BY <1>1, <2>2, <2>3, <2>4 DEF Remembers, InHand
    <2>7. Holding(w)'
      BY <1>1, <2>3, <2>4, <2>6 DEF Holding
    <2>. HIDE DEF b
    <2>8. HandInv'
      BY <1>1, <2>3, <2>4, <2>5, <2>7, OthersHold DEF HandInv
    <2>9. Still
      BY <1>1, <2>3, <2>5 DEF Still, SameBatch, StillOpen
    <2>10. ItemsInv'
      BY <1>1, <2>3, <2>5, <2>8, ScanAssumption, OneBatchSteps
    <2>. QED  BY <2>9, <2>10 DEF ItemStep
  <1>3. CASE ~Leased(w)
    BY <1>1, <1>3, WorkerStops DEF Heartbeat
  <1>. QED  BY <1>2, <1>3

LEMMA ItemsMark ==
    ASSUME TypeInv, ItemsInv, NEW w \in Workers, MarkItem(w)
    PROVE  ItemsInv' /\ ItemStep
  <1>. DEFINE b == worker[w].b
              k == worker[w].k
  <1>1. worker[w].at = "alive" /\ batch' = batch /\ k \in Positions
    BY WorkerType DEF MarkItem
  <1>2. CASE Leased(w) /\ item[b][k] = "pending"
    <2>1. /\ item' = [item EXCEPT ![b][k] = "submitting"]
          /\ worker' = [worker EXCEPT ![w].at = "asking", ![w].todo = @ \ {k}]
      BY <1>2 DEF MarkItem
    <2>2. /\ b \in Batches /\ b \in Unresolved /\ Remembers(worker[w], item[b])
          /\ batch[b].status = "submitting" /\ batch[b].token = w /\ Summary("submitting", item[b])
      BY <1>1, <1>2, LeaseFacts
    <2>3. /\ worker'[w].at = "asking" /\ worker'[w].k = k /\ worker'[w].todo = worker[w].todo \ {k}
          /\ worker'[w].accepted = worker[w].accepted
          /\ worker'[w].b = b /\ \A v \in Workers \ {w} : worker'[v] = worker[v]
      BY <2>1 DEF TypeInv, WorkerState
    <2>. HIDE DEF b, k
    <2>4. /\ \A c \in Batches \ {b} : item'[c] = item[c]
          /\ item'[b] = [j \in Positions |-> IF j \in {k} THEN "submitting" ELSE item[b][j]]
      BY <2>1, <2>2 DEF TypeInv
    <2>5. \A j \in Positions : item[b][j] # "submitting"
      BY <1>1, <2>2 DEF Remembers, InHand
    <2>6. Remembers(worker'[w], item'[b])
      BY <1>1, <1>2, <2>2, <2>3, <2>4, <2>5 DEF Remembers, InHand, Acked, b, k
    <2>7. Summary("submitting", item'[b])
      BY <1>1, <2>2, <2>4, <2>5 DEF Summary
    <2>8. HandInv'
      <3>1. Holding(w)'
        BY <1>1, <2>2, <2>3, <2>6 DEF Holding
      <3>. QED  BY <1>1, <2>2, <2>3, <2>4, <3>1, OthersHold DEF HandInv
    <2>9. ItemsInv'
      BY <1>1, <2>2, <2>4, <2>7, <2>8, ScanAssumption, OneBatchSteps
    <2>10. Asks(b, k)
      BY <1>1, <1>2, <2>2, <2>4, <2>5 DEF Asks, Moves, SameBatch, StillOpen, b, k
    <2>. QED  BY <1>1, <2>2, <2>9, <2>10 DEF ItemStep
  <1>3. CASE ~(Leased(w) /\ item[b][k] = "pending")
    BY <1>1, <1>3, WorkerStops DEF MarkItem
  <1>. QED  BY <1>2, <1>3

LEMMA ItemsAsk ==
    ASSUME TypeInv, ItemsInv, NEW w \in Workers, NEW taken \in BOOLEAN,
           NEW answer \in {"acknowledged", "error"}, AskLocalFalcon(w, taken, answer)
    PROVE  ItemsInv' /\ ItemStep
  <1>1. /\ worker' = [worker EXCEPT ![w].at = answer] /\ worker[w].at = "asking"
        /\ UNCHANGED <<batch, item>>
    BY DEF AskLocalFalcon
  <1>2. /\ worker'[w].at = answer /\ worker'[w].k = worker[w].k /\ worker'[w].todo = worker[w].todo
        /\ worker'[w].accepted = worker[w].accepted
        /\ worker'[w].b = worker[w].b /\ \A v \in Workers \ {w} : worker'[v] = worker[v]
    BY <1>1 DEF TypeInv, WorkerState
  <1>3. Holding(w)
    BY DEF ItemsInv, HandInv
  <1>4. Holding(w)'
    BY <1>1, <1>2, <1>3 DEF Holding, Leased, Remembers, InHand
  <1>. QED  BY <1>1, <1>2, <1>4, WorkerMoves

LEMMA ItemsError ==
    ASSUME TypeInv, ItemsInv, NEW w \in Workers, RecordError(w)
    PROVE  ItemsInv' /\ ItemStep
  <1>. DEFINE b == worker[w].b
              k == worker[w].k
              s == AfterError(worker[w].accepted)
  <1>1. worker[w].at = "error" /\ Stop(w) /\ k \in Positions
    BY WorkerType DEF RecordError
  <1>2. CASE Leased(w) /\ item[b][k] = "submitting"
    <2>1. /\ item' = [item EXCEPT ![b][k] = "unknown"]
          /\ batch' = [batch EXCEPT ![b].status = s, ![b].age = "fresh"]
      BY <1>2 DEF RecordError
    <2>2. /\ b \in Batches /\ b \in Unresolved /\ Remembers(worker[w], item[b])
          /\ Summary("submitting", item[b])
      BY <1>1, <1>2, LeaseFacts
    <2>3. /\ s \in {"partial", "unknown"}
          /\ s = "partial" <=> \E j \in Positions : item[b][j] \in Acked
      BY <1>1, <2>2 DEF AfterError, Remembers
    <2>4. worker'[w].at = "idle" /\ \A v \in Workers \ {w} : worker'[v] = worker[v]
      BY <1>1 DEF Stop, TypeInv, Idle
    <2>5. \A j \in Positions : item[b][j] = "submitting" <=> j = k
      BY <1>1, <2>2 DEF Remembers, InHand
    <2>6. \A j \in Positions : item[b][j] \in ItemStates
      BY <2>2 DEF TypeInv
    <2>. HIDE DEF b, k, s
    <2>7. /\ \A c \in Batches \ {b} : batch'[c] = batch[c] /\ item'[c] = item[c]
          /\ item'[b] = [j \in Positions |-> IF j \in {k} THEN "unknown" ELSE item[b][j]]
          /\ batch'[b].status = s /\ batch'[b].id = batch[b].id /\ batch'[b].art = batch[b].art
      BY <2>1, <2>2 DEF TypeInv, BatchRow
    <2>8. Summary(s, item'[b])
      <3>1. \A j \in Positions : /\ item'[b][j] \notin {"submitting", "failed"}
                                 /\ item'[b][j] \in Acked <=> item[b][j] \in Acked
                                 /\ item'[b][j] \in ItemStates
        BY <1>1, <2>2, <2>5, <2>6, <2>7 DEF Summary, Acked, ItemStates
      <3>2. item'[b][k] = "unknown"
        BY <1>1, <2>7
      <3>. QED  BY <1>1, <2>3, <3>1, <3>2 DEF Summary, Acked, ItemStates, UnresolvedStates
    <2>9. HandInv'
      BY <2>2, <2>3, <2>4, <2>7, IdleHolds, OthersHold DEF HandInv
    <2>10. ItemsInv'
      BY <2>2, <2>3, <2>7, <2>8, <2>9, OneBatchSteps
    <2>11. Hears(b, k, "unknown")
      BY <1>1, <1>2, <2>2, <2>3, <2>7 DEF Hears, Moves, SameBatch, StillOpen, Unresolved, UnresolvedStates, b, k
    <2>. QED  BY <1>1, <2>2, <2>10, <2>11 DEF ItemStep, ItemStates
  <1>3. CASE ~(Leased(w) /\ item[b][k] = "submitting")
    BY <1>1, <1>3, WorkerStops DEF RecordError
  <1>. QED  BY <1>2, <1>3

LEMMA ItemsKey ==
    ASSUME TypeInv, ItemsInv, NEW w \in Workers, RecordKey(w)
    PROVE  ItemsInv' /\ ItemStep
  <1>. DEFINE b == worker[w].b
              k == worker[w].k
  <1>1. worker[w].at = "acknowledged" /\ batch' = batch /\ k \in Positions
    BY WorkerType DEF RecordKey
  <1>2. CASE Leased(w) /\ item[b][k] = "submitting"
    <2>1. /\ item' = [item EXCEPT ![b][k] = "submitted"]
          /\ worker' = [worker EXCEPT ![w].at = "next", ![w].accepted = TRUE]
      BY <1>2 DEF RecordKey
    <2>2. /\ b \in Batches /\ b \in Unresolved /\ Remembers(worker[w], item[b])
          /\ batch[b].status = "submitting" /\ batch[b].token = w /\ Summary("submitting", item[b])
      BY <1>1, <1>2, LeaseFacts
    <2>3. /\ worker'[w].at = "next" /\ worker'[w].accepted = TRUE /\ worker'[w].todo = worker[w].todo
          /\ worker'[w].b = b /\ \A v \in Workers \ {w} : worker'[v] = worker[v]
      BY <2>1 DEF TypeInv, WorkerState
    <2>. HIDE DEF b, k
    <2>4. /\ \A c \in Batches \ {b} : item'[c] = item[c]
          /\ item'[b] = [j \in Positions |-> IF j \in {k} THEN "submitted" ELSE item[b][j]]
      BY <2>1, <2>2 DEF TypeInv
    <2>5. \A j \in Positions : item[b][j] = "submitting" <=> j = k
      BY <1>1, <2>2 DEF Remembers, InHand, k
    <2>6. item'[b][k] = "submitted" /\ \A j \in Positions \ {k} : item'[b][j] = item[b][j]
      BY <1>1, <2>4
    <2>7. Remembers(worker'[w], item'[b])
      BY <1>1, <2>2, <2>3, <2>5, <2>6 DEF Remembers, InHand, Acked
    <2>8. Summary("submitting", item'[b])
      BY <1>1, <2>2, <2>5, <2>6 DEF Summary
    <2>9. HandInv'
      <3>1. Holding(w)'
        BY <1>1, <2>2, <2>3, <2>7 DEF Holding
      <3>. QED  BY <1>1, <2>2, <2>3, <2>4, <3>1, OthersHold DEF HandInv
    <2>10. ItemsInv'
      BY <1>1, <2>2, <2>4, <2>8, <2>9, ScanAssumption, OneBatchSteps
    <2>11. Hears(b, k, "submitted")
      BY <1>1, <1>2, <2>2, <2>4 DEF Hears, Moves, SameBatch, StillOpen, b, k
    <2>. QED  BY <1>1, <2>2, <2>10, <2>11 DEF ItemStep, ItemStates
  <1>3. CASE ~(Leased(w) /\ item[b][k] = "submitting")
    BY <1>1, <1>3, WorkerStops DEF RecordKey
  <1>. QED  BY <1>2, <1>3

LEMMA ItemsFinish ==
    ASSUME TypeInv, ItemsInv, NEW w \in Workers, FinishBatch(w)
    PROVE  ItemsInv' /\ ItemStep
  <1>. DEFINE b == worker[w].b
  <1>1. worker[w].at = "next" /\ worker[w].todo = {} /\ Stop(w) /\ item' = item
    BY DEF FinishBatch
  <1>2. CASE Leased(w)
    <2>1. batch' = [batch EXCEPT ![b].status = "submitted", ![b].age = "fresh"]
      BY <1>2 DEF FinishBatch
    <2>2. /\ b \in Batches /\ b \in Unresolved /\ Remembers(worker[w], item[b])
          /\ Summary("submitting", item[b])
      BY <1>1, <1>2, LeaseFacts
    <2>3. worker'[w].at = "idle" /\ \A v \in Workers \ {w} : worker'[v] = worker[v]
      BY <1>1 DEF Stop, TypeInv, Idle
    <2>4. \A j \in Positions : item[b][j] \in {"absent", "submitted", "completed"}
      <3>1. \A j \in Positions : item[b][j] \in ItemStates
        BY <2>2 DEF TypeInv
      <3>. QED  BY <1>1, <2>2, <3>1 DEF Remembers, InHand, Summary, ItemStates
    <2>. HIDE DEF b
    <2>5. /\ \A c \in Batches \ {b} : batch'[c] = batch[c]
          /\ batch'[b].status = "submitted" /\ batch'[b].id = batch[b].id /\ batch'[b].art = batch[b].art
      BY <2>1, <2>2 DEF TypeInv, BatchRow
    <2>6. Summary("submitted", item[b])
      BY <2>2, <2>4 DEF Summary, UnresolvedStates
    <2>7. HandInv'
      BY <1>1, <2>2, <2>3, <2>5, IdleHolds, OthersHold DEF HandInv
    <2>8. ItemsInv'
      BY <1>1, <2>2, <2>5, <2>6, <2>7, OneBatchSteps
    <2>9. Still
      BY <1>1, <2>2, <2>5 DEF Still, SameBatch, StillOpen, Unresolved, UnresolvedStates
    <2>. QED  BY <2>8, <2>9 DEF ItemStep
  <1>3. CASE ~Leased(w)
    BY <1>1, <1>3, WorkerStops DEF FinishBatch
  <1>. QED  BY <1>2, <1>3

LEMMA ItemsAges ==
    ASSUME TypeInv, ItemsInv, NEW b \in Batches, BatchAges(b)
    PROVE  ItemsInv' /\ ItemStep
  <1>1. /\ item' = item /\ worker' = worker
        /\ batch' = [batch EXCEPT ![b].age = "stale"]
    BY DEF BatchAges
  <1>2. /\ \A c \in Batches \ {b} : batch'[c] = batch[c]
        /\ batch'[b].status = batch[b].status /\ batch'[b].token = batch[b].token
        /\ batch'[b].id = batch[b].id /\ batch'[b].art = batch[b].art
    BY <1>1 DEF TypeInv, BatchRow
  <1>3. HandInv'
    <2>1. ASSUME NEW w \in Workers PROVE Holding(w)'
      BY <1>1, <1>2, HoldingKept DEF ItemsInv, HandInv, Leased
    <2>. QED  BY <2>1 DEF HandInv
  <1>4. SummaryInv' /\ QueueInv' /\ OneOpen'
    BY <1>1, <1>2, OpenKept DEF ItemsInv, SummaryInv, QueueInv
  <1>5. Still
    BY <1>1, <1>2 DEF Still, SameBatch, StillOpen
  <1>. QED  BY <1>3, <1>4, <1>5 DEF ItemsInv, ItemStep

\* When the batch of a step is no longer submitting, no worker holds it.
LEMMA NoneHolds ==
    ASSUME TypeInv, ItemsInv, NEW b \in Batches, worker' = worker,
           \A c \in Batches \ {b} : batch'[c] = batch[c] /\ item'[c] = item[c],
           batch'[b].status # "submitting"
    PROVE  HandInv'
  <1>1. ASSUME NEW w \in Workers PROVE Holding(w)'
    <2>1. Leased(w)' => worker[w].b # b
      BY DEF Leased
    <2>2. Leased(w)' /\ worker[w].b \in Batches => Leased(w)
      BY <2>1 DEF Leased
    <2>. QED  BY <2>1, <2>2, HoldingKept DEF ItemsInv, HandInv
  <1>. QED  BY <1>1 DEF HandInv

LEMMA ItemsGiveUp ==
    ASSUME TypeInv, ItemsInv, NEW b \in Batches, GiveUpBatch(b)
    PROVE  ItemsInv' /\ ItemStep
  <1>. DEFINE s == AfterError(Items(b, Acked) # {})
              new == InDoubt(b)
  <1>1. /\ batch[b].status = "submitting" /\ Summary("submitting", item[b])
        /\ b \in Unresolved
    BY DEF GiveUpBatch, Stale, ItemsInv, SummaryInv, Unresolved, UnresolvedStates
  <1>2. /\ item' = [item EXCEPT ![b] = new] /\ worker' = worker
        /\ batch' = [batch EXCEPT ![b].status = s, ![b].token = NoWorker, ![b].age = "fresh"]
    BY DEF GiveUpBatch
  <1>3. /\ s \in {"partial", "unknown"}
        /\ s = "partial" <=> \E j \in Positions : item[b][j] \in Acked
    BY DEF AfterError, Items
  <1>4. /\ \A j \in Positions : new[j] = IF item[b][j] = "submitting" THEN "unknown" ELSE item[b][j]
        /\ \A j \in Positions : item[b][j] \in ItemStates
    BY DEF InDoubt, TypeInv
  <1>5. new = [j \in Positions |-> new[j]]
    BY DEF InDoubt
  <1>. HIDE DEF s, new
  <1>6. /\ \A c \in Batches \ {b} : batch'[c] = batch[c] /\ item'[c] = item[c]
        /\ item'[b] = new
        /\ batch'[b].status = s /\ batch'[b].id = batch[b].id /\ batch'[b].art = batch[b].art
    BY <1>2 DEF TypeInv, BatchRow
  <1>7. Summary(s, new)
    <2>1. \A j \in Positions : /\ new[j] \notin {"submitting", "failed"} /\ new[j] \in ItemStates
                               /\ new[j] \in Acked <=> item[b][j] \in Acked
                               /\ new[j] \in {"absent", "completed"} <=> item[b][j] \in {"absent", "completed"}
      BY <1>1, <1>4 DEF Summary, Acked, ItemStates
    <2>2. \E j \in Positions : new[j] \notin {"absent", "completed"}
      BY <1>1, <2>1 DEF Summary, UnresolvedStates
    <2>. QED  BY <1>3, <2>1, <2>2 DEF Summary, Acked, ItemStates
  <1>8. ItemsInv'
    BY <1>1, <1>2, <1>3, <1>6, <1>7, NoneHolds, OneBatchSteps
  <1>9. ItemStep
    <2>1. CASE \E k \in Positions : item[b][k] = "submitting"
      <3>1. PICK k \in Positions : item[b][k] = "submitting"
        BY <2>1
      <3>2. \A j \in Positions : item[b][j] = "submitting" <=> j = k
        BY <1>1, <3>1 DEF Summary
      <3>3. item'[b] = [j \in Positions |-> IF j \in {k} THEN "unknown" ELSE item[b][j]]
        BY <1>4, <1>5, <1>6, <3>2
      <3>4. Hears(b, k, "unknown")
        BY <1>1, <1>3, <1>6, <3>1, <3>3 DEF Hears, Moves, SameBatch, StillOpen, Unresolved, UnresolvedStates
      <3>. QED  BY <3>4 DEF ItemStep, ItemStates
    <2>2. CASE \A k \in Positions : item[b][k] # "submitting"
      <3>1. item[b] \in [Positions -> ItemStates] /\ item \in [Batches -> [Positions -> ItemStates]]
        BY DEF TypeInv
      <3>2. new = item[b]
        BY <1>4, <1>5, <2>2, <3>1
      <3>3. item' = item
        BY <1>2, <3>1, <3>2
      <3>. QED  BY <1>1, <1>3, <1>6, <3>3 DEF ItemStep, Still, SameBatch, StillOpen, Unresolved, UnresolvedStates
    <2>. QED  BY <2>1, <2>2
  <1>. QED  BY <1>8, <1>9

\* A report that is found completes an acknowledged item, and with the last one the
\* batch.  A worker that still submits does not notice.
LEMMA ItemsMeasured ==
    ASSUME TypeInv, ItemsInv, NEW b \in Batches, NEW K \in SUBSET Positions, K # {},
           \A k \in K : item[b][k] = "submitted",
           worker' = worker,
           \A c \in Batches \ {b} : batch'[c] = batch[c] /\ item'[c] = item[c],
           item'[b] = [k \in Positions |-> IF k \in K THEN "completed" ELSE item[b][k]],
           batch'[b] = IF AllCompleted(item'[b]) THEN [batch[b] EXCEPT !.status = "completed", !.age = "fresh"]
                                                 ELSE batch[b]
    PROVE  ItemsInv' /\ ItemStep
  <1>1. PICK x \in Positions : item[b][x] = "submitted"
    OBVIOUS
  <1>2. /\ Summary(batch[b].status, item[b])
        /\ batch[b] \in BatchRow
        /\ \A k \in Positions : item[b][k] \in ItemStates
    BY DEF ItemsInv, SummaryInv, TypeInv
  <1>3. batch[b].status \in {"submitting", "submitted", "partial"}
    BY <1>1, <1>2 DEF Summary, BatchRow
  <1>4. \A k \in Positions : /\ k \in K => item[b][k] = "submitted" /\ item'[b][k] = "completed"
                             /\ k \notin K => item'[b][k] = item[b][k]
    OBVIOUS
  <1>5. /\ batch'[b].id = batch[b].id /\ batch'[b].art = batch[b].art
        /\ AllCompleted(item'[b]) => batch'[b].status = "completed"
        /\ ~AllCompleted(item'[b]) => batch'[b].status = batch[b].status /\ batch'[b].token = batch[b].token
    BY <1>2 DEF BatchRow
  <1>6. AllCompleted(item'[b]) <=> \A k \in Positions : item'[b][k] \in {"absent", "completed"}
    BY DEF AllCompleted
  <1>7. Summary(batch'[b].status, item'[b])
    <2>1. CASE AllCompleted(item'[b])
      BY <1>5, <1>6, <2>1 DEF Summary, UnresolvedStates
    <2>2. CASE ~AllCompleted(item'[b])
      <3>1. \A k \in Positions : /\ item'[b][k] \in Acked <=> item[b][k] \in Acked
                                 /\ item'[b][k] \notin Acked => item'[b][k] = item[b][k]
        BY <1>4 DEF Acked
      <3>2. \E k \in Positions : item'[b][k] \notin {"absent", "completed"}
        BY <1>6, <2>2
      <3>. QED  BY <1>2, <1>3, <1>5, <2>2, <3>1, <3>2 DEF Summary, Acked
    <2>. QED  BY <2>1, <2>2
  <1>8. HandInv'
    <2>1. ASSUME NEW w \in Workers PROVE Holding(w)'
      <3>1. Leased(w)' /\ worker[w].b \in Batches => Leased(w)
        BY <1>3, <1>5 DEF Leased
      <3>2. \A c \in Batches, k \in Positions :
               \/ item'[c][k] = item[c][k]
               \/ item'[c][k] \in Acked /\ item[c][k] \in Acked
        BY <1>4 DEF Acked
      <3>. QED  BY <3>1, <3>2, HoldingKept DEF ItemsInv, HandInv
    <2>. QED  BY <2>1 DEF HandInv
  <1>9. b \in Unresolved
    BY <1>3 DEF Unresolved, UnresolvedStates
  <1>10. batch'[b].status = "submitting" => batch'[b].token # NoWorker
    BY <1>1, <1>2, <1>5 DEF ItemsInv, QueueInv
  <1>11. ItemsInv'
    BY <1>7, <1>8, <1>9, <1>10, OneBatchSteps
  <1>12. Measures(b, K)
    BY <1>3, <1>5, <1>9 DEF Measures, Moves, SameBatch, StillOpen, UnresolvedStates
  <1>. QED  BY <1>11, <1>12 DEF ItemStep

LEMMA ItemsReadback ==
    ASSUME TypeInv, ItemsInv, NEW b \in Batches, NEW k \in Positions, Readback(b, k)
    PROVE  ItemsInv' /\ ItemStep
  <1>1. /\ item[b][k] = "submitted" /\ worker' = worker
        /\ item' = [item EXCEPT ![b][k] = "completed"]
        /\ batch' = IF AllCompleted(item'[b])
                      THEN [batch EXCEPT ![b].status = "completed", ![b].age = "fresh"] ELSE batch
    BY DEF Readback
  <1>2. /\ \A c \in Batches \ {b} : batch'[c] = batch[c] /\ item'[c] = item[c]
        /\ item'[b] = [j \in Positions |-> IF j \in {k} THEN "completed" ELSE item[b][j]]
        /\ batch'[b] = IF AllCompleted(item'[b]) THEN [batch[b] EXCEPT !.status = "completed", !.age = "fresh"]
                                                 ELSE batch[b]
    BY <1>1 DEF TypeInv
  <1>3. {k} \in SUBSET Positions /\ {k} # {} /\ \A j \in {k} : item[b][j] = "submitted"
    BY <1>1
  <1>. QED  BY <1>1, <1>2, <1>3, ItemsMeasured

\* What an operator closes is failed, as a batch and in what was left of it.
LEMMA ItemsClosed ==
    ASSUME TypeInv, ItemsInv, NEW b \in Batches, NEW S, Closed(b, S), "absent" \notin S,
           \A k \in Positions : item[b][k] \in S \cup {"absent", "completed", "failed"},
           b \in Unresolved
    PROVE  ItemsInv' /\ Moves(b, Items(b, S), "failed") /\ batch'[b].status = "failed"
  <1>. DEFINE new == [k \in Positions |-> IF item[b][k] \in S THEN "failed" ELSE item[b][k]]
  <1>1. /\ item' = [item EXCEPT ![b] = new] /\ worker' = worker
        /\ batch' = [batch EXCEPT ![b].status = "failed", ![b].token = NoWorker]
    BY DEF Closed
  <1>2. new = [k \in Positions |-> IF k \in Items(b, S) THEN "failed" ELSE item[b][k]]
    BY DEF Items
  <1>3. \A k \in Positions : new[k] \in {"absent", "completed", "failed"}
    OBVIOUS
  <1>. HIDE DEF new
  <1>4. /\ \A c \in Batches \ {b} : batch'[c] = batch[c] /\ item'[c] = item[c]
        /\ item'[b] = new
        /\ batch'[b].status = "failed" /\ batch'[b].id = batch[b].id /\ batch'[b].art = batch[b].art
    BY <1>1 DEF TypeInv, BatchRow
  <1>5. Summary("failed", new)
    BY <1>3 DEF Summary, UnresolvedStates
  <1>6. ItemsInv'
    BY <1>1, <1>4, <1>5, NoneHolds, OneBatchSteps DEF UnresolvedStates
  <1>7. Items(b, S) \in SUBSET Positions
    BY DEF Items
  <1>8. Moves(b, Items(b, S), "failed")
    BY <1>2, <1>4, <1>7 DEF Moves, SameBatch, StillOpen, Unresolved, UnresolvedStates
  <1>. QED  BY <1>4, <1>6, <1>8

LEMMA ItemsOperator ==
    ASSUME TypeInv, ItemsInv, NEW b \in Batches, ConfirmNotSubmitted(b) \/ CloseWithoutRetry(b)
    PROVE  ItemsInv' /\ ItemStep
  <1>1. /\ Summary(batch[b].status, item[b])
        /\ \A k \in Positions : item[b][k] \in ItemStates
    BY DEF ItemsInv, SummaryInv, TypeInv
  <1>2. b \in Unresolved
    BY DEF ConfirmNotSubmitted, NotSubmitted, CloseWithoutRetry, InDoubtOrPart, Unresolved, UnresolvedStates
  <1>3. \A k \in Positions : item[b][k] # "failed"
    <2>1. batch[b].status \in {"submitting", "partial", "unknown"}
      BY DEF ConfirmNotSubmitted, NotSubmitted, CloseWithoutRetry, InDoubtOrPart
    <2>. QED  BY <1>1, <2>1 DEF Summary
  <1>4. CASE ConfirmNotSubmitted(b)
    <2>1. \A k \in Positions : item[b][k] \notin {"submitting", "submitted", "completed"}
      BY <1>4 DEF ConfirmNotSubmitted, NotSubmitted, Items, Acked
    <2>2. \A k \in Positions : item[b][k] \in {"unknown", "pending"} \cup {"absent", "completed", "failed"}
      BY <1>1, <2>1 DEF ItemStates
    <2>3. /\ ItemsInv' /\ Moves(b, Items(b, {"unknown", "pending"}), "failed")
          /\ batch'[b].status = "failed"
      BY <1>2, <1>4, <2>2, ItemsClosed DEF ConfirmNotSubmitted
    <2>. QED  BY <2>1, <2>3 DEF ItemStep, DropsAll
  <1>5. CASE CloseWithoutRetry(b)
    <2>1. \A k \in Positions : item[b][k] \notin {"unknown", "submitting", "submitted"}
      BY <1>5 DEF CloseWithoutRetry, Items
    <2>2. \A k \in Positions : item[b][k] \in {"pending"} \cup {"absent", "completed", "failed"}
      BY <1>1, <2>1 DEF ItemStates
    <2>3. /\ ItemsInv' /\ Moves(b, Items(b, {"pending"}), "failed")
          /\ batch'[b].status = "failed"
      BY <1>2, <1>5, <2>2, ItemsClosed DEF CloseWithoutRetry
    <2>. QED  BY <2>1, <2>3 DEF ItemStep, DropsRest
  <1>. QED  BY <1>4, <1>5

\* Everything a sync finds awaited is of the one unresolved batch.
LEMMA ItemsSync ==
    ASSUME TypeInv, ItemsInv, NEW found \in BOOLEAN, NEW done \in SUBSET Awaited, SyncFinish(found, done)
    PROVE  ItemsInv' /\ ItemStep
  <1>1. worker' = worker
    BY DEF SyncFinish
  <1>2. \A c \in Batches : /\ Summary(batch[c].status, item[c]) /\ batch[c] \in BatchRow
                           /\ item[c] \in [Positions -> ItemStates]
    BY DEF ItemsInv, SummaryInv, TypeInv
  <1>3. ASSUME NEW c \in Batches, NEW k \in Positions, <<c, k>> \in done
        PROVE  item[c][k] = "submitted" /\ c \in Unresolved
    <2>1. item[c][k] = "submitted"
      BY <1>3 DEF Awaited
    <2>. QED  BY <1>2, <2>1 DEF Summary, Unresolved, UnresolvedStates, BatchRow
  <1>4. CASE SameLifecycle
    <2>. DEFINE K(c) == {k \in Positions : <<c, k>> \in done}
    <2>1. item' = [c \in Batches |-> [k \in Positions |->
                     IF <<c, k>> \in done THEN "completed" ELSE item[c][k]]]
      BY <1>4 DEF SyncFinish
    <2>2. batch' = [c \in Batches |->
                IF batch[c].status \in UnresolvedStates \ {"unknown"} /\ AllCompleted(item'[c])
                  THEN [batch[c] EXCEPT !.status = "completed", !.age = "fresh"] ELSE batch[c]]
      BY <1>4 DEF SyncFinish
    <2>3. ASSUME NEW c \in Batches, K(c) = {} PROVE batch'[c] = batch[c] /\ item'[c] = item[c]
      <3>1. \A k \in Positions : <<c, k>> \notin done
        BY <2>3
      <3>2. item'[c] = item[c]
        <4>1. item'[c] = [k \in Positions |-> IF <<c, k>> \in done THEN "completed" ELSE item[c][k]]
          BY <2>1
        <4>. QED  BY <1>2, <3>1, <4>1
      <3>3. batch[c].status \in UnresolvedStates => ~AllCompleted(item[c])
        BY <1>2 DEF Summary, AllCompleted
      <3>. QED  BY <2>2, <3>2, <3>3
    <2>4. CASE \A c \in Batches : K(c) = {}
      <3>1. batch' = batch /\ item' = item
        <4>1. batch \in [Batches -> BatchRow] /\ item \in [Batches -> [Positions -> ItemStates]]
          BY DEF TypeInv
        <4>2. batch' = [c \in Batches |-> batch'[c]] /\ item' = [c \in Batches |-> item'[c]]
          BY <2>1, <2>2
        <4>. QED  BY <2>3, <2>4, <4>1, <4>2
      <3>2. HandInv'
        BY <1>1, <3>1 DEF ItemsInv, HandInv, Holding, Leased
      <3>3. SummaryInv' /\ QueueInv' /\ OneOpen'
        BY <3>1 DEF ItemsInv, SummaryInv, QueueInv, OneOpen, Unresolved
      <3>4. Still
        BY <3>1 DEF Still, SameBatch, StillOpen
      <3>. QED  BY <3>2, <3>3, <3>4 DEF ItemsInv, ItemStep
    <2>5. ASSUME NEW b \in Batches, K(b) # {} PROVE ItemsInv' /\ ItemStep
      <3>1. b \in Unresolved /\ \A k \in K(b) : item[b][k] = "submitted"
        BY <1>3, <2>5
      <3>2. \A c \in Batches \ {b} : K(c) = {}
        BY <1>3, <3>1 DEF ItemsInv, OneOpen
      <3>3. \A c \in Batches \ {b} : batch'[c] = batch[c] /\ item'[c] = item[c]
        BY <2>3, <3>2
      <3>4. item'[b] = [k \in Positions |-> IF k \in K(b) THEN "completed" ELSE item[b][k]]
        BY <2>1
      <3>5. batch[b].status # "unknown" /\ batch[b].status \in UnresolvedStates
        BY <1>2, <2>5, <3>1 DEF Summary, Unresolved
      <3>6. batch'[b] = IF AllCompleted(item'[b]) THEN [batch[b] EXCEPT !.status = "completed", !.age = "fresh"]
                                                  ELSE batch[b]
        BY <2>2, <3>5
      <3>7. K(b) \in SUBSET Positions
        OBVIOUS
      <3>. QED  BY <1>1, <2>5, <3>1, <3>3, <3>4, <3>6, <3>7, ItemsMeasured
    <2>. QED  BY <2>4, <2>5
  <1>5. CASE ~SameLifecycle
    <2>1. UNCHANGED <<batch, item>>
      BY <1>5 DEF SyncFinish
    <2>2. HandInv'
      BY <1>1, <2>1 DEF ItemsInv, HandInv, Holding, Leased
    <2>3. SummaryInv' /\ QueueInv' /\ OneOpen'
      BY <2>1 DEF ItemsInv, SummaryInv, QueueInv, OneOpen, Unresolved
    <2>4. Still
      BY <2>1 DEF Still, SameBatch, StillOpen
    <2>. QED  BY <2>2, <2>3, <2>4 DEF ItemsInv, ItemStep
  <1>. QED  BY <1>4, <1>5

LEMMA ItemsAside ==
    ASSUME ItemsInv, UNCHANGED <<batch, item>>,
           worker' = worker \/ worker' = [w \in Workers |-> Idle]
    PROVE  ItemsInv' /\ ItemStep
  <1>1. HandInv'
    BY DEF ItemsInv, HandInv, Holding, Leased, Idle
  <1>2. SummaryInv' /\ QueueInv' /\ OneOpen'
    BY DEF ItemsInv, SummaryInv, QueueInv, OneOpen, Unresolved
  <1>3. Still
    BY DEF Still, SameBatch, StillOpen
  <1>. QED  BY <1>1, <1>2, <1>3 DEF ItemsInv, ItemStep

LEMMA ItemsNext ==
    ASSUME TypeInv, ItemsInv, [Next]_vars
    PROVE  ItemsInv' /\ ItemStep
  <1>1. CASE \/ CycleStep \/ UNCHANGED vars
             \/ PollDiesTriggering /\ worker' = [w \in Workers |-> Idle] /\ sync' = NoSync
                  /\ UNCHANGED <<approved, measured, batch, item, paid, synced>>
    BY <1>1, AsideSteps, ItemsAside DEF Aside
  <1>2. CASE \E a \in Artifacts : Approve(a) \/ \E q \in Requests : CreateBatch(q, a)
    BY <1>2, ItemsCreate, ItemsAside DEF Approve
  <1>3. ASSUME NEW w \in Workers, ClaimBatch(w) \/ WorkerStep(w) PROVE ItemsInv' /\ ItemStep
    BY <1>3, ItemsClaim, ItemsLoad, ItemsHeartbeat, ItemsMark, ItemsAsk, ItemsError, ItemsKey,
       ItemsFinish DEF WorkerStep
  <1>4. ASSUME NEW b \in Batches,
               \/ BatchAges(b) \/ GiveUpBatch(b)
               \/ \E k \in Positions : Readback(b, k)
               \/ ConfirmNotSubmitted(b) \/ CloseWithoutRetry(b)
        PROVE  ItemsInv' /\ ItemStep
    BY <1>4, ItemsAges, ItemsGiveUp, ItemsReadback, ItemsOperator
  <1>5. CASE SyncStart \/ SyncFails
    BY <1>5, ItemsAside DEF SyncStart, SyncFails
  <1>6. CASE \E found \in BOOLEAN, done \in SUBSET Awaited : SyncFinish(found, done)
    BY <1>6, ItemsSync
  <1>7. CASE Crash
    BY <1>7, ItemsAside DEF Crash
  <1>. QED  BY <1>1, <1>2, <1>3, <1>4, <1>5, <1>6, <1>7 DEF Next

LEMMA ItemsInvariant == Spec => [](TypeInv /\ ItemsInv)
  <1>1. Init => TypeInv /\ ItemsInv
    BY TypeInit, ItemsInit
  <1>2. TypeInv /\ ItemsInv /\ [Next]_vars => (TypeInv /\ ItemsInv)'
    BY TypeNext, ItemsNext
  <1>. QED  BY <1>1, <1>2, PTL DEF Spec

\* What a summary says, as BatchSummarizesItems says it.
LEMMA Summarized ==
    ASSUME TypeInv, SummaryInv
    PROVE  BatchSummarizesItems
  <1>1. ASSUME NEW b \in Batches
        PROVE  CASE batch[b].status = "absent"     -> Real(b) = {}
                 [] batch[b].status = "submitting" -> Items(b, {"unknown", "failed"}) = {}
                                                      /\ Cardinality(Items(b, {"submitting"})) <= 1
                 [] batch[b].status = "submitted"  -> Real(b) = Items(b, Acked)
                 [] batch[b].status = "partial"    -> Items(b, Acked) # {} /\ Items(b, {"submitting"}) = {}
                 [] batch[b].status = "unknown"    -> Items(b, Acked \cup {"submitting"}) = {}
                 [] batch[b].status = "completed"  -> Real(b) = Items(b, {"completed"})
                 [] OTHER                          -> Real(b) = Items(b, {"completed", "failed"})
    <2>. DEFINE st == batch[b].status
    <2>1. Summary(st, item[b]) /\ \A k \in Positions : item[b][k] \in ItemStates
      BY DEF SummaryInv, TypeInv
    <2>2. st \in {"absent", "submitting", "submitted", "partial", "unknown", "completed", "failed"}
      BY DEF TypeInv, BatchRow
    <2>. HIDE DEF st
    <2>3. st = "submitting" => Cardinality(Items(b, {"submitting"})) <= 1
      <3>. SUFFICES ASSUME st = "submitting" PROVE Cardinality(Items(b, {"submitting"})) <= 1
        OBVIOUS
      <3>1. \A j, k \in Items(b, {"submitting"}) : j = k
        BY <2>1 DEF Summary, Items
      <3>2. CASE Items(b, {"submitting"}) = {}
        BY <3>2, FS_EmptySet
      <3>3. CASE \E k : k \in Items(b, {"submitting"})
        <4>1. PICK k : Items(b, {"submitting"}) = {k}
          BY <3>1, <3>3
        <4>. QED  BY <4>1, FS_Singleton
      <3>. QED  BY <3>2, <3>3
    <2>4. st = "submitting" => Items(b, {"unknown", "failed"}) = {}
      BY <2>1 DEF Summary, Items
    <2>5. st = "absent" => Real(b) = {}
      BY <2>1 DEF Summary, Items, Real
    <2>6. st = "submitted" => Real(b) = Items(b, Acked)
      BY <2>1 DEF Summary, Items, Real, Acked, ItemStates
    <2>7. st = "partial" => Items(b, Acked) # {} /\ Items(b, {"submitting"}) = {}
      BY <2>1 DEF Summary, Items
    <2>8. st = "unknown" => Items(b, Acked \cup {"submitting"}) = {}
      BY <2>1 DEF Summary, Items, Acked
    <2>9. st = "completed" => Real(b) = Items(b, {"completed"})
      BY <2>1 DEF Summary, Items, Real, ItemStates
    <2>10. st = "failed" => Real(b) = Items(b, {"completed", "failed"})
      BY <2>1 DEF Summary, Items, Real, ItemStates
    <2>. QED  BY <2>2, <2>3, <2>4, <2>5, <2>6, <2>7, <2>8, <2>9, <2>10 DEF st
  <1>. QED  BY <1>1 DEF BatchSummarizesItems

\* BatchSummarizesItems: the status of a batch says what its items say, whoever
\* wrote the two last.
THEOREM BatchesSummarizeItems == Spec => []BatchSummarizesItems
  <1>1. TypeInv /\ ItemsInv => BatchSummarizesItems
    BY Summarized DEF ItemsInv
  <1>. QED  BY ItemsInvariant, <1>1, PTL

\* OffersAreHonoured: what the page of an active merchant offers, by its own queries,
\* the endpoint accepts.
THEOREM OffersStayHonoured == Spec => []OffersAreHonoured
  <1>1. TypeInv => OffersAreHonoured
    <2>. SUFFICES ASSUME TypeInv, active PROVE OffersAreHonoured
      BY DEF OffersAreHonoured
    <2>1. CanRegenerate /\ Running = RunningKeywords => Running = {}
      BY DEF CanRegenerate
    <2>2. CanApprove => Approvable(head[place].active)
      BY DEF CanApprove, Approvable
    <2>3. CanGenerate /\ head[place].active \in approved => Confirmable(head[place].active)
      BY DEF CanGenerate, CanApprove, Confirmable, PaidEligible, HeadValid
    <2>4. ASSUME NEW b \in Unresolved, CanConfirmNotSubmitted(b) PROVE NotSubmitted(b)
      <3>1. Items(b, {"submitting"} \cup Acked) \subseteq Real(b)
        BY DEF Items, Real, Acked, ItemStates
      <3>2. Items(b, {"submitting"} \cup Acked) \cap Items(b, {"pending", "unknown"}) = {}
            /\ Items(b, {"pending"}) \subseteq Items(b, {"pending", "unknown"})
        BY DEF Items, Acked
      <3>. QED  BY <2>4, <3>1, <3>2 DEF CanConfirmNotSubmitted, NotSubmitted
    <2>. QED  BY <2>1, <2>2, <2>3, <2>4 DEF OffersAreHonoured
  <1>2. Spec => []TypeInv
    BY ScanTypesKept
  <1>. QED  BY <1>1, <1>2, PTL

-----------------------------------------------------------------------------
(* The keyword versions.  A head stays trusted because the row it names     *)
(* never changes once it is ready; and a pass may make a row the active     *)
(* version, after it asked Core AI outside any transaction, because nobody  *)
(* but a pass ends a row that has a run.                                    *)

\* A request holds a claim only until its row has a run.
RequestsInv ==
    \A a \in Artifacts : request[a].at # "none" =>
        artifact[a].kind = "KEYWORD_SET" /\ artifact[a].run = 0

\* What a pass has read is still so when it acts on it.
PollInv ==
    poll.verdict # "none" =>
        /\ poll.row \in Running /\ artifact[poll.row].run # 0
        /\ run[artifact[poll.row].run].state # "RUNNING"
        /\ poll.verdict = "ready" =>
             /\ run[artifact[poll.row].run].output \in Payloads
             /\ artifact[poll.row].by = "SKILL" =>
                  EveryKeywordScored(run[artifact[poll.row].run].output)

RowsInv  == \A a \in Artifacts : artifact[a].by = "SKILL" => artifact[a].kind = "KEYWORD_SET"
RunsInv  == \A r \in Runs : run[r].kind = "absent" => run[r].state = "RUNNING"
HeadsInv == \A p \in Places : ~head[p].row => head[p].active = 0

\* Core AI has the runs that rows and requests name.
NamedInv ==
    \A a \in Artifacts : /\ artifact[a].run # 0 => run[artifact[a].run].kind # "absent"
                         /\ request[a].run # 0 => run[request[a].run].kind # "absent"

VersionsInv == RequestsInv /\ PollInv /\ RowsInv /\ RunsInv /\ NamedInv /\ HeadsInv

\* The steps as the tables of the cycle see them.
RowKept(a) == artifact'[a] = artifact[a]

\* A row that ends was running; one that has a run keeps it, and is ended by a pass.
RowEdited(a) ==
    /\ a \in Running
    /\ artifact'[a].kind = artifact[a].kind /\ artifact'[a].by = artifact[a].by
    /\ artifact[a].run # 0 =>
         artifact'[a].run = artifact[a].run /\ (artifact'[a].status = "running" \/ poll' = IdlePoll)
    /\ artifact'[a].run # artifact[a].run => request'[a].at = "none"

RowAdded(a) ==
    /\ artifact[a].kind = "absent" /\ artifact'[a].kind # "absent"
    /\ artifact'[a].by = "SKILL" => artifact'[a].kind = "KEYWORD_SET"

RowsStep == \A a \in Artifacts : RowKept(a) \/ RowEdited(a) \/ RowAdded(a)

RequestsStep ==
    \A a \in Artifacts : request'[a].at # "none" =>
        \/ request[a].at # "none"
        \/ artifact'[a].kind = "KEYWORD_SET" /\ artifact'[a].run = 0

RunsStep ==
    \A r \in Runs :
        /\ run'[r].kind = "absent" => run[r].kind = "absent" /\ run'[r].state = "RUNNING"
        /\ run[r].state # "RUNNING" => run'[r].state # "RUNNING" /\ run'[r].output = run[r].output

NamedStep ==
    \A a \in Artifacts :
        /\ \/ artifact'[a].run \in {0, artifact[a].run, request[a].run}
           \/ run'[artifact'[a].run].kind # "absent"
        /\ \/ request'[a].run \in {0, request[a].run}
           \/ run'[request'[a].run].kind # "absent"

PollStep == poll' \in {poll, IdlePoll} \/ PollInv'

\* free says whether no batch is unresolved.
HeadsStep(free) ==
    \A p \in Places :
        \/ head'[p] = head[p]
        \/ /\ head'[p].row /\ HeadValid(p)'
           /\ free \/ ~head[p].row \/ RunningKeywords # {}

KeywordsStep(free) == free \/ RunningKeywords' \subseteq RunningKeywords

VersionsStep(free) ==
    RowsStep /\ RequestsStep /\ RunsStep /\ NamedStep /\ PollStep /\ HeadsStep(free) /\ KeywordsStep(free)

\* A version that is ready stays as it is.
LEMMA ReadyKept ==
    ASSUME CycleTypeOK, RowsStep, NEW a \in Artifacts, IsReadySet(a)
    PROVE  artifact'[a] = artifact[a]
  BY DEF RowsStep, RowKept, RowEdited, RowAdded, IsReadySet, Running

LEMMA VersionsKept ==
    ASSUME CycleTypeOK, VersionsInv, NEW free \in BOOLEAN, VersionsStep(free)
    PROVE  VersionsInv'
  <1>1. RequestsInv'
    <2>1. ASSUME NEW a \in Artifacts, request'[a].at # "none"
          PROVE  artifact'[a].kind = "KEYWORD_SET" /\ artifact'[a].run = 0
      <3>1. CASE request[a].at # "none"
        <4>1. artifact[a].kind = "KEYWORD_SET" /\ artifact[a].run = 0
          BY <3>1 DEF VersionsInv, RequestsInv
        <4>2. RowKept(a) \/ RowEdited(a)
          BY <4>1 DEF VersionsStep, RowsStep, RowAdded
        <4>. QED  BY <2>1, <4>1, <4>2 DEF RowKept, RowEdited
      <3>. QED  BY <2>1, <3>1 DEF VersionsStep, RequestsStep
    <2>. QED  BY <2>1 DEF RequestsInv
  <1>2. PollInv'
    <2>1. CASE poll' = IdlePoll
      BY <2>1 DEF PollInv, IdlePoll
    <2>2. CASE poll' = poll /\ poll' # IdlePoll /\ poll.verdict # "none"
      <3>. DEFINE a == poll.row
      <3>1. /\ a \in Artifacts /\ a \in Running /\ artifact[a].run # 0
            /\ run[artifact[a].run].state # "RUNNING"
            /\ poll.verdict = "ready" =>
                 /\ run[artifact[a].run].output \in Payloads
                 /\ artifact[a].by = "SKILL" => EveryKeywordScored(run[artifact[a].run].output)
        BY <2>2 DEF VersionsInv, PollInv, Running
      <3>2. RowKept(a) \/ RowEdited(a)
        BY <3>1 DEF VersionsStep, RowsStep, RowAdded, Running
      <3>3. /\ artifact'[a].run = artifact[a].run /\ artifact'[a].by = artifact[a].by
            /\ a \in Running'
        BY <2>2, <3>1, <3>2 DEF RowKept, RowEdited, Running
      <3>4. artifact[a].run \in Runs
        BY <3>1 DEF CycleTypeOK, Row, Runs
      <3>5. /\ run'[artifact[a].run].state # "RUNNING"
            /\ run'[artifact[a].run].output = run[artifact[a].run].output
        BY <3>1, <3>4 DEF VersionsStep, RunsStep
      <3>. QED  BY <2>2, <3>1, <3>3, <3>5 DEF PollInv
    <2>3. CASE poll' = poll /\ poll.verdict = "none"
      BY <2>3 DEF PollInv
    <2>. QED  BY <2>1, <2>2, <2>3 DEF VersionsStep, PollStep
  <1>3. RowsInv'
    BY DEF VersionsInv, RowsInv, VersionsStep, RowsStep, RowKept, RowEdited, RowAdded
  <1>4. RunsInv'
    BY DEF VersionsStep, RunsStep, RunsInv
  <1>5. HeadsInv'
    BY DEF VersionsInv, HeadsInv, VersionsStep, HeadsStep
  <1>6. NamedInv'
    <2>1. ASSUME NEW n \in 0..MaxRuns, n # 0, run[n].kind # "absent" PROVE run'[n].kind # "absent"
      BY <2>1 DEF VersionsStep, RunsStep, Runs
    <2>2. \A a \in Artifacts : artifact[a].run \in 0..MaxRuns /\ request[a].run \in 0..MaxRuns
      BY DEF CycleTypeOK, Row, RequestState
    <2>. QED  BY <2>1, <2>2 DEF VersionsInv, NamedInv, VersionsStep, NamedStep
  <1>. QED  BY <1>1, <1>2, <1>3, <1>4, <1>5, <1>6 DEF VersionsInv

LEMMA TrustKept ==
    ASSUME CycleTypeOK, HeadTrusted, NEW free \in BOOLEAN, VersionsStep(free)
    PROVE  HeadTrusted'
  <1>1. ASSUME NEW p \in Places, head'[p] = head[p] PROVE HeadValid(p)'
    <2>1. CASE head[p].active = 0
      BY <1>1, <2>1 DEF HeadValid
    <2>2. CASE head[p].active # 0
      <3>1. head[p].active \in Artifacts
        BY <2>2, CycleBounds DEF CycleTypeOK, HeadRow, Artifacts
      <3>2. /\ IsReadySet(head[p].active) /\ artifact[head[p].active].place = p
            /\ head[p].reason \in ReasonsFor(TrustedSource(artifact[head[p].active]))
        BY <2>2 DEF HeadTrusted, HeadValid
      <3>3. artifact'[head[p].active] = artifact[head[p].active]
        BY <3>1, <3>2, ReadyKept DEF VersionsStep
      <3>. QED  BY <1>1, <3>2, <3>3 DEF HeadValid, IsReadySet
    <2>. QED  BY <2>1, <2>2
  <1>. QED  BY <1>1 DEF HeadTrusted, VersionsStep, HeadsStep

\* What a step writes to a row is a row again, and leaves the other columns alone.
Alike(r, s) == s.kind = r.kind /\ s.by = r.by /\ s.run = r.run /\ s.place = r.place

LEMMA StatusRow ==
    ASSUME NEW r \in Row, NEW x \in {"running", "ready", "failed"}, NEW s, s = [r EXCEPT !.status = x]
    PROVE  s \in Row /\ Alike(r, s) /\ s.status = x
  BY DEF Row, Alike

LEMMA WaitsRow ==
    ASSUME NEW r \in Row, NEW x \in {"no", "started", "over"}, NEW s, s = [r EXCEPT !.waits = x]
    PROVE  s \in Row /\ Alike(r, s) /\ s.status = r.status
  BY DEF Row, Alike

LEMMA AgeRow ==
    ASSUME NEW r \in Row, NEW x \in {"fresh", "stale"}, NEW s, s = [r EXCEPT !.age = x]
    PROVE  s \in Row /\ Alike(r, s) /\ s.status = r.status
  BY DEF Row, Alike

LEMMA DispatchRow ==
    ASSUME NEW r \in Row, NEW x \in {"none", "pending", "dispatching", "dispatched", "unknown", "not_required"},
           NEW s, s = [r EXCEPT !.dispatch = x]
    PROVE  s \in Row /\ Alike(r, s) /\ s.status = r.status
  BY DEF Row, Alike

LEMMA PlaceRow ==
    ASSUME NEW r \in Row, NEW x \in Places \cup {NoPlace}, NEW s, s = [r EXCEPT !.place = x]
    PROVE  s \in Row /\ s.kind = r.kind /\ s.by = r.by /\ s.run = r.run /\ s.status = r.status
  BY DEF Row

LEMMA RunOfRow ==
    ASSUME NEW r \in Row, NEW x \in 0..MaxRuns, NEW s, s = [r EXCEPT !.run = x]
    PROVE  s \in Row /\ s.kind = r.kind /\ s.by = r.by /\ s.status = r.status
  BY DEF Row

LEMMA PayloadRow ==
    ASSUME NEW r \in Row, NEW p \in Payloads \cup {NoPayload}, NEW s, s = [r EXCEPT !.payload = p]
    PROVE  s \in Row /\ Alike(r, s) /\ s.status = r.status /\ s.payload = p
  BY DEF Row, Alike

LEMMA ProvenRow ==
    ASSUME NEW r \in Row, NEW v \in BOOLEAN, NEW s, s = [r EXCEPT !.proven = v]
    PROVE  s \in Row /\ Alike(r, s) /\ s.status = r.status /\ s.payload = r.payload /\ s.proven = v
  BY DEF Row, Alike

LEMMA EndedRow ==
    ASSUME NEW r \in Row, NEW x \in {"running", "ready", "failed"}
    PROVE  Ended(r, x) \in Row /\ Alike(r, Ended(r, x)) /\ Ended(r, x).status = x
  <1>. DEFINE s == [r EXCEPT !.status = x]
              t == [s EXCEPT !.waits = "no"]
              u == [t EXCEPT !.age = "fresh"]
  <1>1. s \in Row /\ Alike(r, s) /\ s.status = x
    BY StatusRow
  <1>2. t \in Row /\ Alike(s, t) /\ t.status = s.status
    <2>. HIDE DEF s
    <2>. QED  BY <1>1, WaitsRow
  <1>3. u \in Row /\ Alike(t, u) /\ u.status = t.status
    <2>. HIDE DEF s, t
    <2>. QED  BY <1>2, AgeRow
  <1>4. u = Ended(r, x)
    BY DEF Ended
  <1>. HIDE DEF s, t, u
  <1>. QED  BY <1>1, <1>2, <1>3, <1>4 DEF Alike

LEMMA EmptyRow ==
    ASSUME NEW a \in Artifacts
    PROVE  NoRow(a) \in Row
  BY CycleBounds DEF NoRow, Row, Artifacts

\* A row that a step inserts.
FreshRow(a, k, x, by, d, r, p, e, c) ==
    [kind |-> k, status |-> x, by |-> by, dispatch |-> d, run |-> r, place |-> p, expects |-> e,
     cycle |-> c, payload |-> NoPayload, proven |-> FALSE, waits |-> "no", age |-> "fresh"]

LEMMA FreshRowType ==
    ASSUME NEW a \in Artifacts, NEW k \in Kinds, NEW x \in {"running", "ready", "failed"},
           NEW by \in {"FBR", "SKILL", "LEGACY"}, NEW d \in {"none", "pending"},
           NEW r \in 0..MaxRuns, NEW p \in Places \cup {NoPlace}, NEW e \in 0..MaxArtifacts,
           NEW c \in Artifacts
    PROVE  /\ FreshRow(a, k, x, by, d, r, p, e, c) \in Row
           /\ FreshRow(a, k, x, by, d, r, p, e, c).kind = k
           /\ FreshRow(a, k, x, by, d, r, p, e, c).by = by
           /\ FreshRow(a, k, x, by, d, r, p, e, c).run = r
  BY DEF FreshRow, Row

\* Steps that leave some of the tables alone.
LEMMA SameTables ==
    ASSUME VersionsInv, NEW free \in BOOLEAN
    PROVE  /\ artifact' = artifact => RowsStep /\ KeywordsStep(free)
           /\ request' = request => RequestsStep
           /\ run' = run => RunsStep
           /\ UNCHANGED <<artifact, request>> => NamedStep
           /\ head' = head => HeadsStep(free)
           /\ poll' = poll \/ poll' = IdlePoll => PollStep
  BY DEF RowsStep, RowKept, KeywordsStep, RunningKeywords, Running, RequestsStep, RunsStep, RunsInv,
         VersionsInv, HeadsStep, PollStep, NamedStep

LEMMA RequestEnds ==
    ASSUME CycleTypeOK, NEW a \in Artifacts, EndRequest(a)
    PROVE  /\ request' \in [Artifacts -> RequestState] /\ request'[a].at = "none"
           /\ RequestsStep
           /\ \A b \in Artifacts : request'[b].run \in {0, request[b].run}
  <1>1. NoRequest \in RequestState /\ NoRequest.at = "none" /\ NoRequest.run = 0
    BY CycleBounds DEF NoRequest, RequestState
  <1>2. request' = [request EXCEPT ![a] = NoRequest] /\ request \in [Artifacts -> RequestState]
    BY DEF EndRequest, CycleTypeOK
  <1>. QED  BY <1>1, <1>2 DEF RequestsStep

LEMMA RequestMoves ==
    ASSUME CycleTypeOK, NEW a \in Artifacts, request[a].at # "none",
           NEW s \in RequestState, request' = [request EXCEPT ![a] = s]
    PROVE  request' \in [Artifacts -> RequestState] /\ RequestsStep
  BY DEF CycleTypeOK, RequestsStep

LEMMA RequestAt ==
    ASSUME CycleTypeOK, NEW a \in Artifacts, request[a].at # "none",
           NEW at \in {"claimed", "marked", "uncertain", "answered"}, request' = [request EXCEPT ![a].at = at]
    PROVE  /\ request' \in [Artifacts -> RequestState] /\ RequestsStep
           /\ \A b \in Artifacts : request'[b].run \in {0, request[b].run}
  BY DEF CycleTypeOK, RequestsStep, RequestState

LEMMA RunStarts ==
    ASSUME CycleTypeOK, VersionsInv, NEW kind \in Kinds, NewRuns # {}, run' = StartedRun(kind)
    PROVE  run' \in [Runs -> RunRow] /\ RunsStep
  <1>. DEFINE r == First(NewRuns)
              s == [NoRun EXCEPT !.kind = kind]
  <1>1. r \in Runs /\ run[r].kind = "absent"
    <2>1. NewRuns \in SUBSET Nat
      BY DEF NewRuns, Runs
    <2>2. r \in NewRuns
      BY <2>1, FirstIsOne
    <2>. QED  BY <2>2 DEF NewRuns
  <1>2. s \in RunRow /\ s.kind = kind /\ s.state = "RUNNING"
    BY DEF NoRun, RunRow
  <1>3. run' = [run EXCEPT ![r] = s] /\ run \in [Runs -> RunRow]
    BY DEF StartedRun, CycleTypeOK
  <1>. HIDE DEF r, s
  <1>4. run[r].state = "RUNNING"
    BY <1>1 DEF VersionsInv, RunsInv
  <1>. QED  BY <1>1, <1>2, <1>3, <1>4 DEF RunsStep, VersionsInv, RunsInv, Kinds

\* A step that writes one row that is running.
LEMMA RowWritten ==
    ASSUME CycleTypeOK, NEW free \in BOOLEAN, NEW a \in Running, NEW s \in Row,
           artifact' = [artifact EXCEPT ![a] = s],
           s.kind = artifact[a].kind, s.by = artifact[a].by,
           artifact[a].run # 0 => s.run = artifact[a].run /\ (s.status = "running" \/ poll' = IdlePoll),
           s.run # artifact[a].run => s.run = request[a].run /\ request'[a].at = "none",
           \A b \in Artifacts : request'[b].run \in {0, request[b].run}
    PROVE  artifact' \in [Artifacts -> Row] /\ RowsStep /\ KeywordsStep(free) /\ NamedStep
  <1>1. a \in Artifacts /\ artifact[a].kind # "absent" /\ artifact \in [Artifacts -> Row]
    BY DEF Running, CycleTypeOK
  <1>2. artifact'[a] = s /\ \A b \in Artifacts \ {a} : artifact'[b] = artifact[b]
    BY <1>1
  <1>3. RowEdited(a)
    BY <1>2 DEF RowEdited
  <1>4. RowsStep
    BY <1>2, <1>3 DEF RowsStep, RowKept
  <1>5. KeywordsStep(free)
    BY <1>1, <1>2 DEF KeywordsStep, RunningKeywords, Running
  <1>6. NamedStep
    BY <1>2 DEF NamedStep
  <1>. QED  BY <1>1, <1>4, <1>5, <1>6

\* The newest of some rows is one of them.
LEMMA NewestIsOne ==
    ASSUME NEW S \in SUBSET Artifacts, S # {}
    PROVE  Newest(S) \in S
  <1>. DEFINE T == {MaxArtifacts - a : a \in S}
  <1>1. S \subseteq Nat /\ \A a \in S : a <= MaxArtifacts
    BY DEF Artifacts
  <1>2. T \in SUBSET Nat /\ T # {}
    <2>1. \A a \in S : MaxArtifacts - a \in Nat
      BY <1>1, CycleBounds
    <2>2. PICK x : x \in S
      OBVIOUS
    <2>3. MaxArtifacts - x \in T
      BY <2>2
    <2>. QED  BY <2>1, <2>3
  <1>3. PICK t \in T : \A u \in T : ~ (<<u, t>> \in OpToRel(<, Nat))
    BY <1>2, NatLessThanWellFounded, WFMin
  <1>4. \A u \in T : ~ (u < t)
    BY <1>2, <1>3 DEF OpToRel
  <1>5. PICK a \in S : t = MaxArtifacts - a
    BY <1>3
  <1>6. \A b \in S : b <= a
    <2>1. ASSUME NEW b \in S PROVE b <= a
      <3>1. MaxArtifacts - b \in T
        OBVIOUS
      <3>2. ~ (MaxArtifacts - b < MaxArtifacts - a)
        BY <1>4, <1>5, <3>1
      <3>. QED  BY <1>1, <3>2, CycleBounds
    <2>. QED  BY <2>1
  <1>. QED  BY <1>6 DEF Newest

\* The head of a place is made from a version that can be trusted, or empty.
LEMMA BootstrapTrusted ==
    ASSUME CycleTypeOK, NEW p \in Places
    PROVE  /\ Bootstrap(p) \in 0..MaxArtifacts
           /\ Bootstrap(p) # 0 => /\ Bootstrap(p) \in Artifacts /\ IsReadySet(Bootstrap(p))
                                  /\ artifact[Bootstrap(p)].place = p
                                  /\ TrustedSource(artifact[Bootstrap(p)]) \in {"SKILL", "FBR"}
  <1>1. \A s : Candidates(p, s) \in SUBSET Artifacts
    BY DEF Candidates
  <1>2. \/ Bootstrap(p) = 0
        \/ \E s \in {"SKILL", "FBR"} : Bootstrap(p) \in Candidates(p, s)
    <2>1. \A S : S = {} => Newest(S) = 0
      BY DEF Newest
    <2>. QED  BY <1>1, <2>1, NewestIsOne DEF Bootstrap
  <1>3. Bootstrap(p) \in 0..MaxArtifacts
    BY <1>1, <1>2, CycleBounds DEF Artifacts
  <1>. QED  BY <1>2, <1>3 DEF Candidates

LEMMA HeadMade ==
    ASSUME CycleTypeOK, VersionsInv, RowsStep, NEW free \in BOOLEAN, NEW q \in Places, head' = Ensured(q)
    PROVE  head' \in [Places -> HeadRow] /\ HeadsStep(free)
  <1>1. CASE head[q].row
    BY <1>1 DEF Ensured, CycleTypeOK, HeadsStep
  <1>2. CASE ~head[q].row
    <2>. DEFINE b == Bootstrap(q)
                h == [row |-> TRUE, active |-> b, reason |-> IF b = 0 THEN "NONE" ELSE "SYSTEM_BOOTSTRAP"]
    <2>1. head' = [head EXCEPT ![q] = h] /\ head \in [Places -> HeadRow]
      BY <1>2 DEF Ensured, CycleTypeOK
    <2>2. /\ b \in 0..MaxArtifacts
          /\ b # 0 => /\ b \in Artifacts /\ IsReadySet(b) /\ artifact[b].place = q
                      /\ TrustedSource(artifact[b]) \in {"SKILL", "FBR"}
      BY BootstrapTrusted
    <2>. HIDE DEF b
    <2>3. h \in HeadRow /\ h.row /\ h.active = b /\ (b # 0 => h.reason = "SYSTEM_BOOTSTRAP")
      BY <2>2 DEF HeadRow
    <2>. HIDE DEF h
    <2>4. head'[q] = h /\ \A p \in Places \ {q} : head'[p] = head[p]
      BY <2>1
    <2>5. HeadValid(q)'
      <3>1. CASE b = 0
        BY <2>3, <2>4, <3>1 DEF HeadValid
      <3>2. CASE b # 0
        <4>1. artifact'[b] = artifact[b]
          BY <2>2, <3>2, ReadyKept
        <4>2. "SYSTEM_BOOTSTRAP" \in ReasonsFor(TrustedSource(artifact[b]))
          BY <2>2, <3>2 DEF ReasonsFor
        <4>. QED  BY <2>2, <2>3, <2>4, <3>2, <4>1, <4>2 DEF HeadValid, IsReadySet
      <3>. QED  BY <3>1, <3>2
    <2>6. HeadsStep(free)
      BY <1>2, <2>3, <2>4, <2>5 DEF HeadsStep
    <2>. QED  BY <2>1, <2>3, <2>6
  <1>. QED  BY <1>1, <1>2

\* One lemma per kind of action.
LEMMA WorldVersions ==
    ASSUME CycleTypeOK, VersionsInv, NEW free \in BOOLEAN,
           \/ \E p \in Places \cup {NoPlace} : PlaceChanges(p)
           \/ Archive(free) \/ Restore \/ UNCHANGED cycleVars
    PROVE  CycleTypeOK' /\ VersionsStep(free)
  <1>1. UNCHANGED <<artifact, head, request, run, poll, crashes>>
    BY DEF PlaceChanges, Archive, Restore, cycleVars
  <1>2. /\ active' \in BOOLEAN /\ generation' \in 1..MaxGeneration
        /\ place' \in Places \cup {NoPlace} /\ moves' \in 0..MaxMoves
    <2>1. /\ active \in BOOLEAN /\ generation \in 1..MaxGeneration
          /\ place \in Places \cup {NoPlace} /\ moves \in 0..MaxMoves
      BY DEF CycleTypeOK
    <2>2. ASSUME NEW p \in Places \cup {NoPlace}, PlaceChanges(p) PROVE <1>2
      BY <2>1, <2>2, CycleBounds DEF PlaceChanges
    <2>3. CASE Archive(free)
      <3>1. /\ generation < MaxGeneration /\ active' = FALSE /\ generation' = generation + 1
            /\ UNCHANGED <<place, moves>>
        BY <2>3 DEF Archive
      <3>2. active' \in BOOLEAN
        BY <3>1, Zenon
      <3>3. generation' \in 1..MaxGeneration
        BY <2>1, <3>1, CycleBounds
      <3>. QED  BY <2>1, <3>1, <3>2, <3>3
    <2>4. CASE Restore
      BY <2>1, <2>4, CycleBounds DEF Restore
    <2>5. CASE UNCHANGED cycleVars
      BY <2>1, <2>5 DEF cycleVars
    <2>. QED  BY <2>2, <2>3, <2>4, <2>5
  <1>3. CycleTypeOK'
    BY <1>1, <1>2 DEF CycleTypeOK
  <1>. QED  BY <1>1, <1>3, SameTables DEF VersionsStep

LEMMA CrashVersions ==
    ASSUME CycleTypeOK, VersionsInv, NEW free \in BOOLEAN, CrashCycle
    PROVE  CycleTypeOK' /\ VersionsStep(free)
  <1>1. /\ UNCHANGED <<active, generation, place, moves, artifact, head, run>>
        /\ request' = [a \in Artifacts |-> NoRequest] /\ poll' = IdlePoll
        /\ crashes' \in 0..MaxCrashes
    BY CycleBounds DEF CrashCycle, CycleTypeOK
  <1>2. NoRequest \in RequestState /\ NoRequest.at = "none" /\ NoRequest.run = 0 /\ IdlePoll \in PollState
    BY CycleBounds DEF NoRequest, RequestState, IdlePoll, PollState
  <1>3. CycleTypeOK'
    BY <1>1, <1>2 DEF CycleTypeOK
  <1>4. RequestsStep /\ NamedStep
    BY <1>1, <1>2 DEF RequestsStep, NamedStep
  <1>. QED  BY <1>1, <1>3, <1>4, SameTables DEF VersionsStep

LEMMA CoreVersions ==
    ASSUME CycleTypeOK, VersionsInv, NEW free \in BOOLEAN, NEW r \in Runs,
           \/ \E o \in Payloads \cup {Malformed} : RunEnds(r, "COMPLETED", o)
           \/ RunEnds(r, "FAILED", Malformed)
           \/ \E t \in {"good", "bad"} : TraceSettles(r, t)
    PROVE  CycleTypeOK' /\ VersionsStep(free)
  <1>1. UNCHANGED <<active, generation, place, moves, artifact, head, request, poll, crashes>>
    BY DEF RunEnds, TraceSettles
  <1>2. /\ run' \in [Runs -> RunRow]
        /\ \A q \in Runs : run'[q].kind = run[q].kind
        /\ \A q \in Runs \ {r} : run'[q] = run[q]
        /\ run[r].kind # "absent"
        /\ run[r].state # "RUNNING" => run'[r].state = run[r].state /\ run'[r].output = run[r].output
    <2>0. run \in [Runs -> RunRow]
      BY DEF CycleTypeOK
    <2>1. ASSUME NEW state \in {"COMPLETED", "FAILED"}, NEW o \in Payloads \cup {Malformed}, RunEnds(r, state, o)
          PROVE  <1>2
      <3>1. run' = [run EXCEPT ![r].state = state, ![r].output = o] /\ Named(r) /\ run[r].state = "RUNNING"
        BY <2>1 DEF RunEnds
      <3>2. run[r].kind # "absent"
        <4>1. \E a \in Artifacts : artifact[a].run = r \/ request[a].run = r
          BY <3>1 DEF Named, Running
        <4>. QED  BY <4>1 DEF VersionsInv, NamedInv, Runs
      <3>. QED  BY <2>0, <3>1, <3>2 DEF RunRow
    <2>2. ASSUME NEW t \in {"good", "bad"}, TraceSettles(r, t)
          PROVE  <1>2
      BY <2>0, <2>2 DEF TraceSettles, RunRow
    <2>. QED  BY <2>1, <2>2
  <1>3. CycleTypeOK'
    BY <1>1, <1>2 DEF CycleTypeOK
  <1>4. RunsStep
    BY <1>2 DEF RunsStep, VersionsInv, RunsInv
  <1>. QED  BY <1>1, <1>3, <1>4, SameTables DEF VersionsStep

LEMMA ClaimVersions ==
    ASSUME CycleTypeOK, VersionsInv, NEW free \in BOOLEAN,
           ReadState \/ \E by \in {"FBR", "SKILL"} : Claim(by, free)
    PROVE  CycleTypeOK' /\ VersionsStep(free)
  <1>1. CASE ReadState
    <2>1. /\ UNCHANGED <<active, generation, place, moves, artifact, request, run, poll, crashes>>
          /\ place \in Places /\ head' = Ensured(place)
      BY <1>1 DEF ReadState, CycleTypeOK
    <2>2. RowsStep
      BY <2>1, SameTables
    <2>3. head' \in [Places -> HeadRow] /\ HeadsStep(free)
      BY <2>1, <2>2, HeadMade
    <2>4. CycleTypeOK'
      BY <2>1, <2>3 DEF CycleTypeOK
    <2>. QED  BY <2>1, <2>3, <2>4, SameTables DEF VersionsStep
  <1>2. ASSUME NEW by \in {"FBR", "SKILL"}, Claim(by, free)
        PROVE  CycleTypeOK' /\ VersionsStep(free)
    <2>. DEFINE a == First(Unused)
                x == IF by = "SKILL" THEN head'[place].active ELSE 0
                s == FreshRow(a, "KEYWORD_SET", "running", by, "pending", 0, place, x, a)
    <2>1. /\ UNCHANGED <<active, generation, place, moves, run, poll, crashes>>
          /\ place \in Places /\ head' = Ensured(place) /\ free /\ Unused # {}
          /\ request' = [request EXCEPT ![a].at = "claimed"]
      BY <1>2 DEF Claim, CycleTypeOK
    <2>2. a \in Artifacts /\ artifact[a].kind = "absent"
      <3>1. Unused \in SUBSET Nat
        BY DEF Unused, Artifacts
      <3>2. a \in Unused
        BY <2>1, <3>1, FirstIsOne
      <3>. QED  BY <3>2 DEF Unused
    <2>3. artifact' = [artifact EXCEPT ![a] = s]
      <3>1. artifact' = [artifact EXCEPT ![a] =
               [NoRow(a) EXCEPT !.kind = "KEYWORD_SET", !.status = "running", !.by = by,
                                !.dispatch = "pending", !.place = place, !.expects = x]]
        BY <1>2 DEF Claim
      <3>. HIDE DEF a, x
      <3>2. PICK z : z = [NoRow(a) EXCEPT !.kind = "KEYWORD_SET", !.status = "running", !.by = by,
                                          !.dispatch = "pending", !.place = place, !.expects = x]
        OBVIOUS
      <3>3. z = s
        BY <3>2 DEF NoRow, FreshRow, s
      <3>. QED  BY <3>1, <3>2, <3>3
    <2>. HIDE DEF a, s
    <2>4. \A b \in Artifacts \ {a} : artifact'[b] = artifact[b]
      BY <2>3 DEF CycleTypeOK
    <2>5. head' \in [Places -> HeadRow]
      <3>. DEFINE b == Bootstrap(place)
      <3>1. b \in 0..MaxArtifacts
        BY <2>1, BootstrapTrusted
      <3>. QED  BY <2>1, <3>1 DEF Ensured, CycleTypeOK, HeadRow
    <2>6. x \in 0..MaxArtifacts
      BY <2>1, <2>5, CycleBounds DEF HeadRow
    <2>. HIDE DEF x
    <2>7. s \in Row /\ s.kind = "KEYWORD_SET" /\ s.by = by /\ s.run = 0
      BY <2>1, <2>2, <2>6, FreshRowType, CycleBounds DEF s, Kinds
    <2>8. artifact' \in [Artifacts -> Row] /\ artifact'[a] = s
      BY <2>2, <2>3, <2>7 DEF CycleTypeOK
    <2>9. RowsStep
      BY <2>2, <2>4, <2>7, <2>8 DEF RowsStep, RowKept, RowAdded
    <2>10. HeadsStep(free)
      BY <2>1, <2>9, HeadMade
    <2>11. /\ request' \in [Artifacts -> RequestState]
           /\ \A b \in Artifacts \ {a} : request'[b] = request[b]
           /\ request'[a].run = request[a].run
      BY <2>1, <2>2 DEF CycleTypeOK, RequestState
    <2>12. RequestsStep
      BY <2>7, <2>8, <2>11 DEF RequestsStep
    <2>13. NamedStep
      BY <2>4, <2>7, <2>8, <2>11 DEF NamedStep
    <2>14. CycleTypeOK'
      BY <2>1, <2>5, <2>8, <2>11 DEF CycleTypeOK
    <2>. QED  BY <2>1, <2>9, <2>10, <2>12, <2>13, <2>14, SameTables DEF VersionsStep, KeywordsStep
  <1>. QED  BY <1>1, <1>2

\* What the request writes, and what the scheduler writes to a claim without a run.
LEMMA OwnRow ==
    ASSUME CycleTypeOK, VersionsInv, NEW a \in Artifacts, request[a].at # "none"
    PROVE  /\ artifact[a] \in Row /\ artifact[a].kind = "KEYWORD_SET" /\ artifact[a].run = 0
           /\ artifact[a].status = "running" => a \in Running
  BY DEF CycleTypeOK, VersionsInv, RequestsInv, Running

LEMMA EndingVersions ==
    ASSUME CycleTypeOK, VersionsInv, NEW free \in BOOLEAN, NEW a \in Artifacts,
           \/ \E p \in Payloads : PersistFbr(a, p)
           \/ FailClaim(a) \/ MarkRefused(a) \/ FailDispatchUnknown(a) \/ RecordDispatched(a)
    PROVE  CycleTypeOK' /\ VersionsStep(free)
  <1>1. /\ UNCHANGED <<active, generation, place, moves, head, run, poll, crashes>>
        /\ request[a].at # "none" /\ EndRequest(a)
    BY DEF PersistFbr, FailClaim, MarkRefused, FailDispatchUnknown, RecordDispatched
  <1>2. /\ artifact[a] \in Row /\ artifact[a].kind = "KEYWORD_SET" /\ artifact[a].run = 0
        /\ artifact[a].status = "running" => a \in Running
    BY <1>1, OwnRow
  <1>3. /\ request' \in [Artifacts -> RequestState] /\ RequestsStep /\ request'[a].at = "none"
        /\ \A b \in Artifacts : request'[b].run \in {0, request[b].run}
    BY <1>1, RequestEnds
  <1>4. ASSUME artifact' = artifact
        PROVE  artifact' \in [Artifacts -> Row] /\ RowsStep /\ KeywordsStep(free) /\ NamedStep
    BY <1>3, <1>4, SameTables DEF CycleTypeOK, NamedStep
  <1>5. ASSUME NEW s \in Row, artifact' = [artifact EXCEPT ![a] = s], artifact[a].status = "running",
               s.kind = artifact[a].kind, s.by = artifact[a].by, s.run \in {0, request[a].run}
        PROVE  artifact' \in [Artifacts -> Row] /\ RowsStep /\ KeywordsStep(free) /\ NamedStep
    BY <1>2, <1>3, <1>5, RowWritten
  <1>6. artifact' \in [Artifacts -> Row] /\ RowsStep /\ KeywordsStep(free) /\ NamedStep
    <2>1. ASSUME NEW p \in Payloads, PersistFbr(a, p) PROVE <1>6
      <3>. DEFINE r == Ended(artifact[a], "ready")
                  s == [r EXCEPT !.payload = p]
                  t == [s EXCEPT !.dispatch = "not_required"]
      <3>1. r \in Row /\ Alike(artifact[a], r)
        BY <1>2, EndedRow
      <3>2. s \in Row /\ Alike(r, s)
        <4>. HIDE DEF r
        <4>. QED  BY <3>1 DEF Row, Alike
      <3>3. t \in Row /\ Alike(s, t)
        <4>. HIDE DEF s
        <4>. QED  BY <3>2, DispatchRow
      <3>4. \/ artifact' = artifact
            \/ artifact[a].status = "running" /\ artifact' = [artifact EXCEPT ![a] = t]
        BY <2>1 DEF PersistFbr
      <3>. HIDE DEF r, s, t
      <3>. QED  BY <1>2, <1>4, <1>5, <3>1, <3>2, <3>3, <3>4 DEF Alike
    <2>2. CASE FailClaim(a)
      BY <1>2, <1>4, <1>5, <2>2, EndedRow DEF FailClaim, Alike
    <2>3. CASE MarkRefused(a)
      BY <1>4, <2>3 DEF MarkRefused
    <2>4. CASE FailDispatchUnknown(a)
      <3>. DEFINE r == Ended(artifact[a], "failed")
                  s == [r EXCEPT !.dispatch = "unknown"]
      <3>1. r \in Row /\ Alike(artifact[a], r)
        BY <1>2, EndedRow
      <3>2. s \in Row /\ Alike(r, s)
        <4>. HIDE DEF r
        <4>. QED  BY <3>1, DispatchRow
      <3>3. \/ artifact' = artifact
            \/ artifact[a].status = "running" /\ artifact' = [artifact EXCEPT ![a] = s]
        BY <2>4 DEF FailDispatchUnknown
      <3>. HIDE DEF r, s
      <3>. QED  BY <1>2, <1>4, <1>5, <3>1, <3>2, <3>3 DEF Alike
    <2>5. CASE RecordDispatched(a)
      <3>. DEFINE r == [artifact[a] EXCEPT !.dispatch = "dispatched"]
                  s == [r EXCEPT !.run = request[a].run]
                  t == [s EXCEPT !.age = "fresh"]
      <3>0. request[a].run \in 0..MaxRuns
        BY DEF CycleTypeOK, RequestState
      <3>1. r \in Row /\ Alike(artifact[a], r)
        BY <1>2, DispatchRow
      <3>2. s \in Row /\ s.kind = r.kind /\ s.by = r.by /\ s.run = request[a].run
        <4>. HIDE DEF r
        <4>. QED  BY <3>0, <3>1 DEF Row
      <3>3. t \in Row /\ Alike(s, t)
        <4>. HIDE DEF s
        <4>. QED  BY <3>2, AgeRow
      <3>4. \/ artifact' = artifact
            \/ artifact[a].status = "running" /\ artifact' = [artifact EXCEPT ![a] = t]
        BY <2>5 DEF RecordDispatched, StillClaimed
      <3>. HIDE DEF r, s, t
      <3>. QED  BY <1>4, <1>5, <3>1, <3>2, <3>3, <3>4 DEF Alike
    <2>. QED  BY <2>1, <2>2, <2>3, <2>4, <2>5
  <1>7. CycleTypeOK'
    BY <1>1, <1>3, <1>6 DEF CycleTypeOK
  <1>. QED  BY <1>1, <1>3, <1>6, <1>7, SameTables DEF VersionsStep

LEMMA DispatchVersions ==
    ASSUME CycleTypeOK, VersionsInv, NEW free \in BOOLEAN, NEW a \in Artifacts,
           MarkDispatching(a) \/ TriggerAnswered(a) \/ TriggerLost(a) \/ TriggerRejected(a)
    PROVE  CycleTypeOK' /\ VersionsStep(free)
  <1>1. /\ UNCHANGED <<active, generation, place, moves, head, poll, crashes>>
        /\ request[a].at # "none"
    BY DEF MarkDispatching, TriggerAnswered, TriggerLost, TriggerRejected
  <1>2. artifact[a] \in Row /\ artifact \in [Artifacts -> Row] /\ run \in [Runs -> RunRow]
    BY DEF CycleTypeOK
  <1>3. CASE MarkDispatching(a)
    <2>. DEFINE r == [artifact[a] EXCEPT !.dispatch = "dispatching"]
                s == [r EXCEPT !.place = place]
                t == [s EXCEPT !.age = "fresh"]
    <2>1. /\ UNCHANGED run /\ artifact[a].status = "running"
          /\ request' = [request EXCEPT ![a].at = "marked"]
          /\ artifact' = [artifact EXCEPT ![a] = t]
      BY <1>3 DEF MarkDispatching, StillClaimed
    <2>2. r \in Row /\ Alike(artifact[a], r) /\ r.status = artifact[a].status
      BY <1>2, DispatchRow
    <2>3. s \in Row /\ s.kind = r.kind /\ s.by = r.by /\ s.run = r.run /\ s.status = r.status
      <3>1. place \in Places \cup {NoPlace}
        BY DEF CycleTypeOK
      <3>. HIDE DEF r
      <3>. QED  BY <2>2, <3>1, PlaceRow
    <2>4. t \in Row /\ Alike(s, t) /\ t.status = s.status
      <3>. HIDE DEF s
      <3>. QED  BY <2>3, AgeRow
    <2>5. /\ request' \in [Artifacts -> RequestState] /\ RequestsStep
          /\ \A b \in Artifacts : request'[b].run \in {0, request[b].run}
      BY <1>1, <2>1, RequestAt
    <2>6. a \in Running
      BY <1>1, <2>1, OwnRow
    <2>. HIDE DEF r, s, t
    <2>7. artifact' \in [Artifacts -> Row] /\ RowsStep /\ KeywordsStep(free) /\ NamedStep
      BY <2>1, <2>2, <2>3, <2>4, <2>5, <2>6, RowWritten DEF Alike
    <2>8. CycleTypeOK'
      BY <1>1, <2>1, <2>5, <2>7 DEF CycleTypeOK
    <2>. QED  BY <1>1, <2>1, <2>5, <2>7, <2>8, SameTables DEF VersionsStep
  <1>4. CASE TriggerAnswered(a)
    <2>. DEFINE n == First(NewRuns)
                s == [at |-> "answered", run |-> n]
    <2>1. /\ UNCHANGED artifact /\ NewRuns # {} /\ run' = StartedRun("KEYWORD_SET")
          /\ request' = [request EXCEPT ![a] = s]
      BY <1>4 DEF TriggerAnswered
    <2>2. run' \in [Runs -> RunRow] /\ RunsStep
      BY <2>1, RunStarts DEF Kinds
    <2>3. n \in Runs
      BY <2>1, FirstIsOne DEF NewRuns, Runs
    <2>4. run'[n].kind # "absent"
      BY <1>2, <2>1, <2>3 DEF StartedRun, NoRun
    <2>. HIDE DEF n
    <2>5. s \in RequestState /\ s.run = n
      BY <2>3, CycleBounds DEF RequestState, Runs
    <2>. HIDE DEF s
    <2>6. request' \in [Artifacts -> RequestState] /\ RequestsStep
      BY <1>1, <2>1, <2>5, RequestMoves
    <2>7. NamedStep
      <3>1. request'[a] = s /\ \A b \in Artifacts \ {a} : request'[b] = request[b]
        BY <2>1 DEF CycleTypeOK
      <3>. QED  BY <2>1, <2>4, <2>5, <3>1 DEF NamedStep
    <2>8. CycleTypeOK'
      BY <1>1, <2>1, <2>2, <2>6 DEF CycleTypeOK
    <2>. QED  BY <1>1, <2>1, <2>2, <2>6, <2>7, <2>8, SameTables DEF VersionsStep
  <1>5. CASE TriggerLost(a) \/ TriggerRejected(a)
    <2>1. /\ UNCHANGED artifact
          /\ request' = [request EXCEPT ![a].at = "uncertain"]
          /\ run' = run \/ (NewRuns # {} /\ run' = StartedRun("KEYWORD_SET"))
      BY <1>5 DEF TriggerLost, TriggerRejected
    <2>2. run' \in [Runs -> RunRow] /\ RunsStep
      BY <1>2, <2>1, RunStarts, SameTables DEF Kinds
    <2>3. /\ request' \in [Artifacts -> RequestState] /\ RequestsStep
          /\ \A b \in Artifacts : request'[b].run \in {0, request[b].run}
      BY <1>1, <2>1, RequestAt
    <2>4. NamedStep
      BY <2>1, <2>3 DEF NamedStep
    <2>5. CycleTypeOK'
      BY <1>1, <2>1, <2>2, <2>3 DEF CycleTypeOK
    <2>. QED  BY <1>1, <2>1, <2>2, <2>3, <2>4, <2>5, SameTables DEF VersionsStep
  <1>. QED  BY <1>3, <1>4, <1>5

LEMMA AgeVersions ==
    ASSUME CycleTypeOK, VersionsInv, NEW free \in BOOLEAN, NEW a \in Artifacts,
           DispatchAges(a) \/ WaitEnds(a) \/ GiveUpStaleDispatch(a)
    PROVE  CycleTypeOK' /\ VersionsStep(free)
  <1>1. /\ UNCHANGED <<active, generation, place, moves, head, request, run, poll, crashes>>
        /\ a \in Running
    BY DEF DispatchAges, WaitEnds, GiveUpStaleDispatch, Undispatched, RunningKeywords
  <1>2. artifact[a] \in Row /\ artifact[a].status = "running"
    BY <1>1 DEF CycleTypeOK, Running
  <1>3. ASSUME NEW s \in Row, artifact' = [artifact EXCEPT ![a] = s], Alike(artifact[a], s),
               s.status = "running" \/ artifact[a].run = 0
        PROVE  artifact' \in [Artifacts -> Row] /\ RowsStep /\ KeywordsStep(free) /\ NamedStep
    BY <1>1, <1>3, RowWritten DEF Alike
  <1>4. artifact' \in [Artifacts -> Row] /\ RowsStep /\ KeywordsStep(free) /\ NamedStep
    <2>1. CASE DispatchAges(a)
      <3>. DEFINE s == [artifact[a] EXCEPT !.age = "stale"]
      <3>1. artifact' = [artifact EXCEPT ![a] = s]
        BY <2>1 DEF DispatchAges
      <3>2. s \in Row /\ Alike(artifact[a], s) /\ s.status = artifact[a].status
        BY <1>2, AgeRow
      <3>. HIDE DEF s
      <3>. QED  BY <1>2, <1>3, <3>1, <3>2
    <2>2. CASE WaitEnds(a)
      <3>. DEFINE s == [artifact[a] EXCEPT !.waits = "over"]
      <3>1. artifact' = [artifact EXCEPT ![a] = s]
        BY <2>2 DEF WaitEnds
      <3>2. s \in Row /\ Alike(artifact[a], s) /\ s.status = artifact[a].status
        BY <1>2, WaitsRow
      <3>. HIDE DEF s
      <3>. QED  BY <1>2, <1>3, <3>1, <3>2
    <2>3. CASE GiveUpStaleDispatch(a)
      <3>. DEFINE r == Ended(artifact[a], "failed")
                  s == [r EXCEPT !.dispatch = "unknown"]
      <3>1. artifact' = [artifact EXCEPT ![a] = s] /\ artifact[a].run = 0
        BY <2>3 DEF GiveUpStaleDispatch, Undispatched
      <3>2. r \in Row /\ Alike(artifact[a], r)
        BY <1>2, EndedRow
      <3>3. s \in Row /\ Alike(r, s)
        <4>. HIDE DEF r
        <4>. QED  BY <3>2, DispatchRow
      <3>. HIDE DEF r, s
      <3>. QED  BY <1>3, <3>1, <3>2, <3>3 DEF Alike
    <2>. QED  BY <2>1, <2>2, <2>3
  <1>5. CycleTypeOK'
    BY <1>1, <1>4 DEF CycleTypeOK
  <1>. QED  BY <1>1, <1>4, <1>5, SameTables DEF VersionsStep

\* What an operator makes active is trusted, and no scan is open.
LEMMA ActivateVersions ==
    ASSUME CycleTypeOK, VersionsInv, NEW free \in BOOLEAN, NEW a \in Artifacts, Activate(a, free)
    PROVE  CycleTypeOK' /\ VersionsStep(free)
  <1>. DEFINE why == IF artifact[a].by = "SKILL" THEN "RESTORE_SKILL" ELSE "ADOPT_FBR"
              h == [row |-> TRUE, active |-> a, reason |-> why]
  <1>1. /\ UNCHANGED <<active, generation, place, moves, artifact, request, run, poll, crashes>>
        /\ free /\ place \in Places
        /\ IsReadySet(a) /\ artifact[a].place = place
        /\ artifact[a].by # "LEGACY" /\ TrustedSource(artifact[a]) = artifact[a].by
        /\ head' = [Ensured(place) EXCEPT ![place] = h]
    BY DEF Activate, CycleTypeOK
  <1>2. Ensured(place) \in [Places -> HeadRow] /\ \A p \in Places \ {place} : Ensured(place)[p] = head[p]
    <2>1. Bootstrap(place) \in 0..MaxArtifacts
      BY <1>1, BootstrapTrusted
    <2>. QED  BY <1>1, <2>1 DEF Ensured, CycleTypeOK, HeadRow
  <1>3. why \in ReasonsFor(TrustedSource(artifact[a]))
    <2>1. artifact[a].by \in {"FBR", "SKILL"}
      BY <1>1 DEF CycleTypeOK, Row
    <2>. QED  BY <1>1, <2>1 DEF ReasonsFor
  <1>4. h \in HeadRow /\ h.row /\ h.active = a /\ h.reason = why
    BY CycleBounds DEF HeadRow, Artifacts
  <1>. HIDE DEF why, h
  <1>5. /\ head' \in [Places -> HeadRow] /\ head'[place] = h
        /\ \A p \in Places \ {place} : head'[p] = head[p]
    BY <1>1, <1>2, <1>4
  <1>6. HeadValid(place)'
    BY <1>1, <1>3, <1>4, <1>5 DEF HeadValid, IsReadySet
  <1>7. HeadsStep(free)
    <2>1. ASSUME NEW p \in Places, head'[p] # head[p] PROVE head'[p].row /\ HeadValid(p)'
      <3>1. p = place
        BY <1>5, <2>1
      <3>. QED  BY <1>1, <1>4, <1>5, <1>6, <3>1 DEF HeadValid
    <2>. QED  BY <1>1, <2>1 DEF HeadsStep
  <1>8. CycleTypeOK'
    BY <1>1, <1>5 DEF CycleTypeOK
  <1>. QED  BY <1>1, <1>7, <1>8, SameTables DEF VersionsStep

\* What a pass concludes from Core AI's answers.
LEMMA ReadVersions ==
    ASSUME CycleTypeOK, VersionsInv, NEW free \in BOOLEAN, NEW a \in Artifacts, PollReads(a)
    PROVE  CycleTypeOK' /\ VersionsStep(free)
  <1>. DEFINE r == run[artifact[a].run]
              v == Verdict(artifact[a], r)
  <1>1. /\ UNCHANGED <<active, generation, place, moves, artifact, head, request, run, crashes>>
        /\ a \in Running /\ artifact[a].run # 0 /\ r.state # "RUNNING"
        /\ poll' = [row |-> a, verdict |-> v]
    BY DEF PollReads
  <1>2. r \in RunRow
    BY <1>1 DEF CycleTypeOK, Row, Runs
  <1>3. v \in {"failed", "wait", "ready"}
    BY DEF Verdict
  <1>4. v = "ready" => /\ r.output \in Payloads
                       /\ artifact[a].by = "SKILL" => EveryKeywordScored(r.output)
    <2>1. v = "ready" => r.output # Malformed
      BY DEF Verdict
    <2>2. artifact[a].by = "SKILL" => artifact[a].kind = "KEYWORD_SET"
      BY DEF VersionsInv, RowsInv
    <2>3. v = "ready" /\ artifact[a].by = "SKILL" => EveryKeywordScored(r.output)
      BY <2>2 DEF Verdict
    <2>. QED  BY <1>2, <2>1, <2>3 DEF RunRow
  <1>. HIDE DEF v
  <1>5. poll' \in PollState
    BY <1>1, <1>3, CycleBounds DEF PollState, Artifacts
  <1>6. PollInv'
    BY <1>1, <1>4 DEF PollInv, Running
  <1>7. CycleTypeOK'
    BY <1>1, <1>5 DEF CycleTypeOK
  <1>. QED  BY <1>1, <1>6, <1>7, SameTables DEF VersionsStep, PollStep

\* The row a pass holds is as the pass read it.
LEMMA PolledRow ==
    ASSUME CycleTypeOK, VersionsInv, poll.verdict # "none"
    PROVE  /\ poll.row \in Running /\ poll.row \in Artifacts /\ artifact[poll.row] \in Row
           /\ artifact[poll.row].status = "running" /\ artifact[poll.row].kind \in Kinds
           /\ artifact[poll.row].run # 0 /\ IdlePoll \in PollState
  BY CycleBounds DEF CycleTypeOK, VersionsInv, PollInv, Running, Row, PollState, IdlePoll

\* The row that a pass makes ready.
LEMMA ReadiedRow ==
    ASSUME CycleTypeOK, VersionsInv, poll.verdict = "ready"
    PROVE  \E s \in Row :
              /\ Readied(poll.row) = [artifact EXCEPT ![poll.row] = s]
              /\ Alike(artifact[poll.row], s) /\ s.status = "ready"
              /\ artifact[poll.row].by = "SKILL" =>
                   s.proven /\ s.payload \in Payloads /\ EveryKeywordScored(s.payload)
  <1>. DEFINE a == poll.row
              p == IF artifact[a].kind = "KEYWORD_SET" THEN run[artifact[a].run].output ELSE NoPayload
              v == artifact[a].by = "SKILL"
              r == Ended(artifact[a], "ready")
              q == [r EXCEPT !.payload = p]
              s == [q EXCEPT !.proven = v]
  <1>1. a \in Artifacts /\ artifact[a] \in Row
    BY PolledRow
  <1>2. p \in Payloads \cup {NoPayload} /\ v \in BOOLEAN
    BY DEF VersionsInv, PollInv
  <1>3. v => p \in Payloads /\ EveryKeywordScored(p)
    BY <1>1 DEF VersionsInv, PollInv, RowsInv
  <1>4. Readied(a) = [artifact EXCEPT ![a] = s]
    BY DEF Readied
  <1>5. r \in Row /\ Alike(artifact[a], r) /\ r.status = "ready"
    BY <1>1, EndedRow
  <1>. HIDE DEF p, v, r
  <1>6. q \in Row /\ Alike(r, q) /\ q.status = r.status /\ q.payload = p
    BY <1>2, <1>5, PayloadRow
  <1>. HIDE DEF q
  <1>9. s \in Row /\ Alike(q, s) /\ s.status = q.status /\ s.payload = q.payload /\ s.proven = v
    BY <1>2, <1>6, ProvenRow
  <1>. HIDE DEF s
  <1>7. Alike(artifact[a], s) /\ s.status = "ready"
    BY <1>5, <1>6, <1>9 DEF Alike
  <1>8. v => s.proven /\ s.payload \in Payloads /\ EveryKeywordScored(s.payload)
    BY <1>3, <1>6, <1>9
  <1>. QED  BY <1>4, <1>9, <1>7, <1>8 DEF v

LEMMA EndingPassVersions ==
    ASSUME CycleTypeOK, VersionsInv, NEW free \in BOOLEAN,
           PollFails \/ PollWaits \/ PollAcceptsRanking \/ PollMissesKeywords \/ PollAborts
    PROVE  CycleTypeOK' /\ VersionsStep(free)
  <1>. DEFINE a == poll.row
  <1>1. /\ UNCHANGED <<active, generation, place, moves, head, request, run, crashes>>
        /\ poll' = IdlePoll /\ poll.verdict # "none"
    BY DEF PollFails, PollWaits, PollAcceptsRanking, PollMissesKeywords, PollAborts, NeedsNextStage
  <1>2. /\ a \in Running /\ a \in Artifacts /\ artifact[a] \in Row
        /\ artifact[a].status = "running" /\ IdlePoll \in PollState
    BY <1>1, PolledRow
  <1>3. ASSUME NEW s \in Row, artifact' = [artifact EXCEPT ![a] = s], Alike(artifact[a], s)
        PROVE  artifact' \in [Artifacts -> Row] /\ RowsStep /\ KeywordsStep(free) /\ NamedStep
    <2>. HIDE DEF a
    <2>. QED  BY <1>1, <1>2, <1>3, RowWritten DEF Alike
  <1>4. ASSUME artifact' = artifact
        PROVE  artifact' \in [Artifacts -> Row] /\ RowsStep /\ KeywordsStep(free) /\ NamedStep
    BY <1>1, <1>4, SameTables DEF CycleTypeOK
  <1>5. artifact' \in [Artifacts -> Row] /\ RowsStep /\ KeywordsStep(free) /\ NamedStep
    <2>1. CASE PollFails
      BY <1>2, <1>3, <2>1, EndedRow DEF PollFails
    <2>2. CASE PollWaits
      <3>. DEFINE s == [artifact[a] EXCEPT !.waits = "started"]
      <3>1. artifact' = artifact \/ artifact' = [artifact EXCEPT ![a] = s]
        BY <2>2 DEF PollWaits
      <3>2. s \in Row /\ Alike(artifact[a], s)
        BY <1>2, WaitsRow
      <3>. HIDE DEF s, a
      <3>. QED  BY <1>3, <1>4, <3>1, <3>2
    <2>3. CASE PollAcceptsRanking
      <3>1. artifact' = Readied(a) /\ poll.verdict = "ready"
        BY <2>3 DEF PollAcceptsRanking
      <3>. QED  BY <1>3, <3>1, ReadiedRow
    <2>4. CASE PollMissesKeywords
      <3>1. artifact' = [Readied(a) EXCEPT ![a].status = "failed"] /\ poll.verdict = "ready"
        BY <2>4 DEF PollMissesKeywords, NeedsNextStage
      <3>2. PICK r \in Row : Readied(a) = [artifact EXCEPT ![a] = r] /\ Alike(artifact[a], r)
        BY <3>1, ReadiedRow
      <3>. DEFINE s == [r EXCEPT !.status = "failed"]
      <3>3. s \in Row /\ Alike(r, s)
        BY StatusRow
      <3>. HIDE DEF a
      <3>4. artifact' = [artifact EXCEPT ![a] = s]
        BY <1>2, <3>1, <3>2 DEF CycleTypeOK
      <3>. HIDE DEF s
      <3>. QED  BY <1>3, <3>2, <3>3, <3>4 DEF Alike
    <2>5. CASE PollAborts
      BY <1>4, <2>5 DEF PollAborts
    <2>. QED  BY <2>1, <2>2, <2>3, <2>4, <2>5
  <1>6. CycleTypeOK'
    BY <1>1, <1>2, <1>5 DEF CycleTypeOK
  <1>. QED  BY <1>1, <1>5, <1>6, SameTables DEF VersionsStep

\* A verified regeneration is trusted, and while it ran no scan could begin.
LEMMA ActivatingPassVersions ==
    ASSUME CycleTypeOK, VersionsInv, NEW free \in BOOLEAN, PollActivates
    PROVE  CycleTypeOK' /\ VersionsStep(free)
  <1>. DEFINE a == poll.row
              q == artifact[a].place
              h == [row |-> TRUE, active |-> a, reason |-> "SKILL_GENERATION"]
  <1>1. /\ UNCHANGED <<active, generation, place, moves, request, run, crashes>>
        /\ poll' = IdlePoll /\ poll.verdict = "ready" /\ artifact[a].by = "SKILL"
    BY DEF PollActivates
  <1>2. /\ a \in Running /\ a \in Artifacts /\ artifact[a] \in Row
        /\ artifact[a].status = "running" /\ IdlePoll \in PollState
    BY <1>1, PolledRow
  <1>3. /\ artifact' = Readied(a)
        /\ head' = Moved(q, a, artifact[a].expects, "SKILL_GENERATION")
    BY <1>2 DEF PollActivates
  <1>4. PICK s \in Row : /\ artifact' = [artifact EXCEPT ![a] = s]
                         /\ Alike(artifact[a], s) /\ s.status = "ready"
                         /\ s.proven /\ EveryKeywordScored(s.payload)
    BY <1>1, <1>3, ReadiedRow
  <1>5. h \in HeadRow /\ h.row /\ h.active = a /\ h.reason = "SKILL_GENERATION"
    BY <1>2, CycleBounds DEF HeadRow, Artifacts
  <1>6. head' = head \/ head' = [head EXCEPT ![q] = h]
    BY <1>3 DEF Moved
  <1>7. artifact[a].kind = "KEYWORD_SET"
    BY <1>1, <1>2 DEF VersionsInv, RowsInv
  <1>8. a \in RunningKeywords
    BY <1>2, <1>7 DEF RunningKeywords
  <1>. HIDE DEF a, q, h
  <1>9. artifact' \in [Artifacts -> Row] /\ RowsStep /\ KeywordsStep(free) /\ NamedStep
    BY <1>1, <1>2, <1>4, RowWritten DEF Alike
  <1>10. artifact'[a] = s
    BY <1>2, <1>4 DEF CycleTypeOK
  <1>11. head' \in [Places -> HeadRow]
    BY <1>5, <1>6 DEF CycleTypeOK
  <1>12. ASSUME NEW p \in Places, head'[p] # head[p]
         PROVE  head'[p].row /\ HeadValid(p)'
    <2>1. p = q /\ head'[p] = h
      BY <1>6, <1>12 DEF CycleTypeOK
    <2>2. s.kind = "KEYWORD_SET"
      BY <1>4, <1>7 DEF Alike
    <2>3. s.place = p /\ s.by = "SKILL"
      BY <1>1, <1>4, <2>1 DEF Alike, q
    <2>4. "SKILL_GENERATION" \in ReasonsFor(TrustedSource(s))
      BY <1>4, <2>3 DEF TrustedSource, Eligible, ReasonsFor
    <2>. QED  BY <1>4, <1>5, <1>10, <2>1, <2>2, <2>3, <2>4 DEF HeadValid, IsReadySet
  <1>13. HeadsStep(free)
    BY <1>8, <1>12 DEF HeadsStep
  <1>14. CycleTypeOK'
    BY <1>1, <1>2, <1>9, <1>11 DEF CycleTypeOK
  <1>. QED  BY <1>1, <1>9, <1>13, <1>14, SameTables DEF VersionsStep

\* The next stage is a report, never a keyword set.
LEMMA StagingPassVersions ==
    ASSUME CycleTypeOK, VersionsInv, NEW free \in BOOLEAN, PollTriggersNext \/ PollCannotTrigger
    PROVE  CycleTypeOK' /\ VersionsStep(free)
  <1>. DEFINE a == poll.row
              b == First(Unused)
              k == NextKind(artifact[a].kind)
              c == artifact[a].cycle
  <1>1. /\ UNCHANGED <<active, generation, place, moves, head, request, crashes>>
        /\ poll' = IdlePoll /\ poll.verdict = "ready" /\ Unused # {}
        /\ place \in Places \cup {NoPlace}
    BY DEF PollTriggersNext, PollCannotTrigger, NeedsNextStage, CycleTypeOK
  <1>2. /\ a \in Running /\ a \in Artifacts /\ artifact[a] \in Row
        /\ artifact[a].status = "running" /\ IdlePoll \in PollState
        /\ artifact[a].kind # "absent"
    BY <1>1, PolledRow DEF Kinds
  <1>3. b \in Artifacts /\ artifact[b].kind = "absent"
    <2>1. Unused \in SUBSET Nat
      BY DEF Unused, Artifacts
    <2>2. b \in Unused
      BY <1>1, <2>1, FirstIsOne
    <2>. QED  BY <2>2 DEF Unused
  <1>4. k \in Kinds \ {"KEYWORD_SET"}
    BY DEF NextKind, Kinds
  <1>5. PICK s \in Row : Readied(a) = [artifact EXCEPT ![a] = s] /\ Alike(artifact[a], s)
    BY <1>1, ReadiedRow
  <1>6. \E x \in {"running", "failed"}, n \in 0..MaxRuns :
          /\ artifact' = NextStage(x, n)
          /\ run' \in [Runs -> RunRow] /\ RunsStep
          /\ n # 0 => run'[n].kind # "absent"
    <2>1. CASE PollTriggersNext
      <3>. DEFINE n == First(NewRuns)
      <3>1. artifact' = NextStage("running", n) /\ NewRuns # {} /\ run' = StartedRun(k)
        BY <2>1 DEF PollTriggersNext
      <3>2. n \in Runs
        BY <3>1, FirstIsOne DEF NewRuns, Runs
      <3>3. run' \in [Runs -> RunRow] /\ RunsStep
        BY <1>4, <3>1, RunStarts
      <3>4. run'[n].kind # "absent"
        BY <1>4, <3>1, <3>2 DEF StartedRun, NoRun, Kinds, CycleTypeOK
      <3>. HIDE DEF n
      <3>5. n \in 0..MaxRuns
        BY <3>2, CycleBounds DEF Runs
      <3>. QED  BY <3>1, <3>3, <3>4, <3>5
    <2>2. CASE PollCannotTrigger
      <3>1. artifact' = NextStage("failed", 0)
            /\ (run' = run \/ (NewRuns # {} /\ run' = StartedRun(k)))
        BY <2>2 DEF PollCannotTrigger
      <3>2. run' \in [Runs -> RunRow] /\ RunsStep
        BY <1>4, <3>1, RunStarts, SameTables DEF CycleTypeOK
      <3>. QED  BY <3>1, <3>2, CycleBounds
    <2>. QED  BY <2>1, <2>2
  <1>7. PICK x \in {"running", "failed"}, n \in 0..MaxRuns :
          /\ artifact' = NextStage(x, n)
          /\ run' \in [Runs -> RunRow] /\ RunsStep
          /\ n # 0 => run'[n].kind # "absent"
    BY <1>6
  <1>8. c \in Artifacts
    BY <1>2 DEF Row
  <1>9. PICK t : t = [NoRow(b) EXCEPT !.kind = k, !.status = x, !.run = n, !.cycle = c, !.place = place]
    OBVIOUS
  <1>10. artifact' = [Readied(a) EXCEPT ![b] = t]
    BY <1>7, <1>9 DEF NextStage
  <1>. HIDE DEF b, k, c
  <1>11. t = FreshRow(b, k, x, "LEGACY", "none", n, place, 0, c)
    BY <1>9 DEF NoRow, FreshRow
  <1>12. t \in Row /\ t.kind = k /\ t.by = "LEGACY" /\ t.run = n
    <2>1. 0 \in 0..MaxArtifacts
      BY CycleBounds
    <2>. QED  BY <1>1, <1>3, <1>4, <1>8, <1>11, <2>1, FreshRowType
  <1>. HIDE DEF a
  <1>13. /\ artifact' \in [Artifacts -> Row] /\ artifact'[b] = t /\ artifact'[a] = s
         /\ \A d \in Artifacts \ {a, b} : artifact'[d] = artifact[d]
    BY <1>2, <1>3, <1>5, <1>10, <1>12 DEF CycleTypeOK
  <1>14. RowEdited(a)
    BY <1>1, <1>2, <1>5, <1>13 DEF RowEdited, Alike
  <1>15. RowAdded(b)
    BY <1>3, <1>4, <1>12, <1>13 DEF RowAdded, Kinds
  <1>16. RowsStep
    BY <1>13, <1>14, <1>15 DEF RowsStep, RowKept
  <1>17. KeywordsStep(free)
    BY <1>2, <1>4, <1>5, <1>12, <1>13 DEF KeywordsStep, RunningKeywords, Running, Alike
  <1>18. NamedStep
    BY <1>1, <1>5, <1>7, <1>12, <1>13 DEF NamedStep, Alike
  <1>19. CycleTypeOK'
    BY <1>1, <1>2, <1>7, <1>13 DEF CycleTypeOK
  <1>. QED  BY <1>1, <1>7, <1>16, <1>17, <1>18, <1>19, SameTables DEF VersionsStep

\* A pass that dies with its transaction leaves a run that no row names.
LEMMA DyingPassVersions ==
    ASSUME CycleTypeOK, VersionsInv, NEW free \in BOOLEAN, PollDiesTriggering
    PROVE  CycleTypeOK' /\ VersionsStep(free)
  <1>1. /\ UNCHANGED <<active, generation, place, moves, artifact, head>>
        /\ request' = [a \in Artifacts |-> NoRequest] /\ poll' = IdlePoll
        /\ NewRuns # {} /\ run' = StartedRun(NextKind(artifact[poll.row].kind))
        /\ crashes' \in 0..MaxCrashes
    BY CycleBounds DEF PollDiesTriggering, CycleTypeOK
  <1>2. NoRequest \in RequestState /\ NoRequest.at = "none" /\ NoRequest.run = 0 /\ IdlePoll \in PollState
    BY CycleBounds DEF NoRequest, RequestState, IdlePoll, PollState
  <1>3. run' \in [Runs -> RunRow] /\ RunsStep
    BY <1>1, RunStarts DEF NextKind, Kinds
  <1>4. CycleTypeOK'
    BY <1>1, <1>2, <1>3 DEF CycleTypeOK
  <1>5. RequestsStep /\ NamedStep
    BY <1>1, <1>2 DEF RequestsStep, NamedStep
  <1>. QED  BY <1>1, <1>3, <1>4, <1>5, SameTables DEF VersionsStep

LEMMA VersionsNext ==
    ASSUME CycleTypeOK, VersionsInv, NEW free \in BOOLEAN,
           CycleNext(free) \/ CrashCycle \/ PollDiesTriggering \/ UNCHANGED cycleVars
    PROVE  CycleTypeOK' /\ VersionsStep(free)
  BY WorldVersions, CrashVersions, CoreVersions, ClaimVersions, EndingVersions, DispatchVersions,
     AgeVersions, ActivateVersions, ReadVersions, EndingPassVersions, ActivatingPassVersions,
     StagingPassVersions, DyingPassVersions DEF CycleNext

-----------------------------------------------------------------------------
(* Both halves together: what is being paid for is what the merchant's page *)
(* shows.                                                                   *)

\* A batch that was ever made names a version, a confirmation and keywords.
MadeInv ==
    \A b \in Batches :
        IF batch[b].status = "absent" THEN batch[b].id = NoRequestId
        ELSE /\ batch[b].id \in Requests /\ batch[b].art \in Artifacts
             /\ \E k \in Positions : item[b][k] # "absent"

\* Its version is ready, and of a place.
PlacesInv ==
    /\ measured \subseteq Places
    /\ sync \in SyncState /\ (sync # NoSync => sync.place \in Places)
    /\ \A b \in Batches : batch[b].status # "absent" =>
          IsReadySet(batch[b].art) /\ artifact[batch[b].art].place \in Places

OtherTypes == approved \subseteq Artifacts /\ synced \in {"absent", "synced", "failed"}

PagesInv ==
    CycleTypeOK /\ VersionsInv /\ HeadTrusted /\ MadeInv /\ PlacesInv /\ OtherTypes /\ ScansUseActiveVersion

\* Which half a step is of.
LEMMA HalfSteps ==
    ASSUME [Next]_vars
    PROVE  \/ CycleNext(Unresolved = {}) /\ UNCHANGED scanVars
           \/ (CrashCycle \/ PollDiesTriggering \/ UNCHANGED cycleVars) /\ UNCHANGED <<artifact, head>>
  <1>1. UNCHANGED vars => UNCHANGED cycleVars
    BY DEF vars, cycleVars
  <1>2. UNCHANGED cycleVars => UNCHANGED <<artifact, head>>
    BY DEF cycleVars
  <1>3. CrashCycle \/ PollDiesTriggering => UNCHANGED <<artifact, head>>
    BY DEF CrashCycle, PollDiesTriggering
  <1>4. ASSUME NEW w \in Workers, ClaimBatch(w) \/ WorkerStep(w) PROVE UNCHANGED cycleVars
    BY <1>4 DEF ClaimBatch, WorkerStep, LoadItems, Heartbeat, MarkItem, AskLocalFalcon, RecordError,
       RecordKey, FinishBatch
  <1>5. ASSUME NEW b \in Batches,
               \/ BatchAges(b) \/ GiveUpBatch(b)
               \/ \E k \in Positions : Readback(b, k)
               \/ ConfirmNotSubmitted(b) \/ CloseWithoutRetry(b)
        PROVE  UNCHANGED cycleVars
    BY <1>5 DEF BatchAges, GiveUpBatch, Readback, ConfirmNotSubmitted, CloseWithoutRetry, Closed
  <1>6. CASE SyncStart \/ SyncFails \/ \E found \in BOOLEAN, done \in SUBSET Awaited : SyncFinish(found, done)
    BY <1>2, <1>6 DEF SyncStart, SyncFails, SyncFinish
  <1>7. CASE \E a \in Artifacts : Approve(a) \/ \E q \in Requests : CreateBatch(q, a)
    BY <1>2, <1>7 DEF Approve, CreateBatch
  <1>8. CASE CycleStep
    BY <1>8 DEF CycleStep
  <1>9. CASE Crash
    BY <1>3, <1>9 DEF Crash
  <1>. QED  BY <1>1, <1>2, <1>3, <1>4, <1>5, <1>6, <1>7, <1>8, <1>9 DEF Next

LEMMA VersionsOfNext ==
    ASSUME CycleTypeOK, VersionsInv, [Next]_vars
    PROVE  CycleTypeOK' /\ VersionsStep(Unresolved = {})
  <1>1. (Unresolved = {}) \in BOOLEAN
    OBVIOUS
  <1>2. CycleNext(Unresolved = {}) \/ CrashCycle \/ PollDiesTriggering \/ UNCHANGED cycleVars
    BY HalfSteps
  <1>. QED  BY <1>1, <1>2, VersionsNext

\* Of a batch that was made the confirmation, the version and the keywords stay.
Lasts(b) ==
    /\ batch'[b].status # "absent" /\ batch'[b].id = batch[b].id /\ batch'[b].art = batch[b].art
    /\ \A k \in Positions : item'[b][k] = "absent" <=> item[b][k] = "absent"
    /\ batch'[b].status \in UnresolvedStates => batch[b].status \in UnresolvedStates

LEMMA MadeKept ==
    ASSUME TypeInv, ItemStep, NEW b \in Batches, batch[b].status # "absent"
    PROVE  Lasts(b)
  <1>1. CASE Still
    BY <1>1 DEF Still, SameBatch, StillOpen, Lasts
  <1>2. ASSUME NEW c \in Batches, NEW q \in Requests, NEW a \in Artifacts, Confirms(c, q, a)
        PROVE  Lasts(b)
    BY <1>2 DEF Confirms, Lasts
  <1>3. ASSUME NEW c \in Batches, NEW K, NEW to, Moves(c, K, to), to # "absent",
               \A k \in K : item[c][k] # "absent"
        PROVE  Lasts(b)
    BY <1>3 DEF Moves, SameBatch, StillOpen, Unresolved, Lasts
  <1>4. ASSUME NEW c \in Batches, NEW k \in Positions, Asks(c, k) PROVE Lasts(b)
    <2>1. Moves(c, {k}, "submitting") /\ \A j \in {k} : item[c][j] # "absent"
      BY <1>4 DEF Asks
    <2>. QED  BY <1>3, <2>1
  <1>5. ASSUME NEW c \in Batches, NEW k \in Positions, NEW s \in ItemStates, Hears(c, k, s) PROVE Lasts(b)
    <2>1. Moves(c, {k}, s) /\ s # "absent" /\ \A j \in {k} : item[c][j] # "absent"
      BY <1>5 DEF Hears
    <2>. QED  BY <1>3, <2>1
  <1>6. ASSUME NEW c \in Batches, NEW K \in SUBSET Positions, Measures(c, K) PROVE Lasts(b)
    <2>1. Moves(c, K, "completed") /\ \A k \in K : item[c][k] # "absent"
      BY <1>6 DEF Measures
    <2>. QED  BY <1>3, <2>1
  <1>7. ASSUME NEW c \in Batches, DropsAll(c) \/ DropsRest(c) PROVE Lasts(b)
    <2>1. PICK S \in {{"unknown", "pending"}, {"pending"}} : Moves(c, Items(c, S), "failed")
      BY <1>7 DEF DropsAll, DropsRest
    <2>2. \A k \in Items(c, S) : item[c][k] # "absent"
      BY <2>1 DEF Items
    <2>. QED  BY <1>3, <2>1, <2>2
  <1>. QED  BY <1>1, <1>2, <1>4, <1>5, <1>6, <1>7 DEF ItemStep

\* A batch is made by a confirmation only, and opened by nothing else.
LEMMA OnlyConfirmsOpen ==
    ASSUME TypeInv, ItemStep, NEW b \in Batches,
           \/ batch[b].status = "absent" /\ batch'[b].status # "absent"
           \/ batch[b].status \notin UnresolvedStates /\ batch'[b].status \in UnresolvedStates
    PROVE  \E q \in Requests, a \in Artifacts : Confirms(b, q, a)
  <1>1. ASSUME NEW c \in Batches, NEW K, NEW to, Moves(c, K, to) PROVE FALSE
    BY <1>1 DEF Moves, SameBatch, StillOpen, Unresolved
  <1>2. ~Still
    BY DEF Still, SameBatch, StillOpen
  <1>3. PICK c \in Batches, q \in Requests, a \in Artifacts : Confirms(c, q, a)
    BY <1>1, <1>2 DEF ItemStep, Asks, Hears, Measures, DropsAll, DropsRest
  <1>4. c = b
    BY <1>3 DEF Confirms
  <1>. QED  BY <1>3, <1>4

\* What a confirmation checked, in the one transaction that also makes the batch.
LEMMA Confirmed ==
    ASSUME PlacesInv, NEW b, NEW q \in Requests, NEW a \in Artifacts, Confirms(b, q, a)
    PROVE  /\ RunningKeywords = {} /\ Unresolved = {} /\ IsReadySet(a)
           /\ artifact[a].place \in Places /\ head[artifact[a].place].active = a
           /\ Cohort(artifact[a].payload) # {} /\ Cohort(artifact[a].payload) \subseteq Positions
  <1>1. Confirmable(a)
    BY DEF Confirms
  <1>2. artifact[a].place \in Places /\ head[artifact[a].place].active = a
    BY <1>1 DEF Confirmable, PlacesInv
  <1>3. IsReadySet(a) /\ Cohort(artifact[a].payload) # {}
    BY <1>1, CycleBounds DEF Confirmable, PaidEligible, HeadValid
  <1>4. Cohort(artifact[a].payload) \subseteq Positions
    BY DEF Cohort
  <1>. QED  BY <1>1, <1>2, <1>3, <1>4 DEF Confirmable

LEMMA MadeStep ==
    ASSUME TypeInv, MadeInv, PlacesInv, ItemStep
    PROVE  MadeInv'
  <1>1. ASSUME NEW b \in Batches, batch[b].status # "absent"
        PROVE  /\ batch'[b].status # "absent" /\ batch'[b].id \in Requests /\ batch'[b].art \in Artifacts
               /\ \E k \in Positions : item'[b][k] # "absent"
    BY <1>1, MadeKept DEF MadeInv, Lasts
  <1>2. ASSUME NEW b \in Batches, batch[b].status = "absent", batch'[b].status # "absent"
        PROVE  /\ batch'[b].id \in Requests /\ batch'[b].art \in Artifacts
               /\ \E k \in Positions : item'[b][k] # "absent"
    <2>1. PICK q \in Requests, a \in Artifacts : Confirms(b, q, a)
      BY <1>2, OnlyConfirmsOpen
    <2>2. PICK k \in Positions : k \in Cohort(artifact[a].payload)
      BY <2>1, Confirmed
    <2>3. item'[b][k] = "pending" /\ batch'[b].id = q /\ batch'[b].art = a
      BY <2>1, <2>2 DEF Confirms
    <2>. QED  BY <2>3
  <1>3. ASSUME NEW b \in Batches, batch'[b].status = "absent"
        PROVE  batch'[b].id = NoRequestId
    <2>1. batch[b].status = "absent"
      BY <1>1, <1>3
    <2>2. batch'[b].id = batch[b].id
      BY <1>3, <2>1 DEF ItemStep, Still, Confirms, Asks, Hears, Measures, DropsAll, DropsRest, Moves, SameBatch
    <2>. QED  BY <2>1, <2>2 DEF MadeInv
  <1>. QED  BY <1>1, <1>2, <1>3 DEF MadeInv

\* What is measured is a place; a sync is of the place it began with.
LEMMA MeasuredStep ==
    ASSUME TypeInv, CycleTypeOK, MadeInv, PlacesInv, ItemsInv, [Next]_vars
    PROVE  /\ measured' \subseteq Places
           /\ sync' \in SyncState /\ (sync' # NoSync => sync'.place \in Places)
  <1>0. /\ measured \subseteq Places /\ sync \in SyncState /\ (sync # NoSync => sync.place \in Places)
        /\ NoSync \in SyncState
    BY CycleBounds DEF PlacesInv, NoSync, SyncState
  <1>1. CASE UNCHANGED measured /\ sync' \in {sync, NoSync}
    BY <1>0, <1>1
  <1>2. CASE SyncStart
    <2>1. sync' = [gen |-> generation, place |-> place] /\ place \in Places /\ measured' = measured
      BY <1>2 DEF SyncStart, CycleTypeOK
    <2>. QED  BY <1>0, <2>1 DEF SyncState, CycleTypeOK
  <1>3. ASSUME NEW found \in BOOLEAN, NEW done \in SUBSET Awaited, SyncFinish(found, done)
        PROVE  /\ measured' \subseteq Places
               /\ sync' \in SyncState /\ (sync' # NoSync => sync'.place \in Places)
    <2>1. sync' = NoSync /\ sync # NoSync /\ measured' \in {measured, measured \cup {sync.place}}
      BY <1>3 DEF SyncFinish
    <2>. QED  BY <1>0, <2>1
  <1>4. ASSUME NEW b \in Batches, NEW k \in Positions, Readback(b, k)
        PROVE  /\ measured' \subseteq Places
               /\ sync' \in SyncState /\ (sync' # NoSync => sync'.place \in Places)
    <2>1. /\ item[b][k] = "submitted" /\ sync' = sync
          /\ measured' = measured \cup {artifact[batch[b].art].place}
      BY <1>4 DEF Readback
    <2>2. batch[b].status # "absent"
      BY <2>1 DEF ItemsInv, SummaryInv, Summary
    <2>. QED  BY <1>0, <2>1, <2>2 DEF PlacesInv
  <1>5. ASSUME NEW w \in Workers, ClaimBatch(w) \/ WorkerStep(w) PROVE UNCHANGED <<measured, sync>>
    BY <1>5 DEF ClaimBatch, WorkerStep, LoadItems, Heartbeat, MarkItem, AskLocalFalcon, RecordError,
       RecordKey, FinishBatch
  <1>6. ASSUME NEW b \in Batches, BatchAges(b) \/ GiveUpBatch(b) \/ ConfirmNotSubmitted(b) \/ CloseWithoutRetry(b)
        PROVE  UNCHANGED <<measured, sync>>
    BY <1>6 DEF BatchAges, GiveUpBatch, ConfirmNotSubmitted, CloseWithoutRetry, Closed
  <1>7. CASE \E a \in Artifacts : Approve(a) \/ \E q \in Requests : CreateBatch(q, a)
    BY <1>1, <1>7 DEF Approve, CreateBatch
  <1>8. CASE CycleStep \/ UNCHANGED vars
    BY <1>1, <1>8 DEF CycleStep, scanVars, vars
  <1>9. CASE Crash \/ SyncFails \/ (PollDiesTriggering /\ worker' = [w \in Workers |-> Idle] /\ sync' = NoSync
                                       /\ UNCHANGED <<approved, measured, batch, item, paid, synced>>)
    BY <1>1, <1>9 DEF Crash, SyncFails
  <1>. QED  BY <1>1, <1>2, <1>3, <1>4, <1>5, <1>6, <1>7, <1>8, <1>9 DEF Next

LEMMA OtherTypesStep ==
    ASSUME OtherTypes, [Next]_vars
    PROVE  OtherTypes'
  <1>1. ASSUME NEW w \in Workers, ClaimBatch(w) \/ WorkerStep(w) PROVE UNCHANGED <<approved, synced>>
    BY <1>1 DEF ClaimBatch, WorkerStep, LoadItems, Heartbeat, MarkItem, AskLocalFalcon, RecordError,
       RecordKey, FinishBatch
  <1>2. ASSUME NEW b \in Batches,
               \/ BatchAges(b) \/ GiveUpBatch(b)
               \/ \E k \in Positions : Readback(b, k)
               \/ ConfirmNotSubmitted(b) \/ CloseWithoutRetry(b)
        PROVE  UNCHANGED <<approved, synced>>
    BY <1>2 DEF BatchAges, GiveUpBatch, Readback, ConfirmNotSubmitted, CloseWithoutRetry, Closed
  <1>3. CASE SyncStart \/ SyncFails \/ \E found \in BOOLEAN, done \in SUBSET Awaited : SyncFinish(found, done)
    BY <1>3 DEF SyncStart, SyncFails, SyncFinish, OtherTypes
  <1>4. CASE \E a \in Artifacts : Approve(a) \/ \E q \in Requests : CreateBatch(q, a)
    BY <1>4 DEF Approve, CreateBatch, OtherTypes
  <1>5. CASE CycleStep \/ UNCHANGED vars \/ Crash
    BY <1>5 DEF CycleStep, scanVars, vars, Crash, OtherTypes
  <1>. QED  BY <1>1, <1>2, <1>3, <1>4, <1>5 DEF Next, OtherTypes

LEMMA ConfirmsAlone ==
    ASSUME [Next]_vars, NEW b \in Batches, NEW q \in Requests, NEW a \in Artifacts, Confirms(b, q, a)
    PROVE  UNCHANGED <<artifact, head>>
  <1>1. batch' # batch
    BY DEF Confirms
  <1>. QED  BY <1>1, HalfSteps DEF scanVars

LEMMA PlacesStep ==
    ASSUME TypeInv, ItemsInv, CycleTypeOK, MadeInv, PlacesInv, ItemStep, VersionsStep(Unresolved = {}), [Next]_vars
    PROVE  PlacesInv'
  <1>1. ASSUME NEW b \in Batches, batch[b].status # "absent"
        PROVE  /\ artifact'[batch'[b].art].kind = "KEYWORD_SET" /\ artifact'[batch'[b].art].status = "ready"
               /\ artifact'[batch'[b].art].place \in Places
    <2>1. /\ batch[b].art \in Artifacts /\ IsReadySet(batch[b].art) /\ artifact[batch[b].art].place \in Places
          /\ batch'[b].art = batch[b].art
      BY <1>1, MadeKept DEF MadeInv, PlacesInv, Lasts
    <2>2. artifact'[batch[b].art] = artifact[batch[b].art]
      BY <2>1, ReadyKept DEF VersionsStep
    <2>. QED  BY <2>1, <2>2 DEF IsReadySet
  <1>2. ASSUME NEW b \in Batches, batch[b].status = "absent", batch'[b].status # "absent"
        PROVE  /\ artifact'[batch'[b].art].kind = "KEYWORD_SET" /\ artifact'[batch'[b].art].status = "ready"
               /\ artifact'[batch'[b].art].place \in Places
    <2>1. PICK q \in Requests, a \in Artifacts : Confirms(b, q, a)
      BY <1>2, OnlyConfirmsOpen
    <2>2. batch'[b].art = a /\ artifact' = artifact
      BY <2>1, ConfirmsAlone DEF Confirms
    <2>3. IsReadySet(a) /\ artifact[a].place \in Places
      BY <2>1, Confirmed
    <2>. QED  BY <2>2, <2>3 DEF IsReadySet
  <1>. QED  BY <1>1, <1>2, MeasuredStep DEF PlacesInv, IsReadySet

\* While a batch is open no keyword set is begun and no head is moved, although who
\* begins or moves one reads the batches, and who opens a batch reads the versions.
LEMMA ScansStep ==
    ASSUME TypeInv, PagesInv, ItemStep, VersionsStep(Unresolved = {}), [Next]_vars,
           item' \in [Batches -> [Positions -> ItemStates]]
    PROVE  ScansUseActiveVersion'
  <1>. SUFFICES ASSUME NEW b \in Batches, batch'[b].status \in UnresolvedStates
                PROVE  /\ RunningKeywords' = {}
                       /\ artifact'[batch'[b].art].kind = "KEYWORD_SET" /\ artifact'[batch'[b].art].status = "ready"
                       /\ head'[artifact'[batch'[b].art].place].active = batch'[b].art
                       /\ Real(b)' = Cohort(artifact'[batch'[b].art].payload)
    BY DEF ScansUseActiveVersion, Unresolved, IsReadySet
  <1>1. \A k \in Positions : /\ k \in Real(b)' <=> item'[b][k] # "absent"
                             /\ k \in Real(b) <=> item[b][k] # "absent"
    BY DEF Real, Items, TypeInv
  <1>2. CASE batch[b].status \in UnresolvedStates
    <2>. DEFINE a == batch[b].art
                p == artifact[a].place
    <2>1. /\ b \in Unresolved /\ batch[b].status # "absent"
          /\ RunningKeywords = {} /\ IsReadySet(a) /\ head[p].active = a
          /\ Real(b) = Cohort(artifact[a].payload)
      BY <1>2 DEF PagesInv, ScansUseActiveVersion, Unresolved, UnresolvedStates
    <2>2. a \in Artifacts /\ p \in Places
      BY <2>1 DEF PagesInv, MadeInv, PlacesInv
    <2>3. batch'[b].art = a /\ \A k \in Positions : item'[b][k] = "absent" <=> item[b][k] = "absent"
      BY <2>1, MadeKept DEF Lasts
    <2>4. artifact'[a] = artifact[a]
      BY <2>1, <2>2, ReadyKept DEF VersionsStep, PagesInv
    <2>5. RunningKeywords' = {}
      BY <2>1 DEF VersionsStep, KeywordsStep
    <2>6. head'[p] = head[p]
      <3>1. a # 0
        BY <2>2, CycleBounds DEF Artifacts
      <3>2. head[p].row
        BY <2>1, <2>2, <3>1 DEF PagesInv, VersionsInv, HeadsInv
      <3>. QED  BY <2>1, <2>2, <3>2 DEF VersionsStep, HeadsStep
    <2>7. Real(b)' = Real(b)
      BY <1>1, <2>3 DEF Real, Items
    <2>. QED  BY <2>1, <2>3, <2>4, <2>5, <2>6, <2>7 DEF IsReadySet
  <1>3. CASE batch[b].status \notin UnresolvedStates
    <2>1. PICK q \in Requests, a \in Artifacts : Confirms(b, q, a)
      BY <1>3, OnlyConfirmsOpen
    <2>2. /\ RunningKeywords = {} /\ IsReadySet(a)
          /\ head[artifact[a].place].active = a
          /\ Cohort(artifact[a].payload) \subseteq Positions
      BY <2>1, Confirmed DEF PagesInv
    <2>3. artifact' = artifact /\ head' = head /\ batch'[b].art = a
      BY <2>1, ConfirmsAlone DEF Confirms
    <2>4. \A k \in Positions : item'[b][k] = IF k \in Cohort(artifact[a].payload) THEN "pending" ELSE "absent"
      BY <2>1 DEF Confirms
    <2>5. Real(b)' = Cohort(artifact[a].payload)
      BY <1>1, <2>2, <2>4 DEF Real, Items
    <2>6. RunningKeywords' = RunningKeywords
      BY <2>3 DEF RunningKeywords, Running
    <2>. QED  BY <2>2, <2>3, <2>5, <2>6 DEF IsReadySet
  <1>. QED  BY <1>2, <1>3

LEMMA PagesNext ==
    ASSUME TypeInv, ItemsInv, PagesInv, [Next]_vars
    PROVE  PagesInv'
  <1>1. CycleTypeOK' /\ VersionsStep(Unresolved = {})
    BY VersionsOfNext DEF PagesInv
  <1>2. (Unresolved = {}) \in BOOLEAN
    OBVIOUS
  <1>3. VersionsInv'
    BY <1>1, <1>2, VersionsKept DEF PagesInv
  <1>4. HeadTrusted'
    BY <1>1, <1>2, TrustKept DEF PagesInv
  <1>5. ItemStep /\ TypeInv'
    BY ItemsNext, TypeNext
  <1>6. MadeInv' /\ PlacesInv' /\ OtherTypes'
    BY <1>1, <1>5, MadeStep, PlacesStep, OtherTypesStep DEF PagesInv
  <1>7. ScansUseActiveVersion'
    BY <1>1, <1>5, ScansStep DEF TypeInv
  <1>. QED  BY <1>1, <1>3, <1>4, <1>6, <1>7 DEF PagesInv

\* A merchant starts without versions, with one that is ready, or with a cycle that
\* an earlier release left.
LEMMA BeginningTypes ==
    ASSUME NEW p \in Places, NEW first \in Beginnings(p)
    PROVE  /\ first[1] \in Row /\ first[2] \in RunRow
           /\ first[1].by = "SKILL" => first[1].kind = "KEYWORD_SET"
           /\ first[1].run # 0 => first[1].run = 1 /\ first[2].kind # "absent"
           /\ first[2].state = "RUNNING"
  <1>0. 1 \in Artifacts /\ 1 \in 0..MaxRuns /\ 0 \in 0..MaxRuns /\ 0 \in 0..MaxArtifacts
    BY CycleBounds DEF Artifacts
  <1>1. NoRun \in RunRow /\ NoRun.state = "RUNNING"
    BY DEF NoRun, RunRow
  <1>2. CASE first = <<NoRow(1), NoRun>>
    BY <1>0, <1>1, <1>2, EmptyRow DEF NoRow
  <1>3. ASSUME NEW by \in {"FBR", "SKILL"}, NEW q \in Payloads, first = <<KeptSet(by, p, q), NoRun>>
        PROVE  first[1] \in Row /\ first[1].kind = "KEYWORD_SET" /\ first[1].run = 0
    <2>. DEFINE d == IF by = "FBR" THEN "not_required" ELSE "dispatched"
                v == by = "SKILL"
    <2>1. PICK t : t = [NoRow(1) EXCEPT !.kind = "KEYWORD_SET", !.status = "ready", !.by = by, !.place = p,
                                        !.payload = q, !.proven = v, !.dispatch = d]
      OBVIOUS
    <2>2. first[1] = t
      BY <1>3, <2>1 DEF KeptSet
    <2>3. d \in {"not_required", "dispatched"} /\ v \in BOOLEAN
      OBVIOUS
    <2>. HIDE DEF d, v
    <2>4. t = [kind |-> "KEYWORD_SET", status |-> "ready", by |-> by, dispatch |-> d, run |-> 0,
               place |-> p, expects |-> 0, cycle |-> 1, payload |-> q, proven |-> v,
               waits |-> "no", age |-> "fresh"]
      BY <2>1 DEF NoRow
    <2>. QED  BY <1>0, <2>2, <2>3, <2>4 DEF Row, Kinds
  <1>4. ASSUME NEW kind \in {"KEYWORD_SET", "AUDIT_REPORT"},
               first = <<LeftRunning(kind, p), [NoRun EXCEPT !.kind = kind]>>
        PROVE  /\ first[1] \in Row /\ first[1].by = "LEGACY" /\ first[1].run = 1
               /\ first[2] \in RunRow /\ first[2].kind # "absent" /\ first[2].state = "RUNNING"
    <2>0. PICK t : t = [NoRow(1) EXCEPT !.kind = kind, !.status = "running", !.run = 1, !.place = p]
      OBVIOUS
    <2>1. t = FreshRow(1, kind, "running", "LEGACY", "none", 1, p, 0, 1)
      BY <2>0 DEF NoRow, FreshRow
    <2>2. [NoRun EXCEPT !.kind = kind] \in RunRow /\ [NoRun EXCEPT !.kind = kind].kind = kind
          /\ [NoRun EXCEPT !.kind = kind].state = "RUNNING"
      BY DEF NoRun, RunRow, Kinds
    <2>3. t \in Row /\ t.by = "LEGACY" /\ t.run = 1
      BY <1>0, <2>1, FreshRowType DEF Kinds
    <2>4. first[1] = t
      BY <1>4, <2>0 DEF LeftRunning
    <2>. QED  BY <1>4, <2>2, <2>3, <2>4 DEF Kinds
  <1>5. \/ first = <<NoRow(1), NoRun>>
        \/ \E by \in {"FBR", "SKILL"}, q \in Payloads : first = <<KeptSet(by, p, q), NoRun>>
        \/ \E kind \in {"KEYWORD_SET", "AUDIT_REPORT"} :
              first = <<LeftRunning(kind, p), [NoRun EXCEPT !.kind = kind]>>
    BY DEF Beginnings
  <1>6. ASSUME NEW by \in {"FBR", "SKILL"}, NEW q \in Payloads, first = <<KeptSet(by, p, q), NoRun>>
        PROVE  first[2] = NoRun
    BY <1>6
  <1>. QED  BY <1>1, <1>2, <1>3, <1>4, <1>5, <1>6

LEMMA PagesInit == Init => PagesInv
  <1>. SUFFICES ASSUME Init PROVE PagesInv
    OBVIOUS
  <1>1. PICK first \in Beginnings(place) :
          /\ artifact = [a \in Artifacts |-> IF a = 1 THEN first[1] ELSE NoRow(a)]
          /\ run = [r \in Runs |-> IF r = 1 THEN first[2] ELSE NoRun]
    BY DEF Init, CycleInit
  <1>2. /\ active = TRUE /\ generation = 1 /\ place \in Places /\ moves = 0
        /\ head = [p \in Places |-> NoHead] /\ request = [a \in Artifacts |-> NoRequest]
        /\ poll = IdlePoll /\ crashes = 0 /\ approved = {} /\ measured \in {{}, Places}
        /\ batch = [b \in Batches |-> NoBatch] /\ sync = NoSync /\ synced = "absent"
    BY DEF Init, CycleInit
  <1>3. /\ first[1] \in Row /\ first[2] \in RunRow
        /\ first[1].by = "SKILL" => first[1].kind = "KEYWORD_SET"
        /\ first[1].run # 0 => first[1].run = 1 /\ first[2].kind # "absent"
        /\ first[2].state = "RUNNING"
    BY <1>1, <1>2, BeginningTypes
  <1>4. NoRun \in RunRow /\ NoRun.state = "RUNNING"
    BY DEF NoRun, RunRow
  <1>5. /\ NoRequest \in RequestState /\ NoRequest.at = "none" /\ NoRequest.run = 0
        /\ IdlePoll \in PollState /\ IdlePoll.verdict = "none"
        /\ NoHead \in HeadRow /\ NoHead.active = 0 /\ NoSync \in SyncState
    BY CycleBounds DEF NoRequest, RequestState, IdlePoll, PollState, NoHead, HeadRow, NoSync, SyncState
  <1>6. \A a \in Artifacts : NoRow(a) \in Row /\ NoRow(a).by = "LEGACY" /\ NoRow(a).run = 0
    BY EmptyRow DEF NoRow
  <1>7. CycleTypeOK
    BY <1>1, <1>2, <1>3, <1>4, <1>5, <1>6, CycleBounds DEF CycleTypeOK
  <1>8. RunsInv
    BY <1>1, <1>3, <1>4 DEF RunsInv
  <1>9. RowsInv
    BY <1>1, <1>3, <1>6 DEF RowsInv
  <1>10. NamedInv
    BY <1>1, <1>2, <1>3, <1>5, <1>6, CycleBounds DEF NamedInv, Runs
  <1>11. RequestsInv /\ PollInv /\ HeadsInv /\ HeadTrusted
    BY <1>2, <1>5 DEF RequestsInv, PollInv, HeadsInv, HeadTrusted, HeadValid
  <1>12. \A b \in Batches : batch[b].status = "absent" /\ batch[b].id = NoRequestId
    BY <1>2 DEF NoBatch
  <1>13. MadeInv /\ PlacesInv /\ OtherTypes /\ ScansUseActiveVersion
    BY <1>2, <1>5, <1>12 DEF MadeInv, PlacesInv, OtherTypes, ScansUseActiveVersion, Unresolved, UnresolvedStates
  <1>. QED  BY <1>7, <1>8, <1>9, <1>10, <1>11, <1>13 DEF PagesInv, VersionsInv

LEMMA PagesInvariant == Spec => [](TypeInv /\ ItemsInv /\ PagesInv)
  <1>1. Init => TypeInv /\ ItemsInv /\ PagesInv
    BY TypeInit, ItemsInit, PagesInit
  <1>2. TypeInv /\ ItemsInv /\ PagesInv /\ [Next]_vars => (TypeInv /\ ItemsInv /\ PagesInv)'
    BY TypeNext, ItemsNext, PagesNext
  <1>. QED  BY <1>1, <1>2, PTL DEF Spec

\* TypeOK: every table, request and process of both halves has its type.
THEOREM ScanTypesHold == Spec => []TypeOK
  <1>1. TypeInv /\ PagesInv => TypeOK
    BY DEF TypeInv, PagesInv, PlacesInv, OtherTypes, TypeOK, ScanTypeOK
  <1>. QED  BY PagesInvariant, <1>1, PTL

\* ScansUseActiveVersion: while a batch is open no keyword set is in the making, and
\* its items are the cohort of the version that is still the active one.
THEOREM ScansKeepActiveVersion == Spec => []ScansUseActiveVersion
  <1>1. PagesInv => ScansUseActiveVersion
    BY DEF PagesInv
  <1>. QED  BY PagesInvariant, <1>1, PTL

\* HeadTrusted: no reader of a place's active version ever answers 409.
THEOREM HeadsStayTrusted == Spec => []HeadTrusted
  <1>1. PagesInv => HeadTrusted
    BY DEF PagesInv
  <1>. QED  BY PagesInvariant, <1>1, PTL

-----------------------------------------------------------------------------
(* The ledger: batches and items are the confirmations and scans of         *)
(* ScanLedger, and every step of them is a step of it or a stutter.         *)

\* What the ledger is told, as FalconScan substitutes it.
Open == IF Unresolved = {} THEN NoRequestId ELSE batch[First(Unresolved)].id

Scan == [q \in Requests |-> [k \in Positions |->
            IF BatchOf(q) = {} THEN "none" ELSE LedgerState(item[First(BatchOf(q))][k])]]

\* One batch per confirmation and one open batch: the first is the only one.
Tells ==
    /\ \A b \in Batches :
          IF batch[b].status = "absent" THEN batch[b].id = NoRequestId
          ELSE batch[b].id \in Requests /\ Scan[batch[b].id] = [k \in Positions |-> LedgerState(item[b][k])]
    /\ \A q \in Requests :
          (\A b \in Batches : batch[b].id # q) => Scan[q] = [k \in Positions |-> "none"]
    /\ \A b \in Unresolved : Open = batch[b].id
    /\ Unresolved = {} => Open = NoRequestId

LEMMA OnlyIsFirst == ASSUME NEW b \in Nat PROVE First({b}) = b
  BY FirstIsOne

LEMMA Told == TypeInv /\ IInv /\ ItemsInv /\ MadeInv => Tells
  <1>. SUFFICES ASSUME TypeInv, IInv, ItemsInv, MadeInv PROVE Tells
    OBVIOUS
  <1>1. \A b \in Batches : b \in Nat
    BY PositionsType
  <1>2. ASSUME NEW b \in Batches, batch[b].status # "absent"
        PROVE  Scan[batch[b].id] = [k \in Positions |-> LedgerState(item[b][k])]
    <2>1. batch[b].id \in Requests /\ batch[b].id # NoRequestId
      BY <1>2, ScanAssumption DEF MadeInv
    <2>2. BatchOf(batch[b].id) = {b}
      BY <2>1 DEF BatchOf, IInv, OneBatchEach
    <2>3. First(BatchOf(batch[b].id)) = b /\ BatchOf(batch[b].id) # {}
      BY <1>1, <2>2, OnlyIsFirst
    <2>4. Scan[batch[b].id] = [k \in Positions |->
             IF BatchOf(batch[b].id) = {} THEN "none" ELSE LedgerState(item[First(BatchOf(batch[b].id))][k])]
      BY <2>1 DEF Scan
    <2>. QED  BY <2>3, <2>4
  <1>3. ASSUME NEW q \in Requests, \A b \in Batches : batch[b].id # q
        PROVE  Scan[q] = [k \in Positions |-> "none"]
    <2>1. BatchOf(q) = {}
      BY <1>3 DEF BatchOf
    <2>. QED  BY <2>1 DEF Scan
  <1>4. ASSUME NEW b \in Unresolved PROVE Open = batch[b].id
    <2>1. Unresolved = {b} /\ b \in Nat
      BY <1>1 DEF ItemsInv, OneOpen, Unresolved
    <2>. QED  BY <2>1, OnlyIsFirst DEF Open
  <1>5. Unresolved = {} => Open = NoRequestId
    BY DEF Open
  <1>. QED  BY <1>2, <1>3, <1>4, <1>5 DEF Tells, MadeInv

LEMMA LedgerInit == Init => Ledger!Init
  <1>. SUFFICES ASSUME Init PROVE Ledger!Init
    OBVIOUS
  <1>1. \A b \in Batches : batch[b].status = "absent" /\ batch[b].id = NoRequestId
    BY DEF Init, NoBatch
  <1>2. Unresolved = {}
    BY <1>1 DEF Unresolved, UnresolvedStates
  <1>3. \A q \in Requests : BatchOf(q) = {}
    BY <1>1, ScanAssumption DEF BatchOf
  <1>. QED  BY <1>2, <1>3 DEF Ledger!Init

\* The scans of one confirmation move, all others stay.
LEMMA ScanMoves ==
    ASSUME Tells, Tells', NEW b \in Batches, NEW q \in Requests,
           batch'[b].id = q, batch'[b].status # "absent", batch[b].id \in {q, NoRequestId},
           \A c \in Batches \ {b} : SameBatch(c) /\ item'[c] = item[c]
    PROVE  Scan' = [Scan EXCEPT ![q] = [k \in Positions |-> LedgerState(item'[b][k])]]
  <1>1. Scan'[q] = [k \in Positions |-> LedgerState(item'[b][k])]
    BY DEF Tells
  <1>2. ASSUME NEW r \in Requests, r # q PROVE Scan'[r] = Scan[r]
    <2>1. CASE \E c \in Batches : batch[c].id = r
      <3>1. PICK c \in Batches : batch[c].id = r
        BY <2>1
      <3>2. c # b /\ batch[c].status # "absent"
        BY <1>2, <3>1, ScanAssumption DEF Tells
      <3>3. batch'[c].status # "absent" /\ batch'[c].id = r /\ item'[c] = item[c]
        BY <3>1, <3>2 DEF SameBatch
      <3>4. Scan'[r] = [k \in Positions |-> LedgerState(item'[c][k])]
        BY <3>3 DEF Tells
      <3>5. Scan[r] = [k \in Positions |-> LedgerState(item[c][k])]
        BY <3>1, <3>2 DEF Tells
      <3>. QED  BY <3>3, <3>4, <3>5
    <2>2. CASE \A c \in Batches : batch[c].id # r
      <3>1. \A c \in Batches : batch'[c].id # r
        BY <1>2, <2>2 DEF SameBatch
      <3>. QED  BY <2>2, <3>1 DEF Tells
    <2>. QED  BY <2>1, <2>2
  <1>3. Scan = [r \in Requests |-> Scan[r]] /\ Scan' = [r \in Requests |-> Scan'[r]]
    BY DEF Scan
  <1>. QED  BY <1>1, <1>2, <1>3

\* A set of scans reads the same in both.
LEMMA LedgerOf ==
    ASSUME Tells, NEW b \in Unresolved, NEW S
    PROVE  Ledger!Of(Open, S) = {k \in Positions : LedgerState(item[b][k]) \in S}
  <1>1. Open = batch[b].id /\ batch[b].status # "absent" /\ b \in Batches
    BY DEF Tells, Unresolved, UnresolvedStates
  <1>2. Scan[Open] = [k \in Positions |-> LedgerState(item[b][k])]
    BY <1>1 DEF Tells
  <1>3. Ledger!Of(Open, S) = {k \in Positions : Scan[Open][k] \in S}
    BY DEF Ledger!Of, Scan
  <1>. QED  BY <1>2, <1>3

LEMMA LedgerStates ==
    /\ LedgerState("absent") = "none" /\ LedgerState("pending") = "queued"
    /\ LedgerState("submitting") = "asked" /\ LedgerState("unknown") = "doubtful"
    /\ LedgerState("submitted") = "acknowledged" /\ LedgerState("completed") = "measured"
    /\ LedgerState("failed") = "dropped"
  BY DEF LedgerState

\* What a step of the open batch is for the ledger.
LEMMA LedgerMoves ==
    ASSUME Tells, Tells', NEW b, NEW K, NEW to, Moves(b, K, to),
           NEW k \in K, LedgerState(to) # LedgerState(item[b][k])
    PROVE  /\ Ledger!Become(Open, K, LedgerState(to)) /\ Scan' # Scan
           /\ Open # NoRequestId
           /\ StillOpen(b) => Open' = Open
           /\ OneOpen /\ ~StillOpen(b) => Open' = NoRequestId
  <1>1. /\ b \in Batches /\ batch[b].status # "absent" /\ batch'[b].status # "absent"
        /\ batch'[b].id = batch[b].id /\ Open = batch[b].id /\ batch[b].id \in Requests
        /\ Scan[Open] = [j \in Positions |-> LedgerState(item[b][j])]
    BY DEF Moves, Tells, SameBatch, Unresolved, UnresolvedStates
  <1>2. \A c \in Batches \ {b} : SameBatch(c) /\ item'[c] = item[c]
    BY DEF Moves
  <1>3. Scan' = [Scan EXCEPT ![Open] = [j \in Positions |-> LedgerState(item'[b][j])]]
    BY <1>1, <1>2, ScanMoves
  <1>4. [j \in Positions |-> LedgerState(item'[b][j])]
          = [j \in Positions |-> IF j \in K THEN LedgerState(to) ELSE Scan[Open][j]]
    BY <1>1 DEF Moves
  <1>5. Scan' = [Scan EXCEPT ![Open] = [j \in Positions |-> IF j \in K THEN LedgerState(to) ELSE @[j]]]
    BY <1>3, <1>4
  <1>6. Ledger!Become(Open, K, LedgerState(to))
    BY <1>5 DEF Ledger!Become, Scan
  <1>7. Scan' # Scan
    <2>1. k \in Positions /\ Scan[Open][k] # LedgerState(to)
      BY <1>1 DEF Moves
    <2>2. DOMAIN Scan = Requests
      BY DEF Scan
    <2>3. Scan'[Open] = [j \in Positions |-> LedgerState(item'[b][j])]
      BY <1>1, <1>3, <2>2
    <2>4. Scan'[Open][k] = LedgerState(to)
      BY <1>4, <2>1, <2>3
    <2>. QED  BY <2>1, <2>4
  <1>8. StillOpen(b) => Open' = Open
    <2>. SUFFICES ASSUME StillOpen(b) PROVE Open' = Open
      OBVIOUS
    <2>1. b \in Unresolved'
      BY DEF StillOpen, Moves, Unresolved
    <2>. QED  BY <1>1, <2>1 DEF Tells
  <1>9. OneOpen /\ ~StillOpen(b) => Open' = NoRequestId
    <2>. SUFFICES ASSUME OneOpen, ~StillOpen(b) PROVE Open' = NoRequestId
      OBVIOUS
    <2>1. Unresolved' = {}
      BY DEF StillOpen, Moves, Unresolved, OneOpen
    <2>. QED  BY <2>1 DEF Tells
  <1>10. Open # NoRequestId
    BY <1>1, ScanAssumption
  <1>. QED  BY <1>6, <1>7, <1>8, <1>9, <1>10

LEMMA LedgerConfirms ==
    ASSUME Tells, Tells', PlacesInv, NEW b, NEW q \in Requests, NEW a \in Artifacts, Confirms(b, q, a)
    PROVE  Ledger!Next
  <1>. DEFINE K == Cohort(artifact[a].payload)
  <1>1. Unresolved = {} /\ K # {} /\ K \in SUBSET Positions
    BY Confirmed
  <1>2. /\ b \in Batches /\ batch[b].status = "absent" /\ \A c \in Batches : batch[c].id # q
        /\ batch'[b].id = q /\ batch'[b].status = "submitting"
        /\ item'[b] = [k \in Positions |-> IF k \in K THEN "pending" ELSE "absent"]
        /\ \A c \in Batches \ {b} : batch'[c] = batch[c] /\ item'[c] = item[c]
    BY DEF Confirms, Known
  <1>. HIDE DEF K
  <1>3. Open = NoRequestId /\ Scan[q] = [k \in Positions |-> "none"]
    BY <1>1, <1>2 DEF Tells
  <1>4. Open' = q
    <2>1. b \in Unresolved'
      BY <1>2 DEF Unresolved, UnresolvedStates
    <2>. QED  BY <1>2, <2>1 DEF Tells
  <1>5. Scan' = [Scan EXCEPT ![q] = [k \in Positions |-> LedgerState(item'[b][k])]]
    <2>1. \A c \in Batches \ {b} : SameBatch(c) /\ item'[c] = item[c]
      BY <1>2 DEF SameBatch
    <2>2. batch[b].id = NoRequestId
      BY <1>2 DEF Tells
    <2>. QED  BY <1>2, <2>1, <2>2, ScanMoves
  <1>6. [k \in Positions |-> LedgerState(item'[b][k])]
          = [k \in Positions |-> IF k \in K THEN "queued" ELSE Scan[q][k]]
    BY <1>2, <1>3, LedgerStates
  <1>7. Scan' = [Scan EXCEPT ![q] = [k \in Positions |-> IF k \in K THEN "queued" ELSE @[k]]]
    BY <1>5, <1>6
  <1>8. Ledger!Become(q, K, "queued")
    BY <1>7 DEF Ledger!Become, Scan
  <1>9. Ledger!Of(q, Ledger!States \ {"none"}) = {}
    <2>1. Ledger!Of(q, Ledger!States \ {"none"}) = {k \in Positions : Scan[q][k] \in Ledger!States \ {"none"}}
      BY DEF Ledger!Of, Scan
    <2>. QED  BY <1>3, <2>1
  <1>10. Ledger!Confirm(q, K)
    BY <1>1, <1>4, <1>8, <1>9 DEF Ledger!Confirm, Open
  <1>11. Scan' # Scan
    <2>1. PICK k \in Positions : k \in K
      BY <1>1
    <2>2. Scan[q][k] = "none"
      BY <1>3
    <2>3. Scan'[q][k] = "queued"
      BY <1>5, <1>6, <2>1 DEF Scan
    <2>. QED  BY <2>2, <2>3
  <1>. QED  BY <1>1, <1>3, <1>10, <1>11 DEF Ledger!Next, Open, Scan

LEMMA LedgerAsks ==
    ASSUME TypeInv, Tells, Tells', NEW b \in Batches, NEW k \in Positions, Asks(b, k)
    PROVE  Ledger!Next
  <1>1. /\ Moves(b, {k}, "submitting") /\ StillOpen(b) /\ b \in Unresolved
        /\ item[b][k] = "pending" /\ \A j \in Positions : item[b][j] # "submitting"
    BY DEF Asks, Moves
  <1>2. k \in Ledger!Of(Open, {"queued"})
    BY <1>1, LedgerOf, LedgerStates
  <1>3. Ledger!Of(Open, {"asked"}) = {}
    <2>1. \A j \in Positions : LedgerState(item[b][j]) # "asked"
      BY <1>1, LedgerStates DEF TypeInv, ItemStates
    <2>. QED  BY <1>1, <2>1, LedgerOf
  <1>4. Ledger!Become(Open, {k}, "asked") /\ Scan' # Scan /\ Open # NoRequestId /\ Open' = Open
    BY <1>1, LedgerMoves, LedgerStates
  <1>5. Ledger!Ask(k)
    BY <1>2, <1>3, <1>4 DEF Ledger!Ask, Open
  <1>. QED  BY <1>4, <1>5 DEF Ledger!Next, Open, Scan

LEMMA LedgerHears ==
    ASSUME Tells, Tells', NEW b \in Batches, NEW k \in Positions, NEW s, Hears(b, k, s)
    PROVE  Ledger!Next
  <1>1. /\ Moves(b, {k}, s) /\ StillOpen(b) /\ b \in Unresolved
        /\ item[b][k] = "submitting" /\ s \in {"submitted", "unknown"}
    BY DEF Hears, Moves
  <1>2. k \in Ledger!Of(Open, {"asked"})
    BY <1>1, LedgerOf, LedgerStates
  <1>3. Ledger!Become(Open, {k}, LedgerState(s)) /\ Scan' # Scan /\ Open # NoRequestId /\ Open' = Open
    BY <1>1, LedgerMoves, LedgerStates
  <1>4. LedgerState(s) \in {"acknowledged", "doubtful"}
    BY <1>1, LedgerStates
  <1>5. Ledger!Hear(k, LedgerState(s))
    BY <1>2, <1>3 DEF Ledger!Hear, Open
  <1>. QED  BY <1>3, <1>4, <1>5 DEF Ledger!Next, Open, Scan

LEMMA LedgerMeasures ==
    ASSUME TypeInv, OneOpen, Tells, Tells', NEW b \in Batches, NEW K \in SUBSET Positions, Measures(b, K)
    PROVE  Ledger!Next
  <1>1. /\ Moves(b, K, "completed") /\ b \in Unresolved /\ K # {}
        /\ \A k \in K : item[b][k] = "submitted"
        /\ StillOpen(b) <=> ~AllCompleted(item'[b])
    BY DEF Measures, Moves, StillOpen, Unresolved
  <1>2. K \subseteq Ledger!Of(Open, {"acknowledged"})
    BY <1>1, LedgerOf, LedgerStates
  <1>3. Ledger!Of(Open, Ledger!States \ {"none", "measured"})
          = {k \in Positions : item[b][k] \notin {"absent", "completed"}}
    <2>1. \A k \in Positions : LedgerState(item[b][k]) \in Ledger!States \ {"none", "measured"}
                                 <=> item[b][k] \notin {"absent", "completed"}
      BY <1>1, LedgerStates DEF TypeInv, ItemStates, Ledger!States
    <2>. QED  BY <1>1, <2>1, LedgerOf
  <1>4. AllCompleted(item'[b]) <=> {k \in Positions : item[b][k] \notin {"absent", "completed"}} = K
    <2>1. \A k \in Positions : item'[b][k] = IF k \in K THEN "completed" ELSE item[b][k]
      BY <1>1 DEF Moves
    <2>. QED  BY <1>1, <2>1 DEF AllCompleted
  <1>5. PICK k \in K : LedgerState("completed") # LedgerState(item[b][k])
    BY <1>1, LedgerStates
  <1>6. /\ Ledger!Become(Open, K, "measured") /\ Scan' # Scan /\ Open # NoRequestId
        /\ Open' = IF Ledger!Of(Open, Ledger!States \ {"none", "measured"}) = K THEN NoRequestId ELSE Open
    BY <1>1, <1>3, <1>4, <1>5, LedgerMoves, LedgerStates
  <1>7. Ledger!Measure(K)
    BY <1>1, <1>2, <1>6 DEF Ledger!Measure, Open
  <1>. QED  BY <1>6, <1>7 DEF Ledger!Next, Open, Scan

\* An operator closes a batch only while something of it is left.
LEMMA LedgerDrops ==
    ASSUME TypeInv, OneOpen, SummaryInv, Tells, Tells', NEW b \in Batches, DropsAll(b) \/ DropsRest(b)
    PROVE  Ledger!Next
  <1>0. b \in Unresolved /\ batch'[b].status = "failed" /\ ~StillOpen(b)
    BY DEF DropsAll, DropsRest, Moves, StillOpen, Unresolved, UnresolvedStates
  <1>1. \A k \in Positions : item[b][k] \in ItemStates
    BY DEF TypeInv
  <1>2. PICK k \in Positions : item[b][k] \notin {"absent", "completed", "failed"}
    BY <1>0, <1>1 DEF SummaryInv, Summary, Unresolved, UnresolvedStates, ItemStates
  <1>3. CASE DropsAll(b)
    <2>. DEFINE K == Items(b, {"unknown", "pending"})
    <2>1. Moves(b, K, "failed") /\ \A j \in Positions : item[b][j] \notin {"submitting", "submitted", "completed"}
      BY <1>3 DEF DropsAll
    <2>2. k \in K
      BY <1>1, <1>2, <2>1 DEF Items, ItemStates
    <2>3. Ledger!Of(Open, {"asked", "acknowledged", "measured"}) = {}
      <3>1. \A j \in Positions : LedgerState(item[b][j]) \notin {"asked", "acknowledged", "measured"}
        BY <1>1, <2>1, LedgerStates DEF ItemStates
      <3>. QED  BY <1>0, <3>1, LedgerOf
    <2>4. Ledger!Of(Open, {"queued", "doubtful"}) = K
      <3>1. \A j \in Positions : LedgerState(item[b][j]) \in {"queued", "doubtful"}
                                   <=> item[b][j] \in {"unknown", "pending"}
        BY <1>1, LedgerStates DEF ItemStates
      <3>. QED  BY <1>0, <3>1, LedgerOf DEF Items
    <2>5. LedgerState("failed") # LedgerState(item[b][k])
      BY <2>2, LedgerStates DEF Items
    <2>. HIDE DEF K
    <2>6. Ledger!Become(Open, K, "dropped") /\ Scan' # Scan /\ Open # NoRequestId /\ Open' = NoRequestId
      BY <1>0, <2>1, <2>2, <2>5, LedgerMoves, LedgerStates
    <2>7. Ledger!DropAll
      BY <2>3, <2>4, <2>6 DEF Ledger!DropAll, Open
    <2>. QED  BY <2>6, <2>7 DEF Ledger!Next, Open, Scan
  <1>4. CASE DropsRest(b)
    <2>. DEFINE K == Items(b, {"pending"})
    <2>1. Moves(b, K, "failed") /\ \A j \in Positions : item[b][j] \notin {"unknown", "submitting", "submitted"}
      BY <1>4 DEF DropsRest
    <2>2. k \in K
      BY <1>1, <1>2, <2>1 DEF Items, ItemStates
    <2>3. Ledger!Of(Open, {"asked", "acknowledged", "doubtful"}) = {}
      <3>1. \A j \in Positions : LedgerState(item[b][j]) \notin {"asked", "acknowledged", "doubtful"}
        BY <1>1, <2>1, LedgerStates DEF ItemStates
      <3>. QED  BY <1>0, <3>1, LedgerOf
    <2>4. Ledger!Of(Open, {"queued"}) = K
      <3>1. \A j \in Positions : LedgerState(item[b][j]) = "queued" <=> item[b][j] = "pending"
        BY <1>1, LedgerStates DEF ItemStates
      <3>. QED  BY <1>0, <3>1, LedgerOf DEF Items
    <2>5. LedgerState("failed") # LedgerState(item[b][k])
      BY <2>2, LedgerStates DEF Items
    <2>. HIDE DEF K
    <2>6. Ledger!Become(Open, K, "dropped") /\ Scan' # Scan /\ Open # NoRequestId /\ Open' = NoRequestId
      BY <1>0, <2>1, <2>2, <2>5, LedgerMoves, LedgerStates
    <2>7. Ledger!DropRest
      BY <2>3, <2>4, <2>6 DEF Ledger!DropRest, Open
    <2>. QED  BY <2>6, <2>7 DEF Ledger!Next, Open, Scan
  <1>. QED  BY <1>3, <1>4

LEMMA LedgerStutters ==
    ASSUME Tells, Tells', Still
    PROVE  Open' = Open /\ Scan' = Scan
  <1>1. \A c \in Batches : SameBatch(c) /\ StillOpen(c) /\ item'[c] = item[c]
    BY DEF Still
  <1>2. Open' = Open
    <2>1. CASE Unresolved = {}
      <3>1. Unresolved' = {}
        BY <1>1, <2>1 DEF StillOpen, Unresolved
      <3>. QED  BY <2>1, <3>1 DEF Tells
    <2>2. ASSUME NEW b \in Unresolved PROVE Open' = Open
      <3>1. b \in Unresolved' /\ batch'[b].id = batch[b].id
        BY <1>1 DEF StillOpen, SameBatch, Unresolved
      <3>. QED  BY <3>1 DEF Tells
    <2>. QED  BY <2>1, <2>2
  <1>3. ASSUME NEW q \in Requests PROVE Scan'[q] = Scan[q]
    <2>1. CASE \E c \in Batches : batch[c].id = q
      <3>1. PICK c \in Batches : batch[c].id = q
        BY <2>1
      <3>2. batch[c].status # "absent" /\ batch'[c].status # "absent" /\ batch'[c].id = q
        BY <1>1, <3>1, ScanAssumption DEF Tells, SameBatch
      <3>3. Scan'[q] = [k \in Positions |-> LedgerState(item'[c][k])]
        BY <3>2 DEF Tells
      <3>4. Scan[q] = [k \in Positions |-> LedgerState(item[c][k])]
        BY <3>1, <3>2 DEF Tells
      <3>. QED  BY <1>1, <3>3, <3>4
    <2>2. CASE \A c \in Batches : batch[c].id # q
      <3>1. \A c \in Batches : batch'[c].id # q
        BY <1>1, <2>2 DEF SameBatch
      <3>. QED  BY <2>2, <3>1 DEF Tells
    <2>. QED  BY <2>1, <2>2
  <1>4. Scan = [q \in Requests |-> Scan[q]] /\ Scan' = [q \in Requests |-> Scan'[q]]
    BY DEF Scan
  <1>. QED  BY <1>2, <1>3, <1>4

\* KeepsLedger: batches, leases, workers, readback, syncs and operators, with their
\* crashes, implement ScanLedger: a confirmed keyword is asked for once, and what was
\* acknowledged is never given up.
THEOREM ScansKeepLedger == Spec => KeepsLedger
  <1>. DEFINE Inv == TypeInv /\ IInv /\ ItemsInv /\ PagesInv
  <1>1. Init => Inv
    BY TypeInit, SafeInit, ItemsInit, PagesInit
  <1>2. Inv /\ [Next]_vars => Inv'
    BY TypeNext, SafeNext, ItemsNext, PagesNext
  <1>3. Inv => Tells
    BY Told DEF PagesInv
  <1>4. Inv /\ Tells /\ Tells' /\ [Next]_vars => Ledger!Next \/ (Open' = Open /\ Scan' = Scan)
    <2>. SUFFICES ASSUME Inv, Tells, Tells', [Next]_vars
                  PROVE  Ledger!Next \/ (Open' = Open /\ Scan' = Scan)
      OBVIOUS
    <2>1. ItemStep /\ OneOpen /\ SummaryInv /\ PlacesInv
      BY ItemsNext DEF ItemsInv, PagesInv
    <2>. QED  BY <2>1, LedgerConfirms, LedgerAsks, LedgerHears, LedgerMeasures, LedgerDrops, LedgerStutters
               DEF ItemStep
  <1>5. Inv /\ Tells /\ Tells' /\ [Next]_vars => [Ledger!Next]_<<Open, Scan>>
    BY <1>4
  <1>. QED  BY <1>1, <1>2, <1>3, <1>5, LedgerInit, PTL DEF Spec, KeepsLedger, Ledger!Spec, Open, Scan
=============================================================================
