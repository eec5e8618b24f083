------------------------- MODULE ProductQueueProofs -------------------------
(* Proofs about ProductQueue, for every ring length, plan and counter      *)
(* bound.                                                                  *)
EXTENDS ProductQueue, SequenceTheorems, TLAPS

(* Stepping an index stays in the ring and wraps exactly at its end.       *)
LEMMA IncIdxInRing ==
  ASSUME NEW i \in Slot
  PROVE  /\ IncIdx(i) \in Slot
         /\ IncIdx(i) = IF i + 1 = LEN_Q_BUFF THEN 0 ELSE i + 1
<1>1. CASE i + 1 = LEN_Q_BUFF
  <2>1. LEN_Q_BUFF % LEN_Q_BUFF = 0
    BY ConstantsAssumption, SMT
  <2> QED BY <1>1, <2>1, ConstantsAssumption DEF Slot, IncIdx
<1>2. CASE i + 1 # LEN_Q_BUFF
  <2>1. i + 1 \in 0 .. LEN_Q_BUFF - 1
    BY <1>2, ConstantsAssumption DEF Slot
  <2>2. (i + 1) % LEN_Q_BUFF = i + 1
    BY <2>1, ConstantsAssumption, SMT
  <2> QED BY <1>2, <2>1, <2>2 DEF Slot, IncIdx
<1> QED BY <1>1, <1>2

-----------------------------------------------------------------------------
(* Types.  A record on its way to the ring has its place among MAX_RECORD. *)
TypeInv == TypeOK /\ (Adding => queued < MAX_RECORD)

LEMMA ErasedType == Erased \in ImageType /\ Erased.init = FALSE /\ Erased.raced = FALSE
BY ConstantsAssumption DEF Erased, ImageType, NoCounts, Slot, Plan, Count

LEMMA NoRecordType ==
  NoRecord \in [type : Type, data : Count, plan : Plan, addr : Plan, overwritten : BOOLEAN]
BY ConstantsAssumption DEF NoRecord, Type, Count, Plan

LEMMA ImageHasType == TypeOK => Image \in ImageType
BY Zenon DEF TypeOK, Image, ImageType

LEMMA InitType == Init => TypeInv
<1>. SUFFICES ASSUME Init PROVE TypeInv
  OBVIOUS
<1>1. /\ front \in Slot /\ rear \in Slot /\ idx_plan \in Plan /\ flash_idx \in Plan
      /\ process_id \in Plan /\ usQfront \in Slot /\ usQrear \in Slot
  BY ConstantsAssumption DEF Init, Slot, Plan
<1>2. slot \in [Slot -> Record \cup {Blank}]
  BY DEF Init
<1>3. cnt \in [Plan -> [Type -> Count]] /\ product \in [Type -> Count]
  BY ConstantsAssumption DEF Init, NoCounts, Count
<1>4. len_plan \in 0 .. MAX_PLAN /\ queued \in 0 .. MAX_RECORD
  BY ConstantsAssumption DEF Init
<1>5. ~Adding
  BY DEF Init, Adding
<1>. QED
  BY <1>1, <1>2, <1>3, <1>4, <1>5, ErasedType, NoRecordType DEF Init, TypeOK, TypeInv

(* A boot from a well-formed image gives well-formed variables.            *)
LEMMA BootType ==
  ASSUME TypeInv, NEW img \in ImageType, NEW i \in Plan, Boot(img, i),
         flag_info' \in BOOLEAN, flash' \in ImageType, flash_idx' \in Plan,
         queued' = queued
  PROVE  TypeInv'
<1>1. /\ img.init \in BOOLEAN /\ img.front \in Slot /\ img.rear \in Slot
      /\ img.slot \in [Slot -> Record \cup {Blank}]
      /\ img.cnt \in [Plan -> [Type -> Count]]
      /\ img.corrected \in SUBSET Pair /\ img.raced \in BOOLEAN
  BY DEF ImageType
<1>2. flag_data' \in BOOLEAN
  BY DEF Boot
<1>3. 0 \in 0 .. MAX_PLAN /\ 0 \in Slot
  BY ConstantsAssumption DEF Slot
<1>4. ~Adding'
  BY DEF Boot, Idle, Adding
<1>. QED
  BY <1>1, <1>2, <1>3, <1>4, NoRecordType DEF Boot, Idle, TypeOK, TypeInv

(* A handler that begins a record.                                         *)
LEMMA SetProductType ==
  ASSUME TypeInv, NEW t \in Type, NEW d, SetProduct(t, d), resetting' \in BOOLEAN
  PROVE  TypeInv'
<1>1. d \in Count /\ adding' = [NoRecord EXCEPT !.type = t, !.data = d]
  BY DEF SetProduct
<1>2. adding' \in [type : Type, data : Count, plan : Plan, addr : Plan, overwritten : BOOLEAN]
  BY <1>1, NoRecordType
<1>3. product' \in [Type -> Count] /\ overtaken' \in SUBSET Type
  BY <1>1 DEF SetProduct, TypeInv, TypeOK
<1>. QED
  BY <1>2, <1>3 DEF SetProduct, TypeInv, TypeOK, ring, plan, flags, disk

LEMMA PendingType ==
  ASSUME TypeOK, NEW p PROVE Pending(p) \in SUBSET Type
BY DEF Pending, TypeOK

LEMMA LoopType == ASSUME TypeInv, LoopGoesOn PROVE TypeInv'
<1>. USE ConstantsAssumption DEF TypeInv
<1>. DEFINE Adds == [type : Type, data : Count, plan : Plan, addr : Plan, overwritten : BOOLEAN]
<1>1. CASE WriteRecord
  <2>1. [type |-> adding.type, data |-> adding.data, plan |-> idx_plan] \in Record
    BY DEF TypeOK, Record
  <2>2. slot' \in [Slot -> Record \cup {Blank}]
    BY <1>1, <2>1 DEF WriteRecord, TypeOK
  <2>3. adding' \in Adds
    BY <1>1 DEF WriteRecord, TypeOK
  <2>. QED
    BY <1>1, <2>2, <2>3 DEF WriteRecord, InLoop, TypeOK, Adding, shown, plan, flags, disk
<1>2. CASE WriteCounterHigh
  <2>1. adding' \in Adds /\ cnt' \in [Plan -> [Type -> Count]]
    BY <1>2 DEF WriteCounterHigh, TypeOK
  <2>2. corrected' \in SUBSET Pair
    BY <1>2 DEF WriteCounterHigh, TypeOK, Pair
  <2>. QED
    BY <1>2, <2>1, <2>2 DEF WriteCounterHigh, InLoop, TypeOK, Adding, ring, shown, plan, flags, disk
<1>3. CASE WriteCounterLow
  <2>1. cnt' \in [Plan -> [Type -> Count]]
    BY <1>3 DEF WriteCounterLow, TypeOK
  <2>2. usQfront' \in Slot
    BY <1>3, IncIdxInRing DEF WriteCounterLow, TypeOK
  <2>. QED
    BY <1>3, <2>1, <2>2 DEF WriteCounterLow, InLoop, TypeOK, Adding, ring, shown, plan, flags, disk
<1>4. CASE WriteFrontHigh
  BY <1>4 DEF WriteFrontHigh, InLoop, TypeOK, Adding, ring, shown, plan, flags, disk
<1>5. CASE WriteFront
  <2>1. queued' \in 0 .. MAX_RECORD
    BY <1>5 DEF WriteFront, PutRecord, Adding, TypeOK
  <2>2. corrected' \in SUBSET Pair
    BY <1>5 DEF WriteFront, PutRecord, TypeOK
  <2>3. 0 \in Slot /\ adding' \in Adds /\ usQrear' \in Slot /\ usQfront' \in Slot
    BY <1>5, IncIdxInRing, NoRecordType DEF WriteFront, Idle, TypeOK, Slot
  <2>4. pc' \in {"drop", "idle"}
    BY <1>5 DEF WriteFront, Idle
  <2>. QED
    BY <1>5, <2>1, <2>2, <2>3, <2>4
       DEF WriteFront, PutRecord, InLoop, TypeOK, Adding, shown, plan, flags, disk
<1>6. CASE WriteRearHigh
  BY <1>6 DEF WriteRearHigh, InLoop, TypeOK, Adding, ring, shown, plan, flags, disk
<1>7. CASE WriteRear
  <2>1. 0 \in Slot
    BY DEF Slot
  <2>. QED
    BY <1>7, <2>1, NoRecordType
       DEF WriteRear, Idle, InLoop, TypeOK, Adding, ring, shown, plan, flags, disk
<1>8. CASE Reload
  <2>1. 0 \in Slot /\ product' \in [Type -> Count] /\ overtaken' \in SUBSET Type
    BY <1>8, PendingType DEF Reload, UpdateProduct, TypeOK, Slot
  <2>. QED
    BY <1>8, <2>1, NoRecordType
       DEF Reload, UpdateProduct, Idle, TypeOK, Adding, ring, disk
<1>. QED
  BY <1>1, <1>2, <1>3, <1>4, <1>5, <1>6, <1>7, <1>8 DEF LoopGoesOn

LEMMA CallbackType == ASSUME TypeInv, CallbackStep PROVE TypeInv'
<1>. USE ConstantsAssumption DEF TypeInv
<1>. DEFINE Adds == [type : Type, data : Count, plan : Plan, addr : Plan, overwritten : BOOLEAN]
<1>1. CASE UpdateCount
  <2>1. PICK t \in Type, d \in Count :
          /\ product' = [product EXCEPT ![t] = d]
          /\ AddQueueProductData(t, d)
          /\ Overwrite(idx_plan, t)
          /\ overtaken' = (overtaken \ {t}) \cup (Pending(idx_plan) \cap {t})
    BY <1>1 DEF UpdateCount
  <2>2. [type |-> t, data |-> d, plan |-> idx_plan] \in Record
    BY DEF TypeOK, Record
  <2>3. front' \in Slot /\ rear' \in Slot
    BY <2>1, IncIdxInRing DEF AddQueueProductData, DevIncQfontIdx, TypeOK
  <2>4. slot' \in [Slot -> Record \cup {Blank}]
    BY <2>1, <2>2 DEF AddQueueProductData, TypeOK
  <2>5. cnt' \in [Plan -> [Type -> Count]] /\ product' \in [Type -> Count]
    BY <2>1 DEF AddQueueProductData, TypeOK
  <2>6. corrected' \in SUBSET Pair /\ overtaken' \in SUBSET Type
    BY <2>1, PendingType DEF AddQueueProductData, TypeOK
  <2>7. queued' \in 0 .. MAX_RECORD /\ (Adding => queued' < MAX_RECORD)
    BY <2>1 DEF AddQueueProductData, TypeOK
  <2>8. adding' \in Adds
    BY <2>1 DEF Overwrite, Under, TypeOK
  <2>9. raced' \in BOOLEAN
    BY <1>1 DEF UpdateCount
  <2>. QED
    BY <1>1, <2>3, <2>4, <2>5, <2>6, <2>7, <2>8, <2>9
       DEF UpdateCount, TypeOK, Adding, plan, flags, disk
<1>2. CASE UpdateCountOther
  <2>1. cnt' \in [Plan -> [Type -> Count]] /\ corrected' \in SUBSET Pair
    BY <1>2 DEF UpdateCountOther, TypeOK, Type, Pair
  <2>2. adding' \in Adds
    BY <1>2 DEF UpdateCountOther, Overwrite, Under, TypeOK
  <2>. QED
    BY <1>2, <2>1, <2>2 DEF UpdateCountOther, TypeOK, Adding, ring, shown, plan, flags, disk
<1>3. CASE GetPlan
  <2>1. idx_plan' \in Plan /\ len_plan' \in 0 .. MAX_PLAN
    BY <1>3 DEF GetPlan, TypeOK, Plan
  <2>2. product' \in [Type -> Count] /\ overtaken' \in SUBSET Type
    BY <1>3, <2>1, PendingType DEF GetPlan, UpdateProduct, TypeOK
  <2>. QED
    BY <1>3, <2>1, <2>2 DEF GetPlan, UpdateProduct, TypeOK, Adding, ring, flags, disk, local
<1>4. CASE ResetProduction
  <2>1. cnt' \in [Plan -> [Type -> Count]] /\ product' \in [Type -> Count] /\ 0 \in Slot
    BY <1>4 DEF ResetProduction, NoCounts, Count, Slot
  <2>2. overtaken' \in SUBSET Type /\ adding' \in Adds /\ raced' \in BOOLEAN
    BY <1>4, PendingType DEF ResetProduction, TypeOK
  <2>. QED
    BY <1>4, <2>1, <2>2 DEF ResetProduction, EmptyRing, TypeOK, Adding, plan, disk
<1>5. CASE RequestCommit
  BY <1>5 DEF RequestCommit, TypeOK, Adding, ring, shown, plan, disk, local
<1>6. CASE CommitInfo
  BY <1>6 DEF CommitInfo, TypeOK, Adding, ring, shown, plan, local
<1>7. CASE CommitData
  BY <1>7, ImageHasType DEF CommitData, TypeOK, Adding, ring, shown, plan, local
<1>. QED
  BY <1>1, <1>2, <1>3, <1>4, <1>5, <1>6, <1>7 DEF CallbackStep

LEMMA NextType == TypeInv /\ [Next]_vars => TypeInv'
<1>. SUFFICES ASSUME TypeInv, [Next]_vars PROVE TypeInv'
  OBVIOUS
<1>. USE ConstantsAssumption
<1>1. CASE IncreaseOutput
  BY <1>1, SetProductType DEF IncreaseOutput, Type, TypeInv, TypeOK
<1>2. CASE DecreaseOutput
  BY <1>2, SetProductType DEF DecreaseOutput, Type, TypeInv, TypeOK
<1>3. CASE ResetOutput
  BY <1>3, SetProductType DEF ResetOutput, Type
<1>4. CASE ResetDefect
  BY <1>4, SetProductType DEF ResetDefect, Type
<1>5. CASE ChangeProcess
  <2>1. idx_plan' \in Plan
    <3>1. len_plan \in Nat /\ len_plan > 0 /\ len_plan <= MAX_PLAN /\ idx_plan + 1 \in Nat
      BY <1>5 DEF ChangeProcess, TypeInv, TypeOK, Plan
    <3>2. (idx_plan + 1) % len_plan \in 0 .. len_plan - 1
      BY <3>1, SMT
    <3> QED BY <1>5, <3>1, <3>2 DEF ChangeProcess, Plan
  <2>. QED
    BY <1>5, <2>1 DEF ChangeProcess, TypeInv, TypeOK, Adding, ring, shown, flags, disk
<1>6. CASE Dequeue
  BY <1>6, IncIdxInRing
     DEF Dequeue, InLoop, TypeInv, TypeOK, Adding, ring, shown, plan, flags, disk
<1>7. CASE PowerLoss
  BY <1>7, BootType DEF PowerLoss, TypeInv, TypeOK, disk
<1>8. CASE PowerLossInCommit
  <2>1. flash' \in ImageType /\ flash_idx' \in Plan
    BY <1>8, ErasedType DEF PowerLossInCommit, TypeInv, TypeOK, Plan
  <2>. QED
    BY <1>8, <2>1, BootType DEF PowerLossInCommit
<1>9. CASE UNCHANGED vars
  BY <1>9 DEF vars, ring, shown, plan, flags, disk, local, TypeInv, TypeOK, Adding
<1>. QED
  BY <1>1, <1>2, <1>3, <1>4, <1>5, <1>6, <1>7, <1>8, <1>9, LoopType, CallbackType
     DEF Next, LoopBegins

(* The indices never leave the ring and the current process is always one  *)
(* of the plan: no handler, callback, restart or half-done commit breaks a *)
(* range.                                                                  *)
THEOREM TypeCorrect == Spec => []TypeOK
<1>1. TypeInv => TypeOK
  BY DEF TypeInv
<1>. QED
  BY <1>1, InitType, NextType, PTL DEF Spec

-----------------------------------------------------------------------------
(* Arithmetic of the window between rear and front.                        *)
LEMMA UsedRange ==
  ASSUME NEW f \in Slot, NEW r \in Slot
  PROVE  /\ Used(f, r) \in 0 .. LEN_Q_BUFF - 1
         /\ Used(f, r) = 0 <=> f = r
         /\ Used(f, r) = LEN_Q_BUFF - 1 <=> IncIdx(f) = r
BY IncIdxInRing, ConstantsAssumption DEF Used, Slot

LEMMA PosRange ==
  ASSUME NEW r \in Slot, NEW i \in 1 .. LEN_Q_BUFF
  PROVE  Pos(r, i) \in Slot
BY ConstantsAssumption DEF Pos, Slot

LEMMA PosNextRear ==
  ASSUME NEW r \in Slot, NEW i \in 1 .. LEN_Q_BUFF - 1
  PROVE  Pos(IncIdx(r), i) = Pos(r, i + 1)
BY IncIdxInRing, ConstantsAssumption DEF Pos, Slot

LEMMA PosOfFront ==
  ASSUME NEW f \in Slot, NEW r \in Slot
  PROVE  /\ Pos(r, Used(f, r) + 1) = f
         /\ \A i \in 1 .. Used(f, r) : Pos(r, i) # f
BY ConstantsAssumption DEF Pos, Used, Slot

LEMMA UsedNextFront ==
  ASSUME NEW f \in Slot, NEW r \in Slot, IncIdx(f) # r
  PROVE  Used(IncIdx(f), r) = Used(f, r) + 1
BY IncIdxInRing, ConstantsAssumption DEF Used, Slot

LEMMA UsedNextRear ==
  ASSUME NEW f \in Slot, NEW r \in Slot, f # r
  PROVE  Used(f, IncIdx(r)) = Used(f, r) - 1
BY IncIdxInRing, ConstantsAssumption DEF Used, Slot

LEMMA UsedBothNext ==
  ASSUME NEW f \in Slot, NEW r \in Slot, IncIdx(f) = r
  PROVE  Used(r, IncIdx(r)) = LEN_Q_BUFF - 1
BY IncIdxInRing, ConstantsAssumption DEF Used, Slot

-----------------------------------------------------------------------------
(* The window as a sequence.                                               *)
Content == Record \cup {Blank}

LEMMA QueueIsSeq ==
  ASSUME NEW f \in Slot, NEW r \in Slot, NEW s \in [Slot -> Content]
  PROVE  /\ Queue(f, r, s) \in Seq(Content)
         /\ Len(Queue(f, r, s)) = Used(f, r)
         /\ DOMAIN Queue(f, r, s) = 1 .. Used(f, r)
         /\ \A i \in 1 .. Used(f, r) : Queue(f, r, s)[i] = s[Pos(r, i)]
<1>1. Used(f, r) \in Nat /\ \A i \in 1 .. Used(f, r) : Pos(r, i) \in Slot
  BY UsedRange, PosRange, ConstantsAssumption
<1>2. \A i \in 1 .. Used(f, r) : s[Pos(r, i)] \in Content
  BY <1>1
<1> QED
  BY <1>1, <1>2 DEF Queue

(* Advancing rear over a non-empty window takes the oldest record off.     *)
LEMMA QueueTail ==
  ASSUME NEW f \in Slot, NEW r \in Slot, NEW s \in [Slot -> Content], f # r
  PROVE  /\ Queue(f, r, s) # <<>>
         /\ Queue(f, IncIdx(r), s) = Tail(Queue(f, r, s))
<1> DEFINE q == Queue(f, r, s)
           t == Queue(f, IncIdx(r), s)
<1>1. Used(f, r) \in 1 .. LEN_Q_BUFF - 1 /\ Used(f, IncIdx(r)) = Used(f, r) - 1
  BY UsedRange, UsedNextRear, ConstantsAssumption
<1>2. /\ q \in Seq(Content) /\ Len(q) = Used(f, r)
      /\ \A i \in 1 .. Used(f, r) : q[i] = s[Pos(r, i)]
  BY QueueIsSeq
<1>3. /\ t \in Seq(Content) /\ Len(t) = Used(f, r) - 1
      /\ \A i \in 1 .. Used(f, r) - 1 : t[i] = s[Pos(IncIdx(r), i)]
  BY <1>1, QueueIsSeq, IncIdxInRing, SMTT(30)
<1>4. q # <<>>
  BY <1>1, <1>2, ConstantsAssumption
<1>5. \A i \in 1 .. Used(f, r) - 1 : t[i] = q[i + 1]
  <2> SUFFICES ASSUME NEW i \in 1 .. Used(f, r) - 1 PROVE t[i] = q[i + 1]
    OBVIOUS
  <2>1. i \in 1 .. LEN_Q_BUFF - 1 /\ i + 1 \in 1 .. Used(f, r)
    BY <1>1, ConstantsAssumption
  <2>2. Pos(IncIdx(r), i) = Pos(r, i + 1)
    BY <2>1, PosNextRear
  <2> HIDE DEF q, t
  <2> QED BY <1>2, <1>3, <2>1, <2>2
<1> HIDE DEF q, t
<1>6. Tail(q) \in Seq(Content) /\ Len(Tail(q)) = Len(q) - 1
      /\ \A i \in 1 .. Len(q) - 1 : Tail(q)[i] = q[i + 1]
  BY <1>2, <1>4
<1>7. t = Tail(q)
  BY <1>2, <1>3, <1>5, <1>6, SeqEqual
<1> QED BY <1>4, <1>7 DEF q, t

(* Writing slot front and advancing appends the record; in a full ring the *)
(* oldest record goes first.                                               *)
LEMMA QueueAppend ==
  ASSUME NEW f \in Slot, NEW r \in Slot, NEW s \in [Slot -> Content],
         NEW rec \in Record
  PROVE  LET q  == Queue(f, r, s)
             r1 == IF IncIdx(f) = r THEN IncIdx(r) ELSE r
         IN  Queue(IncIdx(f), r1, [s EXCEPT ![f] = rec])
               = Append(IF Len(q) = LEN_Q_BUFF - 1 THEN Tail(q) ELSE q, rec)
<1> DEFINE s1 == [s EXCEPT ![f] = rec]
<1>1. s1 \in [Slot -> Content] /\ s1[f] = rec
  BY DEF Content
<1> HIDE DEF s1
<1>2. ASSUME NEW r0 \in Slot, IncIdx(f) # r0
      PROVE  Queue(IncIdx(f), r0, s1) = Append(Queue(f, r0, s), rec)
  <2> DEFINE q == Queue(f, r0, s)
             a == Queue(IncIdx(f), r0, s1)
             n == Used(f, r0)
  <2>1. n \in 0 .. LEN_Q_BUFF - 1 /\ Used(IncIdx(f), r0) = n + 1
    BY <1>2, UsedRange, UsedNextFront
  <2>2. /\ q \in Seq(Content) /\ Len(q) = n
        /\ \A i \in 1 .. n : q[i] = s[Pos(r0, i)]
    BY QueueIsSeq
  <2>3. /\ a \in Seq(Content) /\ Len(a) = n + 1
        /\ \A i \in 1 .. n + 1 : a[i] = s1[Pos(r0, i)]
    <3>1. /\ a \in Seq(Content) /\ Len(a) = Used(IncIdx(f), r0)
          /\ \A i \in 1 .. Used(IncIdx(f), r0) : a[i] = s1[Pos(r0, i)]
      BY <1>1, QueueIsSeq, IncIdxInRing, SMTT(30)
    <3> QED BY <2>1, <3>1
  <2>4. a[n + 1] = rec
    BY <1>1, <2>1, <2>3, PosOfFront, ConstantsAssumption
  <2>5. \A i \in 1 .. n : a[i] = q[i]
    <3> SUFFICES ASSUME NEW i \in 1 .. n PROVE a[i] = q[i]
      OBVIOUS
    <3>1. Pos(r0, i) \in Slot /\ Pos(r0, i) # f
      BY <2>1, PosRange, PosOfFront, ConstantsAssumption
    <3>2. i \in 1 .. n + 1
      BY <2>1, ConstantsAssumption
    <3>3. s1[Pos(r0, i)] = s[Pos(r0, i)]
      BY <3>1 DEF s1
    <3> HIDE DEF q, a, n
    <3> QED BY <2>2, <2>3, <3>2, <3>3
  <2> HIDE DEF q, a, n
  <2>6. /\ Append(q, rec) \in Seq(Content) /\ Len(Append(q, rec)) = n + 1
        /\ Append(q, rec)[n + 1] = rec
        /\ \A i \in 1 .. n : Append(q, rec)[i] = q[i]
    BY <2>1, <2>2 DEF Content
  <2>7. a = Append(q, rec)
    <3>1. \A i \in 1 .. n + 1 : a[i] = Append(q, rec)[i]
      BY <2>1, <2>4, <2>5, <2>6
    <3> QED BY <2>3, <2>6, <3>1, SeqEqual
  <2> QED BY <2>7 DEF q, a
<1>3. CASE IncIdx(f) # r
  <2>1. Len(Queue(f, r, s)) # LEN_Q_BUFF - 1
    BY <1>3, UsedRange, QueueIsSeq
  <2> QED BY <1>2, <1>3, <2>1 DEF s1
<1>4. CASE IncIdx(f) = r
  <2>1. Len(Queue(f, r, s)) = LEN_Q_BUFF - 1
    BY <1>4, UsedRange, QueueIsSeq
  <2>2. f # r /\ IncIdx(r) \in Slot /\ IncIdx(f) # IncIdx(r)
    BY <1>4, IncIdxInRing, ConstantsAssumption DEF Slot
  <2>3. Queue(IncIdx(f), IncIdx(r), s1) = Append(Queue(f, IncIdx(r), s), rec)
    BY <1>2, <2>2
  <2>4. Queue(f, IncIdx(r), s) = Tail(Queue(f, r, s))
    BY <2>2, QueueTail
  <2> QED BY <1>4, <2>1, <2>3, <2>4 DEF s1
<1> QED BY <1>3, <1>4

LEMMA QueueEmpty ==
  ASSUME NEW f \in Slot, NEW s
  PROVE  Queue(f, f, s) = <<>>
BY ConstantsAssumption DEF Queue, Used, Slot

LEMMA QueueFree ==
  ASSUME NEW f \in Slot, NEW r \in Slot, NEW s \in [Slot -> Content], NEW x \in Content
  PROVE  Queue(f, r, [s EXCEPT ![f] = x]) = Queue(f, r, s)
<1>. DEFINE n  == Used(f, r)
            s1 == [s EXCEPT ![f] = x]
<1>1. \A i \in 1 .. n : Pos(r, i) \in Slot /\ Pos(r, i) # f
  BY UsedRange, PosRange, PosOfFront, ConstantsAssumption
<1>2. s1 \in [Slot -> Content]
  OBVIOUS
<1>3. \A i \in 1 .. n : s1[Pos(r, i)] = s[Pos(r, i)]
  BY <1>1
<1>. HIDE DEF n, s1
<1>4. [i \in 1 .. n |-> s1[Pos(r, i)]] = [i \in 1 .. n |-> s[Pos(r, i)]]
  BY <1>3
<1>. QED
  BY <1>4 DEF Queue, n, s1

-----------------------------------------------------------------------------
(* As long as no callback raced with it, what loop() remembers agrees with *)
(* the ring it is changing.                                                *)
Rec == [type |-> adding.type, data |-> adding.data, plan |-> adding.plan]

InStep ==
  /\ pc \in {"record", "counter"} => usQfront = front
  /\ pc \in {"counter", "counterLow", "front", "frontHalf"} => slot[front] = Rec
  /\ pc \in {"front", "frontHalf"} => usQfront = IncIdx(front)
  /\ pc \in {"drop", "dropHalf"} => front = rear
  /\ pc \in {"drop", "dropHalf", "take", "takeHalf"} => usQrear = IncIdx(rear)
  /\ pc \in {"take", "takeHalf"} => front # rear

StepInv == ~raced => InStep

LEMMA InStepIdle == ASSUME pc \in {"idle", "reload"} PROVE InStep
BY DEF InStep

LEMMA LoopInStep == ASSUME TypeInv, StepInv, LoopGoesOn, ~raced' PROVE InStep'
<1>1. InStep /\ ~raced
  BY DEF LoopGoesOn, WriteRecord, WriteCounterHigh, WriteCounterLow, WriteFrontHigh,
         WriteFront, PutRecord, WriteRearHigh, WriteRear, Reload, InLoop, StepInv
<1>2. CASE WriteRecord
  <2>1. usQfront = front /\ slot' = [slot EXCEPT ![front] = Rec'] /\ slot'[front] = Rec'
    BY <1>1, <1>2 DEF WriteRecord, InStep, Rec, TypeInv, TypeOK
  <2>. QED
    BY <1>2, <2>1 DEF WriteRecord, InStep
<1>3. CASE WriteCounterHigh
  <2>1. Rec' = Rec
    BY <1>3 DEF WriteCounterHigh, Rec, TypeInv, TypeOK
  <2>. QED
    BY <1>1, <1>3, <2>1 DEF WriteCounterHigh, InStep, ring
<1>4. CASE WriteCounterLow
  BY <1>1, <1>4 DEF WriteCounterLow, InStep, ring, Rec
<1>5. CASE WriteFrontHigh
  BY <1>1, <1>5 DEF WriteFrontHigh, InStep, ring, Rec
<1>6. CASE WriteFront
  BY <1>1, <1>6 DEF WriteFront, PutRecord, Idle, InStep
<1>7. CASE WriteRearHigh
  BY <1>1, <1>7 DEF WriteRearHigh, InStep, ring
<1>8. CASE WriteRear \/ Reload
  BY <1>8 DEF WriteRear, Reload, Idle, InStep
<1>. QED
  BY <1>2, <1>3, <1>4, <1>5, <1>6, <1>7, <1>8 DEF LoopGoesOn

LEMMA CallbackInStep == ASSUME TypeInv, StepInv, CallbackStep, ~raced' PROVE InStep'
<1>1. CASE UpdateCount
  <2>1. /\ ~raced /\ ~Adding /\ ~Torn /\ (pc = "take" => rear' = rear)
        /\ UNCHANGED <<pc, usQrear>>
    BY <1>1 DEF UpdateCount
  <2>2. pc \in {"idle", "reload", "take"}
    BY <2>1 DEF Adding, Torn, TypeInv, TypeOK
  <2>3. front' = IncIdx(front) /\ rear' = IF IncIdx(front) = rear THEN IncIdx(rear) ELSE rear
    BY <1>1 DEF UpdateCount, AddQueueProductData, DevIncQfontIdx
  <2>4. CASE pc = "take"
    <3>1. usQrear = IncIdx(rear)
      BY <2>1, <2>4 DEF StepInv, InStep
    <3>2. rear \in Slot /\ IncIdx(rear) # rear
      BY IncIdxInRing, ConstantsAssumption DEF TypeInv, TypeOK, Slot
    <3>3. front' # rear'
      BY <2>1, <2>3, <2>4, <3>2
    <3>. QED
      BY <2>1, <2>4, <3>1, <3>3 DEF InStep
  <2>. QED
    BY <2>1, <2>2, <2>4 DEF InStep
<1>2. CASE UpdateCountOther
  <2>1. Rec' = Rec /\ UNCHANGED <<ring, raced, pc, usQfront, usQrear>>
    BY <1>2 DEF UpdateCountOther, Overwrite, Rec, TypeInv, TypeOK
  <2>. QED
    BY <2>1 DEF InStep, StepInv, ring
<1>3. CASE ResetProduction
  BY <1>3 DEF ResetProduction, InStep
<1>4. CASE GetPlan \/ RequestCommit \/ CommitInfo \/ CommitData
  BY <1>4 DEF GetPlan, RequestCommit, CommitInfo, CommitData, StepInv, InStep, Rec, ring, local
<1>. QED
  BY <1>1, <1>2, <1>3, <1>4 DEF CallbackStep

LEMMA NextInStep == TypeInv /\ StepInv /\ [Next]_vars => StepInv'
<1>. SUFFICES ASSUME TypeInv, StepInv, [Next]_vars, ~raced' PROVE InStep'
  BY DEF StepInv
<1>1. CASE \E t \in Type : \E d : SetProduct(t, d)
  BY <1>1 DEF SetProduct, InStep, ring
<1>2. CASE ChangeProcess \/ PowerLoss \/ PowerLossInCommit
  BY <1>2 DEF ChangeProcess, PowerLoss, PowerLossInCommit, Boot, Idle, InStep
<1>3. CASE Dequeue
  BY <1>3 DEF Dequeue, InStep, ring
<1>4. CASE UNCHANGED vars
  BY <1>4 DEF vars, ring, local, StepInv, InStep, Rec
<1>. QED
  BY <1>1, <1>2, <1>3, <1>4, LoopInStep, CallbackInStep
     DEF Next, LoopBegins, IncreaseOutput, DecreaseOutput, ResetOutput, ResetDefect, Type

Inv == TypeInv /\ StepInv

LEMMA InvHolds == Spec => []Inv
<1>1. Init => StepInv
  BY InStepIdle DEF Init, StepInv
<1>2. TypeInv /\ StepInv /\ [Next]_vars => TypeInv' /\ StepInv'
  BY NextType, NextInStep
<1>. QED
  BY <1>1, <1>2, InitType, PTL DEF Spec, Inv

-----------------------------------------------------------------------------
(* The refinement.  A record is in the queue when its front index is       *)
(* written, and the oldest is out of a full ring at once.                  *)
RAMQueue   == Queue(front, RearSeen, slot)
FlashQueue == Queue(flash.front, flash.rear, flash.slot)

LEMMA RAMIsSeq ==
  ASSUME TypeOK
  PROVE  RearSeen \in Slot /\ slot \in [Slot -> Content] /\ RAMQueue \in Seq(Content)
<1>1. RearSeen \in Slot /\ slot \in [Slot -> Content] /\ front \in Slot
  BY DEF RearSeen, TypeOK, Content
<1>. QED
  BY <1>1, QueueIsSeq DEF RAMQueue

LEMMA InitRefines == Init => Fifo!Init
<1>. SUFFICES ASSUME Init PROVE Fifo!Init
  OBVIOUS
<1>1. 0 \in Slot
  BY ConstantsAssumption DEF Slot
<1>2. RearSeen = 0
  BY DEF Init, RearSeen
<1>3. Queue(front, RearSeen, slot) = <<>> /\ Queue(flash.front, flash.rear, flash.slot) = <<>>
  BY <1>1, <1>2, QueueEmpty DEF Init, Erased
<1>. QED
  BY <1>3 DEF Init, Fifo!Init, Erased

(* What is spoilt, or was, may do as it likes.                             *)
LEMMA SpoiltSteps ==
  ASSUME raced', flash' = flash, queued' \in {queued, queued + 1}
  PROVE  Fifo!Next
<1>1. (~raced)' = FALSE
  OBVIOUS
<1>2. Fifo!Spoil
  BY <1>1, Zenon DEF Fifo!Spoil, Fifo!copy
<1>. QED
  BY <1>2 DEF Fifo!Next

(* What one more record does to the queue, in terms of sequences.          *)
After(q, rec) == Append(IF Len(q) = LEN_Q_BUFF - 1 THEN Tail(q) ELSE q, rec)

LEMMA QueuePut ==
  ASSUME TypeOK, NEW rec \in Record, RearSeen = rear,
         slot' = [slot EXCEPT ![front] = rec], front' = IncIdx(front),
         RearSeen' = IF IncIdx(front) = rear THEN IncIdx(rear) ELSE rear
  PROVE  RAMQueue' = After(RAMQueue, rec)
<1>1. front \in Slot /\ rear \in Slot /\ slot \in [Slot -> Content]
  BY DEF TypeOK, Content
<1>. QED
  BY <1>1, QueueAppend DEF RAMQueue, After

LEMMA PutRefines ==
  ASSUME NEW rec \in Record, ~raced => RAMQueue' = After(RAMQueue, rec),
         raced' = raced, flash' = flash, queued' = queued + 1
  PROVE  Fifo!Next
<1>1. Fifo!Put(rec)
  BY DEF Fifo!Put, Fifo!copy, RAMQueue, After
<1>. QED
  BY <1>1 DEF Fifo!Next

LEMMA WriteFrontQueue ==
  ASSUME Inv, WriteFront, ~raced
  PROVE  Rec \in Record /\ RAMQueue' = After(RAMQueue, Rec)
<1>1. /\ pc \in {"front", "frontHalf"} /\ front' = usQfront /\ slot' = slot /\ rear' = rear
      /\ usQfront = IncIdx(front) /\ slot[front] = Rec
  BY DEF WriteFront, PutRecord, Inv, StepInv, InStep
<1>2. slot' = [slot EXCEPT ![front] = Rec] /\ Rec \in Record
  BY <1>1 DEF Inv, TypeInv, TypeOK, Rec, Record
<1>3. RearSeen = rear
  BY <1>1 DEF RearSeen
<1>4. RearSeen' = IF usQfront = rear THEN IncIdx(rear) ELSE rear
  BY <1>1 DEF WriteFront, RearSeen, Idle
<1>. QED
  BY <1>1, <1>2, <1>3, <1>4, QueuePut DEF Inv, TypeInv

LEMMA WriteRecordQueue ==
  ASSUME Inv, WriteRecord, ~raced
  PROVE  RAMQueue' = RAMQueue
<1>. DEFINE rec == [type |-> adding.type, data |-> adding.data, plan |-> idx_plan]
<1>1. usQfront = front /\ UNCHANGED <<front, rear>>
  BY DEF WriteRecord, Inv, StepInv, InStep
<1>2. rec \in Content
  BY DEF Inv, TypeInv, TypeOK, Record, Content
<1>3. RearSeen = rear /\ RearSeen' = rear
  BY <1>1 DEF WriteRecord, RearSeen
<1>4. slot' = [slot EXCEPT ![front] = rec]
  BY <1>1 DEF WriteRecord
<1>5. front \in Slot /\ rear \in Slot /\ slot \in [Slot -> Content]
  BY DEF Inv, TypeInv, TypeOK, Content
<1>. HIDE DEF rec
<1>. QED
  BY <1>1, <1>2, <1>3, <1>4, <1>5, QueueFree DEF RAMQueue

(* Every other step of a handler of loop() leaves the queue alone, but the *)
(* last one of a take.                                                     *)
LEMMA WriteRearQueue ==
  ASSUME Inv, WriteRear, ~raced
  PROVE  \/ RAMQueue' = RAMQueue
         \/ RAMQueue # <<>> /\ RAMQueue' = Tail(RAMQueue)
<1>1. /\ rear' = usQrear /\ UNCHANGED <<front, slot>> /\ RearSeen' = usQrear
      /\ pc \in {"drop", "dropHalf", "take", "takeHalf"} /\ InStep
  BY DEF WriteRear, Idle, RearSeen, Inv, StepInv
<1>2. CASE pc \in {"drop", "dropHalf"}
  BY <1>1, <1>2 DEF RearSeen, RAMQueue
<1>3. CASE pc \in {"take", "takeHalf"}
  <2>1. RearSeen = rear /\ usQrear = IncIdx(rear) /\ front # rear
    BY <1>1, <1>3 DEF RearSeen, InStep
  <2>2. front \in Slot /\ rear \in Slot /\ slot \in [Slot -> Content]
    BY DEF Inv, TypeInv, TypeOK, Content
  <2>. QED
    BY <1>1, <2>1, <2>2, QueueTail DEF RAMQueue
<1>. QED
  BY <1>1, <1>2, <1>3

LEMMA LoopKeepsQueue ==
  ASSUME \/ WriteCounterHigh \/ WriteCounterLow \/ WriteFrontHigh \/ WriteRearHigh \/ Reload
         \/ ChangeProcess \/ Dequeue \/ \E t \in Type : \E d : SetProduct(t, d)
  PROVE  RAMQueue' = RAMQueue /\ UNCHANGED <<slot, raced, flash, queued>>
BY DEF WriteCounterHigh, WriteCounterLow, WriteFrontHigh, WriteRearHigh, Reload, Idle, InLoop,
       ChangeProcess, Dequeue, SetProduct, RAMQueue, RearSeen, ring, disk

LEMMA LoopRefines ==
  ASSUME Inv, LoopGoesOn \/ LoopBegins
  PROVE  Fifo!Next \/ UNCHANGED Fifo!vars
<1>1. flash' = flash /\ raced' = raced
  BY DEF LoopGoesOn, LoopBegins, WriteRecord, WriteCounterHigh, WriteCounterLow, WriteFrontHigh,
         WriteFront, PutRecord, WriteRearHigh, WriteRear, Reload, Dequeue, ChangeProcess,
         IncreaseOutput, DecreaseOutput, ResetOutput, ResetDefect, SetProduct, InLoop, disk
<1>2. CASE WriteFront
  <2>1. queued' = queued + 1
    BY <1>2 DEF WriteFront, PutRecord
  <2>2. CASE raced
    BY <1>1, <2>1, <2>2, SpoiltSteps
  <2>3. CASE ~raced
    <3>1. Rec \in Record /\ RAMQueue' = After(RAMQueue, Rec)
      BY <1>2, <2>3, WriteFrontQueue
    <3>. QED
      BY <1>1, <2>1, <3>1, PutRefines
  <2>. QED
    BY <2>2, <2>3
<1>3. CASE WriteRecord \/ WriteRear
  <2>1. queued' = queued
    BY <1>3 DEF WriteRecord, WriteRear
  <2>2. CASE raced
    BY <1>1, <2>1, <2>2, SpoiltSteps
  <2>3. CASE ~raced
    <3>1. \/ RAMQueue' = RAMQueue
          \/ RAMQueue # <<>> /\ RAMQueue' = Tail(RAMQueue)
      BY <1>3, <2>3, WriteRecordQueue, WriteRearQueue
    <3>2. CASE RAMQueue' = RAMQueue
      BY <1>1, <2>1, <3>2 DEF Fifo!vars, Fifo!copy, RAMQueue
    <3>3. CASE RAMQueue # <<>> /\ RAMQueue' = Tail(RAMQueue)
      <4>1. Fifo!Get
        BY <1>1, <2>1, <3>3 DEF Fifo!Get, Fifo!copy, RAMQueue
      <4>. QED
        BY <4>1 DEF Fifo!Next
    <3>. QED
      BY <3>1, <3>2, <3>3
  <2>. QED
    BY <2>2, <2>3
<1>4. CASE ~(WriteFront \/ WriteRecord \/ WriteRear)
  <2>1. RAMQueue' = RAMQueue /\ UNCHANGED <<raced, flash, queued>>
    BY <1>4, LoopKeepsQueue DEF LoopGoesOn, LoopBegins, IncreaseOutput, DecreaseOutput,
       ResetOutput, ResetDefect, Type
  <2>. QED
    BY <2>1 DEF Fifo!vars, Fifo!copy, RAMQueue
<1>. QED
  BY <1>2, <1>3, <1>4

-----------------------------------------------------------------------------
(* A correction that comes at a harmless moment adds its record.           *)
LEMMA UpdateCountQueue ==
  ASSUME Inv, NEW t \in Type, NEW d \in Count, AddQueueProductData(t, d), pc' = pc,
         usQrear' = usQrear, ~Adding, ~Torn,
         NEW rec, rec = [type |-> t, data |-> d, plan |-> idx_plan]
  PROVE  rec \in Record /\ RAMQueue' = After(RAMQueue, rec)
<1>1. rec \in Record
  BY DEF Inv, TypeInv, TypeOK, Record
<1>2. RearSeen = rear /\ RearSeen' = rear'
  BY DEF Torn, RearSeen
<1>. QED
  BY <1>1, <1>2, QueuePut DEF AddQueueProductData, DevIncQfontIdx, Inv, TypeInv

LEMMA UpdateCountRefines == ASSUME Inv, UpdateCount PROVE Fifo!Next
<1>1. PICK t \in Type, d \in Count : AddQueueProductData(t, d)
  BY DEF UpdateCount
<1>2. /\ flash' = flash /\ queued' = queued + 1 /\ UNCHANGED <<pc, usQrear>>
      /\ raced' = (raced \/ Adding \/ Torn \/ (pc = "take" /\ rear' # rear))
  BY <1>1 DEF UpdateCount, AddQueueProductData, disk
<1>3. CASE raced'
  BY <1>2, <1>3, SpoiltSteps
<1>4. CASE ~raced'
  <2>. DEFINE rec == [type |-> t, data |-> d, plan |-> idx_plan]
  <2>1. rec \in Record /\ RAMQueue' = After(RAMQueue, rec)
    BY <1>1, <1>2, <1>4, UpdateCountQueue
  <2>2. raced' = raced
    BY <1>2, <1>4 DEF Inv, TypeInv, TypeOK
  <2>. HIDE DEF rec
  <2>. QED
    BY <1>2, <2>1, <2>2, PutRefines
<1>. QED
  BY <1>3, <1>4

LEMMA ResetQueue ==
  ASSUME Inv, ResetProduction, ~raced'
  PROVE  RAMQueue' = <<>> /\ FlashQueue' = FlashQueue
<1>1. 0 \in Slot
  BY ConstantsAssumption DEF Slot
<1>2. RearSeen' = 0 /\ front' = 0
  BY DEF ResetProduction, EmptyRing, RearSeen
<1>. QED
  BY <1>1, <1>2, QueueEmpty DEF ResetProduction, RAMQueue, FlashQueue, disk

LEMMA BootQueue ==
  ASSUME NEW img, NEW i, Boot(img, i)
  PROVE  RAMQueue' = Queue(img.front, img.rear, img.slot)
BY DEF Boot, Idle, RAMQueue, RearSeen

LEMMA ErasedQueue == Queue(Erased.front, Erased.rear, Erased.slot) = <<>>
<1>1. 0 \in Slot
  BY ConstantsAssumption DEF Slot
<1>. QED
  BY <1>1, QueueEmpty DEF Erased

LEMMA CallbackRefines ==
  ASSUME Inv, CallbackStep
  PROVE  Fifo!Next \/ UNCHANGED Fifo!vars
<1>1. CASE UpdateCount
  BY <1>1, UpdateCountRefines
<1>2. CASE UpdateCountOther \/ GetPlan \/ RequestCommit \/ CommitInfo
  BY <1>2 DEF UpdateCountOther, GetPlan, RequestCommit, CommitInfo, Fifo!vars, Fifo!copy,
         RearSeen, ring, disk, local
<1>3. CASE ResetProduction
  <2>1. flash' = flash /\ queued' = queued /\ raced' \in BOOLEAN
    BY <1>3 DEF ResetProduction, disk
  <2>2. CASE raced'
    BY <2>1, <2>2, SpoiltSteps
  <2>3. CASE ~raced'
    <3>1. Fifo!Clear
      BY <1>3, <2>1, <2>3, ResetQueue DEF Fifo!Clear, Fifo!copy, RAMQueue
    <3>. QED
      BY <3>1 DEF Fifo!Next
  <2>. QED
    BY <2>2, <2>3
<1>4. CASE CommitData
  <2>1. RAMQueue' = RAMQueue /\ UNCHANGED <<raced, queued>>
    BY <1>4 DEF CommitData, RAMQueue, RearSeen, ring, local
  <2>2. CASE flash' = flash
    BY <2>1, <2>2 DEF Fifo!vars, Fifo!copy, RAMQueue
  <2>3. CASE flash' = Image
    <3>1. flash'.raced = (raced \/ Torn) /\ FlashQueue' = Queue(front, rear, slot)
      BY <2>3 DEF Image, FlashQueue
    <3>2. ~(raced \/ Torn) => FlashQueue' = RAMQueue /\ ~raced
      BY <3>1 DEF Torn, RearSeen, RAMQueue
    <3>3. Fifo!Save
      BY <2>1, <3>1, <3>2 DEF Fifo!Save, RAMQueue, FlashQueue
    <3>. QED
      BY <3>3 DEF Fifo!Next
  <2>. QED
    BY <1>4, <2>2, <2>3 DEF CommitData
<1>. QED
  BY <1>1, <1>2, <1>3, <1>4 DEF CallbackStep

LEMMA StepRefines == Inv /\ [Next]_vars => [Fifo!Next]_Fifo!vars
<1>. SUFFICES ASSUME Inv, [Next]_vars PROVE Fifo!Next \/ UNCHANGED Fifo!vars
  OBVIOUS
<1>1. ASSUME NEW i, Boot(flash, i), UNCHANGED <<flash, queued>>
      PROVE  Fifo!Next
  <2>1. RAMQueue' = FlashQueue /\ raced' = flash.raced
    BY <1>1, BootQueue DEF FlashQueue, Boot
  <2>2. Fifo!Restart
    BY <1>1, <2>1 DEF Fifo!Restart, Fifo!copy, RAMQueue, FlashQueue
  <2>. QED
    BY <2>2 DEF Fifo!Next
<1>2. CASE PowerLoss
  BY <1>1, <1>2 DEF PowerLoss, disk
<1>3. CASE PowerLossInCommit
  <2>1. CASE flash' = flash
    BY <1>1, <1>3, <2>1 DEF PowerLossInCommit
  <2>2. CASE flash' = Erased
    <3>1. Boot(Erased, flash_idx') /\ queued' = queued
      BY <1>3, <2>2 DEF PowerLossInCommit
    <3>2. RAMQueue' = <<>> /\ FlashQueue' = <<>> /\ raced' = FALSE /\ flash'.raced = FALSE
      BY <2>2, <3>1, BootQueue, ErasedQueue, ErasedType DEF FlashQueue, Boot
    <3>3. Fifo!Wipe
      BY <3>1, <3>2 DEF Fifo!Wipe, RAMQueue, FlashQueue
    <3>. QED
      BY <3>3 DEF Fifo!Next
  <2>. QED
    BY <1>3, <2>1, <2>2 DEF PowerLossInCommit
<1>4. CASE UNCHANGED vars
  BY <1>4 DEF vars, ring, disk, local, RearSeen, Fifo!vars, Fifo!copy
<1>. QED
  BY <1>2, <1>3, <1>4, LoopRefines, CallbackRefines DEF Next

(* The EEPROM ring, whatever its size, is a bounded FIFO that drops its    *)
(* oldest record when full and resumes from its committed copy: no handler *)
(* reorders, repeats or invents a record, with a callback or a commit at   *)
(* every yield but those that are known to spoil it.                       *)
THEOREM RefinesFifo == Spec => ImplementsFifo
BY InitRefines, StepRefines, InvHolds, PTL
   DEF Spec, ImplementsFifo, Fifo!Spec

-----------------------------------------------------------------------------
(* Display and counters.  The counter loop() has yet to write is the one   *)
(* whose record it adds; a process whose counters are not loaded yet is    *)
(* the only one shown under another's name.                                *)
Shown(t) ==
  IF t \in Pending(idx_plan)
    THEN product[t] = adding.data /\ ~adding.overwritten
    ELSE pc = "reload" \/ product[t] = cnt[idx_plan][t]

DisplayInv ==
  /\ pc # "reload" => process_id = idx_plan
  /\ \A t \in Type \ overtaken : Shown(t)

LEMMA SetProductDisplay ==
  ASSUME TypeOK, DisplayInv, NEW t \in Type, NEW d, SetProduct(t, d)
  PROVE  DisplayInv'
<1>1. /\ pc = "idle" /\ pc' = "record" /\ product' = [product EXCEPT ![t] = d]
      /\ overtaken' = overtaken \ {t} /\ UNCHANGED <<cnt, idx_plan, process_id>>
      /\ adding'.type = t /\ adding'.data = d /\ adding'.overwritten = FALSE
  BY DEF SetProduct, NoRecord, plan
<1>2. Pending(idx_plan) = {} /\ Pending(idx_plan)' = {t}
  BY <1>1 DEF Pending
<1>3. ASSUME NEW u \in Type \ overtaken' PROVE Shown(u)'
  <2>1. CASE u = t
    BY <1>1, <1>2, <2>1 DEF Shown, TypeOK
  <2>2. CASE u # t
    <3>1. Shown(u)
      BY <1>1, <1>3, <2>2 DEF DisplayInv
    <3>. QED
      BY <1>1, <1>2, <2>2, <3>1 DEF Shown, TypeOK
  <2>. QED
    BY <2>1, <2>2
<1>. QED
  BY <1>1, <1>3 DEF DisplayInv

LEMMA BootDisplay ==
  ASSUME NEW img, NEW i, Boot(img, i)
  PROVE  DisplayInv'
<1>1. pc' = "idle" /\ process_id' = idx_plan' /\ product' = cnt'[idx_plan']
  BY DEF Boot, Idle
<1>2. Pending(idx_plan)' = {}
  BY <1>1 DEF Pending
<1>. QED
  BY <1>1, <1>2 DEF DisplayInv, Shown

LEMMA LoopDisplay == ASSUME TypeOK, DisplayInv, LoopGoesOn PROVE DisplayInv'
<1>1. CASE WriteCounterHigh
  <2>1. /\ pc = "counter" /\ pc' = "counterLow"
        /\ UNCHANGED <<product, idx_plan, process_id, overtaken>>
        /\ adding'.addr = idx_plan /\ UNCHANGED <<adding.type, adding.data, adding.overwritten>>
        /\ \A t \in Type : t # adding.type => cnt'[idx_plan][t] = cnt[idx_plan][t]
    BY <1>1 DEF WriteCounterHigh, InLoop, shown, plan, TypeOK
  <2>2. Pending(idx_plan) = {adding.type} /\ Pending(idx_plan)' = {adding.type}
    BY <2>1 DEF Pending
  <2>3. ASSUME NEW t \in Type \ overtaken' PROVE Shown(t)'
    <3>1. Shown(t)
      BY <2>1, <2>3 DEF DisplayInv
    <3>. QED
      BY <2>1, <2>2, <3>1 DEF Shown
  <2>. QED
    BY <2>1, <2>3 DEF DisplayInv
<1>2. CASE WriteCounterLow
  <2>1. PICK d \in Count : /\ ~adding.overwritten => d = adding.data
                           /\ cnt' = [cnt EXCEPT ![adding.addr][adding.type] = d]
    BY <1>2 DEF WriteCounterLow
  <2>2. /\ pc = "counterLow" /\ pc' = "front" /\ adding' = adding
        /\ UNCHANGED <<product, idx_plan, process_id, overtaken>>
    BY <1>2 DEF WriteCounterLow, InLoop, shown, plan
  <2>3. Pending(idx_plan)' = {}
    BY <2>2 DEF Pending
  <2>4. ASSUME NEW t \in Type \ overtaken' PROVE Shown(t)'
    <3>1. Shown(t)
      BY <2>2, <2>4 DEF DisplayInv
    <3>2. CASE t \in Pending(idx_plan)
      <4>1. t = adding.type /\ adding.addr = idx_plan
        BY <2>2, <3>2 DEF Pending
      <4>2. product[t] = adding.data /\ ~adding.overwritten
        BY <3>1, <3>2 DEF Shown
      <4>3. cnt'[idx_plan][t] = adding.data
        BY <2>1, <4>1, <4>2 DEF TypeOK
      <4>. QED
        BY <2>2, <2>3, <4>2, <4>3 DEF Shown
    <3>3. CASE t \notin Pending(idx_plan)
      <4>1. ~(t = adding.type /\ adding.addr = idx_plan) /\ product[t] = cnt[idx_plan][t]
        BY <2>2, <3>1, <3>3 DEF Pending, Shown
      <4>2. cnt'[idx_plan][t] = cnt[idx_plan][t]
        BY <2>1, <4>1 DEF TypeOK
      <4>. QED
        BY <2>2, <2>3, <4>1, <4>2 DEF Shown
    <3>. QED
      BY <3>2, <3>3
  <2>. QED
    BY <2>2, <2>4 DEF DisplayInv
<1>3. CASE Reload
  <2>1. /\ pc = "reload" /\ pc' = "idle" /\ process_id' = idx_plan'
        /\ product' = cnt[idx_plan'] /\ cnt' = cnt
    BY <1>3 DEF Reload, UpdateProduct, Idle
  <2>2. Pending(idx_plan)' = {}
    BY <2>1 DEF Pending
  <2>. QED
    BY <2>1, <2>2 DEF DisplayInv, Shown
<1>4. CASE WriteRecord \/ WriteFrontHigh \/ WriteFront \/ WriteRearHigh \/ WriteRear
  <2>1. /\ UNCHANGED <<product, cnt, idx_plan, process_id, overtaken>>
        /\ pc # "reload" /\ pc' # "reload"
        /\ Pending(idx_plan)' = Pending(idx_plan)
        /\ Pending(idx_plan) # {} =>
             adding'.data = adding.data /\ adding'.overwritten = adding.overwritten
    BY <1>4 DEF WriteRecord, WriteFrontHigh, WriteFront, PutRecord, WriteRearHigh, WriteRear,
                Idle, InLoop, shown, plan, Pending, TypeOK
  <2>. QED
    BY <2>1 DEF DisplayInv, Shown
<1>. QED
  BY <1>1, <1>2, <1>3, <1>4 DEF LoopGoesOn

LEMMA CallbackDisplay == ASSUME TypeOK, DisplayInv, CallbackStep PROVE DisplayInv'
<1>1. CASE UpdateCount
  <2>1. PICK t \in Type, d \in Count :
          /\ product' = [product EXCEPT ![t] = d]
          /\ cnt'  = [cnt EXCEPT ![idx_plan][t] = d]
          /\ Overwrite(idx_plan, t)
          /\ overtaken' = (overtaken \ {t}) \cup (Pending(idx_plan) \cap {t})
    BY <1>1 DEF UpdateCount, AddQueueProductData
  <2>2. /\ UNCHANGED <<pc, idx_plan, process_id>>
        /\ UNCHANGED <<adding.type, adding.data, adding.addr>>
        /\ adding'.overwritten = (adding.overwritten \/ Under(idx_plan, t))
    BY <1>1, <2>1 DEF UpdateCount, Overwrite, plan, TypeOK
  <2>3. Pending(idx_plan)' = Pending(idx_plan)
    BY <2>2 DEF Pending
  <2>4. ASSUME NEW u \in Type \ overtaken' PROVE Shown(u)'
    <3>1. CASE u = t
      <4>1. u \notin Pending(idx_plan) /\ product'[u] = d /\ cnt'[idx_plan][u] = d
        BY <2>1, <2>4, <3>1 DEF TypeOK
      <4>. QED
        BY <2>2, <2>3, <4>1 DEF Shown
    <3>2. CASE u # t
      <4>1. Shown(u) /\ product'[u] = product[u] /\ cnt'[idx_plan][u] = cnt[idx_plan][u]
        BY <2>1, <2>4, <3>2 DEF DisplayInv, TypeOK
      <4>2. u \in Pending(idx_plan) => ~Under(idx_plan, t)
        BY <3>2 DEF Pending, Under
      <4>. QED
        BY <2>2, <2>3, <4>1, <4>2 DEF Shown
    <3>. QED
      BY <3>1, <3>2
  <2>. QED
    BY <2>2, <2>4 DEF DisplayInv
<1>2. CASE UpdateCountOther
  <2>1. PICK p \in Plan \ {process_id}, d \in Count :
          cnt' = [cnt EXCEPT ![p][OUTPUT] = d] /\ Overwrite(p, OUTPUT)
    BY <1>2 DEF UpdateCountOther
  <2>2. /\ UNCHANGED <<pc, idx_plan, process_id, product, overtaken>>
        /\ UNCHANGED <<adding.type, adding.data, adding.addr>>
        /\ adding'.overwritten = (adding.overwritten \/ Under(p, OUTPUT))
    BY <1>2, <2>1 DEF UpdateCountOther, Overwrite, shown, plan, TypeOK
  <2>3. Pending(idx_plan)' = Pending(idx_plan)
    BY <2>2 DEF Pending
  <2>4. CASE pc = "reload"
    <3>1. Pending(idx_plan)' = {}
      BY <2>2, <2>4 DEF Pending
    <3>. QED
      BY <2>2, <2>4, <3>1 DEF DisplayInv, Shown
  <2>5. CASE pc # "reload"
    <3>1. p # idx_plan
      BY <2>5 DEF DisplayInv
    <3>2. cnt'[idx_plan] = cnt[idx_plan]
      BY <2>1, <3>1 DEF TypeOK
    <3>3. ASSUME NEW t \in Pending(idx_plan) PROVE ~Under(p, OUTPUT)
      BY <3>1, <3>3 DEF Pending, Under
    <3>. QED
      BY <2>2, <2>3, <3>2, <3>3 DEF DisplayInv, Shown
  <2>. QED
    BY <2>4, <2>5
<1>3. CASE GetPlan
  <2>1. /\ product' = cnt[idx_plan'] /\ process_id' = idx_plan' /\ overtaken' = Pending(idx_plan')
        /\ UNCHANGED <<cnt, pc, adding>>
    BY <1>3 DEF GetPlan, UpdateProduct, local
  <2>2. Pending(idx_plan)' = overtaken'
    BY <2>1 DEF Pending
  <2>. QED
    BY <2>1, <2>2 DEF DisplayInv, Shown
<1>4. CASE ResetProduction
  <2>1. /\ overtaken' = Pending(idx_plan) /\ UNCHANGED <<pc, idx_plan, process_id>>
        /\ product' = [t \in Type |-> 0] /\ cnt' = NoCounts
        /\ UNCHANGED <<adding.type, adding.addr>>
    BY <1>4 DEF ResetProduction, plan, TypeOK
  <2>2. Pending(idx_plan)' = overtaken'
    BY <2>1 DEF Pending
  <2>3. \A t \in Type : product'[t] = cnt'[idx_plan][t]
    BY <2>1 DEF NoCounts, TypeOK
  <2>. QED
    BY <2>1, <2>2, <2>3 DEF DisplayInv, Shown
<1>5. CASE RequestCommit \/ CommitInfo \/ CommitData
  <2>1. UNCHANGED <<product, cnt, idx_plan, process_id, overtaken, pc, adding>>
    BY <1>5 DEF RequestCommit, CommitInfo, CommitData, shown, plan, local
  <2>. QED
    BY <2>1 DEF DisplayInv, Shown, Pending
<1>. QED
  BY <1>1, <1>2, <1>3, <1>4, <1>5 DEF CallbackStep

LEMMA StepDisplay == TypeOK /\ DisplayInv /\ [Next]_vars => DisplayInv'
<1>. SUFFICES ASSUME TypeOK, DisplayInv, [Next]_vars PROVE DisplayInv'
  OBVIOUS
<1>1. CASE \E t \in Type : \E d : SetProduct(t, d)
  BY <1>1, SetProductDisplay
<1>2. CASE ChangeProcess
  <2>1. pc' = "reload" /\ Pending(idx_plan)' = {}
    BY <1>2 DEF ChangeProcess, Pending
  <2>. QED
    BY <2>1 DEF DisplayInv, Shown
<1>3. CASE Dequeue \/ UNCHANGED vars
  <2>1. /\ UNCHANGED <<product, cnt, idx_plan, process_id, overtaken, adding>>
        /\ pc' = pc \/ (pc = "idle" /\ pc' = "take")
    BY <1>3 DEF Dequeue, InLoop, vars, shown, plan, local
  <2>2. Pending(idx_plan)' = Pending(idx_plan) /\ (pc = "reload" <=> pc' = "reload")
    BY <2>1 DEF Pending
  <2>. QED
    BY <2>1, <2>2 DEF DisplayInv, Shown
<1>4. CASE PowerLoss \/ PowerLossInCommit
  BY <1>4, BootDisplay DEF PowerLoss, PowerLossInCommit
<1>. QED
  BY <1>1, <1>2, <1>3, <1>4, LoopDisplay, CallbackDisplay
     DEF Next, LoopBegins, IncreaseOutput, DecreaseOutput, ResetOutput, ResetDefect, Type

(* The counters on the display are those in the EEPROM, with a plan, a     *)
(* correction or a reset at any yield of the handler that counts: only a   *)
(* counter such a callback overtook may differ, until it is counted or     *)
(* loaded anew.                                                            *)
THEOREM DisplayCorrect == Spec => []DisplayMatchesMemory
<1>1. Init => DisplayInv
  BY ConstantsAssumption DEF Init, DisplayInv, Shown, Pending, NoCounts, Plan
<1>2. DisplayInv => DisplayMatchesMemory
  <2>1. ASSUME NEW t \in Type, Shown(t)
        PROVE  \/ product[t] = cnt[idx_plan][t]
               \/ pc \in {"record", "counter", "counterLow"} /\ t = adding.type
               \/ pc = "reload"
    BY <2>1 DEF Shown, Pending
  <2>. QED
    BY <2>1 DEF DisplayInv, DisplayMatchesMemory
<1>. QED
  BY <1>1, <1>2, StepDisplay, TypeCorrect, PTL DEF Spec

-----------------------------------------------------------------------------
(* Ring and counters.  RingMatchesCounters is not inductive alone: the     *)
(* window must be known to hold records, never the blank content of an     *)
(* unused slot, and the record being added must be excused, or equal to    *)
(* its counter, until it is one of them.                                   *)
OnlyRecords(q) == \A i \in DOMAIN q : q[i] \in Record

Agree(q, c, k) == OnlyRecords(q) /\ NewestIsCounter(q, c, k)

LEMMA AgreeEmpty == ASSUME NEW c, NEW k PROVE Agree(<<>>, c, k)
BY DEF Agree, OnlyRecords, NewestIsCounter

LEMMA AgreeTail ==
  ASSUME NEW q \in Seq(Content), q # <<>>, NEW c, NEW k, Agree(q, c, k)
  PROVE  Agree(Tail(q), c, k)
<1>1. /\ Len(q) \in Nat \ {0} /\ DOMAIN q = 1 .. Len(q)
      /\ DOMAIN Tail(q) = 1 .. Len(q) - 1
      /\ \A i \in 1 .. Len(q) - 1 : Tail(q)[i] = q[i + 1]
  BY HeadTailProperties, LenProperties
<1>. DEFINE t == Tail(q)
<1>. HIDE DEF t
<1>2. DOMAIN t = 1 .. Len(q) - 1 /\ \A i \in 1 .. Len(q) - 1 : t[i] = q[i + 1]
  BY <1>1 DEF t
<1>3. OnlyRecords(t)
  BY <1>1, <1>2 DEF Agree, OnlyRecords
<1>4. NewestIsCounter(t, c, k)
  <2>. SUFFICES ASSUME NEW i \in 1 .. Len(q) - 1
                PROVE  \/ \E j \in DOMAIN t : /\ j > i
                                              /\ t[j].plan = t[i].plan
                                              /\ t[j].type = t[i].type
                       \/ t[i].data = c[t[i].plan][t[i].type]
                       \/ <<t[i].plan, t[i].type>> \in k
    BY <1>2 DEF NewestIsCounter
  <2>1. i + 1 \in DOMAIN q /\ t[i] = q[i + 1] /\ i \in Nat
    BY <1>1, <1>2
  <2>2. CASE \E j \in DOMAIN q : /\ j > i + 1
                                /\ q[j].plan = q[i + 1].plan
                                /\ q[j].type = q[i + 1].type
    <3>1. PICK j \in DOMAIN q : /\ j > i + 1
                                /\ q[j].plan = q[i + 1].plan
                                /\ q[j].type = q[i + 1].type
      BY <2>2
    <3>2. j - 1 \in 1 .. Len(q) - 1 /\ j - 1 > i /\ (j - 1) + 1 = j
      BY <1>1, <2>1, <3>1
    <3>3. t[j - 1] = q[j]
      BY <1>2, <3>2
    <3>. QED
      BY <1>2, <2>1, <3>1, <3>2, <3>3
  <2>. QED
    BY <2>1, <2>2 DEF Agree, NewestIsCounter
<1>. QED
  BY <1>3, <1>4 DEF Agree, t

(* A new record agrees with its counter, or is excused, and nothing        *)
(* changes for the other counters.                                         *)
Carries(rec, c, c1, k, k1) ==
  /\ rec.data = c1[rec.plan][rec.type] \/ <<rec.plan, rec.type>> \in k1
  /\ \A p \in Plan, t \in Type : <<p, t>> # <<rec.plan, rec.type>> =>
       c1[p][t] = c[p][t] /\ (<<p, t>> \in k => <<p, t>> \in k1)

(* Such a record keeps the agreement.                                      *)
LEMMA AgreeAppend ==
  ASSUME NEW q \in Seq(Content), NEW rec \in Record, NEW c, NEW c1, NEW k, NEW k1,
         Agree(q, c, k), Carries(rec, c, c1, k, k1)
  PROVE  Agree(Append(q, rec), c1, k1)
<1>. DEFINE a == Append(q, rec)
            n == Len(q)
<1>1. n \in Nat /\ DOMAIN q = 1 .. n
  BY LenProperties
<1>2. /\ DOMAIN a = 1 .. n + 1 /\ a[n + 1] = rec
      /\ \A i \in 1 .. n : a[i] = q[i]
  <2>1. rec \in Content
    BY DEF Content
  <2>. QED
    BY <1>1, <2>1, AppendProperties, LenProperties
<1>. HIDE DEF a, n
<1>3. OnlyRecords(a)
  BY <1>1, <1>2 DEF Agree, OnlyRecords
<1>4. NewestIsCounter(a, c1, k1)
  <2>. SUFFICES ASSUME NEW i \in 1 .. n + 1
                PROVE  \/ \E j \in DOMAIN a : /\ j > i
                                              /\ a[j].plan = a[i].plan
                                              /\ a[j].type = a[i].type
                       \/ a[i].data = c1[a[i].plan][a[i].type]
                       \/ <<a[i].plan, a[i].type>> \in k1
    BY <1>2 DEF NewestIsCounter
  <2>1. CASE i = n + 1
    BY <2>1, <1>2 DEF Carries
  <2>2. CASE i # n + 1
    <3>1. i \in 1 .. n /\ n + 1 > i /\ n + 1 \in DOMAIN a
      BY <1>1, <1>2, <2>2
    <3>2. a[i] = q[i] /\ q[i] \in Record
      BY <1>1, <1>2, <3>1 DEF Agree, OnlyRecords
    <3>3. CASE q[i].plan = rec.plan /\ q[i].type = rec.type
      BY <1>2, <3>1, <3>2, <3>3
    <3>4. CASE ~(q[i].plan = rec.plan /\ q[i].type = rec.type)
      <4>1. q[i].plan \in Plan /\ q[i].type \in Type
        BY <3>2 DEF Record
      <4>2. /\ c1[q[i].plan][q[i].type] = c[q[i].plan][q[i].type]
            /\ <<q[i].plan, q[i].type>> \in k => <<q[i].plan, q[i].type>> \in k1
        BY <3>4, <4>1 DEF Carries
      <4>3. CASE \E j \in DOMAIN q : /\ j > i /\ q[j].plan = q[i].plan
                                    /\ q[j].type = q[i].type
        <5>1. PICK j \in DOMAIN q : /\ j > i /\ q[j].plan = q[i].plan
                                    /\ q[j].type = q[i].type
          BY <4>3
        <5>2. j \in DOMAIN a /\ a[j] = q[j]
          BY <1>1, <1>2, <5>1
        <5>. QED
          BY <3>2, <5>1, <5>2
      <4>4. i \in DOMAIN q
        BY <1>1, <3>1
      <4>. QED
        BY <3>2, <4>2, <4>3, <4>4 DEF Agree, NewestIsCounter
    <3>. QED
      BY <3>3, <3>4
  <2>. QED
    BY <2>1, <2>2
<1>. QED
  BY <1>3, <1>4 DEF Agree, a

(* The same in a ring that may be full.                                    *)
LEMMA AgreeAfter ==
  ASSUME NEW q \in Seq(Content), NEW rec \in Record, NEW c, NEW c1, NEW k, NEW k1,
         Agree(q, c, k), Carries(rec, c, c1, k, k1)
  PROVE  Agree(After(q, rec), c1, k1)
<1>1. CASE Len(q) = LEN_Q_BUFF - 1
  <2>1. q # <<>>
    BY <1>1, ConstantsAssumption
  <2>2. Tail(q) \in Seq(Content) /\ Agree(Tail(q), c, k)
    BY <2>1, AgreeTail, HeadTailProperties
  <2>3. Agree(Append(Tail(q), rec), c1, k1)
    BY <2>2, AgreeAppend
  <2>. QED
    BY <1>1, <2>3 DEF After
<1>2. CASE Len(q) # LEN_Q_BUFF - 1
  BY <1>2, AgreeAppend DEF After
<1>. QED
  BY <1>1, <1>2

(* A counter that changes without a record is excused.                     *)
LEMMA AgreeExcused ==
  ASSUME NEW q, NEW c, NEW c1, NEW k, NEW k1, Agree(q, c, k),
         \A p \in Plan, t \in Type : c1[p][t] = c[p][t] \/ <<p, t>> \in k1,
         k \subseteq k1
  PROVE  Agree(q, c1, k1)
<1>1. \A i \in DOMAIN q : q[i].plan \in Plan /\ q[i].type \in Type
  BY DEF Agree, OnlyRecords, Record
<1>. QED
  BY <1>1 DEF Agree, NewestIsCounter

(* What loop() has written of the record on its way to the ring.           *)
OnItsWay ==
  /\ pc \in {"counterLow", "front", "frontHalf"} =>
       <<adding.addr, adding.type>> \in corrected /\ <<adding.plan, adding.type>> \in corrected
  /\ pc \in {"front", "frontHalf"} /\ ~adding.overwritten =>
       cnt[adding.addr][adding.type] = adding.data

RingAgrees  == Agree(RAMQueue, cnt, corrected) /\ OnItsWay
FlashAgrees == Agree(FlashQueue, flash.cnt, flash.corrected)
RingInv     == (~raced => RingAgrees) /\ (~flash.raced => FlashAgrees)

LEMMA LoopRing ==
  ASSUME Inv, RingAgrees, ~raced, LoopGoesOn
  PROVE  RingAgrees'
<1>. USE DEF RingAgrees
<1>0. RAMQueue \in Seq(Content)
  BY RAMIsSeq DEF Inv, TypeInv
<1>1. CASE WriteRecord
  <2>1. RAMQueue' = RAMQueue
    BY <1>1, WriteRecordQueue
  <2>. QED
    BY <1>1, <2>1 DEF WriteRecord, OnItsWay
<1>2. CASE WriteCounterHigh
  <2>1. PICK m \in Count : cnt' = [cnt EXCEPT ![idx_plan][adding.type] = m]
    BY <1>2 DEF WriteCounterHigh
  <2>2. /\ RAMQueue' = RAMQueue /\ pc' = "counterLow"
        /\ corrected' = corrected \cup {<<idx_plan, adding.type>>, <<adding.plan, adding.type>>}
        /\ adding'.addr = idx_plan /\ adding'.type = adding.type /\ adding'.plan = adding.plan
    BY <1>2, LoopKeepsQueue DEF WriteCounterHigh, Inv, TypeInv, TypeOK
  <2>3. \A p \in Plan, t \in Type : cnt'[p][t] = cnt[p][t] \/ <<p, t>> \in corrected'
    BY <2>1, <2>2 DEF Inv, TypeInv, TypeOK
  <2>4. corrected \subseteq corrected'
    BY <2>2
  <2>5. Agree(RAMQueue', cnt', corrected')
    BY <2>2, <2>3, <2>4, AgreeExcused
  <2>. QED
    BY <2>2, <2>5 DEF OnItsWay
<1>3. CASE WriteCounterLow
  <2>1. PICK d \in Count : /\ ~adding.overwritten => d = adding.data
                           /\ cnt' = [cnt EXCEPT ![adding.addr][adding.type] = d]
    BY <1>3 DEF WriteCounterLow
  <2>2. /\ RAMQueue' = RAMQueue /\ pc = "counterLow" /\ pc' = "front"
        /\ corrected' = corrected /\ adding' = adding
    BY <1>3, LoopKeepsQueue DEF WriteCounterLow
  <2>3. \A p \in Plan, t \in Type : cnt'[p][t] = cnt[p][t] \/ <<p, t>> \in corrected'
    BY <2>1, <2>2 DEF OnItsWay, Inv, TypeInv, TypeOK
  <2>4. Agree(RAMQueue', cnt', corrected')
    BY <2>2, <2>3, AgreeExcused
  <2>5. ~adding.overwritten => cnt'[adding.addr][adding.type] = adding.data
    BY <2>1 DEF Inv, TypeInv, TypeOK
  <2>. QED
    BY <2>2, <2>4, <2>5 DEF OnItsWay
<1>4. CASE WriteFrontHigh \/ WriteRearHigh \/ Reload
  <2>1. RAMQueue' = RAMQueue /\ UNCHANGED <<cnt, corrected>>
    BY <1>4, LoopKeepsQueue DEF WriteFrontHigh, WriteRearHigh, Reload
  <2>2. OnItsWay'
    BY <1>4 DEF WriteFrontHigh, WriteRearHigh, Reload, Idle, OnItsWay
  <2>. QED
    BY <2>1, <2>2
<1>5. CASE WriteFront
  <2>1. Rec \in Record /\ RAMQueue' = After(RAMQueue, Rec)
    BY <1>5, WriteFrontQueue
  <2>2. /\ pc \in {"front", "frontHalf"} /\ cnt' = cnt
        /\ corrected' = IF adding.plan = adding.addr /\ ~adding.overwritten
                          THEN corrected \ {<<adding.plan, adding.type>>} ELSE corrected
        /\ pc' \in {"drop", "idle"}
    BY <1>5 DEF WriteFront, PutRecord, Idle
  <2>3. Rec.data = cnt'[Rec.plan][Rec.type] \/ <<Rec.plan, Rec.type>> \in corrected'
    BY <2>2 DEF OnItsWay, Rec
  <2>4. \A p \in Plan, t \in Type : <<p, t>> # <<Rec.plan, Rec.type>> =>
          cnt'[p][t] = cnt[p][t] /\ (<<p, t>> \in corrected => <<p, t>> \in corrected')
    BY <2>2 DEF Rec
  <2>5. Agree(RAMQueue', cnt', corrected')
    BY <1>0, <2>1, <2>3, <2>4, AgreeAfter DEF Carries
  <2>. QED
    BY <2>2, <2>5 DEF OnItsWay
<1>6. CASE WriteRear
  <2>1. \/ RAMQueue' = RAMQueue
        \/ RAMQueue # <<>> /\ RAMQueue' = Tail(RAMQueue)
    BY <1>6, WriteRearQueue
  <2>2. Agree(RAMQueue', cnt, corrected)
    BY <1>0, <2>1, AgreeTail
  <2>. QED
    BY <1>6, <2>2 DEF WriteRear, Idle, OnItsWay
<1>. QED
  BY <1>1, <1>2, <1>3, <1>4, <1>5, <1>6 DEF LoopGoesOn

LEMMA CallbackRing ==
  ASSUME Inv, ~raced => RingAgrees, ~raced', CallbackStep
  PROVE  RingAgrees'
<1>0. RAMQueue \in Seq(Content)
  BY RAMIsSeq DEF Inv, TypeInv
<1>1. CASE UpdateCount
  <2>1. PICK t \in Type, d \in Count : AddQueueProductData(t, d)
    BY <1>1 DEF UpdateCount
  <2>. DEFINE rec == [type |-> t, data |-> d, plan |-> idx_plan]
  <2>2. ~raced /\ ~Adding /\ ~Torn /\ UNCHANGED <<pc, usQrear>>
    BY <1>1 DEF UpdateCount
  <2>3. rec \in Record /\ RAMQueue' = After(RAMQueue, rec)
    BY <2>1, <2>2, UpdateCountQueue
  <2>4. /\ rec.plan = idx_plan /\ rec.type = t /\ rec.data = d
        /\ cnt' = [cnt EXCEPT ![idx_plan][t] = d] /\ corrected' = corrected \ {<<idx_plan, t>>}
    BY <2>1 DEF AddQueueProductData
  <2>. HIDE DEF rec
  <2>5. rec.data = cnt'[rec.plan][rec.type]
    BY <2>4 DEF Inv, TypeInv, TypeOK
  <2>6. \A p \in Plan, u \in Type : <<p, u>> # <<rec.plan, rec.type>> =>
          cnt'[p][u] = cnt[p][u] /\ (<<p, u>> \in corrected => <<p, u>> \in corrected')
    BY <2>4 DEF Inv, TypeInv, TypeOK
  <2>7. Carries(rec, cnt, cnt', corrected, corrected')
    BY <2>5, <2>6 DEF Carries
  <2>8. Agree(RAMQueue, cnt, corrected)
    BY <2>2 DEF RingAgrees
  <2>9. Agree(RAMQueue', cnt', corrected')
    BY <1>0, <2>3, <2>7, <2>8, AgreeAfter
  <2>. QED
    BY <2>2, <2>9 DEF OnItsWay, Adding, RingAgrees
<1>2. CASE UpdateCountOther
  <2>1. PICK p \in Plan, d \in Count :
          /\ cnt' = [cnt EXCEPT ![p][OUTPUT] = d] /\ corrected' = corrected \cup {<<p, OUTPUT>>}
          /\ Overwrite(p, OUTPUT)
    BY <1>2 DEF UpdateCountOther
  <2>2. RAMQueue' = RAMQueue /\ UNCHANGED <<raced, pc>>
    BY <1>2 DEF UpdateCountOther, RAMQueue, RearSeen, ring
  <2>3. \A x \in Plan, t \in Type : cnt'[x][t] = cnt[x][t] \/ <<x, t>> \in corrected'
    BY <2>1 DEF Inv, TypeInv, TypeOK
  <2>4. Agree(RAMQueue', cnt', corrected')
    BY <2>1, <2>2, <2>3, AgreeExcused DEF RingAgrees
  <2>5. /\ UNCHANGED <<adding.type, adding.data, adding.addr, adding.plan>>
        /\ adding'.overwritten = (adding.overwritten \/ Under(p, OUTPUT))
    BY <2>1 DEF Overwrite, Inv, TypeInv, TypeOK
  <2>6. pc \in {"front", "frontHalf"} /\ ~adding'.overwritten =>
          cnt'[adding.addr][adding.type] = cnt[adding.addr][adding.type]
    <3>1. pc \in {"front", "frontHalf"} /\ ~Under(p, OUTPUT) =>
            ~(adding.addr = p /\ adding.type = OUTPUT)
      BY DEF Under
    <3>. QED
      BY <2>1, <2>5, <3>1 DEF Inv, TypeInv, TypeOK, Type
  <2>7. OnItsWay'
    BY <2>1, <2>2, <2>5, <2>6 DEF OnItsWay, RingAgrees
  <2>. QED
    BY <2>4, <2>7 DEF RingAgrees
<1>3. CASE ResetProduction
  <2>1. RAMQueue' = <<>>
    BY <1>3, ResetQueue
  <2>2. pc' \in {"idle", "reload"}
    BY <1>3 DEF ResetProduction
  <2>. QED
    BY <2>1, <2>2, AgreeEmpty DEF RingAgrees, OnItsWay
<1>4. CASE GetPlan \/ RequestCommit \/ CommitInfo \/ CommitData
  <2>1. RAMQueue' = RAMQueue /\ UNCHANGED <<raced, cnt, corrected, pc, adding>>
    BY <1>4 DEF GetPlan, RequestCommit, CommitInfo, CommitData, RAMQueue, RearSeen, ring, local
  <2>. QED
    BY <2>1 DEF RingAgrees, OnItsWay
<1>. QED
  BY <1>1, <1>2, <1>3, <1>4 DEF CallbackStep

LEMMA BootRing ==
  ASSUME NEW img, NEW i, Boot(img, i),
         Agree(Queue(img.front, img.rear, img.slot), img.cnt, img.corrected)
  PROVE  RingAgrees'
<1>1. RAMQueue' = Queue(img.front, img.rear, img.slot)
  BY BootQueue
<1>2. cnt' = img.cnt /\ corrected' = img.corrected /\ pc' = "idle"
  BY DEF Boot, Idle
<1>. QED
  BY <1>1, <1>2 DEF RingAgrees, OnItsWay

LEMMA StepRing == Inv /\ RingInv /\ [Next]_vars => RingInv'
<1>. SUFFICES ASSUME Inv, RingInv, [Next]_vars PROVE RingInv'
  OBVIOUS
<1>1. ASSUME UNCHANGED flash PROVE ~flash'.raced => FlashAgrees'
  BY <1>1 DEF RingInv, FlashAgrees, FlashQueue
<1>2. CASE LoopGoesOn
  <2>1. UNCHANGED <<flash, raced>>
    BY <1>2 DEF LoopGoesOn, WriteRecord, WriteCounterHigh, WriteCounterLow, WriteFrontHigh,
       WriteFront, PutRecord, WriteRearHigh, WriteRear, Reload, InLoop, disk
  <2>. QED
    BY <1>1, <1>2, <2>1, LoopRing DEF RingInv
<1>3. CASE \/ \E t \in Type : \E d : SetProduct(t, d)
           \/ ChangeProcess \/ Dequeue \/ UNCHANGED vars
  <2>1. UNCHANGED <<flash, raced, cnt, corrected>> /\ RAMQueue' = RAMQueue
    BY <1>3, LoopKeepsQueue DEF SetProduct, ChangeProcess, Dequeue, InLoop, vars, ring, disk,
       local, RAMQueue, RearSeen
  <2>2. OnItsWay => OnItsWay'
    BY <1>3, <2>1 DEF SetProduct, ChangeProcess, Dequeue, vars, local, OnItsWay
  <2>. QED
    BY <1>1, <2>1, <2>2 DEF RingInv, RingAgrees
<1>4. CASE CallbackStep
  <2>1. CASE UNCHANGED flash
    BY <1>1, <1>4, <2>1, CallbackRing DEF RingInv
  <2>2. CASE CommitData /\ flash' = Image
    <3>1. flash'.raced = (raced \/ Torn) /\ FlashQueue' = Queue(front, rear, slot)
          /\ flash'.cnt = cnt /\ flash'.corrected = corrected
      BY <2>2 DEF Image, FlashQueue
    <3>2. ~flash'.raced => FlashAgrees'
      BY <3>1 DEF Torn, RearSeen, RAMQueue, RingInv, RingAgrees, FlashAgrees
    <3>. QED
      BY <1>4, <3>2, CallbackRing DEF RingInv
  <2>. QED
    BY <1>4, <2>1, <2>2 DEF CallbackStep, UpdateCount, UpdateCountOther, GetPlan,
       ResetProduction, RequestCommit, CommitInfo, CommitData, disk
<1>5. ASSUME NEW i, Boot(flash, i), UNCHANGED flash PROVE RingInv'
  <2>1. ~flash.raced => RingAgrees'
    BY <1>5, BootRing DEF RingInv, FlashAgrees, FlashQueue
  <2>2. raced' = flash.raced
    BY <1>5 DEF Boot
  <2>. QED
    BY <1>1, <1>5, <2>1, <2>2 DEF RingInv
<1>6. CASE PowerLoss
  BY <1>5, <1>6 DEF PowerLoss, disk
<1>7. CASE PowerLossInCommit
  <2>1. CASE flash' = flash
    BY <1>5, <1>7, <2>1 DEF PowerLossInCommit
  <2>2. CASE flash' = Erased
    <3>1. Boot(Erased, flash_idx')
      BY <1>7, <2>2 DEF PowerLossInCommit
    <3>2. Agree(Queue(Erased.front, Erased.rear, Erased.slot), Erased.cnt, Erased.corrected)
      BY ErasedQueue, AgreeEmpty
    <3>3. RingAgrees' /\ FlashAgrees'
      BY <2>2, <3>1, <3>2, BootRing DEF FlashAgrees, FlashQueue
    <3>. QED
      BY <3>3 DEF RingInv
  <2>. QED
    BY <1>7, <2>1, <2>2 DEF PowerLossInCommit
<1>. QED
  BY <1>2, <1>3, <1>4, <1>6, <1>7
     DEF Next, LoopBegins, IncreaseOutput, DecreaseOutput, ResetOutput, ResetDefect, Type

LEMMA RingInvSuffices == Inv /\ RingInv => RingMatchesCounters
<1>. SUFFICES ASSUME Inv, RingInv PROVE RingMatchesCounters
  OBVIOUS
<1>1. ASSUME ~raced PROVE NewestIsCounter(Queue(front, rear, slot), cnt, corrected)
  <2>1. CASE pc \in {"drop", "dropHalf"}
    <3>1. front = rear /\ rear \in Slot
      BY <1>1, <2>1 DEF Inv, StepInv, InStep, TypeInv, TypeOK
    <3>2. Queue(front, rear, slot) = <<>>
      BY <3>1, QueueEmpty
    <3>. QED
      BY <3>2 DEF NewestIsCounter
  <2>2. CASE pc \notin {"drop", "dropHalf"}
    BY <1>1, <2>2 DEF RearSeen, RAMQueue, RingInv, RingAgrees, Agree
  <2>. QED
    BY <2>1, <2>2
<1>2. ~flash.raced => NewestIsCounter(FlashQueue, flash.cnt, flash.corrected)
  BY DEF RingInv, FlashAgrees, Agree
<1>. QED
  BY <1>1, <1>2 DEF RingMatchesCounters, FlashQueue

(* In RAM and in flash, with a commit, a callback or a power failure at    *)
(* every yield, the newest queued record of a process and type tells the   *)
(* value of its counter; the exceptions are the counter whose record was   *)
(* being added, those the server overwrote, and a ring that was raced with *)
(* or committed between the bytes of an index.                             *)
THEOREM RingCorrect == Spec => []RingMatchesCounters
<1>1. Init => RingInv
  <2>. SUFFICES ASSUME Init PROVE RingInv
    OBVIOUS
  <2>1. 0 \in Slot
    BY ConstantsAssumption DEF Slot
  <2>2. RAMQueue = <<>> /\ FlashQueue = <<>>
    BY <2>1, QueueEmpty DEF Init, Erased, RAMQueue, FlashQueue, RearSeen
  <2>. QED
    BY <2>2, AgreeEmpty DEF RingInv, RingAgrees, FlashAgrees, OnItsWay, Init
<1>. QED
  BY <1>1, StepRing, RingInvSuffices, InvHolds, PTL DEF Spec

=============================================================================
