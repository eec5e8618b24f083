----------------------------- MODULE LoopProofs ------------------------------
(***************************************************************************)
(* Theorems about what loop() does while callbacks and interrupts come in  *)
(* between.  For rings, bytes and messages of every size (E2pYield): every *)
(* variable keeps its type, and unless a callback or a commit came at a    *)
(* bad moment the buffer holds every record once, whole and in order.  For *)
(* a clock of every width, every start of it and all the code's intervals  *)
(* (MachineTimes): no stretch of time is counted twice, and a sewing       *)
(* machine counts as stopped only when it is still.                        *)
(***************************************************************************)
EXTENDS E2pYield, MachineTimes, SequenceTheorems, TLAPS

(***************************************************************************)
(* The ring.  Its places are counted from the rear index, without          *)
(* remainders.                                                             *)
(***************************************************************************)
Ring  == 0 .. LEN_Q_BUFF - 1
Word  == 0 .. BASE * BASE - 1
Id    == 0 .. MAX_RECORD
Slots == [Ring -> Id \X Id]

Used(f, r) == IF r <= f THEN f - r ELSE f + LEN_Q_BUFF - r
Place(r, i) == IF r + i < LEN_Q_BUFF THEN r + i ELSE r + i - LEN_Q_BUFF

(* The slots s from rear r to front f hold the records k.                  *)
Holds(f, r, s, k) ==
  /\ f \in Ring /\ r \in Ring
  /\ Len(k) = Used(f, r)
  /\ \A i \in 1 .. Len(k) : k[i] = s[Place(r, i - 1)]

-----------------------------------------------------------------------------
(* The inductive invariant.                                                *)

Places == {"idle", "record1", "record2", "counter", "frontHigh", "frontLow", "rearHigh",
           "rearLow"}

IndicesTyped == front \in Word /\ rear \in Word /\ flash.front \in Word /\ flash.rear \in Word
CopiesTyped  == usQfront \in Word /\ usQrear \in Ring /\ pc \in Places
SlotsTyped   == slot \in Slots /\ flash.slot \in Slots
KeptTyped    == /\ kept \in Seq(Id \X Id) /\ Len(kept) < LEN_Q_BUFF
                /\ flash.kept \in Seq(Id \X Id) /\ Len(flash.kept) < LEN_Q_BUFF
CountsTyped  ==
  /\ made \in Nat /\ entries \in 0 .. MAX_BATCH /\ made + entries <= MAX_RECORD
  /\ mine \in Id
  /\ callbacks \in 0 .. MAX_CALLBACKS /\ losses \in 0 .. MAX_LOSSES

Typed == IndicesTyped /\ CopiesTyped /\ SlotsTyped /\ KeptTyped /\ CountsTyped

(* From one write of loop() to the next: what the ring holds, and what of  *)
(* the record and of the index is written.                                 *)
AtIdle == pc = "idle" => Holds(front, rear, slot, kept)

AtRecord ==
  pc \in {"record1", "record2", "counter"} =>
    /\ Holds(front, rear, slot, kept) /\ mine # 0 /\ usQfront = front
    /\ pc # "record1" => slot[front][1] = mine
    /\ pc = "counter" => slot[front][2] = mine

(* The front index moves; the record lies before the place it moves to.    *)
AtFront ==
  pc \in {"frontHigh", "frontLow"} =>
    /\ usQfront \in Ring /\ mine # 0
    /\ Holds(Dec(usQfront), rear, slot, kept)
    /\ slot[Dec(usQfront)] = Whole(mine)
    /\ front = IF pc = "frontHigh" THEN Dec(usQfront) ELSE High(Dec(usQfront), usQfront)

(* The rear index moves, for a record sent or for one that gave way.       *)
AtRear ==
  pc \in {"rearHigh", "rearLow"} =>
    /\ rear = IF pc = "rearHigh" THEN Dec(usQrear) ELSE High(Dec(usQrear), usQrear)
    /\ IF mine = 0
         THEN Holds(front, Dec(usQrear), slot, kept) /\ front # Dec(usQrear)
         ELSE Holds(front, usQrear, slot, kept) /\ front = Dec(usQrear)

Whereabouts == AtIdle /\ AtRecord /\ AtFront /\ AtRear

Committed == ~flash.raced => Holds(flash.front, flash.rear, flash.slot, flash.kept)

YieldInv == Typed /\ (~raced => Whereabouts) /\ Committed

-----------------------------------------------------------------------------
LEMMA IndexSteps ==
  /\ \A q \in Nat : Inc(q) \in Ring
  /\ \A q \in Ring : /\ Inc(q) = IF q = LEN_Q_BUFF - 1 THEN 0 ELSE q + 1
                     /\ Dec(q) = IF q = 0 THEN LEN_Q_BUFF - 1 ELSE q - 1
                     /\ Inc(q) \in Ring /\ Dec(q) \in Ring
                     /\ Dec(Inc(q)) = q /\ Inc(Dec(q)) = q
<1>1. ASSUME NEW q \in Nat PROVE Inc(q) \in Ring
  BY YieldAssumption DEF Inc, Ring
<1>2. \A q \in Ring : Inc(q) = IF q = LEN_Q_BUFF - 1 THEN 0 ELSE q + 1
  <2>1. TAKE q \in Ring
  <2>2. CASE q = LEN_Q_BUFF - 1
    BY <2>2, YieldAssumption DEF Inc, Ring
  <2>3. CASE q < LEN_Q_BUFF - 1
    BY <2>3, YieldAssumption DEF Inc, Ring
  <2>. QED
    BY <2>2, <2>3, YieldAssumption DEF Ring
<1>3. \A q \in Ring : Dec(q) = IF q = 0 THEN LEN_Q_BUFF - 1 ELSE q - 1
  <2>1. TAKE q \in Ring
  <2>2. CASE q = 0
    BY <2>2, YieldAssumption DEF Dec, Ring
  <2>3. CASE q > 0
    <3>1. q + LEN_Q_BUFF - 1 = (q - 1) + LEN_Q_BUFF
      BY YieldAssumption DEF Ring
    <3>. QED
      BY <2>3, <3>1, YieldAssumption DEF Dec, Ring
  <2>. QED
    BY <2>2, <2>3, YieldAssumption DEF Ring
<1>. QED
  BY <1>1, <1>2, <1>3, YieldAssumption DEF Ring

LEMMA RingInWord == Ring \subseteq Word /\ Ring \subseteq Nat
  BY YieldAssumption DEF Ring, Word

(* The two bytes of an index.                                              *)
LEMMA Bytes ==
  ASSUME NEW x \in Word
  PROVE  /\ x \div BASE \in 0 .. BASE - 1 /\ x % BASE \in 0 .. BASE - 1
         /\ x = (x \div BASE) * BASE + (x % BASE)
<1>1. BASE \in Nat \ {0} /\ x \in Nat /\ x < BASE * BASE
  BY YieldAssumption DEF Word
<1>2. x = (x \div BASE) * BASE + (x % BASE)
  BY <1>1
<1>3. x \div BASE \in Nat /\ x % BASE \in 0 .. BASE - 1
  BY <1>1
<1>4. x \div BASE < BASE
  BY <1>1
<1>. QED
  BY <1>1, <1>2, <1>3, <1>4

LEMMA FromBytes ==
  ASSUME NEW h \in 0 .. BASE - 1, NEW l \in 0 .. BASE - 1
  PROVE  /\ h * BASE + l \in Word
         /\ (h * BASE + l) \div BASE = h
<1>1. BASE \in Nat \ {0} /\ h \in Nat /\ l \in Nat /\ h < BASE /\ l < BASE
  BY YieldAssumption
<1>2. h * BASE + l \in Nat /\ h * BASE + l < BASE * BASE
  BY <1>1
<1>3. (h * BASE + l) \div BASE = h
  BY <1>1
<1>. QED
  BY <1>1, <1>2, <1>3 DEF Word

(* write_16: after the high and the low byte the whole index is written.   *)
LEMMA WholeIndex ==
  ASSUME NEW old \in Word, NEW new \in Word
  PROVE  /\ High(old, new) \in Word /\ Low(old, new) \in Word
         /\ Low(High(old, new), new) = new
<1>1. High(old, new) \in Word /\ High(old, new) \div BASE = new \div BASE
  BY Bytes, FromBytes DEF High
<1>2. Low(old, new) \in Word
  BY Bytes, FromBytes DEF Low
<1>. QED
  BY <1>1, <1>2, Bytes DEF Low

LEMMA PutTyped ==
  ASSUME NEW s \in Slots, NEW q \in Nat, NEW n \in Id
  PROVE  /\ Put(s, q, 1, n) \in Slots /\ Put(s, q, 2, n) \in Slots
         /\ q \in Ring => /\ Put(s, q, 1, n)[q] = <<n, s[q][2]>>
                          /\ Put(s, q, 2, n)[q] = <<s[q][1], n>>
         /\ \A i \in Ring \ {q} : Put(s, q, 1, n)[i] = s[i] /\ Put(s, q, 2, n)[i] = s[i]
<1>1. ASSUME NEW c \in Id \X Id
      PROVE  [c EXCEPT ![1] = n] = <<n, c[2]>> /\ [c EXCEPT ![2] = n] = <<c[1], n>>
  OBVIOUS
<1>2. q \in Ring => s[q] \in Id \X Id /\ q < LEN_Q_BUFF
  BY YieldAssumption DEF Slots, Ring
<1>3. CASE q \in Ring
  <2>1. /\ Put(s, q, 1, n) = [s EXCEPT ![q] = <<n, s[q][2]>>]
        /\ Put(s, q, 2, n) = [s EXCEPT ![q] = <<s[q][1], n>>]
    BY <1>1, <1>2, <1>3 DEF Put
  <2>2. <<n, s[q][2]>> \in Id \X Id /\ <<s[q][1], n>> \in Id \X Id
    BY <1>2, <1>3
  <2>. QED
    BY <1>3, <2>1, <2>2 DEF Slots
<1>4. CASE q \notin Ring
  BY <1>4, YieldAssumption DEF Put, Ring
<1>. QED
  BY <1>3, <1>4

-----------------------------------------------------------------------------
(* The ring and the records it holds.                                      *)

LEMMA Where ==
  ASSUME NEW f \in Ring, NEW r \in Ring
  PROVE  /\ Used(f, r) \in 0 .. LEN_Q_BUFF - 1
         /\ Place(r, Used(f, r)) = f
         /\ \A i \in 0 .. Used(f, r) - 1 : Place(r, i) \in Ring \ {f}
         /\ f # r => /\ Used(f, r) > 0
                     /\ Used(f, Inc(r)) = Used(f, r) - 1
                     /\ \A i \in 1 .. Used(f, r) - 1 : Place(Inc(r), i - 1) = Place(r, i)
         /\ Inc(f) # r => Used(Inc(f), r) = Used(f, r) + 1 /\ Used(f, r) < LEN_Q_BUFF - 1
         /\ Inc(f) = r => Used(f, r) = LEN_Q_BUFF - 1
<1>1. /\ Inc(r) = IF r = LEN_Q_BUFF - 1 THEN 0 ELSE r + 1
      /\ Inc(f) = IF f = LEN_Q_BUFF - 1 THEN 0 ELSE f + 1
  BY IndexSteps
<1>. QED
  BY <1>1, YieldAssumption DEF Ring, Used, Place

LEMMA HoldsElsewhere ==
  ASSUME NEW f, NEW r, NEW s, NEW t, NEW k \in Seq(Id \X Id), Holds(f, r, s, k),
         \A q \in Ring \ {f} : t[q] = s[q]
  PROVE  Holds(f, r, t, k)
<1>1. f \in Ring /\ r \in Ring /\ Len(k) = Used(f, r)
  BY DEF Holds
<1>2. ASSUME NEW i \in 1 .. Len(k) PROVE Place(r, i - 1) \in Ring \ {f}
  <2>1. i - 1 \in 0 .. Used(f, r) - 1
    BY <1>1, Where
  <2>. QED
    BY <1>1, <2>1, Where
<1>. QED
  BY <1>1, <1>2 DEF Holds

(* The oldest record goes.                                                 *)
LEMMA HoldsLess ==
  ASSUME NEW f, NEW r, NEW s, NEW k \in Seq(Id \X Id), Holds(f, r, s, k), f # r
  PROVE  k # <<>> /\ Holds(f, Inc(r), s, Tail(k))
<1>1. f \in Ring /\ r \in Ring /\ Inc(r) \in Ring /\ Len(k) = Used(f, r)
  BY IndexSteps DEF Holds
<1>2. /\ Used(f, r) \in Nat /\ Used(f, r) > 0 /\ Used(f, Inc(r)) = Used(f, r) - 1
      /\ \A i \in 1 .. Used(f, r) - 1 : Place(Inc(r), i - 1) = Place(r, i)
  BY <1>1, Where
<1>3. k # <<>>
  BY <1>1, <1>2
<1>4. /\ Len(Tail(k)) = Len(k) - 1
      /\ \A i \in 1 .. Len(k) - 1 : Tail(k)[i] = k[i + 1]
  BY <1>3, HeadTailProperties
<1>5. ASSUME NEW i \in 1 .. Len(Tail(k)) PROVE Tail(k)[i] = s[Place(Inc(r), i - 1)]
  <2>1. i \in 1 .. Used(f, r) - 1 /\ i + 1 \in 1 .. Len(k) /\ (i + 1) - 1 = i
    BY <1>1, <1>2, <1>4
  <2>2. Tail(k)[i] = k[i + 1] /\ k[i + 1] = s[Place(r, i)]
    BY <1>1, <1>4, <2>1 DEF Holds
  <2>. QED
    BY <1>2, <2>1, <2>2
<1>. QED
  BY <1>1, <1>2, <1>3, <1>4, <1>5 DEF Holds

(* A record is added, and the oldest one may have to give way.             *)
LEMMA HoldsMore ==
  ASSUME NEW f, NEW r, NEW s, NEW k \in Seq(Id \X Id), Holds(f, r, s, k),
         NEW t, NEW c \in Id \X Id, t[f] = c, \A q \in Ring \ {f} : t[q] = s[q]
  PROVE  Holds(Inc(f), IF Inc(f) = r THEN Inc(r) ELSE r, t, Keep(k, c))
<1>1. f \in Ring /\ r \in Ring /\ Inc(f) \in Ring /\ Len(k) = Used(f, r)
  BY IndexSteps DEF Holds
<1>2. Holds(f, r, t, k)
  BY HoldsElsewhere
<1>3. ASSUME NEW q \in Ring, NEW b \in Seq(Id \X Id), Holds(f, q, t, b), Inc(f) # q
      PROVE  Holds(Inc(f), q, t, Append(b, c))
  <2>1. /\ Len(b) = Used(f, q) /\ Used(f, q) \in Nat /\ Place(q, Used(f, q)) = f
        /\ Used(Inc(f), q) = Used(f, q) + 1
    BY <1>1, <1>3, Where DEF Holds
  <2>2. /\ Len(Append(b, c)) = Len(b) + 1 /\ Append(b, c)[Len(b) + 1] = c
        /\ \A i \in 1 .. Len(b) : Append(b, c)[i] = b[i]
    BY AppendProperties
  <2>3. ASSUME NEW i \in 1 .. Len(b) + 1 PROVE Append(b, c)[i] = t[Place(q, i - 1)]
    <3>1. CASE i = Len(b) + 1
      BY <2>1, <2>2, <3>1
    <3>2. CASE i \in 1 .. Len(b)
      BY <1>3, <2>2, <3>2 DEF Holds
    <3>. QED
      BY <2>1, <3>1, <3>2
  <2>. QED
    BY <1>1, <1>3, <2>1, <2>2, <2>3 DEF Holds
<1>4. CASE Inc(f) # r
  <2>1. Len(k) # LEN_Q_BUFF - 1
    BY <1>1, <1>4, Where, YieldAssumption
  <2>. QED
    BY <1>1, <1>2, <1>3, <1>4, <2>1 DEF Keep
<1>5. CASE Inc(f) = r
  <2>0. /\ Inc(r) = IF r = LEN_Q_BUFF - 1 THEN 0 ELSE r + 1
        /\ Inc(f) = IF f = LEN_Q_BUFF - 1 THEN 0 ELSE f + 1
    BY <1>1, IndexSteps
  <2>4. f # r /\ Inc(r) \in Ring /\ Inc(f) # Inc(r)
    BY <1>1, <1>5, <2>0, YieldAssumption DEF Ring
  <2>1. Len(k) = LEN_Q_BUFF - 1
    BY <1>1, <1>5, Where
  <2>2. k # <<>> /\ Holds(f, Inc(r), t, Tail(k))
    BY <1>2, <2>4, HoldsLess
  <2>3. Tail(k) \in Seq(Id \X Id)
    BY <2>2, HeadTailProperties
  <2>. QED
    BY <1>3, <1>5, <2>4, <2>1, <2>2, <2>3 DEF Keep
<1>. QED
  BY <1>4, <1>5

LEMMA IndicesStay ==
  ASSUME IndicesTyped, CopiesTyped, [Next]_vars
  PROVE  IndicesTyped'
<1>. USE DEF IndicesTyped, CopiesTyped, image, local, Unchanged
<1>1. CASE entries = 0 /\ AddQueue /\ UNCHANGED entries
  BY <1>1 DEF AddQueue
<1>2. CASE entries = 0 /\ WriteRecord1 /\ UNCHANGED entries
  BY <1>2 DEF WriteRecord1
<1>3. CASE entries = 0 /\ WriteRecord2 /\ UNCHANGED entries
  BY <1>3 DEF WriteRecord2
<1>4. CASE entries = 0 /\ WriteCounter /\ UNCHANGED entries
  BY <1>4 DEF WriteCounter
<1>5. CASE entries = 0 /\ WriteFrontHigh /\ UNCHANGED entries
  BY <1>5, WholeIndex DEF WriteFrontHigh
<1>6. CASE entries = 0 /\ WriteFrontLow /\ UNCHANGED entries
  BY <1>6, WholeIndex DEF WriteFrontLow, FrontLow
<1>7. CASE entries = 0 /\ Dequeue /\ UNCHANGED entries
  BY <1>7 DEF Dequeue
<1>8. CASE entries = 0 /\ WriteRearHigh /\ UNCHANGED entries
  BY <1>8, WholeIndex, RingInWord DEF WriteRearHigh
<1>9. CASE entries = 0 /\ WriteRearLow /\ UNCHANGED entries
  BY <1>9, WholeIndex, RingInWord DEF WriteRearLow
<1>10. CASE UpdateCount
  BY <1>10 DEF UpdateCount, CallbackMayRun
<1>11. CASE AddEntry
  <2>1. Inc(front) \in Ring /\ Inc(rear) \in Ring /\ Ring \subseteq Word
    BY IndexSteps, RingInWord DEF Word
  <2>. QED
    BY <1>11, <2>1 DEF AddEntry
<1>12. CASE entries = 0 /\ ResetProduction /\ UNCHANGED entries
  <2>1. 0 \in Word
    BY RingInWord, YieldAssumption DEF Ring
  <2>. QED
    BY <1>12, <2>1 DEF ResetProduction
<1>13. CASE entries = 0 /\ CommitData /\ UNCHANGED entries
  BY <1>13 DEF CommitData
<1>14. CASE entries = 0 /\ PowerLoss /\ UNCHANGED entries
  BY <1>14 DEF PowerLoss
<1>15. CASE UNCHANGED vars
  BY <1>15 DEF vars
<1>. QED
  BY <1>1, <1>2, <1>3, <1>4, <1>5, <1>6, <1>7, <1>8, <1>9, <1>10, <1>11,
     <1>12, <1>13, <1>14, <1>15 DEF Next, Loop

LEMMA CopiesStay ==
  ASSUME IndicesTyped, CopiesTyped, [Next]_vars
  PROVE  CopiesTyped'
<1>. USE DEF CopiesTyped, Places, image, local, Unchanged
<1>1. CASE entries = 0 /\ AddQueue /\ UNCHANGED entries
  BY <1>1 DEF AddQueue, IndicesTyped
<1>2. CASE entries = 0 /\ WriteRecord1 /\ UNCHANGED entries
  BY <1>2 DEF WriteRecord1
<1>3. CASE entries = 0 /\ WriteRecord2 /\ UNCHANGED entries
  BY <1>3 DEF WriteRecord2
<1>4. CASE entries = 0 /\ WriteCounter /\ UNCHANGED entries
  <2>1. Inc(front) \in Ring /\ Inc(rear) \in Ring /\ Ring \subseteq Word
    BY IndexSteps, RingInWord DEF Word, IndicesTyped
  <2>. QED
    BY <1>4, <2>1 DEF WriteCounter
<1>5. CASE entries = 0 /\ WriteFrontHigh /\ UNCHANGED entries
  BY <1>5 DEF WriteFrontHigh
<1>6. CASE entries = 0 /\ WriteFrontLow /\ UNCHANGED entries
  <2>1. Inc(front) \in Ring /\ Inc(rear) \in Ring /\ Ring \subseteq Word
    BY IndexSteps, RingInWord DEF Word, IndicesTyped
  <2>. QED
    BY <1>6, <2>1 DEF WriteFrontLow, FrontLow
<1>7. CASE entries = 0 /\ Dequeue /\ UNCHANGED entries
  <2>1. Inc(front) \in Ring /\ Inc(rear) \in Ring /\ Ring \subseteq Word
    BY IndexSteps, RingInWord DEF Word, IndicesTyped
  <2>. QED
    BY <1>7, <2>1 DEF Dequeue
<1>8. CASE entries = 0 /\ WriteRearHigh /\ UNCHANGED entries
  BY <1>8 DEF WriteRearHigh
<1>9. CASE entries = 0 /\ WriteRearLow /\ UNCHANGED entries
  BY <1>9 DEF WriteRearLow
<1>10. CASE UpdateCount
  BY <1>10 DEF UpdateCount, CallbackMayRun
<1>11. CASE AddEntry
  BY <1>11 DEF AddEntry
<1>12. CASE entries = 0 /\ ResetProduction /\ UNCHANGED entries
  BY <1>12 DEF ResetProduction, CallbackMayRun
<1>13. CASE entries = 0 /\ CommitData /\ UNCHANGED entries
  BY <1>13 DEF CommitData
<1>14. CASE entries = 0 /\ PowerLoss /\ UNCHANGED entries
  <2>1. 0 \in Ring /\ 0 \in Word
    BY RingInWord, YieldAssumption DEF Ring
  <2>. QED
    BY <1>14, <2>1 DEF PowerLoss
<1>15. CASE UNCHANGED vars
  BY <1>15 DEF vars
<1>. QED
  BY <1>1, <1>2, <1>3, <1>4, <1>5, <1>6, <1>7, <1>8, <1>9, <1>10, <1>11,
     <1>12, <1>13, <1>14, <1>15 DEF Next, Loop

LEMMA SlotsStay ==
  ASSUME IndicesTyped, CopiesTyped, CountsTyped, SlotsTyped, [Next]_vars
  PROVE  SlotsTyped'
<1>. USE DEF SlotsTyped, image, local, Unchanged
<1>1. CASE entries = 0 /\ AddQueue /\ UNCHANGED entries
  BY <1>1 DEF AddQueue
<1>2. CASE entries = 0 /\ WriteRecord1 /\ UNCHANGED entries
  <2>1. front \in Nat /\ usQfront \in Nat
    BY DEF IndicesTyped, CopiesTyped, Word
  <2>. QED
    BY <1>2, <2>1, PutTyped DEF WriteRecord1, CountsTyped
<1>3. CASE entries = 0 /\ WriteRecord2 /\ UNCHANGED entries
  <2>1. front \in Nat /\ usQfront \in Nat
    BY DEF IndicesTyped, CopiesTyped, Word
  <2>. QED
    BY <1>3, <2>1, PutTyped DEF WriteRecord2, CountsTyped
<1>4. CASE entries = 0 /\ WriteCounter /\ UNCHANGED entries
  BY <1>4 DEF WriteCounter
<1>5. CASE entries = 0 /\ WriteFrontHigh /\ UNCHANGED entries
  BY <1>5 DEF WriteFrontHigh
<1>6. CASE entries = 0 /\ WriteFrontLow /\ UNCHANGED entries
  BY <1>6 DEF WriteFrontLow, FrontLow
<1>7. CASE entries = 0 /\ Dequeue /\ UNCHANGED entries
  BY <1>7 DEF Dequeue
<1>8. CASE entries = 0 /\ WriteRearHigh /\ UNCHANGED entries
  BY <1>8 DEF WriteRearHigh
<1>9. CASE entries = 0 /\ WriteRearLow /\ UNCHANGED entries
  BY <1>9 DEF WriteRearLow
<1>10. CASE UpdateCount
  BY <1>10 DEF UpdateCount, CallbackMayRun
<1>11. CASE AddEntry
  <2>1. front \in Nat /\ made' \in Id
    BY <1>11, YieldAssumption DEF AddEntry, IndicesTyped, Word, CountsTyped, Id
  <2>2. Put(slot, front, 1, made') \in Slots
    BY <2>1, PutTyped
  <2>. QED
    BY <1>11, <2>1, <2>2, PutTyped DEF AddEntry
<1>12. CASE entries = 0 /\ ResetProduction /\ UNCHANGED entries
  BY <1>12 DEF ResetProduction, CallbackMayRun
<1>13. CASE entries = 0 /\ CommitData /\ UNCHANGED entries
  BY <1>13 DEF CommitData
<1>14. CASE entries = 0 /\ PowerLoss /\ UNCHANGED entries
  BY <1>14 DEF PowerLoss
<1>15. CASE UNCHANGED vars
  BY <1>15 DEF vars
<1>. QED
  BY <1>1, <1>2, <1>3, <1>4, <1>5, <1>6, <1>7, <1>8, <1>9, <1>10, <1>11,
     <1>12, <1>13, <1>14, <1>15 DEF Next, Loop

LEMMA KeepTyped ==
  ASSUME NEW k \in Seq(Id \X Id), Len(k) < LEN_Q_BUFF, NEW n \in Id
  PROVE  Keep(k, Whole(n)) \in Seq(Id \X Id) /\ Len(Keep(k, Whole(n))) < LEN_Q_BUFF
<1>1. Whole(n) \in Id \X Id
  BY DEF Whole
<1>2. CASE Len(k) = LEN_Q_BUFF - 1
  <2>1. k # <<>> /\ Tail(k) \in Seq(Id \X Id) /\ Len(Tail(k)) = Len(k) - 1
    BY <1>2, YieldAssumption, HeadTailProperties, EmptySeq
  <2>. QED
    BY <1>1, <1>2, <2>1, AppendProperties, YieldAssumption DEF Keep
<1>3. CASE Len(k) # LEN_Q_BUFF - 1
  BY <1>1, <1>3, AppendProperties, LenProperties, YieldAssumption DEF Keep
<1>. QED
  BY <1>2, <1>3

LEMMA KeptStays ==
  ASSUME CountsTyped, KeptTyped, [Next]_vars
  PROVE  KeptTyped'
<1>. USE DEF KeptTyped, image, local, Unchanged
<1>1. CASE entries = 0 /\ AddQueue /\ UNCHANGED entries
  BY <1>1 DEF AddQueue
<1>2. CASE entries = 0 /\ WriteRecord1 /\ UNCHANGED entries
  BY <1>2 DEF WriteRecord1
<1>3. CASE entries = 0 /\ WriteRecord2 /\ UNCHANGED entries
  BY <1>3 DEF WriteRecord2
<1>4. CASE entries = 0 /\ WriteCounter /\ UNCHANGED entries
  BY <1>4 DEF WriteCounter
<1>5. CASE entries = 0 /\ WriteFrontHigh /\ UNCHANGED entries
  BY <1>5 DEF WriteFrontHigh
<1>6. CASE entries = 0 /\ WriteFrontLow /\ UNCHANGED entries
  BY <1>6, KeepTyped DEF WriteFrontLow, FrontLow, CountsTyped
<1>7. CASE entries = 0 /\ Dequeue /\ UNCHANGED entries
  BY <1>7 DEF Dequeue
<1>8. CASE entries = 0 /\ WriteRearHigh /\ UNCHANGED entries
  BY <1>8 DEF WriteRearHigh
<1>9. CASE entries = 0 /\ WriteRearLow /\ UNCHANGED entries
  BY <1>9, HeadTailProperties, YieldAssumption DEF WriteRearLow
<1>10. CASE UpdateCount
  BY <1>10 DEF UpdateCount, CallbackMayRun
<1>11. CASE AddEntry
  <2>1. made' \in Id
    BY <1>11, YieldAssumption DEF AddEntry, CountsTyped, Id
  <2>. QED
    BY <1>11, <2>1, KeepTyped DEF AddEntry
<1>12. CASE entries = 0 /\ ResetProduction /\ UNCHANGED entries
  BY <1>12, YieldAssumption DEF ResetProduction
<1>13. CASE entries = 0 /\ CommitData /\ UNCHANGED entries
  BY <1>13 DEF CommitData
<1>14. CASE entries = 0 /\ PowerLoss /\ UNCHANGED entries
  BY <1>14 DEF PowerLoss
<1>15. CASE UNCHANGED vars
  BY <1>15 DEF vars
<1>. QED
  BY <1>1, <1>2, <1>3, <1>4, <1>5, <1>6, <1>7, <1>8, <1>9, <1>10, <1>11,
     <1>12, <1>13, <1>14, <1>15 DEF Next, Loop

LEMMA CountsStay ==
  ASSUME CountsTyped, [Next]_vars
  PROVE  CountsTyped'
<1>. USE DEF CountsTyped, Id, image, local, Unchanged
<1>0. MAX_RECORD \in Nat /\ MAX_BATCH \in Nat /\ MAX_CALLBACKS \in Nat /\ MAX_LOSSES \in Nat
  BY YieldAssumption
<1>1. CASE entries = 0 /\ AddQueue /\ UNCHANGED entries
  BY <1>1, <1>0 DEF AddQueue
<1>2. CASE entries = 0 /\ WriteRecord1 /\ UNCHANGED entries
  BY <1>2, <1>0 DEF WriteRecord1
<1>3. CASE entries = 0 /\ WriteRecord2 /\ UNCHANGED entries
  BY <1>3, <1>0 DEF WriteRecord2
<1>4. CASE entries = 0 /\ WriteCounter /\ UNCHANGED entries
  BY <1>4, <1>0 DEF WriteCounter
<1>5. CASE entries = 0 /\ WriteFrontHigh /\ UNCHANGED entries
  BY <1>5, <1>0 DEF WriteFrontHigh
<1>6. CASE entries = 0 /\ WriteFrontLow /\ UNCHANGED entries
  BY <1>6, <1>0 DEF WriteFrontLow, FrontLow
<1>7. CASE entries = 0 /\ Dequeue /\ UNCHANGED entries
  BY <1>7, <1>0 DEF Dequeue
<1>8. CASE entries = 0 /\ WriteRearHigh /\ UNCHANGED entries
  BY <1>8, <1>0 DEF WriteRearHigh
<1>9. CASE entries = 0 /\ WriteRearLow /\ UNCHANGED entries
  BY <1>9, <1>0 DEF WriteRearLow
<1>10. CASE UpdateCount
  <2>1. /\ entries' \in 1 .. MAX_BATCH /\ made + entries' <= MAX_RECORD
        /\ callbacks < MAX_CALLBACKS /\ callbacks' = callbacks + 1
        /\ made' = made /\ mine' = mine /\ losses' = losses
    BY <1>10 DEF UpdateCount, CallbackMayRun
  <2>4. ASSUME NEW n \in 1 .. MAX_BATCH PROVE n \in 0 .. MAX_BATCH
    BY <1>0
  <2>2. entries' \in 0 .. MAX_BATCH /\ made' + entries' <= MAX_RECORD
    BY <2>1, <2>4
  <2>3. callbacks' \in 0 .. MAX_CALLBACKS
    BY <1>0, <2>1
  <2>. QED
    BY <2>1, <2>2, <2>3
<1>11. CASE AddEntry
  BY <1>11, <1>0 DEF AddEntry
<1>12. CASE entries = 0 /\ ResetProduction /\ UNCHANGED entries
  BY <1>12, <1>0 DEF ResetProduction, CallbackMayRun
<1>13. CASE entries = 0 /\ CommitData /\ UNCHANGED entries
  BY <1>13, <1>0 DEF CommitData
<1>14. CASE entries = 0 /\ PowerLoss /\ UNCHANGED entries
  BY <1>14, <1>0 DEF PowerLoss
<1>15. CASE UNCHANGED vars
  BY <1>15 DEF vars
<1>. QED
  BY <1>1, <1>2, <1>3, <1>4, <1>5, <1>6, <1>7, <1>8, <1>9, <1>10, <1>11,
     <1>12, <1>13, <1>14, <1>15 DEF Next, Loop

LEMMA TypedStays == Typed /\ [Next]_vars => Typed'
  BY IndicesStay, CopiesStay, SlotsStay, KeptStays, CountsStay DEF Typed

(* At every step between two bad moments the ring holds what it should.    *)
LEMMA HoldsUnlessTorn ==
  ASSUME Typed, Whereabouts, ~Torn
  PROVE  Holds(front, rear, slot, kept)
<1>. USE DEF Whereabouts, Torn
<1>1. CASE pc \in {"idle", "record1", "record2", "counter"}
  BY <1>1 DEF AtIdle, AtRecord
<1>2. CASE pc \in {"frontHigh", "frontLow"}
  BY <1>2 DEF AtFront
<1>3. CASE pc \in {"rearHigh", "rearLow"}
  BY <1>3 DEF AtRear
<1>. QED
  BY <1>1, <1>2, <1>3 DEF Typed, CopiesTyped, Places

LEMMA HoldsNothing == \A s : Holds(0, 0, s, <<>>)
  BY YieldAssumption DEF Holds, Used, Ring

LEMMA WhereaboutsStay ==
  ASSUME Typed, ~raced => Whereabouts, Committed, [Next]_vars, ~raced'
  PROVE  Whereabouts'
<1>. USE DEF Whereabouts, AtIdle, AtRecord, AtFront, AtRear, image, local, Unchanged
<1>0. /\ slot \in Slots /\ kept \in Seq(Id \X Id) /\ mine \in Id
      /\ usQrear \in Ring /\ pc \in Places
  BY DEF Typed, SlotsTyped, KeptTyped, CountsTyped, CopiesTyped
<1>1. CASE entries = 0 /\ AddQueue /\ UNCHANGED entries
  <2>1. Whereabouts
    BY <1>1 DEF AddQueue
  <2>2. /\ pc' = "record1" /\ mine' # 0 /\ usQfront' = front /\ front' = front
        /\ Holds(front', rear', slot', kept')
    BY <1>1, <2>1 DEF AddQueue, AtIdle, Typed, CountsTyped
  <2>. QED
    BY <2>2
<1>2. CASE entries = 0 /\ WriteRecord1 /\ UNCHANGED entries
  <2>1. /\ Holds(front, rear, slot, kept) /\ front \in Ring /\ mine # 0 /\ usQfront = front
        /\ slot' = Put(slot, front, 1, mine)
    BY <1>2 DEF WriteRecord1, Holds
  <2>2. slot'[front] = <<mine, slot[front][2]>> /\ \A q \in Ring \ {front} : slot'[q] = slot[q]
    BY <1>0, <2>1, PutTyped, RingInWord
  <2>3. Holds(front, rear, slot', kept)
    BY <1>0, <2>1, <2>2, HoldsElsewhere
  <2>4. pc' = "record2" /\ UNCHANGED <<front, rear, kept, mine, usQfront>>
    BY <1>2 DEF WriteRecord1
  <2>. QED
    BY <2>1, <2>2, <2>3, <2>4
<1>3. CASE entries = 0 /\ WriteRecord2 /\ UNCHANGED entries
  <2>1. /\ Holds(front, rear, slot, kept) /\ front \in Ring /\ mine # 0 /\ usQfront = front
        /\ slot' = Put(slot, front, 2, mine) /\ slot[front][1] = mine
    BY <1>3 DEF WriteRecord2, Holds
  <2>2. slot'[front] = <<slot[front][1], mine>> /\ \A q \in Ring \ {front} : slot'[q] = slot[q]
    BY <1>0, <2>1, PutTyped, RingInWord
  <2>3. Holds(front, rear, slot', kept)
    BY <1>0, <2>1, <2>2, HoldsElsewhere
  <2>4. pc' = "counter" /\ UNCHANGED <<front, rear, kept, mine, usQfront>>
    BY <1>3 DEF WriteRecord2
  <2>. QED
    BY <2>1, <2>2, <2>3, <2>4
<1>4. CASE entries = 0 /\ WriteCounter /\ UNCHANGED entries
  <2>1. /\ Holds(front, rear, slot, kept) /\ front \in Ring /\ mine # 0
        /\ slot[front][1] = mine /\ slot[front][2] = mine
    BY <1>4 DEF WriteCounter, Holds
  <2>2. Inc(front) \in Ring /\ Dec(Inc(front)) = front
    BY <2>1, IndexSteps
  <2>3. slot[front] = Whole(mine)
    BY <1>0, <2>1 DEF Slots, Whole
  <2>4. /\ pc' = "frontHigh" /\ usQfront' = Inc(front)
        /\ UNCHANGED <<front, rear, slot, kept, mine>>
    BY <1>4 DEF WriteCounter
  <2>. QED
    BY <2>1, <2>2, <2>3, <2>4
<1>5. CASE entries = 0 /\ WriteFrontHigh /\ UNCHANGED entries
  <2>1. /\ usQfront \in Ring /\ mine # 0 /\ Holds(Dec(usQfront), rear, slot, kept)
        /\ slot[Dec(usQfront)] = Whole(mine) /\ front = Dec(usQfront)
    BY <1>5 DEF WriteFrontHigh
  <2>2. /\ pc' = "frontLow" /\ front' = High(front, usQfront)
        /\ UNCHANGED <<rear, slot, kept, mine, usQfront>>
    BY <1>5 DEF WriteFrontHigh
  <2>. QED
    BY <2>1, <2>2
<1>6. CASE entries = 0 /\ WriteFrontLow /\ UNCHANGED entries
  <2>1. /\ usQfront \in Ring /\ mine # 0 /\ Holds(Dec(usQfront), rear, slot, kept)
        /\ slot[Dec(usQfront)] = Whole(mine) /\ front = High(Dec(usQfront), usQfront)
    BY <1>6 DEF WriteFrontLow, FrontLow
  <2>2. Dec(usQfront) \in Ring /\ Inc(Dec(usQfront)) = usQfront /\ Whole(mine) \in Id \X Id
    BY <1>0, <2>1, IndexSteps DEF Whole
  <2>3. rear \in Ring /\ Dec(Inc(rear)) = rear
    BY <2>1, IndexSteps DEF Holds
  <2>4. front' = usQfront
    BY <1>6, <2>1, <2>2, WholeIndex, RingInWord DEF WriteFrontLow, FrontLow
  <2>5. Holds(usQfront, IF usQfront = rear THEN Inc(rear) ELSE rear, slot, Keep(kept,
  Whole(mine)))
    BY <1>0, <2>1, <2>2, HoldsMore
  <2>6. /\ kept' = Keep(kept, Whole(mine)) /\ UNCHANGED <<rear, slot, mine>>
        /\ IF usQfront = rear THEN usQrear' = Inc(rear) /\ pc' = "rearHigh" ELSE pc' = "idle"
    BY <1>6 DEF WriteFrontLow, FrontLow
  <2>. QED
    BY <2>1, <2>3, <2>4, <2>5, <2>6
<1>7. CASE entries = 0 /\ Dequeue /\ UNCHANGED entries
  <2>1. Holds(front, rear, slot, kept) /\ rear \in Ring /\ front # rear
    BY <1>7 DEF Dequeue, Holds
  <2>2. Dec(Inc(rear)) = rear
    BY <2>1, IndexSteps
  <2>3. /\ pc' = "rearHigh" /\ usQrear' = Inc(rear) /\ mine' = 0
        /\ UNCHANGED <<front, rear, slot, kept>>
    BY <1>7 DEF Dequeue
  <2>. QED
    BY <2>1, <2>2, <2>3
<1>8. CASE entries = 0 /\ WriteRearHigh /\ UNCHANGED entries
  <2>1. /\ pc = "rearHigh" /\ pc' = "rearLow" /\ rear' = High(rear, usQrear)
        /\ UNCHANGED <<front, slot, kept, mine, usQrear>> /\ Whereabouts
    BY <1>8 DEF WriteRearHigh
  <2>. QED
    BY <2>1
<1>9. CASE entries = 0 /\ WriteRearLow /\ UNCHANGED entries
  <2>1. /\ pc = "rearLow" /\ pc' = "idle" /\ Whereabouts
        /\ rear' = Low(rear, usQrear) /\ UNCHANGED <<front, slot>>
        /\ kept' = IF mine = 0 /\ kept # <<>> THEN Tail(kept) ELSE kept
    BY <1>9 DEF WriteRearLow
  <2>2. Inc(Dec(usQrear)) = usQrear /\ Dec(usQrear) \in Word /\ usQrear \in Word
    BY <1>0, IndexSteps, RingInWord
  <2>3. rear' = usQrear
    BY <2>1, <2>2, WholeIndex
  <2>4. mine # 0 => Holds(front, usQrear, slot, kept)
    BY <2>1
  <2>5. mine = 0 => Holds(front, Dec(usQrear), slot, kept) /\ front # Dec(usQrear)
    BY <2>1
  <2>6. mine = 0 => kept # <<>> /\ Holds(front, usQrear, slot, Tail(kept))
    BY <1>0, <2>2, <2>5, HoldsLess
  <2>. QED
    BY <2>1, <2>3, <2>4, <2>6
<1>10. CASE UpdateCount
  <2>1. Whereabouts /\ UNCHANGED <<image, local, kept>>
    BY <1>10 DEF UpdateCount
  <2>. QED
    BY <2>1
<1>11. CASE AddEntry
  <2>1. Whereabouts /\ ~Torn /\ (pc = "idle" \/ (mine = 0 /\ rear' = rear))
    BY <1>11 DEF AddEntry
  <2>2. Holds(front, rear, slot, kept) /\ front \in Ring /\ rear \in Ring
    BY <2>1, HoldsUnlessTorn DEF Holds
  <2>3. made' \in Id
    BY <1>11, YieldAssumption DEF AddEntry, Typed, CountsTyped, Id
  <2>4. slot'[front] = Whole(made') /\ \A q \in Ring \ {front} : slot'[q] = slot[q]
    <3>. DEFINE half == Put(slot, front, 1, made')
    <3>0. front \in Nat
      BY <2>2, RingInWord
    <3>1. /\ half \in Slots /\ half[front] = <<made', slot[front][2]>>
          /\ \A q \in Ring \ {front} : half[q] = slot[q]
      BY <1>0, <2>2, <2>3, <3>0, PutTyped
    <3>. HIDE DEF half
    <3>2. /\ Put(half, front, 2, made')[front] = <<half[front][1], made'>>
          /\ \A q \in Ring \ {front} : Put(half, front, 2, made')[q] = half[q]
      BY <2>2, <2>3, <3>0, <3>1, PutTyped
    <3>3. slot' = Put(half, front, 2, made')
      BY <1>11 DEF AddEntry, half
    <3>. QED
      BY <3>1, <3>2, <3>3 DEF Whole
  <2>5. /\ front' = Inc(front) /\ rear' = IF Inc(front) = rear THEN Inc(rear) ELSE rear
        /\ kept' = Keep(kept, Whole(made')) /\ UNCHANGED local
    BY <1>11 DEF AddEntry
  <2>6. Whole(made') \in Id \X Id
    BY <2>3 DEF Whole
  <2>7. Holds(Inc(front), IF Inc(front) = rear THEN Inc(rear) ELSE rear, slot', Keep(kept,
  Whole(made')))
    BY <1>0, <2>2, <2>4, <2>6, HoldsMore
  <2>8. Holds(front', rear', slot', kept')
    BY <2>5, <2>7
  <2>9. CASE pc = "idle"
    BY <2>5, <2>8, <2>9
  <2>10. CASE pc # "idle"
    <3>1. mine = 0 /\ rear' = rear /\ pc \in {"rearHigh", "rearLow"}
      BY <1>0, <2>1, <2>10 DEF Places
    <3>2. rear = Dec(usQrear)
      BY <2>1, <3>1 DEF Torn
    <3>3. Inc(rear) = IF rear = LEN_Q_BUFF - 1 THEN 0 ELSE rear + 1
      BY <2>2, IndexSteps
    <3>4. Inc(rear) # rear
      BY <2>2, <3>3, YieldAssumption DEF Ring
    <3>5. front' # rear
      BY <2>5, <3>1, <3>4
    <3>. QED
      BY <2>1, <2>5, <2>8, <3>1, <3>2, <3>5
  <2>. QED
    BY <2>9, <2>10
<1>12. CASE entries = 0 /\ ResetProduction /\ UNCHANGED entries
  <2>1. pc = "idle" /\ front' = 0 /\ rear' = 0 /\ kept' = <<>> /\ UNCHANGED <<slot, pc>>
    BY <1>12 DEF ResetProduction
  <2>2. Holds(0, 0, slot, <<>>)
    BY HoldsNothing
  <2>. QED
    BY <2>1, <2>2
<1>13. CASE entries = 0 /\ CommitData /\ UNCHANGED entries
  <2>1. Whereabouts /\ UNCHANGED <<image, local, kept>>
    BY <1>13 DEF CommitData
  <2>. QED
    BY <2>1
<1>14. CASE entries = 0 /\ PowerLoss /\ UNCHANGED entries
  BY <1>14 DEF PowerLoss, Committed
<1>15. CASE UNCHANGED vars
  <2>1. Whereabouts /\ UNCHANGED <<image, local, kept>>
    BY <1>15 DEF vars
  <2>. QED
    BY <2>1
<1>. QED
  BY <1>1, <1>2, <1>3, <1>4, <1>5, <1>6, <1>7, <1>8, <1>9, <1>10, <1>11,
     <1>12, <1>13, <1>14, <1>15 DEF Next, Loop

LEMMA CommittedStays ==
  ASSUME Typed, ~raced => Whereabouts, Committed, [Next]_vars
  PROVE  Committed'
<1>. USE DEF Committed, image, local, Unchanged
<1>1. CASE entries = 0 /\ AddQueue /\ UNCHANGED entries
  BY <1>1 DEF AddQueue
<1>2. CASE entries = 0 /\ WriteRecord1 /\ UNCHANGED entries
  BY <1>2 DEF WriteRecord1
<1>3. CASE entries = 0 /\ WriteRecord2 /\ UNCHANGED entries
  BY <1>3 DEF WriteRecord2
<1>4. CASE entries = 0 /\ WriteCounter /\ UNCHANGED entries
  BY <1>4 DEF WriteCounter
<1>5. CASE entries = 0 /\ WriteFrontHigh /\ UNCHANGED entries
  BY <1>5 DEF WriteFrontHigh
<1>6. CASE entries = 0 /\ WriteFrontLow /\ UNCHANGED entries
  BY <1>6 DEF WriteFrontLow, FrontLow
<1>7. CASE entries = 0 /\ Dequeue /\ UNCHANGED entries
  BY <1>7 DEF Dequeue
<1>8. CASE entries = 0 /\ WriteRearHigh /\ UNCHANGED entries
  BY <1>8 DEF WriteRearHigh
<1>9. CASE entries = 0 /\ WriteRearLow /\ UNCHANGED entries
  BY <1>9 DEF WriteRearLow
<1>10. CASE UpdateCount
  BY <1>10 DEF UpdateCount, CallbackMayRun
<1>11. CASE AddEntry
  BY <1>11 DEF AddEntry
<1>12. CASE entries = 0 /\ ResetProduction /\ UNCHANGED entries
  BY <1>12 DEF ResetProduction, CallbackMayRun
<1>13. CASE entries = 0 /\ CommitData /\ UNCHANGED entries
  <2>1. SUFFICES ASSUME ~raced, ~Torn PROVE Holds(front, rear, slot, kept)
    BY <1>13 DEF CommitData
  <2>. QED
    BY <2>1, HoldsUnlessTorn
<1>14. CASE entries = 0 /\ PowerLoss /\ UNCHANGED entries
  BY <1>14 DEF PowerLoss
<1>15. CASE UNCHANGED vars
  BY <1>15 DEF vars
<1>. QED
  BY <1>1, <1>2, <1>3, <1>4, <1>5, <1>6, <1>7, <1>8, <1>9, <1>10, <1>11,
     <1>12, <1>13, <1>14, <1>15 DEF Next, Loop

LEMMA YieldFirst == Init => YieldInv
<1>. SUFFICES ASSUME Init PROVE YieldInv
  OBVIOUS
<1>1. 0 \in Ring /\ 0 \in Word /\ 0 \in Id /\ [q \in Ring |-> Whole(0)] \in Slots
  BY RingInWord, YieldAssumption DEF Ring, Id, Whole, Slots
<1>2. Typed
  <2>1. IndicesTyped /\ CopiesTyped
    BY <1>1 DEF Init, IndicesTyped, CopiesTyped, Places
  <2>2. SlotsTyped /\ KeptTyped
    BY <1>1, YieldAssumption DEF Init, SlotsTyped, KeptTyped, Ring
  <2>3. CountsTyped
    BY <1>1, YieldAssumption DEF Init, CountsTyped
  <2>. QED
    BY <2>1, <2>2, <2>3 DEF Typed
<1>3. Whereabouts /\ Committed
  BY HoldsNothing DEF Init, Whereabouts, AtIdle, AtRecord, AtFront, AtRear, Committed
<1>. QED
  BY <1>2, <1>3 DEF YieldInv

-----------------------------------------------------------------------------
THEOREM YieldInvariant == Spec => []YieldInv
<1>1. YieldInv /\ [Next]_vars => YieldInv'
  BY TypedStays, WhereaboutsStay, CommittedStays DEF YieldInv
<1>. QED
  BY <1>1, YieldFirst, PTL DEF Spec

(* Every variable keeps its type at every delay(1) of every handler, and   *)
(* an index, even half written, fits into its two bytes.                   *)
THEOREM YieldTypes == Spec => []TypeOK
<1>1. YieldInv => TypeOK
  <2>. SUFFICES ASSUME YieldInv PROVE TypeOK
    OBVIOUS
  <2>. USE DEF YieldInv, Typed
  <2>1. [front |-> front, rear |-> rear, slot |-> slot] \in Sector
    BY DEF IndicesTyped, SlotsTyped, Slots, Sector, Ring, Word, Id
  <2>2. [front |-> flash.front, rear |-> flash.rear, slot |-> flash.slot] \in Sector
    BY DEF IndicesTyped, SlotsTyped, Slots, Sector, Ring, Word, Id
  <2>3. made \in 0 .. MAX_RECORD
    BY YieldAssumption DEF CountsTyped
  <2>. QED
    BY <2>1, <2>2, <2>3 DEF TypeOK, CopiesTyped, Places, Word, Ring, KeptTyped, CountsTyped, Id
<1>. QED
  BY <1>1, YieldInvariant, PTL

(* addQueue_product_data, dev_IncQfontIdx, dev_IncQrearIdx and updateCount *)
(* with a callback in every delay(1): every record once, whole, in order,  *)
(* but for the bad moments that raced names.                               *)
THEOREM AlwaysBuffered == Spec => []BufferedUnlessRaced
<1>1. ASSUME NEW f \in Ring, NEW r \in Ring
      PROVE  (f + LEN_Q_BUFF - r) % LEN_Q_BUFF = Used(f, r)
  <2>1. CASE r <= f
    <3>1. f + LEN_Q_BUFF - r = (f - r) + LEN_Q_BUFF
      BY YieldAssumption DEF Ring
    <3>. QED
      BY <2>1, <3>1, YieldAssumption DEF Ring, Used
  <2>2. CASE f < r
    BY <2>2, YieldAssumption DEF Ring, Used
  <2>. QED
    BY <2>1, <2>2, YieldAssumption DEF Ring
<1>2. ASSUME NEW r \in Ring, NEW i \in 1 .. LEN_Q_BUFF - 1
      PROVE  (r + i - 1) % LEN_Q_BUFF = Place(r, i - 1)
  <2>1. CASE r + i - 1 < LEN_Q_BUFF
    BY <2>1, YieldAssumption DEF Ring, Place
  <2>2. CASE r + i - 1 >= LEN_Q_BUFF
    <3>1. r + i - 1 = (r + i - 1 - LEN_Q_BUFF) + LEN_Q_BUFF
      BY YieldAssumption DEF Ring
    <3>. QED
      BY <2>2, <3>1, YieldAssumption DEF Ring, Place
  <2>. QED
    BY <2>1, <2>2, YieldAssumption DEF Ring
<1>3. YieldInv => BufferedUnlessRaced
  <2>. SUFFICES ASSUME YieldInv, ~raced, pc = "idle" PROVE IndicesInRing /\ Contents = kept
    BY DEF BufferedUnlessRaced, HoldsKept
  <2>1. /\ front \in Ring /\ rear \in Ring /\ Len(kept) = Used(front, rear)
        /\ \A i \in 1 .. Len(kept) : kept[i] = slot[Place(rear, i - 1)]
    BY DEF YieldInv, Whereabouts, AtIdle, Holds
  <2>2. Used(front, rear) \in 0 .. LEN_Q_BUFF - 1
    BY <2>1, Where
  <2>3. kept = [i \in 1 .. Used(front, rear) |-> slot[Place(rear, i - 1)]]
    BY <2>1, <2>2 DEF YieldInv, Typed, KeptTyped
  <2>4. \A i \in 1 .. Used(front, rear) : (rear + i - 1) % LEN_Q_BUFF = Place(rear, i - 1)
    BY <1>2, <2>1, <2>2, YieldAssumption
  <2>5. Contents = kept
    BY <1>1, <2>1, <2>3, <2>4 DEF Contents
  <2>. QED
    BY <2>1, <2>5, YieldAssumption DEF IndicesInRing, Ring
<1>. QED
  BY <1>3, YieldInvariant, PTL

(***************************************************************************)
(* The times.                                                              *)
(***************************************************************************)
Clock == 0 .. WORD - 1

(* What the clock shows, as a difference without a remainder.              *)
LEMMA SinceIs ==
  ASSUME NEW t \in Clock, NEW u \in Clock
  PROVE  Since(t, u) = IF u <= t THEN t - u ELSE t + WORD - u
<1>1. WORD \in Nat \ {0}
  BY TimesAssumption
<1>. QED
  BY <1>1 DEF Since, Clock

LEMMA NextMillisecond ==
  ASSUME NEW t \in Clock
  PROVE  (t + 1) % WORD = IF t + 1 = WORD THEN 0 ELSE t + 1
<1>1. WORD \in Nat \ {0}
  BY TimesAssumption
<1>. QED
  BY <1>1 DEF Clock

-----------------------------------------------------------------------------
(* The inductive invariant.  How long ago the clock showed x:              *)
Ago(x) == Since(millis, x)

(* What was read from the clock was read since the times began.            *)
Reading(x) == x \in Clock /\ Ago(x) <= uptime

Readings ==
  /\ millis \in Clock /\ uptime \in 0 .. MAX_TIME
  /\ Reading(first) /\ Reading(final) /\ Reading(ulMil) /\ Reading(ulHanTimeTmp)

LoopPlaces == {"begin", "check", "add", "stop", "handle"}

LoopTyped ==
  /\ at \in LoopPlaces
  /\ ucNonSewingMc \in BOOLEAN /\ bMotorRun \in BOOLEAN
  /\ bCalHandlingTime \in BOOLEAN /\ late \in BOOLEAN

(* A run begins with its first stitch and is added up once.                *)
RunsApart ==
  /\ at \in {"add", "stop"} => bMotorRun
  /\ bMotorRun => Ago(final) <= Ago(first)
  /\ motor_runtime \in Nat
  /\ ~(ucNonSewingMc /\ Wrapped) =>
       motor_runtime <= IF bMotorRun /\ at # "stop" THEN uptime - Ago(first) ELSE uptime

(* What was added as handling lies before the pass of the loop, and before *)
(* the handling that is being measured.                                    *)
HandlingApart ==
  /\ handling_time \in Nat /\ handling_time <= uptime - Ago(ulMil)
  /\ bCalHandlingTime => /\ Ago(ulMil) <= Ago(ulHanTimeTmp)
                         /\ handling_time <= uptime - Ago(ulHanTimeTmp)

(* Without a stitch since the loop read the clock, the last one is older.  *)
StillAtStop ==
  ~late => /\ at # "begin" => Ago(ulMil) <= Ago(final)
           /\ at \in {"add", "stop"} /\ ~ucNonSewingMc => Ago(final) > STOP

TimesInv == Readings /\ LoopTyped /\ RunsApart /\ HandlingApart /\ StillAtStop

LEMMA AgeGrows ==
  ASSUME Readings, Millisecond, NEW x \in Clock, Ago(x) <= uptime
  PROVE  /\ millis' \in Clock /\ uptime' = uptime + 1 /\ uptime' \in 0 .. MAX_TIME
         /\ Since(millis', x) = Ago(x) + 1
<1>. USE TimesAssumption DEF Clock
<1>1. millis \in Clock /\ uptime \in 0 .. MAX_TIME - 1 /\ uptime' = uptime + 1
  BY DEF Readings, Millisecond
<1>2. millis' = IF millis + 1 = WORD THEN 0 ELSE millis + 1
  BY <1>1, NextMillisecond DEF Millisecond
<1>3. Since(millis, x) = IF x <= millis THEN millis - x ELSE millis + WORD - x
  BY <1>1, SinceIs
<1>4. millis' \in Clock
  BY <1>1, <1>2
<1>5. Since(millis', x) = IF x <= millis' THEN millis' - x ELSE millis' + WORD - x
  BY <1>4, SinceIs
<1>. QED
  BY <1>1, <1>2, <1>3, <1>4, <1>5 DEF Ago

LEMMA NoAge == \A x \in Clock : Since(x, x) = 0
  BY SinceIs, TimesAssumption DEF Clock

LEMMA AgeTyped == ASSUME millis \in Clock, NEW x \in Clock PROVE Ago(x) \in Nat
  BY SinceIs, TimesAssumption DEF Clock, Ago

LEMMA ReadingsTyped == ASSUME Readings PROVE
  \A x \in {first, final, ulMil, ulHanTimeTmp} : x \in Clock /\ Since(millis, x) \in 0 .. uptime
  BY AgeTyped DEF Readings, Reading, Ago

LEMMA ReadingsStay ==
  ASSUME Readings, LoopTyped, [TimesNext]_tvars
  PROVE  Readings'
<1>. USE DEF Readings, Reading, motor, handling
<1>0. /\ millis \in Clock /\ first \in Clock /\ final \in Clock
      /\ ulMil \in Clock /\ ulHanTimeTmp \in Clock
      /\ Since(millis, first) \in 0 .. uptime /\ Since(millis, final) \in 0 .. uptime
      /\ Since(millis, ulMil) \in 0 .. uptime /\ Since(millis, ulHanTimeTmp) \in 0 .. uptime
      /\ Since(millis, millis) = 0 /\ uptime \in Nat
  BY ReadingsTyped, NoAge DEF Readings, Reading
<1>1. CASE Millisecond
  <2>1. /\ UNCHANGED <<first, final, ulMil, ulHanTimeTmp>>
        /\ millis' \in Clock /\ uptime' = uptime + 1 /\ uptime' \in 0 .. MAX_TIME
    BY <1>1, AgeGrows DEF Millisecond, Readings, Reading
  <2>2. \A x \in {first, final, ulMil, ulHanTimeTmp} : Since(millis', x) = Ago(x) + 1
    BY <1>1, AgeGrows DEF Readings, Reading
  <2>3. \A x \in {first, final, ulMil, ulHanTimeTmp} : Ago(x) \in Nat
    BY AgeTyped DEF Readings, Reading
  <2>. QED
    BY <2>1, <2>2, <2>3 DEF Ago
<1>2. CASE Falling
  BY <1>0, <1>2, NoAge DEF Ago, Falling
<1>3. CASE Begin
  BY <1>0, <1>3, NoAge DEF Ago, Begin
<1>4. CASE Check
  BY <1>0, <1>4, NoAge DEF Ago, Check, CheckSewing, CheckGeneral
<1>5. CASE Add
  BY <1>0, <1>5, NoAge DEF Ago, Add
<1>6. CASE Stop
  BY <1>0, <1>6, NoAge DEF Ago, Stop
<1>7. CASE Handle
  BY <1>0, <1>7, NoAge DEF Ago, Handle
<1>8. CASE UNCHANGED tvars
  BY <1>8 DEF tvars, Ago
<1>. QED
  BY <1>1, <1>2, <1>3, <1>4, <1>5, <1>6, <1>7, <1>8 DEF TimesNext

LEMMA LoopTypedStays ==
  ASSUME LoopTyped, [TimesNext]_tvars
  PROVE  LoopTyped'
<1>. USE DEF LoopTyped, LoopPlaces, motor, handling
<1>1. CASE Millisecond
  BY <1>1 DEF Millisecond
<1>2. CASE Falling
  BY <1>2 DEF Falling
<1>3. CASE Begin
  BY <1>3 DEF Begin
<1>4. CASE Check
  BY <1>4 DEF Check, CheckSewing, CheckGeneral
<1>5. CASE Add
  BY <1>5 DEF Add
<1>6. CASE Stop
  BY <1>6 DEF Stop
<1>7. CASE Handle
  BY <1>7 DEF Handle
<1>8. CASE UNCHANGED tvars
  BY <1>8 DEF tvars, Ago
<1>. QED
  BY <1>1, <1>2, <1>3, <1>4, <1>5, <1>6, <1>7, <1>8 DEF TimesNext

LEMMA RunsStayApart ==
  ASSUME Readings, LoopTyped, RunsApart, [TimesNext]_tvars
  PROVE  RunsApart'
<1>. USE DEF RunsApart, Wrapped, motor, handling
<1>0. /\ millis \in Clock /\ first \in Clock /\ final \in Clock
      /\ ulMil \in Clock /\ ulHanTimeTmp \in Clock
      /\ Since(millis, first) \in 0 .. uptime /\ Since(millis, final) \in 0 .. uptime
      /\ Since(millis, ulMil) \in 0 .. uptime /\ Since(millis, ulHanTimeTmp) \in 0 .. uptime
      /\ Since(millis, millis) = 0 /\ uptime \in Nat
  BY ReadingsTyped, NoAge DEF Readings, Reading
<1>1. CASE Millisecond
  <2>1. /\ UNCHANGED <<first, final, ulMil, ulHanTimeTmp>>
        /\ millis' \in Clock /\ uptime' = uptime + 1 /\ uptime' \in 0 .. MAX_TIME
    BY <1>1, AgeGrows DEF Millisecond, Readings, Reading
  <2>2. \A x \in {first, final, ulMil, ulHanTimeTmp} : Since(millis', x) = Ago(x) + 1
    BY <1>1, AgeGrows DEF Readings, Reading
  <2>3. \A x \in {first, final, ulMil, ulHanTimeTmp} : Ago(x) \in Nat
    BY AgeTyped DEF Readings, Reading
  <2>4. Wrapped => Wrapped'
    <3>1. millis \in Clock /\ uptime < MAX_TIME /\ uptime \in Nat
      BY <1>1 DEF Readings, Millisecond
    <3>2. millis' = IF millis + 1 = WORD THEN 0 ELSE millis + 1
      BY <1>1, <3>1, NextMillisecond DEF Millisecond
    <3>. QED
      BY <2>1, <3>1, <3>2, TimesAssumption DEF Wrapped, Clock
  <2>5. UNCHANGED <<ucNonSewingMc, bMotorRun, at, motor_runtime>>
    BY <1>1 DEF Millisecond
  <2>. HIDE DEF Wrapped
  <2>. QED
    BY <1>0, <2>1, <2>2, <2>3, <2>4, <2>5 DEF Ago
<1>2. CASE Falling
  BY <1>0, <1>2 DEF Ago, Falling
<1>3. CASE Begin
  BY <1>0, <1>3 DEF Ago, Begin
<1>4. CASE Check
  BY <1>0, <1>4 DEF Ago, Check, CheckSewing, CheckGeneral
<1>5. CASE Add
  <2>1. /\ at = "add" /\ at' = "stop" /\ bMotorRun
        /\ motor_runtime' = motor_runtime + (IF End > first THEN End - first ELSE 0)
        /\ UNCHANGED <<millis, ucNonSewingMc, bMotorRun, first, final, uptime>>
    BY <1>5 DEF Add
  <2>2. \A x \in {first, final, ulMil} :
          Since(millis, x) = IF x <= millis THEN millis - x ELSE millis + WORD - x
    BY <1>0, SinceIs
  <2>3. /\ Since(millis, first) \in Nat /\ Since(millis, final) <= Since(millis, first)
        /\ End \in Clock
    BY <1>0, <2>1 DEF End, Ago
  <2>4. ~(ucNonSewingMc /\ Wrapped) /\ End > first => End - first <= Since(millis, first)
    BY <1>0, <2>2, <2>3, TimesAssumption DEF End, Clock, Wrapped
  <2>5. motor_runtime' \in Nat
    BY <1>0, <2>1, <2>3, TimesAssumption DEF Clock
  <2>6. ~(ucNonSewingMc /\ Wrapped) => motor_runtime <= uptime - Since(millis, first)
    BY <2>1 DEF Ago
  <2>7. ~(ucNonSewingMc /\ Wrapped) => motor_runtime' <= uptime
    BY <1>0, <2>1, <2>3, <2>4, <2>6, TimesAssumption DEF Clock
  <2>. QED
    BY <2>1, <2>5, <2>7 DEF Ago
<1>6. CASE Stop
  BY <1>0, <1>6 DEF Ago, Stop
<1>7. CASE Handle
  BY <1>0, <1>7 DEF Ago, Handle
<1>8. CASE UNCHANGED tvars
  BY <1>8 DEF tvars, Ago
<1>. QED
  BY <1>1, <1>2, <1>3, <1>4, <1>5, <1>6, <1>7, <1>8 DEF TimesNext

LEMMA HandlingStaysApart ==
  ASSUME Readings, LoopTyped, HandlingApart, [TimesNext]_tvars
  PROVE  HandlingApart'
<1>. USE DEF HandlingApart, motor, handling
<1>0. /\ millis \in Clock /\ first \in Clock /\ final \in Clock
      /\ ulMil \in Clock /\ ulHanTimeTmp \in Clock
      /\ Since(millis, first) \in 0 .. uptime /\ Since(millis, final) \in 0 .. uptime
      /\ Since(millis, ulMil) \in 0 .. uptime /\ Since(millis, ulHanTimeTmp) \in 0 .. uptime
      /\ Since(millis, millis) = 0 /\ uptime \in Nat
  BY ReadingsTyped, NoAge DEF Readings, Reading
<1>1. CASE Millisecond
  <2>1. /\ UNCHANGED <<first, final, ulMil, ulHanTimeTmp>>
        /\ millis' \in Clock /\ uptime' = uptime + 1 /\ uptime' \in 0 .. MAX_TIME
    BY <1>1, AgeGrows DEF Millisecond, Readings, Reading
  <2>2. \A x \in {first, final, ulMil, ulHanTimeTmp} : Since(millis', x) = Ago(x) + 1
    BY <1>1, AgeGrows DEF Readings, Reading
  <2>3. \A x \in {first, final, ulMil, ulHanTimeTmp} : Ago(x) \in Nat
    BY AgeTyped DEF Readings, Reading
  <2>. QED
    BY <1>1, <2>1, <2>2, <2>3, TimesAssumption DEF Ago, Millisecond, Readings
<1>2. CASE Falling
  BY <1>0, <1>2 DEF Ago, Falling
<1>3. CASE Begin
  BY <1>0, <1>3 DEF Ago, Begin
<1>4. CASE Check
  BY <1>0, <1>4 DEF Ago, Check, CheckSewing, CheckGeneral
<1>5. CASE Add
  BY <1>0, <1>5 DEF Ago, Add
<1>6. CASE Stop
  BY <1>0, <1>6 DEF Ago, Stop
<1>7. CASE Handle
  <2>1. Since(ulMil, ulHanTimeTmp) = IF ulHanTimeTmp <= ulMil THEN ulMil - ulHanTimeTmp
                                       ELSE ulMil + WORD - ulHanTimeTmp
    BY <1>0, SinceIs
  <2>2. Since(millis, ulMil) = IF ulMil <= millis THEN millis - ulMil ELSE millis + WORD - ulMil
    BY <1>0, SinceIs
  <2>3. Since(millis, ulHanTimeTmp) = IF ulHanTimeTmp <= millis THEN millis - ulHanTimeTmp
                                       ELSE millis + WORD - ulHanTimeTmp
    BY <1>0, SinceIs
  <2>. QED
    BY <1>0, <1>7, <2>1, <2>2, <2>3, TimesAssumption DEF Ago, Handle, Clock
<1>8. CASE UNCHANGED tvars
  BY <1>8 DEF tvars, Ago
<1>. QED
  BY <1>1, <1>2, <1>3, <1>4, <1>5, <1>6, <1>7, <1>8 DEF TimesNext

LEMMA StaysStill ==
  ASSUME Readings, LoopTyped, StillAtStop, [TimesNext]_tvars
  PROVE  StillAtStop'
<1>. USE DEF StillAtStop, motor, handling
<1>0. /\ millis \in Clock /\ first \in Clock /\ final \in Clock
      /\ ulMil \in Clock /\ ulHanTimeTmp \in Clock
      /\ Since(millis, first) \in 0 .. uptime /\ Since(millis, final) \in 0 .. uptime
      /\ Since(millis, ulMil) \in 0 .. uptime /\ Since(millis, ulHanTimeTmp) \in 0 .. uptime
      /\ Since(millis, millis) = 0 /\ uptime \in Nat
  BY ReadingsTyped, NoAge DEF Readings, Reading
<1>1. CASE Millisecond
  <2>1. /\ UNCHANGED <<first, final, ulMil, ulHanTimeTmp>>
        /\ millis' \in Clock /\ uptime' = uptime + 1 /\ uptime' \in 0 .. MAX_TIME
    BY <1>1, AgeGrows DEF Millisecond, Readings, Reading
  <2>2. \A x \in {first, final, ulMil, ulHanTimeTmp} : Since(millis', x) = Ago(x) + 1
    BY <1>1, AgeGrows DEF Readings, Reading
  <2>3. \A x \in {first, final, ulMil, ulHanTimeTmp} : Ago(x) \in Nat
    BY AgeTyped DEF Readings, Reading
  <2>. QED
    BY <1>1, <2>1, <2>2, <2>3, TimesAssumption DEF Ago, Millisecond, Readings
<1>2. CASE Falling
  BY <1>0, <1>2 DEF Ago, Falling
<1>3. CASE Begin
  BY <1>0, <1>3 DEF Ago, Begin
<1>4. CASE Check
  <2>1. Since(ulMil, final) = IF final <= ulMil THEN ulMil - final ELSE ulMil + WORD - final
    BY <1>0, SinceIs
  <2>2. Since(millis, ulMil) = IF ulMil <= millis THEN millis - ulMil ELSE millis + WORD - ulMil
    BY <1>0, SinceIs
  <2>3. Since(millis, final) = IF final <= millis THEN millis - final ELSE millis + WORD - final
    BY <1>0, SinceIs
  <2>. QED
    BY <1>0, <1>4, <2>1, <2>2, <2>3, TimesAssumption
    DEF Ago, Check, CheckSewing, CheckGeneral, Clock
<1>5. CASE Add
  BY <1>0, <1>5 DEF Ago, Add
<1>6. CASE Stop
  BY <1>0, <1>6 DEF Ago, Stop
<1>7. CASE Handle
  BY <1>0, <1>7 DEF Ago, Handle
<1>8. CASE UNCHANGED tvars
  BY <1>8 DEF tvars, Ago
<1>. QED
  BY <1>1, <1>2, <1>3, <1>4, <1>5, <1>6, <1>7, <1>8 DEF TimesNext

LEMMA TimesFirst == TimesInit => TimesInv
<1>. SUFFICES ASSUME TimesInit PROVE TimesInv
  OBVIOUS
<1>1. /\ millis \in Clock /\ Since(millis, millis) = 0 /\ uptime = 0 /\ 0 \in 0 .. MAX_TIME
      /\ first = millis /\ final = millis /\ ulMil = millis /\ ulHanTimeTmp = millis
  BY NoAge, TimesAssumption DEF TimesInit, Clock
<1>2. Readings
  BY <1>1 DEF Readings, Reading, Ago
<1>3. LoopTyped
  BY DEF TimesInit, LoopTyped, LoopPlaces
<1>4. RunsApart
  BY <1>1 DEF TimesInit, RunsApart, Ago
<1>5. HandlingApart /\ StillAtStop
  BY <1>1 DEF TimesInit, HandlingApart, StillAtStop, Ago
<1>. QED
  BY <1>2, <1>3, <1>4, <1>5 DEF TimesInv

-----------------------------------------------------------------------------
THEOREM TimesInvariant == TimesSpec => []TimesInv
<1>1. TimesInv /\ [TimesNext]_tvars => TimesInv'
  BY ReadingsStay, LoopTypedStays, RunsStayApart, HandlingStaysApart, StaysStill DEF TimesInv
<1>. QED
  BY <1>1, TimesFirst, PTL DEF TimesSpec

(* FunOperation::loop with the interrupt of the stitch sensor at any point *)
(* of it: no stretch of time is counted twice, as running or as handling.  *)
THEOREM TimesAlwaysWithinUptime == TimesSpec => []TimesWithinUptime
<1>1. TimesInv => TimesWithinUptime
  <2>. SUFFICES ASSUME TimesInv PROVE TimesWithinUptime
    OBVIOUS
  <2>1. /\ \A x \in {first, ulMil} : Ago(x) \in Nat
        /\ uptime \in Nat
    BY AgeTyped DEF TimesInv, Readings, Reading
  <2>2. ~(ucNonSewingMc /\ Wrapped) => motor_runtime <= uptime
    BY <2>1 DEF TimesInv, RunsApart
  <2>3. handling_time <= uptime
    BY <2>1 DEF TimesInv, HandlingApart
  <2>. QED
    BY <2>2, <2>3 DEF TimesWithinUptime
<1>. QED
  BY <1>1, TimesInvariant, PTL

(* The stop detection of FunOperation::loop: a sewing machine is not taken *)
(* to have stopped while it sews, but for a stitch after the clock is read.*)
THEOREM AlwaysStopsWhenStill == TimesSpec => StopsWhenStill
<1>1. TimesInv /\ [TimesNext]_tvars =>
        [ bMotorRun /\ ~bMotorRun' /\ ~ucNonSewingMc
            => Since(millis, final) > STOP \/ late ]_tvars
  <2>. SUFFICES ASSUME TimesInv, [TimesNext]_tvars,
                       bMotorRun, ~bMotorRun', ~ucNonSewingMc, ~late
                PROVE  Since(millis, final) > STOP
    OBVIOUS
  <2>1. at = "stop"
    BY DEF TimesNext, tvars, motor, handling, Millisecond, Falling, Begin, Check, Add, Stop,
           Handle
  <2>. QED
    BY <2>1 DEF TimesInv, StillAtStop, Ago
<1>. QED
  BY <1>1, TimesInvariant, PTL DEF TimesSpec, StopsWhenStill
==============================================================================
