------------------------------- MODULE Stamps -------------------------------
(***************************************************************************)
(* The time of day in a record.  Until the server's date-time arrives the  *)
(* clock runs from midnight at the boot; then updateTimeEEPROM moves the   *)
(* time of every record made since by what the clock was wrong, counting   *)
(* hours, minutes and seconds in bytes.  The server may send the date-time *)
(* again at any time.  One record stands for all.                          *)
(***************************************************************************)
EXTENDS Integers

CONSTANTS
  HOURS, MINUTES, SECONDS,  (* of a day, an hour, a minute (24, 60, 60)    *)
  BYTE, WORD,               (* where a uint8_t and a uint32_t wrap         *)
  REPEAT,                   (* a date-time so soon after one is ignored    *)
  MAX_UPTIME                (* bound on the seconds since the boot         *)

Hour == MINUTES * SECONDS
DayLength == HOURS * Hour
TimeOfDay == 0 .. DayLength - 1

ASSUME StampsAssumption ==
  /\ {HOURS, MINUTES, SECONDS, BYTE} \subseteq Nat \ {0}
  /\ {WORD, REPEAT, MAX_UPTIME} \subseteq Nat
  /\ DayLength < WORD /\ WORD % BYTE = 0
  /\ \A n \in {HOURS, MINUTES, SECONDS} : 2 * n <= BYTE

VARIABLES
  now,      (* the true time of day                                        *)
  sys,      (* the time of day the device's clock shows                    *)
  stamp,    (* the time of day in the record, -1 before it is made         *)
  made,     (* history: the true time of day at which it was made          *)
  garbled,  (* history: it was moved by more than the bytes can say        *)
  uptime,   (* seconds since the boot, counter for MAX_UPTIME              *)
  received  (* u32_mil_rec_date_time                                       *)

svars == <<now, sys, stamp, made, garbled, uptime, received>>

StampsInit ==
  /\ now \in TimeOfDay
  /\ sys = 0
  /\ stamp = -1 /\ made = -1 /\ garbled = FALSE
  /\ uptime = 0 /\ received = 0

SecondPasses ==
  /\ uptime < MAX_UPTIME
  /\ uptime' = uptime + 1
  /\ now' = (now + 1) % DayLength /\ sys' = (sys + 1) % DayLength
  /\ UNCHANGED <<stamp, made, garbled, received>>

(* addQueue_product_data.                                                  *)
AddRecord ==
  /\ stamp = -1
  /\ stamp' = sys /\ made' = now
  /\ UNCHANGED <<now, sys, garbled, uptime, received>>

-----------------------------------------------------------------------------
HourOf(t)   == t \div Hour
MinuteOf(t) == (t % Hour) \div SECONDS
SecondOf(t) == t % SECONDS

(* A defect that KeepsItsDistance must catch: the minutes borrow nothing.  *)
LessOneForgotten(ucHour) == ucHour

LessOne(ucHour) == (ucHour - 1) % BYTE

(* The hours, minutes and seconds since the record was made.               *)
Passed(t) ==
  LET ulDelta == (sys - t) % WORD
      ucHour  == (ulDelta \div Hour) % BYTE
      ucMin   == (((ulDelta - ucHour * Hour) % WORD) \div SECONDS) % BYTE
  IN  [hour |-> ucHour, min |-> ucMin,
       sec |-> (ulDelta - ucHour * Hour - ucMin * SECONDS) % BYTE]

(* now - d, borrowing from the minutes for the seconds, from the hours for *)
(* the minutes.                                                            *)
Before(d) ==
  LET hour0 == (HourOf(now) - d.hour + (IF HourOf(now) < d.hour THEN HOURS ELSE 0)) % BYTE
      hour1 == IF MinuteOf(now) < d.min THEN LessOne(hour0) ELSE hour0
      min1  == (MinuteOf(now) - d.min + (IF MinuteOf(now) < d.min THEN MINUTES ELSE 0)) % BYTE
      borrow == SecondOf(now) < d.sec
      hour2 == IF borrow /\ min1 = 0 THEN LessOne(hour1) ELSE hour1
      min2  == IF ~borrow THEN min1 ELSE IF min1 = 0 THEN MINUTES - 1 ELSE min1 - 1
      sec1  == (SecondOf(now) - d.sec + (IF borrow THEN SECONDS ELSE 0)) % BYTE
  IN  ((hour2 % HOURS) * Hour) + ((min2 % MINUTES) * SECONDS) + (sec1 % SECONDS)

(* The clock has passed midnight since the record was stamped, or hour 0   *)
(* is asked to lend.                                                       *)
Garbles == sys < stamp \/ (HourOf(now) = HourOf(sys - stamp) /\ now < sys - stamp)

(* getDateTime: the clock is set, and updateTimeEEPROM moves the record.   *)
SetClock ==
  /\ received = 0 \/ uptime - received >= REPEAT
  /\ received' = uptime
  /\ sys' = now
  /\ IF stamp = -1
       THEN UNCHANGED <<stamp, garbled>>
       ELSE stamp' = Before(Passed(stamp)) /\ garbled' = (garbled \/ Garbles)
  /\ UNCHANGED <<now, made, uptime>>

StampsNext == SecondPasses \/ AddRecord \/ SetClock

StampsSpec == StampsInit /\ [][StampsNext]_svars

-----------------------------------------------------------------------------
(* updateTimeEEPROM, however often the clock is set: the record is as far  *)
(* behind the device's clock as its making is behind the true time, to the *)
(* second, unless the clock had passed midnight since the record was       *)
(* stamped, or the record was made in the last hour of the day before and  *)
(* the byte of the hours fell below 0 in finding that.                     *)
KeepsItsDistance ==
  stamp # -1 /\ ~garbled => (sys - stamp) % DayLength = (now - made) % DayLength

=============================================================================
