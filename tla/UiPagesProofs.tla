---------------------------- MODULE UiPagesProofs ----------------------------
(***************************************************************************)
(* Proofs about UiPages, for every number of reasons for andon and all     *)
(* times: the row of a list exists, a mode that is on has its page unless  *)
(* a card or the web page took it, andon in RAM and in the EEPROM agree,   *)
(* and a teaching begins by a hold from the main page only; and about      *)
(* InOutQueue, for every size of its ring.                                 *)
(***************************************************************************)
EXTENDS UiPages, InOutQueue, SequenceTheorems, TLAPS

PagesTyped ==
  /\ page \in Pages
  /\ list_index \in Nat
  /\ ucMode \in {"READ", "WRITE"}
  /\ break_mode \in 0 .. Off
  /\ bAndonMode \in BOOLEAN /\ teaching \in BOOLEAN
  /\ bStartWebConfig \in BOOLEAN /\ bHandleSuccess \in BOOLEAN

PagesCore == PagesTyped /\ RowInList /\ ModesShown /\ AndonStored

(* The menu under a hold of more than one second was opened by that hold.  *)
MenuOpenedByHold == step = 2 /\ page = "MENU" => held = "MAIN"

PagesInv == PagesCore /\ MenuOpenedByHold

-----------------------------------------------------------------------------
(* The lists and where their rows lead.                                    *)

LEMMA ListPages ==
  /\ Lists = {"MENU", "ANDON", "INFO", "INFO_NET", "INFO_MC", "INFO_PLAN", "SETUP", "DLY_SEN0",
              "IGNORE_SEN0_TEASEQ", "INOUT_IOT_MODE", "DIR_AND_MC", "NFC", "NFC_COPY_OUTPUT"}
  /\ Lists \subseteq Pages
  /\ {"MAIN", "ANDON_SUB", "WEB_CFG", "MAC_QR", "TEACH", "TAG_HANDLE", "TAG_WRITE", "TAG_READ",
      "RST_FAC", "SHOW_TEXT"} \subseteq Pages \ Lists
  BY DEF Lists, Rows, Pages, Timed, Brief

LEMMA RowCount ==
  ASSUME NEW p \in Lists
  PROVE  /\ Len(Rows[p]) \in Nat \ {0}
         /\ p = "ANDON" => Len(Rows[p]) = LEN_BREAK_REASON + 1
  BY PagesAssumption, ListPages DEF Rows

LEMMA RowLeads ==
  ASSUME NEW p \in Lists, NEW k \in 1 .. Len(Rows[p])
  PROVE  LET c == Rows[p][k] IN
         /\ c \in Pages \ {"TEACH", "MENU", "TAG_HANDLE"}
         /\ c = "ANDON_SUB" => k <= LEN_BREAK_REASON
         /\ c = "ANDON" => k = 1
         /\ p = "INOUT_IOT_MODE" => c \notin Lists
<1> DEFINE c == Rows[p][k]
<1>1. CASE p = "ANDON"
  <2>1. Rows[p] = [i \in 1 .. LEN_BREAK_REASON + 1 |->
                     IF i <= LEN_BREAK_REASON THEN "ANDON_SUB" ELSE "MAIN"]
    BY <1>1 DEF Rows
  <2>2. k \in 1 .. LEN_BREAK_REASON + 1
    BY <1>1, RowCount
  <2>3. c = IF k <= LEN_BREAK_REASON THEN "ANDON_SUB" ELSE "MAIN"
    BY <2>1, <2>2
  <2>. QED
    BY <1>1, <2>2, <2>3, ListPages
<1>2. CASE p \in {"INFO_NET", "INFO_MC", "INFO_PLAN"}
  <2>1. PICK n \in Nat : Rows[p] = [i \in 1 .. n |-> "MAIN"]
    <3>1. /\ Rows["INFO_NET"] = [i \in 1 .. 8 |-> "MAIN"]
          /\ Rows["INFO_MC"] = [i \in 1 .. 4 |-> "MAIN"]
          /\ Rows["INFO_PLAN"] = [i \in 1 .. 8 |-> "MAIN"]
      BY DEF Rows
    <3>. QED
      BY <1>2, <3>1
  <2>2. Len(Rows[p]) = n
    BY <2>1
  <2>3. c = "MAIN"
    BY <2>1, <2>2
  <2>. QED
    BY <1>2, <2>3, ListPages
<1>3. CASE p = "MENU"
  <2>1. /\ c \in {"ANDON", "CHG_PROC", "INFO", "WEB_CFG", "SETUP", "NFC", "MAIN"}
        /\ c = "ANDON" => k = 1
    BY <1>3 DEF Rows
  <2>. QED
    BY <1>3, <2>1, ListPages DEF Pages, Timed, Brief
<1>4. CASE p = "SETUP"
  <2>1. c \in {"RST_TCH", "RST_OUTDEF", "RST_FAC", "ROT_DISP", "MAC_QR", "DLY_SEN0",
               "IGNORE_SEN0_TEASEQ", "INOUT_IOT_MODE", "DIR_AND_MC", "MAIN"}
    BY <1>4 DEF Rows
  <2>. QED
    BY <1>4, <2>1, ListPages DEF Pages, Timed, Brief
<1>5. CASE p \in {"INFO", "NFC", "NFC_COPY_OUTPUT"}
  <2>1. CASE p = "INFO"
    BY <2>1, ListPages DEF Rows, Pages, Timed, Brief
  <2>2. CASE p = "NFC"
    BY <2>2, ListPages DEF Rows, Pages, Timed, Brief
  <2>3. CASE p = "NFC_COPY_OUTPUT"
    BY <2>3, ListPages DEF Rows, Pages, Timed, Brief
  <2>. QED
    BY <1>5, <2>1, <2>2, <2>3
<1>6. CASE p \in {"DLY_SEN0", "IGNORE_SEN0_TEASEQ", "INOUT_IOT_MODE", "DIR_AND_MC"}
  <2>1. CASE p = "DLY_SEN0"
    BY <2>1, ListPages DEF Rows, Pages, Timed, Brief
  <2>2. CASE p # "DLY_SEN0"
    <3>1. Rows[p] = <<"SHOW_TEXT", "SHOW_TEXT", "MAIN">>
      <4>1. /\ Rows["IGNORE_SEN0_TEASEQ"] = <<"SHOW_TEXT", "SHOW_TEXT", "MAIN">>
            /\ Rows["INOUT_IOT_MODE"] = <<"SHOW_TEXT", "SHOW_TEXT", "MAIN">>
            /\ Rows["DIR_AND_MC"] = <<"SHOW_TEXT", "SHOW_TEXT", "MAIN">>
        BY DEF Rows
      <4>. QED
        BY <1>6, <2>2, <4>1
    <3>2. c \in {"SHOW_TEXT", "MAIN"}
      BY <3>1
    <3>. QED
      BY <1>6, <2>2, <3>2, ListPages DEF Pages, Timed, Brief
  <2>. QED
    BY <1>6, <2>1, <2>2
<1>. QED
  BY <1>1, <1>2, <1>3, <1>4, <1>5, <1>6, ListPages

-----------------------------------------------------------------------------
(* What a row of a list, a display and a taken page come to.               *)

LEMMA RowAfterShort ==
  ASSUME NEW p \in Lists, NEW i \in Nat
  PROVE  (i + 1) % Len(Rows[p]) \in Nat /\ (i + 1) % Len(Rows[p]) < Len(Rows[p])
<1>1. PICK n \in Nat \ {0} : n = Len(Rows[p])
  BY RowCount
<1>2. \A m \in Nat \ {0} : (i + 1) % m \in Nat /\ (i + 1) % m < m
  OBVIOUS
<1>. QED
  BY <1>1, <1>2

LEMMA ShownPage ==
  ASSUME NEW p, Show(p)
  PROVE  page' = p
  BY DEF Show

(* The modes one by one.                                                   *)
LEMMA ModesApart ==
  /\ ModesShown <=>
       /\ ucMode = "WRITE" => \/ page = "TAG_WRITE"
                              \/ page = "TAG_HANDLE" /\ bHandleSuccess
                              \/ "write" \in covered
       /\ bAndonMode => page = "ANDON_SUB" \/ "andon" \in covered
       /\ teaching => page = "TEACH" \/ "teach" \in covered
       /\ bStartWebConfig => page = "WEB_CFG" \/ "web" \in covered
  /\ ModesShown' <=>
       /\ ucMode' = "WRITE" => \/ page' = "TAG_WRITE"
                               \/ page' = "TAG_HANDLE" /\ bHandleSuccess'
                               \/ "write" \in covered'
       /\ bAndonMode' => page' = "ANDON_SUB" \/ "andon" \in covered'
       /\ teaching' => page' = "TEACH" \/ "teach" \in covered'
       /\ bStartWebConfig' => page' = "WEB_CFG" \/ "web" \in covered'
  BY DEF ModesShown, On, Shown

(* A mode whose page is taken, or was and is not back, counts as covered.  *)
LEMMA TakenModes ==
  ASSUME NEW M, Taking(M)
  PROVE  /\ "write" \in covered \cup M /\ ucMode' = "WRITE" /\ page' # "TAG_WRITE"
            /\ ~(page' = "TAG_HANDLE" /\ bHandleSuccess') => "write" \in covered'
         /\ "andon" \in covered \cup M /\ bAndonMode' /\ page' # "ANDON_SUB"
              => "andon" \in covered'
         /\ "teach" \in covered \cup M /\ teaching' /\ page' # "TEACH"
              => "teach" \in covered'
         /\ "web" \in covered \cup M /\ bStartWebConfig' /\ page' # "WEB_CFG"
              => "web" \in covered'
  BY DEF Taking, On, Shown

-----------------------------------------------------------------------------
(* The button.                                                             *)

LEMMA ShortKeeps ==
  ASSUME PagesCore, BtnShort, Taking({})
  PROVE  PagesCore' /\ (page' = "MENU" => page = "MENU")
<1>. USE DEF PagesCore, PagesTyped, Off
<1>1. CASE ShortOnList
  <2>1. page' = page /\ page \in Lists /\ UNCHANGED <<nfc, bStartWebConfig, teaching, andon>>
    BY <1>1, ShownPage DEF ShortOnList, BtnShort
  <2>2. list_index' \in Nat /\ list_index' < Len(Rows[page])
    BY <1>1, RowAfterShort DEF ShortOnList
  <2>3. ModesShown'
    BY <2>1, ListPages, ModesApart, TakenModes DEF nfc, andon
  <2>. QED
    BY <2>1, <2>2, <2>3, ListPages, TakenModes DEF RowInList, AndonStored, nfc, andon
<1>2. CASE ShortOnMain
  <2>1. CASE dir_andon /\ ~in_out
    <3>1. /\ page' = "ANDON_SUB" /\ list_index' = 0 /\ break_mode' = 0 /\ bAndonMode' = TRUE
          /\ page = "MAIN" /\ UNCHANGED <<nfc, bStartWebConfig, teaching>>
      BY <1>2, <2>1, ShownPage DEF ShortOnMain, DispAndonSub, BtnShort
    <3>2. ModesShown'
      BY <3>1, ModesApart, TakenModes DEF nfc
    <3>. QED
      BY <3>1, <3>2, PagesAssumption, ListPages DEF RowInList, AndonStored, nfc
  <2>2. CASE ~(dir_andon /\ ~in_out)
    BY <1>2, <2>2, ListPages, ModesApart, TakenModes
    DEF ShortOnMain, BtnShort, display, andon, nfc, RowInList, AndonStored
  <2>. QED
    BY <2>1, <2>2
<1>3. CASE EndAndon
  <2>1. /\ page = "ANDON_SUB" /\ page' = "MAIN" /\ bAndonMode' = FALSE /\ break_mode' = Off
        /\ UNCHANGED <<nfc, bStartWebConfig, teaching, list_index>>
    BY <1>3, ShownPage DEF EndAndon, BtnShort
  <2>2. ModesShown'
    BY <2>1, ModesApart, TakenModes DEF nfc
  <2>3. break_mode' \in 0 .. Off
    BY <2>1, PagesAssumption
  <2>4. PagesTyped' /\ page' \notin Lists
    BY <2>1, <2>3, ListPages DEF nfc
  <2>5. RowInList' /\ AndonStored'
    BY <2>1, <2>4 DEF RowInList, AndonStored
  <2>. QED
    BY <2>1, <2>2, <2>4, <2>5
<1>4. CASE ShortElsewhere
  <2>1. /\ page \notin Lists \cup {"MAIN", "ANDON_SUB"}
        /\ page' = IF page = "MAC_QR" THEN "MAIN" ELSE page
        /\ UNCHANGED <<nfc, bStartWebConfig, teaching, list_index, andon>>
    BY <1>4, ShownPage DEF ShortElsewhere, BtnShort
  <2>2. ModesShown'
    BY <2>1, ListPages, ModesApart, TakenModes DEF nfc, andon
  <2>. QED
    BY <2>1, <2>2, ListPages, TakenModes DEF RowInList, AndonStored, nfc, andon
<1>. QED
  BY <1>1, <1>2, <1>3, <1>4 DEF BtnShort

LEMMA LongKeeps ==
  ASSUME PagesCore, BtnLong1, Taking({})
  PROVE  PagesCore' /\ (page' = "MENU" => page = "MAIN")
<1>. USE DEF PagesCore, PagesTyped, Off
<1>1. CASE LongOnMain
  <2>1. /\ page = "MAIN" /\ page' = "MENU" /\ list_index' = 0
        /\ UNCHANGED <<nfc, bStartWebConfig, teaching, andon>>
    BY <1>1, ShownPage DEF LongOnMain, BtnLong1, nfc
  <2>2. ModesShown'
    BY <2>1, ModesApart, TakenModes DEF nfc, andon
  <2>3. list_index' < Len(Rows[page'])
    BY <2>1, RowCount, ListPages
  <2>. QED
    BY <2>1, <2>2, <2>3, ListPages, TakenModes DEF RowInList, AndonStored, nfc, andon
<1>2. CASE LongOnList
  <2>. DEFINE k == list_index + 1
  <2>1. page \in Lists /\ k \in 1 .. Len(Rows[page]) /\ Chosen = Rows[page][k]
    BY <1>2, RowCount DEF LongOnList, RowInList, Chosen
  <2>2. /\ Chosen \in Pages \ {"TEACH", "MENU", "TAG_HANDLE"}
        /\ Chosen = "ANDON_SUB" => list_index < LEN_BREAK_REASON
        /\ Chosen = "ANDON" => list_index = 0
        /\ page = "INOUT_IOT_MODE" => Chosen \notin Lists
    <3>1. Chosen = "ANDON_SUB" => k <= LEN_BREAK_REASON
      BY <2>1, RowLeads
    <3>2. Chosen = "ANDON" => k = 1
      BY <2>1, RowLeads
    <3>. QED
      BY <2>1, <3>1, <3>2, RowLeads, PagesAssumption
  <2>3. /\ ucMode' = IF Chosen = "TAG_WRITE" THEN "WRITE" ELSE ucMode
        /\ bStartWebConfig' = (bStartWebConfig \/ Chosen = "WEB_CFG")
        /\ teaching' = teaching /\ bHandleSuccess' = bHandleSuccess
    BY <1>2 DEF LongOnList, BtnLong1
  <2>4. page \notin {"TAG_WRITE", "TAG_HANDLE", "ANDON_SUB", "TEACH", "WEB_CFG"}
    BY <2>1, ListPages
  <2>5. CASE Chosen = "ANDON_SUB"
    <3>1. /\ page' = "ANDON_SUB" /\ list_index' = list_index
          /\ break_mode' = list_index /\ bAndonMode' = TRUE
      BY <1>2, <2>5, ShownPage DEF LongOnList, DispAndonSub
    <3>2. ModesShown'
      BY <2>3, <2>4, <2>5, <3>1, ModesApart, TakenModes
    <3>. QED
      BY <2>2, <2>3, <2>5, <3>1, <3>2, PagesAssumption, ListPages DEF RowInList, AndonStored
  <2>6. CASE Chosen = "RST_FAC"
    <3>1. /\ page' = "RST_FAC" /\ list_index' = list_index
          /\ break_mode' = Off /\ bAndonMode' = bAndonMode
      BY <1>2, <2>6, ShownPage DEF LongOnList, ResetFactory
    <3>2. ModesShown'
      BY <2>3, <2>4, <2>6, <3>1, ModesApart, TakenModes
    <3>3. PagesTyped' /\ page' \notin Lists
      BY <2>3, <3>1, PagesAssumption, ListPages
    <3>. QED
      BY <2>3, <3>1, <3>2, <3>3, ModesApart DEF RowInList, AndonStored
  <2>7. CASE page = "INOUT_IOT_MODE" /\ Chosen = "SHOW_TEXT"
    <3>1. page' = "SHOW_TEXT" /\ list_index' = 0 /\ UNCHANGED andon
      BY <1>2, <2>7, ShownPage DEF LongOnList, SetInOut
    <3>2. ModesShown'
      BY <2>3, <2>4, <2>7, <3>1, ModesApart, TakenModes DEF andon
    <3>. QED
      BY <2>3, <3>1, <3>2, ListPages, TakenModes DEF RowInList, AndonStored, andon
  <2>8. CASE /\ Chosen \notin {"ANDON_SUB", "RST_FAC"}
             /\ ~(page = "INOUT_IOT_MODE" /\ Chosen = "SHOW_TEXT")
    <3>1. ShowRow(Chosen) /\ UNCHANGED andon
      BY <1>2, <2>8 DEF LongOnList
    <3>2. /\ page' = Chosen
          /\ list_index' = IF Chosen \in Lists \ {page, "ANDON"} THEN 0 ELSE list_index
      BY <3>1, ShownPage DEF ShowRow
    <3>3. ModesShown'
      BY <2>3, <2>4, <3>1, <3>2, ModesApart, TakenModes DEF andon
    <3>4. page' \in Lists => list_index' < Len(Rows[page'])
      <4>1. CASE Chosen = page
        BY <3>2, <4>1 DEF RowInList
      <4>2. CASE Chosen # page
        BY <2>2, <3>2, <4>2, RowCount
      <4>. QED
        BY <4>1, <4>2
    <3>5. PagesTyped' /\ page' # "ANDON_SUB"
      BY <2>2, <2>3, <2>8, <3>1, <3>2 DEF andon
    <3>. QED
      BY <2>2, <3>1, <3>2, <3>3, <3>4, <3>5, TakenModes DEF RowInList, AndonStored, andon
  <2>. QED
    BY <2>5, <2>6, <2>7, <2>8
<1>3. CASE EndWebConfig
  <2>1. /\ page = "WEB_CFG" /\ page' = "MAIN" /\ bStartWebConfig' = FALSE
        /\ UNCHANGED <<nfc, teaching, list_index, andon>>
    BY <1>3, ShownPage DEF EndWebConfig, BtnLong1, nfc
  <2>2. ModesShown'
    BY <2>1, ModesApart, TakenModes DEF nfc, andon
  <2>. QED
    BY <2>1, <2>2, ListPages, TakenModes DEF RowInList, AndonStored, nfc, andon
<1>4. CASE EndTeachMode
  <2>1. /\ page = "TEACH" /\ page' = "MAIN" /\ teaching' = FALSE
        /\ UNCHANGED <<nfc, bStartWebConfig, list_index, andon>>
    BY <1>4, ShownPage DEF EndTeachMode, BtnLong1, nfc
  <2>2. ModesShown'
    BY <2>1, ModesApart, TakenModes DEF nfc, andon
  <2>. QED
    BY <2>1, <2>2, ListPages, TakenModes DEF RowInList, AndonStored, nfc, andon
<1>5. CASE LongElsewhere
  <2>1. /\ page \notin Lists
        /\ UNCHANGED <<page, list_index, nfc, bStartWebConfig, teaching, andon>>
    BY <1>5 DEF LongElsewhere, BtnLong1, nfc, display
  <2>2. ModesShown'
    BY <2>1, ModesApart, TakenModes DEF nfc, andon
  <2>. QED
    BY <2>1, <2>2, ListPages, TakenModes DEF RowInList, AndonStored, nfc, andon
<1>. QED
  BY <1>1, <1>2, <1>3, <1>4, <1>5 DEF BtnLong1

LEMMA Long2Keeps ==
  ASSUME PagesCore, BtnLong2, Taking({})
  PROVE  /\ PagesCore' /\ page' # "MENU"
         /\ teaching' /\ ~teaching => page = "MENU"
<1>. USE DEF PagesCore, PagesTyped, Off
<1>1. UNCHANGED <<list_index, nfc, bStartWebConfig, andon>>
  BY DEF BtnLong2
<1>2. CASE page = "MENU"
  <2>1. page' = "TEACH" /\ teaching' = TRUE
    BY <1>2, ShownPage DEF BtnLong2
  <2>2. ModesShown'
    BY <1>1, <1>2, <2>1, ModesApart, TakenModes DEF nfc, andon
  <2>. QED
    BY <1>1, <1>2, <2>1, <2>2, ListPages, TakenModes DEF RowInList, AndonStored, nfc, andon
<1>3. CASE page # "MENU"
  <2>1. UNCHANGED <<page, teaching>>
    BY <1>3 DEF BtnLong2
  <2>2. ModesShown'
    BY <1>1, <2>1, ModesApart, TakenModes DEF nfc, andon
  <2>. QED
    BY <1>1, <1>3, <2>1, <2>2, ListPages, TakenModes DEF RowInList, AndonStored, nfc, andon
<1>. QED
  BY <1>2, <1>3

-----------------------------------------------------------------------------
(* What nobody presses: the LCD's second, a card, the network form.        *)

LEMMA SecondKeeps ==
  ASSUME PagesCore, Second
  PROVE  /\ PagesCore' /\ (page' = "MENU" => page = "MENU")
         /\ teaching' = teaching
<1>. USE DEF PagesCore, PagesTyped, Off
<1>1. /\ UNCHANGED <<list_index, bHandleSuccess, bStartWebConfig, andon, teaching>>
      /\ Taking({})
  BY DEF Second
<1>2. CASE Waiting
  <2>1. UNCHANGED <<page, ucMode>>
    BY <1>2 DEF Waiting
  <2>2. ModesShown'
    BY <1>1, <2>1, ModesApart, TakenModes DEF andon
  <2>. QED
    BY <1>1, <2>1, <2>2, ListPages, TakenModes DEF RowInList, AndonStored, andon
<1>3. CASE Over
  <2>1. \/ page = "TAG_WRITE" /\ page' = "MAIN" /\ ucMode' = "READ"
        \/ /\ page = "TAG_HANDLE" /\ ucMode' = ucMode
           /\ page' = IF bHandleSuccess THEN "TAG_WRITE" ELSE "MAIN"
        \/ /\ page = "TAG_READ" /\ ucMode' = ucMode
           /\ page' = IF bStartWebConfig THEN "WEB_CFG" ELSE "MAIN"
        \/ /\ page \in Brief \cup {"MENU", "SETUP"} /\ ucMode' = ucMode
           /\ page' = "MAIN"
    BY <1>3, ShownPage DEF Over, WriteOver
  <2>2. page \notin {"ANDON_SUB", "TEACH", "WEB_CFG"}
        /\ page' \in {"MAIN", "TAG_WRITE", "WEB_CFG"}
    BY <2>1 DEF Brief
  <2>3. ModesShown'
    BY <1>1, <2>1, <2>2, ModesApart, TakenModes DEF andon, Brief
  <2>4. PagesTyped' /\ page' \notin Lists
    BY <1>1, <2>1, <2>2, ListPages DEF andon
  <2>. QED
    BY <1>1, <2>2, <2>3, <2>4, TakenModes DEF RowInList, AndonStored, andon
<1>. QED
  BY <1>2, <1>3 DEF Second

LEMMA CardKeeps ==
  ASSUME PagesCore, Card
  PROVE  /\ PagesCore' /\ (page' = "MENU" => page = "MENU")
         /\ teaching' = teaching
<1>. USE DEF PagesCore, PagesTyped, Off
<1>. DEFINE M == {"andon", "teach", "web"}
<1>1. /\ UNCHANGED <<list_index, bStartWebConfig, andon, teaching>>
      /\ Taking(M)
  BY DEF Card
<1>2. CASE \E ok \in BOOLEAN : Readable(ok)
  <2>1. /\ ucMode = "READ" /\ ucMode' = "READ"
        /\ page' \in {"TAG_READ", "TAG_HANDLE"} /\ bHandleSuccess' \in BOOLEAN
    BY <1>2, ShownPage DEF Readable
  <2>2. ModesShown'
    BY <1>1, <2>1, ModesApart, TakenModes DEF andon
  <2>3. PagesTyped' /\ page' \notin Lists
    BY <1>1, <2>1, ListPages DEF andon
  <2>. QED
    BY <1>1, <2>1, <2>2, <2>3, TakenModes DEF RowInList, AndonStored, andon
<1>3. CASE \E ok \in BOOLEAN : Written(ok) /\ ucMode = "WRITE" /\ UNCHANGED page
  <2>1. /\ bHandleSuccess' \in BOOLEAN /\ ucMode' = IF bHandleSuccess' THEN "WRITE" ELSE "READ"
        /\ ucMode = "WRITE" /\ page' = page
    BY <1>3 DEF Written
  <2>2. ModesShown'
    BY <1>1, <2>1, ModesApart, TakenModes DEF andon
  <2>. QED
    BY <1>1, <2>1, <2>2, ListPages, TakenModes DEF RowInList, AndonStored, andon
<1>4. CASE \E ok \in BOOLEAN : Written(ok) /\ page' = "TAG_HANDLE"
  <2>1. /\ bHandleSuccess' \in BOOLEAN /\ ucMode' = IF bHandleSuccess' THEN "WRITE" ELSE "READ"
        /\ page' = "TAG_HANDLE"
    BY <1>4 DEF Written
  <2>2. ModesShown'
    BY <1>1, <2>1, ModesApart, TakenModes DEF andon
  <2>3. PagesTyped' /\ page' \notin Lists
    BY <1>1, <2>1, ListPages DEF andon
  <2>. QED
    BY <1>1, <2>1, <2>2, <2>3, TakenModes DEF RowInList, AndonStored, andon
<1>. QED
  BY <1>2, <1>3, <1>4, ShownPage DEF Card, CkTagIdUL, CkTagIdM1K, CkTagIdPLX

LEMMA PageConfigKeeps ==
  ASSUME PagesCore, PageConfig
  PROVE  PagesCore' /\ page' # "MENU" /\ teaching' = teaching
<1>. USE DEF PagesCore, PagesTyped, Off
<1>1. /\ UNCHANGED <<list_index, nfc, bStartWebConfig, andon, teaching>>
      /\ page' = "TAG_READ" /\ Taking({"write", "andon", "teach", "web"})
  BY ShownPage DEF PageConfig
<1>2. ModesShown'
  BY <1>1, ModesApart, TakenModes DEF nfc, andon
<1>. QED
  BY <1>1, <1>2, ListPages, TakenModes DEF RowInList, AndonStored, nfc, andon

-----------------------------------------------------------------------------
(* What a restart finds satisfies the invariant: the andon of the EEPROM   *)
(* is on the display again.                                                *)
LEMMA PagesInit == Init => PagesInv
<1>. SUFFICES ASSUME Init PROVE PagesInv
  OBVIOUS
<1>1. break_mode \in Nat /\ break_mode <= LEN_BREAK_REASON
  BY PagesAssumption DEF Init, Off
<1>2. \A m \in Nat \ {0}, i \in Nat : i < m => i % m = i
  OBVIOUS
<1>3. LEN_BREAK_REASON % LEN_BREAK_REASON = 0
  BY PagesAssumption
<1>4. list_index = IF break_mode = LEN_BREAK_REASON THEN 0 ELSE break_mode
  BY <1>1, <1>2, <1>3, PagesAssumption DEF Init, Off
<1>5. /\ page = IF break_mode = LEN_BREAK_REASON THEN "MAIN" ELSE "ANDON_SUB"
      /\ bAndonMode = (break_mode # LEN_BREAK_REASON)
      /\ ucMode = "READ" /\ bHandleSuccess = FALSE /\ bStartWebConfig = FALSE
      /\ teaching = FALSE /\ step = 0
  BY DEF Init, Off
<1>6. page \notin Lists /\ page \in Pages
  BY <1>5, ListPages
<1>7. bAndonMode \in BOOLEAN
  BY <1>5
<1>8. PagesTyped
  <2>1. list_index \in Nat /\ break_mode \in 0 .. Off
    BY <1>1, <1>4, PagesAssumption DEF Off
  <2>. QED
    BY <1>5, <1>6, <1>7, <2>1 DEF PagesTyped
<1>9. RowInList
  BY <1>1, <1>4, <1>5, <1>6, PagesAssumption DEF RowInList
<1>10. AndonStored
  BY <1>1, <1>4, <1>5 DEF AndonStored, Off
<1>11. ModesShown
  BY <1>5, ModesApart
<1>. QED
  BY <1>5, <1>8, <1>9, <1>10, <1>11 DEF PagesInv, PagesCore, MenuOpenedByHold

(* Each step keeps the invariant, and begins to teach only on the menu     *)
(* that its own hold has opened.                                           *)
LEMMA PagesNext ==
  ASSUME PagesInv, [Next]_vars
  PROVE  PagesInv' /\ (teaching' /\ ~teaching => held = "MAIN" /\ step = 2)
<1>. USE DEF PagesInv, MenuOpenedByHold
<1>. DEFINE Begun == teaching' /\ ~teaching => held = "MAIN" /\ step = 2
<1>1. ASSUME UNCHANGED <<unmoved, covered>> PROVE PagesCore' /\ page' = page /\ Begun
  BY <1>1 DEF unmoved, display, nfc, andon, settings, PagesCore, PagesTyped, RowInList,
              ModesShown, AndonStored, On, Shown
<1>2. CASE Press
  BY <1>1, <1>2 DEF Press
<1>3. CASE Release
  <2>1. CASE BtnShort
    <3>1. Taking({}) /\ step' = 0 /\ teaching' = teaching
      BY <1>3, <2>1 DEF Release, BtnShort
    <3>. QED
      BY <2>1, <3>1, ShortKeeps
  <2>2. CASE UNCHANGED unmoved
    <3>1. Taking({}) /\ step' = 0
      BY <1>3 DEF Release
    <3>2. UNCHANGED <<page, list_index, nfc, bStartWebConfig, andon, teaching>>
      BY <2>2 DEF unmoved, display
    <3>3. ModesShown'
      BY <3>1, <3>2, ModesApart, TakenModes DEF PagesCore, nfc, andon
    <3>4. PagesTyped' /\ RowInList'
      BY <3>2 DEF PagesCore, PagesTyped, RowInList, nfc, andon
    <3>5. AndonStored'
      BY <3>1, <3>2, TakenModes DEF PagesCore, PagesTyped, RowInList, AndonStored, Off, andon
    <3>. QED
      BY <3>1, <3>2, <3>3, <3>4, <3>5 DEF PagesCore
  <2>. QED
    BY <1>3, <2>1, <2>2 DEF Release
<1>4. CASE Hold1
  <2>1. BtnLong1 /\ Taking({}) /\ held' = page
    BY <1>4 DEF Hold1
  <2>2. PagesCore' /\ (page' = "MENU" => page = "MAIN")
    BY <2>1, LongKeeps
  <2>3. Begun
    BY <2>1 DEF BtnLong1, LongOnMain, LongOnList, EndWebConfig, EndTeachMode, LongElsewhere
  <2>. QED
    BY <2>1, <2>2, <2>3
<1>5. CASE Hold2
  <2>1. BtnLong2 /\ Taking({}) /\ step = 2 /\ step' = 3
    BY <1>5 DEF Hold2
  <2>. QED
    BY <2>1, Long2Keeps
<1>6. CASE Hold3
  BY <1>1, <1>6 DEF Hold3
<1>7. CASE Second
  <2>1. UNCHANGED <<step, held>>
    BY <1>7 DEF Second
  <2>. QED
    BY <1>7, <2>1, SecondKeeps
<1>8. CASE Card
  <2>1. UNCHANGED <<step, held>>
    BY <1>8 DEF Card
  <2>. QED
    BY <1>8, <2>1, CardKeeps
<1>9. CASE PageConfig
  BY <1>9, PageConfigKeeps
<1>10. CASE UNCHANGED vars
  <2>1. UNCHANGED <<unmoved, covered, step, held>>
    BY <1>10 DEF vars, unmoved
  <2>. QED
    BY <1>1, <2>1
<1>. QED
  BY <1>2, <1>3, <1>4, <1>5, <1>6, <1>7, <1>8, <1>9, <1>10 DEF Next

THEOREM PagesInvariant == Spec => []PagesInv
  BY PagesInit, PagesNext, PTL DEF Spec

(* handleMenu, btn_long_1, chkAndonMode: whatever page was reached on      *)
(* whatever way, list_index is a row of it, and on the andon page a reason *)
(* of the array it indexes.                                                *)
THEOREM RowAlwaysInList == Spec => []RowInList
  BY PagesInvariant, PTL DEF PagesInv, PagesCore

(* Writing cards, andon, teaching and the web configuration keep their     *)
(* page until a card or the web page takes the display.                    *)
THEOREM ModesAlwaysShown == Spec => []ModesShown
  BY PagesInvariant, PTL DEF PagesInv, PagesCore

(* Andon in RAM, in the EEPROM and on the display agree.                   *)
THEOREM AndonAlwaysStored == Spec => []AndonStored
  BY PagesInvariant, PTL DEF PagesInv, PagesCore

(* UiButton::loop, btn_long_2: a teaching begins only by one hold of three *)
(* seconds from the main page.                                             *)
THEOREM TeachesByHoldOnly == Spec => TeachByHold
<1>1. PagesInv /\ [Next]_vars => [teaching' /\ ~teaching => held = "MAIN" /\ step = 2]_vars
  BY PagesNext
<1>. QED
  BY <1>1, PagesInvariant, PTL DEF Spec, TeachByHold

-----------------------------------------------------------------------------
(* The queue of cards, for a ring of any size: how far a place is from the *)
(* oldest card, and how many places are held, without remainders.          *)

Dist(j) == IF j >= qRear THEN j - qRear ELSE j + INOUT_Q_LEN_BUFF - qRear

QueueTyped ==
  /\ uid \in [Place -> Nat] /\ qFont \in Place /\ qRear \in Place
  /\ read \in Nat /\ sent \in Seq(Nat) /\ refused \in Nat

(* The places that are held are the last cards read, oldest first.         *)
HeldAreLast ==
  /\ Dist(qFont) <= read
  /\ \A j \in Place : Dist(j) < Dist(qFont) => uid[j] = read - Dist(qFont) + 1 + Dist(j)

(* What was sent rises, and is older than all that is held.                *)
SentRises ==
  /\ \A i \in 1 .. Len(sent) - 1 : sent[i] < sent[i + 1]
  /\ Len(sent) > 0 => sent[Len(sent)] <= read - Dist(qFont)

(* What is neither held, nor sent, nor refused was lost in whole rounds.   *)
LostInRounds ==
  \E k \in Nat : read = Len(sent) + refused + Dist(qFont) + k * INOUT_Q_LEN_BUFF

QueueInv == QueueTyped /\ HeldAreLast /\ SentRises /\ LostInRounds

LEMMA Remainders ==
  ASSUME NEW n \in Nat \ {0}, NEW x \in Nat, x < 2 * n
  PROVE  x % n = IF x < n THEN x ELSE x - n
<1>1. CASE x < n
  BY <1>1
<1>2. CASE x >= n
  BY <1>2
<1>. QED
  BY <1>1, <1>2

LEMMA PlaceFrom ==
  ASSUME NEW r \in Place, NEW i \in Nat, i < INOUT_Q_LEN_BUFF,
         NEW j, j = (r + i) % INOUT_Q_LEN_BUFF
  PROVE  j = IF r + i < INOUT_Q_LEN_BUFF THEN r + i ELSE (r + i) - INOUT_Q_LEN_BUFF
<1>. DEFINE L == INOUT_Q_LEN_BUFF
<1>1. L \in Nat \ {0} /\ r \in Nat /\ r < L
  BY QueueAssumption DEF Place
<1>2. CASE r + i < L
  BY <1>1, <1>2
<1>3. CASE r + i >= L
  BY <1>1, <1>3
<1>. QED
  BY <1>1, <1>2, <1>3

LEMMA RoundsRemainder ==
  ASSUME NEW n \in Nat \ {0}, NEW k \in Nat
  PROVE  (k * n) % n = 0
  OBVIOUS

LEMMA PlaceAfter ==
  ASSUME NEW i \in Place
  PROVE  After(i) = (IF i = INOUT_Q_LEN_BUFF - 1 THEN 0 ELSE i + 1) /\ After(i) \in Place
<1>. DEFINE L == INOUT_Q_LEN_BUFF
<1>1. L \in Nat \ {0} /\ i + 1 \in Nat /\ i + 1 <= L
  BY QueueAssumption DEF Place
<1>2. (i + 1) % L = IF i + 1 < L THEN i + 1 ELSE 0
  BY <1>1, Remainders
<1>. QED
  BY <1>1, <1>2 DEF After, Place

LEMMA QueueFirst == QueueInit => QueueInv
<1>. SUFFICES ASSUME QueueInit PROVE QueueInv
  OBVIOUS
<1>. USE QueueAssumption DEF QueueInit
<1>1. QueueTyped /\ Dist(qFont) = 0 /\ Len(sent) = 0 /\ refused = 0
  BY DEF QueueTyped, Place, Dist
<1>2. HeldAreLast /\ SentRises
  BY <1>1 DEF HeldAreLast, SentRises, Dist, Place
<1>3. read = Len(sent) + refused + Dist(qFont) + 0 * INOUT_Q_LEN_BUFF
  BY <1>1
<1>. QED
  BY <1>1, <1>2, <1>3 DEF QueueInv, LostInRounds

LEMMA CardKeepsQueue ==
  ASSUME QueueInv, HandleNfcBlank
  PROVE  QueueInv'
<1>. DEFINE L == INOUT_Q_LEN_BUFF
<1>. USE QueueAssumption DEF QueueInv, QueueTyped
<1>1. /\ read' = read + 1 /\ uid' = [uid EXCEPT ![qFont] = read + 1]
      /\ qFont' = After(qFont) /\ qRear' = qRear /\ sent' = sent /\ refused' = refused
  BY DEF HandleNfcBlank
<1>2. /\ Dist(qFont) \in 0 .. L - 1
      /\ Dist(qFont)' = IF Dist(qFont) = L - 1 THEN 0 ELSE Dist(qFont) + 1
      /\ \A j \in Place : Dist(j) \in 0 .. L - 1 /\ Dist(j)' = Dist(j)
      /\ \A j \in Place : Dist(j) = Dist(qFont) => j = qFont
  <2>1. L \in Nat \ {0} /\ qFont \in 0 .. L - 1 /\ qRear \in 0 .. L - 1
    BY DEF Place
  <2>2. qFont' = IF qFont = L - 1 THEN 0 ELSE qFont + 1
    BY <1>1, PlaceAfter
  <2>3. /\ Dist(qFont) \in 0 .. L - 1
        /\ Dist(qFont)' = IF Dist(qFont) = L - 1 THEN 0 ELSE Dist(qFont) + 1
    BY <1>1, <2>1, <2>2 DEF Dist
  <2>4. /\ \A j \in Place : Dist(j) \in 0 .. L - 1 /\ Dist(j)' = Dist(j)
        /\ \A j \in Place : Dist(j) = Dist(qFont) => j = qFont
    BY <1>1, <2>1, SMTT(30) DEF Dist, Place
  <2>. QED
    BY <2>3, <2>4
<1>3. QueueTyped'
  BY <1>1, PlaceAfter
<1>4. HeldAreLast'
  <2>1. Dist(qFont)' <= read'
    BY <1>1, <1>2 DEF HeldAreLast
  <2>2. ASSUME NEW j \in Place, Dist(j)' < Dist(qFont)'
        PROVE  uid'[j] = read' - Dist(qFont)' + 1 + Dist(j)'
    <3>1. Dist(qFont)' = Dist(qFont) + 1 /\ Dist(j) <= Dist(qFont)
      BY <1>2, <2>2
    <3>2. CASE j = qFont
      BY <1>1, <1>2, <3>1, <3>2 DEF HeldAreLast
    <3>3. CASE j # qFont
      <4>1. Dist(j) < Dist(qFont)
        BY <1>2, <3>1, <3>3
      <4>2. uid'[j] = uid[j]
        BY <1>1, <3>3
      <4>. QED
        BY <1>1, <1>2, <3>1, <4>1, <4>2 DEF HeldAreLast
    <3>. QED
      BY <3>2, <3>3
  <2>. QED
    BY <2>1, <2>2 DEF HeldAreLast, Place
<1>5. SentRises'
  <2>1. Len(sent) > 0 => sent[Len(sent)] \in Nat
    BY LenProperties, ElementOfSeq
  <2>. QED
    BY <1>1, <1>2, <2>1, LenProperties DEF SentRises
<1>6. LostInRounds'
  <2>1. PICK k \in Nat : read = Len(sent) + refused + Dist(qFont) + k * L
    BY DEF LostInRounds
  <2>2. (k + 1) * L = k * L + L /\ k * L \in Nat /\ Len(sent) \in Nat
    BY LenProperties
  <2>3. CASE Dist(qFont) = L - 1
    <3>1. read' = Len(sent)' + refused' + Dist(qFont)' + (k + 1) * L
      BY <1>1, <1>2, <2>1, <2>2, <2>3
    <3>2. k + 1 \in Nat
      OBVIOUS
    <3>. QED
      BY <3>1, <3>2, Zenon DEF LostInRounds
  <2>4. CASE Dist(qFont) # L - 1
    <3>1. read' = Len(sent)' + refused' + Dist(qFont)' + k * L
      BY <1>1, <1>2, <2>1, <2>2, <2>4
    <3>. QED
      BY <3>1 DEF LostInRounds
  <2>. QED
    BY <2>3, <2>4
<1>. QED
  BY <1>3, <1>4, <1>5, <1>6

LEMMA SendKeepsQueue ==
  ASSUME QueueInv, SendUidNfcInOut
  PROVE  QueueInv'
<1>. DEFINE L == INOUT_Q_LEN_BUFF
<1>. USE QueueAssumption DEF QueueInv, QueueTyped
<1>1. /\ qFont # qRear /\ qRear' = After(qRear) /\ UNCHANGED <<uid, qFont, read>>
      /\ \/ sent' = Append(sent, uid[qRear]) /\ refused' = refused
         \/ sent' = sent /\ refused' = refused + 1
  BY DEF SendUidNfcInOut
<1>2. /\ Dist(qFont) \in 1 .. L - 1 /\ Dist(qFont)' = Dist(qFont) - 1
      /\ Dist(qRear) = 0
      /\ \A j \in Place : j # qRear => Dist(j) \in 1 .. L - 1 /\ Dist(j)' = Dist(j) - 1
  <2>1. L \in Nat \ {0} /\ qFont \in 0 .. L - 1 /\ qRear \in 0 .. L - 1
    BY DEF Place
  <2>2. qRear' = IF qRear = L - 1 THEN 0 ELSE qRear + 1
    BY <1>1, PlaceAfter
  <2>3. Dist(qFont) \in 1 .. L - 1 /\ Dist(qFont)' = Dist(qFont) - 1
    BY <1>1, <2>1, <2>2 DEF Dist
  <2>4. \A j \in Place : j # qRear => Dist(j) \in 1 .. L - 1 /\ Dist(j)' = Dist(j) - 1
    BY <1>1, <2>1, <2>2 DEF Dist, Place
  <2>5. Dist(qRear) = 0
    BY <2>1 DEF Dist
  <2>. QED
    BY <2>3, <2>4, <2>5
<1>3. /\ uid[qRear] = read - Dist(qFont) + 1 /\ uid[qRear] \in Nat
      /\ Dist(qFont) <= read
  BY <1>2 DEF HeldAreLast
<1>4. /\ sent' \in Seq(Nat) /\ Len(sent) \in Nat /\ Len(sent') \in Nat /\ refused' \in Nat
      /\ Len(sent') + refused' = Len(sent) + refused + 1
      /\ \/ sent' = sent
         \/ /\ Len(sent') = Len(sent) + 1
            /\ sent'[Len(sent) + 1] = uid[qRear]
            /\ \A i \in 1 .. Len(sent) : sent'[i] = sent[i]
  <2>1. Len(sent) \in Nat
    BY LenProperties
  <2>2. CASE sent' = Append(sent, uid[qRear]) /\ refused' = refused
    BY <1>3, <2>1, <2>2, AppendProperties
  <2>3. CASE sent' = sent /\ refused' = refused + 1
    BY <2>1, <2>3
  <2>. QED
    BY <1>1, <2>2, <2>3
<1>5. QueueTyped'
  BY <1>1, <1>4, PlaceAfter
<1>6. HeldAreLast'
  <2>1. Dist(qFont)' <= read'
    BY <1>1, <1>2, <1>3
  <2>2. ASSUME NEW j \in Place, Dist(j)' < Dist(qFont)'
        PROVE  uid'[j] = read' - Dist(qFont)' + 1 + Dist(j)'
    <3>1. j # qRear
      <4>1. L \in Nat \ {0} /\ qFont \in 0 .. L - 1 /\ qRear \in 0 .. L - 1
        BY DEF Place
      <4>2. qRear' = IF qRear = L - 1 THEN 0 ELSE qRear + 1
        BY <1>1, PlaceAfter
      <4>. QED
        BY <1>1, <2>2, <4>1, <4>2 DEF Dist
    <3>2. uid[j] = read - Dist(qFont) + 1 + Dist(j)
      BY <1>2, <2>2, <3>1 DEF HeldAreLast
    <3>. QED
      BY <1>1, <1>2, <3>1, <3>2
  <2>. QED
    BY <2>1, <2>2 DEF HeldAreLast, Place
<1>7. SentRises'
  <2>1. CASE sent' = sent
    <3>1. Len(sent) > 0 => sent[Len(sent)] \in Nat
      BY ElementOfSeq
    <3>. QED
      BY <1>1, <1>2, <1>4, <2>1, <3>1 DEF SentRises
  <2>2. CASE sent' # sent
    <3>1. ASSUME NEW i \in 1 .. Len(sent') - 1 PROVE sent'[i] < sent'[i + 1]
      <4>1. CASE i < Len(sent)
        <5>1. i \in 1 .. Len(sent) - 1 /\ i \in 1 .. Len(sent) /\ i + 1 \in 1 .. Len(sent)
          BY <1>4, <3>1, <4>1
        <5>. QED
          BY <1>4, <2>2, <5>1 DEF SentRises
      <4>2. CASE i = Len(sent)
        <5>1. sent[i] \in Nat /\ sent[i] <= read - Dist(qFont)
          BY <1>4, <3>1, <4>2, ElementOfSeq DEF SentRises
        <5>2. sent'[i] = sent[i] /\ sent'[i + 1] = uid[qRear]
          BY <1>4, <2>2, <3>1, <4>2
        <5>. QED
          BY <1>2, <1>3, <5>1, <5>2
      <4>. QED
        BY <1>4, <2>2, <3>1, <4>1, <4>2
    <3>2. sent'[Len(sent')] <= read' - Dist(qFont)'
      <4>1. Len(sent') = Len(sent) + 1 /\ sent'[Len(sent) + 1] = uid[qRear]
        BY <1>4, <2>2
      <4>2. read' - Dist(qFont)' = read - Dist(qFont) + 1 /\ Dist(qFont) \in Nat
        BY <1>1, <1>2
      <4>. QED
        BY <1>3, <4>1, <4>2
    <3>. QED
      BY <3>1, <3>2 DEF SentRises
  <2>. QED
    BY <2>1, <2>2
<1>8. LostInRounds'
  <2>1. PICK k \in Nat : read = Len(sent) + refused + Dist(qFont) + k * L
    BY DEF LostInRounds
  <2>2. read' = Len(sent)' + refused' + Dist(qFont)' + k * L
    <3>1. k * L \in Nat
      OBVIOUS
    <3>. QED
      BY <1>1, <1>2, <1>4, <2>1, <3>1
  <2>. QED
    BY <2>2 DEF LostInRounds
<1>. QED
  BY <1>5, <1>6, <1>7, <1>8

(* What the two indices tell of is what is held.                           *)
LEMMA QueueTells ==
  ASSUME QueueInv
  PROVE  CardsReported
<1>. DEFINE L == INOUT_Q_LEN_BUFF
<1>0. \A k \in Nat : (k * L) % L = 0
  BY QueueAssumption, RoundsRemainder
<1>. USE QueueAssumption DEF QueueInv, QueueTyped
<1>1. InQueue = Dist(qFont) /\ Dist(qFont) \in 0 .. L - 1
  <2>1. L \in Nat \ {0} /\ qFont \in 0 .. L - 1 /\ qRear \in 0 .. L - 1
    BY DEF Place
  <2>2. qFont + L - qRear \in Nat /\ qFont + L - qRear < 2 * L
    BY <2>1
  <2>3. InQueue = IF qFont + L - qRear < L THEN qFont + L - qRear ELSE qFont - qRear
    <3>. DEFINE x == qFont + L - qRear
    <3>1. x % L = IF x < L THEN x ELSE x - L
      <4>1. x \in Nat /\ x < 2 * L
        BY <2>2
      <4>. HIDE DEF x
      <4>. QED
        BY <2>1, <4>1, Remainders
    <3>. QED
      BY <2>1, <3>1 DEF InQueue
  <2>. QED
    BY <2>1, <2>3 DEF Dist
<1>2. ASSUME NEW i \in 0 .. InQueue - 1
      PROVE  uid[(qRear + i) % L] = read - InQueue + 1 + i
  <2>. DEFINE j == (qRear + i) % L
  <2>1. /\ L \in Nat \ {0} /\ qRear \in 0 .. L - 1
        /\ i \in Nat /\ i < L /\ qRear + i \in Nat /\ qRear + i < 2 * L
    BY <1>1, <1>2 DEF Place
  <2>2. j \in Place /\ Dist(j) = i
    <3>1. \A k : k = (qRear + i) % L
              => k = IF qRear + i < L THEN qRear + i ELSE (qRear + i) - L
      BY <2>1, PlaceFrom DEF Place
    <3>2. j = IF qRear + i < L THEN qRear + i ELSE (qRear + i) - L
      BY <3>1, Zenon
    <3>. HIDE DEF j
    <3>. QED
      BY <2>1, <3>2 DEF Place, Dist
  <2>3. uid[j] = read - Dist(qFont) + 1 + Dist(j)
    <3>. HIDE DEF j
    <3>. QED
      BY <1>1, <2>2 DEF HeldAreLast
  <2>. QED
    BY <1>1, <2>2, <2>3
<1>3. (read - Len(sent) - refused - InQueue) % L = 0
  <2>1. PICK k \in Nat : read = Len(sent) + refused + Dist(qFont) + k * L
    BY DEF LostInRounds
  <2>2. k * L \in Nat /\ Len(sent) \in Nat
    BY LenProperties
  <2>3. read - Len(sent) - refused - InQueue = k * L
    BY <1>1, <2>1, <2>2
  <2>. QED
    BY <1>0, <2>3
<1>. QED
  BY <1>2, <1>3 DEF CardsReported, SentRises

(* handle_nfc_blank, send_uid_nfc_inout_iot_mode: cards go out in the      *)
(* order they were read and none twice, those that wait are the last ones, *)
(* and all that is missing was refused by the client or is a whole round.  *)
THEOREM CardsAlwaysReported == QueueSpec => []CardsReported
<1>1. QueueInv /\ [QueueNext]_queue => QueueInv'
  <2>1. QueueInv /\ UNCHANGED queue => QueueInv'
    BY DEF queue, QueueInv, QueueTyped, HeldAreLast, SentRises, LostInRounds, Dist
  <2>. QED
    BY <2>1, CardKeepsQueue, SendKeepsQueue DEF QueueNext
<1>. QED
  BY <1>1, QueueFirst, QueueTells, PTL DEF QueueSpec
=============================================================================
