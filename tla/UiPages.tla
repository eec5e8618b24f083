------------------------------ MODULE UiPages ------------------------------
(***************************************************************************)
(* One button, one display and a card reader.  The button's presses and    *)
(* holds walk through the pages of the LCD; some pages go back to the main *)
(* page by themselves, once a second UiLcd::loop counts them; a card or    *)
(* the form of the web page takes the display whatever it shows.  Four     *)
(* modes are begun and ended on a page of their own: writing cards, andon, *)
(* teaching and the web configuration.  A restart leads back to one of the *)
(* initial states, which are all that the EEPROM can hold.                 *)
(***************************************************************************)
EXTENDS Naturals, Sequences

CONSTANTS
  LEN_BREAK_REASON,  (* reasons for andon (4)                              *)
  WAIT               (* seconds after which a page is left, by page        *)

Off == LEN_BREAK_REASON       (* MOD_BRK_OFF *)

(* The pages that are lists, and where a hold of one second on each row    *)
(* leads.                                                                  *)
Rows ==
  [MENU |-> <<"ANDON", "CHG_PROC", "INFO", "WEB_CFG", "SETUP", "NFC", "MAIN", "MAIN">>,
   ANDON |-> [i \in 1 .. LEN_BREAK_REASON + 1 |->
                IF i <= LEN_BREAK_REASON THEN "ANDON_SUB" ELSE "MAIN"],
   INFO |-> <<"INFO_NET", "INFO_MC", "INFO_PLAN", "MAIN">>,
   INFO_NET |-> [i \in 1 .. 8 |-> "MAIN"],
   INFO_MC |-> [i \in 1 .. 4 |-> "MAIN"],
   INFO_PLAN |-> [i \in 1 .. 8 |-> "MAIN"],
   SETUP |-> <<"RST_TCH", "RST_OUTDEF", "RST_FAC", "ROT_DISP", "MAC_QR", "DLY_SEN0",
               "IGNORE_SEN0_TEASEQ", "INOUT_IOT_MODE", "DIR_AND_MC", "MAIN", "MAIN">>,
   DLY_SEN0 |-> <<"DLY_SEN0", "DLY_SEN0", "MAIN">>,
   IGNORE_SEN0_TEASEQ |-> <<"SHOW_TEXT", "SHOW_TEXT", "MAIN">>,
   INOUT_IOT_MODE |-> <<"SHOW_TEXT", "SHOW_TEXT", "MAIN">>,
   DIR_AND_MC |-> <<"SHOW_TEXT", "SHOW_TEXT", "MAIN">>,
   NFC |-> <<"NFC_COPY_OUTPUT", "TAG_WRITE", "TAG_WRITE", "TAG_WRITE", "MAIN">>,
   NFC_COPY_OUTPUT |-> <<"TAG_WRITE", "TAG_WRITE", "MAIN">>]

Lists == DOMAIN Rows
(* The pages that UiLcd::loop leaves after a while.                        *)
Brief == {"CHG_PROC", "RST_TCH", "RST_OUTDEF", "RST_FAC", "ROT_DISP", "SHOW_TEXT"}
Timed == Brief \cup {"MENU", "SETUP", "TAG_HANDLE", "TAG_WRITE", "TAG_READ"}
Pages == Lists \cup Timed \cup {"MAIN", "ANDON_SUB", "WEB_CFG", "MAC_QR", "TEACH"}

ASSUME PagesAssumption ==
  /\ LEN_BREAK_REASON \in Nat \ {0}
  /\ WAIT \in [Timed -> Nat \ {0}]

VARIABLES
  step,             (* UiButton::step: 0, and 1 to 4 while it is pressed   *)
  page,             (* lcd.ucPageCurr                                      *)
  list_index, auto_exit_cnt,
  ucMode,           (* nfc.ucMode: READ or WRITE                           *)
  bHandleSuccess,   (* nfc.bHanldeSuccess                                  *)
  bStartWebConfig,  (* wifi                                                *)
  bAndonMode,       (* oper                                                *)
  break_mode,       (* E2PE_ADR_BREAK_MODE: a reason or Off                *)
  teaching,         (* tea.ucStartEndTeaching is TEA_SEQ_TEA_START         *)
  in_out,           (* oper.in_out_iot_mode_enable                         *)
  dir_andon,        (* oper.dir_andon_mc_mode                              *)
  held,             (* history: the page a hold found after one second     *)
  covered           (* history: the modes whose page was taken by a card   *)
                    (* or by the web page                                  *)

display  == <<page, list_index, auto_exit_cnt>>
nfc      == <<ucMode, bHandleSuccess>>
andon    == <<bAndonMode, break_mode>>
settings == <<in_out, dir_andon>>
vars == <<step, display, nfc, bStartWebConfig, andon, teaching, settings, held, covered>>

(* setup: chkAndonMode shows the andon page again after a restart.         *)
Init ==
  /\ break_mode \in 0 .. Off
  /\ page = IF break_mode = Off THEN "MAIN" ELSE "ANDON_SUB"
  /\ list_index = break_mode % Off
  /\ bAndonMode = (break_mode # Off)
  /\ in_out \in BOOLEAN /\ dir_andon \in BOOLEAN
  /\ step = 0 /\ auto_exit_cnt = 0
  /\ ucMode = "READ" /\ bHandleSuccess = FALSE
  /\ bStartWebConfig = FALSE /\ teaching = FALSE
  /\ held = "MAIN" /\ covered = {}

-----------------------------------------------------------------------------
(* The modes that are on, and those whose page is displayed.               *)
On ==
  {m \in {"write", "andon", "teach", "web"} :
     \/ m = "write" /\ ucMode = "WRITE"
     \/ m = "andon" /\ bAndonMode
     \/ m = "teach" /\ teaching
     \/ m = "web" /\ bStartWebConfig}

Shown ==
  CASE page = "TAG_WRITE"  -> {"write"}
    [] page = "TAG_HANDLE" -> IF bHandleSuccess THEN {"write"} ELSE {}
    [] page = "ANDON_SUB"  -> {"andon"}
    [] page = "TEACH"      -> {"teach"}
    [] page = "WEB_CFG"    -> {"web"}
    [] OTHER -> {}

Taking(modes) == covered' = ((covered \cup modes) \cap On') \ Shown'

-----------------------------------------------------------------------------
(* Displaying a page; most of them start their count anew.                 *)
Counted == Timed \cup {"INFO", "NFC"}

Show(p) ==
  /\ page' = p
  /\ auto_exit_cnt' = IF p \in Counted THEN 0 ELSE auto_exit_cnt

(* A defect that RowInList must catch: the row is kept on the way to the   *)
(* next list.                                                              *)
ShowRowKept(p) == Show(p) /\ UNCHANGED list_index

(* A list chosen on another page begins with its first row.                *)
ShowRow(p) ==
  /\ Show(p)
  /\ list_index' = IF p \in Lists \ {page, "ANDON"} THEN 0 ELSE list_index

DispAndonSub(i) ==
  /\ Show("ANDON_SUB")
  /\ list_index' = i
  /\ break_mode' = i
  /\ bAndonMode' = TRUE

-----------------------------------------------------------------------------
(* btn_short.  On the main page it may also switch the in/out mode's       *)
(* direction or count a piece (ProductQueue).                              *)

ShortOnList ==
  /\ page \in Lists
  /\ list_index' = (list_index + 1) % Len(Rows[page])
  /\ Show(page)
  /\ UNCHANGED andon

ShortOnMain ==
  /\ page = "MAIN"
  /\ IF dir_andon /\ ~in_out THEN DispAndonSub(0) ELSE UNCHANGED <<display, andon>>

(* A defect that AndonStored must catch: andon is not ended in the EEPROM. *)
EndAndonInRam ==
  /\ page = "ANDON_SUB"
  /\ bAndonMode' = FALSE
  /\ Show("MAIN")
  /\ UNCHANGED <<break_mode, list_index>>

EndAndon ==
  /\ page = "ANDON_SUB"
  /\ break_mode' = Off
  /\ bAndonMode' = FALSE
  /\ Show("MAIN")
  /\ UNCHANGED list_index

ShortElsewhere ==
  /\ page \notin Lists \cup {"MAIN", "ANDON_SUB"}
  /\ IF page = "MAC_QR" THEN Show("MAIN") ELSE UNCHANGED <<page, auto_exit_cnt>>
  /\ UNCHANGED <<list_index, andon>>

BtnShort ==
  /\ ShortOnList \/ ShortOnMain \/ EndAndon \/ ShortElsewhere
  /\ UNCHANGED <<nfc, bStartWebConfig, teaching, settings>>

-----------------------------------------------------------------------------
(* btn_long_1.                                                             *)

LongOnMain ==
  /\ page = "MAIN"
  /\ Show("MENU")
  /\ list_index' = 0
  /\ UNCHANGED <<ucMode, bStartWebConfig, andon, teaching, settings>>

(* What a row sets before its page is displayed.                           *)
Chosen == Rows[page][list_index + 1]

SetInOut ==
  /\ in_out' = (list_index = 0)
  /\ list_index' = 0
  /\ Show("SHOW_TEXT")

SetDirAndon ==
  dir_andon' = IF page = "DIR_AND_MC" /\ Chosen = "SHOW_TEXT" THEN list_index = 0
               ELSE dir_andon

(* disp_setup_resetFacDefault: the first values of the EEPROM; the andon   *)
(* mode in RAM is not touched.                                             *)
ResetFactory ==
  /\ Show("RST_FAC")
  /\ break_mode' = Off
  /\ in_out' = FALSE /\ dir_andon' = FALSE
  /\ UNCHANGED <<list_index, bAndonMode>>

(* disp_changeProc without a plan divides by zero: the processor raises an *)
(* exception and the device restarts, or else the page is displayed.       *)
LongOnList ==
  /\ page \in Lists
  /\ CASE Chosen = "ANDON_SUB" -> DispAndonSub(list_index) /\ UNCHANGED settings
       [] Chosen = "RST_FAC"   -> ResetFactory
       [] page = "INOUT_IOT_MODE" /\ Chosen = "SHOW_TEXT" ->
            SetInOut /\ UNCHANGED <<dir_andon, andon>>
       [] OTHER -> ShowRow(Chosen) /\ SetDirAndon /\ UNCHANGED <<in_out, andon>>
  /\ ucMode' = IF Chosen = "TAG_WRITE" THEN "WRITE" ELSE ucMode
  /\ bStartWebConfig' = (bStartWebConfig \/ Chosen = "WEB_CFG")
  /\ UNCHANGED teaching

EndWebConfig ==
  /\ page = "WEB_CFG"
  /\ bStartWebConfig' = FALSE
  /\ Show("MAIN")
  /\ UNCHANGED <<list_index, ucMode, andon, teaching, settings>>

EndTeachMode ==
  /\ page = "TEACH"
  /\ teaching' = FALSE
  /\ Show("MAIN")
  /\ UNCHANGED <<list_index, ucMode, bStartWebConfig, andon, settings>>

LongElsewhere ==
  /\ page \notin Lists \cup {"MAIN", "WEB_CFG", "TEACH"}
  /\ UNCHANGED <<display, ucMode, bStartWebConfig, andon, teaching, settings>>

BtnLong1 ==
  /\ LongOnMain \/ LongOnList \/ EndWebConfig \/ EndTeachMode \/ LongElsewhere
  /\ UNCHANGED bHandleSuccess

(* btn_long_2: teaching begins on the menu.                                *)
BtnLong2 ==
  /\ IF page = "MENU" THEN teaching' = TRUE /\ Show("TEACH")
                      ELSE UNCHANGED <<teaching, page, auto_exit_cnt>>
  /\ UNCHANGED <<list_index, nfc, bStartWebConfig, andon, settings>>

-----------------------------------------------------------------------------
(* UiButton::loop.                                                         *)

unmoved == <<display, nfc, bStartWebConfig, andon, teaching, settings>>

Press ==
  /\ step = 0
  /\ step' = 1
  /\ UNCHANGED <<unmoved, held, covered>>

Release ==
  /\ step > 0
  /\ step' = 0
  /\ IF step = 1 THEN BtnShort ELSE UNCHANGED unmoved
  /\ UNCHANGED held
  /\ Taking({})

(* A defect that TeachByHold must catch: a hold acts on the menu only when *)
(* the button is released.                                                 *)
Hold1NotOnMenu ==
  /\ step = 1
  /\ step' = 2
  /\ held' = page
  /\ IF page = "MENU" THEN UNCHANGED unmoved ELSE BtnLong1
  /\ Taking({})

Hold1 ==
  /\ step = 1
  /\ step' = 2
  /\ held' = page
  /\ BtnLong1
  /\ Taking({})

Hold2 ==
  /\ step = 2
  /\ step' = 3
  /\ BtnLong2
  /\ UNCHANGED held
  /\ Taking({})

(* btn_long_3 does nothing.                                                *)
Hold3 ==
  /\ step = 3
  /\ step' = 4
  /\ UNCHANGED <<unmoved, held, covered>>

-----------------------------------------------------------------------------
(* UiLcd::loop, once a second.                                             *)

(* A defect that ModesShown must catch: the end of the wait for a card     *)
(* leaves the write mode on.                                               *)
WriteOverPageOnly == page = "TAG_WRITE" /\ Show("MAIN") /\ UNCHANGED ucMode

WriteOver == page = "TAG_WRITE" /\ Show("MAIN") /\ ucMode' = "READ"

Over ==
  /\ auto_exit_cnt + 1 >= WAIT[page]
  /\ \/ WriteOver
     \/ page = "TAG_HANDLE" /\ Show(IF bHandleSuccess THEN "TAG_WRITE" ELSE "MAIN")
          /\ UNCHANGED ucMode
     \/ page = "TAG_READ" /\ Show(IF bStartWebConfig THEN "WEB_CFG" ELSE "MAIN")
          /\ UNCHANGED ucMode
     \/ page \in Brief \cup {"MENU", "SETUP"} /\ Show("MAIN") /\ UNCHANGED ucMode

(* A defect that ComesBack must catch: the page is redrawn with a new      *)
(* count.                                                                  *)
WaitingAnew ==
  /\ auto_exit_cnt + 1 < WAIT[page]
  /\ auto_exit_cnt' = IF page = "TAG_WRITE" THEN 0 ELSE auto_exit_cnt + 1
  /\ UNCHANGED <<page, ucMode>>

Waiting ==
  /\ auto_exit_cnt + 1 < WAIT[page]
  /\ auto_exit_cnt' = auto_exit_cnt + 1
  /\ UNCHANGED <<page, ucMode>>

Second ==
  /\ page \in Timed
  /\ Waiting \/ Over
  /\ UNCHANGED <<step, list_index, bHandleSuccess, bStartWebConfig, andon, teaching,
                 settings, held>>
  /\ Taking({})

-----------------------------------------------------------------------------
(* Fun_nfc::loop: a card is read or written; either may fail.              *)

Written(ok) ==
  /\ bHandleSuccess' = ok
  /\ ucMode' = IF ok THEN "WRITE" ELSE "READ"

Readable(ok) ==
  /\ ucMode = "READ"
  /\ bHandleSuccess' = IF ok THEN bHandleSuccess ELSE FALSE
  /\ Show(IF ok THEN "TAG_READ" ELSE "TAG_HANDLE")
  /\ UNCHANGED ucMode

(* The result on an Ultralight card is not displayed.                      *)
CkTagIdUL ==
  \E ok \in BOOLEAN :
    \/ ucMode = "WRITE" /\ Written(ok) /\ UNCHANGED <<page, auto_exit_cnt>>
    \/ Readable(ok)

CkTagIdM1K ==
  \E ok \in BOOLEAN :
    \/ ucMode = "WRITE" /\ Written(ok) /\ Show("TAG_HANDLE")
    \/ Readable(ok)

(* Any other card is only read, by its identifier.                         *)
CkTagIdPLX == Readable(TRUE)

Card ==
  /\ CkTagIdUL \/ CkTagIdM1K \/ CkTagIdPLX
  /\ UNCHANGED <<step, list_index, bStartWebConfig, andon, teaching, settings, held>>
  /\ Taking({"andon", "teach", "web"})

(* page_config: the network form is served whatever the LCD shows.         *)
PageConfig ==
  /\ Show("TAG_READ")
  /\ UNCHANGED <<step, list_index, nfc, bStartWebConfig, andon, teaching, settings, held>>
  /\ Taking({"write", "andon", "teach", "web"})

Next ==
  \/ Press \/ Release \/ Hold1 \/ Hold2 \/ Hold3
  \/ Second
  \/ Card \/ PageConfig

(* loop() runs over and over, and with it the LCD's second.                *)
Spec == Init /\ [][Next]_vars /\ WF_vars(Second)

-----------------------------------------------------------------------------
(* A list's row is always one of its rows, on whatever way its page was    *)
(* reached: the andon page indexes an array of the reasons with it.        *)
RowInList ==
  /\ page \in Lists => list_index < Len(Rows[page])
  /\ page = "ANDON_SUB" => list_index < LEN_BREAK_REASON

(* A mode that is on has its page on the display, where the worker sees    *)
(* and ends it, until a card or the web page takes the display: then the   *)
(* page does not come back, and the mode goes on without it.               *)
ModesShown == On \subseteq Shown \cup covered

(* Andon is on exactly while the EEPROM, which the server is told and a    *)
(* restart reads, holds a reason for it, the one on the display; only a    *)
(* factory reset during an andon that lost its page parts the two.         *)
AndonStored ==
  /\ break_mode # Off => bAndonMode
  /\ bAndonMode /\ break_mode = Off => "andon" \in covered
  /\ page = "ANDON_SUB" => break_mode = list_index

(* Teaching, which replaces the sequence, is begun only by one hold of     *)
(* three seconds that began on the main page, never by a hold on the menu, *)
(* which chooses a row after one second.                                   *)
TeachByHold == [][teaching' /\ ~teaching => held = "MAIN" /\ step = 2]_vars

(* Left alone, by worker, cards and web page, the device comes to rest on  *)
(* a page without a time limit, and no longer waits to write a card unless *)
(* that page was taken.                                                    *)
ComesBack ==
  <>[][Second]_vars => <>[](page \notin Timed /\ (ucMode = "READ" \/ "write" \in covered))

=============================================================================
