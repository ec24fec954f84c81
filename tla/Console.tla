------------------------------ MODULE Console ------------------------------
(***************************************************************************)
(* The console: the keyboard or serial line the operator types at          *)
(* (get_key(), check_input(), wait_keyup(), getval() of lib.c), the menus  *)
(* of config.c, and the region of the screen where errors are listed       *)
(* (scroll() of lib.c) with its copy for a serial terminal                 *)
(* (screen_buffer.c).                                                      *)
(*                                                                         *)
(* The program polls for keys at many places and is re-entered from there: *)
(* a report in the middle of a test waits in scroll() for the scroll lock, *)
(* polls meanwhile, and may open the menu, which may print and wait again. *)
(* stack holds what is in progress, innermost last.  A poll that finds no  *)
(* key changes nothing and is no step.                                     *)
(*                                                                         *)
(* Of the screen the rows of the scroll region are modelled, 1 .. Rows for *)
(* LINE_SCROLL .. 23, and the row above it, 0; of a row, the columns under *)
(* the menu.  A text is a number, 0 a blank one.                           *)
(*                                                                         *)
(* An operator named Bad... is a plausible mistake in the definition that  *)
(* follows it; nothing refers to it.                                       *)
(***************************************************************************)
EXTENDS Integers, SequencesExt

CONSTANTS
  Rows,         \* rows of the scroll region; the pop-ups cover all but the last
  Sessions,     \* keys an operator presses without being asked, and how many:
                \* Sessions[TRUE] on a serial line, Sessions[FALSE] on a keyboard
  CommandLines, \* the "console=" parameters on it, in order
  Word,         \* 2^32: how far getval() counts
  NumLen,       \* bound: characters typed at getval(), which has room for 15
  MaxLines,     \* bound: lines reported
  MaxQueue      \* bound: keys not yet read

ASSUME ConsoleAssumption == Rows \in Nat \ {0}

VARIABLES
  settings,     \* serial_cons, serial_tty, serial_baud_rate, serial_parity, serial_bits
  cmdline,      \* what they were set up from
  queue,        \* scan codes, or characters of a serial line, not yet read
  held,         \* the key held down
  stack,
  slock, msgLine, printmode, hdrFlag,
  screen, scrnBuf,      \* display memory and screen_buf
  tty,                  \* what a serial terminal shows
  save, save2,          \* what popup() and pop2up() saved
  num, entered,         \* buf of getval() and what it returned
  session,              \* one of Sessions, and how many keys of it were pressed
  keys,
  lines,                \* lines reported
  log                   \* history: the region as it was printed

input == <<queue, held, keys>>
config == <<settings, cmdline, session>>
area == <<screen, scrnBuf, tty, log>>
saved == <<save, save2>>
typed == <<num, entered>>
modes == <<slock, printmode, hdrFlag, msgLine>>
vars == <<config, input, stack, modes, area, saved, typed, lines>>

-----------------------------------------------------------------------------
(* serial_console_setup().  A parameter that is not understood changes nothing. *)
Settings ==
  [cons : BOOLEAN, tty : Nat, baud : Nat, parity : {"n", "o", "e"}, bits : {7, 8}]

Param ==
  [ttyS : BOOLEAN, tty : Nat \cup {-1}, baud : Nat \cup {-1},
   parity : STRING, bits : Nat]      \* -1, "" and 0 where it is not given

ASSUME LinesAssumption == CommandLines \subseteq Seq(Param)

BaseBaud == 115200
Wrong(p) ==
  \/ ~ p.ttyS \/ p.tty \notin 0 .. 3
  \/ p.baud # -1 /\ (p.baud = 0 \/ BaseBaud % p.baud # 0)
  \/ p.parity \notin {"", "n", "o", "e"} \/ p.bits \notin {0, 7, 8}

BadSerialConsoleSetup(s, p) ==   \* the baud rate is stored before the rest is read
  IF Wrong(p) THEN [s EXCEPT !.baud = IF p.baud > 0 THEN p.baud ELSE @]
  ELSE [cons |-> TRUE, tty |-> p.tty,
        baud |-> IF p.baud = -1 THEN s.baud ELSE p.baud,
        parity |-> IF p.parity = "" THEN s.parity ELSE p.parity,
        bits |-> IF p.bits = 0 THEN s.bits ELSE p.bits]
SerialConsoleSetup(s, p) ==
  IF Wrong(p) THEN s
  ELSE [cons |-> TRUE, tty |-> p.tty,
        baud |-> IF p.baud = -1 THEN s.baud ELSE p.baud,
        parity |-> IF p.parity = "" THEN s.parity ELSE p.parity,
        bits |-> IF p.bits = 0 THEN s.bits ELSE p.bits]

(* parse_command_line(): one parameter after the other *)
Default == [cons |-> FALSE, tty |-> 0, baud |-> 9600, parity |-> "n", bits |-> 8]
ParseCommandLine(line) == FoldLeft(SerialConsoleSetup, Default, line)

serial_cons == settings.cons

-----------------------------------------------------------------------------
(* The screen *)
Region == 0 .. Rows
Pop == 1 .. Rows - 1           \* the rows a pop-up covers
Blank == [r \in Region |-> 0]
PopText == -1                  \* what a menu shows

(* tty_print_region() for a set of rows *)
TtyPrintRegion(rows, buffer) ==
  IF serial_cons THEN [r \in Region |-> IF r \in rows THEN buffer[r] ELSE tty[r]]
  ELSE tty

(* ttyprint(): the cursor is put there and the characters are sent *)
TtyPrint(r, text, term) ==
  IF serial_cons THEN [term EXCEPT ![r] = text] ELSE term

(* cprint() with tty_print_line(): the terminal gets what differs *)
Cprint(r, text, scr, buffer, term) ==
  /\ screen' = [scr EXCEPT ![r] = text]
  /\ scrnBuf' = [buffer EXCEPT ![r] = text]
  /\ tty' = IF buffer[r] # text THEN TtyPrint(r, text, term) ELSE term

(* popup() and pop2up(): f is screen, or scrnBuf, with a pop-up on it *)
Covered(f) == [r \in Region |-> IF r \in Pop THEN PopText ELSE f[r]]
Shown(f, under) == [r \in Region |-> IF r \in Pop THEN under[r] ELSE f[r]]

Popup ==
  /\ save' = [r \in Pop |-> screen[r]]
  /\ screen' = Covered(screen) /\ scrnBuf' = Covered(scrnBuf)
  /\ tty' = TtyPrintRegion(Pop, scrnBuf')
  /\ UNCHANGED <<save2, log>>

(* popdown() *)
Popdown ==
  /\ screen' = Shown(screen, save) /\ scrnBuf' = Shown(scrnBuf, save)
  /\ tty' = TtyPrintRegion(Pop, scrnBuf')
  /\ UNCHANGED <<saved, log>>

(* pop2up() and pop2down() *)
BadPop2up ==   \* in the save area of popup()
  /\ save' = [r \in Pop |-> screen[r]]
  /\ screen' = Covered(screen) /\ scrnBuf' = Covered(scrnBuf)
  /\ tty' = TtyPrintRegion(Pop, scrnBuf')
  /\ UNCHANGED <<save2, log>>
Pop2up ==
  /\ save2' = [r \in Pop |-> screen[r]]
  /\ screen' = Covered(screen) /\ scrnBuf' = Covered(scrnBuf)
  /\ tty' = TtyPrintRegion(Pop, scrnBuf')
  /\ UNCHANGED <<save, log>>

Pop2down ==
  /\ screen' = Shown(screen, save2) /\ scrnBuf' = Shown(scrnBuf, save2)
  /\ tty' = TtyPrintRegion(Pop, scrnBuf')
  /\ UNCHANGED <<saved, log>>

(* clear_scroll(): only display memory *)
ClearScroll(scr) == Blank

(* The part of scroll() that moves the rows up *)
MovedUp(f) ==
  [r \in Region |-> IF r = 0 THEN f[r] ELSE IF r < Rows THEN f[r + 1] ELSE 0]

-----------------------------------------------------------------------------
(* Keys.  A keyboard sends a code when a key goes down and another, with bit 7, *)
(* when it is let go.  A serial line sends characters and nothing else; each is *)
(* the key of the first row of ser_map it is in.  The rows here are those of    *)
(* keys that the program asks for, and what takes characters from them; BS, NL, *)
(* CR, TAB and ESC are ^H, ^J, ^M, ^I and ^[.                                   *)
SerMap == <<
  <<"ESC", {"ESC"}>>, <<"BS", {"DEL", "BS"}>>, <<"CR", {"NL", "CR"}>>,
  <<"TAB", {"TAB"}>>, <<"SP", {"^S"}>>, <<"CR", {"^Q"}>>, <<"SP", {"SP"}>>,
  <<"a", {"a", "A", "^A"}>>, <<"b", {"b", "B", "^B"}>>, <<"c", {"c", "C", "^C"}>>,
  <<"d", {"d", "D", "^D"}>>, <<"e", {"e", "E", "^E"}>>, <<"f", {"f", "F", "^F"}>>,
  <<"g", {"g", "G", "^G"}>>, <<"h", {"h", "H", "BS"}>>, <<"k", {"k", "K", "^K"}>>,
  <<"L", {"l", "L", "^L"}>>, <<"m", {"m", "M", "CR"}>>, <<"p", {"p", "P", "^P"}>>,
  <<"q", {"q", "Q", "^Q"}>>, <<"s", {"s", "S", "^S"}>>, <<"x", {"x", "X", "^X"}>>,
  <<"[", {"[", "{", "ESC"}>>, <<"1", {"1", "!"}>>, <<"2", {"2", "@"}>>,
  <<"3", {"3", "#"}>>, <<"4", {"4", "$"}>>, <<"5", {"5", "%"}>>,
  <<"6", {"6", "^", "^^"}>>, <<"7", {"7", "&"}>>, <<"8", {"8", "*"}>>,
  <<"9", {"9", "("}>>, <<"0", {"0", ")"}>> >>

Keys == UNION {s.keys : s \in Sessions[FALSE] \cup Sessions[TRUE]} \cup {"0", "CR"}
AsciiToKeycode ==
  [in \in Keys |-> SerMap[SelectInSeq(SerMap, LAMBDA row : in \in row[2])][1]]
KeyOf(k) == IF serial_cons THEN AsciiToKeycode[k] ELSE k
Code == [key : Keys \cup {AsciiToKeycode[k] : k \in Keys}, up : BOOLEAN]

Press(k) ==
  /\ Len(queue) < MaxQueue
  /\ queue' = Append(queue, [key |-> k, up |-> FALSE])
  /\ held' = IF serial_cons THEN held ELSE k
  /\ UNCHANGED <<config, stack, modes, area, saved, typed, lines>>

Release ==
  /\ held # "" /\ Len(queue) < MaxQueue
  /\ queue' = Append(queue, [key |-> held, up |-> TRUE])
  /\ held' = ""
  /\ UNCHANGED <<config, stack, modes, area, saved, typed, lines, keys>>

(* get_key() with a key there *)
GetKey(code) ==
  /\ queue # <<>>
  /\ code.up = Head(queue).up /\ code.key = KeyOf(Head(queue).key)
  /\ queue' = Tail(queue)
  /\ UNCHANGED <<held, keys>>

-----------------------------------------------------------------------------
(* The calls in progress *)
SubMenus == {"1", "2", "3", "4", "6"}
Frame ==
  [at : {"tests", "halted", "poll", "print", "scroll", "locked", "redraw",
         "menu", "sub", "getval", "page", "keyup", "restart"},
   menu : {""} \cup SubMenus,              \* sub-menu
   n : Nat,                                \* lines or pages to go
   shift : {0, 12},                        \* result_shift
   prt : BOOLEAN]                          \* prt of get_config()

At(name) == [at |-> name, menu |-> "", n |-> 0, shift |-> 0, prt |-> FALSE]
Lines(name, n) == [At(name) EXCEPT !.n = n]   \* n lines, or pages, to go

Top == Last(stack)
Below == Front(stack)
Call(s, frame) == Append(s, frame)

(* wait_keyup() is called, and the frame goes on when it returns *)
AfterKeyup(s) == Call(s, At("keyup"))

WaitKeyup ==
  /\ Top.at = "keyup"
  /\ \/ /\ serial_cons /\ queue = <<>>
        /\ stack' = Below
        /\ UNCHANGED input
     \/ \E code \in Code :
          GetKey(code) /\ stack' = IF serial_cons \/ code.up THEN Below ELSE stack
  /\ UNCHANGED <<config, modes, area, saved, typed, lines>>

-----------------------------------------------------------------------------
(* display_init(), which clears the terminal as well *)
DisplayInit == screen' = Blank /\ scrnBuf' = Blank /\ tty' = Blank /\ log' = Blank

StartAgain ==
  /\ DisplayInit
  /\ stack' = <<At("tests")>>
  /\ msgLine' = 0 /\ printmode' = "none" /\ hdrFlag' = FALSE
  /\ UNCHANGED <<config, saved, typed, lines>>

Init ==
  /\ cmdline \in CommandLines /\ settings = ParseCommandLine(cmdline)
  /\ session \in Sessions[serial_cons]
  /\ screen = Blank /\ scrnBuf = Blank /\ tty = Blank /\ log = Blank
  /\ stack = <<At("tests")>>
  /\ msgLine = 0 /\ printmode = "none" /\ hdrFlag = FALSE /\ slock = FALSE
  /\ queue = <<>> /\ held = "" /\ keys = 0 /\ lines = 0
  /\ save = [r \in Pop |-> 0] /\ save2 = [r \in Pop |-> 0]
  /\ num = <<>> /\ entered = -1

(* check_input() having read a code, which is taken as pressed even if the key *)
(* was let go (c & 0x7f); s is what it returns to                              *)
CheckInput(code, s) ==
  CASE code.key = "ESC" ->
         StartAgain /\ slock' = FALSE
    [] code.key = "c" ->            \* get_config()
         /\ Popup
         /\ stack' = AfterKeyup(Call(s, At("menu")))
         /\ UNCHANGED <<config, modes, typed, lines>>
    [] code.key = "CR" ->
         /\ slock' = FALSE /\ stack' = s
         /\ UNCHANGED <<config, printmode, hdrFlag, msgLine, area, saved, typed, lines>>
    [] code.key = "SP" ->
         /\ slock' = TRUE /\ stack' = s
         /\ UNCHANGED <<config, printmode, hdrFlag, msgLine, area, saved, typed, lines>>
    [] code.key = "L" ->
         /\ tty' = TtyPrintRegion(Region, scrnBuf) /\ stack' = s
         /\ UNCHANGED <<config, modes, screen, scrnBuf, log, saved, typed, lines>>
    [] OTHER ->
         stack' = s /\ UNCHANGED <<config, modes, area, saved, typed, lines>>

(* A tick of a test, or the loop of inter() *)
Tick ==
  /\ Top.at \in {"tests", "halted"}
  /\ \E code \in Code : GetKey(code) /\ CheckInput(code, stack)

-----------------------------------------------------------------------------
(* common_err(): the screen is cleared before the first report in a mode;      *)
(* individual errors scroll and, in this version, print nothing; patterns are  *)
(* printed, on n lines.  Both poll first.  What the summary shows, and the     *)
(* counts, are left out, and the mode for DMI names shows nothing.             *)
Report ==
  /\ Top.at = "tests" /\ printmode # "dmi"
  /\ IF hdrFlag THEN UNCHANGED area
     ELSE screen' = ClearScroll(screen) /\ log' = Blank /\ UNCHANGED <<scrnBuf, tty>>
  /\ hdrFlag' = TRUE
  /\ \/ /\ printmode = "none"
        /\ UNCHANGED <<stack, lines>>
     \/ /\ printmode = "addresses" /\ lines < MaxLines
        /\ lines' = lines + 1
        /\ stack' = stack \o <<Lines("scroll", 1), At("poll")>>
     \/ /\ printmode = "patterns"
        /\ \E n \in 1 .. MaxLines - lines :
             /\ lines' = lines + n
             /\ stack' = stack \o <<Lines("print", n), At("poll")>>
  /\ UNCHANGED <<config, input, slock, printmode, msgLine, saved, typed>>

Poll ==
  /\ Top.at = "poll"
  /\ \/ /\ queue = <<>>
        /\ stack' = Below
        /\ UNCHANGED <<config, input, modes, area, saved, typed, lines>>
     \/ \E code \in Code : GetKey(code) /\ CheckInput(code, Below)

(* A line is printed at msg_line, on what scroll() left *)
Texts == {1, 2}
PrintLine(frame, row, scr, buffer, term, printed) ==
  IF frame.at = "print"
  THEN \E text \in Texts : /\ Cprint(row, text, scr, buffer, term)
                           /\ log' = [printed EXCEPT ![row] = text]
  ELSE screen' = scr /\ scrnBuf' = buffer /\ tty' = term /\ log' = printed

OneLess(s) ==
  IF Last(s).n > 1 THEN [s EXCEPT ![Len(s)].n = @ - 1] ELSE Front(s)

(* The last row of the region is not sent to the terminal *)
BadMoveUp(s) ==   \* the region is not sent at all
  /\ PrintLine(Last(s), msgLine, MovedUp(screen), MovedUp(scrnBuf), tty, MovedUp(log))
  /\ stack' = OneLess(s)
  /\ UNCHANGED <<config, input, modes, saved, typed, lines>>
MoveUp(s) ==
  LET buffer == MovedUp(scrnBuf)
  IN  /\ PrintLine(Last(s), msgLine, MovedUp(screen), buffer,
                   TtyPrintRegion(1 .. Rows - 1, buffer), MovedUp(log))
      /\ stack' = OneLess(s)
      /\ UNCHANGED <<config, input, modes, saved, typed, lines>>

AtBottom == msgLine >= Rows

(* scroll(): at the bottom it waits for the scroll lock to be off ... *)
Scroll ==
  /\ Top.at \in {"print", "scroll"}
  /\ \/ /\ ~ AtBottom
        /\ msgLine' = msgLine + 1
        /\ PrintLine(Top, msgLine + 1, screen, scrnBuf, tty, log)
        /\ stack' = OneLess(stack)
        /\ UNCHANGED <<config, input, slock, printmode, hdrFlag, saved, typed, lines>>
     \/ AtBottom /\ ~ slock /\ MoveUp(stack)
     \/ /\ AtBottom /\ slock
        /\ stack' = Call(stack, At("locked"))
        /\ UNCHANGED <<config, input, modes, area, saved, typed, lines>>

(* ... and polls for the key that does it. *)
BadScrollWait ==   \* it does not poll
  Top.at = "locked" /\ ~ slock /\ MoveUp(Below)
ScrollWait ==
  /\ Top.at = "locked"
  /\ \/ slock /\ \E code \in Code : GetKey(code) /\ CheckInput(code, stack)
     \/ ~ slock /\ MoveUp(Below)

(* inter(): an exception in a test; the report fills the region *)
TrapText == 3
Inter ==
  /\ Top.at = "tests"
  /\ stack' = <<At("halted")>>
  /\ screen' = [r \in Region |-> TrapText] /\ scrnBuf' = screen' /\ log' = screen'
  /\ tty' = TtyPrintRegion(Region, scrnBuf')
  /\ UNCHANGED <<config, input, modes, saved, typed, lines>>

-----------------------------------------------------------------------------
(* The menus.  Each ends with 0 or SP, the first one with CR as well.          *)
Unchanged == UNCHANGED <<config, modes, area, saved, typed, lines>>

(* get_config() from the end of its loop on: printpatn() has n lines *)
LeaveMenu(refresh) ==
  /\ Popdown
  /\ \E n \in IF Top.prt THEN 0 .. MaxLines - lines ELSE {0} :
       /\ lines' = lines + n
       /\ stack' = Below \o (IF refresh THEN <<At("redraw")>> ELSE <<>>)
                         \o (IF n > 0 THEN <<Lines("print", n)>> ELSE <<>>)
                         \o (IF Top.prt THEN <<At("poll")>> ELSE <<>>)
  /\ UNCHANGED <<config, modes, typed>>

(* print_dmi_info() and print_failing_info() have n pages *)
ShowPages ==
  /\ Pop2up
  /\ \E n \in 1 .. 2 : stack' = AfterKeyup(Call(stack, Lines("page", n)))
  /\ UNCHANGED <<config, modes, typed, lines>>

(* The loop of get_config() *)
GetConfig ==
  /\ Top.at = "menu"
  /\ \E code \in Code :
       /\ GetKey(code)
       /\ \/ /\ ~ code.up /\ code.key \in {"0", "SP", "CR"} /\ LeaveMenu(FALSE)
          \/ /\ ~ code.up /\ code.key = "8" /\ LeaveMenu(TRUE)
          \/ /\ ~ code.up /\ code.key \in SubMenus
             /\ stack' = AfterKeyup(Call(stack, [At("sub") EXCEPT !.menu = code.key]))
             /\ Unchanged
          \/ /\ ~ code.up /\ code.key \in {"5", "9"} /\ ShowPages
          \/ /\ ~ code.up /\ code.key = "7"
             /\ stack' = AfterKeyup(Call(stack, At("restart")))
             /\ Unchanged
          \/ /\ code.up \/ code.key \notin {"0", "SP", "CR", "8", "5", "9", "7"} \cup SubMenus
             /\ UNCHANGED stack /\ Unchanged

(* Keys of a sub-menu that ask for a number, those that restart, and those     *)
(* that are done with it                                                       *)
Asks(menu) == CASE menu = "1" -> {"3"} [] menu = "2" -> {"1", "2"} [] OTHER -> {}
Restarts(menu) == IF menu = "3" THEN {"1", "2"} ELSE {}
Ends(menu) ==
  {"0", "SP"} \cup
  CASE menu = "1" -> {"1", "2", "4"}
    [] menu = "2" -> {"3"}
    [] menu = "3" -> {}
    [] menu = "4" -> {"1", "2", "3", "4", "5", "6"}
    [] menu = "6" -> {"1", "2", "3"}

(* What sub-menu 4 does: the printing mode, and prt for patterns *)
SetPrintMode(menu, key) ==
  IF menu = "4" /\ key \in {"1", "2", "3", "4", "5"}
  THEN /\ printmode' = CASE key = "2" -> "addresses" [] key = "3" -> "patterns"
                         [] key = "5" -> "dmi" [] OTHER -> "none"
       /\ hdrFlag' = FALSE
       /\ msgLine' = IF key = "2" THEN 0 ELSE msgLine
       /\ UNCHANGED slock
  ELSE UNCHANGED modes

SubMenu ==
  /\ Top.at = "sub"
  /\ \E code \in Code :
       /\ GetKey(code)
       /\ \/ /\ ~ code.up /\ code.key \in Asks(Top.menu)
             /\ stack' = AfterKeyup(Call(Below,
                  [At("getval") EXCEPT !.shift = IF Top.menu = "2" THEN 12 ELSE 0]))
             /\ num' = <<>> /\ entered' = -1
             /\ UNCHANGED <<config, modes, area, saved, lines>>
          \/ /\ ~ code.up /\ code.key \in Restarts(Top.menu)
             /\ stack' = AfterKeyup(Call(stack, At("restart")))
             /\ Unchanged
          \/ /\ ~ code.up /\ code.key \in Ends(Top.menu)
             /\ stack' = IF Top.menu = "4" /\ code.key = "3"
                         THEN [Below EXCEPT ![Len(Below)].prt = TRUE] ELSE Below
             /\ SetPrintMode(Top.menu, code.key)
             /\ UNCHANGED <<config, area, saved, typed, lines>>
          \/ /\ \/ code.up
                \/ code.key \notin Asks(Top.menu) \cup Restarts(Top.menu) \cup Ends(Top.menu)
             /\ UNCHANGED stack /\ Unchanged

(* One page, until any key, be it that one is let go *)
Page ==
  /\ Top.at = "page"
  /\ \E code \in Code : GetKey(code)
  /\ IF Top.n > 1
     THEN stack' = AfterKeyup(OneLess(stack)) /\ UNCHANGED <<area, saved>>
     ELSE stack' = Below /\ Pop2down
  /\ UNCHANGED <<config, modes, typed, lines>>

RestartFromMenu ==
  /\ Top.at = "restart"
  /\ StartAgain
  /\ UNCHANGED <<input, slock>>

Redraw ==
  /\ Top.at = "redraw"
  /\ tty' = TtyPrintRegion(Region, scrnBuf)
  /\ stack' = Below
  /\ UNCHANGED <<config, input, modes, screen, scrnBuf, log, saved, typed, lines>>

-----------------------------------------------------------------------------
(* getval().  num is what was typed, key by key.                               *)
Shifts == ("g" :> 30) @@ ("m" :> 20) @@ ("p" :> 12) @@ ("k" :> 10)
Digit == ("0" :> 0) @@ ("1" :> 1) @@ ("2" :> 2) @@ ("3" :> 3) @@ ("4" :> 4) @@
         ("5" :> 5) @@ ("6" :> 6) @@ ("7" :> 7) @@ ("8" :> 8) @@ ("9" :> 9) @@
         ("a" :> 10) @@ ("b" :> 11) @@ ("c" :> 12) @@ ("d" :> 13) @@ ("e" :> 14) @@
         ("f" :> 15)

Hex(typing) == IsPrefix(<<"0", "x">>, typing)
Base(typing) ==
  IF Hex(typing) THEN 16 ELSE IF IsPrefix(<<"0">>, typing) THEN 8 ELSE 10

Closed(typing) == typing # <<>> /\ Last(typing) \in DOMAIN Shifts

(* What a key does to what was typed *)
BadEdit(typing, key) ==   \* x is taken anywhere
  CASE key = "BS" -> IF typing = <<>> THEN typing ELSE Front(typing)
    [] key # "BS" /\ Closed(typing) -> typing
    [] key # "BS" /\ ~ Closed(typing) ->
         IF \/ key \in DOMAIN Shifts \/ key = "x"
            \/ key \in DOMAIN Digit /\ Digit[key] < Base(typing)
         THEN Append(typing, key) ELSE typing
Edit(typing, key) ==
  CASE key = "BS" -> IF typing = <<>> THEN typing ELSE Front(typing)
    [] key # "BS" /\ Closed(typing) -> typing
    [] key # "BS" /\ ~ Closed(typing) ->
         IF \/ key \in DOMAIN Shifts
            \/ key = "x" /\ typing = <<"0">>
            \/ key \in DOMAIN Digit /\ Digit[key] < Base(typing)
         THEN Append(typing, key) ELSE typing

(* simple_strtoul(): it stops at what is no digit of the base *)
Strtoul(typing, base) ==
  LET Legal(k) == k \in DOMAIN Digit /\ Digit[k] < base
      start == IF base = 16 THEN 3 ELSE 1
      ends == {i \in start .. Len(typing) : ~ Legal(typing[i])}
      end == IF ends = {} THEN Len(typing) ELSE Min(ends) - 1
  IN  FoldLeft(LAMBDA v, k : (v * base + Digit[k]) % Word, 0, SubSeq(typing, start, end))

(* The suffix shifts the value up, result_shift down *)
GetvalResult(typing, resultShift) ==
  LET shift == (IF Closed(typing) THEN Shifts[Last(typing)] ELSE 0) - resultShift
      val == Strtoul(typing, Base(typing))
  IN  IF shift > 0 THEN (val * 2^shift) % Word ELSE val \div 2^(-shift)

Getval ==
  /\ Top.at = "getval"
  /\ \E code \in Code :
       /\ GetKey(code)
       /\ \/ /\ ~ code.up /\ code.key = "CR" /\ num # <<>>
             /\ entered' = GetvalResult(num, Top.shift)
             /\ stack' = Below
             /\ UNCHANGED <<num, tty>>
          \/ /\ ~ code.up /\ code.key = "L"
             /\ tty' = TtyPrintRegion(Region, scrnBuf)
             /\ UNCHANGED <<stack, typed>>
          \/ /\ ~ code.up /\ code.key # "L" /\ ~ (code.key = "CR" /\ num # <<>>)
             /\ (Len(num) < NumLen \/ code.key = "BS")
             /\ num' = Edit(num, code.key)
             /\ UNCHANGED <<stack, entered, tty>>
          \/ /\ \/ code.up
                \/ Len(num) = NumLen /\ code.key \notin {"BS", "CR", "L"}
             /\ UNCHANGED <<stack, typed, tty>>
  /\ UNCHANGED <<config, modes, screen, scrnBuf, log, saved, lines>>

-----------------------------------------------------------------------------
Waiting ==
  \/ Top.at \in {"keyup", "menu", "sub", "getval", "page"}
  \/ Top.at = "locked" /\ slock

(* What the help bar and the menus tell the operator to press *)
AnswerKey ==
  IF Top.at = "locked" \/ (Top.at = "getval" /\ num # <<>>) THEN "CR" ELSE "0"

Answer ==
  /\ Waiting /\ queue = <<>>
  /\ IF held # "" THEN Release ELSE Press(AnswerKey) /\ UNCHANGED keys

Operator ==
  \/ /\ keys < session.max
     /\ \E k \in session.keys : Press(k)
     /\ keys' = keys + 1
  \/ Release

Program ==
  \/ Tick \/ Poll \/ Scroll \/ ScrollWait \/ WaitKeyup
  \/ GetConfig \/ SubMenu \/ Page \/ Getval \/ RestartFromMenu \/ Redraw

Next == Program \/ Report \/ Inter \/ Operator \/ Answer

(* The program never stops polling, and an operator asked for a key gives it   *)
(* in the end.  Errors need not occur, and nobody need press anything else.    *)
Spec == Init /\ [][Next]_vars /\ WF_vars(Program) /\ WF_vars(Answer)

-----------------------------------------------------------------------------
TypeOK ==
  /\ settings \in Settings /\ cmdline \in Seq(Param)
  /\ queue \in Seq([key : Keys, up : BOOLEAN]) /\ held \in {""} \cup Keys
  /\ stack \in Seq(Frame) /\ stack # <<>>
  /\ {i \in 1 .. Len(stack) : stack[i].at \in {"tests", "halted"}} = {1}
  /\ slock \in BOOLEAN /\ hdrFlag \in BOOLEAN
  /\ msgLine \in 0 .. Rows
  /\ printmode \in {"none", "addresses", "patterns", "dmi"}
  /\ \A f \in {screen, scrnBuf, tty} : f \in [Region -> {PopText, 0, TrapText} \cup Texts]
  /\ log \in [Region -> {0, TrapText} \cup Texts]
  /\ \A f \in {save, save2} : f \in [Pop -> {PopText, 0, TrapText} \cup Texts]
  /\ num \in Seq(Keys) /\ entered \in Nat \cup {-1}
  /\ session \in Sessions[serial_cons] /\ keys \in 0 .. session.max /\ lines \in 0 .. MaxLines

(* Whatever was opened on top of what, from a test, from a report that waits   *)
(* for the scroll lock or from the stopped program: when no menu is open the   *)
(* region shows what was printed there (config.c:431-518, lib.c:191-221).      *)
MenuOpen == \E i \in 1 .. Len(stack) : stack[i].at = "menu"
PopupRestores == ~ MenuOpen => screen = log

(* A serial terminal shows what the program believes it does, but for the last *)
(* row, which scroll() does not send (screen_buffer.c:72-109).                 *)
TerminalAsBuffered ==
  serial_cons => \A r \in Region \ {Rows} : tty[r] = scrnBuf[r]

(* getval() returns the number typed, times the unit of its suffix, in units   *)
(* of the result (lib.c:646-762): no sequence of keys, corrections included,   *)
(* leaves it with a digit, an x or a suffix where none belongs.                *)
Numeral ==     \* the digits typed
  LET skipped == IF Hex(num) THEN SubSeq(num, 3, Len(num)) ELSE num
  IN  IF Closed(num) THEN Front(skipped) ELSE skipped
EnteredAsTyped ==
  entered # -1 =>
    LET digits == Numeral
        base == IF Hex(num) THEN 16 ELSE IF num[1] = "0" THEN 8 ELSE 10
    IN  /\ \A i \in 1 .. Len(digits) : digits[i] \in DOMAIN Digit /\ Digit[digits[i]] < base
        /\ LET n == FoldSet(LAMBDA i, v : v + Digit[digits[i]] * base^(Len(digits) - i), 0,
                            1 .. Len(digits))
               unit == IF Closed(num) THEN Shifts[Last(num)] ELSE 0
           IN  n < Word \div 2^unit => \E shift \in {0, 12} : entered = (n * 2^unit) \div 2^shift

(* A value of "console=" is taken as a whole or not at all: each setting is    *)
(* that of the last parameter that is right in all its parts and gives it, and *)
(* one that is wrong anywhere leaves no trace (lib.c:1039-1116, main.c:140).   *)
Right(par) ==
  /\ par.ttyS /\ par.tty \in 0 .. 3
  /\ par.baud = -1 \/ (par.baud > 0 /\ BaseBaud % par.baud = 0)
  /\ par.parity \in {"", "n", "o", "e"} /\ par.bits \in {0, 7, 8}
LastGiven(field, none, default) ==
  LET given == {i \in 1 .. Len(cmdline) : Right(cmdline[i]) /\ cmdline[i][field] # none}
  IN  IF given = {} THEN default ELSE cmdline[Max(given)][field]
AllOrNothing ==
  settings = [cons |-> \E i \in 1 .. Len(cmdline) : Right(cmdline[i]),
              tty |-> LastGiven("tty", -1, Default.tty),
              baud |-> LastGiven("baud", -1, Default.baud),
              parity |-> LastGiven("parity", "", Default.parity),
              bits |-> LastGiven("bits", 0, Default.bits)]

(* However menus, pages, number prompts and reports that wait for the scroll   *)
(* lock are nested, an operator who answers gets back to the tests: no wait    *)
(* is for a key that can no longer come or that nobody reads (lib.c:201-203,   *)
(* 1005-1027).                                                                 *)
Answered == (Len(stack) > 1) ~> (Len(stack) = 1)
=============================================================================
