--------------------------- MODULE Console_proofs ---------------------------
(***************************************************************************)
(* Proofs about Console: the calls in progress are nested so that at most  *)
(* one menu is open and nothing is printed while it is; hence the region   *)
(* is as it was printed when the menu is left, whatever was shown on it.   *)
(* And a serial terminal shows what the program believes it does.  At the  *)
(* end: what any command line sets up, by induction over its parameters.   *)
(***************************************************************************)
EXTENDS Console, TLAPS, FiniteSetTheorems, WellFoundedInduction

(* What may be in progress on top of a menu *)
OverMenu == {"sub", "getval", "page", "keyup", "restart"}
Outermost == {"tests", "halted"}
(* ... and what waits for the scroll lock *)
Printing == {"print", "scroll"}

MenuIn(s) == \E i \in 1 .. Len(s) : s[i].at = "menu"

Nested(s) ==
  /\ s \in Seq(Frame) /\ s # <<>>
  /\ s[1].at \in Outermost
  /\ \A i, j \in 1 .. Len(s) : i < j /\ s[i].at = "menu" => s[j].at \in OverMenu
  /\ \A j \in 1 .. Len(s) : s[j].at = "page" => \E i \in 1 .. j - 1 : s[i].at = "menu"
  /\ \A j \in 1 .. Len(s) : s[j].at = "locked" => j > 1 /\ s[j - 1].at \in Printing

(* The terminal is what the program believes, and all rows have a text. *)
AreaTypes ==
  /\ screen \in [Region -> Int] /\ scrnBuf \in [Region -> Int]
  /\ tty \in [Region -> Int] /\ log \in [Region -> Int]
  /\ save \in [Pop -> Int] /\ save2 \in [Pop -> Int]
Held == AreaTypes /\ TerminalAsBuffered

(* While a menu is open it is on top of what was printed. *)
Restorable ==
  IF MenuIn(stack)
  THEN /\ \A r \in Pop : save[r] = log[r]
       /\ \A r \in Region \ Pop : screen[r] = log[r]
  ELSE screen = log

Inv == msgLine \in 0 .. Rows /\ Held /\ Nested(stack) /\ Restorable

-----------------------------------------------------------------------------
(* The stack.                                                                  *)

(* A call that returns leaves the others as they are. *)
LEMMA PopNested ==
  ASSUME NEW s, Nested(s), Last(s).at \notin Outermost
  PROVE  /\ Nested(Front(s))
         /\ MenuIn(Front(s)) <=> MenuIn(s) /\ Last(s).at # "menu"
<1>1. /\ s \in Seq(Frame) /\ Len(s) \in Nat /\ Len(s) > 1
      /\ Front(s) \in Seq(Frame) /\ Len(Front(s)) = Len(s) - 1
      /\ \A i \in 1 .. Len(s) - 1 : Front(s)[i] = s[i]
      /\ Last(s) = s[Len(s)]
  BY DEF Nested, Front, Last
<1>2. Front(s) # <<>> /\ Front(s)[1] = s[1]
  BY <1>1
<1>3. Nested(Front(s))
  <2> DEFINE t == Front(s)
  <2>1. /\ t \in Seq(Frame) /\ Len(t) = Len(s) - 1 /\ t # <<>> /\ t[1] = s[1]
        /\ \A i \in 1 .. Len(s) - 1 : t[i] = s[i]
    BY <1>1, <1>2
  <2> HIDE DEF t
  <2>2. t[1].at \in Outermost
    BY <2>1 DEF Nested
  <2>3. ASSUME NEW i \in 1 .. Len(t), NEW j \in 1 .. Len(t), i < j, t[i].at = "menu"
        PROVE  t[j].at \in OverMenu
    <3>1. i \in 1 .. Len(s) /\ j \in 1 .. Len(s) /\ t[i] = s[i] /\ t[j] = s[j]
      BY <1>1, <2>1
    <3>2. QED
      BY <2>3, <3>1 DEF Nested
  <2>4. ASSUME NEW j \in 1 .. Len(t), t[j].at = "page"
        PROVE  \E i \in 1 .. j - 1 : t[i].at = "menu"
    <3>1. j \in 1 .. Len(s) /\ s[j].at = "page"
      BY <1>1, <2>1, <2>4
    <3>2. PICK i \in 1 .. j - 1 : s[i].at = "menu"
      BY <3>1 DEF Nested
    <3>3. t[i] = s[i]
      BY <1>1, <2>1, <3>2
    <3>4. QED
      BY <3>2, <3>3
  <2>5. ASSUME NEW j \in 1 .. Len(t), t[j].at = "locked"
        PROVE  j > 1 /\ t[j - 1].at \in Printing
    <3>1. j \in 1 .. Len(s) /\ s[j].at = "locked"
      BY <1>1, <2>1, <2>5
    <3>2. j > 1 /\ s[j - 1].at \in Printing
      BY <3>1 DEF Nested
    <3>3. t[j - 1] = s[j - 1]
      BY <1>1, <2>1, <3>1, <3>2
    <3>4. QED
      BY <3>2, <3>3
  <2>6. QED
    BY <2>1, <2>2, <2>3, <2>4, <2>5 DEF Nested, t
<1>4. MenuIn(Front(s)) <=> \E i \in 1 .. Len(s) - 1 : s[i].at = "menu"
  <2>1. \A i \in 1 .. Len(s) - 1 : Front(s)[i] = s[i]
    BY <1>1
  <2>2. QED
    BY <1>1, <2>1 DEF MenuIn
<1>5. MenuIn(s) <=> MenuIn(Front(s)) \/ Last(s).at = "menu"
  <2>1. \A i \in 1 .. Len(s) : i \in 1 .. Len(s) - 1 \/ i = Len(s)
    BY <1>1
  <2>2. Len(s) \in 1 .. Len(s) /\ 1 .. Len(s) - 1 \subseteq 1 .. Len(s)
    BY <1>1
  <2>3. Last(s) = s[Len(s)]
    BY <1>1
  <2>4. MenuIn(s) <=> \E i \in 1 .. Len(s) : s[i].at = "menu"
    BY DEF MenuIn
  <2>5. QED
    BY <1>4, <2>1, <2>2, <2>3, <2>4
<1>6. Last(s).at = "menu" => ~MenuIn(Front(s))
  BY <1>1, <1>4 DEF Nested, OverMenu
<1>7. QED
  BY <1>3, <1>5, <1>6

(* A call that begins: on top of a menu only what belongs there, and a page    *)
(* nowhere else.                                                               *)
LEMMA PushNested ==
  ASSUME NEW s, Nested(s), NEW frame \in Frame,
         MenuIn(s) => frame.at \in OverMenu,
         frame.at = "page" => MenuIn(s),
         frame.at = "locked" => Last(s).at \in Printing
  PROVE  /\ Nested(Append(s, frame))
         /\ MenuIn(Append(s, frame)) <=> MenuIn(s) \/ frame.at = "menu"
<1> DEFINE t == Append(s, frame)
<1>1. /\ s \in Seq(Frame) /\ Len(s) \in Nat /\ Len(s) >= 1
      /\ t \in Seq(Frame) /\ Len(t) = Len(s) + 1
      /\ \A i \in 1 .. Len(s) : t[i] = s[i]
      /\ t[Len(s) + 1] = frame
  BY DEF Nested
<1> HIDE DEF t
<1>2. MenuIn(t) <=> MenuIn(s) \/ frame.at = "menu"
  BY <1>1 DEF MenuIn
<1>3. t # <<>> /\ t[1].at \in Outermost
  BY <1>1 DEF Nested
<1>4. ASSUME NEW i \in 1 .. Len(t), NEW j \in 1 .. Len(t), i < j, t[i].at = "menu"
      PROVE  t[j].at \in OverMenu
  <2>1. i \in 1 .. Len(s) /\ s[i].at = "menu"
    BY <1>1, <1>4
  <2>2. CASE j \in 1 .. Len(s)
    BY <1>1, <1>4, <2>1, <2>2 DEF Nested
  <2>3. CASE j = Len(s) + 1
    BY <1>1, <2>1, <2>3 DEF MenuIn
  <2>4. QED
    BY <1>1, <2>2, <2>3
<1>5. ASSUME NEW j \in 1 .. Len(t), t[j].at = "page"
      PROVE  \E i \in 1 .. j - 1 : t[i].at = "menu"
  <2>1. CASE j \in 1 .. Len(s)
    BY <1>1, <1>5, <2>1 DEF Nested
  <2>2. CASE j = Len(s) + 1
    BY <1>1, <1>5, <2>2 DEF MenuIn
  <2>3. QED
    BY <1>1, <2>1, <2>2
<1>6. ASSUME NEW j \in 1 .. Len(t), t[j].at = "locked"
      PROVE  j > 1 /\ t[j - 1].at \in Printing
  <2>1. CASE j \in 1 .. Len(s)
    <3>1. s[j].at = "locked"
      BY <1>1, <1>6, <2>1
    <3>2. j > 1 /\ s[j - 1].at \in Printing
      BY <2>1, <3>1 DEF Nested
    <3>3. t[j - 1] = s[j - 1]
      BY <1>1, <2>1, <3>2
    <3>4. QED
      BY <3>2, <3>3
  <2>2. CASE j = Len(s) + 1
    BY <1>1, <1>6, <2>2 DEF Last
  <2>3. QED
    BY <1>1, <2>1, <2>2
<1>7. Nested(t)
  BY <1>1, <1>3, <1>4, <1>5, <1>6 DEF Nested
<1>8. QED
  BY <1>2, <1>7 DEF t

(* The calls stay the same, whatever they remember. *)
LEMMA SameNested ==
  ASSUME NEW s, Nested(s), NEW t \in Seq(Frame), Len(t) = Len(s),
         \A i \in 1 .. Len(s) : t[i].at = s[i].at
  PROVE  Nested(t) /\ (MenuIn(t) <=> MenuIn(s))
<1>1. /\ s \in Seq(Frame) /\ Len(s) \in Nat /\ Len(s) >= 1
      /\ 1 \in 1 .. Len(s) /\ t # <<>>
  BY DEF Nested
<1>2. MenuIn(t) <=> MenuIn(s)
  BY DEF MenuIn
<1>3. ASSUME NEW j \in 1 .. Len(t), t[j].at = "locked"
      PROVE  j > 1 /\ t[j - 1].at \in Printing
  <2>1. j > 1 /\ s[j - 1].at \in Printing
    BY <1>3 DEF Nested
  <2>2. j - 1 \in 1 .. Len(s)
    BY <1>1, <2>1
  <2>3. QED
    BY <2>1, <2>2
<1>4. \A j \in 1 .. Len(t) : t[j].at = "page" => \E i \in 1 .. j - 1 : t[i].at = "menu"
  <2>1. SUFFICES ASSUME NEW j \in 1 .. Len(t), t[j].at = "page"
                 PROVE  \E i \in 1 .. j - 1 : t[i].at = "menu"
    OBVIOUS
  <2>2. PICK i \in 1 .. j - 1 : s[i].at = "menu"
    BY <2>1 DEF Nested
  <2>3. i \in 1 .. Len(s)
    BY <1>1, <2>2
  <2>4. QED
    BY <2>2, <2>3
<1>5. QED
  BY <1>1, <1>2, <1>3, <1>4 DEF Nested

(* Two calls at once *)
LEMMA Calls ==
  ASSUME NEW s \in Seq(Frame), NEW f \in Frame, NEW g \in Frame
  PROVE  /\ s \o <<>> = s /\ s \o <<f>> = Append(s, f)
         /\ s \o <<f, g>> = Append(Append(s, f), g)
         /\ Append(s, f) \in Seq(Frame)
  OBVIOUS

LEMMA Frames ==
  ASSUME NEW n \in Nat
  PROVE  /\ \A name \in {"tests", "halted", "poll", "print", "scroll", "locked", "redraw",
                         "menu", "sub", "getval", "page", "keyup", "restart"} :
              /\ At(name) \in Frame /\ At(name).at = name
              /\ Lines(name, n) \in Frame /\ Lines(name, n).at = name
         /\ \A menu \in SubMenus : /\ [At("sub") EXCEPT !.menu = menu] \in Frame
                                   /\ [At("sub") EXCEPT !.menu = menu].at = "sub"
         /\ \A shift \in {0, 12} : /\ [At("getval") EXCEPT !.shift = shift] \in Frame
                                   /\ [At("getval") EXCEPT !.shift = shift].at = "getval"
<1>1. \A name \in {"tests", "halted", "poll", "print", "scroll", "locked", "redraw",
                   "menu", "sub", "getval", "page", "keyup", "restart"} :
        /\ At(name) \in Frame /\ At(name).at = name
        /\ Lines(name, n) \in Frame /\ Lines(name, n).at = name
  BY DEF At, Lines, Frame
<1>2. \A menu \in SubMenus : /\ [At("sub") EXCEPT !.menu = menu] \in Frame
                             /\ [At("sub") EXCEPT !.menu = menu].at = "sub"
  BY DEF At, Frame, SubMenus
<1>3. \A shift \in {0, 12} : /\ [At("getval") EXCEPT !.shift = shift] \in Frame
                             /\ [At("getval") EXCEPT !.shift = shift].at = "getval"
  BY DEF At, Frame
<1>4. QED
  BY <1>1, <1>2, <1>3

(* What is in progress where the program polls and where it prints *)
LEMMA TopOfStack ==
  ASSUME NEW s, Nested(s)
  PROVE  /\ Last(s) \in Frame /\ Len(s) \in Nat /\ Len(s) > 0 /\ Last(s) = s[Len(s)]
         /\ Last(s).at \notin OverMenu \cup {"menu"} => ~MenuIn(s)
         /\ Last(s).at = "menu" => MenuIn(s)
         /\ Last(s).at = "page" => MenuIn(s)
<1>1. /\ s \in Seq(Frame) /\ Len(s) \in Nat /\ Len(s) > 0 /\ Last(s) = s[Len(s)]
      /\ Len(s) \in 1 .. Len(s)
  BY DEF Nested, Last
<1>2. Last(s).at \notin OverMenu \cup {"menu"} => ~MenuIn(s)
  BY <1>1 DEF Nested, MenuIn
<1>3. Last(s).at = "page" => MenuIn(s)
  BY <1>1 DEF Nested, MenuIn
<1>4. QED
  BY <1>1, <1>2, <1>3 DEF MenuIn

(* A call that remembers something else *)
LEMMA FrameLines ==
  ASSUME NEW f \in Frame
  PROVE  f.n \in Nat
  BY DEF Frame

LEMMA FrameChanged ==
  ASSUME NEW f \in Frame, NEW n \in Nat
  PROVE  /\ [f EXCEPT !.n = n] \in Frame /\ [f EXCEPT !.n = n].at = f.at
         /\ [f EXCEPT !.prt = TRUE] \in Frame /\ [f EXCEPT !.prt = TRUE].at = f.at
  BY DEF Frame

(* A call that has n lines left to print has one less, or returns. *)
LEMMA OneLessNested ==
  ASSUME NEW s, Nested(s), Last(s).at \in {"print", "scroll", "page"}
  PROVE  /\ Nested(OneLess(s))
         /\ MenuIn(OneLess(s)) <=> MenuIn(s)
<1>1. /\ Last(s) \in Frame /\ Len(s) \in Nat /\ Len(s) > 0 /\ Last(s) = s[Len(s)]
      /\ s \in Seq(Frame)
  BY TopOfStack DEF Nested
<1>2. CASE Last(s).n > 1
  <2> DEFINE t == [s EXCEPT ![Len(s)].n = @ - 1]
  <2>1. OneLess(s) = t
    BY <1>2 DEF OneLess
  <2>2. Last(s).n \in Nat
    BY <1>1, FrameLines
  <2>3. Last(s).n \in Nat /\ Last(s).n - 1 \in Nat
    BY <1>2, <2>2
  <2> DEFINE f == [s[Len(s)] EXCEPT !.n = s[Len(s)].n - 1]
  <2>4. f \in Frame /\ f.at = s[Len(s)].at
    BY <1>1, <2>3, FrameChanged
  <2>5. t = [s EXCEPT ![Len(s)] = f]
    BY <1>1
  <2> HIDE DEF f
  <2>6. /\ t \in Seq(Frame) /\ Len(t) = Len(s)
        /\ \A i \in 1 .. Len(s) : t[i].at = s[i].at
    BY <1>1, <2>4, <2>5
  <2>7. QED
    BY <2>1, <2>6, SameNested
<1>3. CASE ~(Last(s).n > 1)
  BY <1>3, PopNested DEF OneLess, Outermost
<1>4. QED
  BY <1>2, <1>3

-----------------------------------------------------------------------------
(* The region.                                                                 *)

LEMMA Rowing ==
  /\ Region = 0 .. Rows /\ Pop \subseteq Region \ {0, Rows}
  /\ Rows \in Nat /\ Rows >= 1
  BY ConsoleAssumption DEF Region, Pop

LEMMA Functions ==
  ASSUME NEW f \in [Region -> Int], tty \in [Region -> Int]
  PROVE  /\ Blank \in [Region -> Int] /\ Covered(f) \in [Region -> Int]
         /\ MovedUp(f) \in [Region -> Int]
         /\ \A under \in [Pop -> Int] : Shown(f, under) \in [Region -> Int]
         /\ \A rows : TtyPrintRegion(rows, f) \in [Region -> Int]
         /\ \A r \in Region, text \in Int :
              [f EXCEPT ![r] = text] \in [Region -> Int] /\ TtyPrint(r, text, f) \in [Region -> Int]
         /\ [q \in Pop |-> f[q]] \in [Pop -> Int]
         /\ \A r \in Region \ Pop : Covered(f)[r] = f[r]
<1>1. MovedUp(f) \in [Region -> Int]
  BY Rowing DEF MovedUp
<1>2. /\ Covered(f) \in [Region -> Int]
      /\ \A under \in [Pop -> Int] : Shown(f, under) \in [Region -> Int]
      /\ [q \in Pop |-> f[q]] \in [Pop -> Int]
  BY Rowing DEF Covered, Shown, PopText
<1>3. /\ \A rows : TtyPrintRegion(rows, f) \in [Region -> Int]
      /\ \A r \in Region, text \in Int :
           [f EXCEPT ![r] = text] \in [Region -> Int] /\ TtyPrint(r, text, f) \in [Region -> Int]
  BY DEF TtyPrintRegion, TtyPrint
<1>4. \A r \in Region \ Pop : Covered(f)[r] = f[r]
  BY DEF Covered
<1>5. Blank \in [Region -> Int]
  BY DEF Blank
<1>6. QED
  BY <1>1, <1>2, <1>3, <1>4, <1>5

LEMMA HeldSame ==
  ASSUME Held, UNCHANGED <<settings, area, saved>>
  PROVE  Held'
  BY DEF Held, AreaTypes, TerminalAsBuffered, area, saved, serial_cons

(* The terminal is sent what lies under it, or all of the region. *)
LEMMA Sent ==
  ASSUME Held, UNCHANGED settings, NEW buffer \in [Region -> Int], NEW rows,
         \A r \in Region \ rows : buffer[r] = scrnBuf[r] \/ r = Rows
  PROVE  serial_cons => \A r \in Region \ {Rows} : TtyPrintRegion(rows, buffer)[r] = buffer[r]
<1>1. SUFFICES ASSUME serial_cons, NEW r \in Region \ {Rows}
               PROVE  TtyPrintRegion(rows, buffer)[r] = buffer[r]
  OBVIOUS
<1>2. TtyPrintRegion(rows, buffer)[r] = IF r \in rows THEN buffer[r] ELSE tty[r]
  BY <1>1 DEF TtyPrintRegion
<1>3. tty[r] = scrnBuf[r]
  BY <1>1 DEF Held, TerminalAsBuffered
<1>4. QED
  BY <1>1, <1>2, <1>3

LEMMA PopupsHeld ==
  ASSUME Held, UNCHANGED settings, Popup \/ Popdown \/ Pop2up \/ Pop2down
  PROVE  Held'
<1>1. /\ scrnBuf' \in [Region -> Int] /\ screen' \in [Region -> Int]
      /\ \A r \in Region \ Pop : scrnBuf'[r] = scrnBuf[r]
      /\ save' \in [Pop -> Int] /\ save2' \in [Pop -> Int] /\ log' = log
  <2>1. AreaTypes
    BY DEF Held
  <2>2. [r \in Pop |-> screen[r]] \in [Pop -> Int]
    BY <2>1, Rowing DEF AreaTypes
  <2>3. CASE Popup
    <3>1. save' = [r \in Pop |-> screen[r]] /\ UNCHANGED <<save2, log>>
          /\ screen' = Covered(screen) /\ scrnBuf' = Covered(scrnBuf)
      BY <2>3 DEF Popup
    <3>2. QED
      BY <2>1, <2>2, <3>1, Functions DEF AreaTypes
  <2>4. CASE Pop2up
    <3>1. save2' = [r \in Pop |-> screen[r]] /\ UNCHANGED <<save, log>>
          /\ screen' = Covered(screen) /\ scrnBuf' = Covered(scrnBuf)
      BY <2>4 DEF Pop2up
    <3>2. QED
      BY <2>1, <2>2, <3>1, Functions DEF AreaTypes
  <2>5. CASE Popdown
    <3>1. UNCHANGED <<save, save2, log>>
          /\ screen' = Shown(screen, save) /\ scrnBuf' = Shown(scrnBuf, save)
      BY <2>5 DEF Popdown, saved
    <3>2. /\ screen \in [Region -> Int] /\ scrnBuf \in [Region -> Int] /\ tty \in [Region -> Int]
          /\ save \in [Pop -> Int] /\ save2 \in [Pop -> Int]
      BY <2>1 DEF AreaTypes
    <3>3. Shown(screen, save) \in [Region -> Int] /\ Shown(scrnBuf, save) \in [Region -> Int]
      BY <3>2, Functions
    <3>4. \A r \in Region \ Pop : Shown(scrnBuf, save)[r] = scrnBuf[r]
      BY DEF Shown
    <3>5. QED
      BY <3>1, <3>2, <3>3, <3>4
  <2>6. CASE Pop2down
    <3>1. UNCHANGED <<save, save2, log>>
          /\ screen' = Shown(screen, save2) /\ scrnBuf' = Shown(scrnBuf, save2)
      BY <2>6 DEF Pop2down, saved
    <3>2. /\ screen \in [Region -> Int] /\ scrnBuf \in [Region -> Int] /\ tty \in [Region -> Int]
          /\ save \in [Pop -> Int] /\ save2 \in [Pop -> Int]
      BY <2>1 DEF AreaTypes
    <3>3. Shown(screen, save2) \in [Region -> Int] /\ Shown(scrnBuf, save2) \in [Region -> Int]
      BY <3>2, Functions
    <3>4. \A r \in Region \ Pop : Shown(scrnBuf, save2)[r] = scrnBuf[r]
      BY DEF Shown
    <3>5. QED
      BY <3>1, <3>2, <3>3, <3>4
  <2>7. QED
    BY <2>3, <2>4, <2>5, <2>6
<1>2. tty' = TtyPrintRegion(Pop, scrnBuf')
  BY DEF Popup, Popdown, Pop2up, Pop2down
<1>3. TerminalAsBuffered'
  BY <1>1, <1>2, Sent DEF TerminalAsBuffered, serial_cons
<1>4. AreaTypes'
  <2>1. tty' \in [Region -> Int]
    BY <1>1, <1>2, Functions DEF Held, AreaTypes
  <2>2. QED
    BY <1>1, <2>1 DEF Held, AreaTypes
<1>5. QED
  BY <1>3, <1>4 DEF Held

LEMMA RefreshHeld ==
  ASSUME Held, UNCHANGED <<settings, screen, scrnBuf, log, saved>>,
         tty' = TtyPrintRegion(Region, scrnBuf)
  PROVE  Held'
<1>1. tty' \in [Region -> Int]
  BY Functions DEF Held, AreaTypes
<1>2. serial_cons => \A r \in Region \ {Rows} : tty'[r] = scrnBuf[r]
  BY Sent DEF Held, AreaTypes
<1>3. QED
  BY <1>1, <1>2 DEF Held, AreaTypes, TerminalAsBuffered, serial_cons, saved

LEMMA ClearedHeld ==
  ASSUME Held, UNCHANGED <<settings, saved>>, DisplayInit
  PROVE  Held' /\ screen' = log'
<1>1. Blank \in [Region -> Int]
  BY DEF Blank
<1>2. screen' = Blank /\ scrnBuf' = Blank /\ tty' = Blank /\ log' = Blank
  BY DEF DisplayInit
<1>3. QED
  BY <1>1, <1>2 DEF Held, AreaTypes, TerminalAsBuffered, serial_cons, saved

(* A line is printed where the region is as it was printed. *)
LEMMA PrintHeld ==
  ASSUME Held, UNCHANGED <<settings, saved>>, NEW frame, NEW row \in Region,
         NEW scr \in [Region -> Int], NEW buffer \in [Region -> Int], NEW term \in [Region -> Int],
         serial_cons => \A r \in Region \ {Rows} : term[r] = buffer[r],
         NEW printed, printed = scr, PrintLine(frame, row, scr, buffer, term, printed)
  PROVE  Held' /\ screen' = log'
<1>1. save' \in [Pop -> Int] /\ save2' \in [Pop -> Int]
  BY DEF Held, AreaTypes, saved
<1>2. CASE frame.at = "print"
  <2>1. PICK text \in Texts : Cprint(row, text, scr, buffer, term)
                              /\ log' = [scr EXCEPT ![row] = text]
    BY <1>2 DEF PrintLine
  <2>2. text \in Int
    BY DEF Texts
  <2>3. /\ screen' = [scr EXCEPT ![row] = text] /\ scrnBuf' = [buffer EXCEPT ![row] = text]
        /\ tty' = IF buffer[row] # text /\ serial_cons THEN [term EXCEPT ![row] = text] ELSE term
    BY <2>1 DEF Cprint, TtyPrint
  <2>4. /\ screen' \in [Region -> Int] /\ scrnBuf' \in [Region -> Int]
        /\ tty' \in [Region -> Int] /\ log' = screen'
    BY <2>1, <2>2, <2>3
  <2>5. serial_cons => \A r \in Region \ {Rows} : tty'[r] = scrnBuf'[r]
    BY <2>2, <2>3
  <2>6. QED
    BY <1>1, <2>4, <2>5 DEF Held, AreaTypes, TerminalAsBuffered, serial_cons
<1>3. CASE frame.at # "print"
  <2>1. screen' = scr /\ scrnBuf' = buffer /\ tty' = term /\ log' = scr
    BY <1>3 DEF PrintLine
  <2>2. QED
    BY <1>1, <2>1 DEF Held, AreaTypes, TerminalAsBuffered, serial_cons
<1>4. QED
  BY <1>2, <1>3

-----------------------------------------------------------------------------
(* The steps.                                                                  *)

(* What is in progress changes, the region does not. *)
LEMMA QuietStep ==
  ASSUME Inv, UNCHANGED <<settings, area, saved>>, msgLine' \in 0 .. Rows,
         Nested(stack'), MenuIn(stack') <=> MenuIn(stack)
  PROVE  Inv'
<1>1. Held'
  BY HeldSame DEF Inv
<1>2. UNCHANGED <<screen, log, save>>
  BY DEF area, saved
<1>3. Restorable'
  BY <1>2 DEF Inv, Restorable
<1>4. QED
  BY <1>1, <1>3 DEF Inv

(* The region changes, and no menu is open. *)
LEMMA PrintedStep ==
  ASSUME Held', screen' = log', msgLine' \in 0 .. Rows, Nested(stack'), ~MenuIn(stack')
  PROVE  Inv'
  BY DEF Inv, Restorable

(* The start of the program *)
LEMMA StartNested == Nested(<<At("tests")>>) /\ ~MenuIn(<<At("tests")>>)
<1>1. /\ At("tests") \in Frame /\ At("tests").at = "tests"
      /\ At("halted") \in Frame /\ At("halted").at = "halted"
  BY Frames
<1>2. QED
  BY <1>1 DEF Nested, MenuIn, Outermost, OverMenu

LEMMA HaltNested == Nested(<<At("halted")>>) /\ ~MenuIn(<<At("halted")>>)
<1>1. At("halted") \in Frame /\ At("halted").at = "halted"
  BY Frames
<1>2. QED
  BY <1>1 DEF Nested, MenuIn, Outermost, OverMenu

LEMMA StartAgainStep ==
  ASSUME Inv, StartAgain
  PROVE  Inv'
<1>1. /\ UNCHANGED <<settings, saved>> /\ DisplayInit
      /\ stack' = <<At("tests")>> /\ msgLine' = 0
  BY DEF StartAgain, config
<1>2. QED
  BY <1>1, ClearedHeld, PrintedStep, StartNested, ConsoleAssumption DEF Inv

(* A menu is opened over what was printed. *)
LEMMA OpenStep ==
  ASSUME Inv, NEW s, Nested(s), ~MenuIn(s), ~MenuIn(stack), Popup,
         UNCHANGED <<settings, msgLine>>,
         stack' = AfterKeyup(Call(s, At("menu")))
  PROVE  Inv'
<1>1. Held'
  BY PopupsHeld DEF Inv
<1>2. At("menu") \in Frame /\ At("menu").at = "menu" /\ At("keyup") \in Frame /\ At("keyup").at = "keyup"
  BY Frames
<1>3. Nested(Append(s, At("menu"))) /\ MenuIn(Append(s, At("menu")))
  BY <1>2, PushNested
<1>4. Nested(stack') /\ MenuIn(stack')
  BY <1>2, <1>3, PushNested DEF AfterKeyup, Call, OverMenu
<1>5. screen = log
  BY DEF Inv, Restorable
<1>6. /\ \A r \in Pop : save'[r] = screen[r]
      /\ \A r \in Region \ Pop : screen'[r] = screen[r]
      /\ log' = log
  BY DEF Popup, Covered
<1>7. Restorable'
  BY <1>4, <1>5, <1>6 DEF Restorable
<1>8. QED
  BY <1>1, <1>4, <1>7 DEF Inv

(* A key that is read in the middle of something *)
LEMMA InputStep ==
  ASSUME Inv, NEW code, NEW s, Nested(s), ~MenuIn(s), ~MenuIn(stack), CheckInput(code, s)
  PROVE  Inv'
<1>1. CASE code.key = "ESC"
  BY <1>1, StartAgainStep DEF CheckInput
<1>2. CASE code.key = "c"
  <2>1. /\ Popup /\ UNCHANGED <<settings, msgLine>>
        /\ stack' = AfterKeyup(Call(s, At("menu")))
    BY <1>2 DEF CheckInput, config, modes
  <2>2. QED
    BY <2>1, OpenStep
<1>3. CASE code.key = "L"
  <2>1. /\ UNCHANGED <<settings, screen, scrnBuf, log, saved, msgLine>> /\ stack' = s
        /\ tty' = TtyPrintRegion(Region, scrnBuf)
    BY <1>3 DEF CheckInput, config, modes
  <2>2. Held'
    BY <2>1, RefreshHeld DEF Inv
  <2>3. screen' = log'
    BY <2>1 DEF Inv, Restorable
  <2>4. QED
    BY <2>1, <2>2, <2>3, PrintedStep DEF Inv
<1>4. CASE code.key \notin {"ESC", "c", "L"}
  <2>1. /\ UNCHANGED <<settings, area, saved, msgLine>> /\ stack' = s
    BY <1>4 DEF CheckInput, config, modes
  <2>2. QED
    BY <2>1, QuietStep DEF Inv
<1>5. QED
  BY <1>1, <1>2, <1>3, <1>4

(* What the stack is like under the call that is innermost *)
LEMMA Inner ==
  ASSUME Inv
  PROVE  /\ Nested(stack) /\ stack \in Seq(Frame) /\ Top \in Frame
         /\ Top.at \notin OverMenu \cup {"menu"} => ~MenuIn(stack)
         /\ Top.at = "menu" => MenuIn(stack)
         /\ Top.at = "page" => MenuIn(stack)
         /\ Top.at \notin Outermost =>
              Nested(Below) /\ (MenuIn(Below) <=> MenuIn(stack) /\ Top.at # "menu")
<1>1. Nested(stack) /\ stack \in Seq(Frame)
  BY DEF Inv, Nested
<1>2. QED
  BY <1>1, TopOfStack, PopNested DEF Top, Below

LEMMA WaitKeyupStep ==
  ASSUME Inv, WaitKeyup
  PROVE  Inv'
<1>1. /\ Top.at = "keyup" /\ stack' \in {stack, Below}
      /\ UNCHANGED <<settings, area, saved, msgLine>>
  BY DEF WaitKeyup, config, modes
<1>2. Nested(stack') /\ (MenuIn(stack') <=> MenuIn(stack))
  BY <1>1, Inner DEF Outermost
<1>3. QED
  BY <1>1, <1>2, QuietStep DEF Inv

LEMMA TickStep ==
  ASSUME Inv, Tick
  PROVE  Inv'
<1>1. Top.at \notin OverMenu \cup {"menu"} /\ \E code \in Code : CheckInput(code, stack)
  BY DEF Tick, OverMenu
<1>2. QED
  BY <1>1, Inner, InputStep

LEMMA PollStep ==
  ASSUME Inv, Poll
  PROVE  Inv'
<1>1. Top.at = "poll"
  BY DEF Poll
<1>2. ~MenuIn(stack) /\ Nested(Below) /\ ~MenuIn(Below)
  BY <1>1, Inner DEF OverMenu, Outermost
<1>3. CASE \E code \in Code : CheckInput(code, Below)
  BY <1>2, <1>3, InputStep
<1>4. CASE stack' = Below /\ UNCHANGED <<settings, area, saved, msgLine>>
  BY <1>2, <1>4, QuietStep DEF Inv
<1>5. QED
  BY <1>3, <1>4 DEF Poll, config, modes

(* A report is made, and will print on n lines. *)
LEMMA ReportNested ==
  ASSUME NEW s, Nested(s), ~MenuIn(s), NEW n \in Nat, NEW name \in {"print", "scroll"}
  PROVE  LET t == s \o <<Lines(name, n), At("poll")>>
         IN  Nested(t) /\ ~MenuIn(t)
<1>1. /\ Lines(name, n) \in Frame /\ Lines(name, n).at = name
      /\ At("poll") \in Frame /\ At("poll").at = "poll" /\ s \in Seq(Frame)
  BY Frames DEF Nested
<1>2. Nested(Append(s, Lines(name, n))) /\ ~MenuIn(Append(s, Lines(name, n)))
  BY <1>1, PushNested
<1>3. /\ Nested(Append(Append(s, Lines(name, n)), At("poll")))
      /\ ~MenuIn(Append(Append(s, Lines(name, n)), At("poll")))
  BY <1>1, <1>2, PushNested
<1>4. QED
  BY <1>1, <1>3, Calls

LEMMA ReportStep ==
  ASSUME Inv, Report
  PROVE  Inv'
<1>1. /\ Top.at = "tests" /\ UNCHANGED <<settings, saved, msgLine>>
  BY DEF Report, config, modes
<1>2. Nested(stack) /\ ~MenuIn(stack) /\ screen = log
  BY <1>1, Inner DEF OverMenu, Inv, Restorable
<1>3. Nested(stack') /\ ~MenuIn(stack')
  <2>1. CASE stack' = stack
    BY <1>2, <2>1
  <2>2. CASE stack' = stack \o <<Lines("scroll", 1), At("poll")>>
    BY <1>2, <2>2, ReportNested
  <2>3. CASE \E n \in 1 .. MaxLines - lines : stack' = stack \o <<Lines("print", n), At("poll")>>
    <3>1. PICK n \in 1 .. MaxLines - lines : stack' = stack \o <<Lines("print", n), At("poll")>>
      BY <2>3
    <3>2. n \in Nat
      BY <3>1
    <3>3. QED
      BY <1>2, <3>1, <3>2, ReportNested
  <2>4. QED
    BY <2>1, <2>2, <2>3 DEF Report
<1>4. Held' /\ screen' = log'
  <2>1. CASE UNCHANGED area
    BY <1>1, <1>2, <2>1, HeldSame DEF Inv, area
  <2>2. CASE screen' = Blank /\ log' = Blank /\ UNCHANGED <<scrnBuf, tty>>
    <3>1. Blank \in [Region -> Int]
      BY DEF Blank
    <3>2. QED
      BY <1>1, <2>2, <3>1 DEF Inv, Held, AreaTypes, TerminalAsBuffered, serial_cons, saved
  <2>3. QED
    BY <2>1, <2>2 DEF Report, ClearScroll
<1>5. QED
  BY <1>1, <1>3, <1>4, PrintedStep DEF Inv

(* A line that waits for the scroll lock is printed when it is off. *)
LEMMA UnderLocked ==
  ASSUME NEW s, Nested(s), Last(s).at = "locked"
  PROVE  Last(Front(s)).at \in Printing
<1>1. /\ s \in Seq(Frame) /\ Len(s) \in Nat /\ Len(s) > 0 /\ Last(s) = s[Len(s)]
      /\ Len(s) \in 1 .. Len(s)
  BY TopOfStack DEF Nested
<1>2. Len(s) > 1 /\ s[Len(s) - 1].at \in Printing
  BY <1>1 DEF Nested
<1>3. Last(Front(s)) = s[Len(s) - 1]
  BY <1>1, <1>2 DEF Front, Last
<1>4. QED
  BY <1>2, <1>3

LEMMA MoveUpStep ==
  ASSUME Inv, NEW s, Nested(s), ~MenuIn(s), ~MenuIn(stack), Last(s).at \in Printing, MoveUp(s)
  PROVE  Inv'
<1> DEFINE buffer == MovedUp(scrnBuf)
           term == TtyPrintRegion(1 .. Rows - 1, buffer)
<1>1. /\ PrintLine(Last(s), msgLine, MovedUp(screen), buffer, term, MovedUp(log))
      /\ stack' = OneLess(s) /\ UNCHANGED <<settings, saved, msgLine>>
  BY DEF MoveUp, config, modes
<1>2. screen = log /\ msgLine \in Region /\ AreaTypes /\ Held
  BY Rowing DEF Inv, Restorable, Held
<1>3. /\ MovedUp(screen) \in [Region -> Int] /\ MovedUp(scrnBuf) \in [Region -> Int]
      /\ MovedUp(screen) = MovedUp(log)
  BY <1>2, Functions DEF AreaTypes
<1>4. /\ buffer \in [Region -> Int] /\ term \in [Region -> Int]
  BY <1>2, <1>3, Functions DEF AreaTypes
<1>5. \A r \in Region \ (1 .. Rows - 1) : buffer[r] = scrnBuf[r] \/ r = Rows
  BY Rowing DEF MovedUp
<1>6. serial_cons => \A r \in Region \ {Rows} : term[r] = buffer[r]
  BY <1>1, <1>2, <1>4, <1>5, Sent
<1> HIDE DEF buffer, term
<1>7. Held' /\ screen' = log'
  BY <1>1, <1>2, <1>3, <1>4, <1>6, PrintHeld
<1>8. Nested(stack') /\ ~MenuIn(stack')
  BY <1>1, OneLessNested DEF Printing
<1>9. QED
  BY <1>1, <1>2, <1>7, <1>8, PrintedStep DEF Inv

LEMMA ScrollStep ==
  ASSUME Inv, Scroll
  PROVE  Inv'
<1>1. Top.at \in Printing
  BY DEF Scroll, Printing
<1>2. /\ Nested(stack) /\ ~MenuIn(stack) /\ Last(stack).at \in Printing
      /\ screen = log /\ Held /\ AreaTypes
  BY <1>1, Inner DEF Inv, Restorable, Held, Printing, OverMenu, Top
<1>3. CASE AtBottom /\ ~slock /\ MoveUp(stack)
  BY <1>2, <1>3, MoveUpStep DEF AtBottom
<1>4. CASE /\ stack' = Call(stack, At("locked"))
           /\ UNCHANGED <<config, input, modes, area, saved, typed, lines>>
  <2>1. At("locked") \in Frame /\ At("locked").at = "locked"
    BY Frames
  <2>2. Nested(stack') /\ ~MenuIn(stack')
    BY <1>2, <1>4, <2>1, PushNested DEF Call
  <2>3. QED
    BY <1>2, <1>4, <2>2, QuietStep DEF Inv, config, modes
<1>5. CASE /\ ~AtBottom /\ msgLine' = msgLine + 1
           /\ PrintLine(Top, msgLine + 1, screen, scrnBuf, tty, log)
           /\ stack' = OneLess(stack)
           /\ UNCHANGED <<config, input, slock, printmode, hdrFlag, saved, typed, lines>>
  <2>1. msgLine' \in 0 .. Rows /\ msgLine + 1 \in Region
    BY <1>5, Rowing DEF Inv, AtBottom
  <2>2. /\ UNCHANGED <<settings, saved>> /\ screen \in [Region -> Int]
        /\ scrnBuf \in [Region -> Int] /\ tty \in [Region -> Int]
    BY <1>2, <1>5 DEF config, AreaTypes
  <2>3. serial_cons => \A r \in Region \ {Rows} : tty[r] = scrnBuf[r]
    BY <1>2 DEF Held, TerminalAsBuffered
  <2>4. Held' /\ screen' = log'
    BY <1>2, <1>5, <2>1, <2>2, <2>3, PrintHeld
  <2>5. Nested(stack') /\ ~MenuIn(stack')
    BY <1>2, <1>5, OneLessNested DEF Printing
  <2>6. QED
    BY <2>1, <2>4, <2>5, PrintedStep
<1>6. QED
  BY <1>3, <1>4, <1>5 DEF Scroll

LEMMA ScrollWaitStep ==
  ASSUME Inv, ScrollWait
  PROVE  Inv'
<1>1. Top.at = "locked"
  BY DEF ScrollWait
<1>2. /\ Nested(stack) /\ ~MenuIn(stack) /\ Nested(Below) /\ ~MenuIn(Below)
      /\ Last(Below).at \in Printing
  BY <1>1, Inner, UnderLocked DEF OverMenu, Outermost, Top, Below
<1>3. CASE \E code \in Code : CheckInput(code, stack)
  BY <1>2, <1>3, InputStep
<1>4. CASE MoveUp(Below)
  BY <1>2, <1>4, MoveUpStep
<1>5. QED
  BY <1>3, <1>4 DEF ScrollWait

LEMMA InterStep ==
  ASSUME Inv, Inter
  PROVE  Inv'
<1>1. /\ stack' = <<At("halted")>> /\ UNCHANGED <<settings, saved, msgLine>>
      /\ screen' = [r \in Region |-> TrapText] /\ scrnBuf' = screen' /\ log' = screen'
      /\ tty' = TtyPrintRegion(Region, scrnBuf')
  BY DEF Inter, config, modes
<1>2. scrnBuf' \in [Region -> Int]
  BY <1>1 DEF TrapText
<1>3. tty' \in [Region -> Int]
  BY <1>1, <1>2, Functions DEF Inv, Held, AreaTypes
<1>4. TerminalAsBuffered'
  BY <1>1, <1>2, Sent DEF Inv, TerminalAsBuffered, serial_cons
<1>5. Held' /\ screen' = log'
  BY <1>1, <1>2, <1>3, <1>4 DEF Inv, Held, AreaTypes, saved
<1>6. QED
  BY <1>1, <1>5, HaltNested, PrintedStep DEF Inv

(* The menu is left: what was printed is shown again. *)
LEMMA LeaveMenuStep ==
  ASSUME Inv, NEW refresh \in BOOLEAN, Top.at = "menu", LeaveMenu(refresh)
  PROVE  Inv'
<1>1. /\ Popdown /\ UNCHANGED <<settings, msgLine>>
  BY DEF LeaveMenu, config, modes
<1>2. MenuIn(stack) /\ Nested(Below) /\ ~MenuIn(Below)
  BY Inner DEF Outermost
<1>3. Held'
  BY <1>1, PopupsHeld DEF Inv
<1>4. screen' = log'
  <2>1. /\ screen \in [Region -> Int] /\ log \in [Region -> Int]
        /\ \A r \in Pop : save[r] = log[r]
        /\ \A r \in Region \ Pop : screen[r] = log[r]
    BY <1>2 DEF Inv, Restorable, Held, AreaTypes
  <2>2. screen' = [r \in Region |-> IF r \in Pop THEN save[r] ELSE screen[r]] /\ log' = log
    BY <1>1 DEF Popdown, Shown
  <2>3. \A r \in Region : screen'[r] = log[r]
    BY <2>1, <2>2
  <2>4. QED
    BY <2>1, <2>2, <2>3
<1>5. Nested(stack') /\ ~MenuIn(stack')
  <2>1. PICK n \in IF Top.prt THEN 0 .. MaxLines - lines ELSE {0} :
          stack' = Below \o (IF refresh THEN <<At("redraw")>> ELSE <<>>)
                         \o (IF n > 0 THEN <<Lines("print", n)>> ELSE <<>>)
                         \o (IF Top.prt THEN <<At("poll")>> ELSE <<>>)
    BY DEF LeaveMenu
  <2>2. n \in Nat
    BY <2>1
  <2>3. /\ At("redraw") \in Frame /\ At("redraw").at = "redraw"
        /\ At("poll") \in Frame /\ At("poll").at = "poll"
        /\ Lines("print", n) \in Frame /\ Lines("print", n).at = "print"
    BY <2>2, Frames
  <2> DEFINE s1 == Below \o (IF refresh THEN <<At("redraw")>> ELSE <<>>)
             s2 == s1 \o (IF n > 0 THEN <<Lines("print", n)>> ELSE <<>>)
             s3 == s2 \o (IF Top.prt THEN <<At("poll")>> ELSE <<>>)
  <2>4. Nested(s1) /\ ~MenuIn(s1)
    <3>1. s1 = Below \/ s1 = Append(Below, At("redraw"))
      BY <1>2, <2>3, Calls DEF Nested
    <3>2. Nested(Append(Below, At("redraw"))) /\ ~MenuIn(Append(Below, At("redraw")))
      BY <1>2, <2>3, PushNested
    <3>3. QED
      BY <1>2, <2>3, <3>1, <3>2
  <2> HIDE DEF s1
  <2>5. Nested(s2) /\ ~MenuIn(s2)
    <3>1. s2 = s1 \/ s2 = Append(s1, Lines("print", n))
      BY <2>3, <2>4, Calls DEF Nested
    <3>2. Nested(Append(s1, Lines("print", n))) /\ ~MenuIn(Append(s1, Lines("print", n)))
      BY <2>3, <2>4, PushNested
    <3>3. QED
      BY <2>3, <2>4, <3>1, <3>2
  <2> HIDE DEF s2
  <2>6. Nested(s3) /\ ~MenuIn(s3)
    <3>1. s3 = s2 \/ s3 = Append(s2, At("poll"))
      BY <2>3, <2>5, Calls DEF Nested
    <3>2. Nested(Append(s2, At("poll"))) /\ ~MenuIn(Append(s2, At("poll")))
      BY <2>3, <2>5, PushNested
    <3>3. QED
      BY <2>3, <2>5, <3>1, <3>2
  <2>7. stack' = s3
    BY <2>1 DEF s1, s2
  <2>8. QED
    BY <2>6, <2>7
<1>6. QED
  BY <1>1, <1>3, <1>4, <1>5, PrintedStep DEF Inv

(* Pages over the menu *)
LEMMA ShowPagesStep ==
  ASSUME Inv, Top.at = "menu", ShowPages
  PROVE  Inv'
<1>1. /\ Pop2up /\ UNCHANGED <<settings, msgLine>>
  BY DEF ShowPages, config, modes
<1>2. PICK n \in 1 .. 2 : stack' = AfterKeyup(Call(stack, Lines("page", n)))
  BY DEF ShowPages
<1>3. /\ Lines("page", n) \in Frame /\ Lines("page", n).at = "page"
      /\ At("keyup") \in Frame /\ At("keyup").at = "keyup"
  BY <1>2, Frames
<1>4. Nested(stack) /\ MenuIn(stack)
  BY Inner
<1>5. Nested(Append(stack, Lines("page", n))) /\ MenuIn(Append(stack, Lines("page", n)))
  BY <1>3, <1>4, PushNested DEF OverMenu
<1>6. Nested(stack') /\ MenuIn(stack')
  BY <1>2, <1>3, <1>5, PushNested DEF OverMenu, AfterKeyup, Call
<1>7. Held'
  BY <1>1, PopupsHeld DEF Inv
<1>8. /\ UNCHANGED <<save, log>> /\ \A r \in Region \ Pop : screen'[r] = screen[r]
  BY <1>1 DEF Pop2up, Covered
<1>9. Restorable'
  BY <1>4, <1>6, <1>8 DEF Inv, Restorable
<1>10. QED
  BY <1>1, <1>6, <1>7, <1>9 DEF Inv

(* A call over the menu, or in the place of one *)
LEMMA CallStep ==
  ASSUME Inv, NEW s, Nested(s), MenuIn(s) <=> MenuIn(stack), NEW frame \in Frame,
         frame.at \in {"sub", "getval", "restart"},
         UNCHANGED <<settings, area, saved, msgLine>>,
         stack' = AfterKeyup(Call(s, frame))
  PROVE  Inv'
<1>1. At("keyup") \in Frame /\ At("keyup").at = "keyup"
  BY Frames
<1>2. Nested(Append(s, frame)) /\ (MenuIn(Append(s, frame)) <=> MenuIn(s))
  BY PushNested DEF OverMenu
<1>3. Nested(stack') /\ (MenuIn(stack') <=> MenuIn(stack))
  BY <1>1, <1>2, PushNested DEF OverMenu, AfterKeyup, Call
<1>4. QED
  BY <1>3, QuietStep DEF Inv

LEMMA GetConfigStep ==
  ASSUME Inv, GetConfig
  PROVE  Inv'
<1>1. Top.at = "menu" /\ Nested(stack)
  BY Inner DEF GetConfig
<1>2. CASE \E refresh \in BOOLEAN : LeaveMenu(refresh)
  BY <1>1, <1>2, LeaveMenuStep
<1>3. CASE ShowPages
  BY <1>1, <1>3, ShowPagesStep
<1>4. CASE \E menu \in SubMenus :
             /\ stack' = AfterKeyup(Call(stack, [At("sub") EXCEPT !.menu = menu]))
             /\ Unchanged
  <2>1. PICK menu \in SubMenus :
          stack' = AfterKeyup(Call(stack, [At("sub") EXCEPT !.menu = menu])) /\ Unchanged
    BY <1>4
  <2>2. [At("sub") EXCEPT !.menu = menu] \in Frame /\ [At("sub") EXCEPT !.menu = menu].at = "sub"
    BY <2>1, Frames
  <2>3. UNCHANGED <<settings, area, saved, msgLine>>
    BY <2>1 DEF Unchanged, config, modes
  <2>4. QED
    BY <1>1, <2>1, <2>2, <2>3, CallStep
<1>5. CASE stack' = AfterKeyup(Call(stack, At("restart"))) /\ Unchanged
  <2>1. At("restart") \in Frame /\ At("restart").at = "restart"
    BY Frames
  <2>2. UNCHANGED <<settings, area, saved, msgLine>>
    BY <1>5 DEF Unchanged, config, modes
  <2>3. QED
    BY <1>1, <1>5, <2>1, <2>2, CallStep
<1>6. CASE UNCHANGED stack /\ Unchanged
  <2>1. UNCHANGED <<settings, area, saved, msgLine>>
    BY <1>6 DEF Unchanged, config, modes
  <2>2. QED
    BY <1>1, <1>6, <2>1, QuietStep DEF Inv
<1>7. QED
  BY <1>2, <1>3, <1>4, <1>5, <1>6 DEF GetConfig

LEMMA SubMenuStep ==
  ASSUME Inv, SubMenu
  PROVE  Inv'
<1>1. Top.at = "sub"
  BY DEF SubMenu
<1>2. Nested(stack) /\ Nested(Below) /\ (MenuIn(Below) <=> MenuIn(stack))
  BY <1>1, Inner DEF Outermost
<1>3. UNCHANGED <<settings, area, saved>>
  BY DEF SubMenu, Unchanged, config
<1>4. CASE \E shift \in {0, 12} :
             /\ stack' = AfterKeyup(Call(Below, [At("getval") EXCEPT !.shift = shift]))
             /\ UNCHANGED msgLine
  <2>1. PICK shift \in {0, 12} :
          /\ stack' = AfterKeyup(Call(Below, [At("getval") EXCEPT !.shift = shift]))
          /\ UNCHANGED msgLine
    BY <1>4
  <2>2. /\ [At("getval") EXCEPT !.shift = shift] \in Frame
        /\ [At("getval") EXCEPT !.shift = shift].at = "getval"
    BY <2>1, Frames
  <2>3. QED
    BY <1>2, <1>3, <2>1, <2>2, CallStep
<1>5. CASE stack' = AfterKeyup(Call(stack, At("restart"))) /\ UNCHANGED msgLine
  <2>1. At("restart") \in Frame /\ At("restart").at = "restart"
    BY Frames
  <2>2. QED
    BY <1>2, <1>3, <1>5, <2>1, CallStep
<1>6. CASE /\ stack' \in {stack, Below, [Below EXCEPT ![Len(Below)].prt = TRUE]}
           /\ msgLine' \in {0, msgLine}
  <2>1. Nested(stack') /\ (MenuIn(stack') <=> MenuIn(stack))
    <3>1. CASE stack' \in {stack, Below}
      BY <1>2, <3>1
    <3>2. CASE stack' = [Below EXCEPT ![Len(Below)].prt = TRUE]
      <4> DEFINE f == [Below[Len(Below)] EXCEPT !.prt = TRUE]
      <4>1. /\ Below \in Seq(Frame) /\ Len(Below) \in Nat /\ Len(Below) > 0
            /\ Below[Len(Below)] \in Frame
        BY <1>2 DEF Nested
      <4>2. f \in Frame /\ f.at = Below[Len(Below)].at
        BY <4>1, FrameChanged
      <4>3. stack' = [Below EXCEPT ![Len(Below)] = f]
        BY <3>2, <4>1
      <4> HIDE DEF f
      <4>4. /\ stack' \in Seq(Frame) /\ Len(stack') = Len(Below)
            /\ \A i \in 1 .. Len(Below) : stack'[i].at = Below[i].at
        BY <4>1, <4>2, <4>3
      <4>5. QED
        BY <1>2, <4>4, SameNested
    <3>3. QED
      BY <1>6, <3>1, <3>2
  <2>2. msgLine' \in 0 .. Rows
    BY <1>6, Rowing DEF Inv
  <2>3. QED
    BY <1>3, <2>1, <2>2, QuietStep
<1>7. QED
  <2>1. \A menu, key : SetPrintMode(menu, key) => msgLine' \in {0, msgLine}
    BY DEF SetPrintMode, modes
  <2>2. Unchanged => UNCHANGED msgLine
    BY DEF Unchanged, modes
  <2>3. QED
    BY <1>4, <1>5, <1>6, <2>1, <2>2 DEF SubMenu, modes

LEMMA PageStep ==
  ASSUME Inv, Page
  PROVE  Inv'
<1>1. Top.at = "page" /\ UNCHANGED <<settings, msgLine>>
  BY DEF Page, config, modes
<1>2. Nested(stack) /\ MenuIn(stack) /\ Nested(Below) /\ MenuIn(Below)
  BY <1>1, Inner DEF Outermost
<1>3. CASE stack' = AfterKeyup(OneLess(stack)) /\ UNCHANGED <<area, saved>>
  <2>1. At("keyup") \in Frame /\ At("keyup").at = "keyup"
    BY Frames
  <2>2. Nested(OneLess(stack)) /\ MenuIn(OneLess(stack))
    BY <1>1, <1>2, OneLessNested DEF Top
  <2>3. Nested(stack') /\ MenuIn(stack')
    BY <1>3, <2>1, <2>2, PushNested DEF OverMenu, AfterKeyup, Call
  <2>4. QED
    BY <1>1, <1>2, <1>3, <2>3, QuietStep DEF Inv
<1>4. CASE stack' = Below /\ Pop2down
  <2>1. Held'
    BY <1>1, <1>4, PopupsHeld DEF Inv
  <2>2. /\ UNCHANGED <<save, log>> /\ \A r \in Region \ Pop : screen'[r] = screen[r]
    BY <1>4 DEF Pop2down, Shown, saved
  <2>3. Restorable'
    BY <1>2, <1>4, <2>2 DEF Inv, Restorable
  <2>4. QED
    BY <1>1, <1>2, <1>4, <2>1, <2>3 DEF Inv
<1>5. QED
  BY <1>3, <1>4 DEF Page

LEMMA GetvalStep ==
  ASSUME Inv, Getval
  PROVE  Inv'
<1>1. /\ Top.at = "getval" /\ stack' \in {stack, Below}
      /\ tty' \in {tty, TtyPrintRegion(Region, scrnBuf)}
      /\ UNCHANGED <<settings, msgLine, screen, scrnBuf, log, saved>>
  BY DEF Getval, config, modes, typed
<1>2. Nested(stack') /\ (MenuIn(stack') <=> MenuIn(stack))
  BY <1>1, Inner DEF Outermost
<1>3. Held'
  <2>1. CASE tty' = tty
    BY <1>1, <2>1, HeldSame DEF Inv, area
  <2>2. CASE tty' = TtyPrintRegion(Region, scrnBuf)
    BY <1>1, <2>2, RefreshHeld DEF Inv
  <2>3. QED
    BY <1>1, <2>1, <2>2
<1>4. Restorable'
  BY <1>1, <1>2 DEF Inv, Restorable, saved
<1>5. QED
  BY <1>1, <1>2, <1>3, <1>4 DEF Inv

LEMMA RedrawStep ==
  ASSUME Inv, Redraw
  PROVE  Inv'
<1>1. /\ Top.at = "redraw" /\ stack' = Below /\ tty' = TtyPrintRegion(Region, scrnBuf)
      /\ UNCHANGED <<settings, msgLine, screen, scrnBuf, log, saved>>
  BY DEF Redraw, config, modes
<1>2. Nested(stack') /\ ~MenuIn(stack') /\ screen = log
  BY <1>1, Inner DEF OverMenu, Outermost, Inv, Restorable
<1>3. Held'
  BY <1>1, RefreshHeld DEF Inv
<1>4. QED
  BY <1>1, <1>2, <1>3, PrintedStep DEF Inv

LEMMA AnswerStep ==
  ASSUME Inv, Operator \/ Answer
  PROVE  Inv'
<1>1. UNCHANGED <<settings, area, saved, msgLine, stack>>
  BY DEF Operator, Answer, Press, Release, config, modes
<1>2. QED
  BY <1>1, QuietStep DEF Inv

LEMMA InitInv ==
  ASSUME Init
  PROVE  Inv
<1>1. /\ screen = Blank /\ scrnBuf = Blank /\ tty = Blank /\ log = Blank
      /\ stack = <<At("tests")>> /\ msgLine = 0
      /\ save = [r \in Pop |-> 0] /\ save2 = [r \in Pop |-> 0]
  BY DEF Init
<1>2. Blank \in [Region -> Int]
  BY DEF Blank
<1>3. Held
  BY <1>1, <1>2 DEF Held, AreaTypes, TerminalAsBuffered
<1>4. QED
  BY <1>1, <1>3, StartNested, Rowing DEF Inv, Restorable

LEMMA NextInv ==
  ASSUME Inv, [Next]_vars
  PROVE  Inv'
<1>1. CASE Program
  <2>1. CASE RestartFromMenu
    BY <2>1, StartAgainStep DEF RestartFromMenu
  <2>2. QED
    BY <1>1, <2>1, TickStep, PollStep, ScrollStep, ScrollWaitStep, WaitKeyupStep,
       GetConfigStep, SubMenuStep, PageStep, GetvalStep, RedrawStep DEF Program
<1>2. CASE UNCHANGED vars
  <2>1. UNCHANGED <<settings, area, saved, msgLine, stack>>
    BY <1>2 DEF vars, config, modes
  <2>2. QED
    BY <2>1, QuietStep DEF Inv
<1>3. QED
  BY <1>1, <1>2, ReportStep, InterStep, AnswerStep DEF Next

-----------------------------------------------------------------------------
(* However calls are nested: at most one menu is open, with nothing over it    *)
(* that prints, and under it is what was printed; for any number of rows, any  *)
(* keys and any lines.                                                         *)
THEOREM Invariant == Spec => []Inv
<1>1. Inv /\ [Next]_vars => Inv'
  BY NextInv
<1>2. QED
  BY <1>1, InitInv, PTL DEF Spec

(* When no menu is open, the region shows what was printed there, whatever was *)
(* opened on top of what, and whatever was printed or cleared between.         *)
THEOREM RegionComesBack == Spec => []PopupRestores
<1>1. Inv => PopupRestores
  BY DEF Inv, Restorable, PopupRestores, MenuOpen, MenuIn
<1>2. QED
  BY <1>1, Invariant, PTL

(* A serial terminal shows what the program believes it does, except for the   *)
(* last row.                                                                   *)
THEOREM TerminalTrue == Spec => []TerminalAsBuffered
<1>1. Inv => TerminalAsBuffered
  BY DEF Inv, Held
<1>2. QED
  BY <1>1, Invariant, PTL

-----------------------------------------------------------------------------
(* What "console=" parameters set                                              *)

(* A set of numbers that is not empty has a least member. *)
LEMMA LeastNat ==
  ASSUME NEW T, T \subseteq Nat, T # {}
  PROVE  \E k \in T : \A j \in T : k <= j
<1> DEFINE R == OpToRel(<, Nat)
<1>1. IsWellFoundedOn(R, Nat)
  BY NatLessThanWellFounded
<1>2. R = {ss \in Nat \X Nat : ss[1] < ss[2]}
  BY DEF OpToRel
<1> HIDE DEF R
<1>3. PICK k \in T : \A j \in T : <<j, k>> \notin R
  BY <1>1, WFMin, Zenon
<1>4. \A j \in T : <<j, k>> \in Nat \X Nat
  OBVIOUS
<1>5. \A j \in T : ~(j < k)
  BY <1>2, <1>3, <1>4
<1>6. QED
  BY <1>5

LEMMA MinOf ==
  ASSUME NEW T, T \subseteq Nat, T # {}
  PROVE  Min(T) \in T
BY LeastNat DEF Min

LEMMA MaxOf ==
  ASSUME NEW T, T \subseteq Int, T # {}, NEW b \in Int, \A x \in T : x <= b
  PROVE  Max(T) \in T /\ \A x \in T : x <= Max(T)
<1> DEFINE D == {b - x : x \in T}
<1>1. D \subseteq Nat /\ D # {}
  <2>1. \A x \in T : b - x \in Nat
    BY SMT
  <2>2. QED
    BY <2>1
<1>2. PICK d \in D : \A e \in D : d <= e
  BY <1>1, LeastNat
<1>3. PICK m \in T : d = b - m
  BY <1>2
<1>4. \A x \in T : m >= x
  <2>1. TAKE x \in T
  <2>2. b - m <= b - x
    BY <1>2, <1>3
  <2>3. m \in Int /\ x \in Int
    BY <1>3
  <2>4. QED
    BY <2>2, <2>3, SMT
<1>5. QED
  BY <1>3, <1>4 DEF Max
(* Induction, as a fact about sets *)
LEMMA Inductive ==
  ASSUME NEW S \in SUBSET Nat, 0 \in S, \A n \in S : n + 1 \in S
  PROVE  S = Nat
<1> SUFFICES ASSUME NEW m \in Nat, m \notin S PROVE FALSE
  OBVIOUS
<1> DEFINE T == {i \in S : i < m}
           f == [i \in T |-> i + 1]
<1>1. IsFiniteSet(T)
  <2>1. IsFiniteSet(0 .. m)
    BY FS_Interval
  <2>2. \A i \in T : i \in 0 .. m
    OBVIOUS
  <2>3. T \in SUBSET (0 .. m)
    BY <2>2
  <2> QED
    BY <2>1, <2>3, FS_Subset
<1>2. IsFiniteSet(T \ {0}) /\ Cardinality(T \ {0}) < Cardinality(T)
  <2>1. 0 \in T
    OBVIOUS
  <2> HIDE DEF T
  <2>2. Cardinality(T) \in Nat
    BY <1>1, FS_CardinalityType
  <2>3. /\ IsFiniteSet(T \ {0})
        /\ Cardinality(T \ {0}) = IF 0 \in T THEN Cardinality(T) - 1 ELSE Cardinality(T)
    BY <1>1, FS_RemoveElement
  <2> QED
    BY <2>1, <2>2, <2>3
<1>3. f \in [T -> T \ {0}]
  <2>1. \A i \in T : i + 1 \in T \ {0}
    OBVIOUS
  <2> QED
    BY <2>1
<1>4. \A x, y \in T : x # y => f[x] # f[y]
  OBVIOUS
<1> HIDE DEF T, f
<1> QED
  BY <1>1, <1>2, <1>3, <1>4, FS_PigeonHole


(* The parameters of a set of places, as AllOrNothing says it of all of them *)
Givers(line, s, field, none) == {i \in s : Right(line[i]) /\ line[i][field] # none}
Given(line, s, field, none, default) ==
  IF Givers(line, s, field, none) = {} THEN default
  ELSE line[Max(Givers(line, s, field, none))][field]
Together(line, s) ==
  [cons |-> \E i \in s : Right(line[i]),
   tty |-> Given(line, s, "tty", -1, Default.tty),
   baud |-> Given(line, s, "baud", -1, Default.baud),
   parity |-> Given(line, s, "parity", "", Default.parity),
   bits |-> Given(line, s, "bits", 0, Default.bits)]

LEMMA MaxUnique ==
  ASSUME NEW T, T \subseteq Int, NEW x \in T, \A y \in T : x >= y
  PROVE  Max(T) = x
<1> DEFINE m == Max(T)
<1>1. m \in T /\ \A y \in T : m >= y
  BY DEF Max
<1> HIDE DEF m
<1>2. m \in Int /\ x \in Int /\ m >= x /\ x >= m
  BY <1>1
<1>3. m = x
  BY <1>2, SMT
<1> QED
  BY <1>3 DEF m

(* The last place decides where its parameter is right and gives the setting; *)
(* otherwise the places before it do.                                          *)
IsLast(x, s) == s \subseteq Int /\ x \in s /\ \A y \in s : y <= x

DecidedBy(x, line, s, field, none, default) ==
  IF Right(line[x]) /\ line[x][field] # none THEN line[x][field]
  ELSE Given(line, s \ {x}, field, none, default)

LEMMA LastDecides ==
  ASSUME NEW line, NEW s, NEW x, IsLast(x, s), NEW field, NEW none, NEW default
  PROVE  Given(line, s, field, none, default) = DecidedBy(x, line, s, field, none, default)
<1> DEFINE T == Givers(line, s, field, none)
<1>1. CASE Right(line[x]) /\ line[x][field] # none
  <2>1. x \in T /\ T \subseteq Int /\ \A y \in T : x >= y
    BY <1>1 DEF Givers, IsLast
  <2> HIDE DEF T
  <2>2. Max(T) = x
    BY <2>1, MaxUnique
  <2> QED
    BY <1>1, <2>1, <2>2 DEF Given, DecidedBy, T
<1>2. CASE ~ (Right(line[x]) /\ line[x][field] # none)
  <2>1. Givers(line, s \ {x}, field, none) = T
    BY <1>2 DEF Givers
  <2> HIDE DEF T
  <2> QED
    BY <1>2, <2>1 DEF Given, DecidedBy, T
<1> QED
  BY <1>1, <1>2

LEMMA WrongOrRight ==
  ASSUME NEW p \in Param
  PROVE  /\ Right(p) \in BOOLEAN /\ Wrong(p) <=> ~ Right(p)
         /\ Right(p) => p.tty # -1
<1> DEFINE b == p.baud
<1>1. p.ttyS \in BOOLEAN /\ b \in Nat \cup {-1}
  BY DEF Param
<1>2. b # -1 /\ (b = 0 \/ BaseBaud % b # 0) <=> ~ (b = -1 \/ (b > 0 /\ BaseBaud % b = 0))
  <2> HIDE DEF b
  <2> QED
    BY <1>1, SMT
<1>3. -1 \notin 0 .. 3
  BY SMT
<1> QED
  BY <1>1, <1>2, <1>3, Zenon DEF Right, Wrong

LEMMA LastParameter ==
  ASSUME NEW line \in Seq(Param), NEW s \in SUBSET (1 .. Len(line)), s # {}
  PROVE  /\ Max(s) \in s
         /\ Together(line, s)
              = SerialConsoleSetup(Together(line, s \ {Max(s)}), line[Max(s)])
<1>1. Len(line) \in Int /\ s \subseteq Int /\ \A y \in s : y <= Len(line)
  OBVIOUS
<1>2. Max(s) \in s /\ \A y \in s : y <= Max(s)
  BY <1>1, MaxOf
<1>3. PICK x \in s : x = Max(s) /\ \A y \in s : y <= x
  BY <1>2
<1>4. line[x] \in Param
  BY <1>3
<1> DEFINE p == line[x]
           t == Together(line, s \ {x})
           Decided(field, none, default) == DecidedBy(x, line, s, field, none, default)
<1>5. /\ Given(line, s, "tty", -1, Default.tty) = Decided("tty", -1, Default.tty)
      /\ Given(line, s, "baud", -1, Default.baud) = Decided("baud", -1, Default.baud)
      /\ Given(line, s, "parity", "", Default.parity) = Decided("parity", "", Default.parity)
      /\ Given(line, s, "bits", 0, Default.bits) = Decided("bits", 0, Default.bits)
  <2>1. IsLast(x, s)
    BY <1>1, <1>3 DEF IsLast
  <2>2. \A field, none, default :
          Given(line, s, field, none, default) = DecidedBy(x, line, s, field, none, default)
    BY ONLY <2>1, LastDecides
  <2> QED
    BY <2>2
<1>6. /\ Right(p) \in BOOLEAN /\ Wrong(p) <=> ~ Right(p)
      /\ Right(p) => p.tty # -1
  BY <1>4, WrongOrRight
<1>7. (\E i \in s : Right(line[i])) <=> Right(p) \/ \E i \in s \ {x} : Right(line[i])
  OBVIOUS
<1>8. CASE Right(p)
  <2>1. Together(line, s) = [cons |-> TRUE, tty |-> p.tty,
          baud |-> IF p.baud = -1 THEN t.baud ELSE p.baud,
          parity |-> IF p.parity = "" THEN t.parity ELSE p.parity,
          bits |-> IF p.bits = 0 THEN t.bits ELSE p.bits]
    <3>1. /\ Decided("tty", -1, Default.tty) = p.tty
          /\ Decided("baud", -1, Default.baud) = IF p.baud = -1 THEN t.baud ELSE p.baud
          /\ Decided("parity", "", Default.parity) = IF p.parity = "" THEN t.parity ELSE p.parity
          /\ Decided("bits", 0, Default.bits) = IF p.bits = 0 THEN t.bits ELSE p.bits
      BY <1>6, <1>8 DEF Together, DecidedBy
    <3>2. (\E i \in s : Right(line[i])) = TRUE
      BY <1>7, <1>8
    <3> HIDE DEF Decided, t, p
    <3> QED
      BY <1>5, <3>1, <3>2 DEF Together
  <2> HIDE DEF t, p
  <2> QED
    BY <1>3, <1>6, <1>8, <2>1 DEF SerialConsoleSetup, t, p
<1>9. CASE ~ Right(p)
  <2>1. Together(line, s) = t
    <3>1. (\E i \in s : Right(line[i])) = (\E i \in s \ {x} : Right(line[i]))
      BY <1>7, <1>9
    <3> QED
      BY <1>5, <1>9, <3>1, Zenon DEF Together, DecidedBy
  <2>2. SerialConsoleSetup(t, p) = t
    BY <1>6, <1>9 DEF SerialConsoleSetup
  <2> QED
    BY <1>3, <2>1, <2>2
<1> QED
  BY <1>8, <1>9

(* h is what parse_command_line() has set up from the parameters of each set. *)
SetUp(h, line) ==
  h = [s \in SUBSET (1 .. Len(line)) |->
         IF s = {} THEN Default
         ELSE SerialConsoleSetup(h[s \ {Max(s)}], line[Max(s)])]

LEMMA NoParameter ==
  ASSUME NEW line
  PROVE  Together(line, {}) = Default
BY SMT DEF Together, Given, Givers, Default

LEMMA SetUpThere ==
  ASSUME NEW line \in Seq(Param)
  PROVE  SetUp([s \in SUBSET (1 .. Len(line)) |-> Together(line, s)], line)
<1> DEFINE D == 1 .. Len(line)
           h == [s \in SUBSET D |-> Together(line, s)]
<1>1. ASSUME NEW s \in SUBSET D
      PROVE  h[s] = IF s = {} THEN Default
                    ELSE SerialConsoleSetup(h[s \ {Max(s)}], line[Max(s)])
  <2>1. CASE s = {}
    BY <2>1, NoParameter
  <2>2. CASE s # {}
    <3>1. s \ {Max(s)} \in SUBSET D
      OBVIOUS
    <3>2. Together(line, s)
            = SerialConsoleSetup(Together(line, s \ {Max(s)}), line[Max(s)])
      BY <2>2, LastParameter
    <3> HIDE DEF D
    <3> QED
      BY <2>2, <3>1, <3>2
  <2> QED
    BY <2>1, <2>2
<1> QED
  BY <1>1 DEF SetUp

LEMMA SetUpOnce ==
  ASSUME NEW line \in Seq(Param), NEW h, SetUp(h, line)
  PROVE  h[1 .. Len(line)] = Together(line, 1 .. Len(line))
<1> DEFINE D == 1 .. Len(line)
           S == {n \in Nat : \A s \in SUBSET D : Cardinality(s) = n => h[s] = Together(line, s)}
<1>1. IsFiniteSet(D)
  BY FS_Interval
<1>2. \A s \in SUBSET D :
        IsFiniteSet(s) /\ Cardinality(s) \in Nat /\ (Cardinality(s) = 0 <=> s = {})
  <2> HIDE DEF D
  <2> QED
    BY <1>1, FS_Subset, FS_CardinalityType, FS_EmptySet
<1>3. 0 \in S
  <2>1. h[{}] = Default
    BY DEF SetUp
  <2> HIDE DEF D
  <2> QED
    BY <1>2, <2>1, NoParameter
<1>4. ASSUME NEW n \in S, NEW s \in SUBSET D, Cardinality(s) = n + 1
      PROVE  h[s] = Together(line, s)
  <2> DEFINE x == Max(s)
  <2>1. n \in Nat /\ s # {}
    BY <1>2, <1>4
  <2>2. x \in s /\ Together(line, s) = SerialConsoleSetup(Together(line, s \ {x}), line[x])
    BY <2>1, LastParameter
  <2>3. h[s] = SerialConsoleSetup(h[s \ {x}], line[x])
    BY <2>1 DEF SetUp
  <2> HIDE DEF x
  <2>4. s \ {x} \in SUBSET D /\ Cardinality(s \ {x}) = n
    <3>1. Cardinality(s \ {x}) = Cardinality(s) - 1
      BY <1>2, <2>2, FS_RemoveElement
    <3>2. s \ {x} \in SUBSET D
      OBVIOUS
    <3>3. Cardinality(s) = n + 1 /\ n \in Nat
      BY <1>4, <2>1
    <3> HIDE DEF S, D
    <3> QED
      BY <3>1, <3>2, <3>3
  <2>5. h[s \ {x}] = Together(line, s \ {x})
    BY <2>4
  <2> QED
    BY <2>2, <2>3, <2>5
<1>5. S = Nat
  <2>1. ASSUME NEW n \in S
        PROVE  n + 1 \in S
    BY <1>4
  <2>2. S \in SUBSET Nat
    OBVIOUS
  <2> HIDE DEF S
  <2> QED
    BY <1>3, <2>1, <2>2, Inductive
<1> QED
  BY <1>2, <1>5

(* A command line sets up what all its parameters set together. *)
LEMMA ParsedTogether ==
  ASSUME NEW line \in Seq(Param)
  PROVE  ParseCommandLine(line) = Together(line, 1 .. Len(line))
<1> DEFINE Sum(g) == g = [s \in SUBSET (DOMAIN line) |->
                            IF s = {} THEN Default
                            ELSE LET x == Max(s)
                                 IN  SerialConsoleSetup(g[s \ {x}], line[x])]
<1>1. DOMAIN line = 1 .. Len(line)
  OBVIOUS
<1>2. \A h : Sum(h) <=> SetUp(h, line)
  BY <1>1 DEF SetUp
<1>3. Sum(CHOOSE h : Sum(h))
  <2>1. \E h : Sum(h)
    <3> HIDE DEF Sum
    <3> QED
      BY <1>2, SetUpThere
  <2> HIDE DEF Sum
  <2> QED
    BY <2>1
<1>4. ParseCommandLine(line) = (CHOOSE h : Sum(h))[DOMAIN line]
  BY DEF ParseCommandLine, FoldLeft, MapThenFoldSet
<1> HIDE DEF Sum
<1>5. PICK h : SetUp(h, line) /\ ParseCommandLine(line) = h[DOMAIN line]
  BY <1>2, <1>3, <1>4
<1> QED
  BY <1>1, <1>5, SetUpOnce

(* The settings are those of the start. *)
LEMMA ConfigKept ==
  ASSUME [Next]_vars
  PROVE  UNCHANGED config
<1>1. ASSUME NEW code, NEW s, CheckInput(code, s)
      PROVE  UNCHANGED config
  BY <1>1 DEF CheckInput, StartAgain
<1>2. CASE Tick \/ Poll
  <2>1. CASE Tick
    BY <1>1, <2>1 DEF Tick
  <2>2. CASE Poll
    BY <1>1, <2>2 DEF Poll
  <2> QED
    BY <1>2, <2>1, <2>2
<1>3. CASE Scroll \/ ScrollWait
  BY <1>1, <1>3 DEF Scroll, ScrollWait, MoveUp
<1>4. CASE GetConfig
  BY <1>4 DEF GetConfig, LeaveMenu, ShowPages, Unchanged
<1>5. CASE SubMenu
  BY <1>5 DEF SubMenu, Unchanged
<1>6. CASE WaitKeyup \/ Page \/ Getval \/ RestartFromMenu \/ Redraw
  BY <1>6 DEF WaitKeyup, Page, Getval, RestartFromMenu, StartAgain, Redraw
<1>7. CASE Report \/ Inter
  BY <1>7 DEF Report, Inter
<1>8. CASE Operator \/ Answer
  BY <1>8 DEF Operator, Answer, Press, Release
<1>9. CASE UNCHANGED vars
  BY <1>9 DEF vars
<1> QED
  BY <1>2, <1>3, <1>4, <1>5, <1>6, <1>7, <1>8, <1>9 DEF Next, Program

(* A parameter that is wrong anywhere leaves no trace, whatever the command    *)
(* line: the settings are set up once, and no step changes them                *)
(* (lib.c:1039-1116, main.c:140).                                              *)
THEOREM SetUpWhole == Spec => []AllOrNothing
<1>1. Init => AllOrNothing
  <2> SUFFICES ASSUME Init PROVE AllOrNothing
    OBVIOUS
  <2>1. cmdline \in Seq(Param) /\ settings = ParseCommandLine(cmdline)
    BY LinesAssumption DEF Init
  <2>2. settings = Together(cmdline, 1 .. Len(cmdline))
    BY <2>1, ParsedTogether
  <2> QED
    BY <2>2 DEF AllOrNothing, LastGiven, Together, Given, Givers
<1>2. AllOrNothing /\ [Next]_vars => AllOrNothing'
  <2> SUFFICES ASSUME AllOrNothing, [Next]_vars PROVE AllOrNothing'
    OBVIOUS
  <2>1. UNCHANGED config
    BY ConfigKept
  <2> QED
    BY <2>1 DEF config, AllOrNothing, LastGiven
<1> QED
  BY <1>1, <1>2, PTL DEF Spec
=============================================================================
