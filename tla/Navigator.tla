------------------------------ MODULE Navigator ------------------------------
(***************************************************************************)
(* src/opc/opc-navigator.py: boxes on a terminal, one for each LED, with a *)
(* cursor; before each repaint the colours are sent to a server through    *)
(* the client of Opc.  curses learns of a new size of the window when it   *)
(* hands out KEY_RESIZE, and not before.  One server is modelled, or none. *)
(***************************************************************************)
EXTENDS Opc, FiniteSets

CONSTANTS Kerning,     (* columns between boxes                            *)
          Windows      (* sizes a window may have: lines and columns       *)

ASSUME NavigatorParameters ==
  Kerning \in Nat /\ Windows \subseteq (Nat \ {0}) \X (Nat \ {0})

VARIABLES
  dryrun,        (* --dry-run: no server                                   *)
  sizes,         (* the sizes that this window takes                       *)
  leds, box_index, box_color,
  lines, cols, boxes_per_row,
  navpc          (* "start", "update", "draw", "getkey", "quit" (update    *)
                 (* before exit), "exit", "crash", or "interrupted"        *)

setup == <<dryrun, sizes>>
navVars == <<setup, leds, box_index, box_color, lines, cols, boxes_per_row, navpc>>

Leds == 0..NumLeds-1
BoxHeight == 5
BoxWidth == 6
Pitch == BoxWidth + Kerning

AllLeds(color) == [i \in Leds |-> color]

NavInit ==
  /\ dryrun \in BOOLEAN /\ sizes \in SUBSET Windows \ {{}}
  /\ leds = AllLeds("off") /\ box_index = 0 /\ box_color = "off"
  /\ lines = 0 /\ cols = 0 /\ boxes_per_row = 0
  /\ navpc = "start"

(* Mutant of Resize: the boxes in a row are counted once, at the start.    *)
ResizeStale(window) ==
  /\ lines' = window[1] /\ cols' = window[2]
  /\ boxes_per_row' = IF navpc = "start" THEN cols' \div Pitch ELSE boxes_per_row

Resize(window) ==
  /\ lines' = window[1] /\ cols' = window[2]
  /\ boxes_per_row' = cols' \div Pitch

-----------------------------------------------------------------------------
(* main: can_connect has to succeed; then the screen is set up.            *)

StartConnects ==
  /\ navpc = "start" /\ ~ dryrun /\ opcpc = "idle"
  /\ CanConnect
  /\ UNCHANGED navVars

Start ==
  /\ navpc = "start" /\ (dryrun \/ opcpc = "returned")
  /\ IF dryrun \/ ret
       THEN /\ \E w \in sizes : Resize(w)
            /\ navpc' = "update"
       ELSE navpc' = "exit" /\ UNCHANGED <<lines, cols, boxes_per_row>>
  /\ opcpc' = "idle"
  /\ UNCHANGED <<setup, leds, box_index, box_color>>
  /\ UNCHANGED <<long, sock, call, message, ret, handed, torn, conns, opcServer>>

-----------------------------------------------------------------------------
(* update_opc: the frame is sent; if that fails, raise of a string is an   *)
(* error of its own, and the program ends.                                 *)

Updating == navpc \in {"update", "quit"}

UpdateOpc ==
  /\ Updating /\ ~ dryrun /\ opcpc = "idle"
  /\ PutPixels([i \in 1..NumLeds |-> leds[i - 1]])
  /\ UNCHANGED navVars

Updated ==
  /\ Updating /\ (dryrun \/ opcpc = "returned")
  /\ navpc' = IF ~ dryrun /\ ~ ret THEN "crash"
              ELSE IF navpc = "quit" THEN "exit" ELSE "draw"
  /\ opcpc' = "idle"
  /\ UNCHANGED <<setup, leds, box_index, box_color, lines, cols, boxes_per_row>>
  /\ UNCHANGED <<long, sock, call, message, ret, handed, torn, conns, opcServer>>

-----------------------------------------------------------------------------
(* paint                                                                   *)

(* Where the loop draws box i: its upper line and its left column.         *)
Spot[i \in 0..NumLeds] ==
  IF i = 0 THEN <<1, 0>>
  ELSE LET x == Spot[i - 1][2] + Pitch
       IN  IF x + Pitch > cols THEN <<Spot[i - 1][1] + BoxHeight, 0>>
                               ELSE <<Spot[i - 1][1], x>>

LinesLeft(i) == Spot[i][1] + BoxHeight <= lines

(* Mutant of Drawn: the test comes before the place is moved on.           *)
DrawnPastEnd == {i \in Leds : \A j \in 1..i-1 : LinesLeft(j)}

(* The loop ends behind the box after which there is no line left for one. *)
Drawn == {i \in Leds : \A j \in 1..i : LinesLeft(j)}
truncated == \E i \in Drawn : ~ LinesLeft(i + 1)

(* The length of the warning, with one or two digits and an s.             *)
WarningLength(left) == 41 + (IF left > 9 THEN 2 ELSE 1) + (IF left > 1 THEN 1 ELSE 0)

(* What stops the program: a number of three digits; a box that is not     *)
(* inside the window, or has a corner in its last cell; a warning that     *)
(* would begin left of it.                                                 *)
BoxFails(i) ==
  LET bottom == Spot[i][1] + BoxHeight - 1
      right == Spot[i][2] + BoxWidth - 1
  IN  \/ i > 99
      \/ bottom >= lines \/ right >= cols
      \/ bottom = lines - 1 /\ right = cols - 1

PaintFails ==
  \/ \E i \in Drawn : BoxFails(i)
  \/ truncated /\ cols - 1 < WarningLength(NumLeds - Cardinality(Drawn))

Draw ==
  /\ navpc = "draw"
  /\ navpc' = IF PaintFails THEN "crash" ELSE "getkey"
  /\ UNCHANGED <<setup, leds, box_index, box_color, lines, cols, boxes_per_row, opcVars>>

-----------------------------------------------------------------------------
(* handle_input, and back to paint                                         *)

(* Mutant of Key: the colours are not sent again.                          *)
KeyRedraws == navpc = "getkey" /\ navpc' = "draw" /\ UNCHANGED <<setup, opcVars>>

Key == navpc = "getkey" /\ navpc' = "update" /\ UNCHANGED <<setup, opcVars>>
window == <<lines, cols, boxes_per_row>>

KeyResize ==
  /\ Key
  /\ \E w \in sizes : Resize(w)
  /\ UNCHANGED <<leds, box_index, box_color>>

SetLed(color) ==
  /\ box_color' = color
  /\ leds' = [AllLeds("off") EXCEPT ![box_index'] = color]

(* Mutant of MoveCursor: the LEDs stay as they are.                        *)
MoveCursorOnly(offset) ==
  /\ box_index' = IF box_index + offset \in Leds THEN box_index + offset ELSE box_index
  /\ UNCHANGED <<leds, box_color>>

MoveCursor(offset) ==
  IF box_index + offset \in Leds
    THEN box_index' = box_index + offset /\ SetLed(box_color)
    ELSE UNCHANGED <<leds, box_index, box_color>>

KeyMove ==
  /\ Key
  /\ \E offset \in {-1, 1, -boxes_per_row, boxes_per_row} : MoveCursor(offset)
  /\ UNCHANGED window

KeyColor ==
  /\ Key /\ UNCHANGED <<box_index, window>>
  /\ \E color \in Colors : SetLed(color)

KeyAll ==
  /\ Key
  /\ \E color \in Colors : box_color' = color /\ leds' = AllLeds(color)
  /\ UNCHANGED <<box_index, window>>

OtherKey == Key /\ UNCHANGED <<leds, box_index, box_color, window>>

(* Mutant of KeyQuit: the colours are sent as they are.                    *)
KeyQuitLit ==
  /\ navpc = "getkey" /\ navpc' = "quit"
  /\ UNCHANGED <<setup, leds, box_color, box_index, window, opcVars>>

KeyQuit ==
  /\ navpc = "getkey" /\ navpc' = "quit"
  /\ UNCHANGED <<setup, box_index, window, opcVars>>
  /\ SetLed("off")

Interrupt ==
  /\ navpc \in {"update", "draw", "getkey", "quit"} /\ opcpc = "idle"
  /\ navpc' = "interrupted"
  /\ UNCHANGED <<setup, leds, box_index, box_color, window, opcVars>>

NavEnds == {"exit", "crash", "interrupted"}

(* The kernel closes the socket of a process that has ended.               *)
SocketCloses ==
  /\ navpc \in NavEnds /\ sock
  /\ sock' = FALSE /\ conns' = Close(conns)
  /\ UNCHANGED <<navVars, long, call, opcpc, message, ret, handed, torn, opcServer>>

NavNext ==
  \/ StartConnects \/ Start \/ UpdateOpc \/ Updated \/ Draw
  \/ KeyResize \/ KeyMove \/ KeyColor \/ KeyAll \/ OtherKey \/ KeyQuit \/ Interrupt
  \/ SocketCloses

NavSpec ==
  /\ OpcInit /\ NavInit
  /\ [][NavNext \/ ((OpcCall \/ OpcServer) /\ UNCHANGED navVars)]_<<navVars, opcVars>>

-----------------------------------------------------------------------------
(* One LED shows the colour, at the cursor, or all of them do.             *)
LedsFollowCursor ==
  /\ box_index \in Leds
  /\ leds = AllLeds(box_color)
     \/ \A i \in Leds : leds[i] = (IF i = box_index THEN box_color ELSE "off")

(* The keys for up and down lead to the box that is drawn above or below,  *)
(* in every window, or nowhere: boxes_per_row agrees with paint.           *)
UpAndDown ==
  navpc = "getkey" /\ boxes_per_row # 0 =>
    \A i \in Leds : i + boxes_per_row \in Leds =>
      Spot[i + boxes_per_row] = <<Spot[i][1] + BoxHeight, Spot[i][2]>>

(* While it waits for a key, what the screen shows is what the strip shows *)
(* as soon as the server has read everything, unless it went away or a     *)
(* message was cut.                                                        *)
StripFollowsScreen ==
  navpc = "getkey" /\ ~ dryrun /\ sock /\ conns = <<[units |-> <<>>, closed |-> FALSE]>>
    /\ ~ torn /\ handed = NumLeds + 1 => \A i \in Leds : strip[i + 1] = leds[i]

(* A repaint never fails in a window that has room for a box and for the   *)
(* warning, with at most 100 LEDs and space between the boxes: there, only *)
(* a lost connection ends the program.                                     *)
CrashesExplained ==
  navpc = "crash" =>
    \/ lines < BoxHeight + 1 \/ cols < 45
    \/ NumLeds > 100 \/ Kerning = 0
    \/ ~ dryrun /\ ~ ret

(* After a quit the strip goes dark, unless the server goes away, when the *)
(* kernel took the last message, and no other was cut.                     *)
DarkAfterQuit ==
  [](navpc = "exit" /\ ~ dryrun /\ ~ Lost /\ handed = NumLeds + 1 /\ ~ torn
       => <>(strip = Dark \/ ~ up))
=============================================================================
