-------------------------------- MODULE Life --------------------------------
(***************************************************************************)
(* src/c/mctlife.c: Conway's Life on a torus of Height by Width cells that *)
(* starts from a pattern file.  A line of the file is a record of its      *)
(* kind, its characters (TRUE for a live cell) and whether it ends in a    *)
(* newline.  fgets takes at most Linez - 1 characters at a time.           *)
(***************************************************************************)
EXTENDS Integers, Sequences, FiniteSets

CONSTANTS Height, Width, Linez, MaxGenerations

(* worldh < 5 and worldw < 5 are refused by main.                          *)
ASSUME LifeParameters ==
  /\ Height \in Nat /\ Height >= 5 /\ Width \in Nat /\ Width >= 5
  /\ Linez \in Nat /\ Linez > 1 /\ MaxGenerations \in Nat

VARIABLES
  pattern,     (* the lines of the file                                    *)
  world,       (* which cells are alive                                    *)
  lines,       (* the lines of the file that fgets has not returned yet    *)
  readformat,  (* a #P line has been seen                                  *)
  row,         (* h of loadfile: data lines seen                           *)
  offsetw,     (* the column the first character of a line goes to         *)
  gennum,
  lpc          (* "load", "live", or "exit"                                *)

lifeVars == <<pattern, world, lines, readformat, row, offsetw, gennum, lpc>>

Cells == (0..Height-1) \X (0..Width-1)

(* Mutant of HW: on two sides the world has an edge.                       *)
HWEdge(h, w) ==
  <<IF h < 0 THEN 0 ELSE IF h >= Height THEN 0 ELSE h,
    IF w < 0 THEN 0 ELSE IF w >= Width THEN 0 ELSE w>>

(* The cell at row h and column w, if they are at most one step outside;   *)
(* everything farther out falls on the first or last row or column.        *)
HW(h, w) ==
  <<IF h < 0 THEN Height - 1 ELSE IF h >= Height THEN 0 ELSE h,
    IF w < 0 THEN Width - 1 ELSE IF w >= Width THEN 0 ELSE w>>

FileLine ==
  [kind : {"#P", "##", "# other", "data"}, cells : Seq(BOOLEAN), newline : BOOLEAN]

LifeInit(file) ==
  /\ pattern = file
  /\ world = [c \in Cells |-> FALSE]
  /\ lines = file
  /\ readformat = FALSE /\ row = 0 /\ offsetw = 0
  /\ gennum = 0
  /\ lpc = "load"

-----------------------------------------------------------------------------
(* loadfile                                                                *)

Line == Head(lines)
NextLine == lpc = "load" /\ lines # <<>> /\ lines' = Tail(lines)

(* The newline of the line is within the first Linez - 1 characters.       *)
FoundNewline == Line.newline /\ Len(Line.cells) + 2 <= Linez

Refused ==
  \/ ~ FoundNewline
  \/ Line.kind = "# other"
  \/ Line.kind = "data" /\ Line.cells # <<>> /\ ~ readformat

RefuseLine ==
  /\ NextLine /\ Refused
  /\ lpc' = "exit"
  /\ UNCHANGED <<pattern, world, readformat, row, offsetw, gennum>>

(* An empty line before the format, or a comment.                          *)
SkipLine ==
  /\ NextLine /\ ~ Refused
  /\ \/ Line.kind = "data" /\ ~ readformat
     \/ Line.kind = "##"
  /\ UNCHANGED <<pattern, world, readformat, row, offsetw, gennum, lpc>>

FormatLine ==
  /\ NextLine /\ ~ Refused
  /\ Line.kind = "#P"
  /\ readformat' = TRUE
  /\ UNCHANGED <<pattern, world, row, offsetw, gennum, lpc>>

(* The first data line decides the column: (worldw - strlen(buf)) / 2, in  *)
(* unsigned 64-bit arithmetic and cut to an int, is that quotient rounded  *)
(* down, negative when the line is wider than the world.                   *)
Column(line) == IF row = 0 THEN (Width - Len(line.cells)) \div 2 ELSE offsetw

(* Mutant of Place: the row is not moved down.                             *)
PlaceAtTop(line, c) == {w \in DOMAIN line.cells : HW(row, w - 1 + Column(line)) = c}

(* The characters of a line that are stored in cell c.                     *)
Place(line, c) ==
  {w \in DOMAIN line.cells : HW(row + Height \div 5, w - 1 + Column(line)) = c}

DataLine ==
  /\ NextLine /\ ~ Refused
  /\ Line.kind = "data" /\ readformat
  /\ offsetw' = Column(Line)
  /\ world' = [c \in Cells |->
       LET here == Place(Line, c)
       IN  IF here = {} THEN world[c]
           ELSE Line.cells[CHOOSE w \in here : \A v \in here : v <= w]]
  /\ row' = row + 1
  /\ UNCHANGED <<pattern, readformat, gennum, lpc>>

EndOfFile ==
  /\ lpc = "load" /\ lines = <<>>
  /\ lpc' = "live"
  /\ UNCHANGED <<pattern, world, lines, readformat, row, offsetw, gennum>>

-----------------------------------------------------------------------------
Bit(b) == IF b THEN 1 ELSE 0

(* count: the live cells around the one at row h and column w.             *)
Count(h, w) ==
    Bit(world[HW(h-1, w-1)]) + Bit(world[HW(h-1, w)]) + Bit(world[HW(h-1, w+1)])
  + Bit(world[HW(h, w-1)])                            + Bit(world[HW(h, w+1)])
  + Bit(world[HW(h+1, w-1)]) + Bit(world[HW(h+1, w)]) + Bit(world[HW(h+1, w+1)])

(* Generation numbers above MaxGenerations are not looked at.              *)
Generation ==
  /\ lpc = "live" /\ gennum < MaxGenerations
  /\ world' = [c \in Cells |->
                 LET count == Count(c[1], c[2])
                 IN  IF world[c] THEN count \in {2, 3} ELSE count = 3]
  /\ gennum' = gennum + 1
  /\ UNCHANGED <<pattern, lines, readformat, row, offsetw, lpc>>

OutOfMemory ==
  /\ lpc = "live"
  /\ lpc' = "exit"
  /\ UNCHANGED <<pattern, world, lines, readformat, row, offsetw, gennum>>

LifeNext ==
  \/ RefuseLine \/ SkipLine \/ FormatLine \/ DataLine \/ EndOfFile
  \/ Generation \/ OutOfMemory

LifeSpec(file) == LifeInit(file) /\ [][LifeNext]_lifeVars

-----------------------------------------------------------------------------
LifeTypeOK ==
  /\ world \in [Cells -> BOOLEAN]
  /\ row \in Nat /\ offsetw \in Int /\ gennum \in 0..MaxGenerations
  /\ readformat \in BOOLEAN
  /\ lpc \in {"load", "live", "exit"}

(* A line of data behind the format is a row of the pattern, also when it  *)
(* is empty; the first one is centred, and is a fifth of the height down.  *)
IsRow(k) ==
  /\ k \in DOMAIN pattern /\ pattern[k].kind = "data"
  /\ \E j \in 1..k-1 : pattern[j].kind = "#P"
RowsBefore(k) == {j \in 1..k-1 : IsRow(j)}
FirstRow == CHOOSE k \in DOMAIN pattern : IsRow(k) /\ RowsBefore(k) = {}
LeftMargin == (Width - Len(pattern[FirstRow].cells)) \div 2
TopMargin == Height \div 5
RowOf(k) == TopMargin + Cardinality(RowsBefore(k))

Fits ==
  \A k \in DOMAIN pattern : IsRow(k) =>
    /\ RowOf(k) < Height
    /\ LeftMargin >= 0 /\ LeftMargin + Len(pattern[k].cells) <= Width

(* A pattern that fits is shown where it belongs: no cell of it is lost or *)
(* overwritten, none is added.                                             *)
PatternShown ==
  lpc = "live" /\ gennum = 0 /\ Fits =>
    \A c \in Cells : world[c] <=>
      \E k \in DOMAIN pattern : \E i \in DOMAIN pattern[k].cells :
        IsRow(k) /\ pattern[k].cells[i] /\ c = <<RowOf(k), LeftMargin + i - 1>>

(* The cells around c on a torus, said without HW: what a step in any      *)
(* direction leads to, modulo the size of the world.                       *)
Around(c) ==
  {<<(c[1] + d[1]) % Height, (c[2] + d[2]) % Width>> :
     d \in ((-1..1) \X (-1..1)) \ {<<0, 0>>}}

(* Each generation follows from the one before by the rules of Life on a   *)
(* torus: born with three neighbours, alive with two or three, no cell at  *)
(* an edge or in a corner having any other number of them than eight.      *)
BornAndSurvive(c) ==
  LET n == Cardinality({a \in Around(c) : world[a]})
  IN  world'[c] <=> n = 3 \/ (world[c] /\ n = 2)

RulesOfLife == [][gennum' # gennum => \A c \in Cells : BornAndSurvive(c)]_lifeVars

(* The lines of a file with a glider.                                      *)
Text(kind, cells) == [kind |-> kind, cells |-> cells, newline |-> TRUE]
Row(cells) == Text("data", cells)
Format == Text("#P", <<>>)
Glider == <<Row(<<FALSE, TRUE, FALSE>>), Row(<<FALSE, FALSE, TRUE>>), Row(<<TRUE, TRUE, TRUE>>)>>

(* A glider moves one cell down and one to the right in four generations,  *)
(* across the edges and the corners of the torus as anywhere else.         *)
GliderTravels ==
  lpc = "live" /\ pattern = <<Format>> \o Glider /\ gennum % 4 = 0 =>
    LET moved == gennum \div 4
        live == {q \in (1..3) \X (1..3) : Glider[q[1]].cells[q[2]]}
    IN  {c \in Cells : world[c]} =
          {<<(TopMargin + p[1] - 1 + moved) % Height, (LeftMargin + p[2] - 1 + moved) % Width>> :
             p \in live}
=============================================================================
