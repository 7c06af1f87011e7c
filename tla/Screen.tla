------------------------------- MODULE Screen -------------------------------
(***************************************************************************)
(* Drawing (stdlib/Screen.jack): the memory of the screen is a word per     *)
(* pixel, row by row.  The loops of lines, rectangles, circles and of the  *)
(* square root that a circle's rows need take one step per round.          *)
(***************************************************************************)
EXTENDS JackMath

CONSTANTS Width, Height,  (* _screen_width, _screen_height                    *)
          MaxRadius,      (* the radius that drawCircle cuts at, 181          *)
          Shapes          (* what the program asks to be drawn                *)

Pixels == [x : 0..(Width - 1), y : 0..(Height - 1)]

(* The square around a circle, or what a radius below 0 makes of it.         *)
Corners(c, r) == {[x |-> c.x + k, y |-> c.y + k] : k \in {-Abs(r), Abs(r)}}

(* The program keeps to the screen, and squares of radii are words.          *)
ASSUME ShapesAssumption ==
  /\ Width \in Nat /\ Height \in Nat /\ MaxRadius \in Nat
  /\ \A s \in Shapes :
       \/ s.kind \in {"line", "rectangle"} /\ {s.from, s.to} \subseteq Pixels
       \/ /\ s.kind = "circle" /\ s.center \in [x : Int, y : Int] /\ s.r \in Int
          /\ s.r * s.r <= MaxWord /\ Corners(s.center, s.r) \subseteq Pixels

VARIABLES drawing,        (* "idle", "call", "row", "root", "line", "drawn"     *)
          shape,          (* the call: [kind |-> ..., and its arguments]      *)
          row,            (* cur_y of drawRectangle, dy of drawCircle         *)
          pen, goal,      (* drawLine: (x, y), and (x2, y2)                   *)
          slope, err,     (* drawLine: dx, dy, sx, sy                         *)
          painted         (* words that were given the current colour         *)

screenVars == <<sqrtVars, drawing, shape, row, pen, goal, slope, err, painted>>

lineVars == <<pen, goal, slope, err>>

Address(x, y) == y * Width + x

(* drawPixel, inlined by asm_code_gen: no coordinate is checked. *)
DrawPixel(p) == painted' = painted \cup {Address(p.x, p.y)}

Sign(d) == IF d < 0 THEN -1 ELSE 1

(* drawLine, up to its loop *)
DrawLine(p, q) ==
  /\ pen' = p /\ goal' = q
  /\ slope' = [dx |-> Abs(q.x - p.x), dy |-> Abs(q.y - p.y),
               sx |-> Sign(q.x - p.x), sy |-> Sign(q.y - p.y)]
  /\ err' = Abs(q.x - p.x) - Abs(q.y - p.y)
  /\ drawing' = "line"

MovesAcross == err + err > -slope.dy

MovesAlong == err + err < slope.dx

LineStep ==
  /\ drawing = "line" /\ pen # goal
  /\ DrawPixel(pen)
  /\ pen' = [x |-> IF MovesAcross THEN pen.x + slope.sx ELSE pen.x,
             y |-> IF MovesAlong THEN pen.y + slope.sy ELSE pen.y]
  /\ err' = err - (IF MovesAcross THEN slope.dy ELSE 0) + (IF MovesAlong THEN slope.dx ELSE 0)
  /\ UNCHANGED <<sqrtVars, drawing, shape, row, goal, slope>>

(* The last pixel; rectangle and circle go on with their next row.          *)
LineEnd ==
  /\ drawing = "line" /\ pen = goal
  /\ DrawPixel(goal)
  /\ IF shape.kind = "line" THEN drawing' = "drawn" /\ UNCHANGED row
                            ELSE drawing' = "row" /\ row' = row + 1
  /\ UNCHANGED <<sqrtVars, shape, lineVars>>

Call ==
  /\ drawing = "call"
  /\ CASE shape.kind = "line"      -> DrawLine(shape.from, shape.to) /\ UNCHANGED row
       [] shape.kind = "rectangle" -> drawing' = "row" /\ row' = shape.from.y /\ UNCHANGED lineVars
       [] shape.kind = "circle"    -> drawing' = "row" /\ row' = - Lesser(Abs(shape.r), MaxRadius)
                                      /\ UNCHANGED lineVars
  /\ UNCHANGED <<sqrtVars, shape, painted>>

LastRow == IF shape.kind = "circle" THEN shape.r ELSE shape.to.y

NextRow ==
  /\ drawing = "row" /\ ~ (row > LastRow)
  /\ IF shape.kind = "circle"
     THEN /\ SqrtStart(shape.r * shape.r - row * row) /\ drawing' = "root"
          /\ UNCHANGED lineVars
     ELSE /\ DrawLine([x |-> shape.from.x, y |-> row], [x |-> shape.to.x, y |-> row])
          /\ UNCHANGED sqrtVars
  /\ UNCHANGED <<shape, row, painted>>

RowsDone ==
  /\ drawing = "row" /\ row > LastRow
  /\ drawing' = "drawn"
  /\ UNCHANGED <<sqrtVars, shape, row, lineVars, painted>>

Root ==
  /\ drawing = "root" /\ Bisect
  /\ UNCHANGED <<drawing, shape, row, lineVars, painted>>

(* The circle's row, as wide as the root *)
RootFound ==
  /\ drawing = "root" /\ ~ Bisecting
  /\ DrawLine([x |-> shape.center.x - low, y |-> shape.center.y + row],
              [x |-> shape.center.x + low, y |-> shape.center.y + row])
  /\ UNCHANGED <<sqrtVars, shape, row, painted>>

Nowhere == [x |-> 0, y |-> 0]

(* Nothing is being drawn yet. *)
ScreenBlank ==
  /\ radicand = 0 /\ low = 0 /\ high = 0
  /\ row = 0 /\ pen = Nowhere /\ goal = Nowhere
  /\ slope = [dx |-> 0, dy |-> 0, sx |-> 1, sy |-> 1] /\ err = 0
  /\ painted = {}

ScreenInit == ScreenBlank /\ drawing = "call" /\ shape \in Shapes

ScreenNext == Call \/ LineStep \/ LineEnd \/ NextRow \/ RowsDone \/ Root \/ RootFound

ScreenSpec == ScreenInit /\ [][ScreenNext]_screenVars

-----------------------------------------------------------------------------
(* Properties *)

PaintedPixels == {p \in Pixels : Address(p.x, p.y) \in painted}

LongerSide(p, q) == IF Abs(q.x - p.x) >= Abs(q.y - p.y) THEN "x" ELSE "y"

(* How far s is along the longer side of the line from p to q.               *)
Along(s, p, q) == Abs(s[LongerSide(p, q)] - p[LongerSide(p, q)])

HalfAPixelFrom(s, p, q) ==
  2 * Abs((s.x - p.x) * (q.y - p.y) - (s.y - p.y) * (q.x - p.x)) <= Along(q, p, q)

(* A line from p to q: its points are as many as its longer side has, one   *)
(* for each step along that side, and none is farther than half a pixel    *)
(* from the straight line.                                                 *)
StraightLine(points, p, q) ==
  /\ {p, q} \subseteq points
  /\ {Along(s, p, q) : s \in points} = 0..Along(q, p, q)
  /\ \A s, t \in points : Along(s, p, q) = Along(t, p, q) => s = t
  /\ \A s \in points : HalfAPixelFrom(s, p, q)

Between(v, a, b) == a <= v /\ v <= b

(* The rectangle with two of its corners: nothing if q is above p.          *)
Rectangle(p, q) ==
  {s \in Pixels : /\ Between(s.y, p.y, q.y)
                  /\ Between(s.x, p.x, q.x) \/ Between(s.x, q.x, p.x)}

(* The disc of radius r: those of its pixels above row MaxRadius are cut.   *)
Disc(center, r) ==
  {p \in Pixels :
     LET a == p.x - center.x
         b == p.y - center.y
     IN  a * a + b * b <= r * r /\ Between(b, - Lesser(Abs(r), MaxRadius), r)}

(* When a call returns, exactly the shape's pixels have the colour: a line  *)
(* without gaps, a rectangle with all of its borders, whichever of its     *)
(* sides comes first, and a disc; and nothing else in memory was written.  *)
ShapesDrawn ==
  drawing = "drawn" =>
    /\ painted = {Address(p.x, p.y) : p \in PaintedPixels}
    /\ shape.kind = "line" => StraightLine(PaintedPixels, shape.from, shape.to)
    /\ shape.kind = "rectangle" => PaintedPixels = Rectangle(shape.from, shape.to)
    /\ shape.kind = "circle" => PaintedPixels = Disc(shape.center, shape.r)
=============================================================================
