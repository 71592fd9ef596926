---------------------------- MODULE WallpaperPlan ----------------------------
(***************************************************************************)
(* How one picture becomes rows: the row plan, the names, the geometry of  *)
(* the slices and the limits on them (src/src/images/wallpaper-slicer.ts   *)
(* and the pure helpers of channel-wallpaper.controller.ts).  What sharp   *)
(* does with the pixels of a region is left out; which region it is asked  *)
(* for, and where it puts it, is what this module is about.                *)
(*                                                                         *)
(* A picture is [format, width, height, rotated]; rotated stands for the   *)
(* EXIF orientations 5 to 8, which swap the sides.                         *)
(***************************************************************************)
EXTENDS Integers, Sequences, FiniteSets

CONSTANTS
  TargetWidth,      \* 500
  TargetHeight,     \* 44
  DepthOffset,      \* CHANNEL_DEPTH_OFFSET_PX, 11
  MaxRows,          \* MAX_WALLPAPER_ROWS, 300
  MaxOffset,        \* 20000, the bound on xOffset and yOffset
  MaxSourceSide,    \* MAX_SOURCE_DIMENSION_PX
  MaxSourcePixels,  \* MAX_SOURCE_PIXELS
  MaxOutputPixels   \* MAX_OUTPUT_PIXELS

ASSUME PlanAssumption ==
  /\ TargetWidth \in Nat \ {0} /\ TargetHeight \in Nat \ {0}
  /\ MaxRows \in Nat \ {0}
  /\ {DepthOffset, MaxOffset, MaxSourceSide, MaxSourcePixels, MaxOutputPixels} \subseteq Nat

Lesser(a, b)  == IF a <= b THEN a ELSE b
Greater(a, b) == IF a >= b THEN a ELSE b

Mode == {"flat", "nested-spacer"}
PlanRow == [depth : Nat, isSpacer : BOOLEAN]

\* The candidates: art and spacer in turn; a spacer may be nested below its art.
RowPlan(mode) ==
  [i \in 1..MaxRows |->
     [depth |-> IF mode = "nested-spacer" /\ i % 2 = 0 THEN 1 ELSE 0, isSpacer |-> i % 2 = 0]]

\* A row is named for its kind and its number among the rows of that kind
\* (after the prefix, which all rows share).
NameOf(rows, i) ==
  [spacer |-> rows[i].isSpacer,
   number |-> Cardinality({j \in 1..i : rows[j].isSpacer = rows[i].isSpacer})]

\* The depth of a parent in a tree of channels (cid -> parent, Root above all);
\* -1 above the top level, and for a channel that is not there.  A chain that
\* leaves the list ends there, one level up.
DepthOf(cid, tree, Root) ==
  IF cid \notin DOMAIN tree THEN -1
  ELSE LET up[n \in Nat] == IF n = 0 THEN cid
                            ELSE IF up[n - 1] \in DOMAIN tree THEN tree[up[n - 1]] ELSE Root
       IN  Cardinality({n \in 1..Cardinality(DOMAIN tree) : up[n] # Root})

\* The rows as they are sliced: at the depth they will have on the server.
AtDepth(rows, parentDepth) ==
  [i \in DOMAIN rows |-> [rows[i] EXCEPT !.depth = parentDepth + 1 + @]]

-----------------------------------------------------------------------------
(* Limits *)

\* renderWallpaper, up to the first decoding of pixels.
SourceRefused(p) ==
  \/ p.format \notin {"png", "jpeg", "webp", "gif"}
  \/ p.width = 0 \/ p.height = 0
  \/ p.width > MaxSourceSide \/ p.height > MaxSourceSide
  \/ p.width * p.height > MaxSourcePixels

OffsetsRefused(o) == o.xOffset \notin -MaxOffset..MaxOffset \/ o.yOffset \notin -MaxOffset..MaxOffset

\* validation() and the maxLength of the form, and the constraints of the request's
\* class.  A colour has 6 or 8 digits with or without "#"; a prefix is blank, fits,
\* or is too long.
FormRefuses(o) == \/ o.namePrefix \in {"blank", "long"}
                  \/ o.color \notin {"#6", "#8"}
                  \/ OffsetsRefused(o)
DtoRefuses(o)  == \/ o.namePrefix \in {"blank", "long"}
                  \/ o.color \notin {"", "#6", "#8", "6", "8"}
                  \/ OffsetsRefused(o)

-----------------------------------------------------------------------------
(* Geometry *)

Deepest(rows) ==
  CHOOSE d \in {rows[i].depth : i \in DOMAIN rows} \cup {0} :
    \A e \in {rows[i].depth : i \in DOMAIN rows} \cup {0} : d >= e

ScaledWidth(rows, cover) ==
  IF cover THEN TargetWidth + Deepest(rows) * DepthOffset ELSE TargetWidth

\* Math.round of the height that keeps the proportions.
ScaledHeight(p, width) ==
  LET w == IF p.rotated THEN p.height ELSE p.width
      h == IF p.rotated THEN p.width ELSE p.height
  IN  (2 * h * width + w) \div (2 * w)

OutputRefused(width, height) == width * height > MaxOutputPixels \/ height < 1

\* The height that is kept: no more than the candidates can use.
KeptHeight(height, count, yOffset) ==
  Lesser(height, Greater(1, count * TargetHeight + Greater(0, yOffset)))

\* The loop stops at the first row that does not fit whole.
Rendered(count, height) == {i \in 1..count : i * TargetHeight <= height}

\* The window of row i in the scaled picture, and what of it the picture covers.
Window(row, i, o) ==
  [x |-> row.depth * DepthOffset - o.xOffset, y |-> (i - 1) * TargetHeight + o.yOffset]

Piece(w, width, height) ==
  LET left == Greater(0, w.x)
      top  == Greater(0, w.y)
  IN  [left   |-> left, top |-> top,
       width  |-> Lesser(w.x + TargetWidth, width) - left,
       height |-> Lesser(w.y + TargetHeight, height) - top,
       atX    |-> left - w.x, atY |-> top - w.y]

Drawn(piece) == piece.width > 0 /\ piece.height > 0
Blank == [left |-> 0, top |-> 0, width |-> 0, height |-> 0, atX |-> 0, atY |-> 0]

\* sliceWallpaper: the pieces of the picture, one per row, or a refusal.
Slices(p, rows, o) ==
  LET width  == ScaledWidth(rows, o.cover)
      scaled == ScaledHeight(p, width)
      height == KeptHeight(scaled, Len(rows), o.yOffset)
      count  == Cardinality(Rendered(Len(rows), height))
      piece(i) == Piece(Window(rows[i], i, o), width, height)
  IN  [ok |-> /\ ~SourceRefused(p)
              /\ ~OutputRefused(width, scaled)
              /\ Len(rows) <= MaxRows /\ ~OffsetsRefused(o),
       rows |-> [i \in 1..count |-> IF Drawn(piece(i)) THEN piece(i) ELSE Blank]]

=============================================================================
