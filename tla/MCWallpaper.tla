------------------------------ MODULE MCWallpaper ------------------------------
(* A small instance of WallpaperPanel for TLC. *)
EXTENDS WallpaperPanel

CONSTANTS above, p, file, url

\* A picture for two rows, and one for three.
low  == [format |-> "png", width |-> 10, height |-> 9, rotated |-> FALSE]
high == [format |-> "jpeg", width |-> 12, height |-> 10, rotated |-> TRUE]

MCTrees == {[c \in {p} |-> above], [c \in {} |-> above]}
MCFirstTree == [c \in {p} |-> above]
MCPictures == {low, high}
MCFirstPictures == [s \in {file, url} |-> low]
nested == [mode |-> "nested-spacer", cover |-> TRUE, xOffset |-> 0, yOffset |-> 0, parent |-> p, source |-> url]
flat   == [mode |-> "flat", cover |-> FALSE, xOffset |-> 1, yOffset |-> -1, parent |-> above, source |-> file]
MCDraft == {nested, flat}
MCRequestId == 1..2
MCHandler == 1..2

-----------------------------------------------------------------------------
(* The operators of WallpaperPlan against definitions of what they are for. *)

\* Canvas pixel <<u, v>> shows pixel <<x, y>> of the picture.
PixelsOfWindow(w, width, height) ==
  {<<u, v, w.x + u, w.y + v>> : u \in 0..TargetWidth - 1, v \in 0..TargetHeight - 1}
    \cap {<<u, v, x, y>> : u \in 0..TargetWidth - 1, v \in 0..TargetHeight - 1,
                           x \in 0..width - 1, y \in 0..height - 1}
PixelsOfPiece(q) ==
  IF ~Drawn(q) THEN {}
  ELSE {<<q.atX + k, q.atY + l, q.left + k, q.top + l>> : k \in 0..q.width - 1, l \in 0..q.height - 1}

\* What is composited is the picture seen through the window, wherever it lies.
ASSUME PieceIsTheWindow ==
  \A x \in {-11, -10, -9, -1, 0, 1, 4}, y \in {-5, -4, -3, 0, 2}, width \in {1, 5}, height \in {1, 3} :
    LET w == [x |-> x, y |-> y]
    IN  PixelsOfPiece(Piece(w, width, height)) = PixelsOfWindow(w, width, height)

\* The loop of renderWallpaper takes a row's height from what is left, and stops.
ASSUME RenderedIsTheLoop ==
  \A count \in 0..MaxRows, height \in 0..5 * TargetHeight :
    LET left[i \in 0..count] == IF i = 0 THEN height ELSE left[i - 1] - TargetHeight
    IN  Rendered(count, height) = {i \in 1..count : \A k \in 1..i : left[k - 1] - TargetHeight >= 0}

\* The height is the nearest one that keeps the proportions.
ASSUME HeightKeepsProportions ==
  \A w \in 1..12, h \in 1..12, width \in 1..14, r \in BOOLEAN :
    LET q == [width |-> IF r THEN h ELSE w, height |-> IF r THEN w ELSE h, rotated |-> r]
        d == 2 * (ScaledHeight(q, width) * w - h * width)
    IN  -w < d /\ d <= w

\* Counting the parents one by one, as computeChannelDepth does.
ASSUME DepthCountsParents ==
  LET chain == [c \in {"a", "b", "c"} |-> CASE c = "a" -> above [] c = "b" -> "a" [] OTHER -> "b"]
      torn  == [c \in {"b", "c"} |-> IF c = "b" THEN "a" ELSE "b"]
  IN  /\ DepthOf("a", chain, above) = 0 /\ DepthOf("b", chain, above) = 1 /\ DepthOf("c", chain, above) = 2
      /\ DepthOf("b", torn, above) = 1 /\ DepthOf("c", torn, above) = 2
      /\ DepthOf(above, chain, above) = -1 /\ DepthOf("a", torn, above) = -1

\* namesForRows counts art and spacers as it goes.
ASSUME NamesCountUp ==
  \A mode \in Mode :
    LET rows == RowPlan(mode)
        count[i \in 0..MaxRows] ==
          IF i = 0 THEN [art |-> 0, spacer |-> 0]
          ELSE IF rows[i].isSpacer THEN [count[i - 1] EXCEPT !.spacer = @ + 1]
                                   ELSE [count[i - 1] EXCEPT !.art = @ + 1]
    IN  \A i \in 1..MaxRows :
          NameOf(rows, i).number = IF rows[i].isSpacer THEN count[i].spacer ELSE count[i].art
=============================================================================
