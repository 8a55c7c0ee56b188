--------------------------- MODULE ColumnLayouts ---------------------------
(* Placement of the widgets of a tab on a board of cells: ui/ColumnLayout.js *)
(* and ui/SmartColumnLayout.js, which also closes the gaps above widgets     *)
(* (smart); GridLayout.js repeats the first.  A widget is dragged with a     *)
(* cursor that pushes the others in a shadow of the board (WidgetView-       *)
(* Draggable.js), and resized by its handles (WidgetViewResizeHandle.js).    *)
(* Only cells: pixels, margins and the animation are left out, and so is a   *)
(* resize past the last column, where the code throws.                       *)
EXTENDS Integers, Sequences, FiniteSets, SequencesExt, FiniteSetsExt, TLC

CONSTANTS
    Widgets,    \* the widgets, in the order of this.widgets
    Columns,    \* this.columns
    Rows,       \* bound: rows of the board, more than the widgets can fill
    Shapes,     \* shapes a widget may take: [width, height]
    MaxY,       \* bound: row a widget is added at, dragged to or stored at
    Depth       \* bound: rows of the boards that are followed

ASSUME BoardBounds == /\ Columns \in Nat /\ Rows \in Nat
                      /\ MaxY \in 0..(Rows - 1) /\ Depth \in 0..Rows

Nobody == "nobody"
Cursor == "cursor"
NoMove == [widget |-> Nobody]
NoStretch == [widget |-> Nobody]

VARIABLES
    smart,          \* SmartColumnLayout or ColumnLayout
    initialized,    \* this.initialized
    placed,         \* this.widgets
    shape,          \* shape[w]
    board,          \* the base buffer: mat[cell] and pos[w]
    move,           \* the drag in progress: widget, cursor, backup, shadow
    stretching,     \* the resize in progress: widget and the shape it began with
    tight,          \* history: opened without gaps, and no resize that came back
                    \* to its first shape left one
    strayed         \* history: a drag ended that left positions it had changed

layoutVars == <<smart, initialized, placed, shape, board, move, stretching, tight, strayed>>

Cells == (0..(Columns - 1)) \X (0..(Rows - 1))
EmptyMat == [c \in Cells |-> Nobody]
Order == SetToSeq(Widgets)
At(m, x, y) == IF <<x, y>> \in Cells THEN m[<<x, y>>] ELSE Nobody
ColumnsFrom(x, width) == [i \in 1..width |-> x + i - 1]
Rect(x, y, s) == (x..(x + s.width - 1)) \X (y..(y + s.height - 1))

ReserveCells(m, w, cells) == [c \in cells |-> w] @@ m
ClearCells(m, cells) == ReserveCells(m, Nobody, cells)
HasSpaceFor(m, x, y, s) ==
    /\ x >= 0 /\ x + s.width <= Columns
    /\ \A c \in Rect(x, y, s) : At(m, c[1], c[2]) = Nobody

\* Take widget w of shape s from where it is and put it at (x, y).
Place(b, w, x, y, s) ==
    [mat |-> ReserveCells(ClearCells(b.mat, Rect(b.pos[w][1], b.pos[w][2], s)), w, Rect(x, y, s)),
     pos |-> [b.pos EXCEPT ![w] = <<x, y>>]]

\* The row of what comes first in column x from row y to last, or None, and
\* what comes first in each column of a range, once each, in order.
None == -1
First(m, x, y, last) ==
    LET rows == {r \in y..last : At(m, x, r) # Nobody} IN IF rows = {} THEN None ELSE Min(rows)
Met(m, x, width, y, last) ==
    FoldLeft(LAMBDA met, c : LET r == First(m, c, y, last)  w == At(m, c, r) IN
                             IF r = None \/ w \in Range(met) THEN met ELSE Append(met, w),
             <<>>, ColumnsFrom(x, width))

(* moveSpaceDown: first what lies in the rows the widget moves over, each by *)
(* what it lacks, measured before any of them moves; then the widget.        *)
RECURSIVE MoveSpaceDown(_, _, _, _)
MoveSpaceDown(sh, b, w, offset) ==
    LET x == b.pos[w][1]  edge == b.pos[w][2] + sh[w].height  last == edge + offset - 1
        Lacks(v) == LET c == Max({c \in x..(x + sh[w].width - 1) :
                                    LET r == First(b.mat, c, edge, last)
                                    IN  r # None /\ At(b.mat, c, r) = v})
                    IN  offset - (First(b.mat, c, edge, last) - edge)
        moved == FoldLeft(LAMBDA acc, v : MoveSpaceDown(sh, acc, v, Lacks(v)),
                          b, Met(b.mat, x, sh[w].width, edge, last))
    IN  Place(moved, w, x, b.pos[w][2] + offset, sh[w])

(* moveSpaceUp: the widget goes up while the row above is free, and then the *)
(* widgets that were first below it in each of its columns.                  *)
RECURSIVE MoveSpaceUp(_, _, _)
MoveSpaceUp(sh, b, w) ==
    LET x == b.pos[w][1]  y == b.pos[w][2]  row == [sh[w] EXCEPT !.height = 1]
        offset == Max({k \in 0..y : \A j \in 1..k : HasSpaceFor(b.mat, x, y - j, row)})
        below == Met(b.mat, x, sh[w].width, y + sh[w].height, Rows - 1)
    IN  IF offset = 0 THEN b
        ELSE FoldLeft(LAMBDA acc, v : MoveSpaceUp(sh, acc, v),
                      Place(b, w, x, y - offset, sh[w]), below)

\* The smart layout then moves the widget up.
MovedUp(sh, b, w) == IF smart THEN MoveSpaceUp(sh, b, w) ELSE b
PutAt(sh, b, w, x, y) ==
    [mat |-> ReserveCells(b.mat, w, Rect(x, y, sh[w])), pos |-> [b.pos EXCEPT ![w] = <<x, y>>]]

\* Mutant: a widget in the way moves by what the row it was met in lacks, not
\* by what its own row lacks.
InsertByRow(sh, b, w, x, y) ==
    LET last == y + sh[w].height
        Push(acc, c) == LET r == First(acc.mat, c, y, last - 1) IN
                        IF r = None THEN acc ELSE MoveSpaceDown(sh, acc, At(acc.mat, c, r), last - r)
    IN  MovedUp(sh, PutAt(sh, FoldLeft(Push, b, ColumnsFrom(x, sh[w].width)), w, x, y), w)

\* _insertAt: in each column of w the topmost widget in its way goes below it.
InsertWidget(sh, b, w, x, y) ==
    LET last == y + sh[w].height
        Push(acc, c) == LET r == First(acc.mat, c, y, last - 1)  v == At(acc.mat, c, r) IN
                        IF r = None THEN acc ELSE MoveSpaceDown(sh, acc, v, last - acc.pos[v][2])
    IN  MovedUp(sh, PutAt(sh, FoldLeft(Push, b, ColumnsFrom(x, sh[w].width)), w, x, y), w)

\* Mutant: only what is below the first column goes up.
CloseGapFirst(sh, b, x, width, y) ==
    IF At(b.mat, x, y) = Nobody THEN b ELSE MoveSpaceUp(sh, b, At(b.mat, x, y))

\* What is right below row y in the columns goes up, each widget once.
CloseGap(sh, b, x, width, y) ==
    LET Up(acc, c) == LET v == At(acc.b.mat, c, y) IN
                      IF v \in acc.seen THEN acc
                      ELSE [b |-> MoveSpaceUp(sh, acc.b, v), seen |-> acc.seen \cup {v}]
    IN  FoldLeft(Up, [b |-> b, seen |-> {Nobody}], ColumnsFrom(x, width)).b

\* _removeFromMatrix
RemoveFromMatrix(sh, b, w) ==
    LET x == b.pos[w][1]  y == b.pos[w][2]
        cleared == [b EXCEPT !.mat = ClearCells(@, Rect(x, y, sh[w]))]
    IN  IF smart THEN CloseGap(sh, cleared, x, sh[w].width, y + sh[w].height) ELSE cleared

\* No widget has room above it.
Compact(sh, b) == \A w \in placed : MoveSpaceUp(sh, b, w) = b

\* _searchFreeSpace: the first row, then the first column.
SearchFreeSpace(m, s) ==
    LET fits == {c \in Cells : HasSpaceFor(m, c[1], c[2], s)}
    IN  CHOOSE c \in fits : \A d \in fits : c[2] < d[2] \/ (c[2] = d[2] /\ c[1] <= d[1])

----------------------------------------------------------------------------
(* A tab is opened with the positions that were stored, which may overlap or *)
(* not fit.                                                                  *)
LayoutInit ==
    /\ smart \in BOOLEAN
    /\ initialized = FALSE
    /\ placed \in SUBSET Widgets
    /\ shape \in [Widgets -> Shapes]
    /\ \E p \in [Widgets -> (0..(Columns - 1)) \X (0..MaxY)] :
          board = [mat |-> EmptyMat, pos |-> [w \in Widgets \cup {Cursor} |->
                                                IF w \in placed THEN p[w] ELSE <<0, 0>>]]
    /\ \A w \in Widgets \ placed : shape[w] = CHOOSE s \in Shapes : TRUE
    /\ move = NoMove /\ stretching = NoStretch /\ strayed = FALSE /\ tight = FALSE

\* Widgets that fit where they were stored stay there, in order; then each of
\* the others gets the first free space.
Reinserted(b) ==
    LET Keep(acc, w) ==
            IF w \in placed /\ HasSpaceFor(acc.mat, acc.pos[w][1], acc.pos[w][2], shape[w])
            THEN [acc EXCEPT !.mat = ReserveCells(@, w, Rect(acc.pos[w][1], acc.pos[w][2], shape[w]))]
            ELSE acc
        kept == FoldLeft(Keep, b, Order)
        Reinsert(acc, w) ==
            IF w \in placed /\ w \notin Range(kept.mat)
            THEN LET c == SearchFreeSpace(acc.mat, shape[w]) IN
                 [mat |-> ReserveCells(acc.mat, w, Rect(c[1], c[2], shape[w])),
                  pos |-> [acc.pos EXCEPT ![w] = c]]
            ELSE acc
    IN  FoldLeft(Reinsert, kept, Order)

\* The smart layout then moves widgets up, but `modified || moveSpaceUp(...)`
\* does so only until something has been moved.
UpUntilMoved(b, modified) ==
    LET Up(acc, w) ==
            IF acc.modified \/ w \notin placed THEN acc
            ELSE LET n == MoveSpaceUp(shape, acc.b, w) IN [b |-> n, modified |-> n # acc.b]
    IN  FoldLeft(Up, [b |-> b, modified |-> modified], Order).b

Initialize ==
    /\ ~initialized
    /\ initialized' = TRUE
    /\ LET b == Reinserted(board) IN
       board' = IF smart THEN UpUntilMoved(b, b.pos # board.pos) ELSE b
    /\ tight' = Compact(shape, board')
    /\ UNCHANGED <<smart, placed, shape, move, stretching, strayed>>

\* Deep boards, and what comes after a drag that went astray, are not followed.
Followed == /\ initialized /\ ~strayed
            /\ \A w \in placed : board.pos[w][2] + shape[w].height <= Depth
Ready == Followed /\ move = NoMove /\ stretching = NoStretch

\* addWidget: of one that does not fit in the columns, as far left as needed.
AddWidgetAt(w, s, x, y) ==
    /\ Ready /\ w \notin placed
    /\ placed' = placed \cup {w}
    /\ shape' = [shape EXCEPT ![w] = s]
    /\ LET left == IF s.width + x > Columns THEN Columns - s.width ELSE x IN
       board' = InsertWidget(shape', board, w, left, y)
    /\ UNCHANGED <<smart, initialized, move, stretching, tight, strayed>>

\* (a widget out of the layout has no place: its position and shape are reset)
RemoveWidgetFrom(w) ==
    /\ Ready /\ w \in placed
    /\ placed' = placed \ {w}
    /\ board' = [RemoveFromMatrix(shape, board, w) EXCEPT !.pos[w] = <<0, 0>>]
    /\ shape' = [shape EXCEPT ![w] = CHOOSE s \in Shapes : TRUE]
    /\ UNCHANGED <<smart, initialized, move, stretching, tight, strayed>>

----------------------------------------------------------------------------
(* Dragging a widget.                                                        *)

WithCursor(w) == [v \in Widgets \cup {Cursor} |-> IF v = Cursor THEN shape[w] ELSE shape[v]]

\* initializeMove: the backup is the board without the widget.
InitializeMove(w) ==
    /\ Ready /\ w \in placed
    /\ move' = [widget |-> w, cursor |-> board.pos[w], lost |-> FALSE, overTab |-> FALSE,
                backup |-> RemoveFromMatrix(shape, board, w), shadow |-> board.mat]
    /\ UNCHANGED <<smart, initialized, placed, shape, board, stretching, tight, strayed>>

\* moveTemporally: the cursor is put into a copy of the backup, and the others
\* take the positions they have there; not when the cursor was lost, which
\* only brings it back where the widget was.
MoveTemporally(x, y) ==
    /\ move # NoMove /\ ~move.overTab
    /\ x + shape[move.widget].width <= Columns
    /\ move.lost \/ move.cursor # <<x, y>>
    /\ LET w == move.widget
           b == InsertWidget(WithCursor(w), move.backup, Cursor, x, y)
       IN  IF move.lost
           THEN /\ move' = [move EXCEPT !.shadow = b.mat, !.lost = FALSE, !.cursor = board.pos[w]]
                /\ board' = board
           ELSE /\ move' = [move EXCEPT !.shadow = b.mat, !.cursor = b.pos[Cursor]]
                /\ board' = [board EXCEPT !.pos = [v \in Widgets \cup {Cursor} |->
                                IF v \in placed \ {w} THEN b.pos[v] ELSE board.pos[v]]]
    /\ UNCHANGED <<smart, initialized, placed, shape, stretching, tight, strayed>>

\* The mouse enters the tab of another dashboard page, or leaves it.
EnterTab ==
    /\ move # NoMove /\ ~move.overTab
    /\ move' = [move EXCEPT !.overTab = TRUE, !.lost = TRUE]
    /\ UNCHANGED <<smart, initialized, placed, shape, board, stretching, tight, strayed>>
LeaveTab ==
    /\ move # NoMove /\ move.overTab
    /\ move' = [move EXCEPT !.overTab = FALSE]
    /\ UNCHANGED <<smart, initialized, placed, shape, board, stretching, tight, strayed>>

Agrees(b) == \A c \in Cells : \A w \in Widgets :
    (b.mat[c] = w) <=> (w \in placed /\ c \in Rect(b.pos[w][1], b.pos[w][2], shape[w]))

\* Mutant: the cells of the cursor are not given to the widget.
AcceptShadow ==
    /\ move # NoMove /\ ~move.lost
    /\ board' = [pos |-> [board.pos EXCEPT ![move.widget] = move.cursor], mat |-> move.shadow]
    /\ move' = NoMove
    /\ UNCHANGED <<smart, initialized, placed, shape, stretching, tight, strayed>>

\* acceptMove: the board takes the shadow only if the widget moved.
AcceptMove ==
    /\ move # NoMove /\ ~move.lost
    /\ LET w == move.widget  c == move.cursor IN
       board' = [pos |-> [board.pos EXCEPT ![w] = c],
                 mat |-> IF c # board.pos[w]
                         THEN ReserveCells(move.shadow, w, Rect(c[1], c[2], shape[w]))
                         ELSE board.mat]
    /\ strayed' = (strayed \/ (move.cursor = board.pos[move.widget] /\ ~Agrees(board')))
    /\ move' = NoMove
    /\ UNCHANGED <<smart, initialized, placed, shape, stretching, tight>>

\* The widget is dropped on a tab: cancelMove sets each position to itself, and
\* moveToLayout takes the widget away.
DropOnTab ==
    /\ move # NoMove /\ move.overTab
    /\ LET w == move.widget IN
       /\ strayed' = (strayed \/ ~Agrees(board))
       /\ placed' = placed \ {w}
       /\ board' = [RemoveFromMatrix(shape, board, w) EXCEPT !.pos[w] = <<0, 0>>]
       /\ shape' = [shape EXCEPT ![w] = CHOOSE s \in Shapes : TRUE]
    /\ move' = NoMove
    /\ UNCHANGED <<smart, initialized, stretching, tight>>

----------------------------------------------------------------------------
(* Resizing a widget (_notifyResizeEvent).                                   *)

\* What is in the way of rows y to last, in columns x and on, goes below last.
MakeRoom(sh, b, x, width, y, last) ==
    LET Push(acc, c) == LET r == First(acc.mat, c, y, last)  v == At(acc.mat, c, r) IN
                        IF r = None THEN acc ELSE MoveSpaceDown(sh, acc, v, last + 1 - acc.pos[v][2])
    IN  FoldLeft(Push, b, ColumnsFrom(x, width))

\* The first step: the columns the widget gains or gives up, on either side.
Widened(sh, b, w, old, left) ==
    LET x == b.pos[w][1]  y == b.pos[w][2]  diff == sh[w].width - old.width
        at == IF left THEN x - diff ELSE x + old.width
        room == MakeRoom(sh, b, at, diff, y, y + sh[w].height - 1)
    IN  [mat |-> ReserveCells(room.mat, w, Rect(at, y, [width |-> diff, height |-> sh[w].height])),
         pos |-> [room.pos EXCEPT ![w] = IF left THEN <<at, y>> ELSE @]]
Narrowed(sh, b, w, old, left) ==
    LET x == b.pos[w][1]  y == b.pos[w][2]  diff == old.width - sh[w].width
        at == IF left THEN x ELSE x + sh[w].width
        freed == [b EXCEPT !.mat = ClearCells(@, Rect(at, y, [old EXCEPT !.width = diff]))]
        closed == IF smart THEN CloseGap(sh, freed, at, diff, y + old.height) ELSE freed
    IN  [closed EXCEPT !.pos[w] = IF left THEN <<x + diff, y>> ELSE @]

\* The second step: the rows, in the columns x on that the widget had and keeps.
\* Each widget found in a row goes below the last one.
Heightened(sh, b, w, old, x, width) ==
    LET y == b.pos[w][2]  limit == y + sh[w].height
        PushRow(acc, r) == FoldLeft(LAMBDA a, c : LET v == At(a.mat, c, r) IN
                                        IF v = Nobody THEN a ELSE MoveSpaceDown(sh, a, v, limit - r),
                                    acc, ColumnsFrom(x, width))
        room == FoldLeft(PushRow, b, ColumnsFrom(y + old.height, sh[w].height - old.height))
    IN  [room EXCEPT !.mat = ReserveCells(@, w,
            Rect(x, y + old.height, [width |-> width, height |-> sh[w].height - old.height]))]
Lowered(sh, b, w, old, x, width) ==
    LET y == b.pos[w][2]
        freed == [b EXCEPT !.mat = ClearCells(@,
            Rect(x, y + sh[w].height, [width |-> width, height |-> old.height - sh[w].height]))]
    IN  IF smart THEN CloseGap(sh, freed, x, width, y + old.height) ELSE freed

Reshaped(sh, b, w, old, x, width) ==
    CASE sh[w].height > old.height -> Heightened(sh, b, w, old, x, width)
      [] sh[w].height < old.height -> Lowered(sh, b, w, old, x, width)
      [] OTHER -> b

Resized(sh, b, w, old, left) ==
    CASE sh[w].width > old.width ->
             Reshaped(sh, Widened(sh, b, w, old, left), w, old, b.pos[w][1], old.width)
      [] sh[w].width < old.width ->
             Reshaped(sh, Narrowed(sh, b, w, old, left), w, old,
                      b.pos[w][1] + (IF left THEN old.width - sh[w].width ELSE 0), sh[w].width)
      [] OTHER -> Reshaped(sh, b, w, old, b.pos[w][1], old.width)

\* The handle is dragged: setShape, without persist.
Stretch(w, s, left) ==
    /\ Followed /\ move = NoMove
    /\ w \in placed /\ stretching.widget \in {Nobody, w} /\ s # shape[w]
    /\ IF left THEN board.pos[w][1] + shape[w].width >= s.width
       ELSE board.pos[w][1] + s.width <= Columns
    /\ shape' = [shape EXCEPT ![w] = s]
    /\ board' = Resized(shape', board, w, shape[w], left)
    /\ stretching' = IF stretching = NoStretch THEN [widget |-> w, from |-> shape[w]] ELSE stretching
    /\ UNCHANGED <<smart, initialized, placed, move, tight, strayed>>

\* onresizeend persists, and closes the gap above the widget, only if the
\* shape is not the one it began with.
EndStretch ==
    /\ stretching # NoStretch
    /\ LET w == stretching.widget IN
       board' = IF smart /\ shape[w] # stretching.from THEN MoveSpaceUp(shape, board, w) ELSE board
    /\ stretching' = NoStretch
    /\ tight' = (tight /\ (shape[stretching.widget] # stretching.from \/ Compact(shape, board')))
    /\ UNCHANGED <<smart, initialized, placed, shape, move, strayed>>

\* setMinimizeStatus: another height, persisted at once.
Minimize(w, h) ==
    /\ Ready /\ w \in placed /\ h # shape[w].height /\ [shape[w] EXCEPT !.height = h] \in Shapes
    /\ shape' = [shape EXCEPT ![w].height = h]
    /\ board' = MovedUp(shape', Resized(shape', board, w, shape[w], FALSE), w)
    /\ UNCHANGED <<smart, initialized, placed, move, stretching, tight, strayed>>

LayoutNext ==
    \/ Initialize
    \/ \E w \in Widgets, s \in Shapes, x \in 0..(Columns - 1), y \in 0..MaxY : AddWidgetAt(w, s, x, y)
    \/ \E w \in Widgets : RemoveWidgetFrom(w)
    \/ \E w \in Widgets : InitializeMove(w)
    \/ \E x \in 0..(Columns - 1), y \in 0..MaxY : MoveTemporally(x, y)
    \/ EnterTab
    \/ LeaveTab
    \/ AcceptMove
    \/ DropOnTab
    \/ \E w \in Widgets, s \in Shapes, left \in BOOLEAN : Stretch(w, s, left)
    \/ EndStretch
    \/ \E w \in Widgets, h \in {s.height : s \in Shapes} : Minimize(w, h)

----------------------------------------------------------------------------
LayoutTypeOK ==
    /\ placed \subseteq Widgets
    /\ shape \in [Widgets -> Shapes]
    /\ board.mat \in [Cells -> placed \cup {Nobody}]
    /\ \A w \in placed : board.pos[w] \in Cells
    /\ move.widget \in placed \cup {Nobody}
    /\ stretching.widget \in placed \cup {Nobody}

\* The matrix says of each cell which widget covers it: widgets do not overlap
\* and stay within the columns, whatever was added, removed, dragged, resized,
\* or stored before; except after a drag that ends on another tab, or where it
\* began, and had moved the others.
MatrixAgrees == initialized /\ move = NoMove => strayed \/ Agrees(board)

\* A board of the smart layout that is opened without gaps keeps none, whatever
\* is added, removed, dragged, minimized or resized.
StaysCompact == smart /\ tight /\ Ready => Compact(shape, board)
=============================================================================
