---------------------------- MODULE PanelProofs ------------------------------
(***************************************************************************)
(* For screens of any size, and a mouse that moves in any way: the pointer *)
(* stays on the screen, the squares stay apart, and a click is taken for   *)
(* the node that is drawn where the pointer is.                            *)
(***************************************************************************)
EXTENDS Panel, TLAPS

(* Seven squares and their gaps, one after the other                       *)
LEMMA Multiples ==
  ASSUME NEW s \in Nat, NEW j \in 0..6, NEW k \in 0..6
  PROVE  /\ j * s \in Nat /\ j * s <= 6 * s
         /\ j < k => j * s + s <= k * s
<1>1. \A m \in 0..6 : m = 0 \/ m = 1 \/ m = 2 \/ m = 3 \/ m = 4 \/ m = 5 \/ m = 6
  OBVIOUS
<1>2. /\ 0 * s = 0 /\ 1 * s = s /\ 2 * s = s + s /\ 3 * s = 2 * s + s
      /\ 4 * s = 3 * s + s /\ 5 * s = 4 * s + s /\ 6 * s = 5 * s + s
  OBVIOUS
<1> QED
  BY <1>1, <1>2

(* What the sizes of screens imply for the places of the squares           *)
SizeOK ==
  /\ fb_w_px \in Nat /\ fb_h_px \in Nat
  /\ fb_w_px >= 142 /\ fb_h_px >= 102

LEMMA Layout ==
  ASSUME SizeOK
  PROVE  /\ cell \in Nat /\ cell >= 8 /\ step \in Nat /\ step = cell + 2
         /\ fb_split_x \in Nat /\ fb_split_x < fb_w_px
         /\ off_x \in Int /\ off_x > fb_split_x
         /\ off_x + 6 * step + cell <= fb_w_px
         /\ off_y \in Int /\ off_y >= 16
         /\ off_y + 6 * step + cell <= fb_h_px - 16
         /\ panel_h \in Nat /\ panel_h = fb_h_px - 32
         /\ panel_w \in Nat /\ 7 * cell + 14 <= panel_w
         /\ 2 * off_y <= panel_h - 7 * step + 34
<1>1. /\ fb_split_x \in Nat /\ fb_split_x < fb_w_px
      /\ panel_w \in Nat /\ panel_w >= 70 /\ fb_split_x + 1 + panel_w = fb_w_px
      /\ panel_h \in Nat /\ panel_h >= 70 /\ 16 + panel_h = fb_h_px - 16
  BY DEF SizeOK, fb_split_x, panel_w, panel_h
<1>2. /\ cell \in Nat /\ cell >= 8
      /\ 7 * cell + 14 <= panel_w /\ 7 * cell + 14 <= panel_h
  <2> DEFINE m == Smaller(panel_w, panel_h)
  <2>1. m \in Nat /\ m >= 70 /\ m <= panel_w /\ m <= panel_h
    BY <1>1 DEF Smaller
  <2>2. /\ (m - 14) \div 7 \in Nat /\ (m - 14) \div 7 >= 8
        /\ 7 * ((m - 14) \div 7) <= m - 14
    BY <2>1
  <2> DEFINE q == (m - 14) \div 7
  <2>3. q \in Nat /\ q >= 8 /\ 7 * q <= m - 14
    BY <2>2
  <2>4. cell = Larger(8, q)
    BY DEF cell
  <2> HIDE DEF m, q
  <2>5. cell = q
    BY <2>3, <2>4 DEF Larger
  <2> QED
    BY <1>1, <2>1, <2>3, <2>5
<1>3. step \in Nat /\ step = cell + 2
  BY <1>2 DEF step
<1>4. /\ off_x \in Int /\ off_x > fb_split_x
      /\ off_x + 6 * step + cell <= fb_w_px
  <2> DEFINE d == (panel_w - 7 * step + 2) \div 2
  <2>1. d \in Int /\ d >= 1 /\ 2 * d <= panel_w - 7 * step + 2
    BY <1>1, <1>2, <1>3
  <2>2. off_x = fb_split_x + 1 + d
    BY DEF off_x
  <2> HIDE DEF d
  <2> QED
    BY <1>1, <1>2, <1>3, <2>1, <2>2
<1>5. /\ off_y \in Int /\ off_y >= 16
      /\ off_y + 6 * step + cell <= fb_h_px - 16
      /\ 2 * off_y <= panel_h - 7 * step + 34
  <2> DEFINE d == (panel_h - 7 * step + 2) \div 2
  <2>1. d \in Int /\ d >= 1 /\ 2 * d <= panel_h - 7 * step + 2
    BY <1>1, <1>2, <1>3
  <2>2. off_y = 16 + d
    BY DEF off_y
  <2> HIDE DEF d
  <2> QED
    BY <1>1, <1>2, <1>3, <2>1, <2>2
<1> QED
  BY <1>1, <1>2, <1>3, <1>4, <1>5 DEF panel_h

(* Each row and each column is within the panel and apart from the others. *)
LEMMA Squares ==
  ASSUME SizeOK, NEW i \in 0..6, NEW j \in 0..6
  PROVE  /\ NX(i) \in Int /\ NX(i) > fb_split_x /\ NX(i) + cell <= fb_w_px
         /\ NY(i) \in Int /\ NY(i) >= 16 /\ NY(i) + cell <= fb_h_px - 16
         /\ i < j => NX(i) + cell < NX(j) /\ NY(i) + cell < NY(j)
<1> DEFINE a == i * step
           b == j * step
<1>1. a \in Nat /\ b \in Nat /\ a <= 6 * step /\ (i < j => a + step <= b)
  <2>1. step \in Nat
    BY Layout
  <2> QED
    BY <2>1, Multiples
<1>2. NX(i) = off_x + a /\ NY(i) = off_y + a /\ NX(j) = off_x + b /\ NY(j) = off_y + b
  BY DEF NX, NY
<1> HIDE DEF a, b
<1>3. fb_w_px \in Nat /\ fb_h_px \in Nat
  BY DEF SizeOK
<1> QED
  BY <1>1, <1>2, <1>3, Layout

-----------------------------------------------------------------------------
(* The screen has one of the sizes, and keeps it.                          *)
LEMMA TypeImpliesSize ==
  ASSUME TypeOK
  PROVE  SizeOK
BY PanelAssumption DEF TypeOK, SizeOK, size

(* What fb_node_hit_test computes is what fb_draw_node_grid computes.      *)
LEMMA SamePlaces ==
  /\ hit_cell = cell
  /\ \A r \in 0..6 : hit_off_y + r * hit_step = NY(r)
  /\ \A c \in 0..6 : hit_off_x + c * hit_step = NX(c)
<1>1. hit_panel_w = panel_w /\ hit_panel_h = panel_h
  BY DEF hit_panel_w, hit_panel_h, panel_w, panel_h
<1>2. hit_cell = cell
  BY <1>1 DEF hit_cell, cell
<1>3. hit_step = step
  BY <1>2 DEF hit_step, step
<1>4. hit_off_x = off_x /\ hit_off_y = off_y
  BY <1>1, <1>3 DEF hit_off_x, hit_off_y, off_x, off_y
<1> QED
  BY <1>2, <1>3, <1>4 DEF NX, NY

(* Two nodes are not in the same place.                                    *)
LEMMA HitsAreSquares ==
  ASSUME SizeOK, NEW x \in Int, NEW y \in Int
  PROVE  /\ \A r, c \in 0..6 :
              InSquare(r, c, x, y) => fb_node_hit_test(x, y) = {7 * r + c}
         /\ (\A r, c \in 0..6 : ~ InSquare(r, c, x, y))
              => fb_node_hit_test(x, y) = {}
<1> DEFINE R == {s \in 0..6 : y >= NY(s) /\ y < NY(s) + cell}
           C == {d \in 0..6 : x >= NX(d) /\ x < NX(d) + cell}
<1>1. cell \in Nat /\ fb_w_px \in Nat /\ fb_h_px \in Nat /\ fb_split_x \in Nat
  BY Layout DEF SizeOK
<1>2. \A i, j \in 0..6 :
        /\ NX(i) \in Int /\ NX(i) > fb_split_x /\ NX(i) + cell <= fb_w_px
        /\ NY(i) \in Int /\ NY(i) >= 16 /\ NY(i) + cell <= fb_h_px - 16
        /\ i < j => NX(i) + cell < NX(j) /\ NY(i) + cell < NY(j)
  BY Squares
<1>3. \A r, c \in 0..6 : InSquare(r, c, x, y) <=> r \in R /\ c \in C
  BY <1>1, <1>2 DEF InSquare, Within
<1>4. fb_node_hit_test(x, y) =
        IF x <= fb_split_x \/ x >= fb_w_px \/ y < 16 \/ y >= fb_h_px - 16
        THEN {} ELSE {7 * r + c : r \in R, c \in C}
  <2> DEFINE S == {s \in 0..6 : Hit(y, hit_off_y + s * hit_step)}
             D == {d \in 0..6 : Hit(x, hit_off_x + d * hit_step)}
  <2>1. S = R /\ D = C
    BY SamePlaces DEF Hit
  <2>2. fb_node_hit_test(x, y) =
          IF x <= fb_split_x \/ x >= fb_w_px \/ y < 16 \/ y >= fb_h_px - 16
          THEN {} ELSE {7 * r + c : r \in S, c \in D}
    BY DEF fb_node_hit_test
  <2> HIDE DEF S, D, R, C
  <2> QED
    BY <2>1, <2>2
<1>5. ASSUME NEW r \in 0..6, NEW c \in 0..6, InSquare(r, c, x, y)
      PROVE  fb_node_hit_test(x, y) = {7 * r + c}
  <2>1. R = {r} /\ C = {c}
    BY <1>1, <1>2, <1>3, <1>5
  <2>2. ~ (x <= fb_split_x \/ x >= fb_w_px \/ y < 16 \/ y >= fb_h_px - 16)
    BY <1>1, <1>2, <1>3, <1>5
  <2> HIDE DEF R, C
  <2> QED
    BY <1>4, <2>1, <2>2
<1>6. ASSUME \A r, c \in 0..6 : ~ InSquare(r, c, x, y)
      PROVE  fb_node_hit_test(x, y) = {}
  <2>1. R = {} \/ C = {}
    BY <1>3, <1>6
  <2> HIDE DEF R, C
  <2> QED
    BY <1>4, <2>1
<1> QED
  BY <1>5, <1>6

LEMMA HitsAreNodes ==
  ASSUME SizeOK, NEW x \in Int, NEW y \in Int
  PROVE  fb_node_hit_test(x, y) \subseteq Nodes
<1>1. \A r, c \in 0..6 : 7 * r + c \in 0..48
  OBVIOUS
<1> QED
  BY <1>1 DEF fb_node_hit_test, Nodes

LEMMA ClampBounds ==
  ASSUME NEW v \in Int, NEW bound \in Nat, bound > 0
  PROVE  clamp(v, bound) \in 0..bound - 1
BY DEF clamp

LEMMA PlacesAreNodes ==
  ASSUME NEW x, NEW y
  PROVE  NodesAt(x, y) \subseteq Nodes
<1>1. \A r, c \in 0..6 : 7 * r + c \in 0..48
  OBVIOUS
<1> QED
  BY <1>1 DEF NodesAt, Nodes

(* What a release makes of the selection                                   *)
LEMMA Chosen ==
  ASSUME TypeOK, look_for_click
  PROVE  /\ selected_node' \in Nodes \cup {-1}
         /\ ClickStep
<1>1. SizeOK /\ mouse_x \in Int /\ mouse_y \in Int
  BY TypeImpliesSize DEF TypeOK, SizeOK
<1> DEFINE hits == fb_node_hit_test(mouse_x, mouse_y)
           hit  == CHOOSE n \in hits : \A o \in hits : n <= o
<1>2. selected_node' = IF ~ Released \/ hits = {} THEN selected_node
                       ELSE IF hit = selected_node THEN -1 ELSE hit
  BY DEF look_for_click
<1>3. CASE ~ Released
  BY <1>2, <1>3 DEF ClickStep, TypeOK
<1>4. CASE Released /\ \A r, c \in 0..6 : ~ InSquare(r, c, mouse_x, mouse_y)
  <2>1. hits = {}
    BY <1>1, <1>4, HitsAreSquares
  <2> QED
    BY <1>2, <1>4, <2>1 DEF ClickStep, TypeOK
<1>5. CASE Released /\ \E r, c \in 0..6 : InSquare(r, c, mouse_x, mouse_y)
  <2>1. PICK r \in 0..6, c \in 0..6 : InSquare(r, c, mouse_x, mouse_y)
    BY <1>5
  <2>2. hits = {7 * r + c} /\ 7 * r + c \in 0..48
    BY <1>1, <2>1, HitsAreSquares
  <2>3. hit = 7 * r + c
    BY <2>2
  <2>4. Drawn(r, c)
    BY <1>1, Squares, Layout DEF Drawn, SizeOK
  <2>5. selected_node' = IF selected_node = 7 * r + c THEN -1 ELSE 7 * r + c
    BY <1>2, <1>5, <2>2, <2>3
  <2> HIDE DEF hits, hit
  <2> QED
    BY <1>5, <2>1, <2>2, <2>4, <2>5 DEF ClickStep, Nodes
<1> QED
  BY <1>3, <1>4, <1>5

LEMMA TypePreserved ==
  ASSUME TypeOK, [Next]_vars
  PROVE  TypeOK'
<1>1. SizeOK
  BY TypeImpliesSize
<1>2. ASSUME NEW right \in MOVES, NEW up \in MOVES, NEW left_button \in BOOLEAN,
             mouse_poll(right, up, left_button)
      PROVE  TypeOK'
  <2>1. right \in Int /\ up \in Int
    BY PanelAssumption
  <2>2. signed(right % 256) \in Int /\ signed(up % 256) \in Int
    BY <2>1 DEF signed
  <2> DEFINE v == mouse_x + signed(right % 256)
             w == mouse_y - signed(up % 256)
  <2>3. mouse_x' \in 0..fb_w_px - 1 /\ mouse_y' \in 0..fb_h_px - 1
    <3>1. /\ fb_w_px \in Nat /\ fb_w_px > 0 /\ fb_h_px \in Nat /\ fb_h_px > 0
          /\ mouse_x \in Int /\ mouse_y \in Int
      BY <1>1 DEF SizeOK, TypeOK
    <3>2. v \in Int /\ w \in Int
      BY <2>2, <3>1
    <3>3. mouse_x' = clamp(v, fb_w_px) /\ mouse_y' = clamp(w, fb_h_px)
      BY <1>2 DEF mouse_poll
    <3> HIDE DEF v, w
    <3> QED
      BY <3>1, <3>2, <3>3, ClampBounds
  <2> HIDE DEF v, w
  <2>4. released_on' \subseteq Nodes
    BY <1>2, PlacesAreNodes DEF mouse_poll, TypeOK
  <2> QED
    BY <1>2, <2>3, <2>4 DEF mouse_poll, TypeOK, size
<1>3. CASE look_for_click
  BY <1>3, Chosen DEF look_for_click, TypeOK, size, pointer
<1>4. CASE UNCHANGED vars
  BY <1>4 DEF vars, TypeOK, size, pointer
<1> QED
  BY <1>2, <1>3, <1>4 DEF Next

-----------------------------------------------------------------------------
(* The pointer stays on the screen, whatever the mouse sends.              *)
THEOREM TypeCorrect == Spec => []TypeOK
<1>1. Init => TypeOK
  <2> SUFFICES ASSUME Init PROVE TypeOK
    OBVIOUS
  <2>1. PICK s \in SIZES : fb_w_px = s[1] /\ fb_h_px = s[2]
    BY DEF Init
  <2>2. s \in Nat \X Nat /\ s[1] >= 142 /\ s[2] >= 102
    BY PanelAssumption
  <2>3. size \in SIZES
    BY <2>1, <2>2 DEF size
  <2>4. /\ fb_w_px \div 2 \in 0..fb_w_px - 1
        /\ fb_h_px \div 2 \in 0..fb_h_px - 1
    <3>1. fb_w_px \in Nat /\ fb_w_px >= 142 /\ fb_h_px \in Nat /\ fb_h_px >= 102
      BY <2>1, <2>2
    <3> QED
      BY <3>1
  <2> QED
    BY <2>3, <2>4 DEF Init, TypeOK
<1> QED
  BY <1>1, TypePreserved, PTL DEF Spec

(* The squares are apart and within the panel on every screen.             *)
THEOREM SquaresStayApart == Spec => []SquaresApart
<1>1. TypeOK => SquaresApart
  <2> SUFFICES ASSUME TypeOK, NEW i \in 0..6
               PROVE  /\ Drawn(i, i)
                      /\ NX(i) > fb_split_x /\ NY(i) >= 16
                      /\ NY(i) + cell <= fb_h_px - 16
                      /\ i < 6 => /\ NX(i) + cell < NX(i + 1)
                                  /\ NY(i) + cell < NY(i + 1)
    BY DEF SquaresApart
  <2>1. SizeOK
    BY TypeImpliesSize
  <2>2. /\ NX(i) \in Int /\ NX(i) > fb_split_x /\ NX(i) + cell <= fb_w_px
        /\ NY(i) \in Int /\ NY(i) >= 16 /\ NY(i) + cell <= fb_h_px - 16
    BY <2>1, Squares
  <2>3. i < 6 => NX(i) + cell < NX(i + 1) /\ NY(i) + cell < NY(i + 1)
    <3> SUFFICES ASSUME i < 6
                 PROVE  NX(i) + cell < NX(i + 1) /\ NY(i) + cell < NY(i + 1)
      OBVIOUS
    <3>1. i + 1 \in 0..6 /\ i < i + 1
      OBVIOUS
    <3> QED
      BY <2>1, <3>1, Squares
  <2>4. Drawn(i, i)
    BY <2>1, <2>2, Layout DEF Drawn, SizeOK
  <2> QED
    BY <2>2, <2>3, <2>4
<1> QED
  BY <1>1, TypeCorrect, PTL

(* Where the panel is higher than wide by 94 the box with the details is   *)
(* below the squares.                                                      *)
THEOREM DetailIsApart == Spec => []DetailApart
<1>1. TypeOK => DetailApart
  <2> SUFFICES ASSUME TypeOK, panel_h >= panel_w + 94, NEW r \in 0..6
               PROVE  NY(r) + cell <= detail_y
    BY DEF DetailApart
  <2>1. SizeOK /\ fb_h_px \in Nat
    BY TypeImpliesSize DEF SizeOK
  <2> DEFINE a == r * step
  <2>2. a \in Nat /\ a <= 6 * step
    BY <2>1, Layout, Multiples
  <2>3. NY(r) = off_y + a
    BY DEF NY
  <2> HIDE DEF a
  <2>4. detail_y = panel_h - 32
    BY <2>1, Layout DEF detail_y
  <2>5. 2 * (off_y + 6 * step + cell) <= 2 * (panel_h - 32)
    BY <2>1, Layout
  <2> QED
    BY <2>1, <2>2, <2>3, <2>4, <2>5, Layout
<1> QED
  BY <1>1, TypeCorrect, PTL

(* fb_node_hit_test, which computes the places of the nodes again, takes a *)
(* click for the node that fb_draw_node_grid has drawn where the pointer   *)
(* is when the loop looks, and for no other.                               *)
THEOREM ClicksSelectSquares == Spec => ClickSelectsSquare
<1>1. TypeOK /\ [Next]_vars => [ClickStep]_vars
  <2> SUFFICES ASSUME TypeOK, Next
               PROVE  ClickStep \/ UNCHANGED vars
    OBVIOUS
  <2>1. CASE look_for_click
    BY <2>1, Chosen
  <2>2. ASSUME NEW right \in MOVES, NEW up \in MOVES, NEW left_button \in BOOLEAN,
               mouse_poll(right, up, left_button)
        PROVE  ClickStep \/ UNCHANGED vars
    <3>1. CASE look_for_click
      BY <3>1, Chosen
    <3>2. CASE ~ look_for_click
      BY <2>2, <3>2 DEF mouse_poll, ClickStep
    <3> QED
      BY <3>1, <3>2
  <2> QED
    BY <2>1, <2>2 DEF Next
<1> QED
  BY <1>1, TypeCorrect, PTL DEF Spec, ClickSelectsSquare
=============================================================================
