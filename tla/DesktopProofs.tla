---------------------------- MODULE DesktopProofs -----------------------------
(***************************************************************************)
(* Screens of any size, lines of any length, a pointer of any shape: what  *)
(* is printed is on the paper, the terminal keeps to its part of the       *)
(* screen, and the pointer leaves no trace.                                *)
(***************************************************************************)
EXTENDS Desktop, SequenceTheorems, FiniteSetTheorems, TLAPS

(***************************************************************************)
(* Induction, without an operator as a parameter: the least of a set of    *)
(* numbers is there since no set of finite sets descends for ever.         *)
(***************************************************************************)
LEMMA LeastOf ==
  ASSUME NEW T \in SUBSET Nat, T # {}
  PROVE  \E n \in T : \A m \in T : n <= m
<1> DEFINE Upto == {0..n : n \in T}
<1>1. Upto \subseteq FiniteSubsetsOf(Nat) /\ Upto # {}
  <2>1. ASSUME NEW n \in T PROVE 0..n \in FiniteSubsetsOf(Nat)
    <3>1. 0..n \in SUBSET Nat /\ IsFiniteSet(0..n)
      BY FS_Interval
    <3> QED
      BY <3>1 DEF FiniteSubsetsOf
  <2> QED
    BY <2>1
<1>2. PICK S \in Upto : \A R \in Upto : <<R, S>> \notin StrictSubsetOrdering(Nat)
  <2> HIDE DEF Upto
  <2> QED
    BY <1>1, FS_StrictSubsetOrderingWellFounded, WFMin
<1>3. PICK n \in T : S = 0..n
  BY <1>2
<1>4. ASSUME NEW m \in T, m < n PROVE FALSE
  <2>1. <<0..m, 0..n>> \notin StrictSubsetOrdering(Nat)
    BY <1>2, <1>3
  <2>2. /\ 0..m \subseteq Nat /\ 0..n \subseteq Nat
        /\ 0..m \subseteq 0..n /\ 0..m # 0..n
    BY <1>4
  <2> QED
    BY <2>1, <2>2 DEF StrictSubsetOrdering
<1> QED
  BY <1>3, <1>4

LEMMA Induction ==
  ASSUME NEW S, 0 \in S, \A n \in Nat : n \in S => n + 1 \in S
  PROVE  \A n \in Nat : n \in S
<1> DEFINE T == Nat \ S
<1>1. SUFFICES ASSUME T # {} PROVE FALSE
  OBVIOUS
<1>2. PICK n \in T : \A m \in T : n <= m
  BY <1>1, LeastOf
<1>3. n \in Nat \ {0} /\ n - 1 \in Nat
  BY <1>2
<1>4. n - 1 \in S
  BY <1>2, <1>3
<1> QED
  BY <1>2, <1>3, <1>4

-----------------------------------------------------------------------------
(***************************************************************************)
(* The paper.  Both screens show rows top to bottom of it, cols wide.      *)
(***************************************************************************)
INKS           == CHARS \cup DESKS \cup {BLANK, INK}
TextRows(cols) == [0..cols-1 -> INKS]
Blanks(cols)   == [c \in 0..cols-1 |-> BLANK]

IsText(t, top, bottom, cols) ==
  /\ t.gone \in Seq(TextRows(cols)) /\ t.row \in top..bottom
  /\ \A r \in top..bottom : RowOf(t, r, cols) \in TextRows(cols)
  /\ \A r \in top..bottom : r > t.row => RowOf(t, r, cols) = Blanks(cols)

(* What a new line, and a character in column col, do to the rows          *)
Fed(t, u, top, bottom, cols) ==
  \/ /\ t.row < bottom /\ u.row = t.row + 1 /\ u.gone = t.gone
     /\ \A r \in top..bottom : RowOf(u, r, cols) = RowOf(t, r, cols)
  \/ /\ t.row = bottom /\ u.row = bottom
     /\ u.gone = Append(t.gone, RowOf(t, top, cols))
     /\ \A r \in top..bottom :
          RowOf(u, r, cols) = IF r < bottom THEN RowOf(t, r + 1, cols) ELSE Blanks(cols)

Written(t, u, col, c, top, bottom, cols) ==
  /\ u.row = t.row /\ u.gone = t.gone
  /\ \A r \in top..bottom :
       RowOf(u, r, cols) = IF r = t.row THEN [RowOf(t, r, cols) EXCEPT ![col] = c]
                                        ELSE RowOf(t, r, cols)

PaperPut(rows, col, c) == [rows EXCEPT ![Len(rows)] = [@ EXCEPT ![col] = c]]

(* What Shown shows                                                        *)
Showing(s, t, n, a, top, cols) ==
  /\ s \in Seq(TextRows(cols)) /\ n \in Nat /\ a \in Nat
  /\ a >= top /\ Len(s) = n + a - top + 1
  /\ \A j \in 1..n : s[j] = t.gone[j]
  /\ \A j \in n+1..n + a - top + 1 : s[j] = RowOf(t, top + j - n - 1, cols)

LEMMA FunctionIsSeq ==
  ASSUME NEW S, NEW m \in Nat, NEW w \in [1..m -> S]
  PROVE  w \in Seq(S) /\ Len(w) = m
<1>1. w \in Seq(S)
  BY SeqDef
<1> DEFINE n == Len(w)
<1>2. n \in Nat /\ 1..n = 1..m
  BY <1>1, LenProperties
<1> HIDE DEF n
<1>3. n = m
  <2>1. ASSUME n < m PROVE FALSE
    <3>1. m \in 1..m /\ m \notin 1..n
      BY <1>2, <2>1
    <3> QED
      BY <1>2, <3>1
  <2>2. ASSUME m < n PROVE FALSE
    <3>1. n \in 1..n /\ n \notin 1..m
      BY <1>2, <2>2
    <3> QED
      BY <1>2, <3>1
  <2> QED
    BY <1>2, <2>1, <2>2
<1> QED
  BY <1>1, <1>3 DEF n

LEMMA ShownIs ==
  ASSUME NEW top \in Nat, NEW bottom \in Nat, NEW cols \in Nat, NEW t,
         IsText(t, top, bottom, cols)
  PROVE  Showing(Shown(t, top, cols), t, Len(t.gone), t.row, top, cols)
<1> DEFINE S == TextRows(cols)
           n == Len(t.gone)
           m == t.row - top + 1
           w == [i \in 1..m |-> RowOf(t, top + i - 1, cols)]
<1>1. /\ t.gone \in Seq(S) /\ t.row \in top..bottom
      /\ \A r \in top..bottom : RowOf(t, r, cols) \in S
  BY DEF IsText
<1>2. n \in Nat /\ m \in Nat
  BY <1>1, LenProperties
<1>3. ASSUME NEW i \in 1..m PROVE RowOf(t, top + i - 1, cols) \in S
  BY <1>1
<1>4. Shown(t, top, cols) = t.gone \o w
  BY DEF Shown
<1>5. \A i \in 1..m : w[i] = RowOf(t, top + i - 1, cols)
  OBVIOUS
<1> HIDE DEF S, m
<1>6. w \in [1..m -> S]
  BY <1>3
<1>7. w \in Seq(S) /\ Len(w) = m
  BY <1>2, <1>6, FunctionIsSeq
<1> HIDE DEF w
<1>8. /\ t.gone \o w \in Seq(S) /\ Len(t.gone \o w) = n + m
      /\ \A j \in 1..n + m : (t.gone \o w)[j] = IF j <= n THEN t.gone[j] ELSE w[j - n]
  BY <1>1, <1>7, ConcatProperties
<1>9. \A j \in 1..n : (t.gone \o w)[j] = t.gone[j]
  BY <1>2, <1>8
<1>10. ASSUME NEW j \in n+1..n+m
       PROVE  (t.gone \o w)[j] = RowOf(t, top + j - n - 1, cols)
  <2> HIDE DEF n
  <2>1. j - n \in 1..m /\ j \in 1..n + m /\ ~ (j <= n)
    BY <1>2
  <2>2. (t.gone \o w)[j] = w[j - n] /\ w[j - n] = RowOf(t, top + (j - n) - 1, cols)
    BY <1>5, <1>8, <2>1
  <2>3. top + (j - n) - 1 = top + j - n - 1
    BY <1>2, <2>1
  <2> QED
    BY <2>2, <2>3
<1> DEFINE a == t.row
<1>11. a \in Nat /\ a >= top /\ m = a - top + 1
  BY <1>1 DEF m
<1> HIDE DEF n, a
<1>12. n + m = n + a - top + 1
  BY <1>2, <1>11
<1>13. /\ t.gone \o w \in Seq(S) /\ n \in Nat /\ a \in Nat /\ a >= top
       /\ Len(t.gone \o w) = n + a - top + 1
       /\ \A j \in 1..n : (t.gone \o w)[j] = t.gone[j]
       /\ \A j \in n+1..n + a - top + 1 :
            (t.gone \o w)[j] = RowOf(t, top + j - n - 1, cols)
  <2>1. n+1..n+m = n+1..n + a - top + 1
    BY <1>12
  <2> QED
    BY <1>2, <1>8, <1>9, <1>10, <1>11, <1>12, <2>1
<1> QED
  BY <1>4, <1>13 DEF n, a, S, Showing

LEMMA AppendIs ==
  ASSUME NEW S, NEW s \in Seq(S), NEW B \in S, NEW m, m = Len(s)
  PROVE  /\ Append(s, B) \in Seq(S) /\ Len(Append(s, B)) = m + 1
         /\ Append(s, B)[m + 1] = B
         /\ \A j \in 1..m : Append(s, B)[j] = s[j]
BY AppendProperties, LenProperties

LEMMA RowAdded ==
  ASSUME NEW top \in Nat, NEW cols \in Nat, NEW t, NEW u, NEW n \in Nat, NEW a \in Nat,
         NEW s, NEW v, NEW B \in TextRows(cols), a >= top,
         Showing(s, t, n, a, top, cols), Showing(v, u, n, a + 1, top, cols),
         u.gone = t.gone, RowOf(u, a + 1, cols) = B,
         \A r \in top..a : RowOf(u, r, cols) = RowOf(t, r, cols)
  PROVE  v = Append(s, B)
<1> DEFINE S == TextRows(cols)
           m == n + a - top + 1
           w == Append(s, B)
<1>1. /\ s \in Seq(S) /\ Len(s) = m
      /\ \A j \in 1..n : s[j] = t.gone[j]
      /\ \A j \in n+1..m : s[j] = RowOf(t, top + j - n - 1, cols)
  BY DEF Showing
<1>2. m \in Nat /\ n + (a + 1) - top + 1 = m + 1 /\ n <= m
  OBVIOUS
<1>3. /\ v \in Seq(S) /\ Len(v) = n + (a + 1) - top + 1
      /\ \A j \in 1..n : v[j] = u.gone[j]
      /\ \A j \in n+1..n + (a + 1) - top + 1 : v[j] = RowOf(u, top + j - n - 1, cols)
  BY DEF Showing
<1>4. /\ Len(v) = m + 1
      /\ \A j \in n+1..m + 1 : v[j] = RowOf(u, top + j - n - 1, cols)
  BY <1>2, <1>3
<1> HIDE DEF S
<1>5. /\ w \in Seq(S) /\ Len(w) = m + 1 /\ w[m + 1] = B
      /\ \A j \in 1..m : w[j] = s[j]
  <2>1. B \in S
    BY DEF S
  <2> HIDE DEF m
  <2> QED
    BY <1>1, <2>1, AppendIs
<1>6. ASSUME NEW j \in 1..m + 1 PROVE v[j] = w[j]
  <2>1. CASE j <= n
    <3>1. j \in 1..n /\ j \in 1..m
      BY <2>1
    <3> HIDE DEF w, m
    <3> QED
      BY <1>1, <1>3, <1>5, <3>1
  <2>2. CASE n < j /\ j <= m
    <3>1. top + j - n - 1 \in top..a /\ j \in n+1..m /\ j \in n+1..m + 1 /\ j \in 1..m
      BY <2>2
    <3> DEFINE r == top + j - n - 1
    <3> HIDE DEF w, m, r
    <3>2. v[j] = RowOf(u, r, cols) /\ s[j] = RowOf(t, r, cols)
      BY <1>1, <1>4, <3>1 DEF r
    <3> QED
      BY <1>5, <3>1, <3>2 DEF r
  <2>3. CASE j = m + 1
    <3>1. top + j - n - 1 = a + 1 /\ j \in n+1..m + 1
      BY <1>2, <2>3
    <3> HIDE DEF w, m
    <3> QED
      BY <1>4, <1>5, <2>3, <3>1
  <2> HIDE DEF w
  <2> QED
    BY <1>2, <2>1, <2>2, <2>3
<1> HIDE DEF w, m
<1> QED
  BY <1>2, <1>3, <1>4, <1>5, <1>6, SeqEqual DEF w

LEMMA RowScrolled ==
  ASSUME NEW top \in Nat, NEW cols \in Nat, NEW t, NEW u, NEW n \in Nat, NEW a \in Nat,
         NEW s, NEW v, NEW B \in TextRows(cols), a >= top, Len(t.gone) = n,
         t.gone \in Seq(TextRows(cols)), RowOf(t, top, cols) \in TextRows(cols),
         Showing(s, t, n, a, top, cols), Showing(v, u, n + 1, a, top, cols),
         u.gone = Append(t.gone, RowOf(t, top, cols)), RowOf(u, a, cols) = B,
         \A r \in top..a : r < a => RowOf(u, r, cols) = RowOf(t, r + 1, cols)
  PROVE  v = Append(s, B)
<1> DEFINE S == TextRows(cols)
           m == n + a - top + 1
           w == Append(s, B)
<1>1. /\ s \in Seq(S) /\ Len(s) = m
      /\ \A j \in 1..n : s[j] = t.gone[j]
      /\ \A j \in n+1..m : s[j] = RowOf(t, top + j - n - 1, cols)
  BY DEF Showing
<1>2. m \in Nat /\ (n + 1) + a - top + 1 = m + 1 /\ n + 1 <= m
  OBVIOUS
<1>3. /\ v \in Seq(S) /\ Len(v) = (n + 1) + a - top + 1
      /\ \A j \in 1..n + 1 : v[j] = u.gone[j]
      /\ \A j \in (n+1)+1..(n + 1) + a - top + 1 :
           v[j] = RowOf(u, top + j - (n + 1) - 1, cols)
  BY DEF Showing
<1>4. /\ Len(v) = m + 1
      /\ \A j \in (n+1)+1..m + 1 : v[j] = RowOf(u, top + j - (n + 1) - 1, cols)
  BY <1>2, <1>3
<1>5. /\ w \in Seq(S) /\ Len(w) = m + 1 /\ w[m + 1] = B
      /\ \A j \in 1..m : w[j] = s[j]
  <2>1. B \in S
    OBVIOUS
  <2> HIDE DEF S, m
  <2> QED
    BY <1>1, <2>1, AppendIs
<1>6. /\ u.gone[n + 1] = RowOf(t, top, cols)
      /\ \A j \in 1..n : u.gone[j] = t.gone[j]
  <2> DEFINE g == t.gone
             x == RowOf(t, top, cols)
  <2>1. g \in Seq(S) /\ x \in S /\ Len(g) = n /\ u.gone = Append(g, x)
    OBVIOUS
  <2> HIDE DEF S, g, x
  <2>2. /\ Append(g, x)[n + 1] = x /\ \A j \in 1..n : Append(g, x)[j] = g[j]
    BY <2>1, AppendIs
  <2>3. /\ u.gone[n + 1] = x /\ \A j \in 1..n : u.gone[j] = g[j]
    BY <2>1, <2>2
  <2> QED
    BY <2>3 DEF g, x
<1> HIDE DEF S
<1>7. ASSUME NEW j \in 1..m + 1 PROVE v[j] = w[j]
  <2>1. CASE j <= n
    <3>1. j \in 1..n /\ j \in 1..m /\ j \in 1..n + 1
      BY <2>1
    <3> HIDE DEF w, m
    <3> QED
      BY <1>1, <1>3, <1>5, <1>6, <3>1
  <2>2. CASE j = n + 1
    <3>1. /\ j \in 1..n + 1 /\ j \in 1..m /\ j \in n+1..m /\ top + j - n - 1 = top
      BY <1>2, <2>2
    <3> HIDE DEF w, m
    <3>2. s[j] = RowOf(t, top, cols)
      BY <1>1, <3>1
    <3> QED
      BY <1>3, <1>5, <1>6, <2>2, <3>1, <3>2
  <2>3. CASE n + 1 < j /\ j <= m
    <3> DEFINE r == top + j - (n + 1) - 1
    <3>1. /\ r \in top..a /\ r < a /\ j \in n+1..m /\ j \in (n+1)+1..m + 1 /\ j \in 1..m
          /\ top + j - n - 1 = r + 1
      BY <2>3
    <3>2. r = top + j - (n + 1) - 1
      OBVIOUS
    <3> HIDE DEF w, m, r
    <3>3. v[j] = RowOf(u, r, cols)
      BY <1>4, <3>1, <3>2
    <3>4. s[j] = RowOf(t, r + 1, cols)
      BY <1>1, <3>1
    <3> QED
      BY <1>5, <3>1, <3>3, <3>4
  <2>4. CASE j = m + 1
    <3>1. top + j - (n + 1) - 1 = a /\ j \in (n+1)+1..m + 1
      BY <1>2, <2>4
    <3> HIDE DEF w, m
    <3> QED
      BY <1>4, <1>5, <2>4, <3>1
  <2> HIDE DEF w
  <2> QED
    BY <1>2, <2>1, <2>2, <2>3, <2>4
<1> HIDE DEF w, m
<1> QED
  BY <1>2, <1>3, <1>4, <1>5, <1>7, SeqEqual DEF w

LEMMA FedShows ==
  ASSUME NEW top \in Nat, NEW bottom \in Nat, NEW cols \in Nat, NEW t, NEW u,
         IsText(t, top, bottom, cols), Fed(t, u, top, bottom, cols)
  PROVE  /\ IsText(u, top, bottom, cols)
         /\ Shown(u, top, cols) = Append(Shown(t, top, cols), Blanks(cols))
<1> DEFINE S == TextRows(cols)
           B == Blanks(cols)
           a == t.row
<1>1. B \in S
  BY DEF Blanks, TextRows, INKS
<1>2. /\ t.gone \in Seq(S) /\ a \in top..bottom
      /\ \A r \in top..bottom : RowOf(t, r, cols) \in S
      /\ \A r \in top..bottom : r > a => RowOf(t, r, cols) = B
  BY DEF IsText
<1>3. top \in top..bottom /\ a \in Nat /\ a >= top
  BY <1>2
<1>4. Showing(Shown(t, top, cols), t, Len(t.gone), a, top, cols)
  BY ShownIs
<1>5. Len(t.gone) \in Nat
  BY <1>4 DEF Showing
<1>6. CASE /\ t.row < bottom /\ u.row = t.row + 1 /\ u.gone = t.gone
           /\ \A r \in top..bottom : RowOf(u, r, cols) = RowOf(t, r, cols)
  <2>1. /\ u.gone \in Seq(S) /\ a + 1 \in top..bottom /\ a + 1 > a
        /\ \A r \in top..bottom : RowOf(u, r, cols) \in S
        /\ \A r \in top..bottom : r > a + 1 => RowOf(u, r, cols) = B
        /\ top..a \subseteq top..bottom
    BY <1>2, <1>3, <1>6
  <2>2. RowOf(u, a + 1, cols) = B
    BY <1>2, <1>6, <2>1
  <2>3. IsText(u, top, bottom, cols)
    BY <1>6, <2>1 DEF IsText
  <2>4. Showing(Shown(u, top, cols), u, Len(t.gone), a + 1, top, cols)
    BY <1>6, <2>3, ShownIs
  <2> HIDE DEF a, B
  <2>5. Shown(u, top, cols) = Append(Shown(t, top, cols), B)
    BY <1>1, <1>3, <1>4, <1>5, <1>6, <2>1, <2>2, <2>4, RowAdded
  <2> QED
    BY <2>3, <2>5 DEF B
<1>7. CASE /\ t.row = bottom /\ u.row = bottom
           /\ u.gone = Append(t.gone, RowOf(t, top, cols))
           /\ \A r \in top..bottom :
                RowOf(u, r, cols) = IF r < bottom THEN RowOf(t, r + 1, cols) ELSE B
  <2>1. u.gone \in Seq(S) /\ Len(u.gone) = Len(t.gone) + 1
    BY <1>2, <1>3, <1>7, AppendIs
  <2>2. /\ \A r \in top..bottom : RowOf(u, r, cols) \in S
        /\ \A r \in top..bottom : r > u.row => RowOf(u, r, cols) = B
    BY <1>1, <1>2, <1>7
  <2>3. IsText(u, top, bottom, cols)
    BY <1>2, <1>7, <2>1, <2>2 DEF IsText
  <2>4. Showing(Shown(u, top, cols), u, Len(t.gone) + 1, a, top, cols)
    BY <1>7, <2>1, <2>3, ShownIs
  <2>5. RowOf(u, a, cols) = B
    BY <1>2, <1>7
  <2>6. \A r \in top..a : r < a => RowOf(u, r, cols) = RowOf(t, r + 1, cols)
    BY <1>7
  <2> HIDE DEF a, B
  <2>7. Shown(u, top, cols) = Append(Shown(t, top, cols), B)
    BY <1>1, <1>2, <1>3, <1>4, <1>5, <1>7, <2>4, <2>5, <2>6, RowScrolled
  <2> QED
    BY <2>3, <2>7 DEF B
<1> QED
  BY <1>6, <1>7 DEF Fed

LEMMA WrittenShows ==
  ASSUME NEW top \in Nat, NEW bottom \in Nat, NEW cols \in Nat, NEW t, NEW u,
         NEW col \in 0..cols-1, NEW c \in INKS,
         IsText(t, top, bottom, cols), Written(t, u, col, c, top, bottom, cols)
  PROVE  /\ IsText(u, top, bottom, cols)
         /\ Shown(u, top, cols) = PaperPut(Shown(t, top, cols), col, c)
<1> DEFINE S == TextRows(cols)
           a == t.row
           n == Len(t.gone)
           m == n + a - top + 1
           s == Shown(t, top, cols)
           v == Shown(u, top, cols)
           Ink(x) == [x EXCEPT ![col] = c]
           w == [s EXCEPT ![m] = Ink(s[m])]
<1>1. /\ t.gone \in Seq(S) /\ a \in top..bottom
      /\ \A r \in top..bottom : RowOf(t, r, cols) \in S
      /\ \A r \in top..bottom : r > a => RowOf(t, r, cols) = Blanks(cols)
  BY DEF IsText
<1>2. /\ u.row = a /\ u.gone = t.gone
      /\ \A r \in top..bottom :
           RowOf(u, r, cols) = IF r = a THEN Ink(RowOf(t, r, cols)) ELSE RowOf(t, r, cols)
  BY DEF Written
<1>3. \A x \in S : Ink(x) \in S
  BY DEF TextRows
<1>4. IsText(u, top, bottom, cols)
  BY <1>1, <1>2, <1>3 DEF IsText
<1>5. Showing(s, t, n, a, top, cols) /\ Showing(v, u, n, a, top, cols)
  BY <1>2, <1>4, ShownIs
<1> HIDE DEF n, s, v, S, Ink
<1>6. /\ s \in Seq(S) /\ Len(s) = m /\ n \in Nat
      /\ \A j \in 1..n : s[j] = t.gone[j]
      /\ \A j \in n+1..m : s[j] = RowOf(t, top + j - n - 1, cols)
  BY <1>5 DEF Showing, S
<1>7. /\ v \in Seq(S) /\ Len(v) = m
      /\ \A j \in 1..n : v[j] = u.gone[j]
      /\ \A j \in n+1..m : v[j] = RowOf(u, top + j - n - 1, cols)
  BY <1>5 DEF Showing, S
<1>8. a \in Nat /\ a >= top /\ m \in Nat /\ n + 1 <= m /\ top + m - n - 1 = a
  <2> HIDE DEF a
  <2>1. a \in Nat /\ a >= top
    BY <1>1
  <2> QED
    BY <1>6, <2>1
<1>9. m \in n+1..m /\ m \in 1..m
  <2>1. n \in Nat /\ m \in Nat /\ n + 1 <= m
    BY <1>6, <1>8
  <2> HIDE DEF m
  <2> QED
    BY <2>1
<1>10. s[m] = RowOf(t, a, cols) /\ s[m] \in S
  BY <1>1, <1>6, <1>8, <1>9
<1>11. /\ w \in Seq(S) /\ Len(w) = m
       /\ \A j \in 1..m : w[j] = IF j = m THEN Ink(s[m]) ELSE s[j]
  <2>1. Ink(s[m]) \in S
    BY <1>3, <1>10
  <2> HIDE DEF m
  <2>2. m \in 1..Len(s)
    BY <1>6, <1>9
  <2> QED
    BY <1>6, <2>1, <2>2, ExceptSeq
<1>12. \A j \in 1..m : w[j] = IF j = m THEN Ink(s[m]) ELSE s[j]
  BY <1>11
<1>13. ASSUME NEW j \in 1..m PROVE v[j] = w[j]
  <2>1. CASE j <= n
    <3>1. j \in 1..n /\ j # m
      BY <1>6, <1>8, <2>1
    <3> QED
      BY <1>2, <1>6, <1>7, <1>12, <3>1
  <2>2. CASE n < j /\ j < m
    <3> DEFINE r == top + j - n - 1
    <3>1. r \in top..bottom /\ r # a /\ j \in n+1..m /\ j # m
      <4> HIDE DEF a, m
      <4>1. j \in Nat /\ r <= a - 1 /\ r >= top
        BY <1>6, <1>8, <2>2
      <4>2. a <= bottom /\ r \in Int
        BY <1>1, <1>6, <1>8, <4>1
      <4>3. j \in n+1..m /\ j # m
        BY <1>6, <1>8, <2>2, <4>1
      <4> HIDE DEF r
      <4> QED
        BY <1>8, <4>1, <4>2, <4>3
    <3>2. v[j] = RowOf(u, r, cols) /\ s[j] = RowOf(t, r, cols)
      BY <1>6, <1>7, <3>1
    <3> HIDE DEF r
    <3> QED
      BY <1>2, <1>12, <3>1, <3>2
  <2>3. CASE j = m
    <3>1. v[m] = RowOf(u, a, cols)
      BY <1>7, <1>8, <1>9
    <3> HIDE DEF m
    <3> QED
      BY <1>1, <1>2, <1>10, <1>12, <2>3, <3>1
  <2> QED
    BY <1>6, <1>8, <2>1, <2>2, <2>3
<1> HIDE DEF m, w
<1>14. v = w
  BY <1>7, <1>11, <1>13, SeqEqual
<1> QED
  BY <1>4, <1>6, <1>14 DEF w, s, v, Ink, PaperPut

-----------------------------------------------------------------------------
(***************************************************************************)
(* A character written in column col, and the screen at column next then   *)
(***************************************************************************)
IsScreen(t) == t = [cells |-> t.cells, row |-> t.row, col |-> t.col, gone |-> t.gone]

Inked(t, col, c, next) ==
  [cells |-> [t.cells EXCEPT ![<<t.row, col>>] = c], row |-> t.row, col |-> next,
   gone |-> t.gone]

LEMMA SetBoth ==
  ASSUME NEW t, IsScreen(t), NEW C, NEW next
  PROVE  /\ [t EXCEPT !.cells = C, !.col = next] =
              [cells |-> C, row |-> t.row, col |-> next, gone |-> t.gone]
         /\ [[t EXCEPT !.col = next] EXCEPT !.cells = C] =
              [cells |-> C, row |-> t.row, col |-> next, gone |-> t.gone]
         /\ [t EXCEPT !.col = next] =
              [cells |-> t.cells, row |-> t.row, col |-> next, gone |-> t.gone]
<1> DEFINE k == t.cells
           r == t.row
           o == t.col
           g == t.gone
           v == [t EXCEPT !.cells = C]
           w == [t EXCEPT !.col = next]
<1>1. t = [cells |-> k, row |-> r, col |-> o, gone |-> g]
  BY DEF IsScreen
<1> HIDE DEF k, r, o, g
<1>2. v = [cells |-> C, row |-> r, col |-> o, gone |-> g]
  BY <1>1
<1>3. w = [cells |-> k, row |-> r, col |-> next, gone |-> g]
  BY <1>1
<1>4. [t EXCEPT !.cells = C, !.col = next] = [v EXCEPT !.col = next]
  OBVIOUS
<1> HIDE DEF v, w
<1>5. [v EXCEPT !.col = next] = [cells |-> C, row |-> r, col |-> next, gone |-> g]
  BY <1>2
<1>6. [w EXCEPT !.cells = C] = [cells |-> C, row |-> r, col |-> next, gone |-> g]
  BY <1>3
<1>7. /\ [t EXCEPT !.cells = C, !.col = next] =
           [cells |-> C, row |-> r, col |-> next, gone |-> g]
      /\ [w EXCEPT !.cells = C] = [cells |-> C, row |-> r, col |-> next, gone |-> g]
      /\ w = [cells |-> k, row |-> r, col |-> next, gone |-> g]
  BY <1>3, <1>4, <1>5, <1>6
<1> QED
  BY <1>7 DEF k, r, g, w

LEMMA InkedTwice ==
  ASSUME NEW t, NEW col, NEW c, NEW d, NEW x, NEW next
  PROVE  /\ IsScreen(Inked(t, col, c, x))
         /\ Inked(Inked(t, col, c, x), col, d, next) = Inked(t, col, d, next)
<1> DEFINE k == t.cells
           p == <<t.row, col>>
<1>1. [[k EXCEPT ![p] = c] EXCEPT ![p] = d] = [k EXCEPT ![p] = d]
  OBVIOUS
<1> QED
  BY <1>1 DEF Inked, IsScreen

(***************************************************************************)
(* The framebuffer.                                                        *)
(***************************************************************************)
FbScreens ==
  [cells : [FbCells -> INKS], row : HEADER_ROWS..fb_rows-1, col : 0..fb_cols,
   gone : Seq(TextRows(fb_cols))]

FbText(t)       == IsText(t, HEADER_ROWS, fb_rows-1, fb_cols)
FbFed(t, u)     == Fed(t, u, HEADER_ROWS, fb_rows-1, fb_cols)
FbInk(t, u, col, c) == Written(t, u, col, c, HEADER_ROWS, fb_rows-1, fb_cols)
Beside(t, u)    == \A p \in FbCells \ Terminal : u.cells[p] = t.cells[p]

LEMMA FbPlaces ==
  /\ HEADER_ROWS \in Nat /\ fb_rows-1 \in Nat /\ fb_cols \in Nat /\ fb_cols >= 2
  /\ HEADER_ROWS <= fb_rows-1 /\ fb_rows \in Nat /\ Terminal \subseteq FbCells
  /\ \A r \in HEADER_ROWS..fb_rows-1, c \in 0..fb_cols-1 : <<r, c>> \in Terminal
<1>1. /\ HEADER_ROWS \in Nat /\ fb_rows-1 \in Nat /\ fb_cols \in Nat /\ fb_cols >= 2
      /\ HEADER_ROWS <= fb_rows-1 /\ fb_cols <= FB_W /\ fb_rows <= FB_H - 1 /\ FB_H \in Nat
      /\ FB_W \in Nat /\ fb_rows \in Nat
  BY ScreenAssumption
<1>2. HEADER_ROWS..fb_rows-1 \subseteq 0..FB_H-1 /\ 0..fb_cols-1 \subseteq 0..FB_W-1
  BY <1>1
<1> QED
  BY <1>1, <1>2 DEF Terminal, FbCells

LEMMA FbRows ==
  ASSUME NEW t \in FbScreens
  PROVE  \A r \in HEADER_ROWS..fb_rows-1 : RowOf(t, r, fb_cols) \in TextRows(fb_cols)
<1>1. t.cells \in [FbCells -> INKS]
  BY DEF FbScreens
<1>2. ASSUME NEW r \in HEADER_ROWS..fb_rows-1, NEW c \in 0..fb_cols-1
      PROVE  t.cells[<<r, c>>] \in INKS
  <2>1. <<r, c>> \in FbCells
    BY FbPlaces
  <2> QED
    BY <1>1, <2>1
<1> QED
  BY <1>2 DEF RowOf, TextRows

LEMMA FbNewline ==
  ASSUME NEW t \in FbScreens
  PROVE  LET u == fb_newline(t)
         IN  u \in FbScreens /\ FbFed(t, u) /\ u.col = 0 /\ Beside(t, u)
<1> DEFINE u == fb_newline(t)
<1>1. /\ t.row \in HEADER_ROWS..fb_rows-1 /\ t.cells \in [FbCells -> INKS]
      /\ t.gone \in Seq(TextRows(fb_cols))
      /\ \A r \in HEADER_ROWS..fb_rows-1 : RowOf(t, r, fb_cols) \in TextRows(fb_cols)
      /\ t = [cells |-> t.cells, row |-> t.row, col |-> t.col, gone |-> t.gone]
      /\ 0 \in 0..fb_cols
  BY FbRows, FbPlaces DEF FbScreens
<1>2. CASE ~ (t.row + 1 >= fb_rows)
  <2>1. u = [cells |-> t.cells, row |-> t.row + 1, col |-> 0, gone |-> t.gone]
    BY <1>1, <1>2 DEF fb_newline
  <2>2. t.row + 1 \in HEADER_ROWS..fb_rows-1 /\ t.row < fb_rows-1
    BY <1>1, <1>2, FbPlaces
  <2>3. u \in FbScreens
    BY <1>1, <2>1, <2>2 DEF FbScreens
  <2>4. FbFed(t, u)
    BY <2>1, <2>2 DEF FbFed, Fed, RowOf
  <2> HIDE DEF u
  <2>5. u.col = 0 /\ Beside(t, u)
    BY <2>1 DEF Beside
  <2> QED
    BY <2>3, <2>4, <2>5 DEF u
<1>3. CASE t.row + 1 >= fb_rows
  <2> DEFINE C == [p \in FbCells |->
                     IF p \in Terminal
                     THEN IF p[1] < fb_rows - 1
                          THEN t.cells[<<p[1] + 1, p[2]>>] ELSE BLANK
                     ELSE t.cells[p]]
             G == Append(t.gone, RowOf(t, HEADER_ROWS, fb_cols))
  <2>1. u = [cells |-> C, row |-> fb_rows-1, col |-> 0, gone |-> G]
    BY <1>1, <1>3 DEF fb_newline, fb_scroll
  <2>2. t.row = fb_rows-1 /\ fb_rows-1 \in HEADER_ROWS..fb_rows-1
        /\ HEADER_ROWS \in HEADER_ROWS..fb_rows-1
    BY <1>1, <1>3, FbPlaces
  <2>3. C \in [FbCells -> INKS]
    <3>1. ASSUME NEW p \in Terminal, p[1] < fb_rows - 1
          PROVE  t.cells[<<p[1] + 1, p[2]>>] \in INKS
      <4>1. <<p[1] + 1, p[2]>> \in Terminal
        BY <3>1, FbPlaces DEF Terminal
      <4> QED
        BY <1>1, <4>1, FbPlaces
    <3>2. BLANK \in INKS
      BY DEF INKS
    <3>3. ASSUME NEW p \in FbCells PROVE C[p] \in INKS
      BY <1>1, <3>1, <3>2
    <3> QED
      BY <3>3
  <2>4. G \in Seq(TextRows(fb_cols))
    BY <1>1, <2>2, AppendProperties
  <2>5. ASSUME NEW r \in HEADER_ROWS..fb_rows-1
        PROVE  RowOf(u, r, fb_cols) = IF r < fb_rows-1 THEN RowOf(t, r + 1, fb_cols)
                                                       ELSE Blanks(fb_cols)
    <3>1. ASSUME NEW c \in 0..fb_cols-1
          PROVE  C[<<r, c>>] = IF r < fb_rows-1 THEN t.cells[<<r + 1, c>>] ELSE BLANK
      <4>1. <<r, c>> \in FbCells /\ <<r, c>> \in Terminal
        BY FbPlaces
      <4> QED
        BY <4>1
    <3>2. u.cells = C
      BY <2>1
    <3> HIDE DEF C, u
    <3> QED
      BY <3>1, <3>2 DEF RowOf, Blanks
  <2>6. \A p \in FbCells \ Terminal : C[p] = t.cells[p]
    OBVIOUS
  <2> HIDE DEF C, G, u
  <2>7. u \in FbScreens
    BY <1>1, <2>1, <2>2, <2>3, <2>4 DEF FbScreens
  <2>8. FbFed(t, u)
    BY <2>1, <2>2, <2>5 DEF FbFed, Fed, G
  <2>9. u.col = 0 /\ Beside(t, u)
    BY <2>1, <2>6 DEF Beside
  <2> QED
    BY <2>7, <2>8, <2>9 DEF u
<1> QED
  BY <1>2, <1>3

LEMMA FbPut ==
  ASSUME NEW t \in FbScreens, NEW col \in 0..fb_cols-1, NEW next \in 0..fb_cols,
         NEW c \in INKS
  PROVE  /\ Inked(t, col, c, next) \in FbScreens
         /\ FbInk(t, Inked(t, col, c, next), col, c)
         /\ Beside(t, Inked(t, col, c, next))
<1> DEFINE C == [t.cells EXCEPT ![<<t.row, col>>] = c]
           u == Inked(t, col, c, next)
<1>1. /\ t.row \in HEADER_ROWS..fb_rows-1 /\ t.cells \in [FbCells -> INKS]
      /\ t.gone \in Seq(TextRows(fb_cols))
      /\ t = [cells |-> t.cells, row |-> t.row, col |-> t.col, gone |-> t.gone]
  BY DEF FbScreens
<1>2. u = [cells |-> C, row |-> t.row, col |-> next, gone |-> t.gone]
  BY DEF Inked
<1>3. <<t.row, col>> \in Terminal /\ <<t.row, col>> \in FbCells
  BY <1>1, FbPlaces
<1>4. C \in [FbCells -> INKS]
  BY <1>1
<1>5. \A p \in FbCells : C[p] = IF p = <<t.row, col>> THEN c ELSE t.cells[p]
  BY <1>1, <1>3
<1> HIDE DEF C, u
<1>6. u \in FbScreens
  BY <1>1, <1>2, <1>4 DEF FbScreens
<1>7. ASSUME NEW r \in HEADER_ROWS..fb_rows-1
      PROVE  RowOf(u, r, fb_cols) =
               IF r = t.row THEN [RowOf(t, r, fb_cols) EXCEPT ![col] = c]
                            ELSE RowOf(t, r, fb_cols)
  <2>1. ASSUME NEW x \in 0..fb_cols-1
        PROVE  u.cells[<<r, x>>] = IF r = t.row /\ x = col THEN c ELSE t.cells[<<r, x>>]
    <3>1. <<r, x>> \in FbCells
      BY FbPlaces
    <3>2. <<r, x>> = <<t.row, col>> <=> r = t.row /\ x = col
      OBVIOUS
    <3> QED
      BY <1>2, <1>5, <3>1, <3>2
  <2> QED
    BY <2>1 DEF RowOf
<1>8. FbInk(t, u, col, c)
  BY <1>2, <1>7 DEF FbInk, Written
<1>9. u.col = next /\ Beside(t, u)
  BY <1>2, <1>3, <1>5 DEF Beside
<1>10. u \in FbScreens /\ FbInk(t, u, col, c) /\ u.col = next /\ Beside(t, u)
  BY <1>6, <1>8, <1>9
<1> QED
  BY <1>10 DEF u

LEMMA FbPutc ==
  ASSUME NEW t \in FbScreens, NEW c, c # LF, c # BS
  PROVE  /\ IsScreen(t) /\ fb_putc(t, LF) = fb_newline(t)
         /\ t.col < fb_cols => fb_putc(t, c) = Inked(t, t.col, c, t.col + 1)
         /\ t.col >= fb_cols =>
              LET at == fb_newline(t)
              IN  at \in FbScreens => fb_putc(t, c) = Inked(at, at.col, c, at.col + 1)
         /\ t.col > 0 => fb_putc(t, BS) = Inked(t, t.col - 1, BLANK, t.col - 1)
         /\ t.col = 0 => fb_putc(t, BS) = t
<1>1. ASSUME NEW u \in FbScreens PROVE IsScreen(u) /\ u.col \in 0..fb_cols
  BY <1>1 DEF FbScreens, IsScreen
<1>2. fb_cols \in Nat
  BY FbPlaces
<1>3. LF # BS
  BY DEF LF, BS
<1>4. ASSUME NEW u \in FbScreens
      PROVE  [u EXCEPT !.cells = Put(u, c), !.col = u.col + 1] = Inked(u, u.col, c, u.col + 1)
  BY <1>1, SetBoth DEF Put, Inked
<1>5. ASSUME t.col < fb_cols PROVE fb_putc(t, c) = Inked(t, t.col, c, t.col + 1)
  <2>1. ~ (t.col >= fb_cols)
    BY <1>1, <1>2, <1>5
  <2>2. fb_putc(t, c) = [t EXCEPT !.cells = Put(t, c), !.col = t.col + 1]
    BY <2>1 DEF fb_putc
  <2> QED
    BY <1>4, <2>2
<1>6. ASSUME t.col > 0 PROVE fb_putc(t, BS) = Inked(t, t.col - 1, BLANK, t.col - 1)
  <2> DEFINE back == [t EXCEPT !.col = t.col - 1]
  <2>1. fb_putc(t, BS) = [back EXCEPT !.cells = Put(back, BLANK)]
    BY <1>3, <1>6 DEF fb_putc
  <2>2. back.row = t.row /\ back.col = t.col - 1 /\ back.cells = t.cells
    <3>1. back = [cells |-> t.cells, row |-> t.row, col |-> t.col - 1, gone |-> t.gone]
      BY <1>1, SetBoth
    <3> HIDE DEF back
    <3> QED BY <3>1
  <2> DEFINE C == [t.cells EXCEPT ![<<t.row, t.col - 1>>] = BLANK]
  <2>3. Put(back, BLANK) = C
    BY <2>2 DEF Put
  <2>4. ASSUME NEW D
        PROVE  [back EXCEPT !.cells = D] =
                 [cells |-> D, row |-> t.row, col |-> t.col - 1, gone |-> t.gone]
    BY <1>1, SetBoth
  <2> HIDE DEF C, back
  <2>5. fb_putc(t, BS) = [cells |-> C, row |-> t.row, col |-> t.col - 1, gone |-> t.gone]
    BY <2>1, <2>3, <2>4
  <2> QED
    BY <2>5 DEF Inked, C
<1> DEFINE at == fb_newline(t)
<1>7. ASSUME t.col >= fb_cols, at \in FbScreens
      PROVE  fb_putc(t, c) = Inked(at, at.col, c, at.col + 1)
  <2>1. fb_putc(t, c) = [at EXCEPT !.cells = Put(at, c), !.col = at.col + 1]
    BY <1>7 DEF fb_putc
  <2> HIDE DEF at
  <2> QED
    BY <1>4, <1>7, <2>1
<1>8. ASSUME t.col = 0 PROVE fb_putc(t, BS) = t
  BY <1>3, <1>8 DEF fb_putc
<1>9. fb_putc(t, LF) = fb_newline(t)
  BY DEF fb_putc
<1> QED
  BY <1>1, <1>5, <1>6, <1>7, <1>8, <1>9

FbShown(t)           == Shown(t, HEADER_ROWS, fb_cols)

LEMMA FbInked ==
  ASSUME NEW t \in FbScreens, FbText(t), NEW col \in 0..fb_cols-1, NEW next \in 0..fb_cols,
         NEW c \in INKS
  PROVE  /\ Inked(t, col, c, next) \in FbScreens /\ FbText(Inked(t, col, c, next))
         /\ Inked(t, col, c, next).col = next /\ Beside(t, Inked(t, col, c, next))
         /\ FbShown(Inked(t, col, c, next)) = PaperPut(FbShown(t), col, c)
<1> DEFINE u == Inked(t, col, c, next)
<1>1. /\ HEADER_ROWS \in Nat /\ fb_rows-1 \in Nat /\ fb_cols \in Nat
  BY FbPlaces
<1>2. u.col = next
  BY DEF Inked
<1> HIDE DEF u
<1>3. u \in FbScreens /\ FbInk(t, u, col, c) /\ Beside(t, u)
  BY FbPut DEF u
<1>4. /\ IsText(t, HEADER_ROWS, fb_rows-1, fb_cols)
      /\ Written(t, u, col, c, HEADER_ROWS, fb_rows-1, fb_cols)
  BY <1>3 DEF FbText, FbInk
<1> DEFINE bottom == fb_rows-1
<1> HIDE DEF bottom
<1>7. /\ bottom \in Nat /\ IsText(t, HEADER_ROWS, bottom, fb_cols)
       /\ Written(t, u, col, c, HEADER_ROWS, bottom, fb_cols)
  BY <1>1, <1>4 DEF bottom
<1>5. /\ IsText(u, HEADER_ROWS, bottom, fb_cols)
      /\ Shown(u, HEADER_ROWS, fb_cols) = PaperPut(Shown(t, HEADER_ROWS, fb_cols), col, c)
  BY <1>1, <1>7, WrittenShows
<1>6. FbText(u) /\ FbShown(u) = PaperPut(FbShown(t), col, c)
  BY <1>5 DEF FbText, FbShown, bottom
<1> QED
  BY <1>2, <1>3, <1>6 DEF u

LEMMA FbNewlineShows ==
  ASSUME NEW t \in FbScreens, FbText(t)
  PROVE  /\ fb_newline(t) \in FbScreens /\ FbText(fb_newline(t))
         /\ fb_newline(t).col = 0 /\ Beside(t, fb_newline(t))
         /\ FbShown(fb_newline(t)) = Append(FbShown(t), Blanks(fb_cols))
<1> DEFINE u == fb_newline(t)
           bottom == fb_rows-1
<1>1. u \in FbScreens /\ FbFed(t, u) /\ u.col = 0 /\ Beside(t, u)
  BY FbNewline
<1> HIDE DEF u, bottom
<1>2. /\ HEADER_ROWS \in Nat /\ bottom \in Nat /\ fb_cols \in Nat
      /\ IsText(t, HEADER_ROWS, bottom, fb_cols) /\ Fed(t, u, HEADER_ROWS, bottom, fb_cols)
  BY <1>1, FbPlaces DEF bottom, FbText, FbFed
<1>3. /\ IsText(u, HEADER_ROWS, bottom, fb_cols)
      /\ Shown(u, HEADER_ROWS, fb_cols) =
           Append(Shown(t, HEADER_ROWS, fb_cols), Blanks(fb_cols))
  BY <1>2, FedShows
<1> QED
  BY <1>1, <1>3 DEF FbText, FbShown, u, bottom

LEMMA FbWrite ==
  ASSUME NEW t \in FbScreens, FbText(t), NEW c \in INKS, c # LF, c # BS
  PROVE  /\ fb_putc(t, c) \in FbScreens /\ FbText(fb_putc(t, c))
         /\ Beside(t, fb_putc(t, c))
         /\ t.col # fb_cols =>
              /\ fb_putc(t, c).col = t.col + 1
              /\ FbShown(fb_putc(t, c)) = PaperPut(FbShown(t), t.col, c)
         /\ t.col = fb_cols =>
              /\ fb_putc(t, c).col = 1
              /\ FbShown(fb_putc(t, c)) =
                   PaperPut(Append(FbShown(t), Blanks(fb_cols)), 0, c)
<1>1. t.col \in 0..fb_cols /\ fb_cols \in Nat /\ fb_cols >= 2
  BY FbPlaces DEF FbScreens
<1>2. CASE t.col # fb_cols
  <2>1. t.col < fb_cols /\ t.col \in 0..fb_cols-1 /\ t.col + 1 \in 0..fb_cols
    BY <1>1, <1>2
  <2>2. fb_putc(t, c) = Inked(t, t.col, c, t.col + 1)
    BY <2>1, FbPutc
  <2> QED
    BY <1>2, <2>1, <2>2, FbInked
<1>3. CASE t.col = fb_cols
  <2> DEFINE at == fb_newline(t)
  <2>1. /\ at \in FbScreens /\ FbText(at) /\ at.col = 0 /\ Beside(t, at)
        /\ FbShown(at) = Append(FbShown(t), Blanks(fb_cols))
    BY FbNewlineShows
  <2>2. t.col >= fb_cols
    BY <1>1, <1>3
  <2>3. fb_putc(t, c) = Inked(at, at.col, c, at.col + 1)
    BY <2>1, <2>2, FbPutc
  <2>4. 0 \in 0..fb_cols-1 /\ 1 \in 0..fb_cols /\ 0 + 1 = 1
    BY <1>1
  <2> HIDE DEF at
  <2>5. fb_putc(t, c) = Inked(at, 0, c, 1)
    BY <2>1, <2>3, <2>4
  <2>8. /\ Inked(at, 0, c, 1) \in FbScreens /\ FbText(Inked(at, 0, c, 1))
         /\ Inked(at, 0, c, 1).col = 1 /\ Beside(at, Inked(at, 0, c, 1))
         /\ FbShown(Inked(at, 0, c, 1)) = PaperPut(FbShown(at), 0, c)
    <3>1. ASSUME NEW col \in 0..fb_cols-1, NEW next \in 0..fb_cols
          PROVE  /\ Inked(at, col, c, next) \in FbScreens
                 /\ FbText(Inked(at, col, c, next))
                 /\ Inked(at, col, c, next).col = next
                 /\ Beside(at, Inked(at, col, c, next))
                 /\ FbShown(Inked(at, col, c, next)) = PaperPut(FbShown(at), col, c)
      <4>1. at \in FbScreens /\ FbText(at)
        BY <2>1
      <4> QED
        BY <4>1, FbInked
    <3> QED
      BY <2>4, <3>1
  <2>6. /\ fb_putc(t, c) \in FbScreens /\ FbText(fb_putc(t, c))
        /\ fb_putc(t, c).col = 1 /\ Beside(at, fb_putc(t, c))
        /\ FbShown(fb_putc(t, c)) = PaperPut(FbShown(at), 0, c)
    BY <2>5, <2>8
  <2>7. Beside(t, fb_putc(t, c))
    BY <2>1, <2>6 DEF Beside
  <2> QED
    BY <1>3, <2>1, <2>6, <2>7
<1> QED
  BY <1>2, <1>3

LEMMA FbErase ==
  ASSUME NEW t \in FbScreens
  PROVE  LET back == IF t.col > 0 THEN t.col - 1 ELSE 0
         IN  back \in 0..fb_cols-1 /\ fb_erase(t) = Inked(t, back, BLANK, back)
<1> DEFINE back == IF t.col > 0 THEN t.col - 1 ELSE 0
           a == fb_putc(t, BS)
           b == fb_putc(a, BLANK)
<1>1. t.col \in 0..fb_cols /\ fb_cols \in Nat /\ fb_cols >= 2
  BY FbPlaces DEF FbScreens
<1>2. /\ back \in 0..fb_cols-1 /\ back \in 0..fb_cols /\ back + 1 \in 0..fb_cols
      /\ back < fb_cols /\ back + 1 > 0 /\ (back + 1) - 1 = back
  BY <1>1
<1>3. BLANK \in INKS /\ BLANK # LF /\ BLANK # BS
  BY DEF INKS, BLANK, LF, BS
<1>4. a \in FbScreens /\ a.col = back
  <2>1. CASE t.col > 0
    <3>1. a = Inked(t, back, BLANK, back)
      BY <1>3, <2>1, FbPutc
    <3>2. Inked(t, back, BLANK, back) \in FbScreens
      BY <1>2, <1>3, FbPut
    <3>3. Inked(t, back, BLANK, back).col = back
      BY DEF Inked
    <3> QED
      BY <3>1, <3>2, <3>3
  <2>2. CASE ~ (t.col > 0)
    <3>1. t.col = 0
      BY <1>1, <2>2
    <3>2. a = t
      BY <1>3, <3>1, FbPutc
    <3> QED
      BY <2>2, <3>1, <3>2
  <2> QED
    BY <2>1, <2>2
<1>5. (a = t /\ t.col = back) \/ a = Inked(t, back, BLANK, back)
  BY <1>1, <1>3, FbPutc
<1> HIDE DEF a, back
<1>6. b = Inked(a, back, BLANK, back + 1)
  BY <1>2, <1>3, <1>4, FbPutc
<1> HIDE DEF b
<1>7. b \in FbScreens /\ b.col = back + 1
  BY <1>2, <1>3, <1>4, <1>6, FbPut DEF Inked
<1>8. fb_putc(b, BS) = Inked(b, back, BLANK, back)
  BY <1>2, <1>3, <1>7, FbPutc
<1>9. Inked(b, back, BLANK, back) = Inked(a, back, BLANK, back)
  BY <1>6, InkedTwice
<1>10. Inked(a, back, BLANK, back) = Inked(t, back, BLANK, back)
  BY <1>5, InkedTwice
<1>11. fb_erase(t) = fb_putc(b, BS)
  BY DEF fb_erase, a, b
<1>12. back \in 0..fb_cols-1 /\ fb_erase(t) = Inked(t, back, BLANK, back)
  BY <1>2, <1>8, <1>9, <1>10, <1>11
<1> QED
  BY <1>12 DEF back

-----------------------------------------------------------------------------
(***************************************************************************)
(* Many new lines.  Reel(rows, n, B) is the paper n blank rows later.      *)
(***************************************************************************)
Reel(rows, n, B) == rows \o [i \in 1..n |-> B]

LEMMA ReelNext ==
  ASSUME NEW S, NEW rows \in Seq(S), NEW B \in S, NEW n \in Nat
  PROVE  /\ Reel(rows, n + 1, B) = Append(Reel(rows, n, B), B)
         /\ Reel(rows, 0, B) = rows /\ Reel(rows, n, B) \in Seq(S)
<1> DEFINE k == Len(rows)
           V(i) == [j \in 1..i |-> B]
           v == Reel(rows, n, B)
           w == Reel(rows, n + 1, B)
           x == Append(v, B)
<1>1. ASSUME NEW i \in Nat
      PROVE  /\ Reel(rows, i, B) \in Seq(S) /\ Len(Reel(rows, i, B)) = k + i
             /\ \A j \in 1..k + i : Reel(rows, i, B)[j] = IF j <= k THEN rows[j] ELSE B
  <2> DEFINE b == [j \in 1..i |-> B]
  <2>1. b \in [1..i -> S]
    OBVIOUS
  <2>2. \A j \in 1..i : b[j] = B
    OBVIOUS
  <2> HIDE DEF b
  <2>3. b \in Seq(S) /\ Len(b) = i
    BY <2>1, FunctionIsSeq
  <2>4. /\ rows \o b \in Seq(S) /\ Len(rows \o b) = k + i /\ k \in Nat
        /\ \A j \in 1..k + i : (rows \o b)[j] = IF j <= k THEN rows[j] ELSE b[j - k]
    BY <2>3, ConcatProperties, LenProperties
  <2> HIDE DEF k
  <2>5. ASSUME NEW j \in 1..k + i, ~ (j <= k) PROVE b[j - k] = B
    <3>1. j - k \in 1..i
      BY <2>4, <2>5
    <3> QED
      BY <2>2, <3>1
  <2>6. \A j \in 1..k + i : (rows \o b)[j] = IF j <= k THEN rows[j] ELSE B
    BY <2>4, <2>5
  <2>7. Reel(rows, i, B) = rows \o b
    BY DEF Reel, b
  <2> QED
    BY <2>4, <2>6, <2>7
<1>2. k \in Nat
  BY LenProperties
<1> DEFINE m == k + n
<1>3. m \in Nat /\ k + (n + 1) = m + 1 /\ k <= m
  BY <1>2
<1>4. /\ v \in Seq(S) /\ Len(v) = m
      /\ \A j \in 1..m : v[j] = IF j <= k THEN rows[j] ELSE B
  BY <1>1
<1>5. /\ w \in Seq(S) /\ Len(w) = k + (n + 1)
      /\ \A j \in 1..k + (n + 1) : w[j] = IF j <= k THEN rows[j] ELSE B
  <2> DEFINE i == n + 1
  <2>1. i \in Nat
    OBVIOUS
  <2> HIDE DEF i
  <2>2. /\ Reel(rows, i, B) \in Seq(S) /\ Len(Reel(rows, i, B)) = k + i
        /\ \A j \in 1..k + i : Reel(rows, i, B)[j] = IF j <= k THEN rows[j] ELSE B
    BY <1>1, <2>1
  <2> QED
    BY <2>2 DEF i
<1>6. /\ w \in Seq(S) /\ Len(w) = m + 1
      /\ \A j \in 1..m + 1 : w[j] = IF j <= k THEN rows[j] ELSE B
  BY <1>3, <1>5
<1> HIDE DEF k, m, v, w
<1>7. /\ x \in Seq(S) /\ Len(x) = m + 1 /\ x[m + 1] = B
      /\ \A j \in 1..m : x[j] = v[j]
  BY <1>4, AppendIs
<1> HIDE DEF x
<1>8. ASSUME NEW j \in 1..m + 1 PROVE w[j] = x[j]
  <2>1. CASE j = m + 1
    <3>1. ~ (j <= k)
      BY <1>2, <1>3, <2>1
    <3> QED
      BY <1>6, <1>7, <2>1, <3>1
  <2>2. CASE j \in 1..m
    BY <1>4, <1>6, <1>7, <2>2
  <2> QED
    BY <1>3, <2>1, <2>2
<1>9. w = x
  BY <1>6, <1>7, <1>8, SeqEqual
<1>10. Reel(rows, 0, B) = rows
  <2> DEFINE r == Reel(rows, 0, B)
  <2>1. /\ r \in Seq(S) /\ Len(r) = k + 0
        /\ \A j \in 1..k + 0 : r[j] = IF j <= k THEN rows[j] ELSE B
    BY <1>1
  <2>2. Len(rows) = k /\ k + 0 = k
    BY <1>2 DEF k
  <2> HIDE DEF r
  <2>3. \A j \in 1..k : r[j] = rows[j]
    BY <1>2, <2>1, <2>2
  <2>4. r = rows
    BY <2>1, <2>2, <2>3, SeqEqual
  <2> QED
    BY <2>4 DEF r
<1> QED
  BY <1>4, <1>9, <1>10 DEF w, x, v

LEMMA FbReel ==
  ASSUME NEW t, FbText(t)
  PROVE  /\ FbShown(t) \in Seq(TextRows(fb_cols)) /\ Blanks(fb_cols) \in TextRows(fb_cols)
         /\ Append(FbShown(t), Blanks(fb_cols)) = Reel(FbShown(t), 1, Blanks(fb_cols))
<1> DEFINE B == Blanks(fb_cols)
           T == TextRows(fb_cols)
           bottom == fb_rows-1
<1>1. B \in T
  BY DEF Blanks, TextRows, INKS
<1>2. /\ HEADER_ROWS \in Nat /\ bottom \in Nat /\ fb_cols \in Nat
      /\ IsText(t, HEADER_ROWS, bottom, fb_cols)
  BY FbPlaces DEF FbText
<1> HIDE DEF B, T, bottom
<1>3. Showing(Shown(t, HEADER_ROWS, fb_cols), t, Len(t.gone), t.row, HEADER_ROWS, fb_cols)
  BY <1>2, ShownIs
<1>4. FbShown(t) \in Seq(T)
  BY <1>3 DEF Showing, FbShown, T
<1>5. 0 + 1 = 1 /\ 0 \in Nat
  OBVIOUS
<1>6. /\ Reel(FbShown(t), 0 + 1, B) = Append(Reel(FbShown(t), 0, B), B)
      /\ Reel(FbShown(t), 0, B) = FbShown(t)
  BY <1>1, <1>4, <1>5, ReelNext
<1> QED
  BY <1>1, <1>4, <1>5, <1>6 DEF B, T

FbLines(g, t, n) == g = [i \in 0..n |-> IF i = 0 THEN t ELSE fb_putc(g[i-1], LF)]

LEMMA FbFeedIs ==
  ASSUME NEW t, NEW n \in Nat
  PROVE  \E g : FbLines(g, t, n) /\ fb_feed(t, n) = g[n]
<1> DEFINE S == {m \in Nat : \E g : FbLines(g, t, m)}
<1>1. 0 \in S
  <2> DEFINE g == [i \in 0..0 |-> t]
  <2>1. FbLines(g, t, 0)
    BY DEF FbLines
  <2> QED
    BY <2>1
<1>2. ASSUME NEW m \in Nat, m \in S PROVE m + 1 \in S
  <2>1. PICK g : FbLines(g, t, m)
    BY <1>2
  <2> DEFINE h == [i \in 0..m+1 |-> IF i = m + 1 THEN fb_putc(g[m], LF) ELSE g[i]]
  <2>2. ASSUME NEW i \in 0..m+1 PROVE h[i] = IF i = 0 THEN t ELSE fb_putc(h[i-1], LF)
    BY <2>1 DEF FbLines
  <2>3. FbLines(h, t, m + 1)
    BY <2>2 DEF FbLines
  <2> HIDE DEF h
  <2> QED
    BY <2>3
<1> HIDE DEF S
<1>3. n \in S
  BY <1>1, <1>2, Induction
<1>4. \E g : FbLines(g, t, n)
  BY <1>3 DEF S
<1> QED
  BY <1>4 DEF fb_feed, FbLines

LEMMA FbFeed ==
  ASSUME NEW t \in FbScreens, FbText(t), NEW n \in Nat \ {0}
  PROVE  /\ fb_feed(t, n) \in FbScreens /\ FbText(fb_feed(t, n))
         /\ fb_feed(t, n).col = 0 /\ Beside(t, fb_feed(t, n))
         /\ FbShown(fb_feed(t, n)) = Reel(FbShown(t), n, Blanks(fb_cols))
<1> DEFINE B == Blanks(fb_cols)
           T == TextRows(fb_cols)
<1>1. PICK g : FbLines(g, t, n) /\ fb_feed(t, n) = g[n]
  BY FbFeedIs
<1>2. g[0] = t /\ \A i \in 1..n : g[i] = fb_putc(g[i-1], LF)
  BY <1>1 DEF FbLines
<1> DEFINE P(i) == /\ g[i] \in FbScreens /\ FbText(g[i]) /\ Beside(t, g[i])
                   /\ i > 0 => g[i].col = 0
                   /\ FbShown(g[i]) = Reel(FbShown(t), i, B)
           S == {i \in Nat : i <= n => P(i)}
<1>3. B \in T /\ FbShown(t) \in Seq(T)
  BY FbReel
<1> HIDE DEF B, T
<1>4. 0 \in S
  <2>1. Reel(FbShown(t), 0, B) = FbShown(t)
    BY <1>3, ReelNext
  <2> QED
    BY <1>2, <2>1 DEF Beside
<1>5. ASSUME NEW i \in Nat, i \in S PROVE i + 1 \in S
  <2>1. SUFFICES ASSUME i + 1 <= n PROVE P(i + 1)
    OBVIOUS
  <2>2. i <= n /\ i + 1 \in 1..n /\ (i + 1) - 1 = i
    BY <2>1
  <2>3. P(i)
    BY <1>5, <2>2
  <2>4. g[i + 1] = fb_newline(g[i])
    <3>1. g[i + 1] = fb_putc(g[i], LF)
      BY <1>2, <2>2
    <3> QED
      BY <3>1 DEF fb_putc
  <2>5. /\ g[i + 1] \in FbScreens /\ FbText(g[i + 1]) /\ g[i + 1].col = 0
        /\ Beside(g[i], g[i + 1]) /\ FbShown(g[i + 1]) = Append(FbShown(g[i]), B)
    BY <2>3, <2>4, FbNewlineShows DEF B
  <2>6. Beside(t, g[i + 1])
    BY <2>3, <2>5 DEF Beside
  <2>7. FbShown(g[i + 1]) = Reel(FbShown(t), i + 1, B)
    BY <1>3, <2>3, <2>5, ReelNext
  <2> QED
    BY <2>5, <2>6, <2>7
<1>6. n \in S
  <2> HIDE DEF S
  <2> QED
    BY <1>4, <1>5, Induction
<1> QED
  BY <1>1, <1>6 DEF B

LEMMA FbRedrawn ==
  ASSUME NEW t \in FbScreens, FbText(t), NEW ink \in DESKS
  PROVE  /\ Redrawn(t, ink) \in FbScreens /\ FbText(Redrawn(t, ink))
         /\ Redrawn(t, ink).col = t.col /\ FbShown(Redrawn(t, ink)) = FbShown(t)
         /\ \A p \in FbCells :
              Redrawn(t, ink).cells[p] = IF Around(p) THEN ink ELSE t.cells[p]
<1> DEFINE C == [p \in FbCells |-> IF Around(p) THEN ink ELSE t.cells[p]]
           u == Redrawn(t, ink)
<1>1. /\ t.row \in HEADER_ROWS..fb_rows-1 /\ t.cells \in [FbCells -> INKS]
      /\ t.gone \in Seq(TextRows(fb_cols)) /\ t.col \in 0..fb_cols
      /\ t = [cells |-> t.cells, row |-> t.row, col |-> t.col, gone |-> t.gone]
  BY DEF FbScreens
<1>2. C \in [FbCells -> INKS]
  BY <1>1 DEF INKS
<1>3. \A p \in FbCells : C[p] = IF Around(p) THEN ink ELSE t.cells[p]
  OBVIOUS
<1>4. u = [t EXCEPT !.cells = C]
  BY DEF Redrawn
<1> HIDE DEF C, u
<1>5. u = [cells |-> C, row |-> t.row, col |-> t.col, gone |-> t.gone]
  BY <1>1, <1>4
<1>6. u \in FbScreens
  BY <1>1, <1>2, <1>5 DEF FbScreens
<1>7. ASSUME NEW r \in HEADER_ROWS..fb_rows-1
      PROVE  RowOf(u, r, fb_cols) = RowOf(t, r, fb_cols)
  <2>1. ASSUME NEW c \in 0..fb_cols-1 PROVE u.cells[<<r, c>>] = t.cells[<<r, c>>]
    <3>1. <<r, c>> \in Terminal /\ <<r, c>> \in FbCells
      BY FbPlaces
    <3> QED
      BY <1>3, <1>5, <3>1 DEF Around
  <2> QED
    BY <2>1 DEF RowOf
<1>8. FbText(u)
  BY <1>5, <1>7 DEF FbText, IsText
<1>9. FbShown(u) = FbShown(t)
  <2> DEFINE m == t.row - HEADER_ROWS + 1
  <2>1. ASSUME NEW i \in 1..m
        PROVE  RowOf(u, HEADER_ROWS + i - 1, fb_cols) = RowOf(t, HEADER_ROWS + i - 1, fb_cols)
    <3>1. HEADER_ROWS + i - 1 \in HEADER_ROWS..fb_rows-1
      BY <1>1, FbPlaces
    <3> QED
      BY <1>7, <3>1
  <2>2. u.row = t.row /\ u.gone = t.gone
    BY <1>5
  <2>3. [i \in 1..m |-> RowOf(u, HEADER_ROWS + i - 1, fb_cols)] =
          [i \in 1..m |-> RowOf(t, HEADER_ROWS + i - 1, fb_cols)]
    BY <2>1
  <2> QED
    BY <2>2, <2>3 DEF FbShown, Shown
<1>10. /\ u \in FbScreens /\ FbText(u) /\ u.col = t.col /\ FbShown(u) = FbShown(t)
       /\ \A p \in FbCells : u.cells[p] = IF Around(p) THEN ink ELSE t.cells[p]
  BY <1>3, <1>5, <1>6, <1>8, <1>9
<1> QED
  BY <1>10 DEF u

LEMMA FbInit ==
  /\ fb_init \in FbScreens /\ FbText(fb_init) /\ fb_init.col = 0
  /\ FbShown(fb_init) = <<Blanks(fb_cols)>>
  /\ \A p \in FbCells : fb_init.cells[p] = IF p \in Terminal THEN BLANK ELSE "desk"
<1> DEFINE C == [p \in FbCells |-> IF p \in Terminal THEN BLANK ELSE "desk"]
           B == Blanks(fb_cols)
<1>1. C \in [FbCells -> INKS]
  BY DEF INKS, DESKS
<1>2. fb_init = [cells |-> C, row |-> HEADER_ROWS, col |-> 0, gone |-> <<>>]
  BY DEF fb_init
<1>3. \A p \in FbCells : C[p] = IF p \in Terminal THEN BLANK ELSE "desk"
  OBVIOUS
<1> HIDE DEF C
<1>4. fb_init \in FbScreens
  BY <1>1, <1>2, FbPlaces, EmptySeq DEF FbScreens
<1>5. ASSUME NEW r \in HEADER_ROWS..fb_rows-1 PROVE RowOf(fb_init, r, fb_cols) = B
  <2>1. ASSUME NEW c \in 0..fb_cols-1 PROVE fb_init.cells[<<r, c>>] = BLANK
    BY <1>2, <1>3, FbPlaces
  <2> QED
    BY <2>1 DEF RowOf, Blanks
<1>6. FbText(fb_init)
  BY <1>2, <1>4, <1>5, FbRows, FbPlaces, EmptySeq DEF FbText, IsText
<1>7. FbShown(fb_init) = <<B>>
  <2> DEFINE h == HEADER_ROWS
  <2>1. h \in Nat /\ h - h + 1 = 1 /\ h \in h..fb_rows-1 /\ h + 1 - 1 = h
    BY FbPlaces
  <2>2. RowOf(fb_init, h + 1 - 1, fb_cols) = B
    BY <1>5, <2>1
  <2>3. FbShown(fb_init) = <<>> \o [i \in 1..1 |-> RowOf(fb_init, h + i - 1, fb_cols)]
    BY <1>2, <2>1 DEF FbShown, Shown
  <2>4. [i \in 1..1 |-> RowOf(fb_init, h + i - 1, fb_cols)] = <<B>>
    <3>1. [i \in 1..1 |-> RowOf(fb_init, h + i - 1, fb_cols)] = [i \in 1..1 |-> B]
      BY <2>2
    <3> HIDE DEF B
    <3> QED
      BY <3>1
  <2>5. <<B>> \in Seq({B}) /\ <<>> \o <<B>> = <<B>>
    BY ConcatEmptySeq
  <2> QED
    BY <2>3, <2>4, <2>5
<1> QED
  BY <1>2, <1>3, <1>4, <1>6, <1>7

-----------------------------------------------------------------------------
(***************************************************************************)
(* Text mode.                                                              *)
(***************************************************************************)
VgaScreens ==
  [cells : [VgaCells -> INKS], row : 0..VGA_ROWS-1, col : 0..VGA_COLS-1,
   gone : Seq(TextRows(VGA_COLS))]

VgaText(t)   == IsText(t, 0, VGA_ROWS-1, VGA_COLS)
VgaFed(t, u) == Fed(t, u, 0, VGA_ROWS-1, VGA_COLS)
VgaShown(t)  == Shown(t, 0, VGA_COLS)
VgaInk(t, u, col, c) == Written(t, u, col, c, 0, VGA_ROWS-1, VGA_COLS)

(* The row is left.                                                        *)
VgaNextRow(t) ==
  [cells |-> t.cells, row |-> t.row + 1, col |-> 0, gone |-> t.gone]

VgaSettled(t) == IF t.row >= VGA_ROWS THEN scroll(t) ELSE t

LEMMA VgaPlaces ==
  /\ VGA_ROWS \in Nat \ {0} /\ VGA_ROWS-1 \in Nat /\ VGA_COLS \in Nat /\ VGA_COLS >= 2
  /\ \A r \in 0..VGA_ROWS-1, c \in 0..VGA_COLS-1 : <<r, c>> \in VgaCells
BY ScreenAssumption DEF VgaCells

LEMMA VgaRows ==
  ASSUME NEW t \in VgaScreens
  PROVE  \A r \in 0..VGA_ROWS-1 : RowOf(t, r, VGA_COLS) \in TextRows(VGA_COLS)
<1>1. t.cells \in [VgaCells -> INKS]
  BY DEF VgaScreens
<1>2. ASSUME NEW r \in 0..VGA_ROWS-1, NEW c \in 0..VGA_COLS-1
      PROVE  t.cells[<<r, c>>] \in INKS
  <2>1. <<r, c>> \in VgaCells
    BY VgaPlaces
  <2> QED
    BY <1>1, <2>1
<1> QED
  BY <1>2 DEF RowOf, TextRows

LEMMA VgaLeaves ==
  ASSUME NEW t \in VgaScreens, VgaText(t)
  PROVE  /\ VgaSettled(VgaNextRow(t)) \in VgaScreens /\ VgaFed(t, VgaSettled(VgaNextRow(t)))
         /\ VgaSettled(VgaNextRow(t)).col = 0
<1> DEFINE next == VgaNextRow(t)
           u == VgaSettled(next)
<1>1. /\ t.row \in 0..VGA_ROWS-1 /\ t.cells \in [VgaCells -> INKS]
      /\ t.gone \in Seq(TextRows(VGA_COLS)) /\ 0 \in 0..VGA_ROWS-1 /\ 0 \in 0..VGA_COLS-1
      /\ \A r \in 0..VGA_ROWS-1 : RowOf(t, r, VGA_COLS) \in TextRows(VGA_COLS)
  BY VgaRows, VgaPlaces DEF VgaScreens
<1>2. next = [cells |-> t.cells, row |-> t.row + 1, col |-> 0, gone |-> t.gone]
  BY DEF VgaNextRow
<1> HIDE DEF next
<1>3. CASE ~ (t.row + 1 >= VGA_ROWS)
  <2>1. u = [cells |-> t.cells, row |-> t.row + 1, col |-> 0, gone |-> t.gone]
    BY <1>2, <1>3 DEF VgaSettled
  <2>2. t.row + 1 \in 0..VGA_ROWS-1 /\ t.row < VGA_ROWS-1
    BY <1>1, <1>3, VgaPlaces
  <2> HIDE DEF u
  <2>3. u \in VgaScreens
    BY <1>1, <2>1, <2>2 DEF VgaScreens
  <2>4. VgaFed(t, u)
    BY <2>1, <2>2 DEF VgaFed, Fed, RowOf
  <2>5. u.col = 0
    BY <2>1
  <2> QED
    BY <2>3, <2>4, <2>5 DEF u, next
<1>4. CASE t.row + 1 >= VGA_ROWS
  <2> DEFINE C == [p \in VgaCells |-> IF p[1] < VGA_ROWS - 1
                                      THEN t.cells[<<p[1] + 1, p[2]>>] ELSE BLANK]
             G == Append(t.gone, RowOf(t, 0, VGA_COLS))
  <2>1. u = [cells |-> C, row |-> VGA_ROWS-1, col |-> 0, gone |-> G]
    <3>1. next.row >= VGA_ROWS /\ next.cells = t.cells /\ next.gone = t.gone
      BY <1>2, <1>4
    <3>2. RowOf(next, 0, VGA_COLS) = RowOf(t, 0, VGA_COLS)
      BY <3>1 DEF RowOf
    <3>3. u = [next EXCEPT !.cells = C, !.row = VGA_ROWS-1, !.gone = G]
      BY <3>1, <3>2 DEF VgaSettled, scroll
    <3> DEFINE k == t.cells
               o == t.row + 1
               g == t.gone
               r == VGA_ROWS-1
               v == [next EXCEPT !.cells = C]
               w == [v EXCEPT !.row = r]
    <3>4. u = [w EXCEPT !.gone = G]
      BY <3>3
    <3> HIDE DEF C, G, k, g, o, r, v, w, u
    <3>5. next = [cells |-> k, row |-> o, col |-> 0, gone |-> g]
      BY <1>2 DEF k, g, o
    <3>6. v = [cells |-> C, row |-> o, col |-> 0, gone |-> g]
      BY <3>5 DEF v
    <3>7. w = [cells |-> C, row |-> r, col |-> 0, gone |-> g]
      BY <3>6 DEF w
    <3>8. u = [cells |-> C, row |-> r, col |-> 0, gone |-> G]
      BY <3>4, <3>7
    <3> QED
      BY <3>8 DEF r
  <2>2. t.row = VGA_ROWS-1 /\ VGA_ROWS-1 \in 0..VGA_ROWS-1
    BY <1>1, <1>4, VgaPlaces
  <2>3. C \in [VgaCells -> INKS]
    <3>1. ASSUME NEW p \in VgaCells, p[1] < VGA_ROWS - 1
          PROVE  t.cells[<<p[1] + 1, p[2]>>] \in INKS
      <4>1. <<p[1] + 1, p[2]>> \in VgaCells
        BY <3>1, VgaPlaces DEF VgaCells
      <4> QED
        BY <1>1, <4>1
    <3>2. BLANK \in INKS
      BY DEF INKS
    <3> QED
      BY <3>1, <3>2
  <2>4. G \in Seq(TextRows(VGA_COLS))
    BY <1>1, AppendProperties
  <2>5. \A p \in VgaCells : C[p] = IF p[1] < VGA_ROWS - 1
                                   THEN t.cells[<<p[1] + 1, p[2]>>] ELSE BLANK
    OBVIOUS
  <2> HIDE DEF C, G, u
  <2>6. ASSUME NEW r \in 0..VGA_ROWS-1
        PROVE  RowOf(u, r, VGA_COLS) = IF r < VGA_ROWS-1 THEN RowOf(t, r + 1, VGA_COLS)
                                                         ELSE Blanks(VGA_COLS)
    <3>1. ASSUME NEW c \in 0..VGA_COLS-1
          PROVE  C[<<r, c>>] = IF r < VGA_ROWS-1 THEN t.cells[<<r + 1, c>>] ELSE BLANK
      BY <2>5, VgaPlaces
    <3>2. u.cells = C
      BY <2>1
    <3> QED
      BY <3>1, <3>2 DEF RowOf, Blanks
  <2>7. u \in VgaScreens
    BY <1>1, <2>1, <2>2, <2>3, <2>4 DEF VgaScreens
  <2>8. VgaFed(t, u)
    BY <2>1, <2>2, <2>6 DEF VgaFed, Fed, G
  <2>9. u.col = 0
    BY <2>1
  <2> QED
    BY <2>7, <2>8, <2>9 DEF u, next
<1> QED
  BY <1>3, <1>4

LEMMA VgaNewline ==
  ASSUME NEW t \in VgaScreens, VgaText(t)
  PROVE  LET u == VgaSettled(VgaNextRow(t))
         IN  /\ u \in VgaScreens /\ VgaText(u) /\ u.col = 0
             /\ VgaShown(u) = Append(VgaShown(t), Blanks(VGA_COLS))
<1> DEFINE u == VgaSettled(VgaNextRow(t))
           bottom == VGA_ROWS-1
<1>1. u \in VgaScreens /\ VgaFed(t, u) /\ u.col = 0
  BY VgaLeaves
<1> HIDE DEF u, bottom
<1>2. /\ 0 \in Nat /\ bottom \in Nat /\ VGA_COLS \in Nat
      /\ IsText(t, 0, bottom, VGA_COLS) /\ Fed(t, u, 0, bottom, VGA_COLS)
  BY <1>1, VgaPlaces DEF bottom, VgaText, VgaFed
<1>3. /\ IsText(u, 0, bottom, VGA_COLS)
      /\ Shown(u, 0, VGA_COLS) = Append(Shown(t, 0, VGA_COLS), Blanks(VGA_COLS))
  BY <1>2, FedShows
<1>4. /\ u \in VgaScreens /\ VgaText(u) /\ u.col = 0
      /\ VgaShown(u) = Append(VgaShown(t), Blanks(VGA_COLS))
  BY <1>1, <1>3 DEF VgaText, VgaShown, bottom
<1> QED
  BY <1>4 DEF u

LEMMA VgaInked ==
  ASSUME NEW t \in VgaScreens, VgaText(t), NEW col \in 0..VGA_COLS-1,
         NEW next \in 0..VGA_COLS-1, NEW c \in INKS
  PROVE  /\ Inked(t, col, c, next) \in VgaScreens /\ VgaText(Inked(t, col, c, next))
         /\ Inked(t, col, c, next).col = next
         /\ VgaShown(Inked(t, col, c, next)) = PaperPut(VgaShown(t), col, c)
<1> DEFINE C == [t.cells EXCEPT ![<<t.row, col>>] = c]
           u == Inked(t, col, c, next)
           bottom == VGA_ROWS-1
<1>1. /\ t.row \in 0..VGA_ROWS-1 /\ t.cells \in [VgaCells -> INKS]
      /\ t.gone \in Seq(TextRows(VGA_COLS))
  BY DEF VgaScreens
<1>2. u = [cells |-> C, row |-> t.row, col |-> next, gone |-> t.gone]
  BY DEF Inked
<1>3. <<t.row, col>> \in VgaCells
  BY <1>1, VgaPlaces
<1>4. C \in [VgaCells -> INKS]
  BY <1>1
<1>5. \A p \in VgaCells : C[p] = IF p = <<t.row, col>> THEN c ELSE t.cells[p]
  BY <1>1, <1>3
<1> HIDE DEF C, u, bottom
<1>6. u \in VgaScreens /\ u.col = next
  BY <1>1, <1>2, <1>4 DEF VgaScreens
<1>7. ASSUME NEW r \in 0..VGA_ROWS-1
      PROVE  RowOf(u, r, VGA_COLS) =
               IF r = t.row THEN [RowOf(t, r, VGA_COLS) EXCEPT ![col] = c]
                            ELSE RowOf(t, r, VGA_COLS)
  <2>1. ASSUME NEW x \in 0..VGA_COLS-1
        PROVE  u.cells[<<r, x>>] = IF r = t.row /\ x = col THEN c ELSE t.cells[<<r, x>>]
    <3>1. <<r, x>> \in VgaCells
      BY VgaPlaces
    <3>2. <<r, x>> = <<t.row, col>> <=> r = t.row /\ x = col
      OBVIOUS
    <3> QED
      BY <1>2, <1>5, <3>1, <3>2
  <2> QED
    BY <2>1 DEF RowOf
<1>8. /\ 0 \in Nat /\ bottom \in Nat /\ VGA_COLS \in Nat
      /\ IsText(t, 0, bottom, VGA_COLS) /\ Written(t, u, col, c, 0, bottom, VGA_COLS)
  BY <1>2, <1>7, VgaPlaces DEF bottom, VgaText, Written
<1>9. /\ IsText(u, 0, bottom, VGA_COLS)
      /\ Shown(u, 0, VGA_COLS) = PaperPut(Shown(t, 0, VGA_COLS), col, c)
  BY <1>8, WrittenShows
<1>10. /\ u \in VgaScreens /\ u.col = next /\ VgaText(u)
       /\ VgaShown(u) = PaperPut(VgaShown(t), col, c)
  BY <1>6, <1>9 DEF VgaText, VgaShown, bottom
<1> QED
  BY <1>10 DEF u

LEMMA VgaPutc ==
  ASSUME NEW t \in VgaScreens
  PROVE  /\ vga_putc(t, LF) = VgaSettled(VgaNextRow(t))
         /\ vga_putc(t, BS) = [cells |-> t.cells, row |-> t.row,
                               col |-> IF t.col > 0 THEN t.col - 1 ELSE 0, gone |-> t.gone]
         /\ \A c : c # LF /\ c # BS =>
              /\ t.col + 1 < VGA_COLS => vga_putc(t, c) = Inked(t, t.col, c, t.col + 1)
              /\ t.col + 1 = VGA_COLS =>
                   \A x : vga_putc(t, c) = VgaSettled(VgaNextRow(Inked(t, t.col, c, x)))
<1> DEFINE k == t.cells
           r == t.row
           o == t.col
           g == t.gone
           back == IF o > 0 THEN o - 1 ELSE 0
<1>1. t = [cells |-> k, row |-> r, col |-> o, gone |-> g]
  BY DEF VgaScreens
<1>2. /\ r \in 0..VGA_ROWS-1 /\ o \in 0..VGA_COLS-1 /\ VGA_ROWS \in Nat \ {0}
      /\ VGA_COLS \in Nat
  BY VgaPlaces DEF VgaScreens
<1>3. ~ (r >= VGA_ROWS) /\ LF # BS
  BY <1>2 DEF LF, BS
<1> HIDE DEF k, r, o, g
<1>4. vga_putc(t, LF) = VgaSettled(VgaNextRow(t))
  <2>1. vga_next(t, LF) = [t EXCEPT !.col = 0, !.row = r + 1]
    BY <1>1 DEF vga_next
  <2> DEFINE v == [t EXCEPT !.col = 0]
             n == r + 1
  <2> HIDE DEF n
  <2>2. v = [cells |-> k, row |-> r, col |-> 0, gone |-> g]
    BY <1>1
  <2>3. [t EXCEPT !.col = 0, !.row = n] = [v EXCEPT !.row = n]
    OBVIOUS
  <2> HIDE DEF v
  <2>4. [v EXCEPT !.row = n] = [cells |-> k, row |-> n, col |-> 0, gone |-> g]
    BY <2>2
  <2>5. vga_next(t, LF) = VgaNextRow(t)
    BY <2>1, <2>3, <2>4 DEF VgaNextRow, n, k, r, g
  <2> QED
    BY <2>5 DEF vga_putc, VgaSettled
<1>5. vga_putc(t, BS) = [cells |-> k, row |-> r, col |-> back, gone |-> g]
  <2>1. vga_next(t, BS) = [t EXCEPT !.col = back]
    BY <1>1, <1>3 DEF vga_next
  <2> HIDE DEF back
  <2>2. [t EXCEPT !.col = back] = [cells |-> k, row |-> r, col |-> back, gone |-> g]
    BY <1>1
  <2> DEFINE u == vga_next(t, BS)
  <2>3. u = [cells |-> k, row |-> r, col |-> back, gone |-> g]
    BY <2>1, <2>2
  <2> HIDE DEF u
  <2>4. ~ (u.row >= VGA_ROWS)
    BY <1>3, <2>3
  <2>5. vga_putc(t, BS) = u
    BY <2>4 DEF vga_putc, u
  <2> QED
    BY <2>3, <2>5
<1>6. ASSUME NEW c, c # LF, c # BS
      PROVE  /\ o + 1 < VGA_COLS => vga_putc(t, c) = Inked(t, o, c, o + 1)
             /\ o + 1 = VGA_COLS =>
                  \A x : vga_putc(t, c) = VgaSettled(VgaNextRow(Inked(t, o, c, x)))
  <2> DEFINE C == [k EXCEPT ![<<r, o>>] = c]
             u == vga_next(t, c)
             v == [t EXCEPT !.cells = C]
  <2>1. Put(t, c) = C
    BY <1>1 DEF Put
  <2> HIDE DEF C
  <2>2. v = [cells |-> C, row |-> r, col |-> o, gone |-> g]
    BY <1>1
  <2>3. ASSUME o + 1 < VGA_COLS PROVE vga_putc(t, c) = Inked(t, o, c, o + 1)
    <3> DEFINE n == o + 1
               w == [v EXCEPT !.col = n]
    <3>1. ~ (o + 1 >= VGA_COLS)
      BY <1>2, <2>3
    <3>2. u = [t EXCEPT !.cells = C, !.col = n, !.row = r]
      BY <1>1, <1>6, <2>1, <3>1 DEF vga_next
    <3>3. u = [w EXCEPT !.row = r]
      BY <3>2
    <3> HIDE DEF n, v, w, u
    <3>4. w = [cells |-> C, row |-> r, col |-> n, gone |-> g]
      BY <2>2 DEF w
    <3>5. u = [cells |-> C, row |-> r, col |-> n, gone |-> g]
      BY <3>3, <3>4
    <3>6. ~ (u.row >= VGA_ROWS)
      BY <1>3, <3>5
    <3>7. vga_putc(t, c) = u
      BY <3>6 DEF vga_putc, u
    <3>8. Inked(t, o, c, n) = [cells |-> C, row |-> r, col |-> n, gone |-> g]
      BY DEF Inked, C, k, r, g
    <3> QED
      BY <3>5, <3>7, <3>8 DEF n
  <2>4. ASSUME o + 1 = VGA_COLS, NEW x
        PROVE  vga_putc(t, c) = VgaSettled(VgaNextRow(Inked(t, o, c, x)))
    <3> DEFINE n == r + 1
               w == [v EXCEPT !.col = 0]
    <3>1. o + 1 >= VGA_COLS
      BY <1>2, <2>4
    <3>2. u = [t EXCEPT !.cells = C, !.col = 0, !.row = n]
      BY <1>1, <1>6, <2>1, <3>1 DEF vga_next
    <3>3. u = [w EXCEPT !.row = n]
      BY <3>2
    <3> HIDE DEF n, v, w, u
    <3>4. w = [cells |-> C, row |-> r, col |-> 0, gone |-> g]
      BY <2>2 DEF w
    <3>5. u = [cells |-> C, row |-> n, col |-> 0, gone |-> g]
      BY <3>3, <3>4
    <3>6. Inked(t, o, c, x) = [cells |-> C, row |-> r, col |-> x, gone |-> g]
      BY DEF Inked, C, k, r, g
    <3>7. VgaNextRow(Inked(t, o, c, x)) = u
      BY <3>5, <3>6 DEF VgaNextRow, n
    <3>8. vga_putc(t, c) = VgaSettled(u)
      BY DEF vga_putc, VgaSettled, u
    <3> QED
      BY <3>7, <3>8
  <2> QED
    BY <2>3, <2>4
<1> QED
  BY <1>4, <1>5, <1>6 DEF k, r, o, g

LEMMA VgaWrite ==
  ASSUME NEW t \in VgaScreens, VgaText(t), NEW c \in INKS, c # LF, c # BS
  PROVE  /\ vga_putc(t, c) \in VgaScreens /\ VgaText(vga_putc(t, c))
         /\ t.col # VGA_COLS-1 =>
              /\ vga_putc(t, c).col = t.col + 1
              /\ VgaShown(vga_putc(t, c)) = PaperPut(VgaShown(t), t.col, c)
         /\ t.col = VGA_COLS-1 =>
              /\ vga_putc(t, c).col = 0
              /\ VgaShown(vga_putc(t, c)) =
                   Append(PaperPut(VgaShown(t), t.col, c), Blanks(VGA_COLS))
<1>1. t.col \in 0..VGA_COLS-1 /\ VGA_COLS \in Nat
  BY VgaPlaces DEF VgaScreens
<1>2. CASE t.col # VGA_COLS-1
  <2>1. t.col + 1 < VGA_COLS /\ t.col + 1 \in 0..VGA_COLS-1
    BY <1>1, <1>2
  <2>2. vga_putc(t, c) = Inked(t, t.col, c, t.col + 1)
    BY <2>1, VgaPutc
  <2> DEFINE o == t.col
             n == t.col + 1
             u == Inked(t, o, c, n)
  <2>3. o \in 0..VGA_COLS-1 /\ n \in 0..VGA_COLS-1
    BY <1>1, <2>1
  <2> HIDE DEF o, n
  <2>4. u \in VgaScreens /\ VgaText(u) /\ u.col = n /\ VgaShown(u) = PaperPut(VgaShown(t), o, c)
    BY <2>3, VgaInked
  <2>5. vga_putc(t, c) = u
    BY <2>2 DEF o, n
  <2> HIDE DEF u
  <2> QED
    BY <1>2, <2>4, <2>5 DEF o, n
<1>3. CASE t.col = VGA_COLS-1
  <2> DEFINE at == Inked(t, t.col, c, t.col)
  <2>1. t.col + 1 = VGA_COLS
    BY <1>1, <1>3
  <2>2. vga_putc(t, c) = VgaSettled(VgaNextRow(at))
    BY <2>1, VgaPutc
  <2>3. /\ at \in VgaScreens /\ VgaText(at)
        /\ VgaShown(at) = PaperPut(VgaShown(t), t.col, c)
    BY <1>1, VgaInked
  <2> HIDE DEF at
  <2>4. /\ vga_putc(t, c) \in VgaScreens /\ VgaText(vga_putc(t, c)) /\ vga_putc(t, c).col = 0
        /\ VgaShown(vga_putc(t, c)) = Append(VgaShown(at), Blanks(VGA_COLS))
    BY <2>2, <2>3, VgaNewline
  <2> QED
    BY <1>3, <2>3, <2>4
<1> QED
  BY <1>2, <1>3

LEMMA VgaErase ==
  ASSUME NEW t \in VgaScreens, VgaText(t)
  PROVE  LET back == IF t.col > 0 THEN t.col - 1 ELSE 0
         IN  /\ vga_erase(t) \in VgaScreens /\ VgaText(vga_erase(t))
             /\ vga_erase(t).col = back
             /\ VgaShown(vga_erase(t)) = PaperPut(VgaShown(t), back, BLANK)
<1> DEFINE back == IF t.col > 0 THEN t.col - 1 ELSE 0
           a == vga_putc(t, BS)
           b == vga_putc(a, BLANK)
           d == vga_putc(b, BS)
<1>1. t.col \in 0..VGA_COLS-1 /\ VGA_COLS \in Nat /\ VGA_COLS >= 2
  BY VgaPlaces DEF VgaScreens
<1>2. /\ back \in 0..VGA_COLS-1 /\ back + 1 < VGA_COLS /\ back + 1 \in 0..VGA_COLS-1
      /\ back + 1 > 0 /\ (back + 1) - 1 = back
  BY <1>1
<1>3. BLANK \in INKS /\ BLANK # LF /\ BLANK # BS
  BY DEF INKS, BLANK, LF, BS
<1> HIDE DEF back
<1>4. a = [cells |-> t.cells, row |-> t.row, col |-> back, gone |-> t.gone]
  BY VgaPutc DEF back
<1> HIDE DEF a
<1>5. a \in VgaScreens /\ a.col = back
  BY <1>2, <1>4 DEF VgaScreens
<1>6. b = Inked(a, back, BLANK, back + 1)
  BY <1>2, <1>3, <1>5, VgaPutc
<1> HIDE DEF b
<1>7. Inked(a, back, BLANK, back + 1) = Inked(t, back, BLANK, back + 1)
  BY <1>4 DEF Inked
<1>8. b \in VgaScreens
  BY <1>2, <1>3, <1>6, <1>7, VgaInked
<1>9. d = Inked(t, back, BLANK, back)
  <2> DEFINE C == [t.cells EXCEPT ![<<t.row, back>>] = BLANK]
             n == back + 1
  <2>1. b = [cells |-> C, row |-> t.row, col |-> n, gone |-> t.gone]
    BY <1>6, <1>7 DEF Inked
  <2> HIDE DEF C
  <2>2. b.cells = C /\ b.row = t.row /\ b.gone = t.gone /\ b.col = n
    BY <2>1
  <2>3. (IF n > 0 THEN n - 1 ELSE 0) = back
    BY <1>2
  <2> HIDE DEF n
  <2>4. d = [cells |-> C, row |-> t.row, col |-> back, gone |-> t.gone]
    BY <1>8, <2>2, <2>3, VgaPutc
  <2> QED
    BY <2>4 DEF Inked, C
<1>10. vga_erase(t) = d
  BY DEF vga_erase, a, b
<1> HIDE DEF d
<1>11. /\ vga_erase(t) \in VgaScreens /\ VgaText(vga_erase(t))
       /\ vga_erase(t).col = back
       /\ VgaShown(vga_erase(t)) = PaperPut(VgaShown(t), back, BLANK)
  BY <1>2, <1>3, <1>9, <1>10, VgaInked
<1> QED
  BY <1>11 DEF back

LEMMA VgaReel ==
  ASSUME NEW t, VgaText(t)
  PROVE  /\ VgaShown(t) \in Seq(TextRows(VGA_COLS)) /\ Blanks(VGA_COLS) \in TextRows(VGA_COLS)
         /\ Append(VgaShown(t), Blanks(VGA_COLS)) = Reel(VgaShown(t), 1, Blanks(VGA_COLS))
<1> DEFINE B == Blanks(VGA_COLS)
           T == TextRows(VGA_COLS)
           bottom == VGA_ROWS-1
<1>1. B \in T
  BY DEF Blanks, TextRows, INKS
<1>2. /\ 0 \in Nat /\ bottom \in Nat /\ VGA_COLS \in Nat
      /\ IsText(t, 0, bottom, VGA_COLS)
  BY VgaPlaces DEF VgaText
<1> HIDE DEF B, T, bottom
<1>3. Showing(Shown(t, 0, VGA_COLS), t, Len(t.gone), t.row, 0, VGA_COLS)
  BY <1>2, ShownIs
<1>4. VgaShown(t) \in Seq(T)
  BY <1>3 DEF Showing, VgaShown, T
<1>5. 0 + 1 = 1 /\ 0 \in Nat
  OBVIOUS
<1>6. /\ Reel(VgaShown(t), 0 + 1, B) = Append(Reel(VgaShown(t), 0, B), B)
      /\ Reel(VgaShown(t), 0, B) = VgaShown(t)
  BY <1>1, <1>4, <1>5, ReelNext
<1> QED
  BY <1>1, <1>4, <1>5, <1>6 DEF B, T

VgaLines(g, t, n) == g = [i \in 0..n |-> IF i = 0 THEN t ELSE vga_putc(g[i-1], LF)]

LEMMA VgaFeedIs ==
  ASSUME NEW t, NEW n \in Nat
  PROVE  \E g : VgaLines(g, t, n) /\ vga_feed(t, n) = g[n]
<1> DEFINE S == {m \in Nat : \E g : VgaLines(g, t, m)}
<1>1. 0 \in S
  <2> DEFINE g == [i \in 0..0 |-> t]
  <2>1. VgaLines(g, t, 0)
    BY DEF VgaLines
  <2> QED
    BY <2>1
<1>2. ASSUME NEW m \in Nat, m \in S PROVE m + 1 \in S
  <2>1. PICK g : VgaLines(g, t, m)
    BY <1>2
  <2> DEFINE h == [i \in 0..m+1 |-> IF i = m + 1 THEN vga_putc(g[m], LF) ELSE g[i]]
  <2>2. ASSUME NEW i \in 0..m+1 PROVE h[i] = IF i = 0 THEN t ELSE vga_putc(h[i-1], LF)
    BY <2>1 DEF VgaLines
  <2>3. VgaLines(h, t, m + 1)
    BY <2>2 DEF VgaLines
  <2> HIDE DEF h
  <2> QED
    BY <2>3
<1> HIDE DEF S
<1>3. n \in S
  BY <1>1, <1>2, Induction
<1>4. \E g : VgaLines(g, t, n)
  BY <1>3 DEF S
<1> QED
  BY <1>4 DEF vga_feed, VgaLines

LEMMA VgaFeed ==
  ASSUME NEW t \in VgaScreens, VgaText(t), NEW n \in Nat \ {0}
  PROVE  /\ vga_feed(t, n) \in VgaScreens /\ VgaText(vga_feed(t, n))
         /\ vga_feed(t, n).col = 0
         /\ VgaShown(vga_feed(t, n)) = Reel(VgaShown(t), n, Blanks(VGA_COLS))
<1> DEFINE B == Blanks(VGA_COLS)
           T == TextRows(VGA_COLS)
<1>1. PICK g : VgaLines(g, t, n) /\ vga_feed(t, n) = g[n]
  BY VgaFeedIs
<1>2. g[0] = t /\ \A i \in 1..n : g[i] = vga_putc(g[i-1], LF)
  BY <1>1 DEF VgaLines
<1> DEFINE P(i) == /\ g[i] \in VgaScreens /\ VgaText(g[i])
                   /\ i > 0 => g[i].col = 0
                   /\ VgaShown(g[i]) = Reel(VgaShown(t), i, B)
           S == {i \in Nat : i <= n => P(i)}
<1>3. B \in T /\ VgaShown(t) \in Seq(T)
  BY VgaReel
<1> HIDE DEF B, T
<1>4. 0 \in S
  <2>1. Reel(VgaShown(t), 0, B) = VgaShown(t)
    BY <1>3, ReelNext
  <2> QED
    BY <1>2, <2>1
<1>5. ASSUME NEW i \in Nat, i \in S PROVE i + 1 \in S
  <2>1. SUFFICES ASSUME i + 1 <= n PROVE P(i + 1)
    OBVIOUS
  <2>2. i <= n /\ i + 1 \in 1..n /\ (i + 1) - 1 = i
    BY <2>1
  <2>3. P(i)
    BY <1>5, <2>2
  <2>4. g[i + 1] = VgaSettled(VgaNextRow(g[i]))
    <3>1. g[i + 1] = vga_putc(g[i], LF)
      BY <1>2, <2>2
    <3> QED
      BY <2>3, <3>1, VgaPutc
  <2>5. /\ g[i + 1] \in VgaScreens /\ VgaText(g[i + 1]) /\ g[i + 1].col = 0
        /\ VgaShown(g[i + 1]) = Append(VgaShown(g[i]), B)
    BY <2>3, <2>4, VgaNewline DEF B
  <2>6. VgaShown(g[i + 1]) = Reel(VgaShown(t), i + 1, B)
    BY <1>3, <2>3, <2>5, ReelNext
  <2> QED
    BY <2>5, <2>6
<1>6. n \in S
  <2> HIDE DEF S
  <2> QED
    BY <1>4, <1>5, Induction
<1> QED
  BY <1>1, <1>6 DEF B

LEMMA VgaInit ==
  /\ vga_init \in VgaScreens /\ VgaText(vga_init) /\ vga_init.col = 0
  /\ VgaShown(vga_init) = <<Blanks(VGA_COLS)>>
<1> DEFINE C == [p \in VgaCells |-> BLANK]
           B == Blanks(VGA_COLS)
<1>1. C \in [VgaCells -> INKS]
  BY DEF INKS
<1>2. vga_init = [cells |-> C, row |-> 0, col |-> 0, gone |-> <<>>]
  BY DEF vga_init
<1>3. \A p \in VgaCells : C[p] = BLANK
  OBVIOUS
<1> HIDE DEF C
<1>4. vga_init \in VgaScreens
  BY <1>1, <1>2, VgaPlaces, EmptySeq DEF VgaScreens
<1>5. ASSUME NEW r \in 0..VGA_ROWS-1 PROVE RowOf(vga_init, r, VGA_COLS) = B
  <2>1. ASSUME NEW c \in 0..VGA_COLS-1 PROVE vga_init.cells[<<r, c>>] = BLANK
    BY <1>2, <1>3, VgaPlaces
  <2> QED
    BY <2>1 DEF RowOf, Blanks
<1>6. VgaText(vga_init)
  BY <1>2, <1>4, <1>5, VgaRows, VgaPlaces, EmptySeq DEF VgaText, IsText
<1>7. VgaShown(vga_init) = <<B>>
  <2>1. 0 - 0 + 1 = 1 /\ 0 + 1 - 1 = 0 /\ 0 \in 0..VGA_ROWS-1
    BY VgaPlaces
  <2>2. RowOf(vga_init, 0 + 1 - 1, VGA_COLS) = B
    BY <1>5, <2>1
  <2>3. VgaShown(vga_init) = <<>> \o [i \in 1..1 |-> RowOf(vga_init, 0 + i - 1, VGA_COLS)]
    BY <1>2, <2>1 DEF VgaShown, Shown
  <2>4. [i \in 1..1 |-> RowOf(vga_init, 0 + i - 1, VGA_COLS)] = <<B>>
    <3>1. [i \in 1..1 |-> RowOf(vga_init, 0 + i - 1, VGA_COLS)] = [i \in 1..1 |-> B]
      BY <2>2
    <3> HIDE DEF B
    <3> QED
      BY <3>1
  <2>5. <<B>> \in Seq({B}) /\ <<>> \o <<B>> = <<B>>
    BY ConcatEmptySeq
  <2> QED
    BY <2>3, <2>4, <2>5
<1> QED
  BY <1>2, <1>4, <1>6, <1>7

-----------------------------------------------------------------------------
(***************************************************************************)
(* The console.                                                            *)
(***************************************************************************)
ConsoleOK ==
  /\ vga \in VgaScreens /\ VgaText(vga)
  /\ fb \in FbScreens /\ FbText(fb)
  /\ desk \in DESKS

(* Whatever is done, it is one of these.                                   *)
ConsoleNext ==
  \/ \E c \in CHARS : type(c)
  \/ erase
  \/ newline
  \/ cmd_clear
  \/ \E ink \in DESKS : refresh(ink)
  \/ UNCHANGED console_vars

LEMMA NextIsConsole ==
  [Next]_vars => ConsoleNext
BY DEF Next, vars, move, ConsoleNext, console_vars

LEMMA CharsAreInk ==
  ASSUME NEW c \in CHARS
  PROVE  c \in INKS /\ c # LF /\ c # BS
BY CharsAssumption DEF INKS

LEMMA ClearIsMany ==
  CLEAR_LINES \in Nat \ {0}
BY ConsoleAssumption

LEMMA FbAfterErase ==
  ASSUME NEW t \in FbScreens, FbText(t)
  PROVE  LET back == IF t.col > 0 THEN t.col - 1 ELSE 0
         IN  /\ fb_erase(t) \in FbScreens /\ FbText(fb_erase(t)) /\ Beside(t, fb_erase(t))
             /\ fb_erase(t).col = back
             /\ FbShown(fb_erase(t)) = PaperPut(FbShown(t), back, BLANK)
<1> DEFINE back == IF t.col > 0 THEN t.col - 1 ELSE 0
<1>1. back \in 0..fb_cols-1 /\ fb_erase(t) = Inked(t, back, BLANK, back)
  BY FbErase
<1>2. back \in 0..fb_cols /\ BLANK \in INKS
  BY <1>1, FbPlaces DEF INKS
<1> HIDE DEF back
<1>3. /\ Inked(t, back, BLANK, back) \in FbScreens /\ FbText(Inked(t, back, BLANK, back))
      /\ Inked(t, back, BLANK, back).col = back /\ Beside(t, Inked(t, back, BLANK, back))
      /\ FbShown(Inked(t, back, BLANK, back)) = PaperPut(FbShown(t), back, BLANK)
  BY <1>1, <1>2, FbInked
<1>4. /\ fb_erase(t) \in FbScreens /\ FbText(fb_erase(t)) /\ Beside(t, fb_erase(t))
      /\ fb_erase(t).col = back
      /\ FbShown(fb_erase(t)) = PaperPut(FbShown(t), back, BLANK)
  BY <1>1, <1>3
<1> QED
  BY <1>4 DEF back

LEMMA ConsoleStep ==
  ASSUME ConsoleOK, ConsoleNext
  PROVE  ConsoleOK'
<1> USE DEF ConsoleOK
<1>1. ASSUME NEW c \in CHARS, type(c) PROVE ConsoleOK'
  BY <1>1, CharsAreInk, FbWrite, VgaWrite DEF type, print
<1>2. CASE erase
  BY <1>2, FbAfterErase, VgaErase DEF erase, print
<1>3. CASE newline
  <2>1. fb' = fb_newline(fb) /\ vga' = vga_putc(vga, LF) /\ UNCHANGED desk
    BY <1>3 DEF newline, print, fb_putc
  <2>2. vga' = VgaSettled(VgaNextRow(vga))
    BY <2>1, VgaPutc
  <2> QED
    BY <2>1, <2>2, FbNewlineShows, VgaNewline
<1>4. CASE cmd_clear
  BY <1>4, ClearIsMany, FbFeed, VgaFeed DEF cmd_clear, print
<1>5. ASSUME NEW ink \in DESKS, refresh(ink) PROVE ConsoleOK'
  BY <1>5, FbRedrawn DEF refresh
<1>6. CASE UNCHANGED console_vars
  BY <1>6 DEF console_vars
<1> QED
  BY <1>1, <1>2, <1>3, <1>4, <1>5, <1>6 DEF ConsoleNext

LEMMA InitIsConsole ==
  Init => ConsoleOK
BY FbInit, VgaInit DEF Init, ConsoleInit, ConsoleOK, DESKS

LEMMA ConsoleIsOK ==
  Spec => []ConsoleOK
<1>1. ConsoleOK /\ [Next]_vars => ConsoleOK'
  BY ConsoleStep, NextIsConsole
<1> QED
  BY <1>1, InitIsConsole, PTL DEF Spec


-----------------------------------------------------------------------------
(* Whatever is printed, drawn anew or pointed at, the terminal leaves the  *)
(* header, the panel of nodes and the taskbar alone.                       *)
THEOREM TerminalAlone ==
  Spec => []TerminalKeepsToItself
<1>1. Init => TerminalKeepsToItself
  BY FbInit DEF Init, ConsoleInit, TerminalKeepsToItself
<1>2. ASSUME ConsoleOK, TerminalKeepsToItself, ConsoleNext
      PROVE  TerminalKeepsToItself'
  <2>1. CASE desk' = desk /\ Beside(fb, fb')
    BY <1>2, <2>1 DEF TerminalKeepsToItself, Beside
  <2>2. ASSUME NEW c \in CHARS, type(c) PROVE desk' = desk /\ Beside(fb, fb')
    BY <1>2, <2>2, CharsAreInk, FbWrite DEF type, print, ConsoleOK
  <2>3. ASSUME erase PROVE desk' = desk /\ Beside(fb, fb')
    BY <1>2, <2>3, FbAfterErase DEF erase, print, ConsoleOK
  <2>4. ASSUME newline PROVE desk' = desk /\ Beside(fb, fb')
    <3>1. fb' = fb_newline(fb) /\ desk' = desk
      BY <2>4 DEF newline, print, fb_putc
    <3> QED
      BY <1>2, <3>1, FbNewlineShows DEF ConsoleOK
  <2>5. ASSUME cmd_clear PROVE desk' = desk /\ Beside(fb, fb')
    BY <1>2, <2>5, ClearIsMany, FbFeed DEF cmd_clear, print, ConsoleOK
  <2>6. ASSUME NEW ink \in DESKS, refresh(ink) PROVE TerminalKeepsToItself'
    <3>1. /\ fb' = Redrawn(fb, ink) /\ desk' = ink
          /\ \A p \in FbCells : fb'.cells[p] = IF Around(p) THEN ink ELSE fb.cells[p]
      BY <1>2, <2>6, FbRedrawn DEF refresh, ConsoleOK
    <3> QED
      BY <1>2, <3>1 DEF TerminalKeepsToItself
  <2>7. ASSUME UNCHANGED console_vars PROVE desk' = desk /\ Beside(fb, fb')
    BY <2>7 DEF console_vars, Beside
  <2> QED
    BY <1>2, <2>1, <2>2, <2>3, <2>4, <2>5, <2>6, <2>7 DEF ConsoleNext
<1>3. ConsoleOK /\ TerminalKeepsToItself /\ [Next]_vars => TerminalKeepsToItself'
  BY <1>2, NextIsConsole
<1> QED
  BY <1>1, <1>3, ConsoleIsOK, PTL DEF Spec


(* The terminal of the framebuffer implements the paper: a row that is     *)
(* full is left when one more character comes.                             *)
THEOREM FbImplementsPaper ==
  Spec => FbIsPaper
<1> DEFINE B == Blanks(fb_cols)
           paper == Shown(fb, HEADER_ROWS, fb_cols)
           pvars == <<paper, fb.col>>
<1>1. B = OnFb!BlankRow
  BY DEF Blanks, OnFb!BlankRow, OnFb!BLANK, BLANK
<1>2. paper = FbShown(fb) /\ paper' = FbShown(fb')
  BY DEF FbShown, Shown
<1>3. \A rows, col, c : OnFb!Put(rows, col, c) = PaperPut(rows, col, c)
  BY DEF OnFb!Put, PaperPut
<1>4. Init => OnFb!Init
  <2>1. Init => fb = fb_init
    BY DEF Init, ConsoleInit
  <2> QED
    BY <1>1, <1>2, <2>1, FbInit DEF OnFb!Init
<1>5. ASSUME ConsoleOK, ConsoleNext
      PROVE  OnFb!Next \/ UNCHANGED pvars
  <2>8. /\ fb \in FbScreens /\ FbText(fb)
        /\ fb.col \in 0..fb_cols /\ fb_cols \in Nat /\ fb_cols >= 2
    BY <1>5, FbPlaces DEF ConsoleOK, FbScreens
  <2>1. ASSUME NEW c \in CHARS, type(c) PROVE OnFb!Write(c)
    <3>1. fb' = fb_putc(fb, c)
      BY <2>1 DEF type
    <3>2. CASE fb.col # fb_cols
      <4>1. fb'.col = fb.col + 1 /\ FbShown(fb') = PaperPut(FbShown(fb), fb.col, c)
        BY <2>8, <3>1, <3>2, CharsAreInk, FbWrite
      <4> HIDE DEF paper
      <4> QED
        BY <1>2, <1>3, <3>2, <4>1 DEF OnFb!Write, paper
    <3>3. CASE fb.col = fb_cols
      <4>1. fb'.col = 1 /\ FbShown(fb') = PaperPut(Append(FbShown(fb), B), 0, c)
        BY <2>8, <3>1, <3>3, CharsAreInk, FbWrite
      <4> HIDE DEF B
      <4> QED
        BY <1>1, <1>2, <1>3, <3>3, <4>1 DEF OnFb!Write
    <3> QED
      BY <3>2, <3>3
  <2>2. ASSUME erase PROVE OnFb!Erase
    <3> DEFINE back == IF fb.col > 0 THEN fb.col - 1 ELSE 0
    <3>1. fb' = fb_erase(fb)
      BY <2>2 DEF erase
    <3>2. fb'.col = back /\ FbShown(fb') = PaperPut(FbShown(fb), back, BLANK)
      BY <2>8, <3>1, FbAfterErase
    <3>3. BLANK = OnFb!BLANK
      BY DEF BLANK, OnFb!BLANK
    <3> QED
      BY <1>2, <1>3, <3>2, <3>3 DEF OnFb!Erase
  <2>3. ASSUME NEW n \in Feeds, fb'.col = 0, FbShown(fb') = Reel(FbShown(fb), n, B)
        PROVE  OnFb!Next
    <3>1. OnFb!Feed(n)
      BY <1>1, <1>2, <2>3 DEF OnFb!Feed, Reel
    <3> QED
      BY <3>1 DEF OnFb!Next
  <2>4. ASSUME newline PROVE OnFb!Next
    <3>1. fb' = fb_newline(fb)
      BY <2>4 DEF newline, fb_putc
    <3>2. fb'.col = 0 /\ FbShown(fb') = Append(FbShown(fb), B)
      BY <2>8, <3>1, FbNewlineShows
    <3>3. Append(FbShown(fb), B) = Reel(FbShown(fb), 1, B)
      BY <2>8, FbReel
    <3>4. 1 \in Feeds
      BY DEF Feeds
    <3> HIDE DEF B
    <3> QED
      BY <2>3, <3>2, <3>3, <3>4
  <2>5. ASSUME cmd_clear PROVE OnFb!Next
    <3>1. fb' = fb_feed(fb, CLEAR_LINES) /\ CLEAR_LINES \in Feeds
      BY <2>5 DEF cmd_clear, Feeds
    <3>2. fb'.col = 0 /\ FbShown(fb') = Reel(FbShown(fb), CLEAR_LINES, B)
      BY <2>8, <3>1, ClearIsMany, FbFeed
    <3> HIDE DEF B
    <3> QED
      BY <2>3, <3>1, <3>2
  <2>6. ASSUME NEW ink \in DESKS, refresh(ink) PROVE UNCHANGED pvars
    <3>1. fb'.col = fb.col /\ FbShown(fb') = FbShown(fb)
      BY <2>8, <2>6, FbRedrawn DEF refresh
    <3> HIDE DEF paper
    <3> QED
      BY <1>2, <3>1
  <2>7. ASSUME UNCHANGED console_vars PROVE UNCHANGED pvars
    BY <2>7 DEF console_vars
  <2> QED
    BY <1>5, <2>1, <2>2, <2>4, <2>5, <2>6, <2>7 DEF ConsoleNext, OnFb!Next
<1>6. ConsoleOK /\ [Next]_vars => [OnFb!Next]_pvars
  BY <1>5, NextIsConsole
<1>7. Spec => OnFb!Spec
  BY <1>4, <1>6, ConsoleIsOK, PTL DEF Spec, OnFb!Spec
<1> QED
  BY <1>7 DEF FbIsPaper


(* Text mode implements the paper too: a row that is full is left at once. *)
THEOREM VgaImplementsPaper ==
  Spec => VgaIsPaper
<1> DEFINE B == Blanks(VGA_COLS)
           paper == Shown(vga, 0, VGA_COLS)
           pvars == <<paper, vga.col>>
<1>1. B = OnVga!BlankRow
  BY DEF Blanks, OnVga!BlankRow, OnVga!BLANK, BLANK
<1>2. paper = VgaShown(vga) /\ paper' = VgaShown(vga')
  BY DEF VgaShown, Shown
<1>3. \A rows, col, c : OnVga!Put(rows, col, c) = PaperPut(rows, col, c)
  BY DEF OnVga!Put, PaperPut
<1>4. Init => OnVga!Init
  <2>1. Init => vga = vga_init
    BY DEF Init, ConsoleInit
  <2> QED
    BY <1>1, <1>2, <2>1, VgaInit DEF OnVga!Init
<1>5. ASSUME ConsoleOK, ConsoleNext
      PROVE  OnVga!Next \/ UNCHANGED pvars
  <2>1. /\ vga \in VgaScreens /\ VgaText(vga)
        /\ vga.col \in 0..VGA_COLS-1 /\ VGA_COLS \in Nat /\ VGA_COLS >= 2
    BY <1>5, VgaPlaces DEF ConsoleOK, VgaScreens
  <2>2. ASSUME NEW c \in CHARS, type(c) PROVE OnVga!Write(c)
    <3>1. vga' = vga_putc(vga, c) /\ vga.col # VGA_COLS
      BY <2>1, <2>2 DEF type
    <3>2. CASE vga.col # VGA_COLS-1
      <4>1. vga'.col = vga.col + 1 /\ VgaShown(vga') = PaperPut(VgaShown(vga), vga.col, c)
        BY <2>1, <3>1, <3>2, CharsAreInk, VgaWrite
      <4> HIDE DEF paper
      <4> QED
        BY <1>2, <1>3, <3>1, <3>2, <4>1 DEF OnVga!Write, paper
    <3>3. CASE vga.col = VGA_COLS-1
      <4>1. /\ vga'.col = 0
            /\ VgaShown(vga') = Append(PaperPut(VgaShown(vga), vga.col, c), B)
        BY <2>1, <3>1, <3>3, CharsAreInk, VgaWrite
      <4> HIDE DEF B
      <4> QED
        BY <1>1, <1>2, <1>3, <3>1, <3>3, <4>1 DEF OnVga!Write
    <3> QED
      BY <3>2, <3>3
  <2>3. ASSUME erase PROVE OnVga!Erase
    <3> DEFINE back == IF vga.col > 0 THEN vga.col - 1 ELSE 0
    <3>1. vga' = vga_erase(vga)
      BY <2>3 DEF erase
    <3>2. vga'.col = back /\ VgaShown(vga') = PaperPut(VgaShown(vga), back, BLANK)
      BY <2>1, <3>1, VgaErase
    <3>3. BLANK = OnVga!BLANK
      BY DEF BLANK, OnVga!BLANK
    <3> QED
      BY <1>2, <1>3, <3>2, <3>3 DEF OnVga!Erase
  <2>4. ASSUME NEW n \in Feeds, vga'.col = 0, VgaShown(vga') = Reel(VgaShown(vga), n, B)
        PROVE  OnVga!Next
    <3>1. OnVga!Feed(n)
      BY <1>1, <1>2, <2>4 DEF OnVga!Feed, Reel
    <3> QED
      BY <3>1 DEF OnVga!Next
  <2>5. ASSUME newline PROVE OnVga!Next
    <3>1. vga' = VgaSettled(VgaNextRow(vga))
      BY <2>1, <2>5, VgaPutc DEF newline
    <3>2. vga'.col = 0 /\ VgaShown(vga') = Append(VgaShown(vga), B)
      BY <2>1, <3>1, VgaNewline
    <3>3. Append(VgaShown(vga), B) = Reel(VgaShown(vga), 1, B)
      BY <2>1, VgaReel
    <3>4. 1 \in Feeds
      BY DEF Feeds
    <3> HIDE DEF B
    <3> QED
      BY <2>4, <3>2, <3>3, <3>4
  <2>6. ASSUME cmd_clear PROVE OnVga!Next
    <3>1. vga' = vga_feed(vga, CLEAR_LINES) /\ CLEAR_LINES \in Feeds
      BY <2>6 DEF cmd_clear, Feeds
    <3>2. vga'.col = 0 /\ VgaShown(vga') = Reel(VgaShown(vga), CLEAR_LINES, B)
      BY <2>1, <3>1, ClearIsMany, VgaFeed
    <3> HIDE DEF B
    <3> QED
      BY <2>4, <3>1, <3>2
  <2>7. ASSUME UNCHANGED vga PROVE UNCHANGED pvars
    BY <2>7
  <2>8. ASSUME NEW ink \in DESKS, refresh(ink) PROVE UNCHANGED vga
    BY <2>8 DEF refresh
  <2>9. ASSUME UNCHANGED console_vars PROVE UNCHANGED vga
    BY <2>9 DEF console_vars
  <2> QED
    BY <1>5, <2>2, <2>3, <2>5, <2>6, <2>7, <2>8, <2>9 DEF ConsoleNext, OnVga!Next
<1>6. ConsoleOK /\ [Next]_vars => [OnVga!Next]_pvars
  BY <1>5, NextIsConsole
<1>7. Spec => OnVga!Spec
  BY <1>4, <1>6, ConsoleIsOK, PTL DEF Spec, OnVga!Spec
<1> QED
  BY <1>7 DEF VgaIsPaper


-----------------------------------------------------------------------------
(***************************************************************************)
(* The pointer.  A screen u that agrees with t outside the places U goes   *)
(* on doing so, if no row of U is scrolled.                                *)
(***************************************************************************)
Agree(t, u, U) ==
  /\ u.row = t.row /\ u.col = t.col /\ u.gone = t.gone
  /\ \A p \in FbCells \ U : u.cells[p] = t.cells[p]

LEMMA AgreeNewline ==
  ASSUME NEW t \in FbScreens, NEW u \in FbScreens, NEW U, Agree(t, u, U),
         t.row + 1 >= fb_rows => U \cap Terminal = {}
  PROVE  /\ Agree(fb_newline(t), fb_newline(u), U)
         /\ fb_newline(t) \in FbScreens /\ fb_newline(u) \in FbScreens
         /\ fb_newline(t).row <= t.row + 1
<1> DEFINE v == fb_newline(t)
           w == fb_newline(u)
<1>1. v \in FbScreens /\ w \in FbScreens /\ FbFed(t, v) /\ v.col = 0 /\ w.col = 0
  BY FbNewline
<1>2. /\ t.row \in HEADER_ROWS..fb_rows-1 /\ fb_rows \in Nat /\ HEADER_ROWS \in Nat
      /\ t = [cells |-> t.cells, row |-> t.row, col |-> t.col, gone |-> t.gone]
      /\ u = [cells |-> u.cells, row |-> u.row, col |-> u.col, gone |-> u.gone]
      /\ u.row = t.row
  BY FbPlaces DEF FbScreens, Agree
<1>3. CASE ~ (t.row + 1 >= fb_rows)
  <2>1. /\ v.cells = t.cells /\ v.gone = t.gone /\ v.row = t.row + 1
        /\ w.cells = u.cells /\ w.gone = u.gone /\ w.row = t.row + 1
    BY <1>2, <1>3 DEF fb_newline
  <2> HIDE DEF v, w
  <2>2. Agree(v, w, U) /\ v.row <= t.row + 1
    BY <1>1, <1>2, <2>1 DEF Agree
  <2> QED
    BY <1>1, <2>2 DEF v, w
<1>4. CASE t.row + 1 >= fb_rows
  <2> DEFINE Up(x) == [p \in FbCells |->
                        IF p \in Terminal
                        THEN IF p[1] < fb_rows - 1
                             THEN x.cells[<<p[1] + 1, p[2]>>] ELSE BLANK
                        ELSE x.cells[p]]
  <2>1. /\ v.cells = Up(t) /\ v.gone = Append(t.gone, RowOf(t, HEADER_ROWS, fb_cols))
        /\ v.row = fb_rows - 1
        /\ w.cells = Up(u) /\ w.gone = Append(u.gone, RowOf(u, HEADER_ROWS, fb_cols))
        /\ w.row = fb_rows - 1
    BY <1>2, <1>4 DEF fb_newline, fb_scroll
  <2>2. \A p \in Terminal : p \in FbCells /\ u.cells[p] = t.cells[p]
    BY <1>4, FbPlaces DEF Agree
  <2>3. RowOf(u, HEADER_ROWS, fb_cols) = RowOf(t, HEADER_ROWS, fb_cols)
    <3>1. \A c \in 0..fb_cols-1 : <<HEADER_ROWS, c>> \in Terminal
      BY FbPlaces
    <3>2. \A c \in 0..fb_cols-1 : u.cells[<<HEADER_ROWS, c>>] = t.cells[<<HEADER_ROWS, c>>]
      BY <2>2, <3>1
    <3> QED
      BY <3>2 DEF RowOf
  <2>4. ASSUME NEW p \in FbCells \ U PROVE Up(u)[p] = Up(t)[p]
    <3>1. ASSUME p \in Terminal, p[1] < fb_rows - 1
          PROVE  u.cells[<<p[1] + 1, p[2]>>] = t.cells[<<p[1] + 1, p[2]>>]
      <4>1. <<p[1] + 1, p[2]>> \in Terminal
        BY <3>1, FbPlaces DEF Terminal
      <4> QED
        BY <2>2, <4>1
    <3>2. u.cells[p] = t.cells[p]
      BY DEF Agree
    <3> QED
      BY <3>1, <3>2
  <2>5. w.gone = v.gone
    BY <2>1, <2>3 DEF Agree
  <2> HIDE DEF v, w, Up
  <2>6. Agree(v, w, U) /\ v.row <= t.row + 1
    BY <1>1, <1>2, <1>4, <2>1, <2>4, <2>5 DEF Agree
  <2> QED
    BY <1>1, <2>6 DEF v, w
<1> QED
  BY <1>3, <1>4

LEMMA AgreeInked ==
  ASSUME NEW t \in FbScreens, NEW u \in FbScreens, NEW U, Agree(t, u, U),
         NEW col \in 0..fb_cols-1, NEW next \in 0..fb_cols, NEW c \in INKS
  PROVE  /\ Agree(Inked(t, col, c, next), Inked(u, col, c, next), U)
         /\ Inked(t, col, c, next) \in FbScreens /\ Inked(u, col, c, next) \in FbScreens
<1> DEFINE v == Inked(t, col, c, next)
           w == Inked(u, col, c, next)
           p == <<t.row, col>>
<1>1. v \in FbScreens /\ w \in FbScreens
  BY FbPut
<1>2. t.cells \in [FbCells -> INKS] /\ u.cells \in [FbCells -> INKS]
  BY DEF FbScreens
<1>3. /\ v.cells = [t.cells EXCEPT ![p] = c] /\ w.cells = [u.cells EXCEPT ![p] = c]
      /\ v.row = t.row /\ w.row = u.row /\ v.col = next /\ w.col = next
      /\ v.gone = t.gone /\ w.gone = u.gone
  BY DEF Inked, Agree
<1> HIDE DEF v, w, p
<1>4. ASSUME NEW q \in FbCells \ U PROVE w.cells[q] = v.cells[q]
  <2>1. u.cells[q] = t.cells[q]
    BY DEF Agree
  <2> QED
    BY <1>2, <1>3, <2>1
<1>5. Agree(v, w, U)
  BY <1>3, <1>4 DEF Agree
<1> QED
  BY <1>1, <1>5 DEF v, w

LEMMA AgreeWrite ==
  ASSUME NEW t \in FbScreens, NEW u \in FbScreens, NEW U, Agree(t, u, U),
         NEW c \in INKS, c # LF, c # BS,
         t.col >= fb_cols /\ t.row + 1 >= fb_rows => U \cap Terminal = {}
  PROVE  Agree(fb_putc(t, c), fb_putc(u, c), U) /\ fb_putc(u, c) \in FbScreens
<1>1. /\ t.col \in 0..fb_cols /\ fb_cols \in Nat /\ fb_cols >= 2 /\ u.col = t.col
  BY FbPlaces DEF FbScreens, Agree
<1>2. CASE t.col < fb_cols
  <2> DEFINE o == t.col
             n == t.col + 1
  <2>1. o \in 0..fb_cols-1 /\ n \in 0..fb_cols
    BY <1>1, <1>2
  <2>2. fb_putc(t, c) = Inked(t, o, c, n) /\ fb_putc(u, c) = Inked(u, o, c, n)
    BY <1>1, <1>2, FbPutc
  <2> HIDE DEF o, n
  <2> QED
    BY <2>1, <2>2, AgreeInked
<1>3. CASE ~ (t.col < fb_cols)
  <2> DEFINE v == fb_newline(t)
             w == fb_newline(u)
  <2>1. t.col >= fb_cols /\ u.col >= fb_cols
    BY <1>1, <1>3
  <2>2. Agree(v, w, U) /\ v \in FbScreens /\ w \in FbScreens
    BY <2>1, AgreeNewline
  <2>3. v.col = 0 /\ w.col = 0
    BY FbNewline
  <2>4. 0 \in 0..fb_cols-1 /\ 1 \in 0..fb_cols /\ 0 + 1 = 1
    BY <1>1
  <2>5. fb_putc(t, c) = Inked(v, v.col, c, v.col + 1) /\ fb_putc(u, c) = Inked(w, w.col, c, w.col + 1)
    BY <2>1, <2>2, FbPutc
  <2> HIDE DEF v, w
  <2>6. fb_putc(t, c) = Inked(v, 0, c, 1) /\ fb_putc(u, c) = Inked(w, 0, c, 1)
    BY <2>3, <2>4, <2>5
  <2>7. ASSUME NEW col \in 0..fb_cols-1, NEW next \in 0..fb_cols
        PROVE  /\ Agree(Inked(v, col, c, next), Inked(w, col, c, next), U)
               /\ Inked(w, col, c, next) \in FbScreens
    BY <2>2, AgreeInked
  <2> QED
    BY <2>4, <2>6, <2>7
<1> QED
  BY <1>2, <1>3

LEMMA AgreeErase ==
  ASSUME NEW t \in FbScreens, NEW u \in FbScreens, NEW U, Agree(t, u, U)
  PROVE  Agree(fb_erase(t), fb_erase(u), U) /\ fb_erase(u) \in FbScreens
<1> DEFINE back == IF t.col > 0 THEN t.col - 1 ELSE 0
<1>1. u.col = t.col
  BY DEF Agree
<1>2. /\ back \in 0..fb_cols-1 /\ fb_erase(t) = Inked(t, back, BLANK, back)
      /\ fb_erase(u) = Inked(u, back, BLANK, back)
  BY <1>1, FbErase
<1>3. back \in 0..fb_cols /\ BLANK \in INKS
  BY <1>2, FbPlaces DEF INKS
<1> HIDE DEF back
<1> QED
  BY <1>2, <1>3, AgreeInked

LEMMA AgreeRedrawn ==
  ASSUME NEW t \in FbScreens, NEW u \in FbScreens, NEW U, Agree(t, u, U), NEW ink \in DESKS
  PROVE  Agree(Redrawn(t, ink), Redrawn(u, ink), U) /\ Redrawn(u, ink) \in FbScreens
<1>1. ASSUME NEW x \in FbScreens
      PROVE  /\ Redrawn(x, ink) \in FbScreens
             /\ Redrawn(x, ink).row = x.row /\ Redrawn(x, ink).col = x.col
             /\ Redrawn(x, ink).gone = x.gone
             /\ \A p \in FbCells :
                  Redrawn(x, ink).cells[p] = IF Around(p) THEN ink ELSE x.cells[p]
  <2> DEFINE C == [p \in FbCells |-> IF Around(p) THEN ink ELSE x.cells[p]]
             y == Redrawn(x, ink)
  <2>1. x.cells \in [FbCells -> INKS]
        /\ x = [cells |-> x.cells, row |-> x.row, col |-> x.col, gone |-> x.gone]
    BY DEF FbScreens
  <2>2. C \in [FbCells -> INKS]
    BY <2>1 DEF INKS
  <2>3. \A p \in FbCells : C[p] = IF Around(p) THEN ink ELSE x.cells[p]
    OBVIOUS
  <2>4. y = [x EXCEPT !.cells = C]
    BY DEF Redrawn
  <2> HIDE DEF C, y
  <2>5. y = [cells |-> C, row |-> x.row, col |-> x.col, gone |-> x.gone]
    BY <2>1, <2>4
  <2>6. y \in FbScreens
    BY <2>2, <2>5 DEF FbScreens
  <2> QED
    BY <2>3, <2>5, <2>6 DEF y
<1> QED
  BY <1>1 DEF Agree

LEMMA AgreeFeed ==
  ASSUME NEW t \in FbScreens, NEW u \in FbScreens, NEW U, Agree(t, u, U),
         NEW n \in Nat \ {0}, t.row + n >= fb_rows => U \cap Terminal = {}
  PROVE  Agree(fb_feed(t, n), fb_feed(u, n), U) /\ fb_feed(u, n) \in FbScreens
<1>1. PICK g : FbLines(g, t, n) /\ fb_feed(t, n) = g[n]
  BY FbFeedIs
<1>2. PICK h : FbLines(h, u, n) /\ fb_feed(u, n) = h[n]
  BY FbFeedIs
<1>3. g[0] = t /\ \A i \in 1..n : g[i] = fb_newline(g[i-1])
  BY <1>1 DEF FbLines, fb_putc
<1>4. h[0] = u /\ \A i \in 1..n : h[i] = fb_newline(h[i-1])
  BY <1>2 DEF FbLines, fb_putc
<1> DEFINE P(i) == /\ g[i] \in FbScreens /\ h[i] \in FbScreens /\ Agree(g[i], h[i], U)
                   /\ g[i].row <= t.row + i
           S == {i \in Nat : i <= n => P(i)}
<1>5. t.row \in Int /\ fb_rows \in Nat
  BY FbPlaces DEF FbScreens
<1>6. 0 \in S
  BY <1>3, <1>4, <1>5
<1>7. ASSUME NEW i \in Nat, i \in S PROVE i + 1 \in S
  <2>1. SUFFICES ASSUME i + 1 <= n PROVE P(i + 1)
    OBVIOUS
  <2>2. i <= n /\ i + 1 \in 1..n /\ (i + 1) - 1 = i
    BY <2>1
  <2>3. P(i)
    BY <1>7, <2>2
  <2> DEFINE v == g[i]
             w == h[i]
  <2>4. g[i + 1] = fb_newline(v) /\ h[i + 1] = fb_newline(w)
    BY <1>3, <1>4, <2>2
  <2>5. v.row \in Int
    BY <2>3 DEF FbScreens
  <2>6. v \in FbScreens /\ w \in FbScreens /\ Agree(v, w, U) /\ v.row <= t.row + i
    BY <2>3
  <2> HIDE DEF v, w
  <2>7. v.row + 1 >= fb_rows => U \cap Terminal = {}
    <3> DEFINE a == t.row
               b == v.row
               no == U \cap Terminal = {}
    <3>1. a + n >= fb_rows => no
      OBVIOUS
    <3>2. a \in Int /\ b \in Int /\ b <= a + i
      BY <1>5, <2>5, <2>6
    <3> HIDE DEF a, b, no
    <3>3. b + 1 >= fb_rows => a + n >= fb_rows
      BY <1>5, <2>1, <3>2
    <3> QED
      BY <3>1, <3>3 DEF b, no
  <2>8. /\ Agree(fb_newline(v), fb_newline(w), U)
        /\ fb_newline(v) \in FbScreens /\ fb_newline(w) \in FbScreens
        /\ fb_newline(v).row <= v.row + 1
    BY <2>6, <2>7, AgreeNewline
  <2>9. fb_newline(v).row <= t.row + (i + 1)
    <3>1. fb_newline(v).row \in Int
      BY <2>8 DEF FbScreens
    <3> QED
      BY <1>5, <2>5, <2>6, <2>8, <3>1
  <2> QED
    BY <2>4, <2>8, <2>9
<1>8. n \in S
  <2> HIDE DEF S
  <2> QED
    BY <1>6, <1>7, Induction
<1> QED
  BY <1>1, <1>2, <1>8


PointerOK ==
  ~ stained =>
    /\ shown \in FbScreens /\ Agree(fb, shown, Under)
    /\ cur_s # None => \A p \in Under : cur_saved[p] = fb.cells[p]

(* Lifting the pointer puts back what it covers, and nothing else differs. *)
LEMMA PointerLifts ==
  ASSUME fb \in FbScreens, PointerOK, ~ stained
  PROVE  Lifted = fb
<1>1. /\ shown \in FbScreens /\ Agree(fb, shown, Under)
      /\ cur_s # None => \A p \in Under : cur_saved[p] = fb.cells[p]
  BY DEF PointerOK
<1>2. /\ fb = [cells |-> fb.cells, row |-> fb.row, col |-> fb.col, gone |-> fb.gone]
      /\ shown = [cells |-> shown.cells, row |-> shown.row, col |-> shown.col,
                  gone |-> shown.gone]
      /\ fb.cells = [p \in FbCells |-> fb.cells[p]]
      /\ shown.cells = [p \in FbCells |-> shown.cells[p]]
  BY <1>1 DEF FbScreens
<1>3. shown.row = fb.row /\ shown.col = fb.col /\ shown.gone = fb.gone
  BY <1>1 DEF Agree
<1>4. CASE cur_s = None
  <2>1. Lifted = shown
    BY <1>4 DEF Lifted, fb_erase_cursor
  <2>2. \A p \in FbCells : shown.cells[p] = fb.cells[p]
    BY <1>1, <1>4 DEF Agree, Under
  <2>3. shown.cells = fb.cells
    BY <1>2, <2>2
  <2> QED
    BY <1>2, <1>3, <2>1, <2>3
<1>5. CASE cur_s # None
  <2> DEFINE C == [p \in FbCells |-> IF p \in At(cur_s, Cover) THEN cur_saved[p]
                                                               ELSE shown.cells[p]]
  <2>1. Lifted = [shown EXCEPT !.cells = C]
    BY <1>5 DEF Lifted, fb_erase_cursor
  <2>2. Under = At(cur_s, Cover)
    BY <1>5 DEF Under
  <2>3. \A p \in FbCells : C[p] = fb.cells[p]
    BY <1>1, <1>5, <2>2 DEF Agree
  <2>4. C = fb.cells
    BY <1>2, <2>3
  <2> HIDE DEF C
  <2>5. [shown EXCEPT !.cells = C] =
          [cells |-> C, row |-> shown.row, col |-> shown.col, gone |-> shown.gone]
    BY <1>2
  <2> QED
    BY <1>2, <1>3, <2>1, <2>4, <2>5
<1> QED
  BY <1>4, <1>5

LEMMA PointerMoves ==
  ASSUME fb \in FbScreens, PointerOK, ~ stained, NEW at \in SPOTS, move(at)
  PROVE  PointerOK'
<1> DEFINE C == [p \in FbCells |-> IF p \in At(at, SHAPE) THEN INK ELSE fb.cells[p]]
<1>1. Lifted = fb
  BY PointerLifts
<1>2. /\ cur_s' = at /\ cur_saved' = [p \in At(at, Cover) |-> fb.cells[p]]
      /\ shown' = [fb EXCEPT !.cells = C]
      /\ fb' = fb /\ stained' = stained
  BY <1>1 DEF move, Lifted, fb_draw_cursor, console_vars
<1>3. At(at, SHAPE) \subseteq At(at, Cover)
  BY DesktopAssumption DEF At, Cover
<1>4. at # None
  BY DesktopAssumption DEF None, FbCells
<1>5. Under' = At(at, Cover)
  BY <1>2, <1>4 DEF Under, At, Cover
<1>6. /\ fb = [cells |-> fb.cells, row |-> fb.row, col |-> fb.col, gone |-> fb.gone]
      /\ fb.cells \in [FbCells -> INKS]
  BY DEF FbScreens
<1>7. C \in [FbCells -> INKS]
  BY <1>6 DEF INKS
<1>8. \A p \in FbCells \ At(at, Cover) : C[p] = fb.cells[p]
  BY <1>3
<1> HIDE DEF C
<1>9. shown' = [cells |-> C, row |-> fb.row, col |-> fb.col, gone |-> fb.gone]
  BY <1>2, <1>6
<1>10. shown' \in FbScreens
  BY <1>7, <1>9 DEF FbScreens
<1>11. Agree(fb, shown, Under)'
  BY <1>2, <1>5, <1>8, <1>9 DEF Agree
<1>12. \A p \in Under' : cur_saved'[p] = fb'.cells[p]
  BY <1>2, <1>5
<1> QED
  BY <1>10, <1>11, <1>12 DEF PointerOK

LEMMA PointerDrawn ==
  ASSUME PointerOK, NEW new, NEW scrolled \in BOOLEAN, Draw(new, scrolled), ~ stained,
         (scrolled => Under \cap Terminal = {}) =>
           new \in FbScreens /\ Agree(fb', new, Under)
  PROVE  PointerOK'
<1> SUFFICES ASSUME ~ stained'
             PROVE  /\ shown' \in FbScreens /\ Agree(fb, shown, Under)'
                    /\ cur_s' # None => \A p \in Under' : cur_saved'[p] = fb'.cells[p]
  BY DEF PointerOK
<1>1. /\ shown' = new /\ cur_s' = cur_s /\ cur_saved' = cur_saved
      /\ ~ (\E p \in Under : fb.cells[p] # fb'.cells[p])
      /\ ~ (scrolled /\ Under \cap Terminal # {})
  BY DEF Draw
<1>2. Under' = Under
  BY <1>1 DEF Under, At, Cover
<1>3. scrolled => Under \cap Terminal = {}
  BY <1>1
<1>4. new \in FbScreens /\ Agree(fb', new, Under)
  BY <1>3
<1>5. cur_s # None => \A p \in Under : cur_saved[p] = fb'.cells[p]
  BY <1>1 DEF PointerOK
<1> QED
  BY <1>1, <1>2, <1>4, <1>5 DEF Agree


LEMMA PointerStep ==
  ASSUME ConsoleOK, PointerOK, [Next]_vars
  PROVE  PointerOK'
<1>1. fb \in FbScreens
  BY DEF ConsoleOK
<1> DEFINE Agreed(new) == new \in FbScreens /\ Agree(fb', new, Under)
           Clear == Under \cap Terminal = {}
<1>2. ~ stained => shown \in FbScreens /\ Agree(fb, shown, Under)
  BY DEF PointerOK
<1>3. ASSUME ~ stained, NEW c \in CHARS, type(c),
             Draw(fb_putc(shown, c), fb.col >= fb_cols /\ Scrolls(1))
      PROVE  PointerOK'
  <2> DEFINE new == fb_putc(shown, c)
             s == fb.col >= fb_cols /\ Scrolls(1)
  <2>1. (s => Clear) => Agreed(new)
    <3>1. SUFFICES ASSUME s => Clear PROVE Agreed(new)
      OBVIOUS
    <3>2. fb.col >= fb_cols /\ fb.row + 1 >= fb_rows => Under \cap Terminal = {}
      BY <3>1 DEF Scrolls
    <3>3. fb' = fb_putc(fb, c)
      BY <1>3 DEF type
    <3> QED
      BY <1>1, <1>2, <1>3, <3>2, <3>3, CharsAreInk, AgreeWrite
  <2>2. s \in BOOLEAN /\ Draw(new, s)
    BY <1>3
  <2> HIDE DEF new, s
  <2> QED
    BY <1>3, <2>1, <2>2, PointerDrawn
<1>4. ASSUME ~ stained, erase, Draw(fb_erase(shown), FALSE)
      PROVE  PointerOK'
  <2> DEFINE new == fb_erase(shown)
             s == FALSE
  <2>1. Agreed(new)
    <3>1. fb' = fb_erase(fb)
      BY <1>4 DEF erase
    <3> QED
      BY <1>1, <1>2, <1>4, <3>1, AgreeErase
  <2>2. s \in BOOLEAN /\ Draw(new, s)
    BY <1>4
  <2> HIDE DEF new, s
  <2> QED
    BY <1>4, <2>1, <2>2, PointerDrawn
<1>5. ASSUME ~ stained, newline, Draw(fb_putc(shown, LF), Scrolls(1))
      PROVE  PointerOK'
  <2> DEFINE new == fb_putc(shown, LF)
             s == Scrolls(1)
  <2>1. (s => Clear) => Agreed(new)
    <3>1. SUFFICES ASSUME s => Clear PROVE Agreed(new)
      OBVIOUS
    <3>2. fb.row + 1 >= fb_rows => Under \cap Terminal = {}
      BY <3>1 DEF Scrolls
    <3>3. fb' = fb_newline(fb) /\ new = fb_newline(shown)
      BY <1>5 DEF newline, fb_putc
    <3> HIDE DEF new
    <3> QED
      BY <1>1, <1>2, <1>5, <3>2, <3>3, AgreeNewline
  <2>2. s \in BOOLEAN /\ Draw(new, s)
    BY <1>5 DEF Scrolls
  <2> HIDE DEF new, s
  <2> QED
    BY <1>5, <2>1, <2>2, PointerDrawn
<1>6. ASSUME ~ stained, cmd_clear, Draw(fb_feed(shown, CLEAR_LINES), Scrolls(CLEAR_LINES))
      PROVE  PointerOK'
  <2> DEFINE new == fb_feed(shown, CLEAR_LINES)
             s == Scrolls(CLEAR_LINES)
  <2>1. (s => Clear) => Agreed(new)
    <3>1. SUFFICES ASSUME s => Clear PROVE Agreed(new)
      OBVIOUS
    <3>2. fb.row + CLEAR_LINES >= fb_rows => Under \cap Terminal = {}
      BY <3>1 DEF Scrolls
    <3>3. fb' = fb_feed(fb, CLEAR_LINES)
      BY <1>6 DEF cmd_clear
    <3> QED
      BY <1>1, <1>2, <1>6, <3>2, <3>3, ClearIsMany, AgreeFeed
  <2>2. s \in BOOLEAN /\ Draw(new, s)
    BY <1>6 DEF Scrolls
  <2> HIDE DEF new, s
  <2> QED
    BY <1>6, <2>1, <2>2, PointerDrawn
<1>7. ASSUME ~ stained, NEW ink \in DESKS, refresh(ink), Draw(Redrawn(shown, ink), FALSE)
      PROVE  PointerOK'
  <2> DEFINE new == Redrawn(shown, ink)
             s == FALSE
  <2>1. Agreed(new)
    <3>1. fb' = Redrawn(fb, ink)
      BY <1>7 DEF refresh
    <3> QED
      BY <1>1, <1>2, <1>7, <3>1, AgreeRedrawn
  <2>2. s \in BOOLEAN /\ Draw(new, s)
    BY <1>7
  <2> HIDE DEF new, s
  <2> QED
    BY <1>7, <2>1, <2>2, PointerDrawn
<1>8. ASSUME ~ stained, NEW at \in SPOTS, move(at) PROVE PointerOK'
  BY <1>1, <1>8, PointerMoves
<1>9. CASE UNCHANGED vars
  BY <1>9 DEF vars, console_vars, PointerOK, Agree, Under, At, Cover
<1> QED
  BY <1>3, <1>4, <1>5, <1>6, <1>7, <1>8, <1>9 DEF Next

(* As long as nothing has changed under the pointer, lifting it from the   *)
(* screen leaves what would be there without a pointer: whatever was       *)
(* printed and wherever it was moved, also where the edge cuts it off.     *)
THEOREM NoTrace ==
  Spec => []PointerLeavesNoTrace
<1>1. Init => PointerOK
  BY FbInit DEF Init, ConsoleInit, PointerOK, Agree, Under
<1>2. ConsoleOK /\ PointerOK /\ [Next]_vars => PointerOK'
  BY PointerStep
<1>3. ConsoleOK /\ PointerOK => PointerLeavesNoTrace
  BY PointerLifts DEF ConsoleOK, PointerLeavesNoTrace
<1> QED
  BY <1>1, <1>2, <1>3, ConsoleIsOK, PTL DEF Spec
=============================================================================
