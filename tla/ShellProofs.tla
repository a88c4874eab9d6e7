----------------------------- MODULE ShellProofs ------------------------------
(***************************************************************************)
(* Whatever is typed, in any order of characters, erasures and lines, into *)
(* a buffer of any size: a line whose first word `help` lists reaches the  *)
(* command it is listed for, with the argument that was typed, but for     *)
(* `stop` and for the argument of a `restart` that has none.               *)
(***************************************************************************)
EXTENDS Shell, FiniteSetTheorems, SequenceTheorems, WellFoundedInduction, TLAPS

LEMMA SpaceIsNoEnd == SPACE # NUL
BY Zenon DEF SPACE, NUL

LEMMA LeastOf ==
  ASSUME NEW T \in SUBSET Nat, T # {}
  PROVE  \E n \in T : \A m \in T : n <= m
<1> DEFINE Upto == {0..n : n \in T}
<1>1. Upto \subseteq FiniteSubsetsOf(Nat) /\ Upto # {}
  <2>1. ASSUME NEW n \in T PROVE 0..n \in FiniteSubsetsOf(Nat)
    <3>1. 0..n \in SUBSET Nat /\ IsFiniteSet(0..n)
      BY FS_Interval
    <3> QED
      BY <3>1 DEF FiniteSubsetsOf
  <2> QED
    BY <2>1
<1>2. PICK S \in Upto : \A R \in Upto : <<R, S>> \notin StrictSubsetOrdering(Nat)
  <2> HIDE DEF Upto
  <2> QED
    BY <1>1, FS_StrictSubsetOrderingWellFounded, WFMin
<1>3. PICK n \in T : S = 0..n
  BY <1>2
<1>4. ASSUME NEW m \in T, m < n PROVE FALSE
  <2>1. <<0..m, 0..n>> \notin StrictSubsetOrdering(Nat)
    BY <1>2, <1>3
  <2>2. /\ 0..m \subseteq Nat /\ 0..n \subseteq Nat
        /\ 0..m \subseteq 0..n /\ 0..m # 0..n
    BY <1>4
  <2> QED
    BY <2>1, <2>2 DEF StrictSubsetOrdering
<1> QED
  BY <1>3, <1>4

-----------------------------------------------------------------------------
(***************************************************************************)
(* Reading a buffer that holds a line of n characters and, behind it, a    *)
(* NUL.                                                                    *)
(***************************************************************************)
Holds(b, n) ==
  /\ b \in [1..BUF_LEN -> Chars \cup {NUL, GARBAGE}] /\ n \in 0..BUF_LEN - 1
  /\ \A i \in 1..n : b[i] \in Chars
  /\ b[n + 1] = NUL

LEMMA HoldsSeq ==
  ASSUME NEW b, NEW n, Holds(b, n)
  PROVE  /\ b \in Seq(Chars \cup {NUL, GARBAGE}) /\ Len(b) = BUF_LEN
         /\ n \in Nat /\ n < Len(b) /\ Len(b) \in Nat
         /\ \A i \in 1..n : b[i] # NUL
         /\ b[n + 1] = NUL
<1> DEFINE S == Chars \cup {NUL, GARBAGE}
<1>1. BUF_LEN \in Nat \ {0}
  BY ShellAssumption
<1>2. b \in [1..BUF_LEN -> S]
  BY DEF Holds
<1>3. \A i \in 1..n : b[i] # NUL
  BY DEF Holds, Chars
<1> HIDE DEF S
<1>4. b \in Seq(S) /\ Len(b) = BUF_LEN
  BY <1>1, <1>2
<1> QED
  BY <1>1, <1>3, <1>4 DEF Holds, S

LEMMA SkipIs ==
  ASSUME NEW b, NEW n, Holds(b, n), NEW i \in 1..n+1
  PROVE  /\ skip_spaces(b, i) \in i..n+1
         /\ b[skip_spaces(b, i)] # SPACE
         /\ \A k \in i..skip_spaces(b, i)-1 : b[k] = SPACE
<1> DEFINE T == {j \in i..n+1 : b[j] # SPACE}
<1>0. /\ n \in Nat /\ n < Len(b) /\ Len(b) \in Nat /\ b[n + 1] = NUL
      /\ i \in Nat
  BY HoldsSeq
<1>1. T \in SUBSET Nat /\ T # {}
  <2>1. n + 1 \in T
    BY <1>0, SpaceIsNoEnd
  <2>2. i..n+1 \subseteq Nat
    BY <1>0
  <2> QED BY <2>1, <2>2
<1>2. PICK m \in T : \A k \in T : m <= k
  <2> HIDE DEF T
  <2> QED BY <1>1, LeastOf
<1> DEFINE First(j) == b[j] # SPACE /\ \A k \in i..j-1 : b[k] = SPACE
<1>3. m \in i..Len(b) /\ First(m)
  <2>1. m \in i..n+1 /\ b[m] # SPACE /\ m \in Nat
    BY <1>0, <1>2
  <2>2. ASSUME NEW k \in i..m-1 PROVE b[k] = SPACE
    <3>1. k \in i..n+1 /\ k < m /\ k \in Nat
      BY <1>0, <2>1
    <3>2. k \notin T
      BY <1>2, <2>1, <3>1
    <3> QED BY <3>1, <3>2
  <2> QED BY <1>0, <2>1, <2>2
<1>4. skip_spaces(b, i) = CHOOSE j \in i..Len(b) : First(j)
  BY <1>0 DEF skip_spaces
<1> DEFINE s == skip_spaces(b, i)
<1>5. s \in i..Len(b) /\ First(s)
  BY <1>3, <1>4
<1>6. s <= n + 1
  <2>1. ASSUME n + 1 < s PROVE FALSE
    <3>1. n + 1 \in i..s-1
      BY <1>0, <1>5, <2>1
    <3> QED BY <1>0, <1>5, <3>1, SpaceIsNoEnd
  <2> QED BY <1>0, <1>5, <2>1
<1> QED
  BY <1>0, <1>5, <1>6

LEMMA TextIs ==
  ASSUME NEW b, NEW n, Holds(b, n), NEW i \in 1..n+1
  PROVE  TextFrom(b, i) = SubSeq(b, i, n)
<1>0. /\ n \in Nat /\ n < Len(b) /\ Len(b) \in Nat /\ b[n + 1] = NUL
      /\ \A k \in 1..n : b[k] # NUL
      /\ i \in Nat /\ i >= 1
  BY HoldsSeq
<1> DEFINE First(j) == b[j] = NUL /\ \A k \in i..j-1 : b[k] # NUL
<1>1. n + 1 \in i..Len(b) /\ First(n + 1)
  BY <1>0
<1>2. ASSUME NEW j \in i..Len(b), First(j) PROVE j = n + 1
  <2>1. ~ (j <= n)
    BY <1>0, <1>2
  <2>2. ~ (n + 1 < j)
    <3>1. n + 1 < j => n + 1 \in i..j-1
      BY <1>0
    <3> QED BY <1>0, <1>2, <3>1
  <2> QED BY <1>0, <2>1, <2>2
<1>3. (CHOOSE j \in i..Len(b) : First(j)) = n + 1
  <2> HIDE DEF First
  <2> QED BY <1>1, <1>2
<1>4. TextFrom(b, i) = SubSeq(b, i, (CHOOSE j \in i..Len(b) : First(j)) - 1)
  BY <1>1 DEF TextFrom
<1>5. (n + 1) - 1 = n
  BY <1>0
<1> QED
  BY <1>3, <1>4, <1>5

(* A prefix, letter by letter                                              *)
LEMMA PrefixIs ==
  ASSUME NEW S, NEW s \in Seq(S), NEW t \in Seq(S)
  PROVE  IsPrefix(s, t) <=>
           Len(s) <= Len(t) /\ \A i \in 1..Len(s) : s[i] = t[i]
<1>1. Len(s) \in Nat /\ Len(t) \in Nat
  BY LenProperties
<1>2. SubSeq(s, 1, Len(s)) = s
  BY SubSeqFull
<1>3. ASSUME Len(s) <= Len(t)
      PROVE  /\ SubSeq(t, 1, Len(s)) \in Seq(S)
             /\ Len(SubSeq(t, 1, Len(s))) = Len(s)
             /\ \A i \in 1..Len(s) : SubSeq(t, 1, Len(s))[i] = t[i]
  <2> DEFINE m == Len(s)
  <2>1. \A i \in 1..m : t[i] \in S
    BY <1>1, <1>3, ElementOfSeq
  <2>2. m \in Nat /\ m \in Int /\ 1 \in Int
    BY <1>1
  <2> HIDE DEF m
  <2>3. /\ SubSeq(t, 1, m) \in Seq(S)
        /\ Len(SubSeq(t, 1, m)) = IF 1 <= m THEN m - 1 + 1 ELSE 0
        /\ \A i \in 1..m-1+1 : SubSeq(t, 1, m)[i] = t[1 + i - 1]
    BY <2>1, <2>2, SubSeqProperties
  <2>4. Len(SubSeq(t, 1, m)) = m
    BY <2>2, <2>3
  <2>5. \A i \in 1..m : SubSeq(t, 1, m)[i] = t[i]
    <3>1. \A i \in 1..m : i \in 1..m-1+1 /\ 1 + i - 1 = i
      BY <2>2
    <3> QED BY <2>3, <3>1
  <2> QED BY <2>3, <2>4, <2>5 DEF m
<1>4. ASSUME Len(s) <= Len(t)
      PROVE  s = SubSeq(t, 1, Len(s)) <=> \A i \in 1..Len(s) : s[i] = t[i]
  <2> DEFINE u == SubSeq(t, 1, Len(s))
  <2>1. u \in Seq(S) /\ Len(u) = Len(s) /\ \A i \in 1..Len(s) : u[i] = t[i]
    BY <1>3, <1>4
  <2> HIDE DEF u
  <2>2. (\A i \in 1..Len(s) : s[i] = t[i]) => s = u
    BY <2>1, SeqEqual
  <2> QED BY <2>1, <2>2 DEF u
<1> QED
  BY <1>2, <1>4 DEF IsPrefix

-----------------------------------------------------------------------------
(***************************************************************************)
(* What it takes to start with some letters.                               *)
(***************************************************************************)
LEMMA Starts ==
  ASSUME NEW S, NEW t \in Seq(S), NEW T, NEW s \in Seq(T)
  PROVE  IsPrefix(s, t) <=>
           Len(s) <= Len(t) /\ \A i \in 1..Len(s) : s[i] = t[i]
<1>1. s \in Seq(S \cup T) /\ t \in Seq(S \cup T)
  BY SeqMonotonic
<1> QED
  BY <1>1, PrefixIs

LEMMA Starts1 ==
  ASSUME NEW S, NEW t \in Seq(S), NEW x1
  PROVE  IsPrefix(<<x1>>, t) <=>
           Len(t) >= 1 /\ t[1] = x1
<1> DEFINE s == <<x1>>
<1>1. s \in Seq({x1}) /\ Len(s) = 1
      /\ s[1] = x1
  OBVIOUS
<1>2. Len(t) \in Nat
  BY LenProperties
<1>3. \A i \in 1..1 : i = 1
  OBVIOUS
<1> HIDE DEF s
<1>4. IsPrefix(s, t) <=>
        Len(s) <= Len(t) /\ \A i \in 1..Len(s) : s[i] = t[i]
  BY <1>1, Starts
<1> QED
  BY <1>1, <1>2, <1>3, <1>4 DEF s

LEMMA Starts2 ==
  ASSUME NEW S, NEW t \in Seq(S), NEW x1, NEW x2
  PROVE  IsPrefix(<<x1, x2>>, t) <=>
           Len(t) >= 2 /\ t[1] = x1 /\ t[2] = x2
<1> DEFINE s == <<x1, x2>>
<1>1. s \in Seq({x1, x2}) /\ Len(s) = 2
      /\ s[1] = x1 /\ s[2] = x2
  OBVIOUS
<1>2. Len(t) \in Nat
  BY LenProperties
<1>3. \A i \in 1..2 : i = 1 \/ i = 2
  OBVIOUS
<1> HIDE DEF s
<1>4. IsPrefix(s, t) <=>
        Len(s) <= Len(t) /\ \A i \in 1..Len(s) : s[i] = t[i]
  BY <1>1, Starts
<1> QED
  BY <1>1, <1>2, <1>3, <1>4 DEF s

LEMMA Starts3 ==
  ASSUME NEW S, NEW t \in Seq(S), NEW x1, NEW x2, NEW x3
  PROVE  IsPrefix(<<x1, x2, x3>>, t) <=>
           Len(t) >= 3 /\ t[1] = x1 /\ t[2] = x2 /\ t[3] = x3
<1> DEFINE s == <<x1, x2, x3>>
<1>1. s \in Seq({x1, x2, x3}) /\ Len(s) = 3
      /\ s[1] = x1 /\ s[2] = x2 /\ s[3] = x3
  OBVIOUS
<1>2. Len(t) \in Nat
  BY LenProperties
<1>3. \A i \in 1..3 : i = 1 \/ i = 2 \/ i = 3
  OBVIOUS
<1> HIDE DEF s
<1>4. IsPrefix(s, t) <=>
        Len(s) <= Len(t) /\ \A i \in 1..Len(s) : s[i] = t[i]
  BY <1>1, Starts
<1> QED
  BY <1>1, <1>2, <1>3, <1>4 DEF s

LEMMA Starts4 ==
  ASSUME NEW S, NEW t \in Seq(S), NEW x1, NEW x2, NEW x3, NEW x4
  PROVE  IsPrefix(<<x1, x2, x3, x4>>, t) <=>
           Len(t) >= 4 /\ t[1] = x1 /\ t[2] = x2 /\ t[3] = x3 /\ t[4] = x4
<1> DEFINE s == <<x1, x2, x3, x4>>
<1>1. s \in Seq({x1, x2, x3, x4}) /\ Len(s) = 4
      /\ s[1] = x1 /\ s[2] = x2 /\ s[3] = x3 /\ s[4] = x4
  OBVIOUS
<1>2. Len(t) \in Nat
  BY LenProperties
<1>3. \A i \in 1..4 : i = 1 \/ i = 2 \/ i = 3 \/ i = 4
  OBVIOUS
<1> HIDE DEF s
<1>4. IsPrefix(s, t) <=>
        Len(s) <= Len(t) /\ \A i \in 1..Len(s) : s[i] = t[i]
  BY <1>1, Starts
<1> QED
  BY <1>1, <1>2, <1>3, <1>4 DEF s

LEMMA Starts5 ==
  ASSUME NEW S, NEW t \in Seq(S), NEW x1, NEW x2, NEW x3, NEW x4, NEW x5
  PROVE  IsPrefix(<<x1, x2, x3, x4, x5>>, t) <=>
           /\ Len(t) >= 5 /\ t[1] = x1 /\ t[2] = x2 /\ t[3] = x3 /\ t[4] = x4
           /\ t[5] = x5
<1> DEFINE s == <<x1, x2, x3, x4, x5>>
<1>1. s \in Seq({x1, x2, x3, x4, x5}) /\ Len(s) = 5
      /\ s[1] = x1 /\ s[2] = x2 /\ s[3] = x3 /\ s[4] = x4 /\ s[5] = x5
  OBVIOUS
<1>2. Len(t) \in Nat
  BY LenProperties
<1>3. \A i \in 1..5 : i = 1 \/ i = 2 \/ i = 3 \/ i = 4 \/ i = 5
  OBVIOUS
<1> HIDE DEF s
<1>4. IsPrefix(s, t) <=>
        Len(s) <= Len(t) /\ \A i \in 1..Len(s) : s[i] = t[i]
  BY <1>1, Starts
<1> QED
  BY <1>1, <1>2, <1>3, <1>4 DEF s

LEMMA Starts6 ==
  ASSUME NEW S, NEW t \in Seq(S), NEW x1, NEW x2, NEW x3, NEW x4,
         NEW x5, NEW x6
  PROVE  IsPrefix(<<x1, x2, x3, x4, x5, x6>>, t) <=>
           /\ Len(t) >= 6 /\ t[1] = x1 /\ t[2] = x2 /\ t[3] = x3 /\ t[4] = x4
           /\ t[5] = x5 /\ t[6] = x6
<1> DEFINE s == <<x1, x2, x3, x4, x5, x6>>
<1>1. s \in Seq({x1, x2, x3, x4, x5, x6}) /\ Len(s) = 6
      /\ s[1] = x1 /\ s[2] = x2 /\ s[3] = x3 /\ s[4] = x4
      /\ s[5] = x5 /\ s[6] = x6
  OBVIOUS
<1>2. Len(t) \in Nat
  BY LenProperties
<1>3. \A i \in 1..6 : i = 1 \/ i = 2 \/ i = 3 \/ i = 4 \/ i = 5 \/ i = 6
  OBVIOUS
<1> HIDE DEF s
<1>4. IsPrefix(s, t) <=>
        Len(s) <= Len(t) /\ \A i \in 1..Len(s) : s[i] = t[i]
  BY <1>1, Starts
<1> QED
  BY <1>1, <1>2, <1>3, <1>4 DEF s

LEMMA Starts7 ==
  ASSUME NEW S, NEW t \in Seq(S), NEW x1, NEW x2, NEW x3, NEW x4,
         NEW x5, NEW x6, NEW x7
  PROVE  IsPrefix(<<x1, x2, x3, x4, x5, x6, x7>>, t) <=>
           /\ Len(t) >= 7 /\ t[1] = x1 /\ t[2] = x2 /\ t[3] = x3 /\ t[4] = x4
           /\ t[5] = x5 /\ t[6] = x6 /\ t[7] = x7
<1> DEFINE s == <<x1, x2, x3, x4, x5, x6, x7>>
<1>1. s \in Seq({x1, x2, x3, x4, x5, x6, x7}) /\ Len(s) = 7
      /\ s[1] = x1 /\ s[2] = x2 /\ s[3] = x3 /\ s[4] = x4
      /\ s[5] = x5 /\ s[6] = x6 /\ s[7] = x7
  OBVIOUS
<1>2. Len(t) \in Nat
  BY LenProperties
<1>3. \A i \in 1..7 : i = 1 \/ i = 2 \/ i = 3 \/ i = 4
                  \/ i = 5 \/ i = 6 \/ i = 7
  OBVIOUS
<1> HIDE DEF s
<1>4. IsPrefix(s, t) <=>
        Len(s) <= Len(t) /\ \A i \in 1..Len(s) : s[i] = t[i]
  BY <1>1, Starts
<1> QED
  BY <1>1, <1>2, <1>3, <1>4 DEF s

-----------------------------------------------------------------------------
(***************************************************************************)
(* The tests of dispatch, and which of them a line meets first.            *)
(***************************************************************************)
LEMMA TestsAre ==
  /\ DOMAIN Tests = 1..21
  /\ Tests[1] = Test(<<"s","p","a","w","n">>, "cmd_spawn", 5)
  /\ Tests[2] = Test(<<"r","s">>, "cmd_rspawn", 6)
  /\ Tests[3] = Test(<<"r","e","s","t","a">>, "cmd_restart", 8)
  /\ Tests[4] = Test(<<"e","v","a","l">>, "cmd_eval", 4)
  /\ Tests[5] = Test(<<"p","s",SPACE>>, "cmd_ps", 0)
  /\ Tests[6] = Test(<<"p","s",NUL>>, "cmd_ps", 0)
  /\ Tests[7] = Test(<<"k","i","l","l">>, "cmd_kill", 4)
  /\ Tests[8] = Test(<<"r","e","s","e","t">>, "cmd_reset", 0)
  /\ Tests[9] = Test(<<"s","t">>, "cmd_status", 0)
  /\ Tests[10] = Test(<<"b","o">>, "cmd_bootleg", 0)
  /\ Tests[11] = Test(<<"c","l">>, "cmd_clear", 0)
  /\ Tests[12] = Test(<<"e","c">>, "cmd_echo", 4)
  /\ Tests[13] = Test(<<"m","e">>, "cmd_mem", 0)
  /\ Tests[14] = Test(<<"l","s">>, "cmd_lspci", 0)
  /\ Tests[15] = Test(<<"a","r">>, "cmd_arch", 0)
  /\ Tests[16] = Test(<<"g","r">>, "cmd_groove", 0)
  /\ Tests[17] = Test(<<"s","t","o">>, "cmd_stopgroove", 0)
  /\ Tests[18] = Test(<<"t","o">>, "cmd_tone", 4)
  /\ Tests[19] = Test(<<"b","e">>, "cmd_beep", 0)
  /\ Tests[20] = Test(<<"s","i">>, "cmd_schema_audio", 3)
  /\ Tests[21] = Test(<<"h">>, "cmd_help", 0)
<1> DEFINE t1  == Test(<<"s","p","a","w","n">>, "cmd_spawn", 5)
           t2  == Test(<<"r","s">>, "cmd_rspawn", 6)
           t3  == Test(<<"r","e","s","t","a">>, "cmd_restart", 8)
           t4  == Test(<<"e","v","a","l">>, "cmd_eval", 4)
           t5  == Test(<<"p","s",SPACE>>, "cmd_ps", 0)
           t6  == Test(<<"p","s",NUL>>, "cmd_ps", 0)
           t7  == Test(<<"k","i","l","l">>, "cmd_kill", 4)
           t8  == Test(<<"r","e","s","e","t">>, "cmd_reset", 0)
           t9  == Test(<<"s","t">>, "cmd_status", 0)
           t10 == Test(<<"b","o">>, "cmd_bootleg", 0)
           t11 == Test(<<"c","l">>, "cmd_clear", 0)
           t12 == Test(<<"e","c">>, "cmd_echo", 4)
           t13 == Test(<<"m","e">>, "cmd_mem", 0)
           t14 == Test(<<"l","s">>, "cmd_lspci", 0)
           t15 == Test(<<"a","r">>, "cmd_arch", 0)
           t16 == Test(<<"g","r">>, "cmd_groove", 0)
           t17 == Test(<<"s","t","o">>, "cmd_stopgroove", 0)
           t18 == Test(<<"t","o">>, "cmd_tone", 4)
           t19 == Test(<<"b","e">>, "cmd_beep", 0)
           t20 == Test(<<"s","i">>, "cmd_schema_audio", 3)
           t21 == Test(<<"h">>, "cmd_help", 0)
<1>1. Tests = <<t1, t2, t3, t4, t5, t6, t7, t8, t9, t10, t11, t12, t13, t14,
                t15, t16, t17, t18, t19, t20, t21>>
  BY DEF Tests
<1> HIDE DEF t1, t2, t3, t4, t5, t6, t7, t8, t9, t10, t11, t12, t13, t14,
             t15, t16, t17, t18, t19, t20, t21
<1>2. /\ DOMAIN Tests = 1..21
      /\ Tests[1] = t1 /\ Tests[2] = t2 /\ Tests[3] = t3 /\ Tests[4] = t4
      /\ Tests[5] = t5 /\ Tests[6] = t6 /\ Tests[7] = t7 /\ Tests[8] = t8
      /\ Tests[9] = t9 /\ Tests[10] = t10 /\ Tests[11] = t11 /\ Tests[12] = t12
      /\ Tests[13] = t13 /\ Tests[14] = t14 /\ Tests[15] = t15 /\ Tests[16] = t16
      /\ Tests[17] = t17 /\ Tests[18] = t18 /\ Tests[19] = t19 /\ Tests[20] = t20
      /\ Tests[21] = t21
  BY <1>1
<1> QED
  BY <1>2 DEF t1, t2, t3, t4, t5, t6, t7, t8, t9, t10, t11, t12, t13, t14,
              t15, t16, t17, t18, t19, t20, t21

LEMMA LettersAre ==
  /\ Tests[1].letters = <<"s","p","a","w","n">>
  /\ Tests[2].letters = <<"r","s">>
  /\ Tests[3].letters = <<"r","e","s","t","a">>
  /\ Tests[4].letters = <<"e","v","a","l">>
  /\ Tests[5].letters = <<"p","s",SPACE>>
  /\ Tests[6].letters = <<"p","s",NUL>>
  /\ Tests[7].letters = <<"k","i","l","l">>
  /\ Tests[8].letters = <<"r","e","s","e","t">>
  /\ Tests[9].letters = <<"s","t">>
  /\ Tests[10].letters = <<"b","o">>
  /\ Tests[11].letters = <<"c","l">>
  /\ Tests[12].letters = <<"e","c">>
  /\ Tests[13].letters = <<"m","e">>
  /\ Tests[14].letters = <<"l","s">>
  /\ Tests[15].letters = <<"a","r">>
  /\ Tests[16].letters = <<"g","r">>
  /\ Tests[17].letters = <<"s","t","o">>
  /\ Tests[18].letters = <<"t","o">>
  /\ Tests[19].letters = <<"b","e">>
  /\ Tests[20].letters = <<"s","i">>
  /\ Tests[21].letters = <<"h">>
BY TestsAre DEF Test

Matches(u, b) == IsPrefix(Tests[u].letters, b)

LEMMA MatchesAre ==
  ASSUME NEW S, NEW b \in Seq(S)
  PROVE  /\ Matches(1, b) <=>
              /\ Len(b) >= 5 /\ b[1] = "s" /\ b[2] = "p" /\ b[3] = "a"
              /\ b[4] = "w" /\ b[5] = "n"
         /\ Matches(2, b) <=>
              /\ Len(b) >= 2 /\ b[1] = "r" /\ b[2] = "s"
         /\ Matches(3, b) <=>
              /\ Len(b) >= 5 /\ b[1] = "r" /\ b[2] = "e" /\ b[3] = "s"
              /\ b[4] = "t" /\ b[5] = "a"
         /\ Matches(4, b) <=>
              /\ Len(b) >= 4 /\ b[1] = "e" /\ b[2] = "v" /\ b[3] = "a"
              /\ b[4] = "l"
         /\ Matches(5, b) <=>
              /\ Len(b) >= 3 /\ b[1] = "p" /\ b[2] = "s" /\ b[3] = SPACE
         /\ Matches(6, b) <=>
              /\ Len(b) >= 3 /\ b[1] = "p" /\ b[2] = "s" /\ b[3] = NUL
         /\ Matches(7, b) <=>
              /\ Len(b) >= 4 /\ b[1] = "k" /\ b[2] = "i" /\ b[3] = "l"
              /\ b[4] = "l"
         /\ Matches(8, b) <=>
              /\ Len(b) >= 5 /\ b[1] = "r" /\ b[2] = "e" /\ b[3] = "s"
              /\ b[4] = "e" /\ b[5] = "t"
         /\ Matches(9, b) <=>
              /\ Len(b) >= 2 /\ b[1] = "s" /\ b[2] = "t"
         /\ Matches(10, b) <=>
              /\ Len(b) >= 2 /\ b[1] = "b" /\ b[2] = "o"
         /\ Matches(11, b) <=>
              /\ Len(b) >= 2 /\ b[1] = "c" /\ b[2] = "l"
         /\ Matches(12, b) <=>
              /\ Len(b) >= 2 /\ b[1] = "e" /\ b[2] = "c"
         /\ Matches(13, b) <=>
              /\ Len(b) >= 2 /\ b[1] = "m" /\ b[2] = "e"
         /\ Matches(14, b) <=>
              /\ Len(b) >= 2 /\ b[1] = "l" /\ b[2] = "s"
         /\ Matches(15, b) <=>
              /\ Len(b) >= 2 /\ b[1] = "a" /\ b[2] = "r"
         /\ Matches(16, b) <=>
              /\ Len(b) >= 2 /\ b[1] = "g" /\ b[2] = "r"
         /\ Matches(17, b) <=>
              /\ Len(b) >= 3 /\ b[1] = "s" /\ b[2] = "t" /\ b[3] = "o"
         /\ Matches(18, b) <=>
              /\ Len(b) >= 2 /\ b[1] = "t" /\ b[2] = "o"
         /\ Matches(19, b) <=>
              /\ Len(b) >= 2 /\ b[1] = "b" /\ b[2] = "e"
         /\ Matches(20, b) <=>
              /\ Len(b) >= 2 /\ b[1] = "s" /\ b[2] = "i"
         /\ Matches(21, b) <=>
              /\ Len(b) >= 1 /\ b[1] = "h"
<1>1. Matches(1, b) <=> /\ Len(b) >= 5
                         /\ b[1] = "s" /\ b[2] = "p" /\ b[3] = "a"
                         /\ b[4] = "w" /\ b[5] = "n"
  <2>1. IsPrefix(<<"s","p","a","w","n">>, b) <=> /\ Len(b) >= 5
                         /\ b[1] = "s" /\ b[2] = "p" /\ b[3] = "a"
                         /\ b[4] = "w" /\ b[5] = "n"
    BY Starts5
  <2>2. Tests[1].letters = <<"s","p","a","w","n">>
    BY LettersAre
  <2> QED BY <2>1, <2>2 DEF Matches
<1>2. Matches(2, b) <=> /\ Len(b) >= 2
                         /\ b[1] = "r" /\ b[2] = "s"
  <2>1. Tests[2].letters = <<"r","s">>
    BY LettersAre
  <2>2. Matches(2, b) <=> IsPrefix(<<"r","s">>, b)
    BY <2>1 DEF Matches
  <2> QED BY <2>2, Starts2
<1>3. Matches(3, b) <=> /\ Len(b) >= 5
                         /\ b[1] = "r" /\ b[2] = "e" /\ b[3] = "s"
                         /\ b[4] = "t" /\ b[5] = "a"
  <2>1. IsPrefix(<<"r","e","s","t","a">>, b) <=> /\ Len(b) >= 5
                         /\ b[1] = "r" /\ b[2] = "e" /\ b[3] = "s"
                         /\ b[4] = "t" /\ b[5] = "a"
    BY Starts5
  <2>2. Tests[3].letters = <<"r","e","s","t","a">>
    BY LettersAre
  <2> QED BY <2>1, <2>2 DEF Matches
<1>4. Matches(4, b) <=> /\ Len(b) >= 4
                         /\ b[1] = "e" /\ b[2] = "v" /\ b[3] = "a"
                         /\ b[4] = "l"
  <2>1. Tests[4].letters = <<"e","v","a","l">>
    BY LettersAre
  <2>2. Matches(4, b) <=> IsPrefix(<<"e","v","a","l">>, b)
    BY <2>1 DEF Matches
  <2> QED BY <2>2, Starts4
<1>5. Matches(5, b) <=> /\ Len(b) >= 3
                         /\ b[1] = "p" /\ b[2] = "s" /\ b[3] = SPACE
  <2>1. Tests[5].letters = <<"p","s",SPACE>>
    BY LettersAre
  <2>2. Matches(5, b) <=> IsPrefix(<<"p","s",SPACE>>, b)
    BY <2>1 DEF Matches
  <2> QED BY <2>2, Starts3
<1>6. Matches(6, b) <=> /\ Len(b) >= 3
                         /\ b[1] = "p" /\ b[2] = "s" /\ b[3] = NUL
  <2>1. Tests[6].letters = <<"p","s",NUL>>
    BY LettersAre
  <2>2. Matches(6, b) <=> IsPrefix(<<"p","s",NUL>>, b)
    BY <2>1 DEF Matches
  <2> QED BY <2>2, Starts3
<1>7. Matches(7, b) <=> /\ Len(b) >= 4
                         /\ b[1] = "k" /\ b[2] = "i" /\ b[3] = "l"
                         /\ b[4] = "l"
  <2>1. Tests[7].letters = <<"k","i","l","l">>
    BY LettersAre
  <2>2. Matches(7, b) <=> IsPrefix(<<"k","i","l","l">>, b)
    BY <2>1 DEF Matches
  <2> QED BY <2>2, Starts4
<1>8. Matches(8, b) <=> /\ Len(b) >= 5
                         /\ b[1] = "r" /\ b[2] = "e" /\ b[3] = "s"
                         /\ b[4] = "e" /\ b[5] = "t"
  <2>1. IsPrefix(<<"r","e","s","e","t">>, b) <=> /\ Len(b) >= 5
                         /\ b[1] = "r" /\ b[2] = "e" /\ b[3] = "s"
                         /\ b[4] = "e" /\ b[5] = "t"
    BY Starts5
  <2>2. Tests[8].letters = <<"r","e","s","e","t">>
    BY LettersAre
  <2> QED BY <2>1, <2>2 DEF Matches
<1>9. Matches(9, b) <=> /\ Len(b) >= 2
                         /\ b[1] = "s" /\ b[2] = "t"
  <2>1. Tests[9].letters = <<"s","t">>
    BY LettersAre
  <2>2. Matches(9, b) <=> IsPrefix(<<"s","t">>, b)
    BY <2>1 DEF Matches
  <2> QED BY <2>2, Starts2
<1>10. Matches(10, b) <=> /\ Len(b) >= 2
                         /\ b[1] = "b" /\ b[2] = "o"
  <2>1. Tests[10].letters = <<"b","o">>
    BY LettersAre
  <2>2. Matches(10, b) <=> IsPrefix(<<"b","o">>, b)
    BY <2>1 DEF Matches
  <2> QED BY <2>2, Starts2
<1>11. Matches(11, b) <=> /\ Len(b) >= 2
                         /\ b[1] = "c" /\ b[2] = "l"
  <2>1. Tests[11].letters = <<"c","l">>
    BY LettersAre
  <2>2. Matches(11, b) <=> IsPrefix(<<"c","l">>, b)
    BY <2>1 DEF Matches
  <2> QED BY <2>2, Starts2
<1>12. Matches(12, b) <=> /\ Len(b) >= 2
                         /\ b[1] = "e" /\ b[2] = "c"
  <2>1. Tests[12].letters = <<"e","c">>
    BY LettersAre
  <2>2. Matches(12, b) <=> IsPrefix(<<"e","c">>, b)
    BY <2>1 DEF Matches
  <2> QED BY <2>2, Starts2
<1>13. Matches(13, b) <=> /\ Len(b) >= 2
                         /\ b[1] = "m" /\ b[2] = "e"
  <2>1. Tests[13].letters = <<"m","e">>
    BY LettersAre
  <2>2. Matches(13, b) <=> IsPrefix(<<"m","e">>, b)
    BY <2>1 DEF Matches
  <2> QED BY <2>2, Starts2
<1>14. Matches(14, b) <=> /\ Len(b) >= 2
                         /\ b[1] = "l" /\ b[2] = "s"
  <2>1. Tests[14].letters = <<"l","s">>
    BY LettersAre
  <2>2. Matches(14, b) <=> IsPrefix(<<"l","s">>, b)
    BY <2>1 DEF Matches
  <2> QED BY <2>2, Starts2
<1>15. Matches(15, b) <=> /\ Len(b) >= 2
                         /\ b[1] = "a" /\ b[2] = "r"
  <2>1. Tests[15].letters = <<"a","r">>
    BY LettersAre
  <2>2. Matches(15, b) <=> IsPrefix(<<"a","r">>, b)
    BY <2>1 DEF Matches
  <2> QED BY <2>2, Starts2
<1>16. Matches(16, b) <=> /\ Len(b) >= 2
                         /\ b[1] = "g" /\ b[2] = "r"
  <2>1. Tests[16].letters = <<"g","r">>
    BY LettersAre
  <2>2. Matches(16, b) <=> IsPrefix(<<"g","r">>, b)
    BY <2>1 DEF Matches
  <2> QED BY <2>2, Starts2
<1>17. Matches(17, b) <=> /\ Len(b) >= 3
                         /\ b[1] = "s" /\ b[2] = "t" /\ b[3] = "o"
  <2>1. Tests[17].letters = <<"s","t","o">>
    BY LettersAre
  <2>2. Matches(17, b) <=> IsPrefix(<<"s","t","o">>, b)
    BY <2>1 DEF Matches
  <2> QED BY <2>2, Starts3
<1>18. Matches(18, b) <=> /\ Len(b) >= 2
                         /\ b[1] = "t" /\ b[2] = "o"
  <2>1. Tests[18].letters = <<"t","o">>
    BY LettersAre
  <2>2. Matches(18, b) <=> IsPrefix(<<"t","o">>, b)
    BY <2>1 DEF Matches
  <2> QED BY <2>2, Starts2
<1>19. Matches(19, b) <=> /\ Len(b) >= 2
                         /\ b[1] = "b" /\ b[2] = "e"
  <2>1. Tests[19].letters = <<"b","e">>
    BY LettersAre
  <2>2. Matches(19, b) <=> IsPrefix(<<"b","e">>, b)
    BY <2>1 DEF Matches
  <2> QED BY <2>2, Starts2
<1>20. Matches(20, b) <=> /\ Len(b) >= 2
                         /\ b[1] = "s" /\ b[2] = "i"
  <2>1. Tests[20].letters = <<"s","i">>
    BY LettersAre
  <2>2. Matches(20, b) <=> IsPrefix(<<"s","i">>, b)
    BY <2>1 DEF Matches
  <2> QED BY <2>2, Starts2
<1>21. Matches(21, b) <=> /\ Len(b) >= 1
                         /\ b[1] = "h"
  <2>1. Tests[21].letters = <<"h">>
    BY LettersAre
  <2>2. Matches(21, b) <=> IsPrefix(<<"h">>, b)
    BY <2>1 DEF Matches
  <2> QED BY <2>2, Starts1
<1> QED
  BY <1>1, <1>2, <1>3, <1>4, <1>5, <1>6, <1>7, <1>8, <1>9, <1>10, <1>11,
     <1>12, <1>13, <1>14, <1>15, <1>16, <1>17, <1>18, <1>19, <1>20,
     <1>21

(* The test a line is taken for                                            *)
FirstTest(b, k) ==
  Matches(k, b) /\ \A u \in 1..k-1 : ~ Matches(u, b)

(* The second letter tells the tests with the same first letter apart, or  *)
(* else one that comes after it.                                           *)
Initials(u, b) ==
  \/ b[1] = "s" /\ ((u = 1 /\ b[2] = "p") \/ (u \in {9, 17} /\ b[2] = "t"))
  \/ b[1] = "s" /\ u = 20 /\ b[2] = "i"
  \/ b[1] = "r" /\ u = 2 /\ b[2] = "s"
  \/ b[1] = "r" /\ u = 3 /\ b[2] = "e" /\ b[4] = "t"
  \/ b[1] = "r" /\ u = 8 /\ b[2] = "e" /\ b[4] = "e"
  \/ b[1] = "e" /\ ((u = 4 /\ b[2] = "v") \/ (u = 12 /\ b[2] = "c"))
  \/ b[1] = "p" /\ ((u = 5 /\ b[3] = SPACE) \/ (u = 6 /\ b[3] = NUL))
  \/ b[1] = "b" /\ ((u = 10 /\ b[2] = "o") \/ (u = 19 /\ b[2] = "e"))
  \/ b[1] = "k" /\ u = 7
  \/ b[1] = "c" /\ u = 11
  \/ b[1] = "m" /\ u = 13
  \/ b[1] = "l" /\ u = 14
  \/ b[1] = "a" /\ u = 15
  \/ b[1] = "g" /\ u = 16
  \/ b[1] = "t" /\ u = 18
  \/ b[1] = "h" /\ u = 21

LEMMA InitialsAre ==
  ASSUME NEW S, NEW b \in Seq(S), NEW u \in 1..21, Matches(u, b)
  PROVE  Initials(u, b)
<1> DEFINE M(v) == Matches(v, b)
<1>1. /\ M(1) => b[1] = "s" /\ b[2] = "p"
      /\ M(2) => b[1] = "r" /\ b[2] = "s"
      /\ M(3) => b[1] = "r" /\ b[2] = "e" /\ b[4] = "t"
      /\ M(4) => b[1] = "e" /\ b[2] = "v"
      /\ M(5) => b[1] = "p" /\ b[3] = SPACE
      /\ M(6) => b[1] = "p" /\ b[3] = NUL
      /\ M(7) => b[1] = "k"
      /\ M(8) => b[1] = "r" /\ b[2] = "e" /\ b[4] = "e"
  BY MatchesAre
<1>2. /\ M(9) => b[1] = "s" /\ b[2] = "t"
      /\ M(10) => b[1] = "b" /\ b[2] = "o"
      /\ M(11) => b[1] = "c"
      /\ M(12) => b[1] = "e" /\ b[2] = "c"
      /\ M(13) => b[1] = "m"
      /\ M(14) => b[1] = "l"
      /\ M(15) => b[1] = "a"
      /\ M(16) => b[1] = "g"
  BY MatchesAre
<1>3. /\ M(17) => b[1] = "s" /\ b[2] = "t"
      /\ M(18) => b[1] = "t"
      /\ M(19) => b[1] = "b" /\ b[2] = "e"
      /\ M(20) => b[1] = "s" /\ b[2] = "i"
      /\ M(21) => b[1] = "h"
  BY MatchesAre
<1>4. M(u)
  OBVIOUS
<1> HIDE DEF M
<1>5. CASE u \in 1..8
  <2>1. \/ u = 1 \/ u = 2 \/ u = 3 \/ u = 4
        \/ u = 5 \/ u = 6 \/ u = 7 \/ u = 8
    BY <1>5
  <2> QED BY <1>1, <1>4, <2>1 DEF Initials
<1>6. CASE u \in 9..16
  <2>1. \/ u = 9 \/ u = 10 \/ u = 11 \/ u = 12
        \/ u = 13 \/ u = 14 \/ u = 15 \/ u = 16
    BY <1>6
  <2> QED BY <1>2, <1>4, <2>1 DEF Initials
<1>7. CASE u \in 17..21
  <2>1. u = 17 \/ u = 18 \/ u = 19 \/ u = 20 \/ u = 21
    BY <1>7
  <2> QED BY <1>3, <1>4, <2>1 DEF Initials
<1> QED
  BY <1>5, <1>6, <1>7

LEMMA FirstBy ==
  ASSUME NEW b, NEW k \in 1..21, Matches(k, b),
         \A u \in 1..21 : Matches(u, b) => ~ (u < k)
  PROVE  FirstTest(b, k)
<1>1. ASSUME NEW u \in 1..k-1 PROVE u \in 1..21 /\ u < k
  OBVIOUS
<1>2. \A u \in 1..k-1 : ~ Matches(u, b)
  BY <1>1
<1> QED
  BY <1>2 DEF FirstTest

(* Each verb of `help` is met by the test for its command before any other:*)
(* its first letters differ from those of every test that comes earlier.   *)
LEMMA VerbsAreMet ==
  ASSUME NEW S, NEW b \in Seq(S)
  PROVE  /\ IsPrefix(<<"s","p","a","w","n">>, b) => FirstTest(b, 1)
         /\ IsPrefix(<<"r","s","p","a","w","n">>, b) => FirstTest(b, 2)
         /\ IsPrefix(<<"e","v","a","l">>, b) => FirstTest(b, 4)
         /\ IsPrefix(<<"p","s">>, b) /\ b[3] = NUL /\ Len(b) >= 3
              => FirstTest(b, 6)
         /\ IsPrefix(<<"p","s">>, b) /\ b[3] = SPACE /\ Len(b) >= 3
              => FirstTest(b, 5)
         /\ IsPrefix(<<"k","i","l","l">>, b) => FirstTest(b, 7)
         /\ IsPrefix(<<"r","e","s","t","a","r","t">>, b) => FirstTest(b, 3)
         /\ IsPrefix(<<"r","e","s","e","t">>, b) => FirstTest(b, 8)
         /\ IsPrefix(<<"b","o","o","t","l","e","g">>, b) => FirstTest(b, 10)
         /\ IsPrefix(<<"s","t","a","t","u","s">>, b) => FirstTest(b, 9)
         /\ IsPrefix(<<"c","l","e","a","r">>, b) => FirstTest(b, 11)
         /\ IsPrefix(<<"e","c","h","o">>, b) => FirstTest(b, 12)
         /\ IsPrefix(<<"m","e","m">>, b) => FirstTest(b, 13)
         /\ IsPrefix(<<"l","s","p","c","i">>, b) => FirstTest(b, 14)
         /\ IsPrefix(<<"a","r","c","h">>, b) => FirstTest(b, 15)
         /\ IsPrefix(<<"g","r","o","o","v","e">>, b) => FirstTest(b, 16)
         /\ IsPrefix(<<"t","o","n","e">>, b) => FirstTest(b, 18)
         /\ IsPrefix(<<"b","e","e","p">>, b) => FirstTest(b, 19)
         /\ IsPrefix(<<"s","i","g">>, b) => FirstTest(b, 20)
         /\ IsPrefix(<<"h","e","l","p">>, b) => FirstTest(b, 21)
<1>1. ASSUME IsPrefix(<<"s","p","a","w","n">>, b)
     PROVE  FirstTest(b, 1)
  <2>1. /\ Len(b) >= 5
        /\ b[1] = "s" /\ b[2] = "p" /\ b[3] = "a" /\ b[4] = "w"
        /\ b[5] = "n"
    BY <1>1, Starts5
  <2>2. Matches(1, b)
    <3>1. /\ Len(b) >= 5
          /\ b[1] = "s" /\ b[2] = "p" /\ b[3] = "a" /\ b[4] = "w"
          /\ b[5] = "n"
      BY <2>1
    <3> QED BY <3>1, MatchesAre
  <2> QED BY <2>2, FirstBy
<1>2. ASSUME IsPrefix(<<"r","s","p","a","w","n">>, b)
     PROVE  FirstTest(b, 2)
  <2>1. /\ Len(b) >= 6
        /\ b[1] = "r" /\ b[2] = "s" /\ b[3] = "p" /\ b[4] = "a"
        /\ b[5] = "w" /\ b[6] = "n"
    BY <1>2, Starts6
  <2>2. Matches(2, b)
    <3>1. /\ Len(b) >= 2
          /\ b[1] = "r" /\ b[2] = "s"
      BY <2>1
    <3> QED BY <3>1, MatchesAre
  <2>3. ASSUME NEW u \in 1..21, Matches(u, b), u < 2 PROVE FALSE
    <3>1. Initials(u, b)
      BY <2>3, InitialsAre
    <3> QED BY <2>1, <2>3, <3>1 DEF Initials
  <2> QED BY <2>2, <2>3, FirstBy
<1>3. ASSUME IsPrefix(<<"e","v","a","l">>, b)
     PROVE  FirstTest(b, 4)
  <2>1. /\ Len(b) >= 4
        /\ b[1] = "e" /\ b[2] = "v" /\ b[3] = "a" /\ b[4] = "l"
    BY <1>3, Starts4
  <2>2. Matches(4, b)
    <3>1. /\ Len(b) >= 4
          /\ b[1] = "e" /\ b[2] = "v" /\ b[3] = "a" /\ b[4] = "l"
      BY <2>1
    <3> QED BY <3>1, MatchesAre
  <2>3. ASSUME NEW u \in 1..21, Matches(u, b), u < 4 PROVE FALSE
    <3>1. Initials(u, b)
      BY <2>3, InitialsAre
    <3> QED BY <2>1, <2>3, <3>1 DEF Initials
  <2> QED BY <2>2, <2>3, FirstBy
<1>4. ASSUME IsPrefix(<<"p","s">>, b), b[3] = NUL, Len(b) >= 3
     PROVE  FirstTest(b, 6)
  <2>1. /\ Len(b) >= 2
        /\ b[1] = "p" /\ b[2] = "s"
    BY <1>4, Starts2
  <2>2. Matches(6, b)
    <3>1. /\ Len(b) >= 3
          /\ b[1] = "p" /\ b[2] = "s" /\ b[3] = NUL
      BY <1>4, <2>1
    <3> QED BY <3>1, MatchesAre
  <2>3. ASSUME NEW u \in 1..21, Matches(u, b), u < 6 PROVE FALSE
    <3>1. Initials(u, b)
      BY <2>3, InitialsAre
    <3> QED BY <1>4, SpaceIsNoEnd, <2>1, <2>3, <3>1 DEF Initials
  <2> QED BY <2>2, <2>3, FirstBy
<1>5. ASSUME IsPrefix(<<"k","i","l","l">>, b)
     PROVE  FirstTest(b, 7)
  <2>1. /\ Len(b) >= 4
        /\ b[1] = "k" /\ b[2] = "i" /\ b[3] = "l" /\ b[4] = "l"
    BY <1>5, Starts4
  <2>2. Matches(7, b)
    <3>1. /\ Len(b) >= 4
          /\ b[1] = "k" /\ b[2] = "i" /\ b[3] = "l" /\ b[4] = "l"
      BY <2>1
    <3> QED BY <3>1, MatchesAre
  <2>3. ASSUME NEW u \in 1..21, Matches(u, b), u < 7 PROVE FALSE
    <3>1. Initials(u, b)
      BY <2>3, InitialsAre
    <3> QED BY <2>1, <2>3, <3>1 DEF Initials
  <2> QED BY <2>2, <2>3, FirstBy
<1>6. ASSUME IsPrefix(<<"r","e","s","t","a","r","t">>, b)
     PROVE  FirstTest(b, 3)
  <2>1. /\ Len(b) >= 7
        /\ b[1] = "r" /\ b[2] = "e" /\ b[3] = "s" /\ b[4] = "t"
        /\ b[5] = "a" /\ b[6] = "r" /\ b[7] = "t"
    BY <1>6, Starts7
  <2>2. Matches(3, b)
    <3>1. /\ Len(b) >= 5
          /\ b[1] = "r" /\ b[2] = "e" /\ b[3] = "s" /\ b[4] = "t"
          /\ b[5] = "a"
      BY <2>1
    <3> QED BY <3>1, MatchesAre
  <2>3. ASSUME NEW u \in 1..21, Matches(u, b), u < 3 PROVE FALSE
    <3>1. Initials(u, b)
      BY <2>3, InitialsAre
    <3> QED BY <2>1, <2>3, <3>1 DEF Initials
  <2> QED BY <2>2, <2>3, FirstBy
<1>7. ASSUME IsPrefix(<<"r","e","s","e","t">>, b)
     PROVE  FirstTest(b, 8)
  <2>1. /\ Len(b) >= 5
        /\ b[1] = "r" /\ b[2] = "e" /\ b[3] = "s" /\ b[4] = "e"
        /\ b[5] = "t"
    BY <1>7, Starts5
  <2>2. Matches(8, b)
    <3>1. /\ Len(b) >= 5
          /\ b[1] = "r" /\ b[2] = "e" /\ b[3] = "s" /\ b[4] = "e"
          /\ b[5] = "t"
      BY <2>1
    <3> QED BY <3>1, MatchesAre
  <2>3. ASSUME NEW u \in 1..21, Matches(u, b), u < 8 PROVE FALSE
    <3>1. Initials(u, b)
      BY <2>3, InitialsAre
    <3> QED BY <2>1, <2>3, <3>1 DEF Initials
  <2> QED BY <2>2, <2>3, FirstBy
<1>8. ASSUME IsPrefix(<<"b","o","o","t","l","e","g">>, b)
     PROVE  FirstTest(b, 10)
  <2>1. /\ Len(b) >= 7
        /\ b[1] = "b" /\ b[2] = "o" /\ b[3] = "o" /\ b[4] = "t"
        /\ b[5] = "l" /\ b[6] = "e" /\ b[7] = "g"
    BY <1>8, Starts7
  <2>2. Matches(10, b)
    <3>1. /\ Len(b) >= 2
          /\ b[1] = "b" /\ b[2] = "o"
      BY <2>1
    <3> QED BY <3>1, MatchesAre
  <2>3. ASSUME NEW u \in 1..21, Matches(u, b), u < 10 PROVE FALSE
    <3>1. Initials(u, b)
      BY <2>3, InitialsAre
    <3> QED BY <2>1, <2>3, <3>1 DEF Initials
  <2> QED BY <2>2, <2>3, FirstBy
<1>9. ASSUME IsPrefix(<<"s","t","a","t","u","s">>, b)
     PROVE  FirstTest(b, 9)
  <2>1. /\ Len(b) >= 6
        /\ b[1] = "s" /\ b[2] = "t" /\ b[3] = "a" /\ b[4] = "t"
        /\ b[5] = "u" /\ b[6] = "s"
    BY <1>9, Starts6
  <2>2. Matches(9, b)
    <3>1. /\ Len(b) >= 2
          /\ b[1] = "s" /\ b[2] = "t"
      BY <2>1
    <3> QED BY <3>1, MatchesAre
  <2>3. ASSUME NEW u \in 1..21, Matches(u, b), u < 9 PROVE FALSE
    <3>1. Initials(u, b)
      BY <2>3, InitialsAre
    <3> QED BY <2>1, <2>3, <3>1 DEF Initials
  <2> QED BY <2>2, <2>3, FirstBy
<1>10. ASSUME IsPrefix(<<"c","l","e","a","r">>, b)
      PROVE  FirstTest(b, 11)
  <2>1. /\ Len(b) >= 5
        /\ b[1] = "c" /\ b[2] = "l" /\ b[3] = "e" /\ b[4] = "a"
        /\ b[5] = "r"
    BY <1>10, Starts5
  <2>2. Matches(11, b)
    <3>1. /\ Len(b) >= 2
          /\ b[1] = "c" /\ b[2] = "l"
      BY <2>1
    <3> QED BY <3>1, MatchesAre
  <2>3. ASSUME NEW u \in 1..21, Matches(u, b), u < 11 PROVE FALSE
    <3>1. Initials(u, b)
      BY <2>3, InitialsAre
    <3> QED BY <2>1, <2>3, <3>1 DEF Initials
  <2> QED BY <2>2, <2>3, FirstBy
<1>11. ASSUME IsPrefix(<<"e","c","h","o">>, b)
      PROVE  FirstTest(b, 12)
  <2>1. /\ Len(b) >= 4
        /\ b[1] = "e" /\ b[2] = "c" /\ b[3] = "h" /\ b[4] = "o"
    BY <1>11, Starts4
  <2>2. Matches(12, b)
    <3>1. /\ Len(b) >= 2
          /\ b[1] = "e" /\ b[2] = "c"
      BY <2>1
    <3> QED BY <3>1, MatchesAre
  <2>3. ASSUME NEW u \in 1..21, Matches(u, b), u < 12 PROVE FALSE
    <3>1. Initials(u, b)
      BY <2>3, InitialsAre
    <3> QED BY <2>1, <2>3, <3>1 DEF Initials
  <2> QED BY <2>2, <2>3, FirstBy
<1>12. ASSUME IsPrefix(<<"m","e","m">>, b)
      PROVE  FirstTest(b, 13)
  <2>1. /\ Len(b) >= 3
        /\ b[1] = "m" /\ b[2] = "e" /\ b[3] = "m"
    BY <1>12, Starts3
  <2>2. Matches(13, b)
    <3>1. /\ Len(b) >= 2
          /\ b[1] = "m" /\ b[2] = "e"
      BY <2>1
    <3> QED BY <3>1, MatchesAre
  <2>3. ASSUME NEW u \in 1..21, Matches(u, b), u < 13 PROVE FALSE
    <3>1. Initials(u, b)
      BY <2>3, InitialsAre
    <3> QED BY <2>1, <2>3, <3>1 DEF Initials
  <2> QED BY <2>2, <2>3, FirstBy
<1>13. ASSUME IsPrefix(<<"l","s","p","c","i">>, b)
      PROVE  FirstTest(b, 14)
  <2>1. /\ Len(b) >= 5
        /\ b[1] = "l" /\ b[2] = "s" /\ b[3] = "p" /\ b[4] = "c"
        /\ b[5] = "i"
    BY <1>13, Starts5
  <2>2. Matches(14, b)
    <3>1. /\ Len(b) >= 2
          /\ b[1] = "l" /\ b[2] = "s"
      BY <2>1
    <3> QED BY <3>1, MatchesAre
  <2>3. ASSUME NEW u \in 1..21, Matches(u, b), u < 14 PROVE FALSE
    <3>1. Initials(u, b)
      BY <2>3, InitialsAre
    <3> QED BY <2>1, <2>3, <3>1 DEF Initials
  <2> QED BY <2>2, <2>3, FirstBy
<1>14. ASSUME IsPrefix(<<"a","r","c","h">>, b)
      PROVE  FirstTest(b, 15)
  <2>1. /\ Len(b) >= 4
        /\ b[1] = "a" /\ b[2] = "r" /\ b[3] = "c" /\ b[4] = "h"
    BY <1>14, Starts4
  <2>2. Matches(15, b)
    <3>1. /\ Len(b) >= 2
          /\ b[1] = "a" /\ b[2] = "r"
      BY <2>1
    <3> QED BY <3>1, MatchesAre
  <2>3. ASSUME NEW u \in 1..21, Matches(u, b), u < 15 PROVE FALSE
    <3>1. Initials(u, b)
      BY <2>3, InitialsAre
    <3> QED BY <2>1, <2>3, <3>1 DEF Initials
  <2> QED BY <2>2, <2>3, FirstBy
<1>15. ASSUME IsPrefix(<<"g","r","o","o","v","e">>, b)
      PROVE  FirstTest(b, 16)
  <2>1. /\ Len(b) >= 6
        /\ b[1] = "g" /\ b[2] = "r" /\ b[3] = "o" /\ b[4] = "o"
        /\ b[5] = "v" /\ b[6] = "e"
    BY <1>15, Starts6
  <2>2. Matches(16, b)
    <3>1. /\ Len(b) >= 2
          /\ b[1] = "g" /\ b[2] = "r"
      BY <2>1
    <3> QED BY <3>1, MatchesAre
  <2>3. ASSUME NEW u \in 1..21, Matches(u, b), u < 16 PROVE FALSE
    <3>1. Initials(u, b)
      BY <2>3, InitialsAre
    <3> QED BY <2>1, <2>3, <3>1 DEF Initials
  <2> QED BY <2>2, <2>3, FirstBy
<1>16. ASSUME IsPrefix(<<"t","o","n","e">>, b)
      PROVE  FirstTest(b, 18)
  <2>1. /\ Len(b) >= 4
        /\ b[1] = "t" /\ b[2] = "o" /\ b[3] = "n" /\ b[4] = "e"
    BY <1>16, Starts4
  <2>2. Matches(18, b)
    <3>1. /\ Len(b) >= 2
          /\ b[1] = "t" /\ b[2] = "o"
      BY <2>1
    <3> QED BY <3>1, MatchesAre
  <2>3. ASSUME NEW u \in 1..21, Matches(u, b), u < 18 PROVE FALSE
    <3>1. Initials(u, b)
      BY <2>3, InitialsAre
    <3> QED BY <2>1, <2>3, <3>1 DEF Initials
  <2> QED BY <2>2, <2>3, FirstBy
<1>17. ASSUME IsPrefix(<<"b","e","e","p">>, b)
      PROVE  FirstTest(b, 19)
  <2>1. /\ Len(b) >= 4
        /\ b[1] = "b" /\ b[2] = "e" /\ b[3] = "e" /\ b[4] = "p"
    BY <1>17, Starts4
  <2>2. Matches(19, b)
    <3>1. /\ Len(b) >= 2
          /\ b[1] = "b" /\ b[2] = "e"
      BY <2>1
    <3> QED BY <3>1, MatchesAre
  <2>3. ASSUME NEW u \in 1..21, Matches(u, b), u < 19 PROVE FALSE
    <3>1. Initials(u, b)
      BY <2>3, InitialsAre
    <3> QED BY <2>1, <2>3, <3>1 DEF Initials
  <2> QED BY <2>2, <2>3, FirstBy
<1>18. ASSUME IsPrefix(<<"s","i","g">>, b)
      PROVE  FirstTest(b, 20)
  <2>1. /\ Len(b) >= 3
        /\ b[1] = "s" /\ b[2] = "i" /\ b[3] = "g"
    BY <1>18, Starts3
  <2>2. Matches(20, b)
    <3>1. /\ Len(b) >= 2
          /\ b[1] = "s" /\ b[2] = "i"
      BY <2>1
    <3> QED BY <3>1, MatchesAre
  <2>3. ASSUME NEW u \in 1..21, Matches(u, b), u < 20 PROVE FALSE
    <3>1. Initials(u, b)
      BY <2>3, InitialsAre
    <3> QED BY <2>1, <2>3, <3>1 DEF Initials
  <2> QED BY <2>2, <2>3, FirstBy
<1>19. ASSUME IsPrefix(<<"h","e","l","p">>, b)
      PROVE  FirstTest(b, 21)
  <2>1. /\ Len(b) >= 4
        /\ b[1] = "h" /\ b[2] = "e" /\ b[3] = "l" /\ b[4] = "p"
    BY <1>19, Starts4
  <2>2. Matches(21, b)
    <3>1. /\ Len(b) >= 1
          /\ b[1] = "h"
      BY <2>1
    <3> QED BY <3>1, MatchesAre
  <2>3. ASSUME NEW u \in 1..21, Matches(u, b), u < 21 PROVE FALSE
    <3>1. Initials(u, b)
      BY <2>3, InitialsAre
    <3> QED BY <2>1, <2>3, <3>1 DEF Initials
  <2> QED BY <2>2, <2>3, FirstBy
<1>20. ASSUME IsPrefix(<<"p","s">>, b), b[3] = SPACE, Len(b) >= 3
      PROVE  FirstTest(b, 5)
  <2>1. /\ Len(b) >= 2
        /\ b[1] = "p" /\ b[2] = "s"
    BY <1>20, Starts2
  <2>2. Matches(5, b)
    <3>1. /\ Len(b) >= 3
          /\ b[1] = "p" /\ b[2] = "s" /\ b[3] = SPACE
      BY <1>20, <2>1
    <3> QED BY <3>1, MatchesAre
  <2>3. ASSUME NEW u \in 1..21, Matches(u, b), u < 5 PROVE FALSE
    <3>1. Initials(u, b)
      BY <2>3, InitialsAre
    <3> QED BY <2>1, <2>3, <3>1 DEF Initials
  <2> QED BY <2>2, <2>3, FirstBy
<1> QED
  BY <1>1, <1>2, <1>3, <1>4, <1>5, <1>6, <1>7, <1>8, <1>9, <1>10, <1>11,
     <1>12, <1>13, <1>14, <1>15, <1>16, <1>17, <1>18, <1>19, <1>20

-----------------------------------------------------------------------------
(***************************************************************************)
(* What dispatch makes of a line whose first word is a verb of `help`.     *)
(***************************************************************************)
LEMMA LettersAreNoSpace ==
  \A c \in {"s", "r", "e", "p", "k", "b", "c", "m", "l", "a", "g", "t", "h"} :
    c # SPACE
BY Zenon DEF SPACE

(* The buffer from a cell on                                               *)
LEMMA RestIs ==
  ASSUME NEW b, NEW n, Holds(b, n), NEW p \in 1..n+1
  PROVE  /\ SubSeq(b, p, Len(b)) \in Seq(Chars \cup {NUL, GARBAGE})
         /\ Len(SubSeq(b, p, Len(b))) = Len(b) - p + 1
         /\ \A i \in 1..Len(b)-p+1 : SubSeq(b, p, Len(b))[i] = b[p + i - 1]
<1> DEFINE S == Chars \cup {NUL, GARBAGE}
           N == Len(b)
<1>1. /\ n \in Nat /\ n < N /\ N \in Nat /\ b \in Seq(S)
      /\ p \in Nat /\ p >= 1 /\ p <= N
  BY HoldsSeq
<1>2. \A i \in p..N : b[i] \in S
  <2>1. \A i \in p..N : i \in 1..Len(b)
    BY <1>1
  <2> HIDE DEF S
  <2> QED BY <1>1, <2>1, ElementOfSeq
<1> HIDE DEF S, N
<1>3. /\ SubSeq(b, p, N) \in Seq(S)
      /\ Len(SubSeq(b, p, N)) = IF p <= N THEN N - p + 1 ELSE 0
      /\ \A i \in 1..N-p+1 : SubSeq(b, p, N)[i] = b[p + i - 1]
  BY <1>1, <1>2, SubSeqProperties
<1> QED
  BY <1>1, <1>3 DEF S, N

LEMMA Dispatched ==
  ASSUME NEW b, NEW n, Holds(b, n),
         NEW p, p = skip_spaces(b, 1), b[p] # NUL,
         NEW k \in 1..21, FirstTest(SubSeq(b, p, Len(b)), k)
  PROVE  /\ dispatch(b).cmd = Tests[k].cmd
         /\ Tests[k].offset # 0 =>
              dispatch(b).arg = TextFrom(b, skip_spaces(b, p + Tests[k].offset))
<1> DEFINE rest  == SubSeq(b, p, Len(b))
           hits  == {t \in DOMAIN Tests : IsPrefix(Tests[t].letters, rest)}
           first == CHOOSE t \in hits : \A u \in hits : t <= u
<1> HIDE DEF rest
<1>3. \A u \in 1..21 : u \in hits <=> Matches(u, rest)
  BY TestsAre DEF Matches
<1>4. hits \subseteq 1..21
  BY TestsAre
<1>5. k \in hits /\ \A u \in hits : k <= u
  <2>0. FirstTest(rest, k)
    BY DEF rest
  <2>1. k \in hits
    BY <1>3, <2>0 DEF FirstTest
  <2>2. ASSUME NEW u \in hits PROVE k <= u
    <3>1. u \in 1..21 /\ Matches(u, rest)
      BY <1>3, <1>4, <2>2
    <3>2. u \notin 1..k-1
      BY <2>0, <3>1 DEF FirstTest
    <3> QED BY <3>1, <3>2
  <2> QED BY <2>1, <2>2
<1>6. first = k
  <2> HIDE DEF hits
  <2>1. ASSUME NEW t \in hits, \A u \in hits : t <= u PROVE t = k
    <3>1. t <= k /\ k <= t /\ t \in 1..21
      BY <1>4, <1>5, <2>1
    <3> QED BY <3>1
  <2> QED BY <1>5, <2>1
<1>7. hits # {}
  <2> HIDE DEF hits
  <2> QED BY <1>5
<1>8. dispatch(b) =
        [cmd |-> Tests[k].cmd,
         arg |-> IF Tests[k].offset = 0 THEN <<>>
                 ELSE TextFrom(b, skip_spaces(b, p + Tests[k].offset))]
  <2> DEFINE q   == skip_spaces(b, 1)
             met == {t \in DOMAIN Tests : IsPrefix(Tests[t].letters,
                                                   SubSeq(b, q, Len(b)))}
             one == CHOOSE t \in met : \A u \in met : t <= u
  <2>1. dispatch(b) =
          IF b[q] = NUL THEN [cmd |-> "none", arg |-> <<>>]
          ELSE IF met = {} THEN [cmd |-> "unknown", arg |-> <<>>]
          ELSE [cmd |-> Tests[one].cmd,
                arg |-> IF Tests[one].offset = 0 THEN <<>>
                        ELSE TextFrom(b, skip_spaces(b, q + Tests[one].offset))]
    BY Zenon DEF dispatch
  <2>2. q = p
    OBVIOUS
  <2> HIDE DEF q
  <2>3. met = hits
    BY <2>2 DEF rest
  <2>4. one = k
    <3> HIDE DEF met, hits
    <3> QED BY <1>6, <2>3
  <2> HIDE DEF hits, met, one
  <2> QED BY <1>7, <2>1, <2>2, <2>3, <2>4
<1> QED
  BY <1>8

(* The line that a buffer holds                                            *)
LEMMA LineIs ==
  ASSUME NEW b, NEW n, Holds(b, n)
  PROVE  /\ SubSeq(b, 1, n) \in Seq(Chars \cup {NUL, GARBAGE})
         /\ Len(SubSeq(b, 1, n)) = n
         /\ \A i \in 1..n : SubSeq(b, 1, n)[i] = b[i]
<1> DEFINE S == Chars \cup {NUL, GARBAGE}
<1>1. n \in Nat /\ n \in Int /\ 1 \in Int /\ n < Len(b) /\ Len(b) \in Nat
      /\ b \in Seq(S)
  BY HoldsSeq
<1> HIDE DEF S
<1>2. \A i \in 1..n : b[i] \in S
  BY <1>1, ElementOfSeq
<1>3. /\ SubSeq(b, 1, n) \in Seq(S)
      /\ Len(SubSeq(b, 1, n)) = IF 1 <= n THEN n - 1 + 1 ELSE 0
      /\ \A i \in 1..n-1+1 : SubSeq(b, 1, n)[i] = b[1 + i - 1]
  BY <1>1, <1>2, SubSeqProperties
<1>4. Len(SubSeq(b, 1, n)) = n
  BY <1>1, <1>3
<1>5. \A i \in 1..n : SubSeq(b, 1, n)[i] = b[i]
  <2>1. \A i \in 1..n : i \in 1..n-1+1 /\ 1 + i - 1 = i
    BY <1>1
  <2> QED BY <1>3, <2>1
<1> QED
  BY <1>3, <1>4, <1>5 DEF S

(* A line that names a verb: behind the spaces before it dispatch sees the *)
(* verb, and behind the verb a space or the end.                           *)
Seen(b, n, j, v) ==
  /\ skip_spaces(b, 1) = j + 1 /\ j + 1 \in 1..n+1 /\ b[j + 1] # NUL
  /\ j + Len(v) <= n
  /\ j + Len(v) < n => b[j + Len(v) + 1] = SPACE
  /\ IsPrefix(v, SubSeq(b, j + 1, Len(b)))
  /\ Len(SubSeq(b, j + 1, Len(b))) >= Len(v) + 1
  /\ \/ SubSeq(b, j + 1, Len(b))[Len(v) + 1] = SPACE
     \/ SubSeq(b, j + 1, Len(b))[Len(v) + 1] = NUL

LEMMA Named ==
  ASSUME NEW b, NEW n, Holds(b, n), NEW T, NEW v \in Seq(T),
         Len(v) >= 1, v[1] # SPACE,
         NEW j \in 0..n, Names(SubSeq(b, 1, n), j, v)
  PROVE  Seen(b, n, j, v)
<1> DEFINE S    == Chars \cup {NUL, GARBAGE}
           line == SubSeq(b, 1, n)
           m    == Len(v)
           N    == Len(b)
           s    == skip_spaces(b, 1)
           rest == SubSeq(b, j + 1, Len(b))
<1>1. /\ n \in Nat /\ n < N /\ N \in Nat
      /\ \A i \in 1..n : b[i] # NUL
      /\ b[n + 1] = NUL
  BY HoldsSeq
<1>2. /\ Len(line) = n
      /\ \A i \in 1..n : line[i] = b[i]
  BY LineIs
<1>3. m \in Nat /\ m >= 1 /\ j \in Nat
  BY LenProperties
<1>4. /\ j + m <= n
      /\ \A i \in 1..j : line[i] = SPACE
      /\ \A i \in 1..m : line[j + i] = v[i]
      /\ j + m < n => line[j + m + 1] = SPACE
  <2> HIDE DEF line
  <2>1. Names(line, j, v)
    BY DEF line
  <2> QED BY <1>2, <2>1 DEF Names
<1>5. v[1] # SPACE
  OBVIOUS
<1> HIDE DEF line, m, N
<1>6. /\ \A i \in 1..j : b[i] = SPACE
      /\ \A i \in 1..m : b[j + i] = v[i]
      /\ j + m < n => b[j + m + 1] = SPACE
  <2>1. \A i \in 1..j : i \in 1..n
    BY <1>1, <1>3, <1>4
  <2>2. \A i \in 1..m : j + i \in 1..n
    BY <1>1, <1>3, <1>4
  <2>3. j + m < n => j + m + 1 \in 1..n
    BY <1>1, <1>3
  <2> QED BY <1>2, <1>4, <2>1, <2>2, <2>3
<1>7. j + 1 \in 1..n /\ b[j + 1] = v[1]
  <2>1. 1 \in 1..m
    BY <1>3
  <2> QED BY <1>1, <1>3, <1>4, <1>6, <2>1
<1>8. b[j + 1] # SPACE /\ b[j + 1] # NUL
  BY <1>1, <1>5, <1>7
<1>9. s = j + 1
  <2>1. 1 \in 1..n+1
    BY <1>1
  <2>2. /\ s \in 1..n+1 /\ b[s] # SPACE
        /\ \A i \in 1..s-1 : b[i] = SPACE
    BY <2>1, SkipIs
  <2> HIDE DEF s
  <2>3. ~ (s <= j)
    BY <1>1, <1>3, <1>6, <2>2
  <2>4. ~ (j + 1 < s)
    <3>1. j + 1 < s => j + 1 \in 1..s-1
      BY <1>1, <1>3, <2>2
    <3> QED BY <1>8, <2>2, <3>1
  <2> QED BY <1>1, <1>3, <2>2, <2>3, <2>4
<1>10. /\ rest \in Seq(S)
       /\ Len(rest) = N - (j + 1) + 1
       /\ \A i \in 1..N-(j+1)+1 : rest[i] = b[(j + 1) + i - 1]
  <2>1. j + 1 \in 1..n+1
    BY <1>1, <1>7
  <2> DEFINE p == j + 1
  <2>2. p \in 1..n+1
    BY <2>1
  <2> HIDE DEF p
  <2>3. /\ SubSeq(b, p, Len(b)) \in Seq(S)
        /\ Len(SubSeq(b, p, Len(b))) = Len(b) - p + 1
        /\ \A i \in 1..Len(b)-p+1 : SubSeq(b, p, Len(b))[i] = b[p + i - 1]
    BY <2>2, RestIs
  <2> QED BY <2>3 DEF p, N
<1> HIDE DEF rest, S, s
<1>11. /\ Len(rest) = N - j
       /\ \A i \in 1..N-j : rest[i] = b[j + i]
  <2>1. N - (j + 1) + 1 = N - j
    BY <1>1, <1>3
  <2>2. \A i \in 1..N-j : (j + 1) + i - 1 = j + i
    BY <1>1, <1>3
  <2> QED BY <1>10, <2>1, <2>2
<1>12. m + 1 \in 1..N-j
  BY <1>1, <1>3, <1>4
<1>13. IsPrefix(v, rest)
  <2>1. m <= Len(rest)
    BY <1>1, <1>3, <1>11, <1>12
  <2>2. \A i \in 1..m : i \in 1..N-j
    BY <1>1, <1>3, <1>12
  <2>3. \A i \in 1..m : v[i] = rest[i]
    BY <1>6, <1>11, <2>2
  <2> QED BY <1>10, <2>1, <2>3, Starts DEF m
<1>14. rest[m + 1] = b[j + m + 1]
  <2>1. j + (m + 1) = j + m + 1
    BY <1>3
  <2> QED BY <1>11, <1>12, <2>1
<1>15. b[j + m + 1] = SPACE \/ b[j + m + 1] = NUL
  <2>1. j + m < n \/ j + m + 1 = n + 1
    BY <1>1, <1>3, <1>4
  <2> QED BY <1>1, <1>6, <2>1
<1>16. Len(rest) >= m + 1
  BY <1>1, <1>3, <1>11, <1>12
<1>17. j + 1 \in 1..n+1
  BY <1>1, <1>7
<1> QED
  BY <1>4, <1>6, <1>8, <1>9, <1>13, <1>14, <1>15, <1>16, <1>17
  DEF Seen, m, rest, s

(* What a command is given that reads its argument behind the verb         *)
LEMMA ArgumentRead ==
  ASSUME NEW b, NEW n, Holds(b, n), NEW a \in Nat, a <= n,
         NEW o \in {a, a + 1}, a < n => b[a + 1] = SPACE, o <= n
  PROVE  Argument(SubSeq(b, 1, n), a, TextFrom(b, skip_spaces(b, 1 + o)))
<1> DEFINE S    == Chars \cup {NUL, GARBAGE}
           line == SubSeq(b, 1, n)
           s    == skip_spaces(b, 1 + o)
<1>1. /\ n \in Nat /\ n < Len(b) /\ Len(b) \in Nat /\ b \in Seq(S)
      /\ \A i \in 1..n : b[i] # NUL
  BY HoldsSeq
<1>2. /\ line \in Seq(S) /\ Len(line) = n
      /\ \A i \in 1..n : line[i] = b[i]
  BY LineIs
<1> HIDE DEF S, line
<1>3. (o = a \/ o = a + 1) /\ o \in Nat /\ 1 + o \in 1..n+1
  BY <1>1
<1>4. /\ s \in 1+o..n+1 /\ b[s] # SPACE
      /\ \A i \in 1+o..s-1 : b[i] = SPACE
  BY <1>3, SkipIs
<1> HIDE DEF s
<1>5. s \in 1..n+1 /\ s \in Nat /\ s - 1 \in a..n /\ (s - 1) + 1 = s
  <2>1. o >= a
    BY <1>3
  <2> QED BY <1>1, <1>3, <1>4, <2>1
<1>6. TextFrom(b, s) = SubSeq(b, s, n)
  BY <1>5, TextIs
<1>7. SubSeq(b, s, n) = SubSeq(line, s, n)
  <2>1. \A i \in s..n : b[i] \in S /\ line[i] = b[i]
    BY <1>1, <1>2, <1>5, ElementOfSeq
  <2>2. /\ SubSeq(b, s, n) \in Seq(S)
        /\ Len(SubSeq(b, s, n)) = IF s <= n THEN n - s + 1 ELSE 0
        /\ \A i \in 1..n-s+1 : SubSeq(b, s, n)[i] = b[s + i - 1]
    BY <1>1, <1>5, <2>1, SubSeqProperties
  <2>3. /\ SubSeq(line, s, n) \in Seq(S)
        /\ Len(SubSeq(line, s, n)) = IF s <= n THEN n - s + 1 ELSE 0
        /\ \A i \in 1..n-s+1 : SubSeq(line, s, n)[i] = line[s + i - 1]
    BY <1>1, <1>5, <2>1, SubSeqProperties
  <2> DEFINE x == SubSeq(b, s, n)
             y == SubSeq(line, s, n)
  <2>4. x \in Seq(S) /\ y \in Seq(S) /\ Len(x) = Len(y)
    BY <2>2, <2>3
  <2>5. ASSUME NEW i \in 1..Len(x) PROVE x[i] = y[i]
    <3>1. i \in 1..n-s+1 /\ s + i - 1 \in s..n
      BY <1>1, <1>5, <2>2
    <3> QED BY <2>1, <2>2, <2>3, <3>1
  <2> HIDE DEF x, y
  <2>6. x = y
    BY <2>4, <2>5, SeqEqual
  <2> QED BY <2>6 DEF x, y
<1>8. \A i \in a+1..s-1 : line[i] = SPACE
  <2>1. ASSUME NEW i \in a+1..s-1 PROVE line[i] = SPACE
    <3>1. i \in 1..n /\ ((i = a + 1 /\ a < n) \/ i \in 1+o..s-1)
      BY <1>1, <1>3, <1>5, <2>1
    <3> QED BY <1>2, <1>4, <3>1
  <2> QED BY <2>1
<1>9. s - 1 < n => line[s] # SPACE
  <2>1. s - 1 < n => s \in 1..n
    BY <1>1, <1>5
  <2> QED BY <1>2, <1>4, <2>1
<1>10. Argument(line, a, TextFrom(b, s))
  <2>1. TextFrom(b, s) = SubSeq(line, s, n)
    BY <1>6, <1>7
  <2> DEFINE j == s - 1
  <2>2. j \in a..n /\ j + 1 = s
    BY <1>5
  <2> HIDE DEF j
  <2>3. /\ \A i \in a+1..j : line[i] = SPACE
        /\ j < n => line[j + 1] # SPACE
        /\ TextFrom(b, s) = SubSeq(line, j + 1, n)
    BY <1>8, <1>9, <2>1, <2>2 DEF j
  <2>4. Len(line) = n
    BY <1>2
  <2> QED BY <2>2, <2>3, <2>4 DEF Argument
<1> QED
  BY <1>10 DEF line, s

(* What `help` says of a command, for the line that was typed and what     *)
(* dispatch made of it                                                     *)
KeepsHelp(line, d, h) ==
  \A k \in 0..Len(line) :
    h.cmd # "cmd_stopgroove" /\ Names(line, k, h.verb) =>
      /\ d.cmd = h.cmd
      /\ TakesArgument(line, k, h) => Argument(line, k + Len(h.verb), d.arg)

(* What has to be shown of a line, for a command of `help` with its test.  *)
(* The argument is read right behind the verb, or for `restart` one cell   *)
(* further on.                                                             *)
Met(h, r, k) ==
  /\ k \in 1..21 /\ Tests[k].cmd = h.cmd /\ FirstTest(r, k)
  /\ h.arg => \/ Tests[k].offset = Len(h.verb)
              \/ Tests[k].offset = Len(h.verb) + 1 /\ h.cmd = "cmd_restart"

LEMMA KeptIfMet ==
  ASSUME NEW b, NEW n, Holds(b, n), NEW T, NEW h, h.verb \in Seq(T),
         Len(h.verb) >= 1, h.verb[1] # SPACE,
         \A r \in Seq(Chars \cup {NUL, GARBAGE}) :
           /\ IsPrefix(h.verb, r) /\ Len(r) >= Len(h.verb) + 1
           /\ r[Len(h.verb) + 1] = SPACE \/ r[Len(h.verb) + 1] = NUL
           => \E k : Met(h, r, k)
  PROVE  KeepsHelp(SubSeq(b, 1, n), dispatch(b), h)
<1> DEFINE v    == h.verb
           line == SubSeq(b, 1, n)
           m    == Len(h.verb)
<1>1. Len(line) = n /\ n \in Nat /\ m \in Nat /\ m >= 1
  BY LineIs, HoldsSeq, LenProperties
<1>2. ASSUME NEW j \in 0..n, Names(line, j, v)
      PROVE  /\ dispatch(b).cmd = h.cmd
             /\ TakesArgument(line, j, h) =>
                  Argument(line, j + m, dispatch(b).arg)
  <2> DEFINE r == SubSeq(b, j + 1, Len(b))
  <2>1. /\ skip_spaces(b, 1) = j + 1 /\ j + 1 \in 1..n+1 /\ b[j + 1] # NUL
        /\ j + m <= n
        /\ j + m < n => b[j + m + 1] = SPACE
        /\ IsPrefix(v, r) /\ Len(r) >= m + 1
        /\ r[m + 1] = SPACE \/ r[m + 1] = NUL
    <3> HIDE DEF v
    <3>1. /\ v \in Seq(T) /\ Len(v) >= 1 /\ v[1] # SPACE
          /\ Names(SubSeq(b, 1, n), j, v)
      BY <1>2 DEF v
    <3>2. Seen(b, n, j, v)
      BY <3>1, Named
    <3> QED BY <3>2 DEF Seen, v
  <2>2. r \in Seq(Chars \cup {NUL, GARBAGE})
    <3> DEFINE p == j + 1
    <3>1. p \in 1..n+1
      BY <2>1
    <3> HIDE DEF p
    <3>2. SubSeq(b, p, Len(b)) \in Seq(Chars \cup {NUL, GARBAGE})
      BY <3>1, RestIs
    <3> QED BY <3>2 DEF p
  <2> HIDE DEF r, m, v
  <2>3. PICK k : Met(h, r, k)
    BY <2>1, <2>2 DEF m, v
  <2>4. /\ dispatch(b).cmd = Tests[k].cmd
        /\ Tests[k].offset # 0 => dispatch(b).arg =
             TextFrom(b, skip_spaces(b, (j + 1) + Tests[k].offset))
    <3> DEFINE p == j + 1
    <3>1. /\ p = skip_spaces(b, 1) /\ b[p] # NUL
          /\ FirstTest(SubSeq(b, p, Len(b)), k) /\ k \in 1..21
      BY <2>1, <2>3 DEF Met, r
    <3> HIDE DEF p
    <3>2. /\ dispatch(b).cmd = Tests[k].cmd
          /\ Tests[k].offset # 0 =>
               dispatch(b).arg =
                 TextFrom(b, skip_spaces(b, p + Tests[k].offset))
      BY <3>1, Dispatched
    <3> QED BY <3>2 DEF p
  <2>5. ASSUME TakesArgument(line, j, h)
        PROVE  Argument(line, j + m, dispatch(b).arg)
    <3> DEFINE o == Tests[k].offset
               a == j + m
    <3>1. h.arg /\ (h.cmd # "cmd_restart" \/ a < n)
      BY <1>1, <2>5 DEF TakesArgument, m
    <3>2. o = m \/ (o = m + 1 /\ a < n)
      BY <2>3, <3>1 DEF Met, m
    <3> HIDE DEF o
    <3>7. /\ n \in Nat /\ m \in Nat /\ m >= 1 /\ j \in Nat /\ a <= n
          /\ a = j + m
      BY <1>1, <2>1
    <3>8. a < n => b[a + 1] = SPACE
      BY <2>1
    <3> HIDE DEF a
    <3>3. /\ o # 0 /\ (j + 1) + o = 1 + (j + o)
          /\ a \in Nat /\ a <= n /\ j + o \in {a, a + 1} /\ j + o <= n
      <4>1. CASE o = m
        BY <3>7, <4>1
      <4>2. CASE o = m + 1 /\ a < n
        BY <3>7, <4>2
      <4> QED BY <3>2, <4>1, <4>2
    <3> DEFINE oo == j + o
    <3> HIDE DEF oo, a
    <3>4. /\ a \in Nat /\ a <= n /\ oo \in {a, a + 1} /\ oo <= n
          /\ a < n => b[a + 1] = SPACE
      BY <3>3, <3>8 DEF oo
    <3>5. Argument(SubSeq(b, 1, n), a, TextFrom(b, skip_spaces(b, 1 + oo)))
      BY <3>4, ArgumentRead
    <3>6. dispatch(b).arg = TextFrom(b, skip_spaces(b, 1 + oo))
      BY <2>4, <3>3 DEF o, oo
    <3> QED BY <3>5, <3>6 DEF a
  <2> QED BY <2>3, <2>4, <2>5 DEF Met
<1> QED
  BY <1>1, <1>2 DEF KeepsHelp

LEMMA HelpIsKeptBy ==
  ASSUME NEW b, NEW n, Holds(b, n), NEW h \in Help
  PROVE  KeepsHelp(SubSeq(b, 1, n), dispatch(b), h)
<1> DEFINE Kept(g) == KeepsHelp(SubSeq(b, 1, n), dispatch(b), g)
<1> DEFINE spawn   == [verb |-> <<"s","p","a","w","n">>,
                       cmd |-> "cmd_spawn", arg |-> TRUE]
           rspawn  == [verb |-> <<"r","s","p","a","w","n">>,
                       cmd |-> "cmd_rspawn", arg |-> TRUE]
           eval    == [verb |-> <<"e","v","a","l">>,
                       cmd |-> "cmd_eval", arg |-> TRUE]
           ps      == [verb |-> <<"p","s">>,
                       cmd |-> "cmd_ps", arg |-> FALSE]
           kill    == [verb |-> <<"k","i","l","l">>,
                       cmd |-> "cmd_kill", arg |-> TRUE]
           restart == [verb |-> <<"r","e","s","t","a","r","t">>,
                       cmd |-> "cmd_restart", arg |-> TRUE]
           reset   == [verb |-> <<"r","e","s","e","t">>,
                       cmd |-> "cmd_reset", arg |-> FALSE]
           bootleg == [verb |-> <<"b","o","o","t","l","e","g">>,
                       cmd |-> "cmd_bootleg", arg |-> FALSE]
           status  == [verb |-> <<"s","t","a","t","u","s">>,
                       cmd |-> "cmd_status", arg |-> FALSE]
           clear   == [verb |-> <<"c","l","e","a","r">>,
                       cmd |-> "cmd_clear", arg |-> FALSE]
           echo    == [verb |-> <<"e","c","h","o">>,
                       cmd |-> "cmd_echo", arg |-> TRUE]
           mem     == [verb |-> <<"m","e","m">>,
                       cmd |-> "cmd_mem", arg |-> FALSE]
           lspci   == [verb |-> <<"l","s","p","c","i">>,
                       cmd |-> "cmd_lspci", arg |-> FALSE]
           arch    == [verb |-> <<"a","r","c","h">>,
                       cmd |-> "cmd_arch", arg |-> FALSE]
           groove  == [verb |-> <<"g","r","o","o","v","e">>,
                       cmd |-> "cmd_groove", arg |-> FALSE]
           tone    == [verb |-> <<"t","o","n","e">>,
                       cmd |-> "cmd_tone", arg |-> TRUE]
           beep    == [verb |-> <<"b","e","e","p">>,
                       cmd |-> "cmd_beep", arg |-> FALSE]
           sig     == [verb |-> <<"s","i","g">>,
                       cmd |-> "cmd_schema_audio", arg |-> TRUE]
           help    == [verb |-> <<"h","e","l","p">>,
                       cmd |-> "cmd_help", arg |-> FALSE]
           stop    == [verb |-> <<"s","t","o","p">>,
                       cmd |-> "cmd_stopgroove", arg |-> FALSE]
           Follows(g, r) ==
             /\ IsPrefix(g.verb, r) /\ Len(r) >= Len(g.verb) + 1
             /\ r[Len(g.verb) + 1] = SPACE \/ r[Len(g.verb) + 1] = NUL
           S       == Chars \cup {NUL, GARBAGE}
<1>1. ASSUME NEW g, g = spawn PROVE Kept(g)
  <2>1. /\ g.verb \in Seq({"s", "p", "a", "w", "n"})
        /\ Len(g.verb) = 5 /\ Len(g.verb) >= 1
        /\ g.verb[1] = "s" /\ g.arg = TRUE
    BY <1>1
  <2>2. g.verb[1] # SPACE
    BY <2>1, LettersAreNoSpace
  <2>3. ASSUME NEW r \in Seq(S), Follows(g, r) PROVE \E k : Met(g, r, k)
    <3>1. FirstTest(r, 1)
      BY <1>1, <2>3, VerbsAreMet
    <3>2. Met(g, r, 1)
      BY <1>1, <2>1, <3>1, TestsAre DEF Test, Met
    <3> QED BY <3>2
  <2> QED BY <2>1, <2>2, <2>3, KeptIfMet
<1>2. ASSUME NEW g, g = rspawn PROVE Kept(g)
  <2>1. /\ g.verb \in Seq({"r", "s", "p", "a", "w", "n"})
        /\ Len(g.verb) = 6 /\ Len(g.verb) >= 1
        /\ g.verb[1] = "r" /\ g.arg = TRUE
    BY <1>2
  <2>2. g.verb[1] # SPACE
    BY <2>1, LettersAreNoSpace
  <2>3. ASSUME NEW r \in Seq(S), Follows(g, r) PROVE \E k : Met(g, r, k)
    <3>1. FirstTest(r, 2)
      BY <1>2, <2>3, VerbsAreMet
    <3>2. Met(g, r, 2)
      BY <1>2, <2>1, <3>1, TestsAre DEF Test, Met
    <3> QED BY <3>2
  <2> QED BY <2>1, <2>2, <2>3, KeptIfMet
<1>3. ASSUME NEW g, g = eval PROVE Kept(g)
  <2>1. /\ g.verb \in Seq({"e", "v", "a", "l"})
        /\ Len(g.verb) = 4 /\ Len(g.verb) >= 1
        /\ g.verb[1] = "e" /\ g.arg = TRUE
    BY <1>3
  <2>2. g.verb[1] # SPACE
    BY <2>1, LettersAreNoSpace
  <2>3. ASSUME NEW r \in Seq(S), Follows(g, r) PROVE \E k : Met(g, r, k)
    <3>1. FirstTest(r, 4)
      BY <1>3, <2>3, VerbsAreMet
    <3>2. Met(g, r, 4)
      BY <1>3, <2>1, <3>1, TestsAre DEF Test, Met
    <3> QED BY <3>2
  <2> QED BY <2>1, <2>2, <2>3, KeptIfMet
<1>4. ASSUME NEW g, g = ps PROVE Kept(g)
  <2>1. /\ g.verb \in Seq({"p", "s"})
        /\ Len(g.verb) = 2 /\ Len(g.verb) >= 1
        /\ g.verb[1] = "p" /\ g.arg = FALSE
    BY <1>4
  <2>2. g.verb[1] # SPACE
    BY <2>1, LettersAreNoSpace
  <2>3. ASSUME NEW r \in Seq(S), Follows(g, r) PROVE \E k : Met(g, r, k)
    <3>1. /\ IsPrefix(<<"p", "s">>, r) /\ Len(r) >= 3
          /\ r[3] = SPACE \/ r[3] = NUL
      BY <1>4, <2>1, <2>3
    <3>2. CASE r[3] = SPACE
      <4>1. FirstTest(r, 5)
        BY <3>1, <3>2, VerbsAreMet
      <4>2. Met(g, r, 5)
        BY <1>4, <2>1, <4>1, TestsAre DEF Test, Met
      <4> QED BY <4>2
    <3>3. CASE r[3] = NUL
      <4>1. FirstTest(r, 6)
        BY <3>1, <3>3, VerbsAreMet
      <4>2. Met(g, r, 6)
        BY <1>4, <2>1, <4>1, TestsAre DEF Test, Met
      <4> QED BY <4>2
    <3> QED BY <3>1, <3>2, <3>3
  <2> QED BY <2>1, <2>2, <2>3, KeptIfMet
<1>5. ASSUME NEW g, g = kill PROVE Kept(g)
  <2>1. /\ g.verb \in Seq({"k", "i", "l"})
        /\ Len(g.verb) = 4 /\ Len(g.verb) >= 1
        /\ g.verb[1] = "k" /\ g.arg = TRUE
    BY <1>5
  <2>2. g.verb[1] # SPACE
    BY <2>1, LettersAreNoSpace
  <2>3. ASSUME NEW r \in Seq(S), Follows(g, r) PROVE \E k : Met(g, r, k)
    <3>1. FirstTest(r, 7)
      BY <1>5, <2>3, VerbsAreMet
    <3>2. Met(g, r, 7)
      BY <1>5, <2>1, <3>1, TestsAre DEF Test, Met
    <3> QED BY <3>2
  <2> QED BY <2>1, <2>2, <2>3, KeptIfMet
<1>6. ASSUME NEW g, g = restart PROVE Kept(g)
  <2>1. /\ g.verb \in Seq({"r", "e", "s", "t", "a"})
        /\ Len(g.verb) = 7 /\ Len(g.verb) >= 1
        /\ g.verb[1] = "r" /\ g.arg = TRUE
    BY <1>6
  <2>2. g.verb[1] # SPACE
    BY <2>1, LettersAreNoSpace
  <2>3. ASSUME NEW r \in Seq(S), Follows(g, r) PROVE \E k : Met(g, r, k)
    <3>1. FirstTest(r, 3)
      BY <1>6, <2>3, VerbsAreMet
    <3>2. Met(g, r, 3)
      BY <1>6, <2>1, <3>1, TestsAre DEF Test, Met
    <3> QED BY <3>2
  <2> QED BY <2>1, <2>2, <2>3, KeptIfMet
<1>7. ASSUME NEW g, g = reset PROVE Kept(g)
  <2>1. /\ g.verb \in Seq({"r", "e", "s", "t"})
        /\ Len(g.verb) = 5 /\ Len(g.verb) >= 1
        /\ g.verb[1] = "r" /\ g.arg = FALSE
    BY <1>7
  <2>2. g.verb[1] # SPACE
    BY <2>1, LettersAreNoSpace
  <2>3. ASSUME NEW r \in Seq(S), Follows(g, r) PROVE \E k : Met(g, r, k)
    <3>1. FirstTest(r, 8)
      BY <1>7, <2>3, VerbsAreMet
    <3>2. Met(g, r, 8)
      BY <1>7, <2>1, <3>1, TestsAre DEF Test, Met
    <3> QED BY <3>2
  <2> QED BY <2>1, <2>2, <2>3, KeptIfMet
<1>8. ASSUME NEW g, g = bootleg PROVE Kept(g)
  <2>1. /\ g.verb \in Seq({"b", "o", "t", "l", "e", "g"})
        /\ Len(g.verb) = 7 /\ Len(g.verb) >= 1
        /\ g.verb[1] = "b" /\ g.arg = FALSE
    BY <1>8
  <2>2. g.verb[1] # SPACE
    BY <2>1, LettersAreNoSpace
  <2>3. ASSUME NEW r \in Seq(S), Follows(g, r) PROVE \E k : Met(g, r, k)
    <3>1. FirstTest(r, 10)
      BY <1>8, <2>3, VerbsAreMet
    <3>2. Met(g, r, 10)
      BY <1>8, <2>1, <3>1, TestsAre DEF Test, Met
    <3> QED BY <3>2
  <2> QED BY <2>1, <2>2, <2>3, KeptIfMet
<1>9. ASSUME NEW g, g = status PROVE Kept(g)
  <2>1. /\ g.verb \in Seq({"s", "t", "a", "u"})
        /\ Len(g.verb) = 6 /\ Len(g.verb) >= 1
        /\ g.verb[1] = "s" /\ g.arg = FALSE
    BY <1>9
  <2>2. g.verb[1] # SPACE
    BY <2>1, LettersAreNoSpace
  <2>3. ASSUME NEW r \in Seq(S), Follows(g, r) PROVE \E k : Met(g, r, k)
    <3>1. FirstTest(r, 9)
      BY <1>9, <2>3, VerbsAreMet
    <3>2. Met(g, r, 9)
      BY <1>9, <2>1, <3>1, TestsAre DEF Test, Met
    <3> QED BY <3>2
  <2> QED BY <2>1, <2>2, <2>3, KeptIfMet
<1>10. ASSUME NEW g, g = clear PROVE Kept(g)
  <2>1. /\ g.verb \in Seq({"c", "l", "e", "a", "r"})
        /\ Len(g.verb) = 5 /\ Len(g.verb) >= 1
        /\ g.verb[1] = "c" /\ g.arg = FALSE
    BY <1>10
  <2>2. g.verb[1] # SPACE
    BY <2>1, LettersAreNoSpace
  <2>3. ASSUME NEW r \in Seq(S), Follows(g, r) PROVE \E k : Met(g, r, k)
    <3>1. FirstTest(r, 11)
      BY <1>10, <2>3, VerbsAreMet
    <3>2. Met(g, r, 11)
      BY <1>10, <2>1, <3>1, TestsAre DEF Test, Met
    <3> QED BY <3>2
  <2> QED BY <2>1, <2>2, <2>3, KeptIfMet
<1>11. ASSUME NEW g, g = echo PROVE Kept(g)
  <2>1. /\ g.verb \in Seq({"e", "c", "h", "o"})
        /\ Len(g.verb) = 4 /\ Len(g.verb) >= 1
        /\ g.verb[1] = "e" /\ g.arg = TRUE
    BY <1>11
  <2>2. g.verb[1] # SPACE
    BY <2>1, LettersAreNoSpace
  <2>3. ASSUME NEW r \in Seq(S), Follows(g, r) PROVE \E k : Met(g, r, k)
    <3>1. FirstTest(r, 12)
      BY <1>11, <2>3, VerbsAreMet
    <3>2. Met(g, r, 12)
      BY <1>11, <2>1, <3>1, TestsAre DEF Test, Met
    <3> QED BY <3>2
  <2> QED BY <2>1, <2>2, <2>3, KeptIfMet
<1>12. ASSUME NEW g, g = mem PROVE Kept(g)
  <2>1. /\ g.verb \in Seq({"m", "e"})
        /\ Len(g.verb) = 3 /\ Len(g.verb) >= 1
        /\ g.verb[1] = "m" /\ g.arg = FALSE
    BY <1>12
  <2>2. g.verb[1] # SPACE
    BY <2>1, LettersAreNoSpace
  <2>3. ASSUME NEW r \in Seq(S), Follows(g, r) PROVE \E k : Met(g, r, k)
    <3>1. FirstTest(r, 13)
      BY <1>12, <2>3, VerbsAreMet
    <3>2. Met(g, r, 13)
      BY <1>12, <2>1, <3>1, TestsAre DEF Test, Met
    <3> QED BY <3>2
  <2> QED BY <2>1, <2>2, <2>3, KeptIfMet
<1>13. ASSUME NEW g, g = lspci PROVE Kept(g)
  <2>1. /\ g.verb \in Seq({"l", "s", "p", "c", "i"})
        /\ Len(g.verb) = 5 /\ Len(g.verb) >= 1
        /\ g.verb[1] = "l" /\ g.arg = FALSE
    BY <1>13
  <2>2. g.verb[1] # SPACE
    BY <2>1, LettersAreNoSpace
  <2>3. ASSUME NEW r \in Seq(S), Follows(g, r) PROVE \E k : Met(g, r, k)
    <3>1. FirstTest(r, 14)
      BY <1>13, <2>3, VerbsAreMet
    <3>2. Met(g, r, 14)
      BY <1>13, <2>1, <3>1, TestsAre DEF Test, Met
    <3> QED BY <3>2
  <2> QED BY <2>1, <2>2, <2>3, KeptIfMet
<1>14. ASSUME NEW g, g = arch PROVE Kept(g)
  <2>1. /\ g.verb \in Seq({"a", "r", "c", "h"})
        /\ Len(g.verb) = 4 /\ Len(g.verb) >= 1
        /\ g.verb[1] = "a" /\ g.arg = FALSE
    BY <1>14
  <2>2. g.verb[1] # SPACE
    BY <2>1, LettersAreNoSpace
  <2>3. ASSUME NEW r \in Seq(S), Follows(g, r) PROVE \E k : Met(g, r, k)
    <3>1. FirstTest(r, 15)
      BY <1>14, <2>3, VerbsAreMet
    <3>2. Met(g, r, 15)
      BY <1>14, <2>1, <3>1, TestsAre DEF Test, Met
    <3> QED BY <3>2
  <2> QED BY <2>1, <2>2, <2>3, KeptIfMet
<1>15. ASSUME NEW g, g = groove PROVE Kept(g)
  <2>1. /\ g.verb \in Seq({"g", "r", "o", "v", "e"})
        /\ Len(g.verb) = 6 /\ Len(g.verb) >= 1
        /\ g.verb[1] = "g" /\ g.arg = FALSE
    BY <1>15
  <2>2. g.verb[1] # SPACE
    BY <2>1, LettersAreNoSpace
  <2>3. ASSUME NEW r \in Seq(S), Follows(g, r) PROVE \E k : Met(g, r, k)
    <3>1. FirstTest(r, 16)
      BY <1>15, <2>3, VerbsAreMet
    <3>2. Met(g, r, 16)
      BY <1>15, <2>1, <3>1, TestsAre DEF Test, Met
    <3> QED BY <3>2
  <2> QED BY <2>1, <2>2, <2>3, KeptIfMet
<1>16. ASSUME NEW g, g = tone PROVE Kept(g)
  <2>1. /\ g.verb \in Seq({"t", "o", "n", "e"})
        /\ Len(g.verb) = 4 /\ Len(g.verb) >= 1
        /\ g.verb[1] = "t" /\ g.arg = TRUE
    BY <1>16
  <2>2. g.verb[1] # SPACE
    BY <2>1, LettersAreNoSpace
  <2>3. ASSUME NEW r \in Seq(S), Follows(g, r) PROVE \E k : Met(g, r, k)
    <3>1. FirstTest(r, 18)
      BY <1>16, <2>3, VerbsAreMet
    <3>2. Met(g, r, 18)
      BY <1>16, <2>1, <3>1, TestsAre DEF Test, Met
    <3> QED BY <3>2
  <2> QED BY <2>1, <2>2, <2>3, KeptIfMet
<1>17. ASSUME NEW g, g = beep PROVE Kept(g)
  <2>1. /\ g.verb \in Seq({"b", "e", "p"})
        /\ Len(g.verb) = 4 /\ Len(g.verb) >= 1
        /\ g.verb[1] = "b" /\ g.arg = FALSE
    BY <1>17
  <2>2. g.verb[1] # SPACE
    BY <2>1, LettersAreNoSpace
  <2>3. ASSUME NEW r \in Seq(S), Follows(g, r) PROVE \E k : Met(g, r, k)
    <3>1. FirstTest(r, 19)
      BY <1>17, <2>3, VerbsAreMet
    <3>2. Met(g, r, 19)
      BY <1>17, <2>1, <3>1, TestsAre DEF Test, Met
    <3> QED BY <3>2
  <2> QED BY <2>1, <2>2, <2>3, KeptIfMet
<1>18. ASSUME NEW g, g = sig PROVE Kept(g)
  <2>1. /\ g.verb \in Seq({"s", "i", "g"})
        /\ Len(g.verb) = 3 /\ Len(g.verb) >= 1
        /\ g.verb[1] = "s" /\ g.arg = TRUE
    BY <1>18
  <2>2. g.verb[1] # SPACE
    BY <2>1, LettersAreNoSpace
  <2>3. ASSUME NEW r \in Seq(S), Follows(g, r) PROVE \E k : Met(g, r, k)
    <3>1. FirstTest(r, 20)
      BY <1>18, <2>3, VerbsAreMet
    <3>2. Met(g, r, 20)
      BY <1>18, <2>1, <3>1, TestsAre DEF Test, Met
    <3> QED BY <3>2
  <2> QED BY <2>1, <2>2, <2>3, KeptIfMet
<1>19. ASSUME NEW g, g = help PROVE Kept(g)
  <2>1. /\ g.verb \in Seq({"h", "e", "l", "p"})
        /\ Len(g.verb) = 4 /\ Len(g.verb) >= 1
        /\ g.verb[1] = "h" /\ g.arg = FALSE
    BY <1>19
  <2>2. g.verb[1] # SPACE
    BY <2>1, LettersAreNoSpace
  <2>3. ASSUME NEW r \in Seq(S), Follows(g, r) PROVE \E k : Met(g, r, k)
    <3>1. FirstTest(r, 21)
      BY <1>19, <2>3, VerbsAreMet
    <3>2. Met(g, r, 21)
      BY <1>19, <2>1, <3>1, TestsAre DEF Test, Met
    <3> QED BY <3>2
  <2> QED BY <2>1, <2>2, <2>3, KeptIfMet
<1>20. ASSUME NEW g, g = stop PROVE Kept(g)
  BY <1>20 DEF KeepsHelp
<1>21. Help = {spawn, rspawn, eval, ps, kill, restart, reset, bootleg,
               status, clear, echo, mem, lspci, arch, groove, stop, tone,
               beep, sig, help}
  BY DEF Help
<1> HIDE DEF Kept, spawn, rspawn, eval, ps, kill, restart, reset, bootleg,
             status, clear, echo, mem, lspci, arch, groove, stop, tone, beep,
             sig, help
<1>22. Kept(h)
  BY <1>1, <1>2, <1>3, <1>4, <1>5, <1>6, <1>7, <1>8, <1>9, <1>10, <1>11,
     <1>12, <1>13, <1>14, <1>15, <1>16, <1>17, <1>18, <1>19, <1>20, <1>21
<1> QED
  BY <1>22 DEF Kept

-----------------------------------------------------------------------------
(***************************************************************************)
(* The invariant.  Up to the cursor the buffer holds nothing but what was  *)
(* typed: with the NUL of enter that makes it hold a line.                 *)
(***************************************************************************)
Typed == \A i \in 1..pos : buf[i] \in Chars

IInv == TypeOK /\ Typed /\ HelpIsTrue

LEMMA HelpIs ==
  HelpIsTrue <=> \A h \in Help : KeepsHelp(ran.line, ran, h)
BY DEF HelpIsTrue, KeepsHelp

LEMMA NulIsKept == NUL \in Chars \cup {NUL, GARBAGE}
OBVIOUS

LEMMA InitIInv == Init => IInv
<1> SUFFICES ASSUME Init PROVE IInv
  OBVIOUS
<1>0. BUF_LEN \in Nat \ {0} /\ MaxLines \in Nat /\ MaxErased \in Nat
  BY ShellAssumption
<1>1. TypeOK
  BY <1>0 DEF Init, TypeOK
<1>2. Typed
  BY DEF Init, Typed
<1> DEFINE b == [i \in 1..BUF_LEN |-> NUL]
<1>3. Holds(b, 0) /\ b[1] = NUL
  BY <1>0 DEF Holds
<1> HIDE DEF b
<1>4. dispatch(b) = [cmd |-> "none", arg |-> <<>>]
  <2> DEFINE p == skip_spaces(b, 1)
  <2>1. p \in 1..0+1
    BY <1>3, SkipIs
  <2>2. p = 1
    BY <2>1
  <2>3. b[p] = NUL
    BY <1>3, <2>2
  <2> QED BY <2>3 DEF dispatch
<1>5. SubSeq(b, 1, 0) = <<>>
  BY SubSeqEmpty
<1>6. ASSUME NEW h \in Help PROVE KeepsHelp(ran.line, ran, h)
  <2>1. KeepsHelp(SubSeq(b, 1, 0), dispatch(b), h)
    BY <1>3, HelpIsKeptBy
  <2>2. /\ ran.line = SubSeq(b, 1, 0)
        /\ ran.cmd = dispatch(b).cmd /\ ran.arg = dispatch(b).arg
    BY <1>4, <1>5 DEF Init
  <2> QED BY <2>1, <2>2 DEF KeepsHelp
<1> QED
  BY <1>1, <1>2, <1>6, HelpIs DEF IInv

LEMMA TypeKeeps ==
  ASSUME IInv, NEW c \in Chars, type(c)
  PROVE  IInv'
<1>0. BUF_LEN \in Nat \ {0} /\ pos \in 0..BUF_LEN - 1
  BY ShellAssumption DEF IInv, TypeOK
<1>1. TypeOK'
  BY <1>0 DEF IInv, TypeOK, type
<1>2. Typed'
  <2>1. ASSUME NEW i \in 1..pos+1 PROVE buf'[i] \in Chars
    <3>1. i \in 1..BUF_LEN /\ (i = pos + 1 \/ i \in 1..pos)
      BY <1>0 DEF type
    <3> QED BY <3>1 DEF IInv, TypeOK, Typed, type
  <2> QED BY <2>1 DEF Typed, type
<1>3. HelpIsTrue'
  BY DEF IInv, HelpIsTrue, type
<1> QED
  BY <1>1, <1>2, <1>3 DEF IInv

LEMMA EraseKeeps ==
  ASSUME IInv, erase
  PROVE  IInv'
<1>0. BUF_LEN \in Nat \ {0} /\ pos \in 0..BUF_LEN - 1 /\ MaxErased \in Nat
  BY ShellAssumption DEF IInv, TypeOK
<1>1. TypeOK'
  BY <1>0 DEF IInv, TypeOK, erase
<1>2. Typed'
  <2>1. \A i \in 1..pos-1 : i \in 1..pos
    BY <1>0
  <2> QED BY <2>1 DEF IInv, Typed, erase
<1>3. HelpIsTrue'
  BY DEF IInv, HelpIsTrue, erase
<1> QED
  BY <1>1, <1>2, <1>3 DEF IInv

LEMMA EnterKeeps ==
  ASSUME IInv, enter
  PROVE  IInv'
<1> DEFINE S == Chars \cup {NUL, GARBAGE}
           b == [buf EXCEPT ![pos + 1] = NUL]
<1>0. /\ BUF_LEN \in Nat \ {0} /\ pos \in 0..BUF_LEN - 1 /\ MaxLines \in Nat
      /\ buf \in [1..BUF_LEN -> S] /\ pos \in Nat /\ pos \in Int /\ 1 \in Int
  BY ShellAssumption DEF IInv, TypeOK
<1>1. Holds(b, pos)
  <2>1. pos + 1 \in 1..BUF_LEN /\ pos + 1 \notin 1..pos
    BY <1>0
  <2>2. b \in [1..BUF_LEN -> S]
    BY <1>0, NulIsKept
  <2>3. b[pos + 1] = NUL
    BY <1>0, <2>1
  <2>4. \A i \in 1..pos : i \in 1..BUF_LEN /\ b[i] = buf[i]
    BY <1>0, <2>1
  <2> HIDE DEF b
  <2> QED BY <1>0, <2>2, <2>3, <2>4 DEF Holds, IInv, Typed
<1>2. Line = SubSeq(b, 1, pos)
  <2>1. /\ SubSeq(b, 1, pos) \in Seq(S) /\ Len(SubSeq(b, 1, pos)) = pos
        /\ \A i \in 1..pos : SubSeq(b, 1, pos)[i] = b[i]
    BY <1>1, LineIs
  <2>2. \A i \in 1..pos : i \in 1..BUF_LEN /\ b[i] = buf[i] /\ buf[i] \in S
    BY <1>0
  <2> HIDE DEF S, b
  <2>3. /\ SubSeq(buf, 1, pos) \in Seq(S)
        /\ Len(SubSeq(buf, 1, pos)) = IF 1 <= pos THEN pos - 1 + 1 ELSE 0
        /\ \A i \in 1..pos-1+1 : SubSeq(buf, 1, pos)[i] = buf[1 + i - 1]
    BY <1>0, <2>2, SubSeqProperties
  <2>4. Len(SubSeq(buf, 1, pos)) = pos
    BY <1>0, <2>3
  <2>5. \A i \in 1..pos : SubSeq(buf, 1, pos)[i] = SubSeq(b, 1, pos)[i]
    <3>1. \A i \in 1..pos : i \in 1..pos-1+1 /\ 1 + i - 1 = i
      BY <1>0
    <3> QED BY <2>1, <2>2, <2>3, <3>1
  <2> DEFINE x == SubSeq(buf, 1, pos)
             y == SubSeq(b, 1, pos)
  <2>6. /\ x \in Seq(S) /\ y \in Seq(S)
        /\ Len(x) = pos /\ Len(y) = pos
        /\ \A i \in 1..pos : x[i] = y[i]
    BY <2>1, <2>3, <2>4, <2>5
  <2> HIDE DEF x, y
  <2>7. x = y
    BY <2>6, SeqEqual
  <2> QED BY <2>7 DEF Line, x, y
<1> HIDE DEF b
<1>3. /\ buf' = b /\ pos' = 0 /\ entered' = entered + 1 /\ entered < MaxLines
      /\ erased' = erased
      /\ ran' = [line |-> SubSeq(b, 1, pos),
                 cmd |-> dispatch(b).cmd, arg |-> dispatch(b).arg]
  BY <1>2 DEF enter, b
<1>4. TypeOK'
  <2>1. b \in [1..BUF_LEN -> S]
    BY <1>1 DEF Holds
  <2>2. DOMAIN ran' = {"line", "cmd", "arg"}
    BY <1>3
  <2>3. pos' \in 0..BUF_LEN - 1 /\ entered' \in 0..MaxLines
        /\ erased' \in 0..MaxErased
    BY <1>0, <1>3 DEF IInv, TypeOK
  <2> QED BY <1>3, <2>1, <2>2, <2>3 DEF TypeOK
<1>5. Typed'
  BY <1>3 DEF Typed
<1>6. HelpIsTrue'
  <2>1. ASSUME NEW h \in Help PROVE KeepsHelp(ran'.line, ran', h)
    <3>1. KeepsHelp(SubSeq(b, 1, pos), dispatch(b), h)
      BY <1>1, HelpIsKeptBy
    <3>2. /\ ran'.line = SubSeq(b, 1, pos)
          /\ ran'.cmd = dispatch(b).cmd /\ ran'.arg = dispatch(b).arg
      BY <1>3
    <3> QED BY <3>1, <3>2 DEF KeepsHelp
  <2>2. HelpIsTrue' <=> \A h \in Help : KeepsHelp(ran'.line, ran', h)
    BY DEF HelpIsTrue, KeepsHelp
  <2> QED BY <2>1, <2>2
<1> QED
  BY <1>4, <1>5, <1>6 DEF IInv

LEMMA IInvStep == IInv /\ [Next]_vars => IInv'
<1> SUFFICES ASSUME IInv, [Next]_vars PROVE IInv'
  OBVIOUS
<1>1. ASSUME NEW l \in LINES, pos < Len(l), type(l[pos + 1])
      PROVE  IInv'
  <2>1. l \in Seq(Chars)
    BY ShellAssumption
  <2>2. pos + 1 \in 1..Len(l)
    <3>1. pos \in Nat /\ Len(l) \in Nat
      BY <2>1, ShellAssumption, LenProperties DEF IInv, TypeOK
    <3> QED BY <1>1, <3>1
  <2>3. l[pos + 1] \in Chars
    BY <2>1, <2>2, ElementOfSeq
  <2> QED BY <1>1, <2>3, TypeKeeps
<1>2. ASSUME UNCHANGED vars PROVE IInv'
  BY <1>2 DEF vars, IInv, TypeOK, Typed, HelpIsTrue
<1> QED
  BY <1>1, <1>2, EraseKeeps, EnterKeeps DEF Next

THEOREM ShellInvariant == Spec => []IInv
BY InitIInv, IInvStep, PTL DEF Spec

(* The buffer never overflows and always has room for the NUL of the line  *)
(* that is in it, whatever is typed: `pos < BUF_LEN - 1` in shell_run.     *)
THEOREM TypeCorrect == Spec => []TypeOK
<1>1. IInv => TypeOK
  BY DEF IInv
<1> QED
  BY <1>1, ShellInvariant, PTL

(* Every line whose first word `help` lists, with any spaces around it,    *)
(* any argument and after any other lines, reaches the command `help` has  *)
(* for it and gives it the argument that was typed: dispatch's order of    *)
(* tests and fixed offsets, and the NUL that shell_run puts behind the     *)
(* line.  The word `stop` is not among them, nor the argument of `restart` *)
(* when none was typed: there the code does something else.                *)
THEOREM HelpIsKept == Spec => []HelpIsTrue
<1>1. IInv => HelpIsTrue
  BY DEF IInv
<1> QED
  BY <1>1, ShellInvariant, PTL
=============================================================================
