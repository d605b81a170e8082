--------------------------- MODULE VyOSSourceProofs ----------------------------
(***************************************************************************)
(* What the VyOS source answers, for any leases, neighbours and tables.    *)
(*                                                                         *)
(* The argument: the rule of a table has exactly the columns that its      *)
(* fields were printed in (ColumnsOfTable), and what was printed of a row  *)
(* stands under them (LineIs), also when blanks at its end are lost (Cut). *)
(* So a header finds its column and a cell its text (FieldIs, CellOf), and *)
(* a line that ends before a column was cut in an empty last cell          *)
(* (PanicNeedsCutRow).  Lines of neighbours read word by word              *)
(* (NeighborReadsBack).  The inductive invariant then carries what was     *)
(* read from one command to the next.                                      *)
(***************************************************************************)
EXTENDS VyOSSource, WellFoundedInduction, TLAPS

-------------------------------------------------------------------------------
(* Extremes of sets of positions. *)
LEMMA Smallest ==
    ASSUME NEW S, S \subseteq Nat, S # {}
    PROVE  Min(S) \in S /\ \A y \in S : Min(S) <= y
<1>1. PICK k \in S : \A j \in S : ~ (<<j, k>> \in OpToRel(<, Nat))
  BY NatLessThanWellFounded, WFMin
<1>2. \A j \in S : ~(j < k)
  BY <1>1 DEF OpToRel
<1>3. \A j \in S : k <= j
  BY <1>2
<1> QED
  BY <1>3 DEF Min

LEMMA Largest ==
    ASSUME NEW n \in Nat, NEW S, S \subseteq 0..n, S # {}
    PROVE  Max(S) \in S /\ \A y \in S : Max(S) >= y
<1> DEFINE T == {k \in Nat : \E i \in S : i + k = n}
<1>1. ASSUME NEW y \in S PROVE n - y \in T
  <2>1. n - y \in Nat /\ y + (n - y) = n
    OBVIOUS
  <2> QED
    BY <2>1
<1>2. T \subseteq Nat /\ T # {}
  BY <1>1
<1>3. Min(T) \in T /\ \A k \in T : Min(T) <= k
  BY <1>2, Smallest
<1>4. PICK i \in S : i + Min(T) = n
  BY <1>3
<1>5. \A y \in S : i >= y
  BY <1>1, <1>3, <1>4
<1> QED
  BY <1>5 DEF Max

(* Finitely many numbers have a bound. *)
LEMMA Bounded ==
    ASSUME NEW n \in Nat, NEW g, \A k \in 1..n : g[k] \in Nat
    PROVE  \E b \in Nat : \A k \in 1..n : g[k] <= b
<1> DEFINE Has(m) == \E b \in Nat : \A k \in 1..m : g[k] <= b
           Bad == {m \in Nat : m <= n /\ ~Has(m)}
<1>1. Has(0)
  OBVIOUS
<1>2. ASSUME NEW m \in Nat, m < n, Has(m) PROVE Has(m + 1)
  <2>1. PICK b \in Nat : \A k \in 1..m : g[k] <= b
    BY <1>2
  <2>2. g[m + 1] \in Nat
    BY <1>2
  <2>3. b + g[m + 1] \in Nat /\ b <= b + g[m + 1] /\ g[m + 1] <= b + g[m + 1]
    BY <2>2
  <2>4. ASSUME NEW k \in 1..m + 1 PROVE g[k] <= b + g[m + 1]
    <3>1. k \in 1..m \/ k = m + 1
      OBVIOUS
    <3>2. k \in 1..n
      BY <1>2
    <3> QED
      BY <2>1, <2>3, <3>1, <3>2
  <2> QED
    BY <2>3, <2>4
<1> HIDE DEF Has
<1>3. ASSUME Bad # {} PROVE FALSE
  <2>1. Min(Bad) \in Bad /\ \A m \in Bad : Min(Bad) <= m
    BY <1>3, Smallest
  <2>2. PICK m \in Nat : m <= n /\ ~Has(m) /\ \A j \in Bad : m <= j
    BY <2>1
  <2>3. m # 0
    BY <1>1, <2>2
  <2>4. m - 1 \in Nat /\ m - 1 < n /\ ~(m <= m - 1) /\ (m - 1) + 1 = m
    BY <2>2, <2>3
  <2>5. Has(m - 1)
    BY <2>2, <2>4
  <2> QED
    BY <1>2, <2>2, <2>4, <2>5
<1>4. Has(n)
  BY <1>3
<1> QED
  BY <1>4 DEF Has

-------------------------------------------------------------------------------
(* Strings of bytes. *)
Bytes == Seq(Byte)

LEMMA FillIs ==
    ASSUME NEW n \in Nat, NEW with \in Byte
    PROVE  /\ Fill(n, with) \in Bytes
           /\ Len(Fill(n, with)) = n
           /\ \A i \in 1..n : Fill(n, with)[i] = with
BY DEF Fill, Bytes

LEMMA JoinIs ==
    ASSUME NEW s \in Bytes, NEW t \in Bytes
    PROVE  /\ s \o t \in Bytes
           /\ Len(s) \in Nat /\ Len(t) \in Nat
           /\ Len(s \o t) = Len(s) + Len(t)
           /\ \A i \in 1..Len(s) : (s \o t)[i] = s[i]
           /\ \A i \in 1..Len(t) : (s \o t)[Len(s) + i] = t[i]
BY DEF Bytes

LEMMA LenBytes ==
    ASSUME NEW s \in Bytes
    PROVE  Len(s) \in Nat /\ DOMAIN s = 1..Len(s)
BY DEF Bytes

LEMMA BlankAndDash == Blank \in Byte /\ Dash \in Byte /\ Blank # Dash
BY ByteAssumption DEF Blank, Dash

(* Where the bytes of four cells stand in a line of them. *)
Joined(c1, c2, c3, c4) == c1 \o Gap \o c2 \o Gap \o c3 \o Gap \o c4

Spaced(j, c1, c2, c3, c4, a2, a3, a4) ==
    /\ a2 = Len(c1) + 2 /\ a3 = a2 + Len(c2) + 2 /\ a4 = a3 + Len(c3) + 2
    /\ Len(j) = a4 + Len(c4)
    /\ \A i \in 1..Len(c1) : j[i] = c1[i]
    /\ \A i \in 1..Len(c2) : j[a2 + i] = c2[i]
    /\ \A i \in 1..Len(c3) : j[a3 + i] = c3[i]
    /\ \A i \in 1..Len(c4) : j[a4 + i] = c4[i]
    /\ \A i \in 1..2 : /\ j[Len(c1) + i] = Blank
                       /\ j[(a3 - 2) + i] = Blank
                       /\ j[(a4 - 2) + i] = Blank

LEMMA JoinedIs ==
    ASSUME NEW c1 \in Bytes, NEW c2 \in Bytes, NEW c3 \in Bytes, NEW c4 \in Bytes
    PROVE  /\ Joined(c1, c2, c3, c4) \in Bytes
           /\ \E a2 \in Nat, a3 \in Nat, a4 \in Nat :
                 Spaced(Joined(c1, c2, c3, c4), c1, c2, c3, c4, a2, a3, a4)
<1>1. PICK w \in Nat : Gap \in Bytes /\ w = Len(Gap) /\ w = 2 /\ \A i \in 1..w : Gap[i] = Blank
  <2>1. Gap \in Bytes /\ Len(Gap) \in Nat
    BY FillIs, BlankAndDash, LenBytes DEF Gap
  <2>2. Len(Gap) = 2
    BY FillIs, BlankAndDash DEF Gap
  <2>3. \A i \in 1..2 : Gap[i] = Blank
    BY FillIs, BlankAndDash DEF Gap
  <2> QED
    BY <2>1, <2>2, <2>3
<1>g. Gap \in Bytes /\ w = Len(Gap) /\ \A i \in 1..w : Gap[i] = Blank
  BY <1>1
<1>2. PICK n1 \in Nat, n2 \in Nat, n3 \in Nat, n4 \in Nat :
         n1 = Len(c1) /\ n2 = Len(c2) /\ n3 = Len(c3) /\ n4 = Len(c4)
  BY LenBytes
<1> HIDE DEF Gap
<1> DEFINE s1 == c1 \o Gap
           s2 == s1 \o c2
           s3 == s2 \o Gap
           s4 == s3 \o c3
           s5 == s4 \o Gap
           s6 == s5 \o c4
<1>3. PICK m1 \in Nat : s1 \in Bytes /\ m1 = Len(s1) /\ m1 = n1 + w
  BY <1>g, <1>2, JoinIs
<1>4. /\ \A i \in 1..n1 : s1[i] = c1[i]
      /\ \A i \in 1..w : s1[n1 + i] = Gap[i]
  BY <1>g, <1>2, JoinIs
<1>m1. s1 \in Bytes /\ m1 = Len(s1)
  BY <1>3
<1> HIDE DEF s1
<1>5. PICK m2 \in Nat : s2 \in Bytes /\ m2 = Len(s2) /\ m2 = m1 + n2
  BY <1>m1, <1>2, JoinIs
<1>6. /\ \A i \in 1..m1 : s2[i] = s1[i]
      /\ \A i \in 1..n2 : s2[m1 + i] = c2[i]
  BY <1>m1, <1>2, JoinIs
<1>m2. s2 \in Bytes /\ m2 = Len(s2)
  BY <1>5
<1> HIDE DEF s2
<1>7. PICK m3 \in Nat : s3 \in Bytes /\ m3 = Len(s3) /\ m3 = m2 + w
  BY <1>m2, <1>g, JoinIs
<1>8. /\ \A i \in 1..m2 : s3[i] = s2[i]
      /\ \A i \in 1..w : s3[m2 + i] = Gap[i]
  BY <1>m2, <1>g, JoinIs
<1>m3. s3 \in Bytes /\ m3 = Len(s3)
  BY <1>7
<1> HIDE DEF s3
<1>20. PICK m4 \in Nat : s4 \in Bytes /\ m4 = Len(s4) /\ m4 = m3 + n3
  BY <1>m3, <1>2, JoinIs
<1>21. /\ \A i \in 1..m3 : s4[i] = s3[i]
       /\ \A i \in 1..n3 : s4[m3 + i] = c3[i]
  BY <1>m3, <1>2, JoinIs
<1>m4. s4 \in Bytes /\ m4 = Len(s4)
  BY <1>20
<1> HIDE DEF s4
<1>22. PICK m5 \in Nat : s5 \in Bytes /\ m5 = Len(s5) /\ m5 = m4 + w
  BY <1>m4, <1>g, JoinIs
<1>23. /\ \A i \in 1..m4 : s5[i] = s4[i]
       /\ \A i \in 1..w : s5[m4 + i] = Gap[i]
  BY <1>m4, <1>g, JoinIs
<1>m5. s5 \in Bytes /\ m5 = Len(s5)
  BY <1>22
<1> HIDE DEF s5
<1>24. s6 \in Bytes /\ Len(s6) = m5 + n4
  BY <1>m5, <1>2, JoinIs
<1>25. /\ \A i \in 1..m5 : s6[i] = s5[i]
       /\ \A i \in 1..n4 : s6[m5 + i] = c4[i]
  BY <1>m5, <1>2, JoinIs
<1>9. s6 = Joined(c1, c2, c3, c4)
  BY DEF s1, s2, s3, s4, s5, Joined
<1> HIDE DEF s6
<1>e. /\ w = 2 /\ m1 = n1 + 2 /\ m2 = n1 + n2 + 2 /\ m3 = n1 + n2 + 4
      /\ m4 = n1 + n2 + n3 + 4 /\ m5 = n1 + n2 + n3 + 6
  BY <1>1, <1>3, <1>5, <1>7, <1>20, <1>22
<1>f. m2 = m3 - 2 /\ m4 = m5 - 2
  BY <1>e
<1>10. \A i \in 1..n1 : s6[i] = c1[i]
  <2> TAKE i \in 1..n1
  <2>1. i \in 1..m1 /\ i \in 1..m2 /\ i \in 1..m3 /\ i \in 1..m4 /\ i \in 1..m5
    BY <1>e
  <2> QED
    BY <2>1, <1>4, <1>6, <1>8, <1>21, <1>23, <1>25
<1>11. \A i \in 1..n2 : s6[m1 + i] = c2[i]
  <2> TAKE i \in 1..n2
  <2>1. m1 + i \in 1..m2 /\ m1 + i \in 1..m3 /\ m1 + i \in 1..m4 /\ m1 + i \in 1..m5
    BY <1>e
  <2> QED
    BY <2>1, <1>6, <1>8, <1>21, <1>23, <1>25
<1>12. \A i \in 1..n3 : s6[m3 + i] = c3[i]
  <2> TAKE i \in 1..n3
  <2>1. m3 + i \in 1..m4 /\ m3 + i \in 1..m5
    BY <1>e
  <2> QED
    BY <2>1, <1>21, <1>23, <1>25
<1>14. ASSUME NEW i \in 1..w
       PROVE  s6[n1 + i] = Blank /\ s6[m2 + i] = Blank /\ s6[m4 + i] = Blank
  <2>1. /\ n1 + i \in 1..m1 /\ n1 + i \in 1..m2 /\ n1 + i \in 1..m3
        /\ n1 + i \in 1..m4 /\ n1 + i \in 1..m5
    BY <1>e
  <2>2. /\ m2 + i \in 1..m3 /\ m2 + i \in 1..m4 /\ m2 + i \in 1..m5
        /\ m4 + i \in 1..m5
    BY <1>e
  <2>4. s6[n1 + i] = Blank
    BY <2>1, <1>g, <1>4, <1>6, <1>8, <1>21, <1>23, <1>25
  <2>5. s6[m2 + i] = Blank
    BY <2>2, <1>g, <1>8, <1>21, <1>23, <1>25
  <2>6. s6[m4 + i] = Blank
    BY <2>2, <1>g, <1>23, <1>25
  <2> QED
    BY <2>4, <2>5, <2>6
<1>13. Spaced(s6, c1, c2, c3, c4, m1, m3, m5)
  <2>1. m1 = Len(c1) + 2 /\ m3 = m1 + Len(c2) + 2 /\ m5 = m3 + Len(c3) + 2
    BY <1>2, <1>e
  <2>2. Len(s6) = m5 + Len(c4)
    BY <1>2, <1>24
  <2> QED
    BY <2>1, <2>2, <1>2, <1>1, <1>25, <1>f, <1>10, <1>11, <1>12, <1>14 DEF Spaced
<1> QED
  BY <1>9, <1>13, <1>24

-------------------------------------------------------------------------------
(* Parts of strings. *)
LEMMA SameBytes ==
    ASSUME NEW s \in Bytes, NEW t \in Bytes, Len(s) = Len(t),
           \A i \in 1..Len(s) : s[i] = t[i]
    PROVE  s = t
BY DEF Bytes

LEMMA SliceIs ==
    ASSUME NEW s \in Bytes, NEW start \in Nat, NEW end \in Nat, start <= end, end <= Len(s)
    PROVE  /\ SubSeq(s, start + 1, end) \in Bytes
           /\ Len(SubSeq(s, start + 1, end)) = end - start
           /\ \A i \in 1..end - start : SubSeq(s, start + 1, end)[i] = s[start + i]
<1>1. \A i \in start + 1..end : s[i] \in Byte
  BY DEF Bytes
<1>2. SubSeq(s, start + 1, end) = [i \in 1..end - start |-> s[start + i]]
  BY DEF Bytes
<1>3. \A i \in 1..end - start : s[start + i] \in Byte
  BY <1>1
<1>4. end - start \in Nat
  OBVIOUS
<1> QED
  BY <1>2, <1>3, <1>4 DEF Bytes

LEMMA PrefixIs ==
    ASSUME NEW s \in Bytes, NEW n \in Nat, n <= Len(s)
    PROVE  /\ SubSeq(s, 1, n) \in Bytes
           /\ Len(SubSeq(s, 1, n)) = n
           /\ \A i \in 1..n : SubSeq(s, 1, n)[i] = s[i]
<1>1. 0 \in Nat /\ 0 <= n /\ 0 + 1 = 1 /\ n - 0 = n /\ \A i \in 1..n : 0 + i = i
  OBVIOUS
<1>2. /\ SubSeq(s, 0 + 1, n) \in Bytes
      /\ Len(SubSeq(s, 0 + 1, n)) = n - 0
      /\ \A i \in 1..n - 0 : SubSeq(s, 0 + 1, n)[i] = s[0 + i]
  BY <1>1, SliceIs
<1> QED
  BY <1>1, <1>2

LEMMA MinOfTwo ==
    ASSUME NEW m \in Nat, NEW n \in Nat
    PROVE  Min({m, n}) = IF m <= n THEN m ELSE n
BY DEF Min

LEMMA SolidIs ==
    ASSUME NEW s \in Bytes, Solid(s) # {}
    PROVE  /\ Min(Solid(s)) \in Solid(s) /\ Max(Solid(s)) \in Solid(s)
           /\ Min(Solid(s)) \in 1..Len(s) /\ Max(Solid(s)) \in 1..Len(s)
           /\ \A i \in Solid(s) : Min(Solid(s)) <= i /\ i <= Max(Solid(s))
<1>1. Len(s) \in Nat /\ Solid(s) \subseteq 1..Len(s)
  BY LenBytes DEF Solid
<1>2. Solid(s) \subseteq Nat /\ Solid(s) \subseteq 0..Len(s)
  BY <1>1
<1>3. Min(Solid(s)) \in Solid(s) /\ \A y \in Solid(s) : Min(Solid(s)) <= y
  BY <1>2, Smallest
<1>4. Max(Solid(s)) \in Solid(s) /\ \A y \in Solid(s) : Max(Solid(s)) >= y
  BY <1>1, <1>2, Largest
<1> QED
  BY <1>1, <1>3, <1>4

(* Texts that differ in blanks at their ends only are the same, trimmed.   *)
LEMMA TrimSame ==
    ASSUME NEW s \in Bytes, NEW t \in Bytes, Solid(s) = Solid(t),
           \A i \in Solid(s) : s[i] = t[i]
    PROVE  Trim(s) = Trim(t)
<1>1. CASE Solid(s) = {}
  BY <1>1 DEF Trim
<1>2. CASE Solid(s) # {}
  <2>1. PICK a \in Nat, b \in Nat :
           /\ a = Min(Solid(s)) /\ b = Max(Solid(s)) /\ 1 <= a /\ a <= b
           /\ b <= Len(s) /\ b <= Len(t)
    <3>1. /\ Min(Solid(s)) \in 1..Len(s) /\ Max(Solid(s)) \in 1..Len(s)
          /\ Min(Solid(s)) <= Max(Solid(s)) /\ Max(Solid(s)) \in 1..Len(t)
      BY <1>2, SolidIs
    <3>2. Len(s) \in Nat /\ Len(t) \in Nat
      BY LenBytes
    <3> QED
      BY <3>1, <3>2
  <2>2. PICK p \in Nat : p + 1 = a /\ p <= b
    <3>1. a - 1 \in Nat /\ (a - 1) + 1 = a /\ a - 1 <= b
      BY <2>1
    <3> QED
      BY <3>1
  <2>3. ASSUME NEW i \in 1..b - p PROVE s[p + i] = t[p + i]
    <3>1. p + i \in 1..Len(s) /\ p + i \in 1..Len(t)
      BY <2>1, <2>2, LenBytes
    <3>2. CASE p + i \in Solid(s)
      BY <3>2
    <3>3. CASE p + i \notin Solid(s)
      BY <3>1, <3>3, LenBytes DEF Solid
    <3> QED
      BY <3>2, <3>3
  <2>4. SubSeq(s, p + 1, b) = SubSeq(t, p + 1, b)
    <3>1. /\ SubSeq(s, p + 1, b) \in Bytes
          /\ Len(SubSeq(s, p + 1, b)) = b - p
          /\ \A i \in 1..b - p : SubSeq(s, p + 1, b)[i] = s[p + i]
      BY <2>1, <2>2, SliceIs
    <3>2. /\ SubSeq(t, p + 1, b) \in Bytes
          /\ Len(SubSeq(t, p + 1, b)) = b - p
          /\ \A i \in 1..b - p : SubSeq(t, p + 1, b)[i] = t[p + i]
      BY <2>1, <2>2, SliceIs
    <3> QED
      BY <3>1, <3>2, <2>3, SameBytes
  <2> QED
    BY <1>2, <2>1, <2>2, <2>4 DEF Trim
<1> QED
  BY <1>1, <1>2

(* A text that has lost blanks at its end. *)
Cut(t, s) ==
    /\ t \in Bytes /\ Len(t) <= Len(s)
    /\ \A i \in 1..Len(t) : t[i] = s[i]
    /\ \A i \in Len(t) + 1..Len(s) : s[i] = Blank

LEMMA CutItself == ASSUME NEW s \in Bytes PROVE Cut(s, s)
BY LenBytes DEF Cut

LEMMA CutTwice ==
    ASSUME NEW s \in Bytes, NEW t, Cut(t, s), NEW u, Cut(u, t)
    PROVE  Cut(u, s)
<1>1. Len(s) \in Nat /\ Len(t) \in Nat /\ Len(u) \in Nat
  BY LenBytes DEF Cut
<1>2. Len(u) <= Len(t) /\ Len(t) <= Len(s) /\ u \in Bytes
  BY DEF Cut
<1>3. ASSUME NEW i \in 1..Len(u) PROVE u[i] = s[i]
  <2>1. i \in 1..Len(t)
    BY <1>1, <1>2
  <2> QED
    BY <2>1 DEF Cut
<1>4. ASSUME NEW i \in Len(u) + 1..Len(s) PROVE s[i] = Blank
  <2>1. i \in Len(t) + 1..Len(s) \/ (i \in 1..Len(t) /\ i \in Len(u) + 1..Len(t))
    BY <1>1, <1>2
  <2> QED
    BY <2>1 DEF Cut
<1> QED
  BY <1>1, <1>2, <1>3, <1>4 DEF Cut

LEMMA CutRight == ASSUME NEW s \in Bytes PROVE Cut(TrimRight(s), s)
<1>0. Len(s) \in Nat /\ DOMAIN s = 1..Len(s)
  BY LenBytes
<1>1. CASE Solid(s) = {}
  <2>1. TrimRight(s) = <<>> /\ <<>> \in Bytes /\ Len(<<>>) = 0
    BY <1>1 DEF TrimRight, Bytes
  <2>2. \A i \in 1..Len(s) : s[i] = Blank
    BY <1>0, <1>1 DEF Solid
  <2> QED
    BY <1>0, <2>1, <2>2 DEF Cut
<1>2. CASE Solid(s) # {}
  <2>1. PICK b \in Nat : b = Max(Solid(s)) /\ b <= Len(s)
    BY <1>0, <1>2, SolidIs
  <2>2. /\ SubSeq(s, 1, b) \in Bytes
        /\ Len(SubSeq(s, 1, b)) = b
        /\ \A i \in 1..b : SubSeq(s, 1, b)[i] = s[i]
    BY <2>1, PrefixIs
  <2>3. ASSUME NEW i \in b + 1..Len(s) PROVE s[i] = Blank
    <3>1. i \in 1..Len(s) /\ ~(i <= b)
      BY <1>0
    <3>2. i \notin Solid(s)
      BY <1>2, <2>1, <3>1, SolidIs
    <3> QED
      BY <1>0, <3>1, <3>2 DEF Solid
  <2>4. TrimRight(s) = SubSeq(s, 1, b)
    BY <1>2, <2>1 DEF TrimRight
  <2> QED
    BY <2>1, <2>2, <2>3, <2>4 DEF Cut
<1> QED
  BY <1>1, <1>2

(* A solid byte is not lost. *)
LEMMA CutKeeps ==
    ASSUME NEW s \in Bytes, NEW t, Cut(t, s), NEW i \in 1..Len(s), s[i] # Blank
    PROVE  i <= Len(t)
<1>1. Len(s) \in Nat /\ Len(t) \in Nat
  BY LenBytes DEF Cut
<1>2. i <= Len(t) \/ i \in Len(t) + 1..Len(s)
  BY <1>1
<1> QED
  BY <1>2 DEF Cut

-------------------------------------------------------------------------------
(* The i-th byte of a text that blanks follow. *)
At(b, i) == IF i <= Len(b) THEN b[i] ELSE Blank

(* It stands in a line that may be cut, from a start and w bytes on.       *)
Stands(b, line, start, w) ==
    \A i \in 1..w : IF start + i <= Len(line) THEN line[start + i] = At(b, i)
                    ELSE At(b, i) = Blank

(* A cell is what stands under its column, wherever the line was cut.      *)
LEMMA CellIs ==
    ASSUME NEW line \in Bytes, NEW b \in Bytes, NEW start \in Nat, NEW w \in Nat,
           NEW c, c.start = start, c.end = start + w, start <= Len(line),
           Stands(b, line, start, w)
    PROVE  Cell(line, c) = Trim(SubSeq(b, 1, Min({Len(b), w})))
<1>1. Len(line) \in Nat /\ Len(b) \in Nat
  BY LenBytes
<1>2. PICK q \in Nat : /\ q = Min({Len(line), start + w}) /\ start <= q
                       /\ q <= Len(line) /\ q <= start + w
                       /\ q = Len(line) \/ q = start + w
  BY <1>1, MinOfTwo
<1>3. PICK m \in Nat : m = Min({Len(b), w}) /\ m <= Len(b) /\ m <= w /\ (m = Len(b) \/ m = w)
  <2>1. Min({Len(b), w}) = IF Len(b) <= w THEN Len(b) ELSE w
    BY <1>1, MinOfTwo
  <2> QED
    BY <1>1, <2>1
<1> DEFINE sl == SubSeq(line, start + 1, q)
           rb == SubSeq(b, 1, m)
<1>4. sl \in Bytes /\ Len(sl) = q - start /\ \A i \in 1..q - start : sl[i] = line[start + i]
  <2>1. start <= q /\ q <= Len(line)
    BY <1>2
  <2> QED
    BY <2>1, SliceIs
<1>5. rb \in Bytes /\ Len(rb) = m /\ \A i \in 1..m : rb[i] = b[i]
  <2>1. m <= Len(b)
    BY <1>3
  <2> QED
    BY <2>1, PrefixIs
<1>6. Cell(line, c) = Trim(sl)
  BY <1>2 DEF Cell
<1>7. DOMAIN sl = 1..q - start /\ DOMAIN rb = 1..m
  BY <1>4, <1>5, LenBytes
<1> HIDE DEF sl, rb
<1>8. ASSUME NEW i \in Solid(sl) PROVE i \in Solid(rb) /\ sl[i] = rb[i]
  <2>1. i \in 1..q - start /\ sl[i] # Blank
    BY <1>7 DEF Solid
  <2>2. i \in 1..w /\ start + i <= Len(line)
    BY <1>1, <1>2, <2>1
  <2>3. sl[i] = At(b, i)
    BY <1>4, <2>1, <2>2 DEF Stands
  <2>4. i <= Len(b) /\ sl[i] = b[i]
    BY <2>1, <2>3 DEF At
  <2>5. i \in 1..m
    BY <1>1, <1>3, <2>2, <2>4
  <2> QED
    BY <1>5, <1>7, <2>1, <2>4, <2>5 DEF Solid
<1>9. ASSUME NEW i \in Solid(rb) PROVE i \in Solid(sl)
  <2>1. i \in 1..m /\ rb[i] # Blank
    BY <1>7 DEF Solid
  <2>2. i \in 1..w /\ i <= Len(b)
    BY <1>1, <1>3, <2>1
  <2>3. At(b, i) # Blank /\ At(b, i) = b[i]
    BY <1>5, <2>1, <2>2 DEF At
  <2>4. start + i <= Len(line) /\ line[start + i] = b[i]
    BY <2>2, <2>3 DEF Stands
  <2>5. i \in 1..q - start
    BY <1>1, <1>2, <2>2, <2>4
  <2> QED
    BY <1>4, <1>7, <2>3, <2>4, <2>5 DEF Solid
<1>10. Trim(sl) = Trim(rb)
  <2>1. Solid(sl) = Solid(rb) /\ \A i \in Solid(sl) : sl[i] = rb[i]
    BY <1>8, <1>9
  <2>2. sl \in Bytes /\ rb \in Bytes
    BY <1>4, <1>5
  <2> QED
    BY <2>1, <2>2, TrimSame
<1> QED
  BY <1>3, <1>6, <1>10 DEF rb

(* The whole of a text, cut nowhere. *)
LEMMA WholeText ==
    ASSUME NEW b \in Bytes, NEW w \in Nat, Len(b) <= w
    PROVE  SubSeq(b, 1, Min({Len(b), w})) = b
<1>1. Len(b) \in Nat /\ Min({Len(b), w}) = Len(b)
  BY LenBytes, MinOfTwo
<1>2. /\ SubSeq(b, 1, Len(b)) \in Bytes
      /\ Len(SubSeq(b, 1, Len(b))) = Len(b)
      /\ \A i \in 1..Len(b) : SubSeq(b, 1, Len(b))[i] = b[i]
  BY <1>1, PrefixIs
<1>3. SubSeq(b, 1, Len(b)) = b
  BY <1>2, SameBytes
<1> QED
  BY <1>1, <1>3

-------------------------------------------------------------------------------
(* The rule of a table: where its dashes are. *)
Ruled(w1, w2, w3, w4) == Joined(Fill(w1, Dash), Fill(w2, Dash), Fill(w3, Dash), Fill(w4, Dash))

Dashed(i, w1, a2, w2, a3, w3, a4) ==
    \/ i <= w1
    \/ a2 < i /\ i <= a2 + w2
    \/ a3 < i /\ i <= a3 + w3
    \/ a4 < i
Starts(w1, w2, w3, a2, a3, a4) == a2 = w1 + 2 /\ a3 = a2 + w2 + 2 /\ a4 = a3 + w3 + 2

LEMMA RuleIs ==
    ASSUME NEW w1 \in Nat, NEW w2 \in Nat, NEW w3 \in Nat, NEW w4 \in Nat
    PROVE  /\ Ruled(w1, w2, w3, w4) \in Bytes
           /\ \E a2 \in Nat, a3 \in Nat, a4 \in Nat :
                 /\ Starts(w1, w2, w3, a2, a3, a4)
                 /\ Len(Ruled(w1, w2, w3, w4)) = a4 + w4
                 /\ \A i \in 1..a4 + w4 :
                       Ruled(w1, w2, w3, w4)[i] = Dash <=> Dashed(i, w1, a2, w2, a3, w3, a4)
<1>0. PICK a2 \in Nat, a3 \in Nat, a4 \in Nat : Starts(w1, w2, w3, a2, a3, a4)
  <2>1. w1 + 2 \in Nat /\ w1 + 2 + w2 + 2 \in Nat /\ w1 + 2 + w2 + 2 + w3 + 2 \in Nat
    OBVIOUS
  <2> QED
    BY <2>1 DEF Starts
<1>s. a2 = w1 + 2 /\ a3 = a2 + w2 + 2 /\ a4 = a3 + w3 + 2
  BY <1>0 DEF Starts
<1> DEFINE r == Ruled(w1, w2, w3, w4)
<1>1. /\ r \in Bytes /\ Len(r) = a4 + w4
      /\ \A i \in 1..w1 : r[i] = Dash
      /\ \A i \in 1..w2 : r[a2 + i] = Dash
      /\ \A i \in 1..w3 : r[a3 + i] = Dash
      /\ \A i \in 1..w4 : r[a4 + i] = Dash
      /\ \A i \in 1..2 : r[w1 + i] = Blank /\ r[(a3 - 2) + i] = Blank /\ r[(a4 - 2) + i] = Blank
  <2> DEFINE c1 == Fill(w1, Dash)
             c2 == Fill(w2, Dash)
             c3 == Fill(w3, Dash)
             c4 == Fill(w4, Dash)
  <2>1. /\ c1 \in Bytes /\ Len(c1) = w1 /\ \A i \in 1..w1 : c1[i] = Dash
        /\ c2 \in Bytes /\ Len(c2) = w2 /\ \A i \in 1..w2 : c2[i] = Dash
        /\ c3 \in Bytes /\ Len(c3) = w3 /\ \A i \in 1..w3 : c3[i] = Dash
        /\ c4 \in Bytes /\ Len(c4) = w4 /\ \A i \in 1..w4 : c4[i] = Dash
    BY FillIs, BlankAndDash
  <2>2. r = Joined(c1, c2, c3, c4)
    BY DEF Ruled
  <2> HIDE DEF r, c1, c2, c3, c4
  <2>3. PICK b2 \in Nat, b3 \in Nat, b4 \in Nat : Spaced(r, c1, c2, c3, c4, b2, b3, b4)
    BY <2>1, <2>2, JoinedIs
  <2>4. b2 = a2 /\ b3 = a3 /\ b4 = a4
    BY <1>s, <2>1, <2>3 DEF Spaced
  <2>5. r \in Bytes
    BY <2>1, <2>2, JoinedIs
  <2>6. Spaced(r, c1, c2, c3, c4, a2, a3, a4)
    BY <2>3, <2>4
  <2>7. Len(r) = a4 + w4
    BY <2>1, <2>6 DEF Spaced
  <2>8. /\ \A i \in 1..w1 : r[i] = Dash
        /\ \A i \in 1..w2 : r[a2 + i] = Dash
        /\ \A i \in 1..w3 : r[a3 + i] = Dash
        /\ \A i \in 1..w4 : r[a4 + i] = Dash
    BY <2>1, <2>6 DEF Spaced
  <2>9. \A i \in 1..2 : r[w1 + i] = Blank /\ r[(a3 - 2) + i] = Blank /\ r[(a4 - 2) + i] = Blank
    BY <2>1, <2>6 DEF Spaced
  <2> QED
    BY <2>5, <2>7, <2>8, <2>9
<1> HIDE DEF r
<1>2. ASSUME NEW i \in 1..a4 + w4
      PROVE  r[i] = Dash <=> Dashed(i, w1, a2, w2, a3, w3, a4)
  <2> USE <1>s DEF Dashed
  <2>1. CASE i <= w1
    BY <1>1, <2>1
  <2>2. CASE a2 < i /\ i <= a2 + w2
    <3>1. i - a2 \in 1..w2 /\ a2 + (i - a2) = i
      BY <2>2
    <3> QED
      BY <1>1, <2>2, <3>1
  <2>3. CASE a3 < i /\ i <= a3 + w3
    <3>1. i - a3 \in 1..w3 /\ a3 + (i - a3) = i
      BY <2>3
    <3> QED
      BY <1>1, <2>3, <3>1
  <2>4. CASE a4 < i
    <3>1. i - a4 \in 1..w4 /\ a4 + (i - a4) = i
      BY <2>4
    <3> QED
      BY <1>1, <2>4, <3>1
  <2>5. CASE ~ \/ i <= w1
               \/ a2 < i /\ i <= a2 + w2
               \/ a3 < i /\ i <= a3 + w3
               \/ a4 < i
    <3>1. \/ i - w1 \in 1..2 /\ w1 + (i - w1) = i
          \/ i - (a3 - 2) \in 1..2 /\ (a3 - 2) + (i - (a3 - 2)) = i
          \/ i - (a4 - 2) \in 1..2 /\ (a4 - 2) + (i - (a4 - 2)) = i
      BY <2>5
    <3>2. r[i] = Blank
      BY <1>1, <3>1
    <3> QED
      BY <2>5, <3>2, BlankAndDash
  <2> QED
    BY <2>1, <2>2, <2>3, <2>4, <2>5
<1> QED
  BY <1>0, <1>1, <1>2 DEF r

(* A rule of four runs of dashes has four columns. *)
FourColumns(r, w1, w2, w3, w4, a2, a3, a4) ==
    /\ Starts(w1, w2, w3, a2, a3, a4)
    /\ Len(r) = a4 + w4
    /\ r[a4 + w4] = Dash
    /\ Columns(r) = {[start |-> 0, end |-> w1], [start |-> a2, end |-> a2 + w2],
                     [start |-> a3, end |-> a3 + w3], [start |-> a4, end |-> a4 + w4]}

HasFourColumns(r, w1, w2, w3, w4) ==
    \E a2 \in Nat, a3 \in Nat, a4 \in Nat : FourColumns(r, w1, w2, w3, w4, a2, a3, a4)

LEMMA RuleColumns ==
    ASSUME NEW w1 \in Nat \ {0}, NEW w2 \in Nat \ {0}, NEW w3 \in Nat \ {0},
           NEW w4 \in Nat \ {0}
    PROVE  HasFourColumns(Ruled(w1, w2, w3, w4), w1, w2, w3, w4)
<1>0. PICK a2 \in Nat, a3 \in Nat, a4 \in Nat :
         /\ Starts(w1, w2, w3, a2, a3, a4)
         /\ Len(Ruled(w1, w2, w3, w4)) = a4 + w4
         /\ \A i \in 1..a4 + w4 :
               Ruled(w1, w2, w3, w4)[i] = Dash <=> Dashed(i, w1, a2, w2, a3, w3, a4)
  BY RuleIs
<1>s. a2 = w1 + 2 /\ a3 = a2 + w2 + 2 /\ a4 = a3 + w3 + 2
  BY <1>0 DEF Starts
<1> DEFINE r == Ruled(w1, w2, w3, w4)
           T == a4 + w4
           D(i) == Dashed(i, w1, a2, w2, a3, w3, a4)
<1>1. Len(r) = T /\ T \in Nat /\ \A i \in 1..T : r[i] = Dash <=> D(i)
  BY <1>0
<1>d. \A i : D(i) <=> \/ i <= w1
                      \/ a2 < i /\ i <= a2 + w2
                      \/ a3 < i /\ i <= a3 + w3
                      \/ a4 < i
  BY DEF Dashed
<1> HIDE DEF r, D
<1>2. ASSUME NEW c \in Columns(r)
      PROVE  \/ c = [start |-> 0, end |-> w1]
             \/ c = [start |-> a2, end |-> a2 + w2]
             \/ c = [start |-> a3, end |-> a3 + w3]
             \/ c = [start |-> a4, end |-> T]
  <2>1. PICK x \in 0..T, y \in 0..T : c = [start |-> x, end |-> y]
    BY <1>1 DEF Columns
  <2>2. /\ x <= y
        /\ \A j \in x + 1..y : r[j] = Dash
        /\ x = 0 \/ r[x] # Dash
        /\ y = T \/ (x < y /\ r[y + 1] # Dash)
    BY <1>1, <2>1 DEF Columns, Dashes, StartsRun
  <2>3. /\ \A j \in x + 1..y : D(j)
        /\ x = 0 \/ ~D(x)
        /\ y = T \/ (x < y /\ ~D(y + 1))
    <3>1. \A j \in x + 1..y : j \in 1..T
      OBVIOUS
    <3>2. x # 0 => x \in 1..T
      OBVIOUS
    <3>3. y # T => y + 1 \in 1..T
      OBVIOUS
    <3> HIDE DEF D, T
    <3> QED
      BY <1>1, <2>2, <3>1, <3>2, <3>3
  <2>4. x < y
    <3>1. D(T) /\ T # 0
      BY <1>d, <1>s
    <3> HIDE DEF T
    <3> QED
      BY <2>2, <2>3, <3>1
  <2>5. x + 1 \in x + 1..y /\ D(x + 1)
    BY <2>3, <2>4
  <2>6. x = 0 \/ x = a2 \/ x = a3 \/ x = a4
    BY <1>d, <1>s, <2>3, <2>5
  <2>7. ASSUME NEW e \in Nat, x < e, e < T, ~D(e + 1),
               \A j \in Nat : x < j /\ j <= e => D(j)
        PROVE  y = e
    <3>1. ~(e < y)
      <4>1. SUFFICES ASSUME e < y PROVE FALSE
        OBVIOUS
      <4>2. e + 1 \in x + 1..y
        BY <2>7, <4>1
      <4> HIDE DEF D
      <4> QED
        BY <2>3, <2>7, <4>2
    <3>2. ~(y < e)
      <4>1. SUFFICES ASSUME y < e PROVE FALSE
        OBVIOUS
      <4>2. y # T /\ ~D(y + 1)
        BY <2>3, <2>7, <4>1
      <4>3. y + 1 \in Nat /\ x < y + 1 /\ y + 1 <= e
        BY <2>2, <4>1
      <4> QED
        BY <2>7, <4>2, <4>3
    <3> QED
      BY <3>1, <3>2
  <2>8. CASE x = 0
    <3>1. y = w1
      BY <1>d, <1>s, <2>7, <2>8
    <3> QED
      BY <2>1, <2>8, <3>1
  <2>9. CASE x = a2
    <3>1. ~D(a2 + w2 + 1) /\ a2 + w2 < T /\ x < a2 + w2 /\ a2 + w2 \in Nat
      BY <1>d, <1>s, <2>9
    <3>2. \A j \in Nat : x < j /\ j <= a2 + w2 => D(j)
      BY <1>d, <1>s, <2>9
    <3>3. y = a2 + w2
      <4> HIDE DEF D, T
      <4> QED
        BY <2>7, <3>1, <3>2
    <3> QED
      BY <2>1, <2>9, <3>3
  <2>10. CASE x = a3
    <3>1. ~D(a3 + w3 + 1) /\ a3 + w3 < T /\ x < a3 + w3 /\ a3 + w3 \in Nat
      BY <1>d, <1>s, <2>10
    <3>2. \A j \in Nat : x < j /\ j <= a3 + w3 => D(j)
      BY <1>d, <1>s, <2>10
    <3>3. y = a3 + w3
      <4> HIDE DEF D, T
      <4> QED
        BY <2>7, <3>1, <3>2
    <3> QED
      BY <2>1, <2>10, <3>3
  <2>11. CASE x = a4
    <3>1. ~(y < T)
      BY <1>d, <1>s, <2>3, <2>11
    <3> QED
      BY <2>1, <2>11, <3>1
  <2> QED
    BY <2>6, <2>8, <2>9, <2>10, <2>11
<1>3. ASSUME NEW x \in Nat, NEW y \in Nat, x < y, y <= T,
             \A j \in x + 1..y : D(j), x = 0 \/ ~D(x), y = T \/ ~D(y + 1)
      PROVE  [start |-> x, end |-> y] \in Columns(r)
  <2>1. \A j \in x + 1..y : r[j] = Dash
    <3>1. \A j \in x + 1..y : j \in 1..T
      BY <1>3, <1>d, <1>s
    <3> QED
      BY <1>1, <1>3, <3>1
  <2>2. x = 0 \/ r[x] # Dash
    <3>1. x # 0 => x \in 1..T
      BY <1>3, <1>d, <1>s
    <3> QED
      BY <1>1, <1>3, <3>1
  <2>3. y = T \/ r[y + 1] # Dash
    <3>1. y # T => y + 1 \in 1..T
      BY <1>3, <1>d, <1>s
    <3> QED
      BY <1>1, <1>3, <3>1
  <2>4. x \in 0..T /\ y \in 0..T /\ x <= y
    BY <1>3, <1>d, <1>s
  <2> QED
    BY <1>1, <1>3, <2>1, <2>2, <2>3, <2>4 DEF Columns, Dashes, StartsRun
<1>4. [start |-> 0, end |-> w1] \in Columns(r)
  BY <1>3, <1>d, <1>s
<1>5. [start |-> a2, end |-> a2 + w2] \in Columns(r)
  BY <1>3, <1>d, <1>s
<1>6. [start |-> a3, end |-> a3 + w3] \in Columns(r)
  BY <1>3, <1>d, <1>s
<1>7. [start |-> a4, end |-> T] \in Columns(r)
  BY <1>3, <1>d, <1>s
<1>8. r[T] = Dash
  BY <1>1, <1>d, <1>s
<1>9. Columns(r) = {[start |-> 0, end |-> w1], [start |-> a2, end |-> a2 + w2],
                    [start |-> a3, end |-> a3 + w3], [start |-> a4, end |-> T]}
  BY <1>2, <1>4, <1>5, <1>6, <1>7
<1> QED
  BY <1>0, <1>1, <1>8, <1>9 DEF r, FourColumns, HasFourColumns

-------------------------------------------------------------------------------
(* The printed table. *)
Fields == {"ip", "mac", "host", "origin"}
Fitted(table, row) == \A f \in Fields : row[f].chars <= Width(table, f)

LEMMA TextIs ==
    ASSUME NEW t \in Text
    PROVE  t.bytes \in Bytes /\ t.chars \in Nat /\ t.chars <= Len(t.bytes)
BY DEF Text, Bytes

LEMMA LeaseIs ==
    ASSUME NEW l \in Lease, NEW f \in Fields
    PROVE  l[f] \in Text /\ (f # "host" => l[f] \in Word)
BY DEF Lease, Fields, Word

LEMMA TrimWhole ==
    ASSUME NEW s \in Bytes, s # <<>>, s[1] # Blank, s[Len(s)] # Blank
    PROVE  Trim(s) = s
<1>1. Len(s) \in Nat /\ 1 \in 1..Len(s) /\ Len(s) \in 1..Len(s) /\ DOMAIN s = 1..Len(s)
  BY DEF Bytes
<1>2. 1 \in Solid(s) /\ Len(s) \in Solid(s)
  BY <1>1 DEF Solid
<1>3. Min(Solid(s)) = 1 /\ Max(Solid(s)) = Len(s)
  BY <1>1, <1>2, SolidIs
<1>4. Trim(s) = SubSeq(s, 1, Len(s))
  BY <1>2, <1>3 DEF Trim
<1>5. /\ SubSeq(s, 1, Len(s)) \in Bytes
      /\ Len(SubSeq(s, 1, Len(s))) = Len(s)
      /\ \A i \in 1..Len(s) : SubSeq(s, 1, Len(s))[i] = s[i]
  BY <1>1, PrefixIs
<1> QED
  BY <1>4, <1>5, SameBytes

LEMMA AsciiIs ==
    ASSUME NEW b \in Bytes, Trim(b) = b
    PROVE  Ascii(b) \in Word /\ Ascii(b).bytes = b
<1>1. Len(b) \in Nat /\ Len(b) <= Len(b)
  BY LenBytes
<1> QED
  BY <1>1 DEF Ascii, Word, Text, Bytes

(* A header is a row like any other. *)
LEMMA HeaderIs ==
    /\ Header \in Lease /\ Header.host \in Word
    /\ \A f \in Fields : Header[f].chars \in Nat \ {0}
    /\ Header.origin.bytes # <<>>
<1>1. <<"I", "P">> \in Bytes /\ <<"M", "A", "C">> \in Bytes /\ <<"H">> \in Bytes /\ <<"O">> \in Bytes
  BY ByteAssumption DEF Bytes
<1>2. /\ Trim(<<"I", "P">>) = <<"I", "P">>
      /\ Trim(<<"M", "A", "C">>) = <<"M", "A", "C">>
      /\ Trim(<<"H">>) = <<"H">> /\ Trim(<<"O">>) = <<"O">>
  BY <1>1, TrimWhole DEF Blank
<1>3. /\ Header.ip \in Word /\ Header.mac \in Word /\ Header.host \in Word
      /\ Header.origin \in Word
  BY <1>1, <1>2, AsciiIs DEF Header
<1>4. Header \in Lease
  BY <1>3 DEF Header, Lease, Word, Ascii, Nothing
<1>5. \A f \in Fields : Header[f].chars \in Nat \ {0}
  BY DEF Header, Ascii, Fields
<1> QED
  BY <1>3, <1>4, <1>5 DEF Header, Ascii

(* A column is as wide as the widest of its texts. *)
LEMMA WidthIs ==
    ASSUME NEW table \in Seq(Lease), NEW f \in Fields
    PROVE  /\ Width(table, f) \in Nat \ {0}
           /\ Header[f].chars <= Width(table, f)
           /\ \A k \in DOMAIN table : table[k][f].chars <= Width(table, f)
<1> DEFINE n == Len(table)
           g == [k \in 1..n |-> table[k][f].chars]
           S == {table[k][f].chars : k \in DOMAIN table} \cup {Header[f].chars}
<1>1. n \in Nat /\ DOMAIN table = 1..n /\ \A k \in 1..n : table[k] \in Lease
  OBVIOUS
<1>2. \A k \in 1..n : table[k][f].chars \in Nat
  BY <1>1, LeaseIs, TextIs
<1>3. Header[f].chars \in Nat \ {0}
  BY HeaderIs
<1>4. PICK b \in Nat : \A k \in 1..n : table[k][f].chars <= b
  <2>1. \A k \in 1..n : g[k] \in Nat
    BY <1>2
  <2>2. PICK b \in Nat : \A k \in 1..n : g[k] <= b
    <3> HIDE DEF g
    <3> QED
      BY <1>1, <2>1, Bounded
  <2> QED
    BY <2>2
<1>5. PICK top \in Nat : S \subseteq 0..top
  <2>1. b + Header[f].chars \in Nat
    BY <1>3
  <2>2. \A k \in 1..n : table[k][f].chars \in 0..(b + Header[f].chars)
    BY <1>2, <1>3, <1>4
  <2>3. Header[f].chars \in 0..(b + Header[f].chars)
    BY <1>3
  <2> QED
    BY <1>1, <2>1, <2>2, <2>3
<1>6. Width(table, f) = Max(S)
  BY DEF Width
<1>7. Header[f].chars \in S /\ \A k \in DOMAIN table : table[k][f].chars \in S
  OBVIOUS
<1>8. S # {} /\ Max(S) \in S /\ \A y \in S : Max(S) >= y
  <2> HIDE DEF S
  <2> QED
    BY <1>5, <1>7, Largest
<1> HIDE DEF S
<1>9. Max(S) \in Nat /\ \A y \in S : y \in Nat /\ y <= Max(S)
  <2>1. \A y \in S : y \in Nat
    BY <1>5
  <2>2. Max(S) \in Nat
    BY <2>1, <1>8
  <2> HIDE DEF Max
  <2> QED
    BY <2>1, <2>2, <1>8
<1> QED
  BY <1>3, <1>6, <1>7, <1>9

LEMMA RowFits ==
    ASSUME NEW table \in Seq(Lease)
    PROVE  Fitted(table, Header) /\ \A k \in DOMAIN table : Fitted(table, table[k])
BY WidthIs DEF Fitted

(* A text in its column, and the blanks that fill it. *)
LEMMA PadIs ==
    ASSUME NEW t \in Text, NEW w \in Nat, t.chars <= w
    PROVE  /\ Pad(t, w) \in Bytes
           /\ w <= Len(Pad(t, w))
           /\ t \in Word => Len(Pad(t, w)) = w
           /\ Len(t.bytes) <= Len(Pad(t, w))
           /\ \A i \in 1..Len(Pad(t, w)) : Pad(t, w)[i] = At(t.bytes, i)
<1>1. t.bytes \in Bytes /\ t.chars \in Nat /\ t.chars <= Len(t.bytes) /\ Len(t.bytes) \in Nat
  BY TextIs, LenBytes
<1>2. PICK m \in Nat, n \in Nat : m = Len(t.bytes) /\ n = w - t.chars
  BY <1>1
<1> DEFINE b == t.bytes
           fill == Fill(n, Blank)
<1>3. fill \in Bytes /\ Len(fill) = n /\ \A i \in 1..n : fill[i] = Blank
  BY FillIs, BlankAndDash
<1> HIDE DEF fill, b
<1>4. /\ b \o fill \in Bytes /\ Len(b \o fill) = m + n
      /\ \A i \in 1..m : (b \o fill)[i] = b[i]
      /\ \A i \in 1..n : (b \o fill)[m + i] = fill[i]
  <2>1. b \in Bytes /\ m = Len(b)
    BY <1>1, <1>2 DEF b
  <2> QED
    BY <2>1, <1>3, JoinIs
<1>5. Pad(t, w) = b \o fill
  BY <1>2 DEF Pad, b, fill
<1>6. ASSUME NEW i \in 1..m + n PROVE (b \o fill)[i] = At(b, i)
  <2>1. CASE i <= m
    BY <1>2, <1>4, <2>1 DEF At, b
  <2>2. CASE ~(i <= m)
    <3>1. i - m \in 1..n /\ m + (i - m) = i
      BY <2>2
    <3>2. (b \o fill)[i] = Blank
      BY <1>3, <1>4, <3>1
    <3> QED
      BY <1>2, <2>2, <3>2 DEF At, b
  <2> QED
    BY <2>1, <2>2
<1>7. w <= m + n /\ m <= m + n
  BY <1>1, <1>2
<1>8. t \in Word => m + n = w
  BY <1>1, <1>2 DEF Word
<1> QED
  BY <1>2, <1>4, <1>5, <1>6, <1>7, <1>8 DEF b

-------------------------------------------------------------------------------
(* Where the columns of a table begin. *)
Start(table, f) ==
    CASE f = "ip" -> 0
      [] f = "mac" -> Width(table, "ip") + 2
      [] f = "host" -> Width(table, "ip") + 2 + Width(table, "mac") + 2
      [] f = "origin" -> Width(table, "ip") + 2 + Width(table, "mac") + 2
                         + Width(table, "host") + 2
Column(table, f) == [start |-> Start(table, f), end |-> Start(table, f) + Width(table, f)]

LEMMA StartIs ==
    ASSUME NEW table \in Seq(Lease)
    PROVE  \A f \in Fields :
              /\ Start(table, f) \in Nat /\ Width(table, f) \in Nat
              /\ Start(table, f) <= Start(table, "origin")
<1>1. \A f \in Fields : Width(table, f) \in Nat
  BY WidthIs
<1>2. /\ Width(table, "ip") \in Nat /\ Width(table, "mac") \in Nat
      /\ Width(table, "host") \in Nat /\ Width(table, "origin") \in Nat
  BY <1>1 DEF Fields
<1>3. ASSUME NEW f \in Fields
      PROVE  Start(table, f) \in Nat /\ Start(table, f) <= Start(table, "origin")
  BY <1>2 DEF Start, Fields
<1> QED
  BY <1>1, <1>3

(* The parser finds the columns of the table. *)
LEMMA ColumnsOfTable ==
    ASSUME NEW table \in Seq(Lease)
    PROVE  /\ Columns(Rule(table)) = {Column(table, f) : f \in Fields}
           /\ Cut(TrimRight(Rule(table)), Rule(table))
           /\ TrimRight(Rule(table)) = Rule(table)
<1>1. PICK w1 \in Nat \ {0}, w2 \in Nat \ {0}, w3 \in Nat \ {0}, w4 \in Nat \ {0} :
         /\ w1 = Width(table, "ip") /\ w2 = Width(table, "mac")
         /\ w3 = Width(table, "host") /\ w4 = Width(table, "origin")
  BY WidthIs DEF Fields
<1>3. Rule(table) = Ruled(w1, w2, w3, w4)
  BY <1>1 DEF Rule, Ruled, Joined
<1>5. PICK a2 \in Nat, a3 \in Nat, a4 \in Nat :
         FourColumns(Rule(table), w1, w2, w3, w4, a2, a3, a4)
  <2>1. HasFourColumns(Rule(table), w1, w2, w3, w4)
    BY <1>3, RuleColumns
  <2> QED
    BY <2>1 DEF HasFourColumns
<1>2. /\ Starts(w1, w2, w3, a2, a3, a4)
      /\ Len(Rule(table)) = a4 + w4
      /\ Rule(table)[a4 + w4] = Dash
      /\ Columns(Rule(table))
           = {[start |-> 0, end |-> w1], [start |-> a2, end |-> a2 + w2],
              [start |-> a3, end |-> a3 + w3], [start |-> a4, end |-> a4 + w4]}
  BY <1>5 DEF FourColumns
<1>4. /\ Column(table, "ip") = [start |-> 0, end |-> w1]
      /\ Column(table, "mac") = [start |-> a2, end |-> a2 + w2]
      /\ Column(table, "host") = [start |-> a3, end |-> a3 + w3]
      /\ Column(table, "origin") = [start |-> a4, end |-> a4 + w4]
  BY <1>1, <1>2 DEF Column, Start, Starts
<1>6. Columns(Rule(table)) = {Column(table, f) : f \in Fields}
  BY <1>2, <1>4 DEF Fields
<1>7. Rule(table) \in Bytes
  BY <1>3, RuleIs
<1>8. Cut(TrimRight(Rule(table)), Rule(table))
  BY <1>7, CutRight
<1>9. TrimRight(Rule(table)) = Rule(table)
  <2>1. a4 + w4 \in 1..Len(Rule(table)) /\ Rule(table)[a4 + w4] # Blank
    BY <1>1, <1>2, <1>7, BlankAndDash
  <2>2. a4 + w4 <= Len(TrimRight(Rule(table)))
    BY <1>7, <1>8, <2>1, CutKeeps
  <2>3. Len(TrimRight(Rule(table))) = Len(Rule(table))
    BY <1>2, <1>7, <1>8, <2>2, LenBytes DEF Cut
  <2> QED
    BY <1>7, <1>8, <2>3, SameBytes DEF Cut
<1> QED
  BY <1>6, <1>8, <1>9

(* A printed row: its texts stand in their columns. *)
LEMMA LineIs ==
    ASSUME NEW table \in Seq(Lease), NEW row \in Lease, Fitted(table, row)
    PROVE  /\ Line(table, row) \in Bytes
           /\ \A f \in Fields \ {"origin"} : \A i \in 1..Width(table, f) :
                 /\ Start(table, f) + i \in 1..Len(Line(table, row))
                 /\ Line(table, row)[Start(table, f) + i] = At(row[f].bytes, i)
           /\ row.host \in Word =>
                 \A i \in 1..Width(table, "origin") :
                    /\ Start(table, "origin") + i \in 1..Len(Line(table, row))
                    /\ Line(table, row)[Start(table, "origin") + i] = At(row.origin.bytes, i)
           /\ Start(table, "origin") <= Len(Line(table, row))
           /\ row.origin.bytes # <<>> =>
                 \E p \in 1..Len(Line(table, row)) :
                    Start(table, "origin") < p /\ Line(table, row)[p] # Blank
<1> DEFINE L == Line(table, row)
           c1 == Pad(row.ip, Width(table, "ip"))
           c2 == Pad(row.mac, Width(table, "mac"))
           c3 == Pad(row.host, Width(table, "host"))
           c4 == Pad(row.origin, Width(table, "origin"))
<1>1. PICK w1 \in Nat, w2 \in Nat, w3 \in Nat, w4 \in Nat :
         /\ w1 = Width(table, "ip") /\ w2 = Width(table, "mac")
         /\ w3 = Width(table, "host") /\ w4 = Width(table, "origin")
  BY WidthIs DEF Fields
<1>2. /\ row.ip \in Word /\ row.mac \in Word /\ row.host \in Text /\ row.origin \in Word
      /\ row.ip \in Text /\ row.mac \in Text /\ row.origin \in Text
      /\ row.ip.chars <= w1 /\ row.mac.chars <= w2 /\ row.host.chars <= w3
      /\ row.origin.chars <= w4
  BY <1>1 DEF Lease, Word, Fitted, Fields
<1>3. /\ c1 \in Bytes /\ Len(c1) = w1 /\ \A i \in 1..Len(c1) : c1[i] = At(row.ip.bytes, i)
      /\ c2 \in Bytes /\ Len(c2) = w2 /\ \A i \in 1..Len(c2) : c2[i] = At(row.mac.bytes, i)
  BY <1>1, <1>2, PadIs
<1>4. /\ c3 \in Bytes /\ w3 <= Len(c3) /\ \A i \in 1..Len(c3) : c3[i] = At(row.host.bytes, i)
      /\ row.host \in Word => Len(c3) = w3
  BY <1>1, <1>2, PadIs
<1>5. /\ c4 \in Bytes /\ Len(c4) = w4 /\ \A i \in 1..Len(c4) : c4[i] = At(row.origin.bytes, i)
      /\ Len(row.origin.bytes) <= Len(c4)
  BY <1>1, <1>2, PadIs
<1>6. L = Joined(c1, c2, c3, c4)
  BY DEF Line, Joined
<1> HIDE DEF L, c1, c2, c3, c4
<1>7. PICK a2 \in Nat, a3 \in Nat, a4 \in Nat : Spaced(L, c1, c2, c3, c4, a2, a3, a4)
  BY <1>3, <1>4, <1>5, <1>6, JoinedIs
<1>8. L \in Bytes /\ Len(L) \in Nat /\ Len(c3) \in Nat
  BY <1>3, <1>4, <1>5, <1>6, JoinedIs, LenBytes
<1>9. a2 = w1 + 2 /\ a3 = a2 + w2 + 2 /\ a4 = a3 + Len(c3) + 2 /\ Len(L) = a4 + w4
  BY <1>3, <1>5, <1>7 DEF Spaced
<1>10. /\ \A i \in 1..w1 : L[i] = c1[i]
       /\ \A i \in 1..w2 : L[a2 + i] = c2[i]
       /\ \A i \in 1..Len(c3) : L[a3 + i] = c3[i]
       /\ \A i \in 1..w4 : L[a4 + i] = c4[i]
  BY <1>3, <1>5, <1>7 DEF Spaced
<1>11. /\ Start(table, "ip") = 0 /\ Start(table, "mac") = a2 /\ Start(table, "host") = a3
       /\ Start(table, "origin") = a3 + w3 + 2
  BY <1>1, <1>9 DEF Start
<1>12. ASSUME NEW i \in 1..w1 PROVE i \in 1..Len(L) /\ L[0 + i] = At(row.ip.bytes, i)
  <2>1. 0 + i = i /\ i \in 1..Len(L)
    BY <1>8, <1>9
  <2> QED
    BY <2>1, <1>3, <1>10
<1>13. ASSUME NEW i \in 1..w2 PROVE a2 + i \in 1..Len(L) /\ L[a2 + i] = At(row.mac.bytes, i)
  <2>1. a2 + i \in 1..Len(L)
    BY <1>8, <1>9
  <2> QED
    BY <2>1, <1>3, <1>10
<1>14. ASSUME NEW i \in 1..w3 PROVE a3 + i \in 1..Len(L) /\ L[a3 + i] = At(row.host.bytes, i)
  <2>1. a3 + i \in 1..Len(L) /\ i \in 1..Len(c3)
    BY <1>4, <1>8, <1>9
  <2> QED
    BY <2>1, <1>4, <1>10
<1>15. ASSUME NEW f \in Fields \ {"origin"}, NEW i \in 1..Width(table, f)
       PROVE  /\ Start(table, f) + i \in 1..Len(L)
              /\ L[Start(table, f) + i] = At(row[f].bytes, i)
  <2>1. CASE f = "ip"
    <3>1. i \in 1..w1 /\ 0 + i = i
      BY <1>1, <1>15, <2>1
    <3> QED
      BY <1>11, <1>12, <2>1, <3>1
  <2>2. CASE f = "mac"
    BY <1>1, <1>11, <1>13, <2>2
  <2>3. CASE f = "host"
    BY <1>1, <1>11, <1>14, <2>3
  <2> QED
    BY <2>1, <2>2, <2>3 DEF Fields
<1>16. ASSUME NEW i \in 1..w4 PROVE a4 + i \in 1..Len(L) /\ L[a4 + i] = At(row.origin.bytes, i)
  <2>1. a4 + i \in 1..Len(L)
    BY <1>8, <1>9
  <2> QED
    BY <2>1, <1>5, <1>10
<1>17. row.host \in Word => a4 = Start(table, "origin")
  BY <1>4, <1>9, <1>11
<1>18. Start(table, "origin") <= a4 /\ Start(table, "origin") <= Len(L)
  BY <1>4, <1>8, <1>9, <1>11
<1>19. ASSUME row.origin.bytes # <<>>
       PROVE  \E p \in 1..Len(L) : Start(table, "origin") < p /\ L[p] # Blank
  <2>1. row.origin.bytes \in Bytes /\ Trim(row.origin.bytes) = row.origin.bytes
    BY <1>2, TextIs DEF Word
  <2>2. PICK i \in Solid(row.origin.bytes) : TRUE
    BY <1>19, <2>1 DEF Trim
  <2>3. i \in 1..Len(row.origin.bytes) /\ row.origin.bytes[i] # Blank
    BY <2>1, <2>2, LenBytes DEF Solid
  <2>4. i \in 1..w4 /\ At(row.origin.bytes, i) # Blank
    <3>1. Len(row.origin.bytes) \in Nat
      BY <2>1, LenBytes
    <3> QED
      BY <1>5, <2>3, <3>1 DEF At
  <2>5. a4 + i \in 1..Len(L) /\ L[a4 + i] # Blank
    BY <1>16, <2>4
  <2>6. Start(table, "origin") < a4 + i
    BY <1>11, <1>18, <2>4
  <2> QED
    BY <2>5, <2>6
<1> QED
  BY <1>1, <1>8, <1>15, <1>16, <1>17, <1>18, <1>19 DEF L

-------------------------------------------------------------------------------
(* The lines that the parser gets. *)
LEMMA LinesJoin ==
    ASSUME NEW s \in Seq(Bytes), NEW t \in Seq(Bytes)
    PROVE  /\ s \o t \in Seq(Bytes)
           /\ Len(s \o t) = Len(s) + Len(t)
           /\ \A i \in 1..Len(s) : (s \o t)[i] = s[i]
           /\ \A i \in 1..Len(t) : (s \o t)[Len(s) + i] = t[i]
OBVIOUS

LEMMA LineIsBytes ==
    ASSUME NEW table \in Seq(Lease)
    PROVE  /\ Line(table, Header) \in Bytes
           /\ \A k \in DOMAIN table : Line(table, table[k]) \in Bytes
<1>1. Fitted(table, Header) /\ \A k \in DOMAIN table : table[k] \in Lease /\ Fitted(table, table[k])
  BY RowFits
<1> QED
  BY <1>1, HeaderIs, LineIs

Printed(table, row) == IF trim THEN TrimRight(Line(table, row)) ELSE Line(table, row)

LEMMA PrintedIs ==
    ASSUME NEW table \in Seq(Lease), NEW row, Line(table, row) \in Bytes
    PROVE  Printed(table, row) \in Bytes /\ Cut(Printed(table, row), Line(table, row))
<1>1. Cut(TrimRight(Line(table, row)), Line(table, row)) /\ Cut(Line(table, row), Line(table, row))
  BY CutRight, CutItself
<1> QED
  BY <1>1 DEF Printed, Cut

LEMMA OutputIs ==
    ASSUME NEW table \in Seq(Lease)
    PROVE  /\ Output(table) \in Seq(Bytes)
           /\ Len(Output(table)) = Len(table) + 2
           /\ Output(table)[1] = Printed(table, Header)
           /\ Output(table)[2] = Rule(table)
           /\ \A k \in DOMAIN table : Output(table)[k + 2] = Printed(table, table[k])
<1> DEFINE h == <<Printed(table, Header), Rule(table)>>
           rows == [k \in DOMAIN table |-> Printed(table, table[k])]
<1>1. Rule(table) \in Bytes
  <2>1. TrimRight(Rule(table)) \in Bytes
    BY ColumnsOfTable DEF Cut
  <2> QED
    BY <2>1, ColumnsOfTable
<1>2. /\ Printed(table, Header) \in Bytes
      /\ \A k \in DOMAIN table : Printed(table, table[k]) \in Bytes
  BY LineIsBytes, PrintedIs
<1>3. PICK w \in Nat : h \in Seq(Bytes) /\ w = Len(h) /\ w = 2
  BY <1>1, <1>2
<1>4. h[1] = Printed(table, Header) /\ h[2] = Rule(table)
  OBVIOUS
<1>5. PICK n \in Nat : n = Len(table) /\ DOMAIN table = 1..n
  OBVIOUS
<1>6. rows \in Seq(Bytes) /\ Len(rows) = n
  BY <1>2, <1>5
<1>7. \A k \in 1..n : rows[k] = Printed(table, table[k])
  BY <1>5
<1>8. Output(table) = h \o rows
  BY DEF Output, Printed
<1>h. h \in Seq(Bytes) /\ w = Len(h)
  BY <1>3
<1> HIDE DEF h, rows
<1>9. /\ h \o rows \in Seq(Bytes) /\ Len(h \o rows) = w + n
      /\ \A i \in 1..w : (h \o rows)[i] = h[i]
      /\ \A i \in 1..n : (h \o rows)[w + i] = rows[i]
  BY <1>h, <1>6, LinesJoin
<1>10. (h \o rows)[1] = h[1] /\ (h \o rows)[2] = h[2]
  BY <1>3, <1>9
<1>11. \A i \in 1..n : (h \o rows)[i + 2] = rows[i]
  <2>1. \A i \in 1..n : w + i = i + 2
    BY <1>3
  <2> QED
    BY <1>9, <2>1
<1>12. Len(h \o rows) = n + 2
  BY <1>3, <1>9
<1> QED
  BY <1>4, <1>5, <1>7, <1>8, <1>9, <1>10, <1>11, <1>12

LEMMA LinesAre ==
    ASSUME NEW table \in Seq(Lease)
    PROVE  LET lines == Lines(Output(table)) IN
           /\ Len(table) \in Nat
           /\ Len(lines) = Len(table) + 2 /\ DOMAIN lines = 1..Len(table) + 2
           /\ lines[2] = Rule(table)
           /\ lines[1] \in Bytes /\ Cut(lines[1], Line(table, Header))
           /\ \A k \in DOMAIN table :
                 /\ lines[k + 2] \in Bytes
                 /\ Cut(lines[k + 2], Line(table, table[k]))
                 /\ ~trim /\ k # Len(table) => lines[k + 2] = Line(table, table[k])
<1>1. PICK n \in Nat : n = Len(table) /\ DOMAIN table = 1..n
  OBVIOUS
<1>2. PICK out \in Seq(Bytes) : out = Output(table)
  BY OutputIs
<1>3. /\ Len(out) = n + 2
      /\ out[1] = Printed(table, Header) /\ out[2] = Rule(table)
      /\ \A k \in 1..n : out[k + 2] = Printed(table, table[k])
  BY <1>1, <1>2, OutputIs
<1> DEFINE lines == Lines(out)
<1>4. /\ DOMAIN lines = 1..n + 2 /\ Len(lines) = n + 2
      /\ \A i \in 1..n + 2 : lines[i] = IF i = n + 2 THEN TrimRight(out[i]) ELSE out[i]
  <2>1. lines = [i \in 1..n + 2 |-> IF i = n + 2 THEN TrimRight(out[i]) ELSE out[i]]
    <3>1. DOMAIN out = 1..n + 2
      BY <1>3
    <3>2. lines = [out EXCEPT ![n + 2] = TrimRight(out[n + 2])]
      BY <1>3 DEF Lines
    <3> HIDE DEF lines
    <3> QED
      BY <3>1, <3>2, Zenon
  <2>2. n + 2 \in Nat
    OBVIOUS
  <2> HIDE DEF lines
  <2> QED
    BY <2>1, <2>2
<1> HIDE DEF lines
<1>5. \A i \in 1..n + 2 : out[i] \in Bytes
  BY <1>3
<1>6. \A i \in 1..n + 2 : lines[i] \in Bytes /\ Cut(lines[i], out[i])
  <2> TAKE i \in 1..n + 2
  <2>1. Cut(TrimRight(out[i]), out[i]) /\ Cut(out[i], out[i])
    BY <1>5, CutRight, CutItself
  <2>2. Cut(lines[i], out[i])
    BY <1>4, <2>1
  <2> QED
    BY <2>2 DEF Cut
<1>7. lines[2] = Rule(table)
  BY <1>3, <1>4, ColumnsOfTable
<1>8. Cut(lines[1], Line(table, Header)) /\ lines[1] \in Bytes
  <2>1. Cut(lines[1], out[1]) /\ lines[1] \in Bytes
    BY <1>6
  <2>2. Cut(out[1], Line(table, Header))
    BY <1>3, LineIsBytes, PrintedIs
  <2> QED
    BY <2>1, <2>2, LineIsBytes, CutTwice
<1>9. ASSUME NEW k \in 1..n
      PROVE  /\ lines[k + 2] \in Bytes
             /\ Cut(lines[k + 2], Line(table, table[k]))
             /\ ~trim /\ k # n => lines[k + 2] = Line(table, table[k])
  <2>1. k + 2 \in 1..n + 2 /\ (k # n => k + 2 # n + 2)
    OBVIOUS
  <2>2. Cut(lines[k + 2], out[k + 2]) /\ lines[k + 2] \in Bytes
    BY <1>6, <2>1
  <2>3. Cut(out[k + 2], Line(table, table[k]))
    BY <1>1, <1>3, LineIsBytes, PrintedIs
  <2>4. Cut(lines[k + 2], Line(table, table[k]))
    BY <1>1, <2>2, <2>3, LineIsBytes, CutTwice
  <2>5. ASSUME ~trim, k # n PROVE lines[k + 2] = Line(table, table[k])
    BY <1>3, <1>4, <2>1, <2>5 DEF Printed
  <2> QED
    BY <2>2, <2>4, <2>5
<1> QED
  BY <1>1, <1>2, <1>4, <1>7, <1>8, <1>9 DEF lines

(* A line whose last cell has something in it reaches that cell.           *)
LEMMA Reaches ==
    ASSUME NEW table \in Seq(Lease), NEW row \in Lease, Fitted(table, row),
           NEW t, Cut(t, Line(table, row)), row.origin.bytes # <<>>
    PROVE  Start(table, "origin") < Len(t)
<1>1. Line(table, row) \in Bytes /\ Start(table, "origin") \in Nat
  BY LineIs, StartIs DEF Fields
<1>2. PICK p \in 1..Len(Line(table, row)) :
         Start(table, "origin") < p /\ Line(table, row)[p] # Blank
  BY LineIs
<1>3. p <= Len(t)
  BY <1>1, <1>2, CutKeeps
<1>4. Len(t) \in Nat /\ p \in Nat
  BY <1>1, LenBytes DEF Cut
<1> QED
  BY <1>1, <1>2, <1>3, <1>4

LEMMA HeaderReaches ==
    ASSUME NEW table \in Seq(Lease)
    PROVE  Start(table, "origin") < Len(Lines(Output(table))[1])
<1>1. Cut(Lines(Output(table))[1], Line(table, Header))
  BY LinesAre
<1> QED
  BY <1>1, HeaderIs, RowFits, Reaches

(* The row of a table that a panic needs. *)
CutRow(table, k) == table[k].origin.bytes = Nothing /\ (trim \/ k = Len(table))

LEMMA PanicNeedsCutRow ==
    ASSUME NEW table \in Seq(Lease), Panics(Lines(Output(table)))
    PROVE  \E k \in DOMAIN table : CutRow(table, k)
<1>1. PICK lines : lines = Lines(Output(table))
  OBVIOUS
<1>2. PICK n \in Nat : n = Len(table) /\ DOMAIN table = 1..n
  OBVIOUS
<1>3. DOMAIN lines = 1..n + 2 /\ lines[2] = Rule(table)
  BY <1>1, <1>2, LinesAre
<1>4. PICK c \in Columns(Rule(table)), i \in 1..n + 2 : i # 2 /\ c.start > Len(lines[i])
  BY <1>1, <1>3 DEF Panics, OutOfRange
<1>5. PICK f \in Fields : c = Column(table, f)
  BY <1>4, ColumnsOfTable
<1>6. PICK start \in Nat : start = Start(table, "origin") /\ c.start \in Nat /\ c.start <= start
  BY <1>5, StartIs DEF Column, Fields
<1>7. i # 1
  <2>1. lines[1] \in Bytes /\ Len(lines[1]) \in Nat
    BY <1>1, LinesAre, LenBytes
  <2>2. start < Len(lines[1])
    BY <1>1, <1>6, HeaderReaches
  <2> QED
    BY <1>4, <1>6, <2>1, <2>2
<1>8. PICK k \in 1..n : i = k + 2
  <2>1. i - 2 \in 1..n /\ i = (i - 2) + 2
    BY <1>4, <1>7
  <2> QED
    BY <2>1
<1>9. /\ table[k] \in Lease /\ Fitted(table, table[k])
      /\ Cut(lines[i], Line(table, table[k])) /\ Len(lines[i]) \in Nat
      /\ ~trim /\ k # n => lines[i] = Line(table, table[k])
  BY <1>1, <1>2, <1>8, LinesAre, RowFits, LenBytes
<1>10. table[k].origin.bytes = <<>>
  <2>1. ASSUME table[k].origin.bytes # <<>> PROVE FALSE
    <3>1. start < Len(lines[i])
      BY <1>6, <1>9, <2>1, Reaches
    <3> QED
      BY <1>4, <1>6, <1>9, <3>1
  <2> QED
    BY <2>1
<1>11. ASSUME ~trim, k # n PROVE FALSE
  <2>1. lines[i] = Line(table, table[k])
    BY <1>9, <1>11
  <2>2. start <= Len(lines[i])
    BY <1>6, <1>9, <2>1, LineIs
  <2> QED
    BY <1>4, <1>6, <1>9, <2>2
<1> QED
  BY <1>2, <1>8, <1>10, <1>11 DEF CutRow, Nothing

-------------------------------------------------------------------------------
(* What a table reads as. *)
AsRead(table, text, f) == Trim(SubSeq(text.bytes, 1, Min({Len(text.bytes), Width(table, f)})))

LEMMA CellOf ==
    ASSUME NEW table \in Seq(Lease), NEW row \in Lease, Fitted(table, row),
           NEW f \in Fields, f = "origin" => row.host \in Word,
           NEW t \in Bytes, Cut(t, Line(table, row)), Start(table, f) <= Len(t)
    PROVE  Cell(t, Column(table, f)) = AsRead(table, row[f], f)
<1>1. PICK start \in Nat, w \in Nat : start = Start(table, f) /\ w = Width(table, f)
  BY StartIs
<1>2. PICK b \in Bytes : b = row[f].bytes
  BY LeaseIs, TextIs
<1>3. PICK L \in Bytes : L = Line(table, row)
  BY LineIs
<1>4. \A i \in 1..w : start + i \in 1..Len(L) /\ L[start + i] = At(b, i)
  <2>1. CASE f = "origin"
    BY <1>1, <1>2, <1>3, <2>1, LineIs
  <2>2. CASE f # "origin"
    BY <1>1, <1>2, <1>3, <2>2, LineIs
  <2> QED
    BY <2>1, <2>2
<1>5. Len(t) \in Nat /\ Len(L) \in Nat
  BY LenBytes
<1>6. Stands(b, t, start, w)
  <2> SUFFICES ASSUME NEW i \in 1..w
               PROVE  IF start + i <= Len(t) THEN t[start + i] = At(b, i) ELSE At(b, i) = Blank
    BY DEF Stands
  <2>1. start + i \in 1..Len(L) /\ L[start + i] = At(b, i)
    BY <1>4
  <2>2. CASE start + i <= Len(t)
    <3>1. start + i \in 1..Len(t)
      BY <1>5, <2>1, <2>2
    <3> QED
      BY <1>3, <2>1, <2>2, <3>1 DEF Cut
  <2>3. CASE ~(start + i <= Len(t))
    <3>1. start + i \in Len(t) + 1..Len(L)
      BY <1>5, <2>1, <2>3
    <3> QED
      BY <1>3, <2>1, <2>3, <3>1 DEF Cut
  <2> QED
    BY <2>2, <2>3
<1>7. PICK c : c = Column(table, f) /\ c.start = start /\ c.end = start + w
  <2>1. PICK c : c = [start |-> start, end |-> start + w]
    OBVIOUS
  <2>2. c = Column(table, f) /\ c.start = start /\ c.end = start + w
    BY <1>1, <2>1 DEF Column
  <2> QED
    BY <2>2
<1>8. start <= Len(t)
  BY <1>1
<1>9. c.start = start /\ c.end = start + w
  BY <1>7
<1>10. Cell(t, c) = Trim(SubSeq(b, 1, Min({Len(b), w})))
  BY <1>6, <1>8, <1>9, CellIs
<1> QED
  BY <1>1, <1>2, <1>7, <1>10 DEF AsRead

(* A word is read as it is. *)
LEMMA WordIsRead ==
    ASSUME NEW table \in Seq(Lease), NEW f \in Fields, NEW text \in Word,
           text.chars <= Width(table, f)
    PROVE  AsRead(table, text, f) = text.bytes
<1>1. /\ text.bytes \in Bytes /\ Trim(text.bytes) = text.bytes
      /\ Len(text.bytes) <= Width(table, f) /\ Width(table, f) \in Nat
  BY TextIs, WidthIs DEF Word
<1>2. SubSeq(text.bytes, 1, Min({Len(text.bytes), Width(table, f)})) = text.bytes
  BY <1>1, WholeText
<1> QED
  BY <1>1, <1>2 DEF AsRead

LEMMA HeaderIsRead ==
    ASSUME NEW table \in Seq(Lease), NEW f \in Fields
    PROVE  Cell(Lines(Output(table))[1], Column(table, f)) = Header[f].bytes
<1>1. PICK t \in Bytes : t = Lines(Output(table))[1] /\ Cut(t, Line(table, Header))
  BY LinesAre
<1>2. Start(table, f) <= Len(t)
  <2>1. PICK m \in Nat, n \in Nat, k \in Nat :
           m = Start(table, f) /\ n = Start(table, "origin") /\ k = Len(t)
    BY StartIs, LenBytes DEF Fields
  <2>2. m <= n
    BY <2>1, StartIs
  <2>3. n < k
    BY <1>1, <2>1, HeaderReaches
  <2> QED
    BY <2>1, <2>2, <2>3
<1>3. /\ Header \in Lease /\ Fitted(table, Header) /\ Header.host \in Word
      /\ Header[f] \in Word /\ Header[f].chars <= Width(table, f)
  <2>1. Header \in Lease /\ Fitted(table, Header) /\ Header.host \in Word
    BY HeaderIs, RowFits
  <2>2. Header[f] \in Word
    BY <2>1, LeaseIs
  <2> QED
    BY <2>1, <2>2 DEF Fitted
<1>4. Cell(t, Column(table, f)) = AsRead(table, Header[f], f)
  BY <1>1, <1>2, <1>3, CellOf
<1> QED
  BY <1>1, <1>3, <1>4, WordIsRead

(* A header finds its column. *)
LEMMA FieldIs ==
    ASSUME NEW table \in Seq(Lease), NEW f \in Fields, NEW line
    PROVE  Field(Lines(Output(table)), line, Header[f].bytes) = Cell(line, Column(table, f))
<1>1. PICK lines : lines = Lines(Output(table)) /\ lines[2] = Rule(table)
  BY LinesAre
<1> DEFINE fitting == {c \in Columns(lines[2]) : Cell(lines[1], c) = Header[f].bytes}
<1>2. \A g \in Fields : Header[g].bytes = Header[f].bytes => g = f
  BY DEF Fields, Header, Ascii
<1>3. \A g \in Fields : Cell(lines[1], Column(table, g)) = Header[g].bytes
  BY <1>1, HeaderIsRead
<1>4. fitting = {Column(table, f)}
  <2>1. Column(table, f) \in fitting
    BY <1>1, <1>3, ColumnsOfTable
  <2>2. ASSUME NEW c \in fitting PROVE c = Column(table, f)
    <3>1. PICK g \in Fields : c = Column(table, g)
      BY <1>1, ColumnsOfTable
    <3> QED
      BY <1>2, <1>3, <3>1
  <2> HIDE DEF fitting
  <2> QED
    BY <2>1, <2>2
<1>5. Column(table, f).end \in Nat
  <2>1. Start(table, f) \in Nat /\ Width(table, f) \in Nat
    BY StartIs
  <2> QED
    BY <2>1 DEF Column
<1>6. Field(lines, line, Header[f].bytes)
        = Cell(line, CHOOSE c \in fitting : \A d \in fitting : d.end <= c.end)
  BY <1>4 DEF Field
<1> HIDE DEF fitting
<1>7. (CHOOSE c \in fitting : \A d \in fitting : d.end <= c.end) = Column(table, f)
  <2>1. \E c \in fitting : \A d \in fitting : d.end <= c.end
    BY <1>4, <1>5
  <2>2. (CHOOSE c \in fitting : \A d \in fitting : d.end <= c.end) \in fitting
    BY <2>1
  <2> QED
    BY <1>4, <2>2
<1> QED
  BY <1>1, <1>6, <1>7

(* A table that does not end the process reads back as what was printed:   *)
(* every lease, in order, with its address and its hardware address        *)
(* whole, and of its name as many bytes as its column has characters       *)
(* (LeasesFromShowOutput over TabulateParse, whatever the router trims).   *)
THEOREM TableReadsBack ==
    ASSUME NEW table \in Seq(Lease), ~Panics(Lines(Output(table)))
    PROVE  LeasesFromShowOutput(Lines(Output(table)))
             = [k \in DOMAIN table |->
                  [ip |-> table[k].ip.bytes, mac |-> table[k].mac.bytes,
                   host |-> AsRead(table, table[k].host, "host"), v6 |-> Nil]]
<1>1. PICK lines : lines = Lines(Output(table))
  OBVIOUS
<1>2. PICK n \in Nat : n = Len(table) /\ DOMAIN table = 1..n
  OBVIOUS
<1>3. Len(lines) = n + 2 /\ DOMAIN lines = 1..n + 2 /\ lines[2] = Rule(table)
  BY <1>1, <1>2, LinesAre
<1>4. ASSUME NEW k \in 1..n, NEW f \in Fields \ {"origin"}
      PROVE  Field(lines, lines[k + 2], Header[f].bytes) = AsRead(table, table[k][f], f)
  <2>1. PICK t \in Bytes : t = lines[k + 2] /\ Cut(t, Line(table, table[k]))
    BY <1>1, <1>2, LinesAre
  <2>2. Start(table, f) <= Len(t)
    <3>1. Column(table, f) \in Columns(lines[2])
      BY <1>3, ColumnsOfTable
    <3>2. k + 2 \in DOMAIN lines \ {2} /\ ~(Len(lines) < 2)
      BY <1>3
    <3>3. ~(Column(table, f).start > Len(t))
      BY <1>1, <2>1, <3>1, <3>2 DEF Panics, OutOfRange, TooShort
    <3>4. Column(table, f).start = Start(table, f)
      BY DEF Column
    <3>5. Start(table, f) \in Nat /\ Len(t) \in Nat
      BY StartIs, LenBytes
    <3> QED
      BY <3>3, <3>4, <3>5
  <2>3. table[k] \in Lease /\ Fitted(table, table[k])
    BY <1>2, RowFits
  <2>4. Cell(t, Column(table, f)) = AsRead(table, table[k][f], f)
    BY <2>1, <2>2, <2>3, CellOf
  <2>5. Field(lines, t, Header[f].bytes) = Cell(t, Column(table, f))
    BY <1>1, FieldIs
  <2> QED
    BY <2>1, <2>4, <2>5
<1>5. ASSUME NEW k \in 1..n
      PROVE  /\ Field(lines, lines[k + 2], Header.ip.bytes) = table[k].ip.bytes
             /\ Field(lines, lines[k + 2], Header.mac.bytes) = table[k].mac.bytes
             /\ Field(lines, lines[k + 2], Header.host.bytes)
                  = AsRead(table, table[k].host, "host")
  <2>1. /\ Field(lines, lines[k + 2], Header.ip.bytes) = AsRead(table, table[k].ip, "ip")
        /\ Field(lines, lines[k + 2], Header.mac.bytes) = AsRead(table, table[k].mac, "mac")
        /\ Field(lines, lines[k + 2], Header.host.bytes)
             = AsRead(table, table[k].host, "host")
    BY <1>4 DEF Fields
  <2>2. /\ table[k].ip \in Word /\ table[k].mac \in Word
        /\ table[k].ip.chars <= Width(table, "ip") /\ table[k].mac.chars <= Width(table, "mac")
    <3>1. table[k] \in Lease /\ Fitted(table, table[k])
      BY <1>2, RowFits
    <3>2. table[k].ip \in Word /\ table[k].mac \in Word
      BY <3>1 DEF Lease
    <3> QED
      BY <3>1, <3>2 DEF Fitted, Fields
  <2>3. /\ AsRead(table, table[k].ip, "ip") = table[k].ip.bytes
        /\ AsRead(table, table[k].mac, "mac") = table[k].mac.bytes
    BY <2>2, WordIsRead DEF Fields
  <2> QED
    BY <2>1, <2>3
<1>6. 1..Len(lines) - 2 = DOMAIN table
  BY <1>2, <1>3
<1> QED
  BY <1>1, <1>2, <1>5, <1>6, Zenon DEF LeasesFromShowOutput

-------------------------------------------------------------------------------
(* What a line of neighbours reads as: one word after the other. *)
First(w) == [to |-> w, after |-> Nothing, lladdr |-> Nothing, nud |-> Nothing]
IsParse(f, words) ==
    f = [i \in 1..Len(words) |-> IF i = 1 THEN First(words[1]) ELSE Parsed(f[i - 1], words[i])]

LEMMA ParseIs ==
    ASSUME NEW words, NEW g, IsParse(g, words)
    PROVE  \E f : IsParse(f, words) /\ ParseNeighborLine(words) = f[Len(words)]
<1> DEFINE f == CHOOSE f : f = [i \in 1..Len(words) |-> IF i = 1 THEN First(words[1])
                                ELSE Parsed(f[i - 1], words[i])]
<1>1. IsParse(f, words)
  BY Zenon DEF IsParse
<1>2. ParseNeighborLine(words) = f[Len(words)]
  BY Zenon DEF ParseNeighborLine, First
<1> QED
  BY <1>1, <1>2

(* A line read so far: what it says, and what the next word belongs to.    *)
SoFar(to, after, l, d) == [to |-> to, after |-> after, lladdr |-> l, nud |-> d]

LEMMA WordsDiffer ==
    /\ <<"dev">> # <<"lladdr">> /\ <<"dev">> # Nothing /\ <<"lladdr">> # Nothing
    /\ <<"dev">> \notin Nuds /\ <<"lladdr">> \notin Nuds /\ Nothing \notin Nuds
BY DEF Nothing, Nuds

LEMMA WordByWord ==
    ASSUME NEW to, NEW l, NEW d
    PROVE  /\ Parsed(SoFar(to, Nothing, l, d), <<"dev">>) = SoFar(to, <<"dev">>, l, d)
           /\ Parsed(SoFar(to, Nothing, l, d), <<"lladdr">>) = SoFar(to, <<"lladdr">>, l, d)
           /\ Parsed(SoFar(to, Nothing, l, d), Nothing) = SoFar(to, Nothing, l, d)
           /\ \A w \in Nuds : Parsed(SoFar(to, Nothing, l, d), w) = SoFar(to, Nothing, l, w)
           /\ \A w : /\ Parsed(SoFar(to, <<"dev">>, l, d), w) = SoFar(to, Nothing, l, d)
                     /\ Parsed(SoFar(to, <<"lladdr">>, l, d), w) = SoFar(to, Nothing, w, d)
<1>1. Parsed(SoFar(to, Nothing, l, d), <<"dev">>) = SoFar(to, <<"dev">>, l, d)
  BY WordsDiffer DEF Parsed, SoFar
<1>2. Parsed(SoFar(to, Nothing, l, d), <<"lladdr">>) = SoFar(to, <<"lladdr">>, l, d)
  BY WordsDiffer DEF Parsed, SoFar
<1>3. Parsed(SoFar(to, Nothing, l, d), Nothing) = SoFar(to, Nothing, l, d)
  BY WordsDiffer DEF Parsed, SoFar
<1>4. ASSUME NEW w \in Nuds PROVE Parsed(SoFar(to, Nothing, l, d), w) = SoFar(to, Nothing, l, w)
  <2>1. w # <<"dev">> /\ w # <<"lladdr">>
    BY WordsDiffer
  <2> QED
    BY <2>1, WordsDiffer DEF Parsed, SoFar
<1>5. ASSUME NEW w PROVE Parsed(SoFar(to, <<"dev">>, l, d), w) = SoFar(to, Nothing, l, d)
  BY WordsDiffer DEF Parsed, SoFar
<1>6. ASSUME NEW w PROVE Parsed(SoFar(to, <<"lladdr">>, l, d), w) = SoFar(to, Nothing, w, d)
  BY WordsDiffer DEF Parsed, SoFar
<1> QED
  BY <1>1, <1>2, <1>3, <1>4, <1>5, <1>6

(* A neighbour reads as itself, with the hardware address it was seen at.  *)
LEMMA NeighborReadsBack ==
    ASSUME NEW n \in Neighbor
    PROVE  ParseNeighborLine(NeighborWords(n)) = SoFar(n.to, Nothing, n.lladdr, n.nud)
<1>0. n.nud \in Nuds
  BY DEF Neighbor
<1> DEFINE words == NeighborWords(n)
           s1 == SoFar(n.to, Nothing, Nothing, Nothing)
           s2 == SoFar(n.to, <<"dev">>, Nothing, Nothing)
           s4 == SoFar(n.to, <<"lladdr">>, Nothing, Nothing)
           s5 == SoFar(n.to, Nothing, n.lladdr, Nothing)
           s6 == SoFar(n.to, Nothing, n.lladdr, n.nud)
<1>1. First(n.to) = s1
  BY DEF First, SoFar
<1>2. /\ Parsed(s1, <<"dev">>) = s2 /\ Parsed(s2, <<"eth0">>) = s1
      /\ Parsed(s1, <<"lladdr">>) = s4 /\ Parsed(s4, n.lladdr) = s5 /\ Parsed(s5, n.nud) = s6
      /\ Parsed(s1, Nothing) = s1
  BY <1>0, WordByWord
<1>3. CASE n.lladdr = Nothing
  <2> DEFINE g == [i \in 1..5 |-> IF i = 2 THEN s2 ELSE IF i = 5 THEN s6 ELSE s1]
  <2>1. words = <<n.to, <<"dev">>, <<"eth0">>, Nothing, n.nud>> /\ s5 = s1
    BY <1>3 DEF NeighborWords
  <2>2. /\ Len(words) = 5 /\ words[1] = n.to /\ words[2] = <<"dev">>
        /\ words[3] = <<"eth0">> /\ words[4] = Nothing /\ words[5] = n.nud
    BY <2>1
  <2> HIDE DEF words, s1, s2, s4, s5, s6
  <2>3. ASSUME NEW i \in 1..5
        PROVE  g[i] = IF i = 1 THEN First(words[1]) ELSE Parsed(g[i - 1], words[i])
    <3>1. i = 1 \/ i = 2 \/ i = 3 \/ i = 4 \/ i = 5
      OBVIOUS
    <3>2. CASE i = 1
      BY <1>1, <2>2, <3>2
    <3>3. CASE i = 2
      BY <1>2, <2>2, <3>3
    <3>4. CASE i = 3
      BY <1>2, <2>2, <3>4
    <3>5. CASE i = 4
      BY <1>2, <2>2, <3>5
    <3>6. CASE i = 5
      BY <1>2, <2>1, <2>2, <3>6
    <3> QED
      BY <3>1, <3>2, <3>3, <3>4, <3>5, <3>6
  <2>4. IsParse(g, words)
    <3>1. g = [i \in 1..5 |-> g[i]]
      OBVIOUS
    <3> HIDE DEF g
    <3> QED
      BY <2>2, <2>3, <3>1, Zenon DEF IsParse
  <2> HIDE DEF g
  <2>5. PICK f : IsParse(f, words) /\ ParseNeighborLine(words) = f[Len(words)]
    BY <2>4, ParseIs
  <2>6. \A i \in 1..5 : f[i] = IF i = 1 THEN First(words[1]) ELSE Parsed(f[i - 1], words[i])
    BY <2>2, <2>5, Zenon DEF IsParse
  <2>7. f[1] = s1
    BY <1>1, <2>2, <2>6
  <2>8. f[2] = s2
    BY <1>2, <2>2, <2>6, <2>7
  <2>9. f[3] = s1
    BY <1>2, <2>2, <2>6, <2>8
  <2>10. f[4] = s1
    BY <1>2, <2>2, <2>6, <2>9
  <2>11. f[5] = s6
    BY <1>2, <2>1, <2>2, <2>6, <2>10
  <2> QED
    BY <2>2, <2>5, <2>11 DEF words, s6
<1>4. CASE n.lladdr # Nothing
  <2> DEFINE g == [i \in 1..6 |-> IF i = 2 THEN s2 ELSE IF i = 4 THEN s4 ELSE
                                  IF i = 5 THEN s5 ELSE IF i = 6 THEN s6 ELSE s1]
  <2>1. words = <<n.to, <<"dev">>, <<"eth0">>, <<"lladdr">>, n.lladdr, n.nud>>
    BY <1>4 DEF NeighborWords
  <2>2. /\ Len(words) = 6 /\ words[1] = n.to /\ words[2] = <<"dev">>
        /\ words[3] = <<"eth0">> /\ words[4] = <<"lladdr">>
        /\ words[5] = n.lladdr /\ words[6] = n.nud
    BY <2>1
  <2> HIDE DEF words, s1, s2, s4, s5, s6
  <2>3. ASSUME NEW i \in 1..6
        PROVE  g[i] = IF i = 1 THEN First(words[1]) ELSE Parsed(g[i - 1], words[i])
    <3>1. i = 1 \/ i = 2 \/ i = 3 \/ i = 4 \/ i = 5 \/ i = 6
      OBVIOUS
    <3>2. CASE i = 1
      BY <1>1, <2>2, <3>2
    <3>3. CASE i = 2
      BY <1>2, <2>2, <3>3
    <3>4. CASE i = 3
      BY <1>2, <2>2, <3>4
    <3>5. CASE i = 4
      BY <1>2, <2>2, <3>5
    <3>6. CASE i = 5
      BY <1>2, <2>2, <3>6
    <3>7. CASE i = 6
      BY <1>2, <2>2, <3>7
    <3> QED
      BY <3>1, <3>2, <3>3, <3>4, <3>5, <3>6, <3>7
  <2>4. IsParse(g, words)
    <3>1. g = [i \in 1..6 |-> g[i]]
      OBVIOUS
    <3> HIDE DEF g
    <3> QED
      BY <2>2, <2>3, <3>1, Zenon DEF IsParse
  <2> HIDE DEF g
  <2>5. PICK f : IsParse(f, words) /\ ParseNeighborLine(words) = f[Len(words)]
    BY <2>4, ParseIs
  <2>6. \A i \in 1..6 : f[i] = IF i = 1 THEN First(words[1]) ELSE Parsed(f[i - 1], words[i])
    BY <2>2, <2>5, Zenon DEF IsParse
  <2>7. f[1] = s1
    BY <1>1, <2>2, <2>6
  <2>8. f[2] = s2
    BY <1>2, <2>2, <2>6, <2>7
  <2>9. f[3] = s1
    BY <1>2, <2>2, <2>6, <2>8
  <2>10. f[4] = s4
    BY <1>2, <2>2, <2>6, <2>9
  <2>11. f[5] = s5
    BY <1>2, <2>2, <2>6, <2>10
  <2>12. f[6] = s6
    BY <1>2, <2>2, <2>6, <2>11
  <2> QED
    BY <2>2, <2>5, <2>12 DEF words, s6
<1> QED
  BY <1>3, <1>4

(* The empty line at the end reads as a neighbour without an address.      *)
LEMMA EmptyLine == ParseNeighborLine(<<Nothing>>).to = Nothing
<1> DEFINE words == <<Nothing>>
           g == [i \in 1..1 |-> First(Nothing)]
<1>1. Len(words) = 1 /\ words[1] = Nothing
  OBVIOUS
<1> HIDE DEF words
<1>2. \A i \in 1..1 : g[i] = IF i = 1 THEN First(words[1]) ELSE Parsed(g[i - 1], words[i])
  BY <1>1
<1>3. IsParse(g, words)
  BY <1>1, <1>2, Zenon DEF IsParse
<1> HIDE DEF g
<1>4. PICK f : IsParse(f, words) /\ ParseNeighborLine(words) = f[Len(words)]
  BY <1>3, ParseIs
<1>5. \A i \in 1..1 : f[i] = IF i = 1 THEN First(words[1]) ELSE Parsed(f[i - 1], words[i])
  BY <1>1, <1>4, Zenon DEF IsParse
<1>6. f[1] = First(Nothing)
  BY <1>1, <1>5
<1> QED
  BY <1>1, <1>4, <1>6 DEF words, First

-------------------------------------------------------------------------------
(* The addresses of a lease. *)
Listed(ip, mac, host, v6) == [ip |-> ip, mac |-> mac, host |-> host, v6 |-> v6]

LEMMA SeenIs ==
    ASSUME NEW ns \in Seq(Neighbor), NEW lease, lease.mac.bytes \in DOMAIN Fold,
           NEW l, l.mac = lease.mac.bytes
    PROVE  Seen(lease, ns) = {n.to : n \in {m \in ParseNeighborLines(ns) :
                                              /\ m.to # Nothing /\ m.to \notin LinkLocal
                                              /\ FoldOf(m.lladdr) = FoldOf(l.mac)
                                              /\ Counts(m)}}
<1> DEFINE P(k) == ParseNeighborLine(NeighborWords(ns[k]))
           own == {m \in ParseNeighborLines(ns) :
                     /\ m.to # Nothing /\ m.to \notin LinkLocal
                     /\ FoldOf(m.lladdr) = FoldOf(l.mac)
                     /\ Counts(m)}
           Is(k) == /\ Fold[ns[k].lladdr] = Fold[lease.mac.bytes]
                    /\ ns[k].nud \in {<<"REACHABLE">>, <<"STALE">>}
                    /\ ns[k].to \notin LinkLocal
<1>1. ASSUME NEW k \in DOMAIN ns
      PROVE  /\ P(k) = SoFar(ns[k].to, Nothing, ns[k].lladdr, ns[k].nud)
             /\ ns[k].to # Nothing /\ ns[k].lladdr \in DOMAIN Fold
  <2>1. ns[k] \in Neighbor
    OBVIOUS
  <2>2. ns[k].to # Nothing /\ ns[k].lladdr \in DOMAIN Fold
    BY <2>1 DEF Neighbor
  <2> QED
    BY <2>1, <2>2, NeighborReadsBack
<1>2. \A k \in DOMAIN ns : /\ P(k).to = ns[k].to /\ P(k).lladdr = ns[k].lladdr
                           /\ P(k).nud = ns[k].nud
  BY <1>1 DEF SoFar
<1>3. FoldOf(l.mac) = Fold[lease.mac.bytes]
  BY DEF FoldOf
<1>4. \A k \in DOMAIN ns : FoldOf(P(k).lladdr) = Fold[ns[k].lladdr]
  BY <1>1, <1>2 DEF FoldOf
<1>5. ParseNeighborLines(ns) = {P(k) : k \in DOMAIN ns} \cup {ParseNeighborLine(<<Nothing>>)}
  BY DEF ParseNeighborLines
<1>6. Seen(lease, ns) = {ns[k].to : k \in {j \in DOMAIN ns : Is(j)}}
  BY DEF Seen
<1> HIDE DEF P
<1>7. \A k \in DOMAIN ns : Is(k) <=> P(k) \in own
  BY <1>1, <1>2, <1>3, <1>4, <1>5 DEF Counts
<1>8. \A m \in own : \E k \in DOMAIN ns : m = P(k)
  BY <1>5, EmptyLine
<1> HIDE DEF own, Is
<1>9. {ns[k].to : k \in {j \in DOMAIN ns : Is(j)}} = {n.to : n \in own}
  <2>1. ASSUME NEW k \in DOMAIN ns, Is(k) PROVE ns[k].to \in {n.to : n \in own}
    BY <1>2, <1>7, <2>1
  <2>2. ASSUME NEW m \in own PROVE m.to \in {ns[k].to : k \in {j \in DOMAIN ns : Is(j)}}
    BY <1>2, <1>7, <1>8
  <2> QED
    BY <2>1, <2>2
<1> QED
  BY <1>6, <1>9 DEF own

LEMMA AssociatedIs ==
    ASSUME NEW ns \in Seq(Neighbor), NEW lease, lease.mac.bytes \in DOMAIN Fold, NEW ip, NEW host
    PROVE  LET l == Listed(ip, lease.mac.bytes, host, Nil)
               a == AssociatePotentialIPv6s(l, ParseNeighborLines(ns))
               seen == Seen(lease, ns)
           IN /\ a = Listed(ip, lease.mac.bytes, host, IF seen = {} THEN Nil ELSE seen)
              /\ LeaseToEndpoint(a)
                   = [ip |-> ip, host |-> host, v6 |-> IF collect THEN seen ELSE Nil]
              /\ seen # Nil
<1>1. PICK l : l = Listed(ip, lease.mac.bytes, host, Nil) /\ l.mac = lease.mac.bytes
  <2>1. Listed(ip, lease.mac.bytes, host, Nil).mac = lease.mac.bytes
    BY DEF Listed
  <2> QED
    BY <2>1
<1> DEFINE own == {m \in ParseNeighborLines(ns) :
                     /\ m.to # Nothing /\ m.to \notin LinkLocal
                     /\ FoldOf(m.lladdr) = FoldOf(l.mac)
                     /\ Counts(m)}
           seen == Seen(lease, ns)
           a == AssociatePotentialIPv6s(l, ParseNeighborLines(ns))
<1>2. seen = {n.to : n \in own}
  <2>1. l.mac = lease.mac.bytes
    BY <1>1
  <2> QED
    BY <2>1, SeenIs
<1>3. a = [l EXCEPT !.v6 = IF own = {} THEN Nil ELSE {n.to : n \in own}]
  BY DEF AssociatePotentialIPv6s
<1>4. \A m \in own : m.to # Nothing
  OBVIOUS
<1> HIDE DEF own, seen, a
<1>5. (seen = {} <=> own = {}) /\ Nothing \notin seen
  BY <1>2, <1>4
<1>6. seen # Nil
  BY <1>5 DEF Nil
<1>7. a = Listed(ip, lease.mac.bytes, host, IF seen = {} THEN Nil ELSE seen)
  BY <1>1, <1>2, <1>3, <1>5 DEF Listed
<1>8. LeaseToEndpoint(a) = [ip |-> ip, host |-> host, v6 |-> IF collect THEN seen ELSE Nil]
  <2>1. /\ a.ip = ip /\ a.host = host
        /\ a.v6 = IF seen = {} THEN Nil ELSE seen
    BY <1>7 DEF Listed
  <2>2. (IF ~collect THEN Nil ELSE IF a.v6 = Nil THEN {} ELSE a.v6)
          = IF collect THEN seen ELSE Nil
    BY <1>6, <2>1
  <2> QED
    BY <2>1, <2>2 DEF LeaseToEndpoint
<1> QED
  BY <1>1, <1>6, <1>7, <1>8 DEF seen, a

-------------------------------------------------------------------------------
(* What is answered, of what the router held. *)
ReadIn(version, table, text, f) ==
    IF version = "equuleus" THEN text.bytes ELSE AsRead(table, text, f)
ListedIn(version, table) ==
    [k \in DOMAIN table |->
        Listed(ReadIn(version, table, table[k].ip, "ip"), table[k].mac.bytes,
               ReadIn(version, table, table[k].host, "host"), Nil)]
EndpointsOf(version, table, ns, collected) ==
    [k \in DOMAIN table |->
        [ip |-> ReadIn(version, table, table[k].ip, "ip"),
         host |-> ReadIn(version, table, table[k].host, "host"),
         v6 |-> IF collected THEN Seen(table[k], ns) ELSE Nil]]
Held(table) ==
    table \in Seq(Lease) /\ \A k \in DOMAIN table : table[k].mac.bytes \in DOMAIN Fold

(* The inductive invariant. *)
Setting ==
    /\ collect \in CollectModes
    /\ trim \in Trims
    /\ router \in Routers
    /\ pc \in {"idle", "strategy", "equuleus", "sagitta", "neighbours", "dead"}
    /\ conn \in BOOLEAN
    /\ outcome \in {"none", "ok", "error"}
    /\ Held(leasesThen)
    /\ neighboursThen \in Seq(Neighbor)
    /\ \A k \in DOMAIN leases : DOMAIN leases[k] = {"ip", "mac", "host", "v6"}
VersionAsked == pc \in {"equuleus", "sagitta"} => pc = router.version
Unanswered == pc # "idle" => outcome = "none"
LeasesAsListed == pc = "neighbours" => leases = ListedIn(router.version, leasesThen)
Answered ==
    answer = IF outcome = "ok"
             THEN EndpointsOf(router.version, leasesThen, neighboursThen, collect) ELSE <<>>

HeardSoFar ==
    /\ heard \subseteq {"leases", "neighbours"}
    /\ pc \in {"strategy", "equuleus", "sagitta"} => heard = {}
    /\ pc = "neighbours" => collect /\ heard = {"leases"}
    /\ AllHeard

IInv ==
    /\ Setting /\ VersionAsked /\ Unanswered /\ LeasesAsListed /\ Answered /\ HeardSoFar
    /\ ConnectionsClosed /\ PanicsExplained

LEMMA RouterIs ==
    ASSUME NEW r \in Routers
    PROVE  /\ r.version \in Versions /\ Held(r.leases) /\ r.neighbours \in Seq(Neighbor)
BY RoutersAssumption DEF Held

(* Whichever way the leases were asked for, they come as the router held   *)
(* them.                                                                   *)
LEMMA JSONReadsBack ==
    ASSUME NEW table
    PROVE  LeasesFromJSON(table) = ListedIn("equuleus", table)
BY DEF LeasesFromJSON, ListedIn, ReadIn, Listed

LEMMA ShownReadsBack ==
    ASSUME NEW table \in Seq(Lease), ~Panics(Lines(Output(table)))
    PROVE  LeasesFromShowOutput(Lines(Output(table))) = ListedIn("sagitta", table)
<1>1. ASSUME NEW k \in DOMAIN table
      PROVE  /\ ReadIn("sagitta", table, table[k].ip, "ip") = table[k].ip.bytes
             /\ ReadIn("sagitta", table, table[k].host, "host") = AsRead(table, table[k].host, "host")
  <2>1. table[k].ip \in Word /\ table[k].ip.chars <= Width(table, "ip")
    <3>1. table[k] \in Lease /\ Fitted(table, table[k])
      BY RowFits
    <3>2. table[k].ip \in Word
      BY <3>1 DEF Lease
    <3> QED
      BY <3>1, <3>2 DEF Fitted, Fields
  <2>2. AsRead(table, table[k].ip, "ip") = table[k].ip.bytes
    BY <2>1, WordIsRead DEF Fields
  <2> QED
    BY <2>2 DEF ReadIn
<1>2. LeasesFromShowOutput(Lines(Output(table)))
        = [k \in DOMAIN table |->
             [ip |-> table[k].ip.bytes, mac |-> table[k].mac.bytes,
              host |-> AsRead(table, table[k].host, "host"), v6 |-> Nil]]
  BY TableReadsBack
<1> QED
  BY <1>1, <1>2, Zenon DEF ListedIn, Listed

LEMMA GotIs ==
    ASSUME IInv, GetLeasesEquuleus \/ GetLeasesSagitta
    PROVE  Got(ListedIn(router.version, router.leases)) /\ pc \in {"equuleus", "sagitta"}
<1>1. router.leases \in Seq(Lease)
  BY RouterIs DEF IInv, Setting, Held
<1>2. CASE GetLeasesEquuleus
  <2>1. router.version = "equuleus" /\ pc = "equuleus"
    BY <1>2 DEF IInv, VersionAsked, GetLeasesEquuleus
  <2>2. Got(LeasesFromJSON(router.leases))
    BY <1>2 DEF GetLeasesEquuleus
  <2>3. LeasesFromJSON(router.leases) = ListedIn(router.version, router.leases)
    BY <2>1, JSONReadsBack
  <2> QED
    BY <2>1, <2>2, <2>3
<1>3. CASE GetLeasesSagitta
  <2>1. router.version = "sagitta" /\ pc = "sagitta"
    BY <1>3 DEF IInv, VersionAsked, GetLeasesSagitta
  <2>2. /\ ~Panics(Lines(Output(router.leases)))
        /\ Got(LeasesFromShowOutput(Lines(Output(router.leases))))
    BY <1>3 DEF GetLeasesSagitta
  <2>3. LeasesFromShowOutput(Lines(Output(router.leases)))
          = ListedIn(router.version, router.leases)
    BY <1>1, <2>1, <2>2, ShownReadsBack
  <2> QED
    BY <2>1, <2>2, <2>3
<1> QED
  BY <1>2, <1>3

(* The endpoints of the leases alone, and of leases and neighbours.        *)
LEMMA LeasesAnswer ==
    ASSUME NEW version, NEW table, NEW ns, ~collect
    PROVE  LET ls == ListedIn(version, table) IN
           [k \in DOMAIN ls |-> LeaseToEndpoint(ls[k])] = EndpointsOf(version, table, ns, collect)
BY DEF ListedIn, EndpointsOf, LeaseToEndpoint, Listed

LEMMA NeighborsAnswer ==
    ASSUME NEW version, NEW table, Held(table), NEW ns \in Seq(Neighbor)
    PROVE  LET ls == ListedIn(version, table)
               as == [k \in DOMAIN ls |->
                        AssociatePotentialIPv6s(ls[k], ParseNeighborLines(ns))]
           IN /\ [k \in DOMAIN as |-> LeaseToEndpoint(as[k])]
                   = EndpointsOf(version, table, ns, collect)
              /\ \A k \in DOMAIN as : DOMAIN as[k] = {"ip", "mac", "host", "v6"}
<1> DEFINE ls == ListedIn(version, table)
           as == [k \in DOMAIN ls |-> AssociatePotentialIPv6s(ls[k], ParseNeighborLines(ns))]
           ip(k) == ReadIn(version, table, table[k].ip, "ip")
           host(k) == ReadIn(version, table, table[k].host, "host")
<1>1. /\ DOMAIN ls = DOMAIN table /\ DOMAIN as = DOMAIN table
      /\ \A k \in DOMAIN table : /\ ls[k] = Listed(ip(k), table[k].mac.bytes, host(k), Nil)
                                 /\ as[k] = AssociatePotentialIPv6s(ls[k], ParseNeighborLines(ns))
  BY DEF ListedIn
<1> HIDE DEF ls, as
<1>2. ASSUME NEW k \in DOMAIN table
      PROVE  /\ LeaseToEndpoint(as[k])
                  = [ip |-> ip(k), host |-> host(k),
                     v6 |-> IF collect THEN Seen(table[k], ns) ELSE Nil]
             /\ DOMAIN as[k] = {"ip", "mac", "host", "v6"}
  <2>1. table[k].mac.bytes \in DOMAIN Fold
    BY DEF Held
  <2>2. /\ as[k] = Listed(ip(k), table[k].mac.bytes, host(k),
                          IF Seen(table[k], ns) = {} THEN Nil ELSE Seen(table[k], ns))
        /\ LeaseToEndpoint(as[k])
             = [ip |-> ip(k), host |-> host(k),
                v6 |-> IF collect THEN Seen(table[k], ns) ELSE Nil]
    <3>1. PICK lease, i, h : lease = table[k] /\ i = ip(k) /\ h = host(k)
      OBVIOUS
    <3>2. PICK l : l = Listed(i, lease.mac.bytes, h, Nil)
      OBVIOUS
    <3>3. lease.mac.bytes \in DOMAIN Fold
      BY <2>1, <3>1
    <3>4. LET a == AssociatePotentialIPv6s(l, ParseNeighborLines(ns))
              seen == Seen(lease, ns)
          IN /\ a = Listed(i, lease.mac.bytes, h, IF seen = {} THEN Nil ELSE seen)
             /\ LeaseToEndpoint(a)
                  = [ip |-> i, host |-> h, v6 |-> IF collect THEN seen ELSE Nil]
      BY <3>2, <3>3, AssociatedIs
    <3>5. as[k] = AssociatePotentialIPv6s(l, ParseNeighborLines(ns))
      BY <1>1, <3>1, <3>2
    <3> QED
      BY <3>1, <3>4, <3>5
  <2>3. DOMAIN as[k] = {"ip", "mac", "host", "v6"}
    BY <2>2 DEF Listed
  <2> QED
    BY <2>2, <2>3
<1>3. [k \in DOMAIN as |-> LeaseToEndpoint(as[k])] = EndpointsOf(version, table, ns, collect)
  BY <1>1, <1>2, Zenon DEF EndpointsOf
<1> QED
  BY <1>1, <1>2, <1>3 DEF as, ls

-------------------------------------------------------------------------------
LEMMA NothingHeld == Held(<<>>) /\ <<>> \in Seq(Neighbor)
BY DEF Held

LEMMA InitInv == Init => IInv
<1> SUFFICES ASSUME Init PROVE IInv
  OBVIOUS
<1>1. Setting
  <2>1. /\ conn \in BOOLEAN /\ outcome \in {"none", "ok", "error"}
        /\ pc \in {"idle", "strategy", "equuleus", "sagitta", "neighbours", "dead"}
    BY DEF Init
  <2>2. Held(leasesThen) /\ neighboursThen \in Seq(Neighbor)
    BY NothingHeld DEF Init
  <2>3. \A k \in DOMAIN leases : DOMAIN leases[k] = {"ip", "mac", "host", "v6"}
    BY DEF Init
  <2> QED
    BY <2>1, <2>2, <2>3 DEF Init, Setting
<1>2. VersionAsked /\ Unanswered /\ LeasesAsListed /\ Answered
  BY DEF Init, VersionAsked, Unanswered, LeasesAsListed, Answered
<1>3. ConnectionsClosed /\ PanicsExplained
  BY DEF Init, ConnectionsClosed, PanicsExplained
<1>4. HeardSoFar
  BY DEF Init, HeardSoFar, AllHeard
<1> QED
  BY <1>1, <1>2, <1>3, <1>4 DEF IInv

LEMMA InvStep == IInv /\ [Next]_vars => IInv'
<1> SUFFICES ASSUME IInv, [Next]_vars PROVE IInv'
  OBVIOUS
<1> USE DEF IInv
<1>1. CASE Connect
  <2>1. Setting'
    BY <1>1, NothingHeld DEF Connect, Setting, setup
  <2>2. VersionAsked' /\ Unanswered' /\ LeasesAsListed' /\ Answered'
    BY <1>1 DEF Connect, setup, VersionAsked, Unanswered, LeasesAsListed, Answered
  <2>3. ConnectionsClosed' /\ PanicsExplained'
    BY <1>1 DEF Connect, ConnectionsClosed, PanicsExplained
  <2>h. HeardSoFar'
    BY <1>1 DEF Connect, HeardSoFar, AllHeard
  <2> QED
    BY <2>1, <2>2, <2>3, <2>h
<1>2. CASE Fails
  <2>1. Setting'
    BY <1>2 DEF Fails, Return, setup, then, Setting
  <2>2. VersionAsked' /\ Unanswered' /\ LeasesAsListed' /\ Answered'
    BY <1>2 DEF Fails, Return, VersionAsked, Unanswered, LeasesAsListed, Answered
  <2>3. ConnectionsClosed' /\ PanicsExplained'
    BY <1>2 DEF Fails, Return, ConnectionsClosed, PanicsExplained
  <2>h. HeardSoFar'
    BY <1>2 DEF Fails, Return, setup, then, HeardSoFar, AllHeard
  <2> QED
    BY <2>1, <2>2, <2>3, <2>h
<1>3. CASE Strategy
  <2>1. router.version \in Versions
    BY RouterIs DEF Setting
  <2>2. Setting'
    BY <1>3, <2>1 DEF Strategy, setup, then, Setting, Versions
  <2>3. VersionAsked' /\ Unanswered' /\ LeasesAsListed' /\ Answered'
    BY <1>3, <2>1
    DEF Strategy, setup, then, Versions, VersionAsked, Unanswered, LeasesAsListed, Answered
  <2>4. ConnectionsClosed' /\ PanicsExplained'
    BY <1>3, <2>1 DEF Strategy, Versions, ConnectionsClosed, PanicsExplained
  <2>h. HeardSoFar'
    BY <1>3, <2>1 DEF Strategy, setup, then, Versions, HeardSoFar, AllHeard
  <2> QED
    BY <2>2, <2>3, <2>4, <2>h
<1>4. CASE GetLeasesEquuleus \/ GetLeasesSagitta
  <2>1. Got(ListedIn(router.version, router.leases)) /\ pc \in {"equuleus", "sagitta"}
    BY <1>4, GotIs
  <2>2. PICK ls : ls = ListedIn(router.version, router.leases)
    OBVIOUS
  <2>3. \A k \in DOMAIN ls : DOMAIN ls[k] = {"ip", "mac", "host", "v6"}
    BY <2>2 DEF ListedIn, Listed
  <2>4. /\ Held(router.leases) /\ outcome = "none" /\ answer = <<>>
        /\ conn /\ router' = router /\ collect' = collect /\ leases' = ls
        /\ leasesThen' = router.leases /\ neighboursThen' = neighboursThen
    BY <2>1, <2>2, RouterIs
    DEF Setting, Unanswered, Answered, ConnectionsClosed, Got, setup
  <2>5. Setting'
    BY <2>1, <2>2, <2>3, <2>4 DEF Got, Return, setup, Setting
  <2>6. LeasesAsListed'
    BY <2>2, <2>4 DEF LeasesAsListed
  <2>7. VersionAsked' /\ Unanswered' /\ ConnectionsClosed' /\ PanicsExplained'
    BY <2>1, <2>4
    DEF Got, Return, VersionAsked, Unanswered, ConnectionsClosed, PanicsExplained
  <2>8. Answered'
    <3>1. CASE collect
      BY <2>1, <2>4, <3>1 DEF Got, Answered
    <3>2. CASE ~collect
      <4>1. /\ outcome' = "ok"
            /\ answer' = [k \in DOMAIN ls |-> LeaseToEndpoint(ls[k])]
        BY <2>1, <2>2, <3>2 DEF Got, Return
      <4>2. answer' = EndpointsOf(router.version, router.leases, neighboursThen, collect)
        BY <2>2, <3>2, <4>1, LeasesAnswer
      <4> QED
        BY <2>4, <4>1, <4>2 DEF Answered
    <3> QED
      BY <3>1, <3>2
  <2>h. HeardSoFar'
    BY <2>1, <2>4 DEF Got, Return, HeardSoFar, AllHeard
  <2> QED
    BY <2>5, <2>6, <2>7, <2>8, <2>h
<1>5. CASE TabulatePanics
  <2>1. Held(router.leases) /\ outcome = "none" /\ answer = <<>>
    BY <1>5, RouterIs DEF TabulatePanics, Setting, Unanswered, Answered
  <2>2. Setting'
    BY <1>5, <2>1 DEF TabulatePanics, setup, Setting
  <2>3. VersionAsked' /\ Unanswered' /\ LeasesAsListed' /\ Answered' /\ ConnectionsClosed'
    BY <1>5, <2>1
    DEF TabulatePanics, VersionAsked, Unanswered, LeasesAsListed, Answered, ConnectionsClosed
  <2>4. \E k \in DOMAIN router.leases : CutRow(router.leases, k)
    BY <1>5, <2>1, PanicNeedsCutRow DEF TabulatePanics, Held
  <2>5. PanicsExplained'
    <3>1. router.version = "sagitta"
      BY <1>5 DEF TabulatePanics, VersionAsked
    <3>2. router' = router /\ trim' = trim /\ leasesThen' = router.leases
      BY <1>5 DEF TabulatePanics, setup
    <3> QED
      BY <2>4, <3>1, <3>2 DEF PanicsExplained, CutRow
  <2>h. HeardSoFar'
    BY <1>5, <2>1 DEF TabulatePanics, setup, HeardSoFar, AllHeard
  <2> QED
    BY <2>2, <2>3, <2>5, <2>h
<1>6. CASE GetNeighbors
  <2>1. PICK ns \in Seq(Neighbor) : ns = router.neighbours
    BY RouterIs DEF Setting
  <2>2. pc = "neighbours" /\ leases = ListedIn(router.version, leasesThen) /\ Held(leasesThen)
    BY <1>6 DEF GetNeighbors, LeasesAsListed, Setting
  <2>3. PICK ls : ls = ListedIn(router.version, leasesThen)
    OBVIOUS
  <2>4. PICK as : as = [k \in DOMAIN ls |-> AssociatePotentialIPv6s(ls[k], ParseNeighborLines(ns))]
    OBVIOUS
  <2>5. /\ [k \in DOMAIN as |-> LeaseToEndpoint(as[k])]
             = EndpointsOf(router.version, leasesThen, ns, collect)
        /\ \A k \in DOMAIN as : DOMAIN as[k] = {"ip", "mac", "host", "v6"}
    BY <2>2, <2>3, <2>4, NeighborsAnswer
  <2>6. /\ leases' = as /\ neighboursThen' = ns /\ leasesThen' = leasesThen
        /\ router' = router /\ collect' = collect /\ trim' = trim
        /\ pc' = "idle" /\ conn' = FALSE /\ outcome' = "ok"
        /\ answer' = [k \in DOMAIN as |-> LeaseToEndpoint(as[k])]
    BY <1>6, <2>1, <2>2, <2>3, <2>4, Zenon DEF GetNeighbors, Return, setup
  <2>7. Setting'
    BY <2>1, <2>5, <2>6 DEF Setting
  <2>8. Answered'
    BY <2>5, <2>6 DEF Answered
  <2>9. VersionAsked' /\ Unanswered' /\ LeasesAsListed' /\ ConnectionsClosed' /\ PanicsExplained'
    BY <2>6 DEF VersionAsked, Unanswered, LeasesAsListed, ConnectionsClosed, PanicsExplained
  <2>h. HeardSoFar'
    BY <1>6, <2>6 DEF GetNeighbors, HeardSoFar, AllHeard
  <2> QED
    BY <2>7, <2>8, <2>9, <2>h
<1>7. CASE RouterGoesOn
  <2>1. Setting'
    BY <1>7 DEF RouterGoesOn, setup, then, Setting
  <2>2. router'.version = router.version
    BY <1>7 DEF RouterGoesOn
  <2>3. VersionAsked' /\ Unanswered' /\ LeasesAsListed' /\ Answered'
    BY <1>7, <2>2
    DEF RouterGoesOn, setup, then, VersionAsked, Unanswered, LeasesAsListed, Answered
  <2>4. ConnectionsClosed' /\ PanicsExplained'
    BY <1>7, <2>2 DEF RouterGoesOn, setup, then, ConnectionsClosed, PanicsExplained
  <2>h. HeardSoFar'
    BY <1>7 DEF RouterGoesOn, setup, then, HeardSoFar, AllHeard
  <2> QED
    BY <2>1, <2>3, <2>4, <2>h
<1>8. CASE Restart
  <2>1. Setting'
    BY <1>8 DEF Restart, setup, then, Setting
  <2>2. VersionAsked' /\ Unanswered' /\ LeasesAsListed' /\ Answered'
    BY <1>8 DEF Restart, setup, then, VersionAsked, Unanswered, LeasesAsListed, Answered
  <2>3. ConnectionsClosed' /\ PanicsExplained'
    BY <1>8 DEF Restart, ConnectionsClosed, PanicsExplained
  <2>h. HeardSoFar'
    BY <1>8 DEF Restart, setup, then, HeardSoFar, AllHeard
  <2> QED
    BY <2>1, <2>2, <2>3, <2>h
<1>9. CASE UNCHANGED vars
  <2>1. Setting'
    BY <1>9 DEF vars, setup, then, Setting
  <2>2. VersionAsked' /\ Unanswered' /\ LeasesAsListed' /\ Answered'
    BY <1>9 DEF vars, setup, then, VersionAsked, Unanswered, LeasesAsListed, Answered
  <2>3. ConnectionsClosed' /\ PanicsExplained'
    BY <1>9 DEF vars, setup, then, ConnectionsClosed, PanicsExplained
  <2>h. HeardSoFar'
    BY <1>9 DEF vars, setup, then, HeardSoFar, AllHeard
  <2> QED
    BY <2>1, <2>2, <2>3, <2>h
<1>10. ConnectFails \/ CommandFails => Fails
  BY DEF ConnectFails, CommandFails
<1> QED
  BY <1>1, <1>2, <1>3, <1>4, <1>5, <1>6, <1>7, <1>8, <1>9, <1>10 DEF Next

(* Before each command, and after a call: the version the next command is  *)
(* for is the router's, what is in hand is what the router held when it    *)
(* was asked, and an answer is made of nothing else (Endpoints, getLeases).*)
THEOREM Invariance == Spec => []IInv
<1> QED
  BY InitInv, InvStep, PTL DEF Spec

LEMMA SeenIsNotNil ==
    ASSUME NEW ns \in Seq(Neighbor), NEW lease
    PROVE  Seen(lease, ns) # Nil
<1>1. \A k \in DOMAIN ns : ns[k].to # Nothing
  <2> TAKE k \in DOMAIN ns
  <2>1. ns[k] \in Neighbor
    OBVIOUS
  <2> QED
    BY <2>1 DEF Neighbor
<1>2. Nothing \notin Seen(lease, ns)
  BY <1>1 DEF Seen
<1> QED
  BY <1>2 DEF Nil

(* What is answered, endpoint by endpoint. *)
LEMMA AnswerIs ==
    ASSUME IInv
    PROVE  /\ outcome # "ok" => answer = <<>>
           /\ outcome = "ok" =>
                /\ DOMAIN answer = DOMAIN leasesThen /\ Len(answer) = Len(leasesThen)
                /\ \A k \in DOMAIN answer :
                     /\ DOMAIN answer[k] = {"ip", "host", "v6"}
                     /\ answer[k].ip = Read(leasesThen[k].ip, "ip")
                     /\ answer[k].host = Read(leasesThen[k].host, "host")
                     /\ collect => answer[k].v6 = Seen(leasesThen[k], neighboursThen)
                     /\ ~collect => answer[k].v6 = Nil
<1>1. outcome # "ok" => answer = <<>>
  BY DEF IInv, Answered
<1>2. ASSUME outcome = "ok"
      PROVE  /\ DOMAIN answer = DOMAIN leasesThen /\ Len(answer) = Len(leasesThen)
             /\ \A k \in DOMAIN answer :
                  /\ DOMAIN answer[k] = {"ip", "host", "v6"}
                  /\ answer[k].ip = Read(leasesThen[k].ip, "ip")
                  /\ answer[k].host = Read(leasesThen[k].host, "host")
                  /\ collect => answer[k].v6 = Seen(leasesThen[k], neighboursThen)
                  /\ ~collect => answer[k].v6 = Nil
  <2>1. answer = EndpointsOf(router.version, leasesThen, neighboursThen, collect)
    BY <1>2 DEF IInv, Answered
  <2>2. PICK n \in Nat : n = Len(leasesThen) /\ DOMAIN leasesThen = 1..n
    BY DEF IInv, Setting, Held
  <2>3. DOMAIN answer = 1..n /\ Len(answer) = n
    BY <2>1, <2>2 DEF EndpointsOf
  <2>4. ASSUME NEW k \in 1..n
        PROVE  answer[k] = [ip |-> ReadIn(router.version, leasesThen, leasesThen[k].ip, "ip"),
                            host |-> ReadIn(router.version, leasesThen, leasesThen[k].host, "host"),
                            v6 |-> IF collect THEN Seen(leasesThen[k], neighboursThen) ELSE Nil]
    BY <2>1, <2>2 DEF EndpointsOf
  <2>5. \A text, f : Read(text, f) = ReadIn(router.version, leasesThen, text, f)
    BY DEF Read, ReadIn, AsRead
  <2>6. ASSUME NEW k \in 1..n
        PROVE  /\ DOMAIN answer[k] = {"ip", "host", "v6"}
               /\ answer[k].ip = Read(leasesThen[k].ip, "ip")
               /\ answer[k].host = Read(leasesThen[k].host, "host")
               /\ collect => answer[k].v6 = Seen(leasesThen[k], neighboursThen)
               /\ ~collect => answer[k].v6 = Nil
    <3>1. PICK i, h, v : /\ i = ReadIn(router.version, leasesThen, leasesThen[k].ip, "ip")
                         /\ h = ReadIn(router.version, leasesThen, leasesThen[k].host, "host")
                         /\ v = IF collect THEN Seen(leasesThen[k], neighboursThen) ELSE Nil
      OBVIOUS
    <3>2. answer[k] = [ip |-> i, host |-> h, v6 |-> v]
      BY <2>4, <3>1
    <3>3. /\ DOMAIN answer[k] = {"ip", "host", "v6"}
          /\ answer[k].ip = i /\ answer[k].host = h /\ answer[k].v6 = v
      BY <3>2
    <3>4. i = Read(leasesThen[k].ip, "ip") /\ h = Read(leasesThen[k].host, "host")
      BY <2>5, <3>1
    <3> QED
      BY <3>1, <3>3, <3>4
  <2> QED
    BY <2>2, <2>3, <2>6
<1> QED
  BY <1>1, <1>2

(* Types: of the program's variables, and nil told from an empty slice.    *)
THEOREM TypeCorrect == Spec => []TypeOK
<1>1. IInv => TypeOK
  <2> SUFFICES ASSUME IInv PROVE TypeOK
    OBVIOUS
  <2>1. ASSUME NEW k \in DOMAIN answer
        PROVE  DOMAIN answer[k] = {"ip", "host", "v6"} /\ (answer[k].v6 = Nil <=> ~collect)
    <3>1. outcome = "ok"
      BY AnswerIs
    <3>2. neighboursThen \in Seq(Neighbor)
      BY DEF IInv, Setting
    <3>3. /\ DOMAIN answer[k] = {"ip", "host", "v6"}
          /\ collect => answer[k].v6 = Seen(leasesThen[k], neighboursThen)
          /\ ~collect => answer[k].v6 = Nil
      BY <3>1, AnswerIs
    <3> QED
      BY <3>2, <3>3, SeenIsNotNil
  <2> QED
    BY <2>1 DEF IInv, Setting, HeardSoFar, TypeOK
<1> QED
  BY <1>1, Invariance, PTL

(* Whatever way a call ends, and a panic, the connection is closed (the    *)
(* deferred Disconnect of Endpoints).                                      *)
THEOREM ConnectionsClosedHolds == Spec => []ConnectionsClosed
<1>1. IInv => ConnectionsClosed
  BY DEF IInv
<1> QED
  BY <1>1, Invariance, PTL

(* TabulateParse ends the process for one kind of output only: a line cut  *)
(* where its last cell is empty.                                           *)
THEOREM PanicsExplainedHolds == Spec => []PanicsExplained
<1>1. IInv => PanicsExplained
  BY DEF IInv
<1> QED
  BY <1>1, Invariance, PTL

(* An answer without an error is complete, through the table, the lines of *)
(* neighbours and the association of the two, while leases and neighbours  *)
(* come and go between the commands, and made of no less than what every   *)
(* command of the call printed; a call that fails answers nothing.         *)
THEOREM CompleteOrErrorHolds == Spec => []CompleteOrError
<1>1. IInv => CompleteOrError
  <2> SUFFICES ASSUME IInv PROVE CompleteOrError
    OBVIOUS
  <2>1. LeasesComplete
    BY AnswerIs DEF LeasesComplete
  <2>2. NeighboursComplete
    BY AnswerIs DEF NeighboursComplete
  <2>3. ErrorsAnswerNothing
    BY AnswerIs DEF ErrorsAnswerNothing
  <2>4. AllHeard
    BY DEF IInv, HeardSoFar
  <2> QED
    BY <2>1, <2>2, <2>3, <2>4 DEF CompleteOrError
<1> QED
  BY <1>1, Invariance, PTL
===============================================================================
