--------------------------- MODULE CsvTextProofs ---------------------------
(***************************************************************************)
(* Rows and lines of any length.  CsvParser's tokens are texts; it cuts a  *)
(* line at the separators outside of text and at no others; it reads back  *)
(* what DataTableToCsv has written; and on a line whose qualifiers are in  *)
(* pairs it agrees with CsvToDataTableRegex, unless the separator means    *)
(* something else to a regular expression.                                 *)
(*                                                                         *)
(* Quoted, LineOf and Replace pass over a text or a row of unknown length, *)
(* so what they give is an induction.  SetInduction is the principle, with *)
(* the set of the numbers that have a property in the property's place,    *)
(* and Recursion what it says of functions defined by recursion.           *)
(***************************************************************************)
EXTENDS CsvText, FiniteSetTheorems, SequenceTheorems, WellFoundedInduction, TLAPS

(* The qualifiers up to a character, and those up to the one before it.    *)
LEMMA QualifiersGrow ==
  ASSUME NEW text, NEW i \in Nat \ {0}
  PROVE  /\ Qualifiers(text, 1..(i - 1)) \in Nat
         /\ Qualifiers(text, 1..i) =
              Qualifiers(text, 1..(i - 1)) + (IF text[i] = "qual" THEN 1 ELSE 0)
<1> DEFINE before == {j \in 1..(i - 1) : text[j] = "qual"}
           upTo == {j \in 1..i : text[j] = "qual"}
<1>1. IsFiniteSet(before) /\ Cardinality(before) \in Nat
  <2>1. IsFiniteSet(1..(i - 1))
    BY FS_Interval
  <2>2. before \subseteq 1..(i - 1)
    OBVIOUS
  <2>3. IsFiniteSet(before)
    BY <2>1, <2>2, FS_Subset
  <2> QED
    BY <2>3, FS_CardinalityType
<1>2. CASE text[i] = "qual"
  <2>1. upTo = before \union {i} /\ i \notin before
    BY <1>2
  <2>2. Cardinality(upTo) = Cardinality(before) + 1
    BY <1>1, <2>1, FS_AddElement
  <2> QED
    BY <1>1, <1>2, <2>2 DEF Qualifiers
<1>3. CASE text[i] # "qual"
  <2>1. upTo = before
    BY <1>3
  <2>2. Qualifiers(text, 1..i) = Cardinality(before)
    BY <2>1, Zenon DEF Qualifiers
  <2>3. Qualifiers(text, 1..(i - 1)) = Cardinality(before)
    BY Zenon DEF Qualifiers
  <2> HIDE DEF before
  <2> QED
    BY <1>1, <1>3, <2>2, <2>3
<1> QED
  BY <1>2, <1>3

LEMMA InTextNext ==
  ASSUME NEW i \in Nat \ {0}
  PROVE  InText(i + 1) <=> (InText(i) <=> line[i] # "qual")
<1>1. (i + 1) - 1 = i
  OBVIOUS
<1> DEFINE before == Qualifiers(line, 1..(i - 1))
<1>2. before \in Nat /\ Qualifiers(line, 1..i) = before + (IF line[i] = "qual" THEN 1 ELSE 0)
  BY QualifiersGrow
<1> HIDE DEF before
<1>3. before % 2 = 1 <=> ~((before + 1) % 2 = 1)
  BY <1>2
<1>4. InText(i) <=> before % 2 = 1
  BY DEF InText, before
<1>5. InText(i + 1) <=> Qualifiers(line, 1..i) % 2 = 1
  BY <1>1 DEF InText
<1> QED
  BY <1>2, <1>3, <1>4, <1>5

(* A character more adds itself to the cuts, or nothing.                   *)
LEMMA CutsGrow ==
  ASSUME NEW i \in Nat \ {0}
  PROVE  /\ IsFiniteSet(Cuts(i - 1)) /\ Cardinality(Cuts(i - 1)) \in Nat
         /\ Cuts(i) = IF line[i] = "sep" /\ ~InText(i) THEN Cuts(i - 1) \union {i}
                                                       ELSE Cuts(i - 1)
         /\ i \notin Cuts(i - 1)
<1>1. IsFiniteSet(1..(i - 1)) /\ Cuts(i - 1) \subseteq 1..(i - 1)
  BY FS_Interval DEF Cuts
<1>2. IsFiniteSet(Cuts(i - 1)) /\ Cardinality(Cuts(i - 1)) \in Nat
  BY <1>1, FS_Subset, FS_CardinalityType
<1>3. 1..i = (1..(i - 1)) \union {i}
  OBVIOUS
<1>4. Cuts(i) = IF line[i] = "sep" /\ ~InText(i) THEN Cuts(i - 1) \union {i} ELSE Cuts(i - 1)
  BY <1>3 DEF Cuts
<1> QED
  BY <1>1, <1>2, <1>4

-----------------------------------------------------------------------------
(* Induction, with a set in the place of a predicate, and what it says of  *)
(* functions that are defined by recursion.                                *)
LEMMA SetInduction ==
  ASSUME NEW S, 0 \in S, \A n \in Nat : n \in S => n + 1 \in S
  PROVE  Nat \subseteq S
<1> DEFINE T == Nat \ S
<1> SUFFICES ASSUME T # {} PROVE FALSE
  OBVIOUS
<1>1. IsWellFoundedOn(OpToRel(<, Nat), Nat)
  BY NatLessThanWellFounded, Zenon
<1>2. PICK n \in T : \A m \in T : ~(<<m, n>> \in OpToRel(<, Nat))
  BY <1>1, WFMin, Zenon
<1>3. \A m \in T : ~(m < n)
  BY <1>2 DEF OpToRel
<1>4. n \in Nat /\ n # 0
  OBVIOUS
<1>5. n - 1 \in Nat /\ n - 1 < n /\ (n - 1) + 1 = n
  BY <1>4
<1>6. n - 1 \in S
  BY <1>3, <1>5
<1> QED
  BY <1>5, <1>6

(* There is a function with a given first value and given steps, if these  *)
(* stay in S.                                                              *)
Recursive(n, S, base, step) ==
  \E f \in [0..n -> S] : f[0] = base /\ \A i \in 1..n : f[i] = step[<<i, f[i - 1]>>]

LEMMA Recursion ==
  ASSUME NEW n \in Nat, NEW S, NEW base \in S, NEW step \in [(1..n) \X S -> S]
  PROVE  Recursive(n, S, base, step)
<1> DEFINE Upto(m) == \E f \in [0..m -> S] :
                        f[0] = base /\ \A i \in 1..m : f[i] = step[<<i, f[i - 1]>>]
           T == {m \in Nat : m <= n => Upto(m)}
<1>1. 0 \in T
  <2> DEFINE f == [i \in 0..0 |-> base]
  <2>1. f \in [0..0 -> S] /\ f[0] = base /\ 1..0 = {}
    OBVIOUS
  <2> HIDE DEF f
  <2>2. Upto(0)
    BY <2>1
  <2> QED
    BY <2>2
<1>2. ASSUME NEW m \in Nat, m \in T PROVE m + 1 \in T
  <2> SUFFICES ASSUME m + 1 <= n PROVE Upto(m + 1)
    OBVIOUS
  <2>1. PICK f \in [0..m -> S] : f[0] = base /\ \A i \in 1..m : f[i] = step[<<i, f[i - 1]>>]
    BY <1>2
  <2> DEFINE v == step[<<m + 1, f[m]>>]
             g == [i \in 0..(m + 1) |-> IF i = m + 1 THEN v ELSE f[i]]
  <2>2. v \in S
    BY <2>1
  <2>3. g \in [0..(m + 1) -> S]
    BY <2>2
  <2>4. g[0] = base
    BY <2>1
  <2>5. ASSUME NEW i \in 1..(m + 1) PROVE g[i] = step[<<i, g[i - 1]>>]
    <3>1. g[i - 1] = f[i - 1]
      OBVIOUS
    <3>2. CASE i = m + 1
      <4>1. g[i] = v /\ i - 1 = m
        BY <3>2
      <4> QED
        BY <3>1, <3>2, <4>1
    <3>3. CASE i \in 1..m
      BY <2>1, <3>1, <3>3
    <3> QED
      BY <3>2, <3>3
  <2> QED
    BY <2>3, <2>4, <2>5
<1>3. Nat \subseteq T
  <2> HIDE DEF T
  <2> QED
    BY <1>1, <1>2, SetInduction
<1>4. Upto(n)
  BY <1>3
<1> QED
  BY <1>4 DEF Recursive

-----------------------------------------------------------------------------
(* What Replace leaves of a text, place by place.                          *)
Sifted(t, kept) ==
  kept = [i \in 0..Len(t) |->
            IF i = 0 THEN <<>>
                     ELSE IF t[i] = "qual" THEN kept[i - 1] ELSE Append(kept[i - 1], t[i])]

LEMMA SiftedExists ==
  ASSUME NEW t \in Seq(Chars)
  PROVE  \E kept \in [0..Len(t) -> Seq(Chars)] : Sifted(t, kept)
<1> DEFINE n == Len(t)
           step == [x \in (1..n) \X Seq(Chars) |->
                      IF t[x[1]] = "qual" THEN x[2] ELSE Append(x[2], t[x[1]])]
<1>1. n \in Nat /\ <<>> \in Seq(Chars) /\ \A i \in 1..n : t[i] \in Chars
  OBVIOUS
<1>2. step \in [(1..n) \X Seq(Chars) -> Seq(Chars)]
  <2>1. ASSUME NEW i \in 1..n, NEW u \in Seq(Chars) PROVE Append(u, t[i]) \in Seq(Chars)
    BY <1>1
  <2> QED
    BY <2>1
<1>3. \A i \in 1..n, u \in Seq(Chars) :
        step[<<i, u>>] = IF t[i] = "qual" THEN u ELSE Append(u, t[i])
  OBVIOUS
<1> HIDE DEF step
<1>4. PICK f \in [0..n -> Seq(Chars)] :
        f[0] = <<>> /\ \A i \in 1..n : f[i] = step[<<i, f[i - 1]>>]
  <2> HIDE DEF n
  <2>1. Recursive(n, Seq(Chars), <<>>, step)
    BY <1>1, <1>2, Recursion
  <2> QED
    BY <2>1 DEF Recursive
<1>5. \A i \in 1..n : f[i] = IF t[i] = "qual" THEN f[i - 1] ELSE Append(f[i - 1], t[i])
  <2> TAKE i \in 1..n
  <2>1. i - 1 \in 0..n
    BY <1>1
  <2> QED
    BY <1>3, <1>4, <2>1
<1>6. \A i \in 0..n : f[i] = IF i = 0 THEN <<>>
                             ELSE IF t[i] = "qual" THEN f[i - 1] ELSE Append(f[i - 1], t[i])
  <2> TAKE i \in 0..n
  <2>1. i = 0 \/ i \in 1..n
    BY <1>1
  <2> QED
    BY <1>4, <1>5, <2>1
<1>7. Sifted(t, f)
  BY <1>4, <1>6 DEF Sifted
<1> QED
  BY <1>7

Sift(t) == CHOOSE kept : Sifted(t, kept)

(* So Replace can be followed step by step. *)
LEMMA Sifting ==
  ASSUME NEW t \in Seq(Chars)
  PROVE  /\ Sift(t)[0] = <<>>
         /\ \A i \in 1..Len(t) :
              Sift(t)[i] = IF t[i] = "qual" THEN Sift(t)[i - 1] ELSE Append(Sift(t)[i - 1], t[i])
         /\ Sift(t)[Len(t)] = WithoutQualifiers(t)
<1> DEFINE kept == Sift(t)
<1>1. Sifted(t, kept)
  BY SiftedExists, Zenon DEF Sift
<1>2. kept[Len(t)] = WithoutQualifiers(t)
  BY DEF WithoutQualifiers, Sift, Sifted
<1> HIDE DEF kept
<1>3. Len(t) \in Nat
  OBVIOUS
<1>4. kept[0] = <<>>
  BY <1>1, <1>3 DEF Sifted
<1>5. \A i \in 1..Len(t) :
        kept[i] = IF t[i] = "qual" THEN kept[i - 1] ELSE Append(kept[i - 1], t[i])
  <2> TAKE i \in 1..Len(t)
  <2>1. i \in 0..Len(t) /\ i # 0
    BY <1>3
  <2> DEFINE next(j) == IF j = 0 THEN <<>>
                        ELSE IF t[j] = "qual" THEN kept[j - 1] ELSE Append(kept[j - 1], t[j])
  <2>2. kept = [j \in 0..Len(t) |-> next(j)]
    BY <1>1 DEF Sifted
  <2> HIDE DEF next
  <2>3. kept[i] = next(i)
    BY <2>1, <2>2
  <2> QED
    BY <2>1, <2>3, Zenon DEF next
<1> QED
  BY <1>2, <1>4, <1>5 DEF kept

(* What SubSeq gives of a text. *)
LEMMA PartOf ==
  ASSUME NEW S, NEW t \in Seq(S), NEW i \in Nat, NEW j \in Nat, i >= 1, i <= j + 1, j <= Len(t)
  PROVE  /\ SubSeq(t, i, j) \in Seq(S)
         /\ Len(SubSeq(t, i, j)) = (j + 1) - i
         /\ \A k \in 1..((j + 1) - i) : SubSeq(t, i, j)[k] = t[(i + k) - 1]
<1>1. \A k \in i..j : t[k] \in S
  OBVIOUS
<1>2. /\ SubSeq(t, i, j) \in Seq(S)
      /\ Len(SubSeq(t, i, j)) = IF i <= j THEN j - i + 1 ELSE 0
      /\ \A k \in 1..(j - i + 1) : SubSeq(t, i, j)[k] = t[i + k - 1]
  BY <1>1, SubSeqProperties
<1>3. (j + 1) - i = j - i + 1
  OBVIOUS
<1> DEFINE s == SubSeq(t, i, j)
<1> HIDE DEF s
<1>4. Len(s) = (j + 1) - i
  BY <1>2 DEF s
<1>5. \A k \in 1..((j + 1) - i) : s[k] = t[(i + k) - 1]
  BY <1>2, <1>3 DEF s
<1> QED
  BY <1>2, <1>4, <1>5 DEF s

LEMMA PrefixGrows ==
  ASSUME NEW S, NEW v \in Seq(S), NEW i \in Nat, i + 1 <= Len(v)
  PROVE  Append(SubSeq(v, 1, i), v[i + 1]) = SubSeq(v, 1, i + 1)
<1> DEFINE a == SubSeq(v, 1, i)
           b == SubSeq(v, 1, i + 1)
           s == Append(a, v[i + 1])
<1>1. a \in Seq(S) /\ Len(a) = i /\ \A j \in 1..i : a[j] = v[j]
  <2>1. /\ a \in Seq(S) /\ Len(a) = (i + 1) - 1
        /\ \A k \in 1..((i + 1) - 1) : a[k] = v[(1 + k) - 1]
    BY PartOf
  <2> HIDE DEF a
  <2> QED
    BY <2>1
<1>2. b \in Seq(S) /\ Len(b) = i + 1 /\ \A j \in 1..(i + 1) : b[j] = v[j]
  <2>1. /\ b \in Seq(S) /\ Len(b) = ((i + 1) + 1) - 1
        /\ \A k \in 1..(((i + 1) + 1) - 1) : b[k] = v[(1 + k) - 1]
    BY PartOf
  <2> HIDE DEF b
  <2> QED
    BY <2>1
<1>3. v[i + 1] \in S
  OBVIOUS
<1> HIDE DEF a, b
<1>4. /\ s \in Seq(S) /\ Len(s) = i + 1
      /\ \A j \in 1..i : s[j] = v[j]
      /\ s[i + 1] = v[i + 1]
  BY <1>1, <1>3, AppendProperties
<1> HIDE DEF s
<1>5. \A j \in 1..(i + 1) : s[j] = b[j]
  BY <1>2, <1>4
<1>6. s = b
  BY <1>2, <1>4, <1>5, SeqEqual
<1> QED
  BY <1>6 DEF s, a, b

(* A value in quotes, as it is written. *)
InQuotes(v) == <<"qual">> \o v \o <<"qual">>

LEMMA QuotedText ==
  ASSUME NEW v \in Seq(Chars)
  PROVE  /\ InQuotes(v) \in Seq(Chars) /\ Len(InQuotes(v)) = Len(v) + 2 /\ Len(v) \in Nat
         /\ InQuotes(v)[1] = "qual" /\ InQuotes(v)[Len(v) + 2] = "qual"
         /\ \A i \in 1..Len(v) : InQuotes(v)[i + 1] = v[i]
<1> DEFINE q == <<"qual">>
           n == Len(v)
           s == q \o v
           t == s \o q
<1>1. q \in Seq(Chars) /\ Len(q) = 1 /\ q[1] = "qual" /\ n \in Nat
  BY DEF Chars
<1> HIDE DEF q
<1>2. /\ s \in Seq(Chars) /\ Len(s) = Len(q) + Len(v)
      /\ \A i \in 1..(Len(q) + Len(v)) : s[i] = IF i <= Len(q) THEN q[i] ELSE v[i - Len(q)]
  BY <1>1, ConcatProperties, Zenon
<1> HIDE DEF s
<1>3. /\ t \in Seq(Chars) /\ Len(t) = Len(s) + Len(q)
      /\ \A i \in 1..(Len(s) + Len(q)) : t[i] = IF i <= Len(s) THEN s[i] ELSE q[i - Len(s)]
  <2>1. s \in Seq(Chars) /\ q \in Seq(Chars)
    BY <1>1, <1>2
  <2> QED
    BY <2>1, ConcatProperties, Zenon
<1> HIDE DEF t, n
<1>4. Len(s) = n + 1 /\ Len(t) = n + 2
  BY <1>1, <1>2, <1>3 DEF n
<1>5. \A i \in 1..(n + 1) : s[i] = IF i <= 1 THEN q[i] ELSE v[i - 1]
  BY <1>1, <1>2 DEF n
<1>6. \A i \in 1..(n + 2) : t[i] = IF i <= n + 1 THEN s[i] ELSE q[i - (n + 1)]
  BY <1>1, <1>3, <1>4
<1>7. t[1] = "qual" /\ t[n + 2] = "qual"
  BY <1>1, <1>5, <1>6
<1>8. \A i \in 1..n : t[i + 1] = v[i]
  BY <1>1, <1>5, <1>6
<1> QED
  BY <1>1, <1>3, <1>4, <1>7, <1>8 DEF t, s, q, n, InQuotes

LEMMA WithoutQualifiersType ==
  ASSUME NEW t \in Seq(Chars)
  PROVE  WithoutQualifiers(t) \in Seq(Chars)
<1> DEFINE kept == Sift(t)
           n == Len(t)
<1>1. /\ kept[0] = <<>>
      /\ \A i \in 1..n :
           kept[i] = IF t[i] = "qual" THEN kept[i - 1] ELSE Append(kept[i - 1], t[i])
      /\ kept[n] = WithoutQualifiers(t)
  BY Sifting
<1>2. n \in Nat /\ \A i \in 1..n : t[i] \in Chars
  OBVIOUS
<1> HIDE DEF kept, n
<1> DEFINE T == {i \in Nat : i <= n => kept[i] \in Seq(Chars)}
<1>3. 0 \in T
  <2>1. <<>> \in Seq(Chars)
    OBVIOUS
  <2> QED
    BY <1>1, <2>1
<1>4. ASSUME NEW i \in Nat, i \in T PROVE i + 1 \in T
  <2> SUFFICES ASSUME i + 1 <= n PROVE kept[i + 1] \in Seq(Chars)
    OBVIOUS
  <2>1. i + 1 \in 1..n /\ (i + 1) - 1 = i /\ i <= n
    BY <1>2
  <2>2. kept[i] \in Seq(Chars) /\ t[i + 1] \in Chars
    BY <1>2, <1>4, <2>1
  <2>3. Append(kept[i], t[i + 1]) \in Seq(Chars)
    BY <2>2, AppendProperties
  <2>4. kept[i + 1] = IF t[i + 1] = "qual" THEN kept[i] ELSE Append(kept[i], t[i + 1])
    BY <1>1, <2>1
  <2> QED
    BY <2>2, <2>3, <2>4
<1>5. Nat \subseteq T
  <2> HIDE DEF T
  <2> QED
    BY <1>3, <1>4, SetInduction
<1>6. n \in T
  BY <1>2, <1>5
<1> QED
  BY <1>1, <1>2, <1>6

(* A value without qualifiers comes out of its quotes as it was: of the    *)
(* characters that are read, from the first of the value on, the ones of   *)
(* the value are kept.                                                     *)
LEMMA KeptFrom ==
  ASSUME NEW v \in Seq(Chars), NEW t \in Seq(Chars), NEW d \in {0, 1},
         d + Len(v) <= Len(t), Sift(t)[d] = <<>>,
         \A i \in 1..Len(v) : v[i] # "qual" /\ t[i + d] = v[i]
  PROVE  Sift(t)[d + Len(v)] = v
<1> DEFINE kept == Sift(t)
           n == Len(v)
<1>1. \A i \in 1..Len(t) :
        kept[i] = IF t[i] = "qual" THEN kept[i - 1] ELSE Append(kept[i - 1], t[i])
  BY Sifting
<1>2. n \in Nat /\ Len(t) \in Nat /\ d + n <= Len(t) /\ kept[d] = <<>>
      /\ \A i \in 1..n : v[i] # "qual" /\ t[i + d] = v[i]
  OBVIOUS
<1> HIDE DEF kept
<1> DEFINE T == {i \in Nat : i <= n => kept[i + d] = SubSeq(v, 1, i)}
<1>3. 0 \in T
  <2>1. SubSeq(v, 1, 0) = <<>>
    BY SubSeqEmpty
  <2>2. 0 + d = d
    OBVIOUS
  <2> QED
    BY <1>2, <2>1, <2>2
<1>4. ASSUME NEW i \in Nat, i \in T PROVE i + 1 \in T
  <2> HIDE DEF n
  <2> SUFFICES ASSUME i + 1 <= n PROVE kept[(i + 1) + d] = SubSeq(v, 1, i + 1)
    OBVIOUS
  <2>1. i + 1 \in 1..n /\ (i + 1) + d \in 1..Len(t) /\ ((i + 1) + d) - 1 = i + d /\ i <= n
    BY <1>2
  <2>2. t[(i + 1) + d] = v[i + 1] /\ v[i + 1] # "qual"
    BY <1>2, <2>1
  <2>3. kept[(i + 1) + d] = Append(kept[i + d], v[i + 1])
    BY <1>1, <2>1, <2>2
  <2>4. kept[i + d] = SubSeq(v, 1, i)
    BY <1>4, <2>1
  <2>5. Append(SubSeq(v, 1, i), v[i + 1]) = SubSeq(v, 1, i + 1)
    BY PrefixGrows DEF n
  <2> QED
    BY <2>3, <2>4, <2>5
<1>5. Nat \subseteq T
  <2> HIDE DEF T
  <2> QED
    BY <1>3, <1>4, SetInduction
<1>6. n \in T
  BY <1>2, <1>5
<1>7. kept[n + d] = SubSeq(v, 1, n)
  BY <1>2, <1>6
<1>8. SubSeq(v, 1, n) = v
  BY SubSeqFull
<1>9. d + n = n + d
  BY <1>2
<1> QED
  BY <1>7, <1>8, <1>9 DEF kept

LEMMA Unquoted ==
  ASSUME NEW v \in Seq(Chars), \A i \in 1..Len(v) : v[i] # "qual"
  PROVE  WithoutQualifiers(Quoted(v)) = v
<1>1. Len(v) \in Nat
  OBVIOUS
<1>2. CASE ~Contains(v, "sep")
  <2>1. Quoted(v) = v
    BY <1>2 DEF Quoted
  <2>2. Sift(v)[0] = <<>> /\ Sift(v)[Len(v)] = WithoutQualifiers(v)
    BY Sifting
  <2>3. Sift(v)[0 + Len(v)] = v
    <3>1. 0 + Len(v) <= Len(v) /\ \A i \in 1..Len(v) : v[i] # "qual" /\ v[i + 0] = v[i]
      BY <1>1
    <3> QED
      BY <2>2, <3>1, KeptFrom
  <2>4. 0 + Len(v) = Len(v)
    BY <1>1
  <2> QED
    BY <2>1, <2>2, <2>3, <2>4
<1>3. CASE Contains(v, "sep")
  <2> DEFINE t == InQuotes(v)
             n == Len(v)
  <2>1. Quoted(v) = t
    BY <1>3 DEF Quoted, InQuotes
  <2>2. /\ t \in Seq(Chars) /\ Len(t) = n + 2
        /\ t[1] = "qual" /\ t[n + 2] = "qual"
        /\ \A i \in 1..n : t[i + 1] = v[i]
    BY QuotedText
  <2> HIDE DEF t
  <2>3. /\ Sift(t)[0] = <<>>
        /\ \A i \in 1..Len(t) :
             Sift(t)[i] = IF t[i] = "qual" THEN Sift(t)[i - 1]
                                           ELSE Append(Sift(t)[i - 1], t[i])
        /\ Sift(t)[Len(t)] = WithoutQualifiers(t)
    BY <2>2, Sifting
  <2>4. 1 \in 1..Len(t) /\ 1 - 1 = 0 /\ n + 2 \in 1..Len(t) /\ (n + 2) - 1 = 1 + n
    BY <1>1, <2>2
  <2>5. Sift(t)[1] = <<>>
    BY <2>2, <2>3, <2>4
  <2>6. 1 + n <= Len(t) /\ \A i \in 1..n : v[i] # "qual" /\ t[i + 1] = v[i]
    BY <1>1, <2>2
  <2>7. Sift(t)[1 + n] = v
    BY <2>2, <2>5, <2>6, KeptFrom
  <2>8. Sift(t)[n + 2] = Sift(t)[1 + n]
    BY <2>2, <2>3, <2>4
  <2> QED
    BY <2>1, <2>2, <2>3, <2>7, <2>8
<1> QED
  BY <1>2, <1>3


-----------------------------------------------------------------------------
(* A set of numbers has a least one, and if they are bounded a greatest.    *)
LEMMA LeastOne ==
  ASSUME NEW S, S \subseteq Nat, S # {}
  PROVE  \E i \in S : \A j \in S : i <= j
<1>1. IsWellFoundedOn(OpToRel(<, Nat), Nat)
  BY NatLessThanWellFounded, Zenon
<1>2. PICK i \in S : \A j \in S : ~(<<j, i>> \in OpToRel(<, Nat))
  BY <1>1, WFMin, Zenon
<1>3. \A j \in S : ~(j < i)
  BY <1>2 DEF OpToRel
<1>4. \A j \in S : i <= j
  BY <1>3
<1> QED
  BY <1>4

LEMMA GreatestOne ==
  ASSUME NEW n \in Nat, NEW S, S \subseteq 0..n, S # {}
  PROVE  \E i \in S : \A j \in S : j <= i
<1> DEFINE M == {n - i : i \in S}
<1>1. M \subseteq Nat /\ M # {}
  <2>1. \A i \in S : n - i \in Nat
    OBVIOUS
  <2>2. PICK i \in S : TRUE
    OBVIOUS
  <2>3. n - i \in M
    OBVIOUS
  <2> QED
    BY <2>1, <2>3
<1>2. PICK m \in M : \A j \in M : m <= j
  <2> HIDE DEF M
  <2> QED
    BY <1>1, LeastOne
<1>3. PICK i \in S : m = n - i
  OBVIOUS
<1>4. ASSUME NEW j \in S PROVE j <= i
  <2>1. n - j \in M
    OBVIOUS
  <2>2. n - i <= n - j
    BY <1>2, <1>3, <2>1
  <2>3. i \in 0..n /\ j \in 0..n
    OBVIOUS
  <2> QED
    BY <2>2, <2>3
<1> QED
  BY <1>4

(* Trim gives a part of the text, and nothing of a blank one.              *)
LEMMA TrimmedType ==
  ASSUME NEW t \in Seq(Chars)
  PROVE  /\ Trimmed(t) \in Seq(Chars)
         /\ IsBlank(t) => Trimmed(t) = <<>>
<1> DEFINE ink == {i \in 1..Len(t) : t[i] \notin White}
           a == CHOOSE i \in ink : \A j \in ink : i <= j
           b == CHOOSE i \in ink : \A j \in ink : j <= i
<1>1. Len(t) \in Nat
  OBVIOUS
<1>2. CASE ink = {}
  <2>1. Trimmed(t) = <<>>
    BY <1>2 DEF Trimmed
  <2> QED
    BY <2>1
<1>3. CASE ink # {}
  <2>1. Trimmed(t) = SubSeq(t, a, b)
    BY <1>3 DEF Trimmed
  <2>2. a \in ink /\ \A j \in ink : a <= j
    <3>1. ink \subseteq Nat
      BY <1>1
    <3>2. \E i \in ink : \A j \in ink : i <= j
      <4> HIDE DEF ink
      <4> QED
        BY <1>3, <3>1, LeastOne
    <3> HIDE DEF ink
    <3> QED
      BY <3>2, Zenon
  <2>3. b \in ink
    <3>1. ink \subseteq 0..Len(t)
      BY <1>1
    <3>2. \E i \in ink : \A j \in ink : j <= i
      <4> HIDE DEF ink
      <4> QED
        BY <1>1, <1>3, <3>1, GreatestOne
    <3> HIDE DEF ink
    <3> QED
      BY <3>2, Zenon
  <2> HIDE DEF a, b
  <2>4. a \in Nat /\ b \in Nat /\ a >= 1 /\ a <= b + 1 /\ b <= Len(t)
    BY <1>1, <2>2, <2>3
  <2>5. SubSeq(t, a, b) \in Seq(Chars)
    BY <2>4, PartOf
  <2>6. ~IsBlank(t)
    BY <1>3 DEF IsBlank
  <2> QED
    BY <2>1, <2>5, <2>6
<1> QED
  BY <1>2, <1>3

LEMMA TokenType ==
  ASSUME line \in Seq(Chars), NEW i \in Nat, NEW j \in Nat, i >= 1, i <= j + 1, j <= Len(line)
  PROVE  Token(i, j) \in Seq(Chars)
<1>1. SubSeq(line, i, j) \in Seq(Chars)
  BY PartOf
<1> QED
  BY <1>1, WithoutQualifiersType, TrimmedType DEF Token

LEMMA QuotedType ==
  ASSUME NEW v \in Seq(Chars)
  PROVE  Quoted(v) \in Seq(Chars)
BY QuotedText DEF Quoted, InQuotes

-----------------------------------------------------------------------------
(* The row that is written, value by value.                                *)
Piece(vs, i) == IF i = 1 THEN Quoted(vs[i]) ELSE <<"sep">> \o Quoted(vs[i])

JoinedUp(vs, f) ==
  f = [i \in 1..Len(vs) |-> IF i = 1 THEN Piece(vs, i) ELSE f[i - 1] \o Piece(vs, i)]

Joined(vs) == CHOOSE f : JoinedUp(vs, f)

LEMMA PieceType ==
  ASSUME NEW vs \in Seq(Seq(Chars)), NEW i \in 1..Len(vs)
  PROVE  /\ Piece(vs, i) \in Seq(Chars) /\ Quoted(vs[i]) \in Seq(Chars)
         /\ i = 1 => Piece(vs, i) = Quoted(vs[i])
         /\ i # 1 => /\ Len(Piece(vs, i)) = Len(Quoted(vs[i])) + 1
                     /\ Piece(vs, i)[1] = "sep"
                     /\ \A j \in 1..Len(Quoted(vs[i])) : Piece(vs, i)[j + 1] = Quoted(vs[i])[j]
<1> DEFINE q == Quoted(vs[i])
           s == <<"sep">>
           n == Len(q)
           p == s \o q
<1>1. q \in Seq(Chars)
  <2>1. vs[i] \in Seq(Chars)
    OBVIOUS
  <2> QED
    BY <2>1, QuotedType
<1> HIDE DEF q
<1>2. s \in Seq(Chars) /\ Len(s) = 1 /\ s[1] = "sep"
  BY DEF Chars
<1> HIDE DEF s
<1>3. n \in Nat
  BY <1>1
<1>4. /\ p \in Seq(Chars) /\ Len(p) = Len(s) + Len(q)
      /\ \A k \in 1..(Len(s) + Len(q)) : p[k] = IF k <= Len(s) THEN s[k] ELSE q[k - Len(s)]
  BY <1>1, <1>2, ConcatProperties, Zenon
<1> HIDE DEF p, n
<1>5. Len(p) = n + 1 /\ \A k \in 1..(n + 1) : p[k] = IF k <= 1 THEN s[k] ELSE q[k - 1]
  BY <1>2, <1>3, <1>4 DEF n
<1>6. p[1] = "sep"
  BY <1>2, <1>3, <1>5
<1>7. \A j \in 1..n : p[j + 1] = q[j]
  BY <1>3, <1>5
<1>8. CASE i = 1
  BY <1>1, <1>8 DEF Piece, q
<1>9. CASE i # 1
  <2>1. Piece(vs, i) = p
    BY <1>9 DEF Piece, p, s, q
  <2> QED
    BY <1>1, <1>4, <1>5, <1>6, <1>7, <1>9, <2>1 DEF q, n
<1> QED
  BY <1>8, <1>9

LEMMA Joining ==
  ASSUME NEW vs \in Seq(Seq(Chars)), vs # <<>>
  PROVE  /\ Joined(vs) \in [1..Len(vs) -> Seq(Chars)]
         /\ Joined(vs)[1] = Quoted(vs[1])
         /\ \A i \in 2..Len(vs) : Joined(vs)[i] = Joined(vs)[i - 1] \o Piece(vs, i)
         /\ LineOf(vs) = Joined(vs)[Len(vs)]
<1> DEFINE n == Len(vs)
           step == [x \in (1..n) \X Seq(Chars) |->
                      IF x[1] = 1 THEN Piece(vs, x[1]) ELSE x[2] \o Piece(vs, x[1])]
<1>1. n \in Nat /\ n >= 1 /\ <<>> \in Seq(Chars)
  OBVIOUS
<1>2. \A i \in 1..n : Piece(vs, i) \in Seq(Chars)
  BY PieceType
<1>3. step \in [(1..n) \X Seq(Chars) -> Seq(Chars)]
  <2>1. ASSUME NEW i \in 1..n, NEW u \in Seq(Chars) PROVE u \o Piece(vs, i) \in Seq(Chars)
    <3>1. Piece(vs, i) \in Seq(Chars)
      BY <1>2
    <3> QED
      BY <3>1, ConcatProperties
  <2> HIDE DEF n
  <2> QED
    BY <1>2, <2>1
<1>4. \A i \in 1..n, u \in Seq(Chars) :
        step[<<i, u>>] = IF i = 1 THEN Piece(vs, i) ELSE u \o Piece(vs, i)
  OBVIOUS
<1> HIDE DEF step
<1>5. PICK f \in [0..n -> Seq(Chars)] :
        f[0] = <<>> /\ \A i \in 1..n : f[i] = step[<<i, f[i - 1]>>]
  <2> HIDE DEF n
  <2>1. Recursive(n, Seq(Chars), <<>>, step)
    BY <1>1, <1>3, Recursion
  <2> QED
    BY <2>1 DEF Recursive
<1> DEFINE next(h, i) == IF i = 1 THEN Piece(vs, i) ELSE h[i - 1] \o Piece(vs, i)
           g == [i \in 1..n |-> f[i]]
<1>6. \A i \in 1..n : f[i] = next(f, i)
  <2> TAKE i \in 1..n
  <2> HIDE DEF n
  <2>1. i - 1 \in 0..n
    BY <1>1
  <2>3. f[i - 1] \in Seq(Chars)
    BY <2>1
  <2>2. f[i] = step[<<i, f[i - 1]>>]
    BY <1>5
  <2> QED
    BY <1>4, <2>2, <2>3
<1>7. \A i \in 1..n : next(g, i) = next(f, i)
  <2> TAKE i \in 1..n
  <2>1. i # 1 => i - 1 \in 1..n
    BY <1>1
  <2>2. i # 1 => g[i - 1] = f[i - 1]
    BY <2>1
  <2> QED
    BY <2>2
<1>8. g = [i \in 1..n |-> next(g, i)]
  <2>1. \A i \in 1..n : f[i] = next(g, i)
    BY <1>6, <1>7
  <2> HIDE DEF next
  <2> QED
    BY <2>1
<1>9. JoinedUp(vs, g)
  <2> HIDE DEF g
  <2> QED
    BY <1>8 DEF JoinedUp
<1> DEFINE j == Joined(vs)
<1>10. JoinedUp(vs, j)
  BY <1>9, Zenon DEF Joined
<1>11. LineOf(vs) = j[n]
  <2> DEFINE seqs == [i \in 1..Len(vs) |-> IF i = 1 THEN Quoted(vs[i]) ELSE <<"sep">> \o Quoted(vs[i])]
             flat == CHOOSE h : h = [i \in 1..Len(seqs) |-> IF i = 1 THEN seqs[i] ELSE h[i - 1] \o seqs[i]]
  <2>1. seqs = [i \in 1..n |-> Piece(vs, i)]
    BY DEF Piece
  <2>2. LineOf(vs) = FlattenSeq(seqs)
    BY DEF LineOf
  <2>3. Len(seqs) = n
    BY <1>1, <2>1
  <2>4. \A i \in 1..n : seqs[i] = Piece(vs, i)
    BY <2>1
  <2> HIDE DEF seqs
  <2>5. FlattenSeq(seqs) = flat[Len(seqs)]
    BY <1>1, <2>3 DEF FlattenSeq
  <2>6. \A h : [i \in 1..Len(seqs) |-> IF i = 1 THEN seqs[i] ELSE h[i - 1] \o seqs[i]] =
               [i \in 1..n |-> next(h, i)]
    BY <2>3, <2>4
  <2>7. \A h : (h = [i \in 1..Len(seqs) |-> IF i = 1 THEN seqs[i] ELSE h[i - 1] \o seqs[i]])
               <=> JoinedUp(vs, h)
    BY <2>6, Zenon DEF JoinedUp
  <2>8. flat = j
    BY <2>7, Zenon DEF Joined
  <2> QED
    BY <2>2, <2>3, <2>5, <2>8
<1> HIDE DEF j
<1>12. j = [i \in 1..n |-> next(j, i)]
  BY <1>10 DEF JoinedUp
<1>13. \A i \in 1..n : j[i] = next(j, i)
  <2> HIDE DEF next
  <2> QED
    BY <1>12
<1>14. j[1] = Quoted(vs[1])
  BY <1>1, <1>13 DEF Piece
<1>15. \A i \in 2..n : j[i] = j[i - 1] \o Piece(vs, i)
  <2> TAKE i \in 2..n
  <2>1. i \in 1..n /\ i # 1
    BY <1>1
  <2> QED
    BY <1>13, <2>1, Zenon
<1>16. j \in [1..n -> Seq(Chars)]
  <2> DEFINE T == {i \in Nat : i + 1 <= n => j[i + 1] \in Seq(Chars)}
  <2>1. 0 \in T
    BY <1>1, <1>2, <1>13
  <2>2. ASSUME NEW i \in Nat, i \in T PROVE i + 1 \in T
    <3> HIDE DEF n, next
    <3> SUFFICES ASSUME (i + 1) + 1 <= n PROVE j[(i + 1) + 1] \in Seq(Chars)
      OBVIOUS
    <3>1. (i + 1) + 1 \in 2..n /\ ((i + 1) + 1) - 1 = i + 1 /\ i + 1 <= n /\ (i + 1) + 1 \in 1..n
      BY <1>1
    <3>2. j[(i + 1) + 1] = j[i + 1] \o Piece(vs, (i + 1) + 1)
      BY <1>15, <3>1
    <3>3. j[i + 1] \in Seq(Chars) /\ Piece(vs, (i + 1) + 1) \in Seq(Chars)
      BY <1>2, <2>2, <3>1
    <3> QED
      BY <3>2, <3>3, ConcatProperties
  <2>3. Nat \subseteq T
    <3> HIDE DEF T
    <3> QED
      BY <2>1, <2>2, SetInduction
  <2>4. \A i \in 1..n : j[i] \in Seq(Chars)
    <3> TAKE i \in 1..n
    <3>1. i - 1 \in Nat /\ (i - 1) + 1 = i /\ i <= n
      BY <1>1
    <3>2. i - 1 \in T
      BY <2>3, <3>1
    <3> QED
      BY <3>1, <3>2
  <2> HIDE DEF next
  <2> QED
    BY <1>12, <2>4
<1> QED
  BY <1>11, <1>14, <1>15, <1>16 DEF j


(* Where the values begin in the row, less one.                            *)
Start(vs) == [k \in 1..Len(vs) |-> Len(Joined(vs)[k]) - Len(Quoted(vs[k]))]

Laid(text, vs) ==
  /\ Start(vs) \in [1..Len(vs) -> Nat] /\ Start(vs)[1] = 0
  /\ \A k \in 1..Len(vs) :
       /\ Start(vs)[k] + Len(Quoted(vs[k])) <= Len(text)
       /\ \A j \in 1..Len(Quoted(vs[k])) : text[Start(vs)[k] + j] = Quoted(vs[k])[j]
  /\ \A k \in 2..Len(vs) :
       /\ Start(vs)[k] = (Start(vs)[k - 1] + Len(Quoted(vs[k - 1]))) + 1
       /\ text[Start(vs)[k]] = "sep"
  /\ Len(text) = Start(vs)[Len(vs)] + Len(Quoted(vs[Len(vs)]))

(* A piece more leaves what is there and puts the value behind it.         *)
LEMMA PieceAdded ==
  ASSUME NEW u \in Seq(Chars), NEW p \in Seq(Chars), NEW q \in Seq(Chars),
         Len(p) = Len(q) + 1, p[1] = "sep", \A j \in 1..Len(q) : p[j + 1] = q[j]
  PROVE  /\ Len(u \o p) = (Len(u) + 1) + Len(q)
         /\ (u \o p)[Len(u) + 1] = "sep"
         /\ \A j \in 1..Len(q) : (u \o p)[(Len(u) + 1) + j] = q[j]
         /\ \A j \in 1..Len(u) : (u \o p)[j] = u[j]
<1> DEFINE w == u \o p
           a == Len(u)
           b == Len(q)
<1>1. /\ Len(w) = Len(u) + Len(p)
      /\ \A j \in 1..(Len(u) + Len(p)) : w[j] = IF j <= Len(u) THEN u[j] ELSE p[j - Len(u)]
  BY ConcatProperties
<1> HIDE DEF w
<1>2. a \in Nat /\ b \in Nat
  OBVIOUS
<1>3. Len(w) = a + (b + 1)
  BY <1>1, <1>2
<1>4. \A j \in 1..(a + (b + 1)) : w[j] = IF j <= a THEN u[j] ELSE p[j - a]
  BY <1>1, <1>2
<1>5. p[1] = "sep" /\ \A j \in 1..b : p[j + 1] = q[j]
  OBVIOUS
<1> HIDE DEF a, b
<1>6. w[a + 1] = "sep"
  <2>1. a + 1 \in 1..(a + (b + 1)) /\ ~(a + 1 <= a) /\ (a + 1) - a = 1
    BY <1>2
  <2> QED
    BY <1>4, <1>5, <2>1
<1>7. \A j \in 1..b : w[(a + 1) + j] = q[j]
  <2> TAKE j \in 1..b
  <2>1. (a + 1) + j \in 1..(a + (b + 1)) /\ ~((a + 1) + j <= a) /\ ((a + 1) + j) - a = j + 1
    BY <1>2
  <2> QED
    BY <1>4, <1>5, <2>1
<1>8. \A j \in 1..a : w[j] = u[j]
  <2> TAKE j \in 1..a
  <2>1. j \in 1..(a + (b + 1)) /\ j <= a
    BY <1>2
  <2> QED
    BY <1>4, <2>1
<1>9. Len(w) = (a + 1) + b
  BY <1>2, <1>3
<1> QED
  BY <1>6, <1>7, <1>8, <1>9 DEF w, a, b

LEMMA RowIsLaid ==
  ASSUME NEW vs \in Seq(Seq(Chars)), vs # <<>>
  PROVE  LineOf(vs) \in Seq(Chars) /\ Laid(LineOf(vs), vs)
<1> DEFINE n == Len(vs)
           F == Joined(vs)
           q == [k \in 1..n |-> Quoted(vs[k])]
           L == [k \in 1..n |-> Len(q[k])]
           G == [k \in 1..n |-> Len(F[k])]
           S == [k \in 1..n |-> G[k] - L[k]]
           text == F[n]
<1>1. n \in Nat /\ n >= 1
  OBVIOUS
<1>2. F \in [1..n -> Seq(Chars)] /\ F[1] = q[1] /\ LineOf(vs) = F[n]
      /\ \A i \in 2..n : F[i] = F[i - 1] \o Piece(vs, i)
  BY <1>1, Joining
<1>3. \A i \in 1..n : /\ Piece(vs, i) \in Seq(Chars) /\ q[i] \in Seq(Chars)
                      /\ i # 1 => /\ Len(Piece(vs, i)) = Len(q[i]) + 1
                                  /\ Piece(vs, i)[1] = "sep"
                                  /\ \A j \in 1..Len(q[i]) : Piece(vs, i)[j + 1] = q[i][j]
  BY PieceType
<1> HIDE DEF F, n, q
<1>4. \A i \in 1..n : L[i] \in Nat /\ G[i] \in Nat
  BY <1>2, <1>3
<1>5. \A i \in 1..n : L[i] = Len(q[i]) /\ G[i] = Len(F[i]) /\ S[i] = G[i] - L[i]
  OBVIOUS
<1>6. S = Start(vs)
  BY DEF Start, F, q, n
<1>7. S = [k \in 1..n |-> S[k]]
  OBVIOUS
<1>8. text \in Seq(Chars) /\ LineOf(vs) = text /\ Len(text) = G[n]
  BY <1>1, <1>2
<1> HIDE DEF L, G, S, text
<1>9. ASSUME NEW i \in 2..n
      PROVE  /\ G[i] = (G[i - 1] + 1) + L[i]
             /\ F[i][G[i - 1] + 1] = "sep"
             /\ \A j \in 1..L[i] : F[i][(G[i - 1] + 1) + j] = q[i][j]
             /\ \A j \in 1..G[i - 1] : F[i][j] = F[i - 1][j]
  <2> DEFINE u == F[i - 1]
             p == Piece(vs, i)
             t == q[i]
  <2>1. i \in 1..n /\ i - 1 \in 1..n /\ i # 1
    BY <1>1
  <2>2. u \in Seq(Chars) /\ t \in Seq(Chars) /\ p \in Seq(Chars) /\ F[i] = u \o p
    BY <1>2, <1>3, <2>1
  <2>3. Len(p) = Len(t) + 1 /\ p[1] = "sep" /\ \A j \in 1..Len(t) : p[j + 1] = t[j]
    BY <1>3, <2>1
  <2>4. G[i - 1] = Len(u) /\ L[i] = Len(t) /\ G[i] = Len(u \o p)
    BY <1>5, <2>1, <2>2
  <2> HIDE DEF u, p, t
  <2>5. /\ Len(u \o p) = (Len(u) + 1) + Len(t)
        /\ (u \o p)[Len(u) + 1] = "sep"
        /\ \A j \in 1..Len(t) : (u \o p)[(Len(u) + 1) + j] = t[j]
        /\ \A j \in 1..Len(u) : (u \o p)[j] = u[j]
    BY <2>2, <2>3, PieceAdded
  <2> QED
    BY <2>2, <2>4, <2>5, Zenon DEF u, t
<1> DEFINE Before(k, m) == G[k] <= G[m] /\ \A j \in 1..G[k] : F[m][j] = F[k][j]
<1>10. \A k \in 1..n : \A m \in k..n : Before(k, m)
  <2> TAKE k \in 1..n
  <2> DEFINE T == {i \in Nat : k + i <= n => Before(k, k + i)}
  <2>1. 0 \in T
    <3>1. k + 0 = k /\ G[k] <= G[k]
      BY <1>4
    <3> QED
      BY <3>1
  <2>2. ASSUME NEW i \in Nat, i \in T PROVE i + 1 \in T
    <3> SUFFICES ASSUME k + (i + 1) <= n PROVE Before(k, k + (i + 1))
      OBVIOUS
    <3> DEFINE m == k + (i + 1)
    <3>1. m \in 2..n /\ m - 1 = k + i /\ k + i \in 1..n /\ k + i <= n /\ m \in 1..n
      BY <1>1
    <3>2. Before(k, m - 1)
      BY <2>2, <3>1
    <3> HIDE DEF m
    <3>3. G[k] \in Nat /\ G[m] \in Nat /\ G[m - 1] \in Nat /\ L[m] \in Nat
      BY <1>4, <3>1
    <3>4. G[m] = (G[m - 1] + 1) + L[m] /\ \A j \in 1..G[m - 1] : F[m][j] = F[m - 1][j]
      BY <1>9, <3>1, Zenon
    <3> DEFINE a == G[k]
               b == G[m - 1]
               c == L[m]
    <3>0. a \in Nat /\ b \in Nat /\ c \in Nat /\ a <= b
      BY <3>2, <3>3
    <3>5. G[k] <= G[m]
      <4>1. G[m] = (b + 1) + c
        BY <3>4
      <4> HIDE DEF a, b, c
      <4>2. a <= (b + 1) + c
        BY <3>0
      <4> QED
        BY <4>1, <4>2 DEF a
    <3>6. \A j \in 1..G[k] : F[m][j] = F[k][j]
      <4> TAKE j \in 1..G[k]
      <4>1. j \in 1..G[m - 1]
        <5> HIDE DEF a, b, c
        <5>1. j \in 1..b
          BY <3>0 DEF a
        <5> QED
          BY <5>1 DEF b
      <4> QED
        BY <3>2, <3>4, <4>1
    <3> QED
      BY <3>5, <3>6 DEF m
  <2>3. Nat \subseteq T
    <3> HIDE DEF T
    <3> QED
      BY <2>1, <2>2, SetInduction
  <2> TAKE m \in k..n
  <2>4. m - k \in Nat /\ k + (m - k) = m /\ m <= n
    BY <1>1
  <2>5. m - k \in T
    BY <2>3, <2>4
  <2> HIDE DEF Before
  <2> QED
    BY <2>4, <2>5
<1>11. S[1] = 0
  <2>1. 1 \in 1..n
    BY <1>1
  <2>2. G[1] = L[1] /\ S[1] = G[1] - L[1] /\ L[1] \in Nat
    BY <1>2, <1>4, <1>5, <2>1
  <2> QED
    BY <2>2
<1>12. ASSUME NEW k \in 2..n
       PROVE  S[k] = (S[k - 1] + L[k - 1]) + 1 /\ S[k] = G[k - 1] + 1
  <2>1. k \in 1..n /\ k - 1 \in 1..n
    BY <1>1
  <2>2. G[k] = (G[k - 1] + 1) + L[k]
    BY <1>9
  <2>3. S[k] = G[k] - L[k] /\ S[k - 1] = G[k - 1] - L[k - 1]
    BY <1>5, <2>1
  <2>4. G[k] \in Nat /\ L[k] \in Nat /\ G[k - 1] \in Nat /\ L[k - 1] \in Nat
    BY <1>4, <2>1
  <2> DEFINE a == G[k - 1]
             b == L[k]
             c == L[k - 1]
  <2>5. a \in Nat /\ b \in Nat /\ c \in Nat /\ S[k] = ((a + 1) + b) - b /\ S[k - 1] = a - c
    BY <2>2, <2>3, <2>4
  <2> HIDE DEF a, b, c
  <2>6. S[k] = a + 1 /\ S[k] = ((a - c) + c) + 1
    BY <2>5
  <2> QED
    BY <2>5, <2>6 DEF a, c
<1>13. ASSUME NEW k \in 1..n PROVE S[k] \in Nat /\ S[k] + L[k] = G[k]
  <2>1. k = 1 \/ (k \in 2..n /\ k - 1 \in 1..n)
    BY <1>1
  <2>2. S[k] \in Nat
    <3>1. CASE k = 1
      BY <1>11, <3>1
    <3>2. CASE k \in 2..n /\ k - 1 \in 1..n
      <4>1. S[k] = G[k - 1] + 1 /\ G[k - 1] \in Nat
        BY <1>4, <1>12, <3>2
      <4> DEFINE a == G[k - 1]
      <4> HIDE DEF a
      <4>2. S[k] = a + 1 /\ a \in Nat
        BY <4>1 DEF a
      <4> QED
        BY <4>2
    <3> QED
      BY <2>1, <3>1, <3>2
  <2>3. S[k] = G[k] - L[k] /\ G[k] \in Nat /\ L[k] \in Nat
    BY <1>4, <1>5
  <2> QED
    BY <2>2, <2>3
<1>14. ASSUME NEW k \in 1..n
       PROVE  G[k] <= Len(text) /\ \A j \in 1..G[k] : text[j] = F[k][j]
  <2>1. n \in k..n
    BY <1>1
  <2>2. Before(k, n)
    BY <1>10, <2>1
  <2> QED
    BY <1>8, <2>2 DEF text
<1>15. ASSUME NEW k \in 1..n, NEW j \in 1..L[k] PROVE text[S[k] + j] = q[k][j]
  <2>1. S[k] \in Nat /\ L[k] \in Nat /\ S[k] + L[k] = G[k]
    BY <1>4, <1>13
  <2>2. S[k] + j \in 1..G[k]
    BY <1>1, <2>1
  <2>3. text[S[k] + j] = F[k][S[k] + j]
    BY <1>14, <2>2
  <2>4. CASE k = 1
    <3>1. S[k] + j = j
      BY <1>11, <2>4
    <3> QED
      BY <1>2, <2>3, <2>4, <3>1
  <2>5. CASE k # 1
    <3>1. k \in 2..n
      BY <1>1, <2>5
    <3>2. F[k][(G[k - 1] + 1) + j] = q[k][j]
      BY <1>9, <3>1
    <3> QED
      BY <1>12, <2>3, <3>1, <3>2
  <2> QED
    BY <2>4, <2>5
<1>16. ASSUME NEW k \in 2..n PROVE text[S[k]] = "sep"
  <2>1. k \in 1..n /\ k - 1 \in 1..n
    BY <1>1
  <2>2. F[k][S[k]] = "sep" /\ S[k] = G[k - 1] + 1
    BY <1>9, <1>12
  <2>3. S[k] \in 1..G[k]
    <3>1. S[k] \in Nat /\ L[k] \in Nat /\ S[k] + L[k] = G[k] /\ G[k - 1] \in Nat
      BY <1>4, <1>13, <2>1
    <3> DEFINE a == G[k - 1]
               b == L[k]
    <3>2. S[k] = a + 1 /\ a \in Nat /\ b \in Nat /\ (a + 1) + b = G[k]
      BY <2>2, <3>1
    <3> HIDE DEF a, b
    <3> QED
      BY <3>2
  <2> QED
    BY <1>14, <2>1, <2>2, <2>3
<1>17. S \in [1..n -> Nat]
  BY <1>7, <1>13
<1>18. \A k \in 1..n : q[k] = Quoted(vs[k]) /\ L[k] = Len(Quoted(vs[k]))
  BY <1>5 DEF q
<1>19. Laid(text, vs)
  <2>1. Start(vs) = S /\ Len(vs) = n
    BY <1>6 DEF n
  <2>2. \A k \in 1..n : S[k] + Len(Quoted(vs[k])) <= Len(text)
    BY <1>13, <1>14, <1>18
  <2>3. \A k \in 1..n : \A j \in 1..Len(Quoted(vs[k])) : text[S[k] + j] = Quoted(vs[k])[j]
    <3> TAKE k \in 1..n
    <3>1. q[k] = Quoted(vs[k]) /\ L[k] = Len(Quoted(vs[k]))
      BY <1>18
    <3> QED
      BY <1>15, <3>1
  <2>4. \A k \in 2..n : S[k] = (S[k - 1] + Len(Quoted(vs[k - 1]))) + 1 /\ text[S[k]] = "sep"
    <3> TAKE k \in 2..n
    <3>1. k - 1 \in 1..n
      BY <1>1
    <3>2. L[k - 1] = Len(Quoted(vs[k - 1]))
      BY <1>18, <3>1
    <3> QED
      BY <1>12, <1>16, <3>2
  <2>5. Len(text) = S[n] + Len(Quoted(vs[n]))
    <3>1. n \in 1..n
      BY <1>1
    <3> QED
      BY <1>8, <1>13, <1>18, <3>1
  <2> QED
    BY <1>11, <1>17, <2>1, <2>2, <2>3, <2>4, <2>5 DEF Laid
<1> QED
  BY <1>8, <1>19


-----------------------------------------------------------------------------
LEMMA BoundedIsSequence ==
  ASSUME NEW S, NEW n \in Nat, NEW s \in BoundedSeq(S, n)
  PROVE  s \in Seq(S)
<1>1. PICK m \in 0..n : s \in [1..m -> S]
  BY DEF BoundedSeq, SeqOf
<1> QED
  BY <1>1

(* Types, and where the reader stands before it reads.                     *)
TypeInv ==
  /\ CsvTypeOK
  /\ reader = "idle" => current = 1 /\ last = 0 /\ inText = FALSE /\ tokens = <<>> /\ values = <<>>

LEMMA CsvInitType == CsvInit => TypeInv
<1> SUFFICES ASSUME CsvInit PROVE TypeInv
  OBVIOUS
<1>1. values = <<>> /\ line = <<>> /\ tokens = <<>> /\ Len(<<>>) = 0
  BY DEF CsvInit
<1>2. values \in Seq(Seq(Chars)) /\ tokens \in Seq(Seq(Chars)) /\ line \in Seq(Chars)
  BY <1>1
<1>3. reader = "idle" /\ current = 1 /\ last = 0 /\ inText = FALSE
  BY DEF CsvInit
<1>4. current \in 1..(Len(line) + 1) /\ last \in 0..(current - 1)
  <2>1. Len(line) = 0
    BY <1>1
  <2> QED
    BY <1>3, <2>1
<1> QED
  BY <1>1, <1>2, <1>3, <1>4, Zenon DEF TypeInv, CsvTypeOK

LEMMA CsvNextType == TypeInv /\ [CsvNext]_csvVars => TypeInv'
<1> SUFFICES ASSUME TypeInv, [CsvNext]_csvVars PROVE TypeInv'
  OBVIOUS
<1> USE CsvAssumption
<1>1. CASE UNCHANGED csvVars
  BY <1>1 DEF csvVars, TypeInv, CsvTypeOK
<1>2. CASE Read
  <2>1. reader = "idle" /\ current = 1 /\ last = 0 /\ inText = FALSE
        /\ tokens \in Seq(Seq(Chars)) /\ values \in Seq(Seq(Chars))
    BY <1>2 DEF Read, TypeInv, CsvTypeOK
  <2>2. ASSUME NEW text \in Seq(Chars), ReadLine(text), values' \in Seq(Seq(Chars))
        PROVE  TypeInv'
    <3>1. Len(text) \in Nat
      OBVIOUS
    <3>2. line' = text /\ reader' \in {"skipped", "parsing"} /\ current' = current
          /\ last' = last /\ inText' = inText /\ tokens' = tokens
      BY <2>2 DEF ReadLine
    <3>3. current' \in 1..(Len(line') + 1) /\ last' \in 0..(current' - 1)
      BY <2>1, <3>1, <3>2
    <3> QED
      BY <2>1, <2>2, <3>2, <3>3 DEF TypeInv, CsvTypeOK
  <2>3. ASSUME NEW n \in 1..MaxColumns, NEW vs \in [1..n -> BoundedSeq(Chars, MaxValue)],
               ReadOwn(vs)
        PROVE  TypeInv'
    <3>1. \A i \in 1..n : vs[i] \in Seq(Chars)
      BY BoundedIsSequence
    <3>2. vs \in Seq(Seq(Chars)) /\ vs # <<>>
      <4>1. vs \in [1..n -> Seq(Chars)] /\ n \in Nat
        BY <3>1
      <4>2. vs \in Seq(Seq(Chars)) /\ Len(vs) = n
        BY <4>1
      <4> QED
        BY <4>2
    <3>3. LineOf(vs) \in Seq(Chars)
      BY <3>2, RowIsLaid
    <3> QED
      BY <2>2, <2>3, <3>2, <3>3 DEF ReadOwn
  <2>4. ASSUME NEW text \in BoundedSeq(Chars, MaxLine), ReadForeign(text)
        PROVE  TypeInv'
    <3>1. text \in Seq(Chars)
      BY BoundedIsSequence
    <3> QED
      BY <2>1, <2>2, <2>4, <3>1 DEF ReadForeign
  <2> QED
    BY <1>2, <2>3, <2>4 DEF Read
<1>3. CASE Qualifier \/ Other
  <2>1. /\ reader = "parsing" /\ current <= Len(line) /\ current' = current + 1
        /\ inText' \in BOOLEAN /\ UNCHANGED <<values, line, reader, last, tokens>>
    BY <1>3 DEF Qualifier, Other, CsvParser, TypeInv, CsvTypeOK
  <2>2. line \in Seq(Chars) /\ current \in 1..(Len(line) + 1) /\ last \in 0..(current - 1)
    BY DEF TypeInv, CsvTypeOK
  <2>3. current' \in 1..(Len(line) + 1) /\ last \in 0..(current' - 1)
    BY <2>1, <2>2
  <2> QED
    BY <2>1, <2>3 DEF TypeInv, CsvTypeOK
<1>4. CASE Separator
  <2> DEFINE t == Token(last + 1, current - 1)
  <2>1. /\ reader = "parsing" /\ current <= Len(line) /\ current' = current + 1 /\ last' = current
        /\ UNCHANGED <<values, line, reader, inText>> /\ tokens' = Append(tokens, t)
    BY <1>4 DEF Separator, CsvParser
  <2>2. line \in Seq(Chars) /\ current \in 1..(Len(line) + 1) /\ last \in 0..(current - 1)
        /\ tokens \in Seq(Seq(Chars))
    BY DEF TypeInv, CsvTypeOK
  <2>3. Len(line) \in Nat
    BY <2>2
  <2>4. /\ last + 1 \in Nat /\ current - 1 \in Nat /\ last + 1 >= 1
        /\ last + 1 <= (current - 1) + 1 /\ current - 1 <= Len(line)
    BY <2>2, <2>3
  <2>5. t \in Seq(Chars)
    BY <2>2, <2>4, TokenType
  <2> HIDE DEF t
  <2>6. tokens' \in Seq(Seq(Chars))
    BY <2>1, <2>2, <2>5
  <2>7. current' \in 1..(Len(line) + 1) /\ last' \in 0..(current' - 1)
    BY <2>1, <2>2, <2>3
  <2> QED
    BY <2>1, <2>6, <2>7 DEF TypeInv, CsvTypeOK
<1>5. CASE EndOfLine
  <2> DEFINE t == Token(last + 1, Len(line))
  <2>1. /\ reader' = "parsed" /\ UNCHANGED <<values, line, current, last, inText>>
        /\ tokens' \in {tokens, Append(tokens, t)}
    BY <1>5 DEF EndOfLine
  <2>2. line \in Seq(Chars) /\ current \in 1..(Len(line) + 1) /\ last \in 0..(current - 1)
        /\ tokens \in Seq(Seq(Chars))
    BY DEF TypeInv, CsvTypeOK
  <2>3. Len(line) \in Nat
    BY <2>2
  <2>4. last + 1 \in Nat /\ last + 1 >= 1 /\ last + 1 <= Len(line) + 1
    BY <2>2, <2>3
  <2>5. t \in Seq(Chars)
    BY <2>2, <2>3, <2>4, TokenType
  <2> HIDE DEF t
  <2>6. Append(tokens, t) \in Seq(Seq(Chars))
    BY <2>2, <2>5
  <2>7. tokens' \in Seq(Seq(Chars))
    BY <2>1, <2>2, <2>6
  <2> QED
    BY <2>1, <2>7 DEF TypeInv, CsvTypeOK
<1>6. CASE NextRow
  <2>1. values' = <<>> /\ line' = <<>> /\ tokens' = <<>> /\ Len(<<>>) = 0
        /\ reader' = "idle" /\ current' = 1 /\ last' = 0 /\ inText' = FALSE
    BY <1>6 DEF NextRow
  <2>2. values' \in Seq(Seq(Chars)) /\ tokens' \in Seq(Seq(Chars)) /\ line' \in Seq(Chars)
    BY <2>1
  <2>3. current' \in 1..(Len(line') + 1) /\ last' \in 0..(current' - 1)
    <3>1. Len(line') = 0
      BY <2>1
    <3> QED
      BY <2>1, <3>1
  <2> QED
    BY <2>1, <2>2, <2>3, Zenon DEF TypeInv, CsvTypeOK
<1> QED
  BY <1>1, <1>2, <1>3, <1>4, <1>5, <1>6 DEF CsvNext

(* Whatever row or line is read, the tokens are texts and no token begins  *)
(* behind the place that CsvParser reads.                                  *)
THEOREM CsvTypeCorrect == CsvSpec => []CsvTypeOK
<1>1. TypeInv => CsvTypeOK
  BY DEF TypeInv
<1> QED
  BY <1>1, CsvInitType, CsvNextType, PTL DEF CsvSpec


-----------------------------------------------------------------------------
(* inText is the parity of the qualifiers that have been read, and whether *)
(* a separator is a cut is settled when it is read.                        *)
CutInv ==
  /\ reader = "parsing" => (inText <=> InText(current))
  /\ CutsOutsideText

LEMMA CsvInitInv == CsvInit => CutInv
  BY DEF CsvInit, CutInv, CutsOutsideText

(* The line is there and nothing of it has been read.                      *)
LEMMA ReadKeepsInv ==
  ASSUME TypeInv, NEW text, reader = "idle", ReadLine(text)
  PROVE  CutInv'
<1>1. current' = 1 /\ last' = 0 /\ inText' = FALSE /\ tokens' = <<>>
  BY DEF TypeInv, ReadLine
<1>2. ~InText(1)'
  <2>1. {j \in 1..(1 - 1) : line'[j] = "qual"} = {}
    OBVIOUS
  <2>2. Qualifiers(line', 1..(1 - 1)) = 0
    BY <2>1, FS_EmptySet DEF Qualifiers
  <2> QED
    BY <2>2 DEF InText
<1>3. Cuts(0)' = {}
  BY DEF Cuts
<1>4. CutsOutsideText'
  <2>1. (current - 1)' = 0
    BY <1>1
  <2>2. Cardinality(Cuts(current - 1))' = 0 /\ Cuts(current - 1)' = {}
    BY <1>3, <2>1, FS_EmptySet
  <2>3. Len(tokens') = 0
    BY <1>1
  <2> QED
    BY <1>1, <2>2, <2>3 DEF CutsOutsideText
<1>5. reader' = "parsing" => (inText' <=> InText(current)')
  BY <1>1, <1>2
<1> QED
  BY <1>4, <1>5 DEF CutInv

(* One turn of CsvParser's loop.                                           *)
LEMMA CharacterKeepsInv ==
  ASSUME TypeInv, CutInv, Qualifier \/ Separator \/ Other
  PROVE  CutInv'
<1>1. /\ reader = "parsing" /\ reader' = "parsing" /\ line' = line
      /\ current' = current + 1 /\ current \in Nat \ {0} /\ last \in 0..(current - 1)
      /\ inText \in BOOLEAN /\ (inText <=> InText(current)) /\ tokens \in Seq(Seq(Chars))
  BY DEF TypeInv, CsvTypeOK, CutInv, Qualifier, Separator, Other, CsvParser
<1>2. InText(current)' <=> (inText <=> line[current] # "qual")
  <2>1. InText(current + 1) <=> (InText(current) <=> line[current] # "qual")
    BY <1>1, InTextNext
  <2>2. InText(current)' <=> InText(current + 1)
    BY <1>1 DEF InText, Qualifiers
  <2> QED
    BY <1>1, <2>1, <2>2
<1>3. Cuts(current - 1)' = Cuts(current)
  <2>1. (current - 1)' = current
    BY <1>1
  <2> QED
    BY <1>1, <2>1 DEF Cuts, InText
<1>4. /\ IsFiniteSet(Cuts(current - 1)) /\ Cardinality(Cuts(current - 1)) \in Nat
      /\ Cuts(current) = IF line[current] = "sep" /\ ~InText(current)
                         THEN Cuts(current - 1) \union {current} ELSE Cuts(current - 1)
      /\ current \notin Cuts(current - 1)
  BY <1>1, CutsGrow
<1>5. /\ last # 0 => last \in Cuts(current - 1)
      /\ \A i \in Cuts(current - 1) : i <= last
      /\ Len(tokens) = Cardinality(Cuts(current - 1))
  BY <1>1 DEF CutInv, CutsOutsideText
<1>6. CASE Qualifier \/ Other
  <2>1. /\ last' = last /\ tokens' = tokens /\ inText' \in BOOLEAN
        /\ inText' <=> InText(current)'
    <3>1. CASE Qualifier
      BY <1>1, <1>2, <3>1 DEF Qualifier
    <3>2. CASE Other
      BY <1>1, <1>2, <3>2 DEF Other
    <3> QED
      BY <1>6, <3>1, <3>2
  <2>2. ~(line[current] = "sep" /\ ~InText(current))
    BY <1>1, <1>6 DEF Qualifier, Other
  <2>3. Cuts(current - 1)' = Cuts(current - 1)
    BY <1>3, <1>4, <2>2
  <2>4. CutsOutsideText'
    BY <1>5, <2>1, <2>3 DEF CutsOutsideText
  <2> QED
    BY <2>1, <2>4 DEF CutInv
<1>7. CASE Separator
  <2> DEFINE t == Token(last + 1, current - 1)
  <2>1. /\ line[current] = "sep" /\ ~InText(current) /\ inText' = inText
        /\ last' = current /\ tokens' = Append(tokens, t)
    BY <1>1, <1>7 DEF Separator
  <2>2. Cuts(current - 1)' = Cuts(current - 1) \union {current}
    BY <1>3, <1>4, <2>1
  <2>3. Cardinality(Cuts(current - 1))' = Cardinality(Cuts(current - 1)) + 1
    BY <1>4, <2>2, FS_AddElement
  <2> HIDE DEF t
  <2>4. Len(tokens') = Len(tokens) + 1
    BY <1>1, <2>1
  <2>5. \A i \in Cuts(current - 1)' : i <= current
    <3>1. Cuts(current - 1) \subseteq 1..(current - 1)
      BY DEF Cuts
    <3> QED
      BY <1>1, <2>2, <3>1
  <2>6. CutsOutsideText'
    BY <1>5, <2>1, <2>2, <2>3, <2>4, <2>5 DEF CutsOutsideText
  <2>7. inText' <=> InText(current)'
    BY <1>1, <1>2, <2>1
  <2> QED
    BY <2>6, <2>7 DEF CutInv
<1> QED
  BY <1>6, <1>7

LEMMA CsvNextInv == TypeInv /\ CutInv /\ [CsvNext]_csvVars => CutInv'
<1> SUFFICES ASSUME TypeInv, CutInv, [CsvNext]_csvVars PROVE CutInv'
  OBVIOUS
<1>1. CASE UNCHANGED csvVars
  BY <1>1 DEF csvVars, CutInv, CutsOutsideText, InText, Cuts
<1>2. CASE Read
  <2>1. reader = "idle" /\ \E text : ReadLine(text)
    BY <1>2, Zenon DEF Read, ReadOwn, ReadForeign
  <2> QED
    BY <2>1, ReadKeepsInv
<1>3. CASE Qualifier \/ Separator \/ Other
  BY <1>3, CharacterKeepsInv
<1>4. CASE EndOfLine \/ NextRow
  BY <1>4 DEF EndOfLine, NextRow, CutInv, CutsOutsideText
<1> QED
  BY <1>1, <1>2, <1>3, <1>4 DEF CsvNext

-----------------------------------------------------------------------------
(* CsvParser cuts at the separators with an even number of qualifiers      *)
(* before them, and at no others, whatever the line.                       *)
THEOREM CutsAreOutsideText == CsvSpec => []CutsOutsideText
<1>1. CutInv => CutsOutsideText
  BY DEF CutInv
<1> QED
  BY <1>1, CsvInitType, CsvNextType, CsvInitInv, CsvNextInv, PTL DEF CsvSpec

-----------------------------------------------------------------------------
(* A row that was written: the reader is at some place of the value after  *)
(* the tokens it has, or behind it, and those are the values before.       *)
Plain(vs) == \A i \in 1..Len(vs) : ~Contains(vs[i], "qual")
Reading   == Len(tokens) + 1
Cell      == Quoted(values[Reading])
Place     == current - last
FirstTokens(n) == [i \in 1..n |-> Trimmed(values[i])]

InCell ==
  /\ Reading <= Len(values)
  /\ tokens = FirstTokens(Len(tokens))
  /\ last = Start(values)[Reading]
  /\ Place <= Len(Cell) + 1
  /\ inText <=> Contains(values[Reading], "sep") /\ Place \in 2..Len(Cell)

OwnInv ==
  values # <<>> /\ Plain(values) =>
    /\ line = LineOf(values)
    /\ reader = "parsing" => InCell
    /\ reader = "skipped" => IsBlank(line)
    /\ reader = "parsed" => tokens = FirstTokens(IF values[Len(values)] = <<>>
                                                 THEN Len(values) - 1 ELSE Len(values))

LEMMA QuotedPlaces ==
  ASSUME NEW v \in Seq(Chars), ~Contains(v, "qual")
  PROVE  LET q == Quoted(v)
         IN  /\ q \in Seq(Chars) /\ Len(q) \in Nat
             /\ \A i \in 1..Len(v) : v[i] # "qual"
             /\ ~Contains(v, "sep") => q = v /\ \A j \in 1..Len(q) : q[j] \notin {"sep", "qual"}
             /\ Contains(v, "sep") => /\ Len(q) >= 3 /\ q[1] = "qual" /\ q[Len(q)] = "qual"
                                      /\ \A j \in 2..(Len(q) - 1) : q[j] # "qual"
             /\ Len(q) = 0 <=> v = <<>>
<1>1. Quoted(v) \in Seq(Chars) /\ Len(Quoted(v)) \in Nat
  BY QuotedType
<1>2. \A i \in 1..Len(v) : v[i] # "qual"
  BY DEF Contains
<1>3. CASE ~Contains(v, "sep")
  <2>1. Quoted(v) = v
    BY <1>3 DEF Quoted
  <2>2. \A j \in 1..Len(v) : v[j] \notin {"sep", "qual"}
    BY <1>2, <1>3 DEF Contains
  <2>3. Len(v) = 0 <=> v = <<>>
    OBVIOUS
  <2> QED
    BY <1>1, <1>2, <1>3, <2>1, <2>2, <2>3
<1>4. CASE Contains(v, "sep")
  <2> DEFINE q == Quoted(v)
             n == Len(v)
  <2>1. q = InQuotes(v)
    BY <1>4 DEF Quoted, InQuotes
  <2>2. Len(q) = n + 2 /\ q[1] = "qual" /\ q[n + 2] = "qual" /\ \A i \in 1..n : q[i + 1] = v[i]
    BY <2>1, QuotedText
  <2>3. n \in Nat /\ n >= 1 /\ v # <<>>
    BY <1>4 DEF Contains
  <2> HIDE DEF q, n
  <2>4. Len(q) >= 3 /\ Len(q) # 0 /\ q[Len(q)] = "qual"
    BY <2>2, <2>3
  <2>5. \A j \in 2..(Len(q) - 1) : q[j] # "qual"
    <3> TAKE j \in 2..(Len(q) - 1)
    <3>1. j - 1 \in 1..n /\ (j - 1) + 1 = j
      BY <2>2, <2>3
    <3>2. q[j] = v[j - 1] /\ v[j - 1] # "qual"
      BY <1>2, <2>2, <3>1 DEF n
    <3> QED
      BY <3>2
  <2> QED
    BY <1>1, <1>2, <1>4, <2>2, <2>3, <2>4, <2>5 DEF q, n
<1> QED
  BY <1>3, <1>4

(* Where the reader is in such a row.                                      *)
LEMMA PlaceInRow ==
  ASSUME TypeInv, OwnInv, values # <<>>, Plain(values), reader = "parsing"
  PROVE  /\ line \in Seq(Chars) /\ Len(line) \in Nat /\ Len(tokens) \in Nat /\ Len(values) \in Nat
         /\ Reading \in 1..Len(values)
         /\ values[Reading] \in Seq(Chars) /\ ~Contains(values[Reading], "qual")
         /\ Cell \in Seq(Chars) /\ Len(Cell) \in Nat
         /\ last \in Nat /\ current = last + Place /\ Place \in 1..(Len(Cell) + 1)
         /\ last + Len(Cell) <= Len(line)
         /\ \A j \in 1..Len(Cell) : line[last + j] = Cell[j]
         /\ Reading # Len(values) => /\ Start(values)[Reading + 1] = (last + Len(Cell)) + 1
                                     /\ line[(last + Len(Cell)) + 1] = "sep"
                                     /\ (last + Len(Cell)) + 1 <= Len(line)
         /\ Reading = Len(values) => Len(line) = last + Len(Cell)
<1> DEFINE n == Len(values)
           m == Reading
<1>1. /\ values \in Seq(Seq(Chars)) /\ line \in Seq(Chars) /\ tokens \in Seq(Seq(Chars))
      /\ current \in 1..(Len(line) + 1) /\ last \in 0..(current - 1)
  BY DEF TypeInv, CsvTypeOK
<1>2. n \in Nat /\ Len(tokens) \in Nat /\ Len(line) \in Nat
  BY <1>1
<1>3. /\ line = LineOf(values)
      /\ Reading <= n /\ last = Start(values)[Reading] /\ Place <= Len(Cell) + 1
  BY DEF OwnInv, InCell
<1>4. Laid(line, values)
  BY <1>1, <1>3, RowIsLaid
<1>5. m \in 1..n
  BY <1>2, <1>3 DEF Reading
<1>6. values[m] \in Seq(Chars) /\ ~Contains(values[m], "qual")
  <2> HIDE DEF m
  <2> QED
    BY <1>1, <1>5 DEF Plain
<1>7. Cell \in Seq(Chars) /\ Len(Cell) \in Nat
  BY <1>6, QuotedPlaces DEF Cell
<1>8. last \in Nat /\ current = last + Place /\ Place \in 1..(Len(Cell) + 1)
  <2> DEFINE l == Len(Cell)
  <2>1. l \in Nat /\ Place <= l + 1
    BY <1>3, <1>7
  <2> HIDE DEF l
  <2>2. last \in Nat /\ current = last + Place /\ Place \in 1..(l + 1)
    BY <1>1, <1>2, <2>1 DEF Place
  <2> QED
    BY <2>2 DEF l
<1> HIDE DEF m, n
<1>9. Cell = Quoted(values[m]) /\ last = Start(values)[m]
  BY <1>3 DEF Cell, m
<1>10. last + Len(Cell) <= Len(line) /\ \A j \in 1..Len(Cell) : line[last + j] = Cell[j]
  BY <1>4, <1>5, <1>9 DEF Laid, n
<1>11. ASSUME m # n
       PROVE  /\ Start(values)[m + 1] = (last + Len(Cell)) + 1
              /\ line[(last + Len(Cell)) + 1] = "sep"
              /\ (last + Len(Cell)) + 1 <= Len(line)
  <2> DEFINE k == m + 1
             l == Len(Quoted(values[k]))
             S == Start(values)
  <2>1. k \in 2..n /\ k \in 1..n /\ k - 1 = m
    BY <1>2, <1>5, <1>11
  <2> HIDE DEF k, S
  <2>2. S[k] = (S[k - 1] + Len(Quoted(values[k - 1]))) + 1 /\ line[S[k]] = "sep"
        /\ S[k] + l <= Len(line) /\ S \in [1..n -> Nat]
    BY <1>4, <2>1 DEF Laid, n, S
  <2>3. S[k] = (last + Len(Cell)) + 1
    BY <1>9, <2>1, <2>2 DEF S
  <2>4. l \in Nat
    <3>1. values[k] \in Seq(Chars) /\ ~Contains(values[k], "qual")
      BY <1>1, <2>1 DEF Plain, n
    <3> QED
      BY <3>1, QuotedPlaces
  <2> HIDE DEF l
  <2>5. S[k] <= Len(line)
    <3>1. S[k] \in Nat
      BY <2>1, <2>2
    <3> DEFINE s == S[k]
    <3>2. s \in Nat /\ s + l <= Len(line)
      BY <2>2, <3>1
    <3> HIDE DEF s
    <3>3. s <= Len(line)
      BY <1>2, <2>4, <3>2
    <3> QED
      BY <3>3 DEF s
  <2> QED
    BY <2>2, <2>3, <2>5 DEF k, S
<1>12. ASSUME m = n PROVE Len(line) = last + Len(Cell)
  BY <1>4, <1>9, <1>12 DEF Laid, n
<1> QED
  BY <1>1, <1>2, <1>5, <1>6, <1>7, <1>8, <1>10, <1>11, <1>12 DEF m, n


LEMMA FirstTokensType ==
  ASSUME values \in Seq(Seq(Chars)), NEW n \in Nat, n <= Len(values)
  PROVE  /\ FirstTokens(n) \in Seq(Seq(Chars)) /\ Len(FirstTokens(n)) = n
         /\ \A i \in 1..n : /\ FirstTokens(n)[i] = Trimmed(values[i])
                            /\ Trimmed(values[i]) \in Seq(Chars)
<1>1. ASSUME NEW i \in 1..n PROVE Trimmed(values[i]) \in Seq(Chars)
  <2>1. values[i] \in Seq(Chars)
    OBVIOUS
  <2> QED
    BY <2>1, TrimmedType
<1>2. FirstTokens(n) \in [1..n -> Seq(Chars)]
  BY <1>1 DEF FirstTokens
<1>3. \A i \in 1..n : FirstTokens(n)[i] = Trimmed(values[i])
  BY DEF FirstTokens
<1> QED
  BY <1>1, <1>2, <1>3

LEMMA TokenAdded ==
  ASSUME values \in Seq(Seq(Chars)), NEW n \in Nat, n + 1 <= Len(values)
  PROVE  Append(FirstTokens(n), Trimmed(values[n + 1])) = FirstTokens(n + 1)
<1> DEFINE a == FirstTokens(n)
           b == FirstTokens(n + 1)
           e == Trimmed(values[n + 1])
           c == Append(a, e)
<1>0. Len(values) \in Nat /\ n <= Len(values) /\ n + 1 \in 1..(n + 1) /\ n + 1 \in Nat
  OBVIOUS
<1>1. /\ a \in Seq(Seq(Chars)) /\ Len(a) = n
      /\ \A i \in 1..n : a[i] = Trimmed(values[i])
  BY <1>0, FirstTokensType, Zenon
<1>2. /\ b \in Seq(Seq(Chars)) /\ Len(b) = n + 1
      /\ \A i \in 1..(n + 1) : b[i] = Trimmed(values[i]) /\ Trimmed(values[i]) \in Seq(Chars)
  BY <1>0, FirstTokensType, Zenon
<1>3. e \in Seq(Chars) /\ b[n + 1] = e
  BY <1>0, <1>2
<1>4. \A i \in 1..n : a[i] = b[i]
  <2> TAKE i \in 1..n
  <2>1. i \in 1..(n + 1)
    OBVIOUS
  <2>2. b[i] = Trimmed(values[i])
    BY <1>2, <2>1
  <2> HIDE DEF a, b
  <2> QED
    BY <1>1, <2>2
<1> HIDE DEF a, b, e
<1>5. /\ c \in Seq(Seq(Chars)) /\ Len(c) = n + 1
      /\ (\A i \in 1..n : c[i] = a[i]) /\ c[n + 1] = e
  BY <1>1, <1>3, AppendProperties
<1> HIDE DEF c
<1>6. \A i \in 1..(n + 1) : c[i] = b[i]
  <2> TAKE i \in 1..(n + 1)
  <2>1. i \in 1..n \/ i = n + 1
    OBVIOUS
  <2> QED
    BY <1>3, <1>4, <1>5, <2>1
<1>7. c = b
  BY <1>2, <1>5, <1>6, SeqEqual
<1> QED
  BY <1>7 DEF a, b, c, e

(* The text from a value's beginning to its end is read back as the value. *)
LEMMA CellIsRead ==
  ASSUME TypeInv, OwnInv, values # <<>>, Plain(values), reader = "parsing"
  PROVE  Token(last + 1, last + Len(Cell)) = Trimmed(values[Reading])
<1> DEFINE l == Len(Cell)
           u == SubSeq(line, last + 1, last + l)
<1>1. /\ line \in Seq(Chars) /\ Len(line) \in Nat /\ Cell \in Seq(Chars) /\ l \in Nat
      /\ last \in Nat /\ last + l <= Len(line)
      /\ values[Reading] \in Seq(Chars) /\ ~Contains(values[Reading], "qual")
      /\ \A j \in 1..l : line[last + j] = Cell[j]
  BY PlaceInRow
<1>2. u = Cell
  <2>0. Len(Cell) = l
    OBVIOUS
  <2> HIDE DEF l
  <2>1. last + 1 \in Nat /\ last + l \in Nat /\ last + 1 >= 1 /\ last + 1 <= (last + l) + 1
        /\ ((last + l) + 1) - (last + 1) = l
    BY <1>1
  <2>2. /\ u \in Seq(Chars) /\ Len(u) = ((last + l) + 1) - (last + 1)
        /\ \A k \in 1..(((last + l) + 1) - (last + 1)) : u[k] = line[((last + 1) + k) - 1]
    BY <1>1, <2>1, PartOf
  <2> HIDE DEF u
  <2>3. \A k \in 1..l : u[k] = Cell[k]
    <3> TAKE k \in 1..l
    <3>1. ((last + 1) + k) - 1 = last + k
      BY <1>1
    <3> QED
      BY <1>1, <2>1, <2>2, <3>1
  <2> QED
    BY <1>1, <2>0, <2>1, <2>2, <2>3, SeqEqual
<1>3. WithoutQualifiers(Cell) = values[Reading]
  <2>1. \A i \in 1..Len(values[Reading]) : values[Reading][i] # "qual"
    BY <1>1 DEF Contains
  <2> QED
    BY <1>1, <2>1, Unquoted DEF Cell
<1> QED
  BY <1>2, <1>3 DEF Token

(* A character within a value, or one of its quotes.                       *)
LEMMA CharacterInRow ==
  ASSUME TypeInv, OwnInv, values # <<>>, Plain(values), Qualifier \/ Other
  PROVE  InCell'
<1> DEFINE l == Len(Cell)
           j == Place
           v == values[Reading]
           quoted == Contains(v, "sep")
<1>1. /\ reader = "parsing" /\ current <= Len(line) /\ current' = current + 1
      /\ UNCHANGED <<values, line, reader, last, tokens>>
  BY DEF Qualifier, Other, CsvParser
<1>2. /\ Len(line) \in Nat /\ l \in Nat /\ last \in Nat /\ current = last + j /\ j \in 1..(l + 1)
      /\ (\A i \in 1..l : line[last + i] = Cell[i])
      /\ v \in Seq(Chars) /\ ~Contains(v, "qual")
      /\ Reading # Len(values) => line[(last + l) + 1] = "sep"
      /\ Reading = Len(values) => Len(line) = last + l
  BY <1>1, PlaceInRow
<1>3. /\ InCell /\ (inText <=> quoted /\ j \in 2..l) /\ inText \in BOOLEAN
  BY <1>1 DEF OwnInv, InCell, TypeInv, CsvTypeOK
<1>4. /\ l \in Nat
      /\ ~quoted => \A i \in 1..l : Cell[i] \notin {"sep", "qual"}
      /\ quoted => l >= 3 /\ Cell[1] = "qual" /\ Cell[l] = "qual" /\ \A i \in 2..(l - 1) : Cell[i] # "qual"
  BY <1>2, QuotedPlaces DEF Cell
<1>5. Reading' = Reading /\ Cell' = Cell /\ Place' = j + 1 /\ (Contains(v, "sep"))' = quoted /\ v' = v
  <2>1. Place' = j + 1
    BY <1>1, <1>2 DEF Place
  <2> QED
    BY <1>1, <2>1 DEF Reading, Cell
<1> HIDE DEF l, j, v, quoted
<1>6. j <= l
  <2> SUFFICES ASSUME j = l + 1 PROVE FALSE
    BY <1>2
  <2>1. current = (last + l) + 1
    BY <1>2
  <2>2. Reading # Len(values)
    BY <1>1, <1>2, <2>1
  <2>3. line[current] = "sep" /\ ~inText
    BY <1>2, <1>3, <2>1, <2>2
  <2> QED
    BY <2>3 DEF Qualifier, Other
<1>7. line[current] = Cell[j] /\ j \in 1..l
  BY <1>2, <1>6
<1>8. inText' <=> quoted /\ j + 1 \in 2..l
  <2>1. CASE Qualifier
    <3>1. Cell[j] = "qual" /\ (inText' <=> ~inText)
      BY <1>3, <1>7, <2>1 DEF Qualifier
    <3>2. quoted
      BY <1>4, <1>7, <3>1
    <3>3. j = 1 \/ j = l
      BY <1>2, <1>4, <1>7, <3>1, <3>2
    <3> QED
      BY <1>2, <1>3, <1>4, <3>1, <3>2, <3>3
  <2>2. CASE Other
    <3>1. Cell[j] # "qual" /\ inText' = inText
      BY <1>7, <2>2 DEF Other
    <3>2. CASE quoted
      <4>1. j # 1 /\ j # l
        BY <1>4, <3>1, <3>2
      <4> QED
        BY <1>2, <1>3, <1>7, <3>1, <3>2, <4>1
    <3>3. CASE ~quoted
      BY <1>3, <3>1, <3>3
    <3> QED
      BY <3>2, <3>3
  <2> QED
    BY <2>1, <2>2
<1>9. j + 1 <= l + 1
  BY <1>2, <1>6
<1>10. /\ (Reading <= Len(values))' /\ (tokens = FirstTokens(Len(tokens)))'
       /\ (last = Start(values)[Reading])'
  BY <1>1, <1>3, <1>5 DEF InCell, FirstTokens, Start
<1>11. Place' <= (Len(Cell) + 1)' /\ (inText' <=> quoted /\ Place' \in 2..(Len(Cell))')
  BY <1>5, <1>8, <1>9 DEF l
<1> QED
  BY <1>5, <1>10, <1>11 DEF InCell, v, quoted

(* A separator that is a cut is the one behind the value.                  *)
LEMMA SeparatorInRow ==
  ASSUME TypeInv, OwnInv, values # <<>>, Plain(values), Separator
  PROVE  InCell'
<1> DEFINE l == Len(Cell)
           j == Place
           m == Reading
           v == values[m]
           quoted == Contains(v, "sep")
           t == Token(last + 1, current - 1)
<1>1. /\ reader = "parsing" /\ current <= Len(line) /\ current' = current + 1 /\ last' = current
      /\ line[current] = "sep" /\ ~inText /\ inText' = inText
      /\ tokens' = Append(tokens, t) /\ UNCHANGED <<values, line, reader>>
  BY DEF Separator, CsvParser
<1>2. /\ Len(line) \in Nat /\ l \in Nat /\ last \in Nat /\ current = last + j /\ j \in 1..(l + 1)
      /\ (\A i \in 1..l : line[last + i] = Cell[i])
      /\ v \in Seq(Chars) /\ ~Contains(v, "qual")
      /\ m \in 1..Len(values) /\ Len(values) \in Nat /\ Len(tokens) \in Nat
      /\ m # Len(values) => Start(values)[m + 1] = (last + l) + 1
      /\ m = Len(values) => Len(line) = last + l
  BY <1>1, PlaceInRow
<1>3. (inText <=> quoted /\ j \in 2..l) /\ inText \in BOOLEAN /\ tokens = FirstTokens(Len(tokens))
  BY <1>1 DEF OwnInv, InCell, TypeInv, CsvTypeOK
<1>4. /\ ~quoted => \A i \in 1..l : Cell[i] \notin {"sep", "qual"}
      /\ quoted => l >= 3 /\ Cell[1] = "qual" /\ Cell[l] = "qual"
  BY <1>2, QuotedPlaces DEF Cell
<1>5. t = Token(last + 1, current - 1) /\ m = Len(tokens) + 1
  BY DEF Reading
<1>6. Token(last + 1, last + l) = Trimmed(v)
  BY <1>1, CellIsRead
<1>7. values \in Seq(Seq(Chars))
  BY DEF TypeInv, CsvTypeOK
<1> HIDE DEF l, j, v, quoted, t, m
<1>8. j = l + 1
  <2> SUFFICES ASSUME j \in 1..l PROVE FALSE
    BY <1>2
  <2>1. Cell[j] = "sep"
    BY <1>1, <1>2
  <2>2. quoted
    BY <1>4, <2>1
  <2>3. j # 1
    BY <1>4, <2>1, <2>2
  <2> QED
    BY <1>1, <1>2, <1>3, <2>2, <2>3
<1>9. current = (last + l) + 1 /\ current - 1 = last + l
  BY <1>2, <1>8
<1>10. m # Len(values) /\ m + 1 <= Len(values)
  BY <1>1, <1>2, <1>9
<1>11. tokens' = FirstTokens(m) /\ Len(tokens)' = m
  <2>1. t = Trimmed(values[Len(tokens) + 1])
    BY <1>5, <1>6, <1>9 DEF v
  <2>2. Append(FirstTokens(Len(tokens)), Trimmed(values[Len(tokens) + 1])) = FirstTokens(Len(tokens) + 1)
    <3>1. Len(tokens) \in Nat /\ Len(tokens) + 1 <= Len(values)
      BY <1>2, <1>5
    <3> QED
      BY <1>7, <3>1, TokenAdded, Zenon
  <2>3. tokens' = FirstTokens(m)
    BY <1>1, <1>3, <1>5, <2>1, <2>2
  <2>4. Len(FirstTokens(m)) = m
    <3>1. m \in Nat /\ m <= Len(values)
      BY <1>2
    <3> QED
      BY <1>7, <3>1, FirstTokensType, Zenon
  <2> QED
    BY <2>3, <2>4
<1>12. Reading' = m + 1
  BY <1>11 DEF Reading
<1>13. (Reading <= Len(values))' /\ (last = Start(values)[Reading])'
  <2>1. last' = Start(values)[m + 1]
    BY <1>1, <1>2, <1>9, <1>10
  <2> QED
    BY <1>1, <1>10, <1>12, <2>1 DEF Start
<1>14. (tokens = FirstTokens(Len(tokens)))'
  BY <1>1, <1>11 DEF FirstTokens
<1>15. Place' = 1
  BY <1>1, <1>2 DEF Place
<1>16. Cell' = Quoted(values[m + 1]) /\ Len(Cell)' \in Nat
  <2>1. Cell' = Quoted(values[m + 1])
    BY <1>1, <1>12 DEF Cell
  <2>2. values[m + 1] \in Seq(Chars)
    <3>1. m + 1 \in 1..Len(values)
      BY <1>2, <1>10
    <3> QED
      BY <1>7, <3>1
  <2> QED
    BY <2>1, <2>2, QuotedType
<1>17. Place' <= (Len(Cell) + 1)' /\ ~(Place' \in 2..Len(Cell)')
  BY <1>15, <1>16
<1> QED
  BY <1>1, <1>13, <1>14, <1>17 DEF InCell


(* The end of the line is the end of the last value.                       *)
LEMMA EndOfRow ==
  ASSUME TypeInv, OwnInv, values # <<>>, Plain(values), EndOfLine
  PROVE  tokens' = FirstTokens(IF values[Len(values)] = <<>> THEN Len(values) - 1 ELSE Len(values))
<1> DEFINE l == Len(Cell)
           n == Len(values)
           m == Reading
           t == Token(last + 1, Len(line))
<1>1. /\ reader = "parsing" /\ current > Len(line)
      /\ tokens' = IF last # Len(line) THEN Append(tokens, t) ELSE tokens
  BY DEF EndOfLine
<1>2. /\ Len(line) \in Nat /\ l \in Nat /\ last \in Nat /\ current = last + Place
      /\ Place \in 1..(l + 1) /\ last + l <= Len(line)
      /\ m \in 1..n /\ n \in Nat /\ Len(tokens) \in Nat
      /\ values[m] \in Seq(Chars) /\ ~Contains(values[m], "qual")
      /\ m # n => (last + l) + 1 <= Len(line)
      /\ m = n => Len(line) = last + l
  BY <1>1, PlaceInRow
<1>3. tokens = FirstTokens(Len(tokens)) /\ m = Len(tokens) + 1
  BY <1>1 DEF OwnInv, InCell, Reading
<1>4. l = 0 <=> values[m] = <<>>
  BY <1>2, QuotedPlaces DEF Cell
<1>5. Token(last + 1, last + l) = Trimmed(values[m])
  BY <1>1, CellIsRead
<1>6. values \in Seq(Seq(Chars))
  BY DEF TypeInv, CsvTypeOK
<1> HIDE DEF l, m
<1>7. m = n
  <2> HIDE DEF n
  <2> QED
    BY <1>1, <1>2
<1>8. Len(line) = last + l /\ (last # Len(line) <=> l # 0)
  BY <1>2, <1>7
<1>9. t = Trimmed(values[Len(tokens) + 1])
  BY <1>3, <1>5, <1>8
<1>10. Append(FirstTokens(Len(tokens)), Trimmed(values[Len(tokens) + 1])) = FirstTokens(Len(tokens) + 1)
  <2>1. Len(tokens) \in Nat /\ Len(tokens) + 1 <= Len(values)
    BY <1>2, <1>3, <1>7
  <2> QED
    BY <1>6, <2>1, TokenAdded, Zenon
<1> HIDE DEF t
<1>11. Len(tokens) = n - 1
  BY <1>2, <1>3, <1>7
<1>12. CASE values[n] = <<>>
  <2>1. tokens' = tokens
    BY <1>1, <1>4, <1>7, <1>8, <1>12
  <2> QED
    BY <1>3, <1>11, <1>12, <2>1
<1>13. CASE values[n] # <<>>
  <2>1. tokens' = Append(tokens, t)
    BY <1>1, <1>4, <1>7, <1>8, <1>13
  <2>2. tokens' = FirstTokens(n)
    BY <1>3, <1>7, <1>9, <1>10, <2>1
  <2> QED
    BY <1>13, <2>2
<1> QED
  BY <1>12, <1>13

(* A row that is read from its beginning.                                  *)
LEMMA RowBegins ==
  ASSUME values' \in Seq(Seq(Chars)), values' # <<>>,
         tokens' = <<>>, last' = 0, current' = 1, inText' = FALSE
  PROVE  InCell'
<1>1. Len(tokens)' = 0 /\ Reading' = 1
  BY DEF Reading
<1>2. Len(values)' \in Nat /\ 1 <= Len(values)'
  OBVIOUS
<1>3. Start(values')[1] = 0
  BY RowIsLaid DEF Laid
<1>4. (tokens = FirstTokens(Len(tokens)))'
  BY <1>1 DEF FirstTokens
<1>5. Len(Cell)' \in Nat
  <2>1. values'[1] \in Seq(Chars)
    BY <1>2
  <2>2. Cell' = Quoted(values'[1])
    BY <1>1 DEF Cell
  <2> QED
    BY <2>1, <2>2, QuotedType
<1>6. Place' = 1
  BY DEF Place
<1>7. Start(values)' = Start(values')
  BY DEF Start
<1> QED
  BY <1>1, <1>2, <1>3, <1>4, <1>5, <1>6, <1>7 DEF InCell

LEMMA OwnInitInv == CsvInit => OwnInv
  BY DEF CsvInit, OwnInv

LEMMA OwnNextInv == TypeInv /\ OwnInv /\ TypeInv' /\ [CsvNext]_csvVars => OwnInv'
<1> SUFFICES ASSUME TypeInv, OwnInv, TypeInv', [CsvNext]_csvVars, values' # <<>>, Plain(values)'
             PROVE  OwnInv'
  BY DEF OwnInv
<1>1. CASE UNCHANGED csvVars
  BY <1>1 DEF csvVars, OwnInv, InCell, Reading, Cell, Place, FirstTokens, Start, Plain
<1>2. CASE Read
  <2>1. reader = "idle" /\ current = 1 /\ last = 0 /\ inText = FALSE /\ tokens = <<>> /\ values = <<>>
    BY <1>2 DEF Read, TypeInv
  <2>2. PICK vs : ReadOwn(vs)
    BY <1>2, <2>1 DEF Read, ReadForeign
  <2>3. /\ values' = vs /\ line' = LineOf(vs)
        /\ reader' = IF IsBlank(LineOf(vs)) THEN "skipped" ELSE "parsing"
        /\ UNCHANGED <<current, last, inText, tokens>>
    BY <2>2 DEF ReadOwn, ReadLine
  <2>4. values' \in Seq(Seq(Chars))
    BY DEF TypeInv, CsvTypeOK
  <2>5. InCell'
    BY <2>1, <2>3, <2>4, RowBegins
  <2>6. (line = LineOf(values))'
    BY <2>3 DEF LineOf
  <2>7. reader' \in {"skipped", "parsing"} /\ (reader' = "skipped" => IsBlank(line)')
    BY <2>3 DEF IsBlank
  <2> QED
    BY <2>5, <2>6, <2>7 DEF OwnInv
<1>3. CASE Qualifier \/ Separator \/ Other
  <2>1. reader = "parsing" /\ reader' = reader /\ values' = values /\ line' = line
    BY <1>3 DEF Qualifier, Separator, Other, CsvParser
  <2>2. values # <<>> /\ Plain(values)
    BY <2>1 DEF Plain
  <2>3. InCell'
    BY <1>3, <2>2, CharacterInRow, SeparatorInRow
  <2>4. (line = LineOf(values))'
    BY <2>1, <2>2 DEF OwnInv, LineOf
  <2> QED
    BY <2>1, <2>3, <2>4 DEF OwnInv
<1>4. CASE EndOfLine
  <2>1. reader' = "parsed" /\ values' = values /\ line' = line
    BY <1>4 DEF EndOfLine
  <2>2. values # <<>> /\ Plain(values)
    BY <2>1 DEF Plain
  <2>3. tokens' = FirstTokens(IF values[Len(values)] = <<>> THEN Len(values) - 1 ELSE Len(values))
    BY <1>4, <2>2, EndOfRow
  <2>4. (line = LineOf(values))'
    BY <2>1, <2>2 DEF OwnInv, LineOf
  <2> QED
    BY <2>1, <2>3, <2>4 DEF OwnInv, FirstTokens
<1>5. CASE NextRow
  BY <1>5 DEF NextRow
<1> QED
  BY <1>1, <1>2, <1>3, <1>4, <1>5 DEF CsvNext

(* The values of a blank row are blank, and there is only one of them      *)
(* unless the separator is white space.                                    *)
LEMMA BlankRow ==
  ASSUME NEW vs \in Seq(Seq(Chars)), vs # <<>>, Plain(vs), IsBlank(LineOf(vs))
  PROVE  /\ Len(vs) = 1 \/ "sep" \in White
         /\ \A m \in 1..Len(vs) : Trimmed(vs[m]) = <<>>
<1> DEFINE text == LineOf(vs)
           n == Len(vs)
           S == Start(vs)
<1>1. n \in Nat /\ n >= 1
  OBVIOUS
<1>2. text \in Seq(Chars) /\ Laid(text, vs)
  BY RowIsLaid
<1>3. \A i \in 1..Len(text) : text[i] \in White
  BY DEF IsBlank
<1>4. Len(text) \in Nat
  BY <1>2
<1>5. "qual" \notin White
  BY SeparatorAssumption
<1> HIDE DEF text
<1>6. ASSUME NEW m \in 1..n PROVE Trimmed(vs[m]) = <<>>
  <2> DEFINE q == Quoted(vs[m])
             l == Len(q)
             s == S[m]
  <2>1. vs[m] \in Seq(Chars) /\ ~Contains(vs[m], "qual")
    BY DEF Plain
  <2>2. /\ q \in Seq(Chars) /\ l \in Nat
        /\ ~Contains(vs[m], "sep") => q = vs[m]
        /\ Contains(vs[m], "sep") => l >= 3 /\ q[1] = "qual"
    BY <2>1, QuotedPlaces
  <2>3. s \in Nat /\ s + l <= Len(text) /\ \A j \in 1..l : text[s + j] = q[j]
    <3>1. Start(vs) \in [1..n -> Nat]
      BY <1>2 DEF Laid
    <3>2. s \in Nat
      BY <3>1
    <3>3. \A k \in 1..n : /\ S[k] + Len(Quoted(vs[k])) <= Len(text)
                          /\ \A j \in 1..Len(Quoted(vs[k])) : text[S[k] + j] = Quoted(vs[k])[j]
      BY <1>2, Zenon DEF Laid
    <3> QED
      BY <3>2, <3>3, Zenon
  <2> HIDE DEF q, l, s, n
  <2>4. \A j \in 1..l : q[j] \in White
    <3> TAKE j \in 1..l
    <3>1. s + j \in 1..Len(text)
      BY <1>4, <2>2, <2>3
    <3> QED
      BY <1>3, <2>3, <3>1
  <2>5. q = vs[m]
    <3>1. l >= 3 => q[1] # "qual"
      <4> SUFFICES ASSUME l >= 3 PROVE q[1] # "qual"
        OBVIOUS
      <4>1. 1 \in 1..l
        BY <2>2
      <4> QED
        BY <1>5, <2>4, <4>1
    <3> QED
      BY <2>2, <3>1
  <2>6. IsBlank(vs[m])
    BY <2>4, <2>5 DEF IsBlank, l
  <2> QED
    BY <2>1, <2>6, TrimmedType
<1>7. n = 1 \/ "sep" \in White
  <2> SUFFICES ASSUME n # 1 PROVE "sep" \in White
    OBVIOUS
  <2> HIDE DEF n
  <2>1. 2 \in 2..n /\ 2 \in 1..n /\ 1 \in 1..n /\ 2 - 1 = 1
    BY <1>1
  <2>2. S[2] = (S[1] + Len(Quoted(vs[1]))) + 1 /\ text[S[2]] = "sep"
        /\ S[2] + Len(Quoted(vs[2])) <= Len(text) /\ S[1] = 0
    BY <1>2, <2>1 DEF Laid, n
  <2>3. Len(Quoted(vs[1])) \in Nat /\ Len(Quoted(vs[2])) \in Nat
    <3>1. vs[1] \in Seq(Chars) /\ vs[2] \in Seq(Chars)
      BY <2>1 DEF n
    <3> QED
      BY <3>1, QuotedType
  <2> DEFINE l == Len(Quoted(vs[1]))
             k == Len(Quoted(vs[2]))
  <2>4. S[2] = l + 1 /\ l \in Nat /\ k \in Nat /\ (l + 1) + k <= Len(text)
    BY <2>2, <2>3
  <2> HIDE DEF l, k, S
  <2>5. l + 1 \in 1..Len(text)
    BY <1>4, <2>4
  <2> QED
    BY <1>3, <2>2, <2>4, <2>5
<1> QED
  BY <1>6, <1>7

-----------------------------------------------------------------------------
(* A row of any length that DataTableToCsv has written, with any values    *)
(* that have no qualifiers, is read back by CsvToDataTableSimple: the      *)
(* values are in their columns, trimmed, and only an empty last one is     *)
(* missing.  It is skipped only where it has nothing but white space.      *)
THEOREM RowsAreReadBack == CsvSpec => []ReadsBack
<1>1. TypeInv /\ OwnInv => ReadsBack
  <2> SUFFICES ASSUME TypeInv, OwnInv, values # <<>>, \A i \in 1..Len(values) : ~Contains(values[i], "qual")
               PROVE  LET n    == Len(values)
                          kept == IF values[n] = <<>> THEN n - 1 ELSE n
                      IN  /\ reader = "parsed" => tokens = [i \in 1..kept |-> Trimmed(values[i])]
                          /\ reader = "skipped" => /\ n = 1 \/ "sep" \in White
                                                   /\ \A i \in 1..n : Trimmed(values[i]) = <<>>
    BY DEF ReadsBack
  <2>1. Plain(values)
    BY DEF Plain
  <2>2. reader = "parsed" => tokens = FirstTokens(IF values[Len(values)] = <<>>
                                                  THEN Len(values) - 1 ELSE Len(values))
    BY <2>1 DEF OwnInv
  <2>3. reader = "skipped" => /\ Len(values) = 1 \/ "sep" \in White
                              /\ \A i \in 1..Len(values) : Trimmed(values[i]) = <<>>
    <3>1. values \in Seq(Seq(Chars))
      BY DEF TypeInv, CsvTypeOK
    <3>2. reader = "skipped" => IsBlank(LineOf(values))
      BY <2>1 DEF OwnInv
    <3> QED
      BY <2>1, <3>1, <3>2, BlankRow
  <2> QED
    BY <2>2, <2>3, Zenon DEF FirstTokens
<1> QED
  BY <1>1, CsvInitType, CsvNextType, OwnInitInv, OwnNextInv, PTL DEF CsvSpec


-----------------------------------------------------------------------------
(* The other reader.  A place's rank among the bounds of the cells finds   *)
(* it again.                                                               *)
LEMMA BoundIs ==
  ASSUME NEW bounds, bounds \subseteq Nat, IsFiniteSet(bounds), NEW i \in bounds
  PROVE  Bound(bounds, Cardinality({j \in bounds : j < i})) = i
<1> DEFINE below(x) == {j \in bounds : j < x}
           r == Cardinality(below(i))
<1>1. ASSUME NEW x \in bounds, NEW y \in bounds, x < y
      PROVE  Cardinality(below(x)) # Cardinality(below(y))
  <2>1. IsFiniteSet(below(y)) /\ below(x) \in SUBSET below(y)
    <3>1. below(y) \in SUBSET bounds
      OBVIOUS
    <3>2. IsFiniteSet(below(y))
      BY <3>1, FS_Subset
    <3>3. \A j \in bounds : j < x => j < y
      BY <1>1
    <3> QED
      BY <3>2, <3>3
  <2>2. x \in below(y) /\ x \notin below(x)
    BY <1>1
  <2> HIDE DEF below
  <2> QED
    BY <2>1, <2>2, FS_Subset
<1>2. \A x \in bounds : Cardinality(below(x)) = r => x = i
  <2> TAKE x \in bounds
  <2>1. x \in Nat /\ i \in Nat
    OBVIOUS
  <2> HIDE DEF below
  <2>2. x < i \/ i < x \/ x = i
    BY <2>1
  <2> QED
    BY <1>1, <2>2
<1>3. Bound(bounds, r) = CHOOSE x \in bounds : Cardinality(below(x)) = r
  BY DEF Bound
<1> HIDE DEF below
<1> DEFINE b == CHOOSE x \in bounds : Cardinality(below(x)) = r
<1>4. b \in bounds /\ Cardinality(below(b)) = r
  BY Zenon
<1>5. b = i
  <2> HIDE DEF b, r
  <2> QED
    BY <1>2, <1>4
<1> QED
  BY <1>3, <1>5 DEF below

(* The qualifiers of a line, counted in two parts.                         *)
LEMMA QualifiersSplit ==
  ASSUME NEW text, NEW n \in Nat, NEW i \in 1..n, text[i] # "qual"
  PROVE  /\ Qualifiers(text, 1..(i - 1)) \in Nat /\ Qualifiers(text, (i + 1)..n) \in Nat
         /\ Qualifiers(text, 1..n) = Qualifiers(text, 1..(i - 1)) + Qualifiers(text, (i + 1)..n)
<1> DEFINE a == {j \in 1..(i - 1) : text[j] = "qual"}
           b == {j \in (i + 1)..n : text[j] = "qual"}
           c == {j \in 1..n : text[j] = "qual"}
<1>1. IsFiniteSet(1..(i - 1)) /\ IsFiniteSet((i + 1)..n)
  BY FS_Interval
<1>2. a \in SUBSET (1..(i - 1)) /\ b \in SUBSET ((i + 1)..n)
  OBVIOUS
<1>3. IsFiniteSet(a) /\ IsFiniteSet(b)
  <2> HIDE DEF a, b
  <2> QED
    BY <1>1, <1>2, FS_Subset
<1>4. a \cap b = {}
  OBVIOUS
<1>5. c = a \union b
  <2>1. \A j \in 1..n : j \in 1..(i - 1) \/ j = i \/ j \in (i + 1)..n
    OBVIOUS
  <2>2. 1..(i - 1) \subseteq 1..n /\ (i + 1)..n \subseteq 1..n
    OBVIOUS
  <2> QED
    BY <2>1, <2>2
<1>6. Cardinality(a) \in Nat /\ Cardinality(b) \in Nat
  <2> HIDE DEF a, b
  <2> QED
    BY <1>3, FS_CardinalityType
<1>7. /\ Qualifiers(text, 1..(i - 1)) = Cardinality(a)
      /\ Qualifiers(text, (i + 1)..n) = Cardinality(b)
      /\ Qualifiers(text, 1..n) = Cardinality(c)
  BY Zenon DEF Qualifiers
<1> HIDE DEF a, b, c
<1>8. Cardinality(c) = Cardinality(a) + Cardinality(b) - Cardinality({})
  BY <1>3, <1>4, <1>5, FS_Union
<1> QED
  BY <1>6, <1>7, <1>8, FS_EmptySet

(* If the qualifiers are in pairs, CsvParser cuts where the pattern finds  *)
(* a separator, and both at the same places if it finds nothing else.      *)
LEMMA SameCuts ==
  ASSUME line \in Seq(Chars), Qualifiers(line, 1..Len(line)) % 2 = 0
  PROVE  /\ Cuts(Len(line)) = {i \in RegexCuts(line) : line[i] = "sep"}
         /\ (\A i \in RegexCuts(line) : line[i] = "sep") => RegexCuts(line) = Cuts(Len(line))
<1> DEFINE n == Len(line)
<1>1. n \in Nat
  OBVIOUS
<1>2. ASSUME NEW i \in 1..n, line[i] = "sep"
      PROVE  Qualifiers(line, (i + 1)..n) % 2 = 0 <=> ~InText(i)
  <2> DEFINE a == Qualifiers(line, 1..(i - 1))
             b == Qualifiers(line, (i + 1)..n)
  <2>1. a \in Nat /\ b \in Nat /\ Qualifiers(line, 1..n) = a + b
    BY <1>1, <1>2, QualifiersSplit
  <2>2. (a + b) % 2 = 0
    BY <2>1
  <2>3. InText(i) <=> a % 2 = 1
    BY DEF InText
  <2> HIDE DEF a, b
  <2>4. b % 2 = 0 <=> ~(a % 2 = 1)
    BY <2>1, <2>2
  <2> QED
    BY <2>3, <2>4 DEF b
<1>3. Cuts(n) = {i \in RegexCuts(line) : line[i] = "sep"}
  <2>1. "sep" \in Matched
    BY SeparatorAssumption DEF Chars
  <2> QED
    BY <1>2, <2>1 DEF RegexCuts, Cuts
<1> QED
  BY <1>3

-----------------------------------------------------------------------------
(* The ranks of the cuts, of the line's beginning and of its end.          *)
Bounds == {0, Len(line) + 1} \union Cuts(Len(line))
Rank(i) == Cardinality({j \in Bounds : j < i})

LEMMA CutsUpTo ==
  ASSUME NEW n \in Nat
  PROVE  /\ IsFiniteSet(Cuts(n)) /\ Cardinality(Cuts(n)) \in Nat /\ Cuts(n) \subseteq 1..n
         /\ \A i \in 0..n : Cuts(i) = {j \in Cuts(n) : j <= i}
<1>1. Cuts(n) \subseteq 1..n
  BY DEF Cuts
<1>2. IsFiniteSet(1..n)
  BY FS_Interval
<1>3. IsFiniteSet(Cuts(n)) /\ Cardinality(Cuts(n)) \in Nat
  BY <1>1, <1>2, FS_Subset, FS_CardinalityType
<1>4. \A i \in 0..n : Cuts(i) = {j \in Cuts(n) : j <= i}
  BY DEF Cuts
<1> QED
  BY <1>1, <1>3, <1>4

LEMMA Ranks ==
  ASSUME line \in Seq(Chars)
  PROVE  LET n == Len(line)
         IN  /\ n \in Nat
             /\ Bounds \subseteq Nat /\ IsFiniteSet(Bounds)
             /\ Cardinality(Bounds) = Cardinality(Cuts(n)) + 2
             /\ \A i \in Cuts(n) \union {0} : i \in Bounds /\ Rank(i) = Cardinality(Cuts(i))
             /\ n + 1 \in Bounds /\ Rank(n + 1) = Cardinality(Cuts(n)) + 1
<1> DEFINE n == Len(line)
           C == Cuts(n)
<1>1. n \in Nat
  OBVIOUS
<1>2. /\ IsFiniteSet(C) /\ Cardinality(C) \in Nat /\ C \subseteq 1..n
      /\ \A i \in 0..n : Cuts(i) = {j \in C : j <= i}
  BY <1>1, CutsUpTo
<1>3. Bounds = (C \union {0}) \union {n + 1}
  BY DEF Bounds
<1> HIDE DEF C, n
<1>4. 0 \notin C /\ n + 1 \notin C \union {0}
  BY <1>1, <1>2
<1>5. IsFiniteSet(C \union {0}) /\ Cardinality(C \union {0}) = Cardinality(C) + 1
  BY <1>2, <1>4, FS_AddElement
<1>6. IsFiniteSet(Bounds) /\ Cardinality(Bounds) = Cardinality(C) + 2
  <2>1. IsFiniteSet(Bounds) /\ Cardinality(Bounds) = Cardinality(C \union {0}) + 1
    BY <1>3, <1>4, <1>5, FS_AddElement
  <2> QED
    BY <1>2, <1>5, <2>1
<1>7. Bounds \subseteq Nat
  BY <1>1, <1>2, <1>3
<1>8. Rank(n + 1) = Cardinality(C) + 1
  <2>1. {j \in Bounds : j < n + 1} = C \union {0}
    <3>1. \A j \in C : j < n + 1
      BY <1>1, <1>2
    <3>2. 0 < n + 1 /\ ~(n + 1 < n + 1)
      BY <1>1
    <3> QED
      BY <1>3, <3>1, <3>2, Zenon
  <2> QED
    BY <1>5, <2>1 DEF Rank
<1>9. ASSUME NEW i \in C PROVE Rank(i) = Cardinality(Cuts(i))
  <2> DEFINE D == {j \in C : j < i}
  <2>1. i \in 1..n
    BY <1>2
  <2>2. Cuts(i) = D \union {i} /\ i \notin D
    <3>1. Cuts(i) = {j \in C : j <= i}
      BY <1>1, <1>2, <2>1
    <3>2. \A j \in C : j <= i <=> (j < i \/ j = i)
      BY <1>1, <1>2
    <3>3. ~(i < i)
      BY <2>1
    <3> QED
      BY <3>1, <3>2, <3>3, Zenon
  <2>3. {j \in Bounds : j < i} = D \union {0}
    <3>1. 0 < i /\ ~(n + 1 < i)
      BY <1>1, <2>1
    <3> QED
      BY <1>3, <3>1
  <2>4. IsFiniteSet(D) /\ 0 \notin D
    <3>1. D \in SUBSET C
      OBVIOUS
    <3> QED
      BY <1>2, <1>4, <3>1, FS_Subset
  <2> HIDE DEF D
  <2>5. Cardinality(D \union {0}) = Cardinality(D) + 1 /\ Cardinality(D \union {i}) = Cardinality(D) + 1
    BY <2>2, <2>4, FS_AddElement
  <2> QED
    BY <2>2, <2>3, <2>5 DEF Rank
<1>10. Rank(0) = Cardinality(Cuts(0))
  <2>1. {j \in Bounds : j < 0} = {}
    <3>1. \A j \in Bounds : ~(j < 0)
      BY <1>7
    <3> QED
      BY <3>1, Zenon
  <2>2. Cuts(0) = {}
    BY DEF Cuts
  <2> QED
    BY <2>1, <2>2 DEF Rank
<1> QED
  BY <1>1, <1>3, <1>6, <1>7, <1>8, <1>9, <1>10 DEF C, n


-----------------------------------------------------------------------------
(* A token that CsvParser has is what lies between two cuts of which one   *)
(* is the next of the other.                                               *)
TokenBetween(k, to) ==
  \E i \in Cuts(to), p \in Cuts(to) \union {0} :
    /\ Cardinality(Cuts(i)) = k /\ Cardinality(Cuts(p)) = k - 1
    /\ tokens[k] = Token(p + 1, i - 1)

CutTokens ==
  reader = "parsing" =>
    /\ ~IsBlank(line)
    /\ last \in Cuts(current - 1) \union {0} /\ Cardinality(Cuts(last)) = Len(tokens)
    /\ \A k \in 1..Len(tokens) : TokenBetween(k, current - 1)

AgreeInv == CutTokens /\ ParsersAgree

(* The cells of the other reader are the same pieces of the line.          *)
LEMMA CellsBetween ==
  ASSUME line \in Seq(Chars), Qualifiers(line, 1..Len(line)) % 2 = 0,
         \A i \in RegexCuts(line) : line[i] = "sep"
  PROVE  LET n == Len(line)
             C == Cuts(n)
         IN  /\ Len(RegexCells(line)) = Cardinality(C) + 1
             /\ \A i \in C, p \in C \union {0} :
                  Cardinality(Cuts(p)) = Cardinality(Cuts(i)) - 1 =>
                    Trimmed(RegexCells(line)[Cardinality(Cuts(i))]) = Token(p + 1, i - 1)
             /\ \A p \in C \union {0} :
                  Cardinality(Cuts(p)) = Cardinality(C) =>
                    Trimmed(RegexCells(line)[Cardinality(C) + 1]) = Token(p + 1, n)
<1> DEFINE n == Len(line)
           C == Cuts(n)
           R == RegexCells(line)
           cell(k) == WithoutQualifiers(SubSeq(line, Bound(Bounds, k - 1) + 1, Bound(Bounds, k) - 1))
<1>1. /\ n \in Nat /\ Bounds \subseteq Nat /\ IsFiniteSet(Bounds)
      /\ Cardinality(Bounds) = Cardinality(C) + 2
      /\ \A i \in C \union {0} : i \in Bounds /\ Rank(i) = Cardinality(Cuts(i))
      /\ n + 1 \in Bounds /\ Rank(n + 1) = Cardinality(C) + 1
  BY Ranks
<1>2. Cardinality(C) \in Nat /\ C \subseteq 1..n
  BY <1>1, CutsUpTo
<1>3. {0, n + 1} \union RegexCuts(line) = Bounds
  BY SameCuts DEF Bounds
<1>4. R = [k \in 1..(Cardinality(Bounds) - 1) |-> cell(k)]
  BY <1>3 DEF RegexCells
<1>5. \A i \in Bounds : Bound(Bounds, Rank(i)) = i
  <2> TAKE i \in Bounds
  <2> QED
    BY <1>1, BoundIs DEF Rank
<1> HIDE DEF n, C, R
<1>6. Cardinality(Bounds) - 1 = Cardinality(C) + 1
  BY <1>1, <1>2
<1>7. R = [k \in 1..(Cardinality(C) + 1) |-> cell(k)]
  BY <1>4, <1>6
<1>8. Len(R) = Cardinality(C) + 1
  <2> HIDE DEF cell
  <2> QED
    BY <1>2, <1>7
<1>9. \A k \in 1..(Cardinality(C) + 1) : R[k] = cell(k)
  <2> HIDE DEF cell
  <2> QED
    BY <1>7
<1>10. ASSUME NEW i \in C, NEW p \in C \union {0}, Cardinality(Cuts(p)) = Cardinality(Cuts(i)) - 1
       PROVE  Trimmed(R[Cardinality(Cuts(i))]) = Token(p + 1, i - 1)
  <2> DEFINE k == Cardinality(Cuts(i))
  <2>1. Bound(Bounds, k) = i /\ Bound(Bounds, k - 1) = p
    BY <1>1, <1>5, <1>10
  <2>2. k \in 1..(Cardinality(C) + 1)
    <3>1. i \in 1..n
      BY <1>2
    <3>2. Cuts(i) = {j \in C : j <= i} /\ IsFiniteSet(C)
      <4>1. i \in 0..n /\ n \in Nat
        BY <1>1, <3>1
      <4> QED
        BY <4>1, CutsUpTo DEF C
    <3>3. i <= i
      BY <3>1
    <3>4. Cuts(i) \in SUBSET C /\ i \in Cuts(i)
      BY <3>2, <3>3
    <3>5. IsFiniteSet(Cuts(i)) /\ k <= Cardinality(C)
      BY <3>2, <3>4, FS_Subset
    <3>6. k \in Nat
      BY <3>5, FS_CardinalityType
    <3>7. k # 0
      BY <3>4, <3>5, FS_EmptySet
    <3> HIDE DEF k
    <3> QED
      BY <1>2, <3>5, <3>6, <3>7
  <2>3. R[k] = cell(k)
    BY <1>9, <2>2
  <2>4. cell(k) = WithoutQualifiers(SubSeq(line, p + 1, i - 1))
    BY <2>1
  <2> QED
    BY <2>3, <2>4 DEF Token
<1>11. ASSUME NEW p \in C \union {0}, Cardinality(Cuts(p)) = Cardinality(C)
       PROVE  Trimmed(R[Cardinality(C) + 1]) = Token(p + 1, n)
  <2> DEFINE c == Cardinality(C)
  <2>1. (c + 1) - 1 = c /\ c + 1 \in 1..(c + 1) /\ (n + 1) - 1 = n
    BY <1>1, <1>2
  <2>2. Bound(Bounds, c + 1) = n + 1 /\ Bound(Bounds, c) = p
    BY <1>1, <1>5, <1>11
  <2>3. R[c + 1] = cell(c + 1)
    BY <1>9, <2>1
  <2>4. cell(c + 1) = WithoutQualifiers(SubSeq(line, p + 1, n))
    BY <2>1, <2>2
  <2> QED
    BY <2>3, <2>4 DEF Token
<1> QED
  BY <1>8, <1>10, <1>11 DEF R, C, n

LEMMA CutTokensGrow ==
  ASSUME TypeInv, CutInv, CutTokens, Separator
  PROVE  CutTokens'
<1> DEFINE m == Len(tokens)
           t == Token(last + 1, current - 1)
<1>1. /\ reader = "parsing" /\ line[current] = "sep" /\ ~inText
      /\ tokens' = Append(tokens, t) /\ last' = current /\ current' = current + 1
      /\ line' = line
  BY DEF Separator, CsvParser
<1>2. /\ tokens \in Seq(Seq(Chars)) /\ current \in Nat \ {0} /\ line \in Seq(Chars)
      /\ last \in Nat /\ last + 1 >= 1 /\ last + 1 <= (current - 1) + 1 /\ current - 1 \in Nat
      /\ current - 1 <= Len(line)
  <2>1. /\ tokens \in Seq(Seq(Chars)) /\ line \in Seq(Chars)
        /\ current \in 1..(Len(line) + 1) /\ last \in 0..(current - 1)
    BY DEF TypeInv, CsvTypeOK
  <2>2. Len(line) \in Nat
    BY <2>1
  <2> QED
    BY <2>1, <2>2
<1>3. t \in Seq(Chars)
  BY <1>2, TokenType
<1>4. ~InText(current)
  BY <1>1 DEF CutInv
<1>5. /\ IsFiniteSet(Cuts(current - 1)) /\ current \notin Cuts(current - 1)
      /\ Cuts(current) = Cuts(current - 1) \union {current}
  BY <1>1, <1>2, <1>4, CutsGrow
<1>6. /\ last \in Cuts(current - 1) \union {0} /\ Cardinality(Cuts(last)) = m
      /\ ~IsBlank(line)
      /\ \A k \in 1..m : TokenBetween(k, current - 1)
  BY <1>1 DEF CutTokens
<1>7. m \in Nat /\ Cardinality(Cuts(current - 1)) = m
  BY <1>1, <1>2 DEF CutInv, CutsOutsideText
<1>8. Cardinality(Cuts(current)) = m + 1
  BY <1>5, <1>7, FS_AddElement
<1> HIDE DEF t
<1>9. /\ Len(tokens') = m + 1 /\ tokens'[m + 1] = t
      /\ \A k \in 1..m : tokens'[k] = tokens[k]
  BY <1>1, <1>2, <1>3, AppendProperties
<1> HIDE DEF m
<1>10. \A i : Cuts(i)' = Cuts(i)
  BY <1>1 DEF Cuts, InText, Qualifiers
<1>11. \A i, p : Token(p + 1, i - 1)' = Token(p + 1, i - 1)
  BY <1>1 DEF Token
<1>12. (current - 1)' = current
  BY <1>1, <1>2
<1>13. ASSUME NEW k \in 1..(m + 1) PROVE TokenBetween(k, current - 1)'
  <2> SUFFICES \E i \in Cuts(current), p \in Cuts(current) \union {0} :
                 /\ Cardinality(Cuts(i)) = k /\ Cardinality(Cuts(p)) = k - 1
                 /\ tokens'[k] = Token(p + 1, i - 1)
    BY <1>10, <1>11, <1>12 DEF TokenBetween
  <2>1. CASE k = m + 1
    <3>1. current \in Cuts(current) /\ last \in Cuts(current) \union {0}
      BY <1>5, <1>6
    <3>2. Cardinality(Cuts(last)) = k - 1
      BY <1>6, <1>7, <2>1
    <3>3. tokens'[k] = Token(last + 1, current - 1)
      BY <1>9, <2>1 DEF t
    <3> QED
      BY <1>8, <2>1, <3>1, <3>2, <3>3
  <2>2. CASE k \in 1..m
    <3>1. PICK i \in Cuts(current - 1), p \in Cuts(current - 1) \union {0} :
            /\ Cardinality(Cuts(i)) = k /\ Cardinality(Cuts(p)) = k - 1
            /\ tokens[k] = Token(p + 1, i - 1)
      BY <1>6, <2>2 DEF TokenBetween
    <3>2. i \in Cuts(current) /\ p \in Cuts(current) \union {0} /\ tokens'[k] = tokens[k]
      BY <1>5, <1>9, <2>2
    <3> QED
      BY <3>1, <3>2
  <2> QED
    BY <1>7, <2>1, <2>2
<1>14. /\ ~IsBlank(line)' /\ (last \in Cuts(current - 1) \union {0})'
       /\ Cardinality(Cuts(last))' = Len(tokens')
  <2>1. Cuts(last)' = Cuts(current) /\ Cuts(current - 1)' = Cuts(current) /\ current \in Cuts(current)
    BY <1>1, <1>5, <1>10, <1>12
  <2> QED
    BY <1>1, <1>6, <1>8, <1>9, <2>1 DEF IsBlank
<1> QED
  BY <1>9, <1>13, <1>14 DEF CutTokens

(* At the end of the line the tokens are the cells, but for an empty last  *)
(* one.                                                                    *)
LEMMA TokensAreCells ==
  ASSUME TypeInv, CutInv, CutTokens, EndOfLine
  PROVE  ParsersAgree'
<1> DEFINE n == Len(line)
           C == Cuts(n)
           m == Len(tokens)
           cells == RegexCells(line)
           kept == IF n \in RegexCuts(line) THEN Len(cells) - 1 ELSE Len(cells)
           t == Token(last + 1, n)
<1> SUFFICES ASSUME Qualifiers(line, 1..n) % 2 = 0, \A i \in RegexCuts(line) : line[i] = "sep"
             PROVE  tokens' = [i \in 1..kept |-> Trimmed(cells[i])]
  <2>1. line' = line
    BY DEF EndOfLine
  <2>2. RegexCells(line') = RegexCells(line) /\ RegexCuts(line') = RegexCuts(line)
    BY <2>1
  <2> HIDE DEF cells
  <2> QED
    BY <2>1, <2>2 DEF ParsersAgree, cells
<1>1. /\ reader = "parsing" /\ current > n
      /\ tokens' = IF last # n THEN Append(tokens, t) ELSE tokens
  BY DEF EndOfLine
<1>2. /\ line \in Seq(Chars) /\ tokens \in Seq(Seq(Chars))
      /\ n \in Nat /\ m \in Nat /\ current = n + 1 /\ last \in 0..n
  <2>1. /\ tokens \in Seq(Seq(Chars)) /\ line \in Seq(Chars)
        /\ current \in 1..(n + 1) /\ last \in 0..(current - 1)
    BY DEF TypeInv, CsvTypeOK
  <2>2. n \in Nat /\ m \in Nat
    BY <2>1
  <2> HIDE DEF n
  <2> QED
    BY <1>1, <2>1, <2>2
<1>3. current - 1 = n
  BY <1>2
<1>4. /\ ~IsBlank(line) /\ last \in C \union {0} /\ Cardinality(Cuts(last)) = m
      /\ \A k \in 1..m : TokenBetween(k, n)
  BY <1>1, <1>3 DEF CutTokens
<1>5. m = Cardinality(C) /\ \A i \in C : i <= last
  BY <1>1, <1>3 DEF CutInv, CutsOutsideText
<1>6. RegexCuts(line) = C
  BY <1>2, SameCuts
<1>7. /\ Len(cells) = m + 1
      /\ \A i \in C, p \in C \union {0} :
           Cardinality(Cuts(p)) = Cardinality(Cuts(i)) - 1 =>
             Trimmed(cells[Cardinality(Cuts(i))]) = Token(p + 1, i - 1)
      /\ \A p \in C \union {0} : Cardinality(Cuts(p)) = m => Trimmed(cells[m + 1]) = Token(p + 1, n)
  BY <1>2, <1>5, CellsBetween
<1>8. \A k \in 1..m : tokens[k] = Trimmed(cells[k])
  <2> TAKE k \in 1..m
  <2>1. PICK i \in C, p \in C \union {0} :
          /\ Cardinality(Cuts(i)) = k /\ Cardinality(Cuts(p)) = k - 1
          /\ tokens[k] = Token(p + 1, i - 1)
    BY <1>4 DEF TokenBetween
  <2> HIDE DEF cells, C
  <2> QED
    BY <1>7, <2>1
<1>9. t = Trimmed(cells[m + 1])
  BY <1>4, <1>7
<1>10. n # 0
  BY <1>2, <1>4 DEF IsBlank
<1>11. n \in C <=> last = n
  <2>1. C \subseteq 1..n
    BY <1>2, CutsUpTo
  <2> HIDE DEF C, n
  <2> QED
    BY <1>2, <1>4, <1>5, <1>10, <2>1
<1>12. kept = IF last = n THEN m ELSE m + 1
  <2> HIDE DEF C, n, m, cells
  <2> QED
    BY <1>2, <1>6, <1>7, <1>11
<1>13. t \in Seq(Chars)
  <2>1. last + 1 \in Nat /\ last + 1 >= 1 /\ last + 1 <= n + 1
    BY <1>2
  <2> QED
    BY <1>2, <2>1, TokenType
<1> HIDE DEF C, n, m, cells, t
<1> DEFINE e == [i \in 1..kept |-> Trimmed(cells[i])]
<1>14. m = Len(tokens)
  BY DEF m
<1>15. CASE last = n
  <2>1. kept = m /\ tokens' = tokens
    BY <1>1, <1>12, <1>15
  <2>2. tokens = [i \in 1..m |-> tokens[i]]
    BY <1>2, <1>14
  <2>3. tokens = [i \in 1..m |-> Trimmed(cells[i])]
    BY <1>8, <2>2
  <2> QED
    BY <2>1, <2>3
<1>16. CASE last # n
  <2>1. kept = m + 1 /\ tokens' = Append(tokens, t)
    BY <1>1, <1>12, <1>16
  <2> DEFINE u == Append(tokens, t)
  <2>2. /\ u \in Seq(Seq(Chars)) /\ Len(u) = m + 1
        /\ (\A i \in 1..m : u[i] = tokens[i]) /\ u[m + 1] = t
    BY <1>2, <1>13, <1>14, AppendProperties
  <2> HIDE DEF u
  <2>3. u = [i \in 1..(m + 1) |-> u[i]]
    BY <1>2, <2>2
  <2>4. \A i \in 1..(m + 1) : u[i] = Trimmed(cells[i])
    <3> TAKE i \in 1..(m + 1)
    <3>1. i \in 1..m \/ i = m + 1
      BY <1>2
    <3> QED
      BY <1>8, <1>9, <2>2, <3>1
  <2>5. u = [i \in 1..(m + 1) |-> Trimmed(cells[i])]
    BY <2>3, <2>4
  <2> QED
    BY <2>1, <2>5 DEF u
<1> QED
  BY <1>15, <1>16

LEMMA AgreeInitInv == CsvInit => AgreeInv
  BY DEF CsvInit, AgreeInv, CutTokens, ParsersAgree

LEMMA AgreeNextInv == TypeInv /\ CutInv /\ AgreeInv /\ [CsvNext]_csvVars => AgreeInv'
<1> SUFFICES ASSUME TypeInv, CutInv, AgreeInv, [CsvNext]_csvVars
             PROVE  AgreeInv'
  OBVIOUS
<1> USE DEF AgreeInv
<1>1. CASE UNCHANGED csvVars
  <2>1. CutTokens'
    <3>1. UNCHANGED <<line, reader, current, last, tokens>>
      BY <1>1 DEF csvVars
    <3>2. (\A i : Cuts(i)' = Cuts(i)) /\ \A i, p : Token(p + 1, i - 1)' = Token(p + 1, i - 1)
      BY <3>1 DEF Cuts, InText, Qualifiers, Token
    <3>3. \A k : TokenBetween(k, current - 1)' <=> TokenBetween(k, current - 1)
      BY <3>1, <3>2 DEF TokenBetween
    <3> QED
      BY <3>1, <3>2, <3>3 DEF CutTokens, IsBlank
  <2>2. ParsersAgree'
    BY <1>1, Zenon DEF csvVars, ParsersAgree
  <2> QED
    BY <2>1, <2>2
<1>2. CASE Read
  <2>1. /\ reader = "idle" /\ current = 1 /\ last = 0 /\ tokens = <<>>
        /\ UNCHANGED <<current, last, tokens>>
        /\ reader' \in {"skipped", "parsing"}
        /\ reader' = "parsing" => ~IsBlank(line')
    BY <1>2 DEF Read, ReadOwn, ReadForeign, ReadLine, TypeInv
  <2>2. Cuts(last)' = {}
    BY <2>1 DEF Cuts
  <2>3. Len(tokens') = 0
    BY <2>1
  <2>4. CutTokens'
    <3>1. reader' = "parsing" => ~IsBlank(line)'
      BY <2>1 DEF IsBlank
    <3>2. last' = 0 /\ Cardinality(Cuts(last))' = 0
      BY <2>1, <2>2, FS_EmptySet
    <3> QED
      BY <2>3, <3>1, <3>2 DEF CutTokens
  <2>5. ParsersAgree'
    BY <2>1 DEF ParsersAgree
  <2> QED
    BY <2>4, <2>5
<1>3. CASE Qualifier \/ Other
  <2>1. /\ reader = "parsing" /\ current' = current + 1 /\ UNCHANGED <<line, reader, last, tokens>>
        /\ current \in Nat \ {0}
    BY <1>3 DEF Qualifier, Other, CsvParser, TypeInv, CsvTypeOK
  <2>2. \A i : Cuts(i)' = Cuts(i)
    BY <2>1 DEF Cuts, InText, Qualifiers
  <2>3. Cuts(current - 1) \subseteq Cuts(current) /\ (current - 1)' = current
    BY <2>1, CutsGrow
  <2>4. \A i, p : Token(p + 1, i - 1)' = Token(p + 1, i - 1)
    BY <2>1 DEF Token
  <2>5. ASSUME NEW k, TokenBetween(k, current - 1) PROVE TokenBetween(k, current - 1)'
    <3>1. PICK i \in Cuts(current - 1), p \in Cuts(current - 1) \union {0} :
            /\ Cardinality(Cuts(i)) = k /\ Cardinality(Cuts(p)) = k - 1
            /\ tokens[k] = Token(p + 1, i - 1)
      BY <2>5 DEF TokenBetween
    <3>2. i \in Cuts(current - 1)' /\ p \in Cuts(current - 1)' \union {0}
      BY <2>2, <2>3
    <3> QED
      BY <2>1, <2>2, <2>4, <3>1, <3>2 DEF TokenBetween
  <2>6. CutTokens'
    <3>1. ~IsBlank(line)' /\ last' \in Cuts(current - 1)' \union {0}
          /\ Cardinality(Cuts(last))' = Len(tokens')
      BY <2>1, <2>2, <2>3 DEF CutTokens, IsBlank
    <3>2. \A k \in 1..Len(tokens') : TokenBetween(k, current - 1)'
      BY <2>1, <2>5 DEF CutTokens
    <3> QED
      BY <3>1, <3>2 DEF CutTokens
  <2>7. ParsersAgree'
    BY <2>1 DEF ParsersAgree
  <2> QED
    BY <2>6, <2>7
<1>4. CASE Separator
  <2>1. ParsersAgree'
    BY <1>4 DEF ParsersAgree, Separator, CsvParser
  <2> QED
    BY <1>4, <2>1, CutTokensGrow
<1>5. CASE EndOfLine
  <2>1. CutTokens'
    BY <1>5 DEF EndOfLine, CutTokens
  <2> QED
    BY <1>5, <2>1, TokensAreCells
<1>6. CASE NextRow
  BY <1>6 DEF NextRow, CutTokens, ParsersAgree
<1> QED
  BY <1>1, <1>2, <1>3, <1>4, <1>5, <1>6 DEF CsvNext

-----------------------------------------------------------------------------
(* On a line of any length whose qualifiers are in pairs, and in which the *)
(* pattern finds nothing but separators, the tokens of CsvParser are the   *)
(* trimmed cells of CsvToDataTableRegex, but for an empty last one.        *)
THEOREM ReadersAgree == CsvSpec => []ParsersAgree
<1>1. AgreeInv => ParsersAgree
  BY DEF AgreeInv
<1> QED
  BY <1>1, CsvInitType, CsvNextType, CsvInitInv, CsvNextInv, AgreeInitInv, AgreeNextInv, PTL DEF CsvSpec
=============================================================================
