-------------------------- MODULE QueryWalkProofs --------------------------
(***************************************************************************)
(* What the two walks through a filter leave out and in which order they   *)
(* go, for filters of any number of rules.  A walk is at rule c when all   *)
(* rules it will ever visit up to c have been visited, and none behind c   *)
(* (Walked).  It says so by its stack alone: a rule behind c whose own     *)
(* list is not open yet lies below one that is.                            *)
(***************************************************************************)
EXTENDS QueryFilterProofs, WellFoundedInduction

(* The rules F, of whose parents p tells, are in the order of the document. *)
Tree(p, F) ==
  /\ F \subseteq Nat \ {0}
  /\ \A n \in F : p[n] \in Nat /\ p[n] < n
  /\ \A n, j \in F : p[n] < j /\ j < n => p[j] >= p[n]

(* The walk visits the rules A: with a rule those above it. *)
Reaches(p, F, A) == A \subseteq F /\ \A n \in A : p[n] = 0 \/ p[n] \in A

(* It is at c, with s the running calls. *)
Calls(s) ==
  /\ Len(s) \in Nat \ {0}
  /\ \A k \in 1..Len(s) : s[k].of \in Nat /\ s[k].at \in Nat
  /\ s[1].of = 0
  /\ \A j, k \in 1..Len(s) : j < k => s[j].of < s[k].of
  /\ \A k \in 1..(Len(s) - 1) : s[k].at = s[k + 1].of

AtTop(p, F, f, c) ==
  /\ f.of <= f.at /\ f.at <= c
  /\ f.at = f.of => c = f.at
  /\ \A m \in F : f.at < m /\ m <= c => p[m] >= f.at

Walked(p, F, A, s, c) ==
  /\ c \in Nat
  /\ Calls(s)
  /\ AtTop(p, F, s[Len(s)], c)
  /\ \A k \in 1..Len(s), m \in F : s[k].of < m /\ m <= c => p[m] >= s[k].of
  /\ \A k \in 1..Len(s) : s[k].of <= c
  /\ \A m \in A : m > c /\ p[m] <= c => \E k \in 1..Len(s) : p[m] = s[k].of
  /\ \A k \in 1..Len(s), m \in F : p[m] = s[k].of => m \in A

(* Rule v is the next of the list that the top call goes through. *)
Follows(p, F, f, v) ==
  /\ v \in F /\ p[v] = f.of /\ v > f.at
  /\ \A m \in F : p[m] = f.of /\ m > f.at => v <= m

-----------------------------------------------------------------------------
(* A set of numbers that is not empty has a least one. *)
LEMMA LeastOne ==
  ASSUME NEW S \in SUBSET Nat, S # {}
  PROVE  \E n \in S : \A m \in S : n <= m
<1>1. IsWellFoundedOn(OpToRel(<, Nat), Nat)
  BY NatLessThanWellFounded, Zenon
<1>2. PICK n \in S : \A m \in S : ~(<<m, n>> \in OpToRel(<, Nat))
  BY <1>1, WFMin, Zenon
<1>3. \A m \in S : ~(m < n)
  BY <1>2 DEF OpToRel
<1> QED
  BY <1>3

(* If a call has rules left, one of them is next. *)
LEMMA SomeFollows ==
  ASSUME NEW p, NEW F, Tree(p, F), NEW f, NEW m \in F, p[m] = f.of, m > f.at
  PROVE  \E v \in F : Follows(p, F, f, v)
<1> DEFINE S == {j \in F : p[j] = f.of /\ j > f.at}
<1>1. S \in SUBSET Nat /\ m \in S
  BY DEF Tree
<1>2. PICK v \in S : \A j \in S : v <= j
  BY <1>1, LeastOne
<1> QED
  BY <1>2 DEF Follows

(* Between where the walk is and the next rule there is nothing to visit.  *)
LEMMA NothingBetween ==
  ASSUME NEW p, NEW F, NEW A, NEW s, NEW c, Tree(p, F), Reaches(p, F, A),
         Walked(p, F, A, s, c), NEW v, Follows(p, F, s[Len(s)], v)
  PROVE  /\ c < v /\ v \in A
         /\ \A m \in A : m <= c \/ v <= m
<1> DEFINE d == Len(s)
<1>1. /\ d \in 1..d /\ d \in Nat /\ c \in Nat
      /\ s[d].of \in Nat /\ s[d].at \in Nat /\ s[d].of <= s[d].at
      /\ s[d].at <= c /\ (s[d].at = s[d].of => c = s[d].at)
  BY DEF Walked, Calls, AtTop
<1>2. v \in F /\ v \in Nat /\ p[v] = s[d].of /\ v > s[d].at
  BY DEF Follows, Tree
<1>3. c < v
  <2> SUFFICES ASSUME v <= c PROVE FALSE
    BY <1>1, <1>2
  <2>1. p[v] >= s[d].at
    BY <1>2 DEF Walked, AtTop
  <2> QED
    BY <1>1, <1>2, <2>1
<1>4. v \in A
  BY <1>1, <1>2 DEF Walked
<1>5. ASSUME NEW m \in A, m > c, m < v PROVE FALSE
  <2> DEFINE S == {j \in A : j > c /\ j < v}
  <2>1. S \in SUBSET Nat /\ S # {}
    BY <1>5 DEF Reaches, Tree
  <2>2. PICK j \in S : \A i \in S : j <= i
    BY <2>1, LeastOne
  <2>3. j \in A /\ j \in F /\ j \in Nat /\ j > c /\ j < v /\ p[j] \in Nat /\ p[j] < j
    BY <2>2 DEF Reaches, Tree
  <2>4. p[j] <= c
    <3> SUFFICES ASSUME p[j] > c PROVE FALSE
      BY <1>1, <2>3
    <3>1. p[j] \in S
      BY <1>1, <1>2, <2>3 DEF Reaches
    <3> QED
      BY <2>2, <2>3, <3>1
  <2>5. PICK k \in 1..d : p[j] = s[k].of
    BY <2>3, <2>4 DEF Walked
  <2>6. CASE k = d
    BY <1>1, <1>2, <2>3, <2>5, <2>6 DEF Follows
  <2>7. CASE k < d
    <3>1. s[k].of < s[d].of /\ s[k].of \in Nat
      BY <1>1, <2>7 DEF Walked, Calls
    <3>2. p[j] >= p[v]
      BY <1>1, <1>2, <2>3 DEF Tree
    <3> QED
      BY <1>1, <1>2, <2>5, <3>1, <3>2
  <2> QED
    BY <1>1, <2>5, <2>6, <2>7
<1>6. \A m \in A : m \in Nat
  BY DEF Reaches, Tree
<1> QED
  BY <1>1, <1>2, <1>3, <1>4, <1>5, <1>6

-----------------------------------------------------------------------------
(* The top call moves on to rule v.  Its list is not looked into, which is *)
(* right if the walk visits none of it.                                    *)
Moved(s, t, v) ==
  /\ Len(t) = Len(s)
  /\ \A k \in 1..Len(s) : t[k].of = s[k].of
  /\ \A k \in 1..(Len(s) - 1) : t[k].at = s[k].at
  /\ t[Len(s)].at = v

(* The two kinds of visit have in common what concerns the old calls.      *)
Hold(p, F, A, s, v) ==
  /\ \A k \in 1..Len(s), m \in F : s[k].of < m /\ m <= v => p[m] >= s[k].of
  /\ \A k \in 1..Len(s) : s[k].of < v
  /\ \A m \in A : m > v /\ p[m] <= v =>
       p[m] = v \/ \E k \in 1..Len(s) : p[m] = s[k].of

LEMMA OldCallsHold ==
  ASSUME NEW p, NEW F, NEW A, NEW s, NEW c, Tree(p, F), Reaches(p, F, A),
         Walked(p, F, A, s, c), NEW v, Follows(p, F, s[Len(s)], v)
  PROVE  Hold(p, F, A, s, v)
<1> DEFINE d == Len(s)
<1>1. /\ d \in 1..d /\ d \in Nat /\ c \in Nat
      /\ \A k \in 1..d : s[k].of \in Nat /\ s[k].of <= c /\ s[k].of <= s[d].of
      /\ s[d].of <= c
  BY DEF Walked, Calls
<1>2. c < v /\ v \in F /\ v \in A /\ v \in Nat /\ p[v] = s[d].of
      /\ \A m \in A : m <= c \/ v <= m
  <2>1. c < v /\ v \in A /\ \A m \in A : m <= c \/ v <= m
    BY NothingBetween
  <2>2. v \in F /\ v \in Nat /\ p[v] = s[d].of
    BY DEF Follows, Tree
  <2> QED
    BY <2>1, <2>2
<1>3. ASSUME NEW k \in 1..d, NEW m \in F, s[k].of < m, m <= v PROVE p[m] >= s[k].of
  <2>1. m \in Nat /\ p[m] \in Nat
    BY DEF Tree
  <2>2. CASE m <= c
    BY <1>3, <2>2 DEF Walked
  <2>3. CASE c < m /\ m < v
    <3>1. p[m] >= p[v]
      BY <1>1, <1>2, <2>1, <2>3 DEF Tree
    <3> QED
      BY <1>1, <1>2, <2>1, <3>1
  <2>4. CASE m = v
    BY <1>1, <1>2, <2>4
  <2> QED
    BY <1>1, <1>2, <1>3, <2>1, <2>2, <2>3, <2>4
<1>4. ASSUME NEW m \in A, m > v, p[m] <= v
      PROVE  p[m] = v \/ \E k \in 1..d : p[m] = s[k].of
  <2>1. m \in F /\ m \in Nat /\ p[m] \in Nat /\ (p[m] = 0 \/ p[m] \in A)
    BY DEF Reaches, Tree
  <2>2. p[m] <= c \/ p[m] = v
    BY <1>1, <1>2, <1>4, <2>1
  <2>3. CASE p[m] <= c
    BY <1>1, <1>2, <1>4, <2>1, <2>3 DEF Walked
  <2> QED
    BY <2>2, <2>3
<1>5. \A k \in 1..d : s[k].of < v
  BY <1>1, <1>2
<1> QED
  BY <1>3, <1>4, <1>5 DEF Hold

LEMMA WalkMoves ==
  ASSUME NEW p, NEW F, NEW A, NEW s, NEW c, Tree(p, F), Reaches(p, F, A),
         Walked(p, F, A, s, c), NEW v, Follows(p, F, s[Len(s)], v),
         \A m \in A : p[m] # v,
         NEW t, Moved(s, t, v)
  PROVE  Walked(p, F, A, t, v)
<1> DEFINE d == Len(s)
<1>1. /\ d \in 1..d /\ d \in Nat /\ Len(t) = d
      /\ \A k \in 1..d : t[k].of = s[k].of
      /\ t[d].at = v /\ v \in Nat /\ s[d].of \in Nat
  <2>1. d \in Nat /\ d > 0 /\ \A k \in 1..d : s[k].of \in Nat
    BY DEF Walked, Calls
  <2>2. Len(t) = d /\ (\A k \in 1..d : t[k].of = s[k].of) /\ t[d].at = v
    BY DEF Moved
  <2>3. v \in Nat
    BY DEF Follows, Tree
  <2> QED
    BY <2>1, <2>2, <2>3
<1>2. /\ \A k \in 1..d, m \in F : s[k].of < m /\ m <= v => p[m] >= s[k].of
      /\ \A k \in 1..d : s[k].of < v
      /\ \A m \in A : m > v /\ p[m] <= v =>
           p[m] = v \/ \E k \in 1..d : p[m] = s[k].of
  <2>1. Hold(p, F, A, s, v)
    BY OldCallsHold
  <2> QED
    BY <2>1 DEF Hold
<1>3. Calls(t)
  <2>1. \A k \in 1..(d - 1) : t[k].at = t[k + 1].of /\ t[k].at \in Nat
    BY <1>1 DEF Walked, Calls, Moved
  <2> QED
    BY <1>1, <2>1 DEF Walked, Calls
<1>4. AtTop(p, F, t[d], v)
  <2>1. \A m \in F : m \in Nat
    BY DEF Tree
  <2> QED
    BY <1>1, <1>2, <2>1 DEF AtTop
<1>5. \A m \in A : m > v /\ p[m] <= v => \E k \in 1..d : p[m] = t[k].of
  BY <1>1, <1>2
<1>6. \A k \in 1..d : t[k].of <= v
  BY <1>1, <1>2 DEF Walked, Calls
<1>7. \A k \in 1..d, m \in F : p[m] = t[k].of => m \in A
  BY <1>1 DEF Walked
<1>8. \A k \in 1..d, m \in F : t[k].of < m /\ m <= v => p[m] >= t[k].of
  BY <1>1, <1>2
<1> QED
  BY <1>1, <1>3, <1>4, <1>5, <1>6, <1>7, <1>8 DEF Walked

(* The top call moves on to rule v and calls for its list, all of which    *)
(* the walk visits.                                                        *)
Dived(s, t, v) ==
  /\ Len(t) = Len(s) + 1
  /\ \A k \in 1..Len(s) : t[k].of = s[k].of
  /\ \A k \in 1..(Len(s) - 1) : t[k].at = s[k].at
  /\ t[Len(s)].at = v
  /\ t[Len(s) + 1].of = v /\ t[Len(s) + 1].at = v

LEMMA WalkDives ==
  ASSUME NEW p, NEW F, NEW A, NEW s, NEW c, Tree(p, F), Reaches(p, F, A),
         Walked(p, F, A, s, c), NEW v, Follows(p, F, s[Len(s)], v),
         \A m \in F : p[m] = v => m \in A,
         NEW t, Dived(s, t, v)
  PROVE  Walked(p, F, A, t, v)
<1> DEFINE d == Len(s)
<1>1. /\ d \in 1..d /\ d \in Nat /\ Len(t) = d + 1
      /\ \A k \in 1..d : t[k].of = s[k].of /\ s[k].of \in Nat
      /\ t[d].at = v /\ v \in Nat
      /\ t[d + 1].of = v /\ t[d + 1].at = v
  <2>1. d \in Nat /\ d > 0 /\ \A k \in 1..d : s[k].of \in Nat
    BY DEF Walked, Calls
  <2>2. /\ Len(t) = d + 1 /\ (\A k \in 1..d : t[k].of = s[k].of) /\ t[d].at = v
        /\ t[d + 1].of = v /\ t[d + 1].at = v
    BY DEF Dived
  <2>3. v \in Nat
    BY DEF Follows, Tree
  <2> QED
    BY <2>1, <2>2, <2>3
<1>2. /\ \A k \in 1..d, m \in F : s[k].of < m /\ m <= v => p[m] >= s[k].of
      /\ \A k \in 1..d : s[k].of < v
      /\ \A m \in A : m > v /\ p[m] <= v =>
           p[m] = v \/ \E k \in 1..d : p[m] = s[k].of
  <2>1. Hold(p, F, A, s, v)
    BY OldCallsHold
  <2> QED
    BY <2>1 DEF Hold
<1>3. \A k \in 1..(d + 1) : k \in 1..d \/ k = d + 1
  BY <1>1
<1>4. Calls(t)
  <2>1. \A k \in 1..(d - 1) : t[k].at = t[k + 1].of /\ t[k].at \in Nat
    BY <1>1 DEF Walked, Calls, Dived
  <2>2. \A k \in 1..d : t[k].at = t[k + 1].of /\ t[k].at \in Nat
    BY <1>1, <2>1
  <2>3. \A j, k \in 1..d : j < k => t[j].of < t[k].of
    BY <1>1 DEF Walked, Calls
  <2>4. \A j, k \in 1..(d + 1) : j < k => t[j].of < t[k].of
    BY <1>1, <1>2, <1>3, <2>3
  <2>5. t[1].of = 0
    BY <1>1 DEF Walked, Calls
  <2>6. \A k \in 1..(d + 1) : t[k].of \in Nat /\ t[k].at \in Nat
    BY <1>1, <1>3, <2>2
  <2> QED
    BY <1>1, <2>2, <2>4, <2>5, <2>6 DEF Calls
<1>5. \A m \in F : m \in Nat
  BY DEF Tree
<1>6. AtTop(p, F, t[d + 1], v)
  BY <1>1, <1>5 DEF AtTop
<1>7. \A m \in A : m > v /\ p[m] <= v => \E k \in 1..(d + 1) : p[m] = t[k].of
  BY <1>1, <1>2
<1>8. \A k \in 1..(d + 1) : t[k].of <= v
  BY <1>1, <1>2, <1>3
<1>9. \A k \in 1..(d + 1), m \in F : p[m] = t[k].of => m \in A
  BY <1>1, <1>3 DEF Walked
<1>10. \A k \in 1..(d + 1), m \in F : t[k].of < m /\ m <= v => p[m] >= t[k].of
  BY <1>1, <1>2, <1>3, <1>5
<1> QED
  BY <1>1, <1>4, <1>6, <1>7, <1>8, <1>9, <1>10 DEF Walked

-----------------------------------------------------------------------------
(* The top call has no rule left and returns; if it is the only one, the   *)
(* walk has visited all it ever will.                                      *)
LEMMA NoneLeftInTop ==
  ASSUME NEW p, NEW F, NEW A, NEW s, NEW c, Tree(p, F), Reaches(p, F, A),
         Walked(p, F, A, s, c), \A v \in F : ~Follows(p, F, s[Len(s)], v)
  PROVE  \A m \in A : m > c => p[m] # s[Len(s)].of
<1> SUFFICES ASSUME NEW m \in A, m > c, p[m] = s[Len(s)].of PROVE FALSE
  OBVIOUS
<1>1. m \in F /\ m \in Nat /\ c \in Nat /\ s[Len(s)].at \in Nat /\ s[Len(s)].at <= c
  BY DEF Walked, Calls, AtTop, Reaches, Tree
<1>2. m > s[Len(s)].at
  BY <1>1
<1>3. \E v \in F : Follows(p, F, s[Len(s)], v)
  BY <1>1, <1>2, SomeFollows
<1> QED
  BY <1>3

LEMMA WalkReturns ==
  ASSUME NEW p, NEW F, NEW A, NEW s, NEW c, Tree(p, F), Reaches(p, F, A),
         Walked(p, F, A, s, c), \A v \in F : ~Follows(p, F, s[Len(s)], v),
         Len(s) > 1,
         NEW t, Len(t) = Len(s) - 1, \A k \in 1..(Len(s) - 1) : t[k] = s[k]
  PROVE  Walked(p, F, A, t, c)
<1> DEFINE d == Len(s) - 1
<1>1. /\ d \in 1..d /\ d \in Nat /\ Len(t) = d /\ Len(s) = d + 1 /\ c \in Nat
      /\ \A k \in 1..d : t[k] = s[k]
      /\ \A k \in 1..(d + 1) : s[k].of \in Nat /\ s[k].of <= c
      /\ s[d].at = s[d + 1].of /\ s[d].of < s[d + 1].of
  <2>1. Len(s) \in Nat /\ c \in Nat
    BY DEF Walked, Calls
  <2>2. d \in 1..d /\ d \in Nat /\ Len(s) = d + 1 /\ d \in 1..Len(s) /\ d < Len(s)
    BY <2>1
  <2>3. /\ \A k \in 1..Len(s) : s[k].of \in Nat /\ s[k].of <= c
        /\ \A j, k \in 1..Len(s) : j < k => s[j].of < s[k].of
        /\ \A k \in 1..(Len(s) - 1) : s[k].at = s[k + 1].of
    BY DEF Walked, Calls
  <2> QED
    BY <2>1, <2>2, <2>3
<1>2. Calls(t)
  <2>1. /\ 1..d \subseteq 1..Len(s) /\ 1 \in 1..d
        /\ \A k \in 1..(d - 1) : k \in 1..(Len(s) - 1) /\ k + 1 \in 1..d /\ k \in 1..d
    BY <1>1
  <2>2. Calls(s)
    BY DEF Walked
  <2>3. \A k \in 1..(d - 1) : t[k].at = t[k + 1].of
    BY <1>1, <2>1, <2>2 DEF Calls
  <2>4. \A j, k \in 1..d : j < k => t[j].of < t[k].of
    BY <1>1, <2>1, <2>2 DEF Calls
  <2> QED
    BY <1>1, <2>1, <2>2, <2>3, <2>4 DEF Calls
<1>3. AtTop(p, F, t[d], c)
  <2>1. \A m \in F : s[d + 1].of < m /\ m <= c => p[m] >= s[d + 1].of
    BY <1>1 DEF Walked
  <2> QED
    BY <1>1, <2>1 DEF AtTop
<1>4. \A m \in A : m > c /\ p[m] <= c => \E k \in 1..d : p[m] = t[k].of
  <2> SUFFICES ASSUME NEW m \in A, m > c, p[m] <= c
               PROVE  \E k \in 1..d : p[m] = t[k].of
    OBVIOUS
  <2>1. PICK k \in 1..(d + 1) : p[m] = s[k].of
    BY <1>1 DEF Walked
  <2>2. p[m] # s[Len(s)].of
    BY NoneLeftInTop
  <2>3. k \in 1..d
    BY <1>1, <2>1, <2>2
  <2> QED
    BY <1>1, <2>1, <2>3
<1>5. \A k \in 1..d : t[k].of <= c
  BY <1>1
<1>6. \A k \in 1..d, m \in F : p[m] = t[k].of => m \in A
  BY <1>1 DEF Walked
<1>7. \A k \in 1..d, m \in F : t[k].of < m /\ m <= c => p[m] >= t[k].of
  BY <1>1 DEF Walked
<1> QED
  BY <1>1, <1>2, <1>3, <1>4, <1>5, <1>6, <1>7 DEF Walked

LEMMA WalkEnds ==
  ASSUME NEW p, NEW F, NEW A, NEW s, NEW c, Tree(p, F), Reaches(p, F, A),
         Walked(p, F, A, s, c), \A v \in F : ~Follows(p, F, s[Len(s)], v),
         Len(s) = 1
  PROVE  \A m \in A : m <= c
<1> DEFINE S == {m \in A : m > c}
<1>1. c \in Nat /\ \A m \in A : m \in F /\ m \in Nat /\ p[m] \in Nat /\ p[m] < m
  BY DEF Walked, Reaches, Tree
<1> SUFFICES ASSUME S # {} PROVE FALSE
  BY <1>1
<1>2. PICK m \in S : \A j \in S : m <= j
  BY <1>1, LeastOne
<1>3. p[m] <= c
  <2> SUFFICES ASSUME p[m] > c PROVE FALSE
    BY <1>1, <1>2
  <2>1. p[m] \in S
    BY <1>1, <1>2 DEF Reaches
  <2> QED
    BY <1>1, <1>2, <2>1
<1>4. p[m] = s[1].of
  <2>1. PICK k \in 1..Len(s) : p[m] = s[k].of
    BY <1>2, <1>3 DEF Walked
  <2> QED
    BY <2>1
<1> QED
  BY <1>2, <1>4, NoneLeftInTop

(* At the beginning. *)
LEMMA WalkBegins ==
  ASSUME NEW p, NEW F, NEW A, Tree(p, F), Reaches(p, F, A),
         \A m \in F : p[m] = 0 => m \in A,
         NEW t, Len(t) = 1, t[1].of = 0, t[1].at = 0
  PROVE  Walked(p, F, A, t, 0)
<1>1. \A m \in F : m \in Nat /\ m > 0 /\ p[m] \in Nat
  BY DEF Tree
<1>2. A \subseteq F
  BY DEF Reaches
<1> QED
  BY <1>1, <1>2 DEF Walked, Calls, AtTop

-----------------------------------------------------------------------------
(* What the output of a walk holds: behind the first a of f's b places the *)
(* rules S, in ascending order.                                            *)
Lists(f, a, b, S) ==
  /\ \A i \in (a + 1)..b : f[i] \in S
  /\ \A n \in S : \E i \in (a + 1)..b : f[i] = n
  /\ \A i, j \in (a + 1)..b : i < j => f[i] < f[j]

UpTo(S, c) == {n \in S : n <= c}

LEMMA OneMore ==
  ASSUME NEW f, NEW g, NEW a \in Nat, NEW b \in Nat, a <= b,
         NEW S \in SUBSET Nat, NEW n \in Nat, \A m \in S : m < n, Lists(f, a, b, S),
         \A i \in 1..b : g[i] = f[i], g[b + 1] = n
  PROVE  Lists(g, a, b + 1, S \union {n})
<1>1. \A i \in (a + 1)..(b + 1) : i \in (a + 1)..b \/ i = b + 1
  OBVIOUS
<1>2. \A i \in (a + 1)..b : g[i] = f[i] /\ f[i] \in S /\ i \in (a + 1)..(b + 1)
  BY DEF Lists
<1>3. b + 1 \in (a + 1)..(b + 1)
  OBVIOUS
<1>4. \A i \in (a + 1)..(b + 1) : g[i] \in S \union {n}
  BY <1>1, <1>2
<1>5. \A m \in S \union {n} : \E i \in (a + 1)..(b + 1) : g[i] = m
  BY <1>2, <1>3 DEF Lists
<1>6. ASSUME NEW i \in (a + 1)..(b + 1), NEW j \in (a + 1)..(b + 1), i < j
      PROVE  g[i] < g[j]
  <2>1. i \in (a + 1)..b
    BY <1>6
  <2>2. CASE j \in (a + 1)..b
    BY <1>2, <1>6, <2>1, <2>2 DEF Lists
  <2>3. CASE j = b + 1
    BY <1>2, <2>1, <2>3
  <2> QED
    BY <1>1, <2>2, <2>3
<1> QED
  BY <1>4, <1>5, <1>6 DEF Lists

(* The rules that the table's walk reaches: those only within rules with a *)
(* condition.                                                              *)
Open == {n \in Filter : \A a \in Filter : Within(a, n) => a \in HasCondition}

FilterInv ==
  /\ Tree(parent, Filter)
  /\ \A n \in Filter : parent[n] = 0 \/ parent[n] \in Filter
  /\ \E n \in Nat : Filter = 1..n

JsonInv ==
  progress = "json" =>
    \E c \in Nat :
      Walked(parent, Filter, Filter, stack, c) /\ Lists(flat, 0, Len(flat), UpTo(HasField, c))

(* The rows rs are the filter's own, hs, and those of the rules S. *)
Table(rs, hs, S) ==
  /\ Len(hs) <= Len(rs)
  /\ \A i \in 1..Len(hs) : rs[i] = hs[i]
  /\ Lists([i \in 1..Len(rs) |-> rs[i].of], Len(hs), Len(rs), S)

TableOf(c) == Table(rows, HeadRows(head), UpTo(Written, c))

TableInv ==
  progress = "table" =>
    \E c \in Nat : Walked(parent, Filter, Open, stack, c) /\ TableOf(c)

WalkInv ==
  QueryInv /\ FilterInv /\ JsonInv /\ TableInv /\ FlatInDocumentOrder /\ TableIsComplete

-----------------------------------------------------------------------------
LEMMA WrittenIs == Written = {n \in Open : kind[n] # "null"}
BY DEF Written, Open

(* Both walks reach with a rule those above it. *)
LEMMA AllAreReached ==
  ASSUME FilterInv
  PROVE  Reaches(parent, Filter, Filter)
BY DEF FilterInv, Reaches

LEMMA OpenAreReached ==
  ASSUME FilterInv
  PROVE  /\ Reaches(parent, Filter, Open)
         /\ \A n \in Filter : parent[n] = 0 => n \in Open
         /\ \A n \in Open, m \in Filter :
              parent[m] = n => (m \in Open <=> n \in HasCondition)
<1>1. PICK N \in Nat : Filter = 1..N
  BY DEF FilterInv
<1>2. /\ \A n \in Filter : n \in Nat /\ n > 0 /\ parent[n] \in Nat /\ parent[n] < n
      /\ \A n, j \in Filter : parent[n] < j /\ j < n => parent[j] >= parent[n]
      /\ \A n \in Filter : parent[n] = 0 \/ parent[n] \in Filter
  BY DEF FilterInv, Tree
<1>3. ASSUME NEW n \in Filter, NEW m \in Filter, parent[m] = n
      PROVE  /\ Within(n, m)
             /\ \A a \in Filter : Within(a, n) => Within(a, m)
             /\ \A a \in Filter : Within(a, m) => a = n \/ Within(a, n)
  <2>1. n \in Nat /\ m \in Nat /\ n < m /\ 1..N = Filter
    BY <1>1, <1>2, <1>3
  <2>2. \A j \in (n + 1)..m : parent[j] >= n
    <3> TAKE j \in (n + 1)..m
    <3>1. j \in Filter /\ n < j /\ (j < m \/ j = m)
      BY <1>1, <2>1
    <3> QED
      BY <1>2, <1>3, <2>1, <3>1
  <2>3. ASSUME NEW a \in Filter, Within(a, n) PROVE Within(a, m)
    <3>1. a \in Nat /\ a < n /\ \A j \in (a + 1)..n : parent[j] >= a
      BY <1>2, <2>3 DEF Within
    <3>2. \A j \in (a + 1)..m : j \in (a + 1)..n \/ j \in (n + 1)..m
      BY <2>1, <3>1
    <3>3. \A j \in (n + 1)..m : j \in Filter /\ parent[j] \in Nat
      BY <1>1, <1>2, <2>1
    <3>4. \A j \in (a + 1)..m : parent[j] >= a
      BY <2>1, <2>2, <3>1, <3>2, <3>3
    <3> QED
      BY <2>1, <3>1, <3>4 DEF Within
  <2>4. ASSUME NEW a \in Filter, Within(a, m) PROVE a = n \/ Within(a, n)
    <3>1. a \in Nat /\ a < m /\ \A j \in (a + 1)..m : parent[j] >= a
      BY <1>2, <2>4 DEF Within
    <3>2. m \in (a + 1)..m
      BY <2>1, <3>1
    <3>3. a <= n
      BY <1>3, <3>1, <3>2
    <3>4. \A j \in (a + 1)..n : j \in (a + 1)..m
      BY <2>1, <3>1
    <3> QED
      BY <2>1, <3>1, <3>3, <3>4 DEF Within
  <2> QED
    BY <2>1, <2>2, <2>3, <2>4 DEF Within
<1>4. ASSUME NEW m \in Open, parent[m] # 0 PROVE parent[m] \in Open
  <2>1. m \in Filter /\ parent[m] \in Filter
    BY <1>2, <1>4 DEF Open
  <2> QED
    BY <1>3, <2>1 DEF Open
<1>5. ASSUME NEW m \in Filter, parent[m] = 0 PROVE m \in Open
  <2> SUFFICES ASSUME NEW a \in Filter, Within(a, m) PROVE FALSE
    BY DEF Open
  <2>1. m \in (a + 1)..m
    BY <1>2 DEF Within
  <2>2. parent[m] >= a
    BY <2>1 DEF Within
  <2> QED
    BY <1>2, <1>5, <2>2
<1>6. ASSUME NEW n \in Open, NEW m \in Filter, parent[m] = n
      PROVE  m \in Open <=> n \in HasCondition
  <2>1. n \in Filter
    BY DEF Open
  <2> QED
    BY <1>3, <1>6, <2>1 DEF Open
<1>7. Open \subseteq Filter
  BY DEF Open
<1> QED
  BY <1>4, <1>5, <1>6, <1>7 DEF Reaches

LEMMA OpenReachedAlways ==
  FilterInv => /\ Reaches(parent, Filter, Open)
               /\ \A n \in Filter : parent[n] = 0 => n \in Open
BY OpenAreReached

LEMMA OpenAreReachedThen ==
  FilterInv' => /\ Reaches(parent', Filter', Open')
                /\ \A n \in Filter' : parent'[n] = 0 => n \in Open'
<1>1. (FilterInv => /\ Reaches(parent, Filter, Open)
                    /\ \A n \in Filter : parent[n] = 0 => n \in Open)'
  BY OpenReachedAlways, PTL
<1> QED
  BY <1>1

-----------------------------------------------------------------------------
(* What a step leaves alone. *)
LEMMA FilterKept ==
  ASSUME UNCHANGED filter
  PROVE  /\ Filter' = Filter /\ HasField' = HasField /\ HasCondition' = HasCondition
         /\ Open' = Open /\ Written' = Written
         /\ FilterInv => FilterInv'
<1>1. parent' = parent /\ kind' = kind /\ head' = head
  BY DEF filter
<1>2. Filter' = Filter /\ HasField' = HasField /\ HasCondition' = HasCondition
  BY <1>1 DEF Filter, HasField, HasCondition
<1>3. \A a, n : Within(a, n)' <=> Within(a, n)
  BY <1>1 DEF Within
<1>4. Open' = Open /\ Written' = Written
  BY <1>1, <1>2, <1>3 DEF Open, Written
<1>5. FilterInv => FilterInv'
  BY <1>1, <1>2 DEF FilterInv, Tree
<1> QED
  BY <1>2, <1>4, <1>5

(* The next rule, said of the stack alone. *)
LEMMA NextFollows ==
  /\ \A n : IsNext(n) <=> Follows(parent, Filter, stack[Len(stack)], n)
  /\ NoneLeft => \A n \in Filter : ~Follows(parent, Filter, stack[Len(stack)], n)
BY DEF IsNext, Follows, Top, NoneLeft

LEMMA VisitIs ==
  ASSUME QueryTypeOK, Len(stack) > 0, NEW n \in Filter, NEW lvl \in Nat
  PROVE  /\ Moved(stack, Visited(n), n)
         /\ Dived(stack, Append(Visited(n), Frame(n, lvl)), n)
<1>1. stack \in Seq(FrameType) /\ Len(stack) \in Nat /\ Len(stack) \in 1..Len(stack)
  BY DEF QueryTypeOK, FrameType
<1>2. \A k \in 1..Len(stack) : stack[k] \in FrameType
  BY <1>1
<1> DEFINE t == [stack[Len(stack)] EXCEPT !.at = n]
<1>3. t \in FrameType /\ t.at = n /\ t.of = stack[Len(stack)].of
  BY <1>1, <1>2 DEF FrameType
<1> HIDE DEF t
<1>4. Visited(n) = [stack EXCEPT ![Len(stack)] = t]
  BY DEF Visited, t
<1> DEFINE v == Visited(n)
           d == Len(stack)
<1>5. /\ v \in Seq(FrameType) /\ Len(v) = d /\ v[d] = t
      /\ \A k \in 1..(d - 1) : v[k] = stack[k]
  BY <1>1, <1>3, <1>4
<1>6. \A k \in 1..d : v[k].of = stack[k].of
  BY <1>1, <1>3, <1>5
<1>7. Moved(stack, Visited(n), n)
  BY <1>1, <1>3, <1>5, <1>6 DEF Moved
<1> DEFINE f == Frame(n, lvl)
<1>8. f \in FrameType /\ f.of = n /\ f.at = n
  BY DEF Frame, FrameType
<1> HIDE DEF f, v
<1>9. /\ Len(Append(v, f)) = d + 1 /\ Append(v, f)[d + 1] = f
      /\ \A k \in 1..d : Append(v, f)[k] = v[k]
  BY <1>1, <1>5, <1>8
<1>10. Dived(stack, Append(v, f), n)
  BY <1>1, <1>3, <1>5, <1>6, <1>8, <1>9 DEF Dived
<1> QED
  BY <1>7, <1>10 DEF v, f

-----------------------------------------------------------------------------
(* FromJson's walk. *)
LEMMA JsonVisits ==
  ASSUME WalkInv, NEW n \in Filter, GetQueryRule(n)
  PROVE  JsonInv'
<1>1. /\ progress = "json" /\ IsNext(n) /\ UNCHANGED filter
      /\ flat' = IF n \in HasField THEN Append(flat, n) ELSE flat
      /\ stack' = IF \E m \in Filter : parent[m] = n
                  THEN Append(Visited(n), Frame(n, 0)) ELSE Visited(n)
  BY DEF GetQueryRule
<1>2. QueryTypeOK /\ Len(stack) > 0 /\ flat \in Seq(Filter) /\ Len(flat) \in Nat
  BY <1>1 DEF WalkInv, QueryInv, QueryTypeOK
<1>3. FilterInv /\ Tree(parent, Filter) /\ Reaches(parent, Filter, Filter)
  BY AllAreReached DEF WalkInv, FilterInv
<1>4. PICK c \in Nat :
        /\ Walked(parent, Filter, Filter, stack, c)
        /\ Lists(flat, 0, Len(flat), UpTo(HasField, c))
  BY <1>1 DEF WalkInv, JsonInv
<1>5. Follows(parent, Filter, stack[Len(stack)], n)
  BY <1>1, NextFollows
<1>6. c < n /\ \A m \in Filter : m <= c \/ n <= m
  BY <1>3, <1>4, <1>5, NothingBetween
<1>7. Walked(parent, Filter, Filter, stack', n)
  <2>1. CASE \E m \in Filter : parent[m] = n
    <3>1. Dived(stack, stack', n)
      BY <1>1, <1>2, <2>1, VisitIs
    <3> QED
      BY <1>3, <1>4, <1>5, <3>1, WalkDives
  <2>2. CASE \A m \in Filter : parent[m] # n
    <3>1. Moved(stack, stack', n)
      BY <1>1, <1>2, <2>2, VisitIs
    <3> QED
      BY <1>3, <1>4, <1>5, <2>2, <3>1, WalkMoves
  <2> QED
    BY <2>1, <2>2
<1>8. HasField \subseteq Filter /\ \A m \in Filter : m \in Nat
  BY <1>3 DEF HasField, Tree
<1>9. Lists(flat', 0, Len(flat'), UpTo(HasField, n))
  <2>1. CASE n \notin HasField
    <3>1. UpTo(HasField, n) = UpTo(HasField, c)
      BY <1>6, <1>8, <2>1 DEF UpTo
    <3> QED
      BY <1>1, <1>4, <2>1, <3>1
  <2>2. CASE n \in HasField
    <3>1. UpTo(HasField, n) = UpTo(HasField, c) \union {n}
      BY <1>6, <1>8, <2>2 DEF UpTo
    <3>2. /\ Len(flat') = Len(flat) + 1 /\ flat'[Len(flat) + 1] = n
          /\ \A i \in 1..Len(flat) : flat'[i] = flat[i]
      BY <1>1, <1>2, <2>2
    <3>3. UpTo(HasField, c) \in SUBSET Nat /\ \A m \in UpTo(HasField, c) : m < n
      BY <1>6, <1>8 DEF UpTo
    <3>4. Lists(flat', 0, Len(flat) + 1, UpTo(HasField, c) \union {n})
      BY <1>2, <1>4, <1>8, <3>2, <3>3, OneMore
    <3> QED
      BY <3>1, <3>2, <3>4
  <2> QED
    BY <2>1, <2>2
<1> QED
  BY <1>1, <1>7, <1>8, <1>9, FilterKept DEF JsonInv, filter

(* A return pops the stack, and the last one leaves nothing to visit.      *)
LEMMA ReturnIs ==
  ASSUME QueryTypeOK, Len(stack) > 0, FilterInv, NEW A, Reaches(parent, Filter, A),
         NEW c, Walked(parent, Filter, A, stack, c), NoneLeft
  PROVE  /\ Len(stack) # 1 => Walked(parent, Filter, A, Returned, c)
         /\ Len(stack) = 1 => \A m \in A : m <= c
<1>1. Tree(parent, Filter) /\ \A v \in Filter : ~Follows(parent, Filter, stack[Len(stack)], v)
  BY NextFollows DEF FilterInv
<1>2. /\ Len(Returned) = Len(stack) - 1
      /\ \A k \in 1..(Len(stack) - 1) : Returned[k] = stack[k]
  BY ReturnedIs
<1>3. Len(stack) \in Nat
  BY DEF QueryTypeOK
<1>4. ASSUME Len(stack) # 1 PROVE Walked(parent, Filter, A, Returned, c)
  <2>1. Len(stack) > 1
    <3>1. \A l \in Nat : l > 0 /\ l # 1 => l > 1
      OBVIOUS
    <3> QED
      BY <1>3, <1>4, <3>1
  <2> QED
    BY <1>1, <1>2, <2>1, WalkReturns
<1>5. ASSUME Len(stack) = 1 PROVE \A m \in A : m <= c
  BY <1>1, <1>5, WalkEnds
<1> QED
  BY <1>4, <1>5

LEMMA JsonReturns ==
  ASSUME WalkInv, GetQueryRulesReturns
  PROVE  JsonInv' /\ FlatInDocumentOrder'
<1>1. /\ progress = "json" /\ NoneLeft /\ UNCHANGED filter /\ flat' = flat
      /\ stack' = Returned /\ progress' = IF Len(stack) = 1 THEN "flat" ELSE "json"
  BY DEF GetQueryRulesReturns
<1>2. QueryTypeOK /\ Len(stack) > 0 /\ flat \in Seq(Filter) /\ Len(flat) \in Nat
  BY <1>1 DEF WalkInv, QueryInv, QueryTypeOK
<1>3. FilterInv /\ Tree(parent, Filter) /\ Reaches(parent, Filter, Filter)
  BY AllAreReached DEF WalkInv, FilterInv
<1>4. PICK c \in Nat :
        /\ Walked(parent, Filter, Filter, stack, c)
        /\ Lists(flat, 0, Len(flat), UpTo(HasField, c))
  BY <1>1 DEF WalkInv, JsonInv
<1>5. /\ Len(stack) # 1 => Walked(parent, Filter, Filter, Returned, c)
      /\ Len(stack) = 1 => \A m \in Filter : m <= c
  BY <1>1, <1>2, <1>3, <1>4, ReturnIs
<1>6. HasField' = HasField /\ Filter' = Filter /\ parent' = parent
  BY <1>1, FilterKept DEF filter
<1>7. JsonInv'
  BY <1>1, <1>4, <1>5, <1>6 DEF JsonInv
<1>8. ASSUME Len(stack) = 1 PROVE InDocumentOrder(flat, HasField)
  <2>1. UpTo(HasField, c) = HasField
    BY <1>5, <1>8 DEF UpTo, HasField
  <2>2. Lists(flat, 0, Len(flat), HasField)
    BY <1>4, <2>1
  <2> QED
    BY <2>2 DEF Lists, InDocumentOrder
<1>9. FlatInDocumentOrder'
  BY <1>1, <1>6, <1>8 DEF FlatInDocumentOrder, InDocumentOrder
<1> QED
  BY <1>7, <1>9

-----------------------------------------------------------------------------
(* The table's walk: a visit moves on or dives, and writes the row that    *)
(* the rule is due.                                                        *)
LEMMA HeadLength ==
  ASSUME QueryTypeOK
  PROVE  HeadRows(head) \in Seq(RowType) /\ Len(HeadRows(head)) \in Nat
<1>1. HeadRows(head) \in Seq(HeadRowType)
  BY HeadRowsAre DEF QueryTypeOK
<1>2. HeadRowType \subseteq RowType
  BY DEF HeadRowType, RowType
<1> QED
  BY <1>1, <1>2, SeqMonotonic

LEMMA RowWritten ==
  ASSUME QueryTypeOK, FilterInv, NEW c \in Nat, TableOf(c), NEW n \in Filter, c < n,
         \A m \in Open : m <= c \/ n <= m,
         n \in Written, UNCHANGED filter,
         NEW r \in RowType, r.of = n, rows' = Append(rows, r)
  PROVE  TableOf(n)'
<1> DEFINE first == Len(HeadRows(head))
           f == [i \in 1..Len(rows) |-> rows[i].of]
           g == [i \in 1..Len(rows') |-> rows'[i].of]
<1>1. /\ first \in Nat /\ Len(rows) \in Nat /\ rows \in Seq(RowType)
      /\ first <= Len(rows) /\ \A i \in 1..first : rows[i] = HeadRows(head)[i]
  BY HeadLength DEF QueryTypeOK, RowType, TableOf, Table
<1>2. /\ Len(rows') = Len(rows) + 1 /\ rows'[Len(rows) + 1] = r
      /\ \A i \in 1..Len(rows) : rows'[i] = rows[i]
  BY <1>1
<1>3. Lists(f, first, Len(rows), UpTo(Written, c))
  BY DEF TableOf, Table
<1>4. \A m \in Written : m \in Open /\ m \in Nat
  <2>1. \A m \in Filter : m \in Nat
    BY DEF FilterInv, Tree
  <2> QED
    BY <2>1, WrittenIs DEF Open
<1>5. UpTo(Written, n) = UpTo(Written, c) \union {n}
  BY <1>4 DEF UpTo
<1>6. UpTo(Written, c) \in SUBSET Nat /\ n \in Nat /\ \A m \in UpTo(Written, c) : m < n
  BY <1>4 DEF UpTo
<1>7. g[Len(rows) + 1] = n /\ \A i \in 1..Len(rows) : g[i] = f[i]
  BY <1>1, <1>2
<1> HIDE DEF f, g
<1>8. Lists(g, first, Len(rows'), UpTo(Written, n))
  <2>1. Lists(g, first, Len(rows) + 1, UpTo(Written, n))
    <3> DEFINE b == Len(rows)
               S == UpTo(Written, c)
    <3>1. /\ first \in Nat /\ b \in Nat /\ first <= b
          /\ S \in SUBSET Nat /\ n \in Nat /\ \A m \in S : m < n
          /\ Lists(f, first, b, S)
          /\ \A i \in 1..b : g[i] = f[i]
          /\ g[b + 1] = n
      BY <1>1, <1>3, <1>6, <1>7
    <3> HIDE DEF first, b, S
    <3>2. Lists(g, first, b + 1, S \union {n})
      BY <3>1, OneMore, Zenon
    <3> QED
      BY <1>5, <3>2 DEF b, S
  <2> QED
    BY <1>2, <2>1
<1>9. Table(rows', HeadRows(head), UpTo(Written, n))
  <2>1. first <= Len(rows') /\ \A i \in 1..first : rows'[i] = HeadRows(head)[i]
    BY <1>1, <1>2
  <2> QED
    BY <1>8, <2>1 DEF Table, g
<1>10. head' = head /\ Written' = Written
  BY FilterKept DEF filter
<1> QED
  BY <1>9, <1>10 DEF TableOf

LEMMA TableVisits ==
  ASSUME WalkInv, NEW n \in Filter, SkipNull(n) \/ WriteRule(n) \/ WriteGroup(n)
  PROVE  TableInv'
<1>1. /\ progress = "table" /\ IsNext(n) /\ UNCHANGED filter
      /\ \/ /\ n \in HasCondition
            /\ stack' = Append(Visited(n), Frame(n, Top.level + 1))
         \/ n \notin HasCondition /\ stack' = Visited(n)
      /\ \/ kind[n] = "null" /\ rows' = rows
         \/ kind[n] # "null" /\ rows' = Append(rows, Row("RULE", Top.level, n))
         \/ kind[n] # "null" /\ rows' = Append(rows, Row("CONDITION", Top.level + 1, n))
  BY DEF SkipNull, WriteRule, WriteGroup, HasCondition
<1>2. /\ QueryTypeOK /\ Len(stack) > 0
      /\ Top.level \in Nat /\ Top.level + 1 \in Nat
  <2>1. QueryTypeOK /\ Len(stack) > 0
    BY <1>1 DEF WalkInv, QueryInv, QueryTypeOK
  <2>2. stack \in Seq(FrameType) /\ Len(stack) \in 1..Len(stack)
    BY <2>1 DEF QueryTypeOK, FrameType
  <2>3. Top \in FrameType
    BY <2>2 DEF Top
  <2> QED
    BY <2>1, <2>3 DEF FrameType
<1>3. FilterInv /\ Tree(parent, Filter)
      /\ Reaches(parent, Filter, Open)
      /\ \A a \in Open, m \in Filter :
           parent[m] = a => (m \in Open <=> a \in HasCondition)
  BY OpenAreReached DEF WalkInv, FilterInv
<1>4. PICK c \in Nat : Walked(parent, Filter, Open, stack, c) /\ TableOf(c)
  BY <1>1 DEF WalkInv, TableInv
<1>5. Follows(parent, Filter, stack[Len(stack)], n)
  BY <1>1, NextFollows
<1>6. c < n /\ n \in Open /\ \A m \in Open : m <= c \/ n <= m
  BY <1>3, <1>4, <1>5, NothingBetween
<1>7. Walked(parent, Filter, Open, stack', n)
  <2>1. CASE n \in HasCondition
    <3>1. Dived(stack, stack', n)
      BY <1>1, <1>2, <2>1, VisitIs
    <3>2. \A m \in Filter : parent[m] = n => m \in Open
      BY <1>3, <1>6, <2>1
    <3> QED
      BY <1>3, <1>4, <1>5, <3>1, <3>2, WalkDives
  <2>2. CASE n \notin HasCondition
    <3>1. Moved(stack, stack', n)
      BY <1>1, <1>2, <2>2, VisitIs
    <3>2. \A m \in Open : parent[m] # n
      BY <1>3, <1>6, <2>2 DEF Open
    <3> QED
      BY <1>3, <1>4, <1>5, <3>1, <3>2, WalkMoves
  <2> QED
    BY <2>1, <2>2
<1>8. n \in Nat /\ \A m \in Open : m \in Nat
  BY <1>3 DEF Tree, Open
<1>9. TableOf(n)'
  <2>1. CASE kind[n] = "null"
    <3>1. rows' = rows /\ n \notin Written
      BY <1>1, <2>1, WrittenIs
    <3>2. UpTo(Written, n) = UpTo(Written, c)
      <4>1. \A m \in Written : m \in Open /\ m # n
        BY <3>1, WrittenIs
      <4>2. \A m \in Written : m <= n <=> m <= c
        <5> TAKE m \in Written
        <5>1. m \in Nat /\ m # n /\ (m <= c \/ n <= m)
          BY <1>6, <1>8, <4>1
        <5>2. c \in Nat /\ n \in Nat /\ c < n
          BY <1>6, <1>8
        <5> QED
          BY <5>1, <5>2
      <4> QED
        BY <4>2 DEF UpTo
    <3>3. head' = head /\ Written' = Written
      BY <1>1, FilterKept DEF filter
    <3> QED
      BY <1>4, <3>1, <3>2, <3>3 DEF TableOf
  <2>2. CASE kind[n] # "null"
    <3>0. /\ Row("RULE", Top.level, n) \in RowType
          /\ Row("RULE", Top.level, n).of = n
          /\ Row("CONDITION", Top.level + 1, n) \in RowType
          /\ Row("CONDITION", Top.level + 1, n).of = n
      <4>1. /\ \A l \in Nat : Row("RULE", l, n) \in RowType /\ Row("RULE", l, n).of = n
            /\ \A l \in Nat : /\ Row("CONDITION", l, n) \in RowType
                             /\ Row("CONDITION", l, n).of = n
        BY DEF Row, RowType, RowTypes
      <4> QED
        BY <1>2, <4>1
    <3>1. PICK r \in RowType : r.of = n /\ rows' = Append(rows, r)
      BY <1>1, <2>2, <3>0
    <3>2. n \in Written
      BY <1>6, <2>2, WrittenIs
    <3> QED
      BY <1>1, <1>2, <1>3, <1>4, <1>6, <3>1, <3>2, RowWritten
  <2> QED
    BY <2>1, <2>2
<1>10. Filter' = Filter /\ Open' = Open /\ parent' = parent
  BY <1>1, FilterKept DEF filter
<1> QED
  BY <1>7, <1>8, <1>9, <1>10 DEF TableInv

(* The table that the last return leaves behind. *)
Complete(rs, hs, S) ==
  LET rest == SubSeq(rs, Len(hs) + 1, Len(rs))
  IN  /\ SubSeq(rs, 1, Len(hs)) = hs
      /\ InDocumentOrder([i \in 1..Len(rest) |-> rest[i].of], S)

LEMMA TableIsDone ==
  ASSUME QueryTypeOK, NEW S, NEW hs, hs \in Seq(RowType), Table(rows, hs, S)
  PROVE  Complete(rows, hs, S)
<1> DEFINE first == Len(hs)
           rest  == SubSeq(rows, first + 1, Len(rows))
           size  == Len(rows) - first
           f     == [i \in 1..Len(rows) |-> rows[i].of]
           g     == [i \in 1..size |-> rest[i].of]
<1>1. /\ first \in Nat /\ Len(rows) \in Nat /\ first <= Len(rows)
      /\ size \in Nat /\ rows \in Seq(RowType)
      /\ \A i \in 1..first : rows[i] = hs[i]
  BY DEF QueryTypeOK, RowType, Table
<1>2. \A i \in 1..Len(rows) : rows[i] \in RowType
  BY <1>1
<1>3. SubSeq(rows, 1, first) = hs
  <2> DEFINE t == SubSeq(rows, 1, first)
  <2>1. /\ t \in Seq(RowType)
        /\ Len(t) = IF 1 <= first THEN first - 1 + 1 ELSE 0
        /\ \A i \in 1..(first - 1 + 1) : t[i] = rows[1 + i - 1]
    <3>1. 1 \in Int /\ first \in Int /\ \A i \in 1..first : rows[i] \in RowType
      BY <1>1, <1>2
    <3> QED
      BY <3>1, SubSeqProperties
  <2>2. Len(t) = first
    BY <1>1, <2>1
  <2>3. \A i \in 1..Len(t) : t[i] = hs[i]
    BY <1>1, <2>1, <2>2
  <2> HIDE DEF t
  <2>4. t = hs
    BY <2>1, <2>2, <2>3, SeqEqual
  <2> QED
    BY <2>4 DEF t
<1>4. /\ rest \in Seq(RowType) /\ Len(rest) = size
      /\ \A i \in 1..size : rest[i] = rows[first + i]
  <2>1. /\ first + 1 \in Int /\ Len(rows) \in Int
        /\ \A i \in (first + 1)..Len(rows) : rows[i] \in RowType
    BY <1>1, <1>2
  <2>2. /\ rest \in Seq(RowType)
        /\ Len(rest) = IF first + 1 <= Len(rows) THEN Len(rows) - (first + 1) + 1 ELSE 0
        /\ \A i \in 1..(Len(rows) - (first + 1) + 1) : rest[i] = rows[(first + 1) + i - 1]
    BY <2>1, SubSeqProperties
  <2> HIDE DEF rest
  <2>3. Len(rest) = size
    BY <1>1, <2>2
  <2>4. \A i \in 1..size : rest[i] = rows[first + i]
    BY <1>1, <2>2
  <2> QED
    BY <2>2, <2>3, <2>4
<1> HIDE DEF rest
<1>5. \A i \in 1..size : g[i] = f[first + i] /\ first + i \in (first + 1)..Len(rows)
  BY <1>1, <1>4
<1>6. \A j \in (first + 1)..Len(rows) : j - first \in 1..size /\ g[j - first] = f[j]
  <2> TAKE j \in (first + 1)..Len(rows)
  <2>1. j - first \in 1..size /\ first + (j - first) = j
    BY <1>1
  <2> QED
    BY <1>5, <2>1
<1>7. DOMAIN g = 1..size /\ Len(g) = size
  <2>1. \A i \in 1..size : rest[i].of \in {0} \union Filter
    <3>1. \A i \in 1..size : rest[i] \in RowType
      BY <1>1, <1>4
    <3> QED
      BY <3>1 DEF RowType
  <2>2. g \in [1..size -> {0} \union Filter]
    BY <2>1
  <2>3. g \in Seq({0} \union Filter)
    BY <1>1, <2>2, SeqDef
  <2> QED
    BY <1>1, <2>3
<1>8. Lists(f, first, Len(rows), S)
  BY DEF Table
<1> HIDE DEF f, g
<1>9. {g[i] : i \in 1..Len(g)} = S
  <2>1. \A i \in 1..size : g[i] \in S
    BY <1>5, <1>8 DEF Lists
  <2>2. \A n \in S : \E i \in 1..size : g[i] = n
    <3> TAKE n \in S
    <3>1. PICK j \in (first + 1)..Len(rows) : f[j] = n
      BY <1>8 DEF Lists
    <3> QED
      BY <1>6, <3>1
  <2> QED
    BY <1>7, <2>1, <2>2
<1>10. ASSUME NEW i \in 1..Len(g), NEW j \in 1..Len(g), i < j PROVE g[i] < g[j]
  <2>1. first + i < first + j /\ i \in 1..size /\ j \in 1..size
    BY <1>1, <1>7, <1>10
  <2> QED
    BY <1>5, <1>8, <2>1 DEF Lists
<1>11. InDocumentOrder(g, S)
  BY <1>9, <1>10 DEF InDocumentOrder
<1>12. [i \in 1..Len(rest) |-> rest[i].of] = g
  BY <1>4 DEF g
<1> QED
  BY <1>3, <1>11, <1>12 DEF rest, Complete

LEMMA TableReturnsComplete ==
  ASSUME WalkInv, TableReturns
  PROVE  TableInv' /\ TableIsComplete'
<1>1. /\ progress = "table" /\ NoneLeft /\ UNCHANGED filter /\ rows' = rows
      /\ stack' = Returned /\ progress' = IF Len(stack) = 1 THEN "done" ELSE "table"
  BY DEF TableReturns
<1>2. QueryTypeOK /\ Len(stack) > 0
  BY <1>1 DEF WalkInv, QueryInv, QueryTypeOK
<1>3. FilterInv /\ Tree(parent, Filter) /\ Reaches(parent, Filter, Open)
  BY OpenAreReached DEF WalkInv, FilterInv
<1>4. PICK c \in Nat : Walked(parent, Filter, Open, stack, c) /\ TableOf(c)
  BY <1>1 DEF WalkInv, TableInv
<1>5. /\ Len(stack) # 1 => Walked(parent, Filter, Open, Returned, c)
      /\ Len(stack) = 1 => \A m \in Open : m <= c
  BY <1>1, <1>2, <1>3, <1>4, ReturnIs
<1>6. /\ Filter' = Filter /\ parent' = parent /\ head' = head
      /\ Open' = Open /\ Written' = Written
  BY <1>1, FilterKept DEF filter
<1>7. TableInv'
  <2>1. TableOf(c)'
    BY <1>1, <1>4, <1>6 DEF TableOf
  <2> QED
    BY <1>1, <1>5, <1>6, <2>1 DEF TableInv
<1>8. ASSUME Len(stack) = 1 PROVE TableIsComplete'
  <2>1. UpTo(Written, c) = Written
    BY <1>5, <1>8, WrittenIs DEF UpTo
  <2>2. Table(rows, HeadRows(head), Written) /\ HeadRows(head) \in Seq(RowType)
    BY <1>2, <1>4, <2>1, HeadLength DEF TableOf
  <2>3. Complete(rows, HeadRows(head), Written)
    BY <1>2, <2>2, TableIsDone
  <2>4. Complete(rows', HeadRows(head'), Written')
    BY <1>1, <1>6, <2>3
  <2> QED
    BY <2>4 DEF TableIsComplete, Complete
<1>9. ASSUME Len(stack) # 1 PROVE TableIsComplete'
  BY <1>1, <1>9 DEF TableIsComplete
<1> QED
  BY <1>7, <1>8, <1>9

-----------------------------------------------------------------------------
(* The beginning of a call. *)
LEMMA CallBeginsWalk ==
  ASSUME WalkInv, QueryCall
  PROVE  FilterInv' /\ JsonInv' /\ TableInv'
<1>1. progress = "idle" /\ flat = <<>> /\ rows = <<>>
  BY SMT DEF QueryCall, WalkInv, QueryInv, IdleInv
<1>2. PICK n \in 0..NRules :
        \E p \in Shapes(n), k \in [1..n -> Kinds], h \in Heads : CallWith(p, k, h)
  BY DEF QueryCall
<1>3. PICK p \in Shapes(n), k \in [1..n -> Kinds], h \in Heads : CallWith(p, k, h)
  BY <1>2
<1>4. /\ parent' = p /\ kind' = k /\ head' = h
      /\ \/ /\ progress' = "json" /\ stack' = <<Frame(0, 0)>>
            /\ UNCHANGED <<flat, rows>>
         \/ /\ progress' = "table" /\ stack' = <<Frame(0, 0)>>
            /\ rows' = HeadRows(h)
         \/ progress' = "raised"
  BY <1>3 DEF CallWith, FromJson, ToDataTable
<1>5. /\ n \in Nat /\ p \in [1..n -> 0..n] /\ k \in [1..n -> Kinds]
      /\ \A m \in 1..n : p[m] < m
      /\ \A m \in 1..n : \A j \in (p[m] + 1)..(m - 1) : p[j] >= p[m]
  BY QueryAssumption DEF Shapes
<1>6. Filter' = 1..n
  BY <1>4, <1>5 DEF Filter
<1>7. Tree(p, 1..n)
  <2>1. \A m \in 1..n : p[m] \in Nat
    BY <1>5
  <2>2. ASSUME NEW m \in 1..n, NEW j \in 1..n, p[m] < j, j < m PROVE p[j] >= p[m]
    <3>1. j \in (p[m] + 1)..(m - 1)
      BY <1>5, <2>1, <2>2
    <3> QED
      BY <1>5, <3>1
  <2>3. 1..n \subseteq Nat \ {0}
    BY <1>5
  <2> QED
    BY <1>5, <2>1, <2>2, <2>3 DEF Tree
<1>8. FilterInv'
  <2>1. \A m \in 1..n : p[m] = 0 \/ p[m] \in 1..n
    BY <1>5
  <2> QED
    BY <1>4, <1>5, <1>6, <1>7, <2>1 DEF FilterInv, Tree
<1> DEFINE s == <<Frame(0, 0)>>
<1>9. Len(s) = 1 /\ s[1].of = 0 /\ s[1].at = 0
  BY DEF Frame
<1> HIDE DEF s
<1>10. JsonInv'
  <2> SUFFICES ASSUME progress' = "json" PROVE JsonInv'
    BY DEF JsonInv
  <2>1. stack' = s /\ flat' = <<>>
    BY <1>1, <1>4 DEF s
  <2>2. Reaches(p, 1..n, 1..n)
    BY <1>5 DEF Reaches
  <2>3. Walked(p, 1..n, 1..n, s, 0)
    BY <1>7, <1>9, <2>2, WalkBegins
  <2>4. UpTo(HasField', 0) = {}
    BY <1>6 DEF UpTo, HasField
  <2>5. Lists(<<>>, 0, Len(<<>>), {})
    BY DEF Lists
  <2> QED
    BY <1>4, <1>6, <2>1, <2>3, <2>4, <2>5 DEF JsonInv, UpTo, HasField
<1>11. TableInv'
  <2> SUFFICES ASSUME progress' = "table" PROVE TableInv'
    BY DEF TableInv
  <2>1. stack' = s /\ rows' = HeadRows(h)
    BY <1>4 DEF s
  <2>2. Tree(p, Filter') /\ Reaches(p, Filter', Open') /\ \A m \in Filter' : p[m] = 0 => m \in Open'
    BY <1>4, <1>6, <1>7, <1>8, OpenAreReachedThen
  <2>3. Walked(p, Filter', Open', s, 0)
    BY <1>9, <2>2, WalkBegins
  <2>4. TableOf(0)'
    <3>1. HeadRows(h) \in Seq(HeadRowType) /\ Len(HeadRows(h)) \in Nat
      BY <1>3, QueryAssumption, HeadRowsAre
    <3>2. UpTo(Written', 0) = {}
      BY <1>6 DEF UpTo, Written
    <3>3. \A f : Lists(f, Len(HeadRows(h)), Len(HeadRows(h)), {})
      BY <3>1 DEF Lists
    <3>4. Table(HeadRows(h), HeadRows(h), {})
      BY <3>1, <3>3 DEF Table
    <3>5. Table(rows', HeadRows(head'), UpTo(Written', 0))
      BY <1>4, <2>1, <3>2, <3>4
    <3> QED
      BY <3>5 DEF TableOf, UpTo
  <2> QED
    BY <1>4, <2>1, <2>3, <2>4 DEF TableInv
<1> QED
  BY <1>8, <1>10, <1>11

-----------------------------------------------------------------------------
LEMMA WalkInitInv == QueryInit => WalkInv
<1> SUFFICES ASSUME QueryInit PROVE WalkInv
  OBVIOUS
<1>1. /\ parent = <<>> /\ kind = <<>> /\ progress = "idle"
  BY DEF QueryInit
<1>2. Filter = {} /\ 1..0 = {}
  BY <1>1 DEF Filter
<1>3. FilterInv
  BY <1>2 DEF FilterInv, Tree
<1>4. JsonInv /\ TableInv /\ FlatInDocumentOrder /\ TableIsComplete
  BY <1>1 DEF JsonInv, TableInv, FlatInDocumentOrder, TableIsComplete
<1> QED
  BY <1>3, <1>4, QueryInitInv DEF WalkInv

(* Outside the walks there is nothing to say. *)
LEMMA NoWalk ==
  ASSUME progress' \in {"idle", "raised"}
  PROVE  JsonInv' /\ TableInv' /\ FlatInDocumentOrder' /\ TableIsComplete'
BY DEF JsonInv, TableInv, FlatInDocumentOrder, TableIsComplete

LEMMA WalkStutters ==
  ASSUME WalkInv, UNCHANGED queryVars
  PROVE  WalkInv'
<1>1. UNCHANGED <<filter, parent, kind, head, progress, stack, flat, rows>>
  BY DEF queryVars, filter
<1>2. QueryInv'
  BY QueryNextInv DEF WalkInv
<1>3. /\ Filter' = Filter /\ HasField' = HasField /\ Open' = Open
      /\ Written' = Written /\ FilterInv'
  BY <1>1, FilterKept DEF WalkInv
<1>4. JsonInv'
  BY <1>1, <1>3 DEF WalkInv, JsonInv
<1>5. TableInv'
  <2>1. \A c : TableOf(c)' <=> TableOf(c)
    BY <1>1, <1>3 DEF TableOf
  <2> QED
    BY <1>1, <1>3, <2>1 DEF WalkInv, TableInv
<1>6. FlatInDocumentOrder'
  BY <1>1, <1>3 DEF WalkInv, FlatInDocumentOrder
<1>7. TableIsComplete'
  <2>1. progress = "done" => Complete(rows, HeadRows(head), Written)
    BY DEF WalkInv, TableIsComplete, Complete
  <2>2. progress' = "done" => Complete(rows', HeadRows(head'), Written')
    BY <1>1, <1>3, <2>1
  <2> QED
    BY <2>2 DEF TableIsComplete, Complete
<1> QED
  BY <1>2, <1>3, <1>4, <1>5, <1>6, <1>7 DEF WalkInv

LEMMA WalkNextInv == WalkInv /\ [QueryNext]_queryVars => WalkInv'
<1> SUFFICES ASSUME WalkInv, [QueryNext]_queryVars PROVE WalkInv'
  OBVIOUS
<1>1. QueryInv'
  BY QueryNextInv DEF WalkInv
<1>2. UNCHANGED filter => FilterInv'
  BY FilterKept DEF WalkInv
<1>3. CASE UNCHANGED queryVars
  BY <1>3, WalkStutters
<1>4. CASE QueryCall
  <2>1. progress' \in {"json", "table", "raised"}
    BY <1>4 DEF QueryCall, CallWith, FromJson, ToDataTable
  <2>2. FlatInDocumentOrder' /\ TableIsComplete'
    BY <2>1 DEF FlatInDocumentOrder, TableIsComplete
  <2> QED
    BY <1>1, <1>4, <2>2, CallBeginsWalk DEF WalkInv
<1>5. ASSUME NEW n \in Filter, GetQueryRule(n) PROVE WalkInv'
  <2>1. progress' = "json" /\ UNCHANGED filter
    BY <1>5 DEF GetQueryRule
  <2>2. TableInv' /\ FlatInDocumentOrder' /\ TableIsComplete'
    BY <2>1 DEF TableInv, FlatInDocumentOrder, TableIsComplete
  <2> QED
    BY <1>1, <1>2, <1>5, <2>1, <2>2, JsonVisits DEF WalkInv
<1>6. ASSUME NEW n \in Filter, SkipNull(n) \/ WriteRule(n) \/ WriteGroup(n) PROVE WalkInv'
  <2>1. progress' = "table" /\ UNCHANGED filter
    BY <1>6 DEF SkipNull, WriteRule, WriteGroup
  <2>2. JsonInv' /\ FlatInDocumentOrder' /\ TableIsComplete'
    BY <2>1 DEF JsonInv, FlatInDocumentOrder, TableIsComplete
  <2> QED
    BY <1>1, <1>2, <1>6, <2>1, <2>2, TableVisits DEF WalkInv
<1>7. ASSUME NEW n \in Filter, NullRuleThrows(n) \/ NoTableThrows(n) PROVE WalkInv'
  <2>1. progress' = "raised" /\ UNCHANGED filter
    BY <1>7 DEF NullRuleThrows, NoTableThrows, Throw
  <2> QED
    BY <1>1, <1>2, <2>1, NoWalk DEF WalkInv
<1>8. CASE GetQueryRulesReturns
  <2>1. progress' \in {"json", "flat"} /\ UNCHANGED filter
    BY <1>8 DEF GetQueryRulesReturns
  <2>2. TableInv' /\ TableIsComplete'
    BY <2>1 DEF TableInv, TableIsComplete
  <2> QED
    BY <1>1, <1>2, <1>8, <2>1, <2>2, JsonReturns DEF WalkInv
<1>9. CASE TableReturns
  <2>1. progress' \in {"table", "done"} /\ UNCHANGED filter
    BY <1>9 DEF TableReturns
  <2>2. JsonInv' /\ FlatInDocumentOrder'
    BY <2>1 DEF JsonInv, FlatInDocumentOrder
  <2> QED
    BY <1>1, <1>2, <1>9, <2>1, <2>2, TableReturnsComplete DEF WalkInv
<1>10. CASE Forget
  <2>1. QueryInit'
    BY <1>10 DEF Forget, QueryInit
  <2> QED
    BY <2>1, WalkInitInv, PTL
<1> QED
  BY <1>3, <1>4, <1>5, <1>6, <1>7, <1>8, <1>9, <1>10 DEF QueryNext, QueryStep

-----------------------------------------------------------------------------
(* FromJson loses the groups but no condition: what it returns is every    *)
(* rule with a field, at any depth, once and in the order of the document. *)
THEOREM NoConditionIsLost == QuerySpec => []FlatInDocumentOrder
<1>1. WalkInv => FlatInDocumentOrder
  BY DEF WalkInv
<1> QED
  BY <1>1, WalkInitInv, WalkNextInv, PTL DEF QuerySpec

(* QueryBuilderToDataTable writes a row for every rule that is not null    *)
(* and only within rules with a condition, once and in order, behind the   *)
(* rows of the filter itself.                                              *)
THEOREM NoRowIsMissing == QuerySpec => []TableIsComplete
<1>1. WalkInv => TableIsComplete
  BY DEF WalkInv
<1> QED
  BY <1>1, WalkInitInv, WalkNextInv, PTL DEF QuerySpec
=============================================================================
