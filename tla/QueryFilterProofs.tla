------------------------- MODULE QueryFilterProofs -------------------------
(***************************************************************************)
(* The rows of a filter's table tell the groups, for filters of any number *)
(* of rules.  The reason is kept per running call: the condition of the    *)
(* rule whose list it goes through is the last that was written under the  *)
(* number of the call's depth (Opened), as only a call that has returned   *)
(* lets a number be used again.                                            *)
(***************************************************************************)
EXTENDS QueryFilter, SequenceTheorems, TLAPS

FrameType == [of : {0} \union Filter, at : {0} \union Filter, level : Nat]
HeadRowType == [type : RowTypes, group : Nat, parentGroup : Nat, of : {0}]
RowType == [type : RowTypes, group : Nat, parentGroup : Nat, of : {0} \union Filter]

(* The rows rs tell of place i that it is in the group of rule p, which is *)
(* numbered g; h is what the filter has set.                               *)
Opens(row, g) == row.type = "CONDITION" /\ row.group = g
NumberOf(row) == IF row.type = "RULE" THEN row.group ELSE row.parentGroup

Tells(rs, h, i, g, p) ==
  IF p = 0 /\ "CONDITION" \notin h
  THEN \A j \in 1..(i - 1) : ~Opens(rs[j], g)
  ELSE \E j \in 1..(i - 1) :
         /\ Opens(rs[j], g) /\ rs[j].of = p
         /\ \A l \in (j + 1)..(i - 1) : ~Opens(rs[l], g)

Opened(rs, h, calls) == \A k \in 1..Len(calls) : Tells(rs, h, Len(rs) + 1, k, calls[k].of)

CallsInv ==
  progress = "table" =>
    /\ \A k \in 1..Len(stack) : stack[k].of = 0 <=> k = 1
    /\ Opened(rows, head, stack)

(* Between the calls nothing is left of the last one. *)
IdleInv == progress = "idle" => flat = <<>> /\ rows = <<>>

QueryInv == QueryTypeOK /\ CallsInv /\ IdleInv /\ RowsTellTheirGroup

-----------------------------------------------------------------------------
LEMMA QueryInitInv == QueryInit => QueryInv
<1> SUFFICES ASSUME QueryInit PROVE QueryInv
  OBVIOUS
<1>1. Filter = {}
  BY DEF QueryInit, Filter
<1>2. QueryTypeOK
  <2>1. /\ Filter \subseteq 1..NRules /\ head \subseteq HeadTypes /\ tableGiven \in BOOLEAN
        /\ progress = "idle" /\ Len(stack) = 0
    BY <1>1 DEF QueryInit
  <2>2. parent \in [Filter -> 0..NRules] /\ kind \in [Filter -> Kinds]
    <3>1. <<>> = [x \in {} |-> x]
      OBVIOUS
    <3> QED
      BY <1>1, <3>1 DEF QueryInit
  <2>3. \A S : stack \in Seq(S) /\ flat \in Seq(S) /\ rows \in Seq(S)
    BY DEF QueryInit
  <2> QED
    BY <2>1, <2>2, <2>3 DEF QueryTypeOK
<1>3. CallsInv /\ IdleInv /\ RowsTellTheirGroup
  BY DEF QueryInit, CallsInv, IdleInv, RowsTellTheirGroup
<1> QED
  BY <1>2, <1>3 DEF QueryInv

(* The rows of the filter itself: none of a rule's, and the condition, if  *)
(* there is one, is the first of them.                                     *)
LEMMA HeadRowsAre ==
  ASSUME NEW h \in SUBSET HeadTypes
  PROVE  /\ HeadRows(h) \in Seq(HeadRowType)
         /\ \A i \in 1..Len(HeadRows(h)) :
              HeadRows(h)[i].type = "CONDITION" => i = 1 /\ "CONDITION" \in h
         /\ "CONDITION" \in h =>
              /\ Len(HeadRows(h)) >= 1
              /\ HeadRows(h)[1] = Row("CONDITION", 0, 0)
<1> DEFINE R == HeadRowType
           c == IF "CONDITION" \in h THEN <<Row("CONDITION", 0, 0)>> ELSE <<>>
           n == IF "NOT" \in h THEN <<Row("NOT", 0, 0)>> ELSE <<>>
           o == IF "OPTIONS" \in h THEN <<Row("OPTIONS", 0, 0)>> ELSE <<>>
<1>1. /\ Row("CONDITION", 0, 0) \in R /\ Row("NOT", 0, 0) \in R /\ Row("OPTIONS", 0, 0) \in R
      /\ Row("NOT", 0, 0).type # "CONDITION" /\ Row("OPTIONS", 0, 0).type # "CONDITION"
  BY DEF Row, RowTypes, HeadRowType
<1> HIDE DEF R
<1>2. c \in Seq(R) /\ n \in Seq(R) /\ o \in Seq(R)
  BY <1>1
<1>3. /\ Len(c) \in {0, 1} /\ (Len(c) = 1 <=> "CONDITION" \in h)
      /\ "CONDITION" \in h => c[1] = Row("CONDITION", 0, 0)
      /\ \A i \in 1..Len(n) : n[i].type # "CONDITION"
      /\ \A i \in 1..Len(o) : o[i].type # "CONDITION"
  BY <1>1
<1> HIDE DEF c, n, o
<1>4. /\ (c \o n) \in Seq(R) /\ Len(c \o n) = Len(c) + Len(n)
      /\ \A i \in 1..(Len(c) + Len(n)) :
           (c \o n)[i] = IF i <= Len(c) THEN c[i] ELSE n[i - Len(c)]
  BY <1>2
<1> DEFINE cn == c \o n
<1> HIDE DEF cn
<1>5. /\ (cn \o o) \in Seq(R) /\ Len(cn \o o) = Len(cn) + Len(o)
      /\ \A i \in 1..(Len(cn) + Len(o)) :
           (cn \o o)[i] = IF i <= Len(cn) THEN cn[i] ELSE o[i - Len(cn)]
  BY <1>2, <1>4 DEF cn
<1>6. HeadRows(h) = cn \o o
  BY DEF HeadRows, cn, c, n, o
<1>7. Len(c) \in Nat /\ Len(n) \in Nat /\ Len(o) \in Nat
  BY <1>2
<1>8. \A i \in 1..Len(cn \o o) :
         (cn \o o)[i].type = "CONDITION" => i = 1 /\ "CONDITION" \in h
  BY <1>3, <1>4, <1>5, <1>7 DEF cn
<1>9. "CONDITION" \in h => Len(cn \o o) >= 1 /\ (cn \o o)[1] = Row("CONDITION", 0, 0)
  BY <1>3, <1>4, <1>5, <1>7 DEF cn
<1> QED
  BY <1>5, <1>6, <1>8, <1>9 DEF R

-----------------------------------------------------------------------------
(* A call begins. *)
LEMMA CallKeepsInv ==
  ASSUME QueryInv, QueryCall
  PROVE  QueryInv'
<1>1. progress = "idle" /\ flat = <<>> /\ rows = <<>> /\ stack = <<>>
  BY SMT DEF QueryCall, QueryInv, IdleInv, QueryTypeOK
<1>0. PICK n \in 0..NRules :
        \E p \in Shapes(n), k \in [1..n -> Kinds], h \in Heads : CallWith(p, k, h)
  BY DEF QueryCall
<1>2. PICK p \in Shapes(n), k \in [1..n -> Kinds], h \in Heads : CallWith(p, k, h)
  BY <1>0
<1>3. /\ parent' = p /\ kind' = k /\ head' = h /\ tableGiven' \in BOOLEAN
      /\ p \in [1..n -> 0..n] /\ k \in [1..n -> Kinds] /\ h \in SUBSET HeadTypes
  BY <1>2, QueryAssumption DEF CallWith, FromJson, ToDataTable, Shapes
<1>4. Filter' = 1..n /\ n \in Nat /\ n <= NRules /\ parent' \in [1..n -> 0..NRules]
  BY <1>3, QueryAssumption DEF Filter
<1>5. flat' = <<>>
  BY <1>1, <1>2 DEF CallWith, FromJson, ToDataTable
<1>6. ASSUME stack' = <<Frame(0, 0)>>, progress' \in {"json", "table"}, rows' \in Seq(RowType)'
      PROVE  QueryTypeOK'
  <2>1. stack' \in Seq(FrameType)' /\ Len(stack') = 1 /\ stack'[1].level = 0
    BY <1>6 DEF Frame, FrameType
  <2> QED
    BY <1>3, <1>4, <1>5, <1>6, <2>1, QueryAssumption DEF QueryTypeOK, FrameType, RowType
<1>7. CASE progress' = "json"
  <2>1. stack' = <<Frame(0, 0)>> /\ rows' = <<>>
    BY <1>1, <1>2, <1>7 DEF CallWith, FromJson, ToDataTable
  <2>2. rows' \in Seq(RowType)'
    BY <2>1
  <2> QED
    BY <1>6, <1>7, <2>1, <2>2 DEF QueryInv, CallsInv, IdleInv, RowsTellTheirGroup
<1>8. CASE progress' = "raised"
  <2>1. stack' = <<>> /\ rows' = <<>>
    BY <1>1, <1>2, <1>8 DEF CallWith, FromJson, ToDataTable
  <2>2. QueryTypeOK'
    BY <1>3, <1>4, <1>5, <1>8, <2>1, QueryAssumption DEF QueryTypeOK
  <2> QED
    BY <1>8, <2>1, <2>2 DEF QueryInv, CallsInv, IdleInv, RowsTellTheirGroup
<1>9. CASE progress' = "table"
  <2>1. stack' = <<Frame(0, 0)>> /\ rows' = HeadRows(h)
    BY <1>2, <1>9 DEF CallWith, FromJson, ToDataTable
  <2>2. /\ rows' \in Seq(HeadRowType)
        /\ \A i \in 1..Len(rows') : rows'[i].type = "CONDITION" => i = 1 /\ "CONDITION" \in h
        /\ "CONDITION" \in h =>
             /\ Len(rows') >= 1
             /\ rows'[1].type = "CONDITION" /\ rows'[1].group = 1 /\ rows'[1].of = 0
    <3>1. /\ Row("CONDITION", 0, 0).type = "CONDITION" /\ Row("CONDITION", 0, 0).group = 1
          /\ Row("CONDITION", 0, 0).of = 0
      BY DEF Row
    <3> QED
      BY <1>3, <2>1, <3>1, HeadRowsAre
  <2>3. rows' \in Seq(RowType)'
    <3>1. HeadRowType \subseteq RowType'
      BY DEF RowType, HeadRowType
    <3> QED
      BY <2>2, <3>1, SeqMonotonic
  <2>4. Len(stack') = 1 /\ stack'[1].of = 0
    BY <2>1 DEF Frame
  <2>5. Tells(rows', h, Len(rows') + 1, 1, 0)
    <3>1. Len(rows') \in Nat
      BY <2>2
    <3>2. CASE "CONDITION" \in h
      <4>1. 1 \in 1..((Len(rows') + 1) - 1) /\ Opens(rows'[1], 1) /\ rows'[1].of = 0
        BY <2>2, <3>1, <3>2 DEF Opens
      <4>2. \A l \in (1 + 1)..((Len(rows') + 1) - 1) : ~Opens(rows'[l], 1)
        BY <2>2, <3>1 DEF Opens
      <4> QED
        BY <3>2, <4>1, <4>2 DEF Tells
    <3>3. CASE "CONDITION" \notin h
      BY <2>2, <3>1, <3>3 DEF Tells, Opens
    <3> QED
      BY <3>2, <3>3
  <2>6. CallsInv'
    BY <1>3, <2>4, <2>5 DEF CallsInv, Opened
  <2>7. RowsTellTheirGroup'
    <3>1. \A i \in 1..Len(rows') : rows'[i].of = 0
      <4>1. \A r \in HeadRowType : r.of = 0
        BY DEF HeadRowType
      <4>2. \A i \in 1..Len(rows') : rows'[i] \in HeadRowType
        BY <2>2
      <4> QED
        BY <4>1, <4>2
    <3> QED
      BY <3>1, Zenon DEF RowsTellTheirGroup
  <2> QED
    BY <1>6, <1>9, <2>1, <2>3, <2>6, <2>7 DEF QueryInv, IdleInv
<1> QED
  BY <1>2, <1>7, <1>8, <1>9 DEF CallWith, FromJson, ToDataTable

-----------------------------------------------------------------------------
(* What a visit and a return leave of the stack.                           *)
LEMMA VisitedIs ==
  ASSUME QueryTypeOK, Len(stack) > 0, NEW n \in Filter
  PROVE  /\ Visited(n) \in Seq(FrameType) /\ Len(Visited(n)) = Len(stack)
         /\ \A k \in 1..Len(stack) :
              Visited(n)[k].of = stack[k].of /\ Visited(n)[k].level = stack[k].level
<1>1. stack \in Seq(FrameType) /\ Len(stack) \in 1..Len(stack)
  BY DEF QueryTypeOK, FrameType
<1>2. \A k \in 1..Len(stack) : stack[k] \in FrameType
  BY <1>1
<1> DEFINE t == [stack[Len(stack)] EXCEPT !.at = n]
<1>3. t \in FrameType /\ t.of = stack[Len(stack)].of /\ t.level = stack[Len(stack)].level
  BY <1>1, <1>2 DEF FrameType
<1> HIDE DEF t
<1>4. Visited(n) = [stack EXCEPT ![Len(stack)] = t]
  BY DEF Visited, t
<1> QED
  BY <1>1, <1>2, <1>3, <1>4

LEMMA PushedIs ==
  ASSUME QueryTypeOK, Len(stack) > 0, NEW n \in Filter, NEW lvl \in Nat
  PROVE  LET pushed == Append(Visited(n), Frame(n, lvl))
         IN  /\ pushed \in Seq(FrameType) /\ Len(pushed) = Len(stack) + 1
             /\ \A k \in 1..Len(stack) :
                  pushed[k].of = stack[k].of /\ pushed[k].level = stack[k].level
             /\ pushed[Len(stack) + 1].of = n /\ pushed[Len(stack) + 1].level = lvl
<1>1. /\ Visited(n) \in Seq(FrameType) /\ Len(Visited(n)) = Len(stack)
      /\ \A k \in 1..Len(stack) :
           Visited(n)[k].of = stack[k].of /\ Visited(n)[k].level = stack[k].level
  BY VisitedIs
<1>2. Frame(n, lvl) \in FrameType /\ Frame(n, lvl).of = n /\ Frame(n, lvl).level = lvl
  BY DEF Frame, FrameType
<1> DEFINE f == Frame(n, lvl)
           v == Visited(n)
<1>3. Len(stack) \in Nat
  BY DEF QueryTypeOK
<1> HIDE DEF f, v
<1>4. /\ Append(v, f) \in Seq(FrameType) /\ Len(Append(v, f)) = Len(stack) + 1
      /\ \A k \in 1..Len(stack) : Append(v, f)[k] = v[k]
      /\ Append(v, f)[Len(stack) + 1] = f
  BY <1>1, <1>2, <1>3 DEF v, f
<1> QED
  BY <1>1, <1>2, <1>4 DEF v, f

LEMMA ReturnedIs ==
  ASSUME QueryTypeOK, Len(stack) > 0
  PROVE  /\ Returned \in Seq(FrameType) /\ Len(Returned) = Len(stack) - 1
         /\ \A k \in 1..(Len(stack) - 1) : Returned[k] = stack[k]
<1>1. stack \in Seq(FrameType) /\ Len(stack) \in Nat
  BY DEF QueryTypeOK, FrameType
<1>2. \A i \in 1..(Len(stack) - 1) : stack[i] \in FrameType
  BY <1>1
<1> DEFINE m == Len(stack) - 1
<1>3. /\ SubSeq(stack, 1, m) \in Seq(FrameType)
      /\ Len(SubSeq(stack, 1, m)) = IF 1 <= m THEN m - 1 + 1 ELSE 0
      /\ \A i \in 1..(m - 1 + 1) : SubSeq(stack, 1, m)[i] = stack[1 + i - 1]
  <2>1. 1 \in Int /\ m \in Int
    BY <1>1
  <2> QED
    BY <1>2, <2>1, SubSeqProperties
<1>6. m \in Nat
  BY <1>1
<1> HIDE DEF m
<1>4. Len(SubSeq(stack, 1, m)) = m
  BY <1>3, <1>6
<1>5. \A i \in 1..m : SubSeq(stack, 1, m)[i] = stack[i]
  BY <1>3, <1>6
<1> QED
  BY <1>1, <1>3, <1>4, <1>5 DEF Returned, m

(* What the rows tell, of rows and head alone.                             *)
LEMMA RowsTellIs ==
  RowsTellTheirGroup <=>
    \A i \in 1..Len(rows) :
      rows[i].of # 0 => Tells(rows, head, i, NumberOf(rows[i]), parent[rows[i].of])
BY DEF RowsTellTheirGroup, Tells, Opens, NumberOf, LastGroup, NoGroup, GroupNamed

(* A step that writes nothing and does not push onto the table's stack.    *)
LEMMA WalkKeepsInv ==
  ASSUME QueryInv, UNCHANGED <<filter, rows>>,
         progress' \in {"idle", "json", "flat", "table", "done", "raised"}, progress' # "idle",
         progress' = "table" => progress = "table",
         progress' \in {"json", "table"} <=> Len(stack') > 0,
         stack' \in Seq(FrameType), flat' \in Seq(Filter),
         progress' = "table" =>
           /\ Len(stack') <= Len(stack)
           /\ \A k \in 1..Len(stack') :
                stack'[k].of = stack[k].of /\ stack'[k].level = stack[k].level
  PROVE  QueryInv'
<1>1. Len(stack) \in Nat /\ Len(stack') \in Nat
  BY DEF QueryInv, QueryTypeOK
<1>2. QueryTypeOK'
  <2>1. Filter' = Filter
    BY DEF Filter, filter
  <2>2. progress' = "table" => \A k \in 1..Len(stack') : stack'[k].level = k - 1
    BY <1>1 DEF QueryInv, QueryTypeOK
  <2> QED
    BY <2>1, <2>2 DEF QueryInv, QueryTypeOK, FrameType, filter
<1>3. CallsInv'
  <2> SUFFICES ASSUME progress' = "table"
               PROVE  /\ \A k \in 1..Len(stack') : stack'[k].of = 0 <=> k = 1
                      /\ Opened(rows, head, stack')
    BY DEF CallsInv, filter
  <2>1. /\ \A k \in 1..Len(stack) : stack[k].of = 0 <=> k = 1
        /\ Opened(rows, head, stack)
    BY DEF QueryInv, CallsInv
  <2>2. 1..Len(stack') \subseteq 1..Len(stack)
    BY <1>1
  <2> QED
    BY <2>1, <2>2 DEF Opened
<1>4. RowsTellTheirGroup'
  BY DEF QueryInv, RowsTellTheirGroup, LastGroup, NoGroup, GroupNamed, filter
<1> QED
  BY <1>2, <1>3, <1>4 DEF QueryInv, IdleInv

(* What is told of a place depends on the rows before it, and a row that   *)
(* opens another number's group takes nothing away.                        *)
LEMMA EarlierRows ==
  ASSUME NEW rs, NEW qs, NEW i \in Nat, \A j \in 1..(i - 1) : qs[j] = rs[j]
  PROVE  \A h, g, p : Tells(qs, h, i, g, p) <=> Tells(rs, h, i, g, p)
<1>1. \A j \in 1..(i - 1) : \A l \in (j + 1)..(i - 1) : l \in 1..(i - 1)
  OBVIOUS
<1> QED
  BY <1>1 DEF Tells

LEMMA OtherGroupOpened ==
  ASSUME NEW rs, NEW h, NEW i \in Nat, NEW g, NEW p,
         Tells(rs, h, i + 1, g, p), ~Opens(rs[i + 1], g)
  PROVE  Tells(rs, h, i + 2, g, p)
<1>1. 1..((i + 1) - 1) = 1..i /\ 1..((i + 2) - 1) = (1..i) \union {i + 1}
  OBVIOUS
<1>2. \A j \in 1..i : (j + 1)..((i + 2) - 1) = ((j + 1)..((i + 1) - 1)) \union {i + 1}
  OBVIOUS
<1>3. CASE p = 0 /\ "CONDITION" \notin h
  BY <1>1, <1>3 DEF Tells
<1>4. CASE ~(p = 0 /\ "CONDITION" \notin h)
  <2>1. PICK j \in 1..i :
          /\ Opens(rs[j], g) /\ rs[j].of = p
          /\ \A l \in (j + 1)..((i + 1) - 1) : ~Opens(rs[l], g)
    BY <1>1, <1>4 DEF Tells
  <2>2. \A l \in (j + 1)..((i + 2) - 1) : ~Opens(rs[l], g)
    BY <1>2, <2>1
  <2>3. j \in 1..((i + 2) - 1)
    BY <1>1
  <2> QED
    BY <1>4, <2>1, <2>2, <2>3 DEF Tells
<1> QED
  BY <1>3, <1>4

(* A row of a rule is written; it names the number of the running call.    *)
LEMMA WriteKeepsRows ==
  ASSUME QueryInv, progress = "table", UNCHANGED filter,
         NEW n \in Filter, parent[n] = Top.of,
         NEW r \in RowType, rows' = Append(rows, r), r.of = n, NumberOf(r) = Len(stack)
  PROVE  /\ RowsTellTheirGroup'
         /\ rows' \in Seq(RowType) /\ Len(rows) \in Nat /\ Len(rows') = Len(rows) + 1
         /\ rows'[Len(rows) + 1] = r
         /\ \A k \in 1..Len(stack) : Tells(rows', head, Len(rows) + 1, k, stack[k].of)
<1>1. /\ rows' \in Seq(RowType) /\ Len(rows') = Len(rows) + 1
      /\ rows'[Len(rows) + 1] = r /\ Len(rows) \in Nat
      /\ \A i \in 1..Len(rows) : rows'[i] = rows[i]
  BY DEF QueryInv, QueryTypeOK, RowType
<1>2. Len(stack) \in Nat /\ Len(stack) > 0
  BY DEF QueryInv, QueryTypeOK
<1>3. \A i \in 1..(Len(rows) + 1) :
        \A g, p : Tells(rows', head, i, g, p) <=> Tells(rows, head, i, g, p)
  <2> SUFFICES ASSUME NEW i \in 1..(Len(rows) + 1)
               PROVE  \A g, p : Tells(rows', head, i, g, p) <=> Tells(rows, head, i, g, p)
    OBVIOUS
  <2>1. i \in Nat /\ \A j \in 1..(i - 1) : rows'[j] = rows[j]
    BY <1>1
  <2> QED
    BY <2>1, EarlierRows
<1>4. \A k \in 1..Len(stack) : Tells(rows', head, Len(rows) + 1, k, stack[k].of)
  BY <1>1, <1>3 DEF QueryInv, CallsInv, Opened
<1>5. \A i \in 1..Len(rows') :
        rows'[i].of # 0 => Tells(rows', head, i, NumberOf(rows'[i]), parent[rows'[i].of])
  <2> SUFFICES ASSUME NEW i \in 1..Len(rows'), rows'[i].of # 0
               PROVE  Tells(rows', head, i, NumberOf(rows'[i]), parent[rows'[i].of])
    OBVIOUS
  <2>1. CASE i \in 1..Len(rows)
    <3>1. rows'[i] = rows[i] /\ i \in 1..(Len(rows) + 1)
      BY <1>1, <2>1
    <3>2. Tells(rows, head, i, NumberOf(rows[i]), parent[rows[i].of])
      BY <2>1, <3>1, RowsTellIs DEF QueryInv
    <3> QED
      BY <1>3, <3>1, <3>2
  <2>2. CASE i = Len(rows) + 1
    <3>1. stack[Len(stack)].of = parent[n] /\ Len(stack) \in 1..Len(stack)
      BY <1>2 DEF Top
    <3> QED
      BY <1>1, <1>4, <2>2, <3>1
  <2> QED
    BY <1>1, <2>1, <2>2
<1>6. RowsTellTheirGroup'
  <2>1. head' = head /\ parent' = parent
    BY DEF filter
  <2>2. \A i \in 1..Len(rows') :
          rows'[i].of # 0 => Tells(rows', head', i, NumberOf(rows'[i]), parent'[rows'[i].of])
    BY <1>5, <2>1
  <2> QED
    BY <2>2 DEF RowsTellTheirGroup, Tells, Opens, NumberOf, LastGroup, NoGroup, GroupNamed
<1> QED
  BY <1>1, <1>4, <1>6

LEMMA WriteRuleKeepsInv ==
  ASSUME QueryInv, NEW n \in Filter, WriteRule(n)
  PROVE  QueryInv'
<1> DEFINE r == Row("RULE", Top.level, n)
<1>1. /\ progress = "table" /\ progress' = "table" /\ UNCHANGED <<filter, flat>>
      /\ parent[n] = Top.of /\ rows' = Append(rows, r) /\ stack' = Visited(n)
  BY DEF WriteRule, IsNext
<1>2. Len(stack) \in Nat /\ Len(stack) > 0 /\ Top.level = Len(stack) - 1
  BY <1>1 DEF QueryInv, QueryTypeOK, Top
<1>3. r \in RowType /\ r.of = n /\ NumberOf(r) = Len(stack) /\ r.type = "RULE"
  BY <1>2 DEF Row, RowType, RowTypes, NumberOf
<1> HIDE DEF r
<1>4. /\ RowsTellTheirGroup'
      /\ rows' \in Seq(RowType) /\ Len(rows) \in Nat /\ Len(rows') = Len(rows) + 1
      /\ rows'[Len(rows) + 1] = r
      /\ \A k \in 1..Len(stack) : Tells(rows', head, Len(rows) + 1, k, stack[k].of)
  BY <1>1, <1>3, WriteKeepsRows
<1>5. /\ stack' \in Seq(FrameType) /\ Len(stack') = Len(stack)
      /\ \A k \in 1..Len(stack) :
           stack'[k].of = stack[k].of /\ stack'[k].level = stack[k].level
  BY <1>1, <1>2, VisitedIs DEF QueryInv
<1>6. QueryTypeOK'
  <2>1. Filter' = Filter /\ \A k \in 1..Len(stack') : stack'[k].level = k - 1
    BY <1>1, <1>5 DEF QueryInv, QueryTypeOK, Filter, filter
  <2> QED
    BY <1>1, <1>2, <1>4, <1>5, <2>1
    DEF QueryInv, QueryTypeOK, FrameType, RowType, filter
<1>7. Opened(rows', head, stack')
  <2>1. \A k \in 1..Len(stack) : Tells(rows', head, Len(rows) + 2, k, stack[k].of)
    BY <1>3, <1>4, OtherGroupOpened DEF Opens
  <2> QED
    BY <1>4, <1>5, <2>1 DEF Opened
<1>8. CallsInv'
  BY <1>1, <1>5, <1>7 DEF QueryInv, CallsInv, filter
<1> QED
  BY <1>1, <1>4, <1>6, <1>8 DEF QueryInv, IdleInv

LEMMA WriteGroupKeepsInv ==
  ASSUME QueryInv, NEW n \in Filter, WriteGroup(n)
  PROVE  QueryInv'
<1> DEFINE r == Row("CONDITION", Top.level + 1, n)
           d == Len(stack)
<1>1. /\ progress = "table" /\ progress' = "table" /\ UNCHANGED <<filter, flat>>
      /\ parent[n] = Top.of /\ rows' = Append(rows, r)
      /\ stack' = Append(Visited(n), Frame(n, Top.level + 1))
  BY DEF WriteGroup, IsNext
<1>2. d \in Nat /\ d > 0 /\ Top.level = d - 1 /\ Top.level + 1 = d
  BY <1>1 DEF QueryInv, QueryTypeOK, Top
<1>3. r \in RowType /\ r.of = n /\ NumberOf(r) = d /\ r.type = "CONDITION" /\ r.group = d + 1
  BY <1>2 DEF Row, RowType, RowTypes, NumberOf
<1> HIDE DEF r
<1>4. /\ RowsTellTheirGroup'
      /\ rows' \in Seq(RowType) /\ Len(rows) \in Nat /\ Len(rows') = Len(rows) + 1
      /\ rows'[Len(rows) + 1] = r
      /\ \A k \in 1..d : Tells(rows', head, Len(rows) + 1, k, stack[k].of)
  BY <1>1, <1>3, WriteKeepsRows
<1>5. /\ stack' \in Seq(FrameType) /\ Len(stack') = d + 1
      /\ \A k \in 1..d : stack'[k].of = stack[k].of /\ stack'[k].level = stack[k].level
      /\ stack'[d + 1].of = n /\ stack'[d + 1].level = d
  <2>1. QueryTypeOK /\ Len(stack) > 0 /\ d \in Nat
    BY <1>2 DEF QueryInv
  <2>2. stack' = Append(Visited(n), Frame(n, d))
    BY <1>1, <1>2
  <2> QED
    BY <2>1, <2>2, PushedIs
<1>6. \A k \in 1..(d + 1) : k \in 1..d \/ k = d + 1
  BY <1>2
<1>7. QueryTypeOK'
  <2>1. Filter' = Filter
    BY <1>1 DEF Filter, filter
  <2>2. \A k \in 1..d : stack[k].level = k - 1
    BY <1>1 DEF QueryInv, QueryTypeOK
  <2>3. \A k \in 1..Len(stack') : stack'[k].level = k - 1
    BY <1>2, <1>5, <1>6, <2>2
  <2>4. Len(stack') > 0
    BY <1>2, <1>5
  <2> QED
    BY <1>1, <1>4, <1>5, <2>1, <2>3, <2>4
    DEF QueryInv, QueryTypeOK, FrameType, RowType, filter
<1>8. Opened(rows', head, stack')
  <2>1. \A k \in 1..d : Tells(rows', head, Len(rows) + 2, k, stack[k].of)
    <3> TAKE k \in 1..d
    <3>1. ~Opens(rows'[Len(rows) + 1], k)
      BY <1>2, <1>3, <1>4 DEF Opens
    <3> QED
      BY <1>4, <3>1, OtherGroupOpened
  <2>2. Tells(rows', head, Len(rows) + 2, d + 1, n)
    <3>1. n # 0
      BY DEF QueryInv, QueryTypeOK
    <3>2. Len(rows) + 1 \in 1..((Len(rows) + 2) - 1)
      BY <1>4
    <3>3. Opens(rows'[Len(rows) + 1], d + 1) /\ rows'[Len(rows) + 1].of = n
      BY <1>3, <1>4 DEF Opens
    <3>4. \A l \in ((Len(rows) + 1) + 1)..((Len(rows) + 2) - 1) : ~Opens(rows'[l], d + 1)
      BY <1>4
    <3> QED
      BY <3>1, <3>2, <3>3, <3>4 DEF Tells
  <2>3. Len(rows') + 1 = Len(rows) + 2
    BY <1>4
  <2> QED
    BY <1>5, <1>6, <2>1, <2>2, <2>3 DEF Opened
<1>9. CallsInv'
  <2>1. \A k \in 1..d : stack[k].of = 0 <=> k = 1
    BY <1>1 DEF QueryInv, CallsInv
  <2>2. n # 0
    BY DEF QueryInv, QueryTypeOK
  <2>3. \A k \in 1..Len(stack') : stack'[k].of = 0 <=> k = 1
    BY <1>2, <1>5, <1>6, <2>1, <2>2
  <2> QED
    BY <1>1, <1>8, <2>3 DEF CallsInv, filter
<1> QED
  BY <1>1, <1>4, <1>7, <1>9 DEF QueryInv, IdleInv

-----------------------------------------------------------------------------
LEMMA QueryNextInv == QueryInv /\ [QueryNext]_queryVars => QueryInv'
<1> SUFFICES ASSUME QueryInv, [QueryNext]_queryVars PROVE QueryInv'
  OBVIOUS
<1>1. CASE UNCHANGED queryVars
  <2>1. UNCHANGED <<parent, kind, head, tableGiven, progress, stack, flat, rows>>
    BY <1>1 DEF queryVars, filter
  <2>2. Filter' = Filter
    BY <2>1 DEF Filter
  <2>3. QueryTypeOK'
    BY <2>1, <2>2 DEF QueryInv, QueryTypeOK
  <2>4. CallsInv' /\ IdleInv'
    BY <2>1 DEF QueryInv, CallsInv, IdleInv, Opened, Tells
  <2>5. RowsTellTheirGroup'
    BY <2>1 DEF QueryInv, RowsTellTheirGroup, LastGroup, NoGroup, GroupNamed
  <2> QED
    BY <2>3, <2>4, <2>5 DEF QueryInv
<1>2. CASE QueryCall
  BY <1>2, CallKeepsInv
<1>3. Len(stack) \in Nat /\ stack \in Seq(FrameType) /\ flat \in Seq(Filter)
      /\ (progress \in {"json", "table"} <=> Len(stack) > 0)
  BY DEF QueryInv, QueryTypeOK, FrameType
<1>4. ASSUME NEW n \in Filter, GetQueryRule(n) PROVE QueryInv'
  <2>1. /\ progress = "json" /\ progress' = "json" /\ UNCHANGED <<filter, rows>>
        /\ flat' \in {flat, Append(flat, n)}
        /\ stack' \in {Visited(n), Append(Visited(n), Frame(n, 0))}
    BY <1>4 DEF GetQueryRule
  <2>2. flat' \in Seq(Filter)
    BY <1>3, <2>1
  <2>3. stack' \in Seq(FrameType) /\ Len(stack') > 0
    <3>1. QueryTypeOK /\ Len(stack) > 0 /\ 0 \in Nat
      BY <1>3, <2>1 DEF QueryInv
    <3>2. Visited(n) \in Seq(FrameType) /\ Len(Visited(n)) = Len(stack)
      BY <3>1, VisitedIs
    <3>3. /\ Append(Visited(n), Frame(n, 0)) \in Seq(FrameType)
          /\ Len(Append(Visited(n), Frame(n, 0))) = Len(stack) + 1
      BY <3>1, PushedIs
    <3>4. Len(stack) \in Nat /\ Len(stack) + 1 > 0
      BY <1>3
    <3>5. CASE stack' = Visited(n)
      BY <3>1, <3>2, <3>5
    <3>6. CASE stack' = Append(Visited(n), Frame(n, 0))
      BY <3>3, <3>4, <3>6
    <3> QED
      BY <2>1, <3>5, <3>6
  <2> QED
    BY <2>1, <2>2, <2>3, WalkKeepsInv
<1>5. ASSUME NEW n \in Filter, NullRuleThrows(n) \/ NoTableThrows(n) PROVE QueryInv'
  <2>1. /\ progress' = "raised" /\ stack' = <<>> /\ UNCHANGED <<filter, flat, rows>>
    BY <1>5 DEF NullRuleThrows, NoTableThrows, Throw
  <2>2. stack' \in Seq(FrameType) /\ Len(stack') = 0
    BY <2>1
  <2> QED
    BY <1>3, <2>1, <2>2, WalkKeepsInv
<1>6. CASE GetQueryRulesReturns \/ TableReturns
  <2>1. /\ progress \in {"json", "table"} /\ stack' = Returned /\ UNCHANGED <<filter, flat, rows>>
        /\ progress' = IF Len(stack) = 1 THEN (IF progress = "json" THEN "flat" ELSE "done")
                                         ELSE progress
    BY <1>6 DEF GetQueryRulesReturns, TableReturns
  <2>2. /\ stack' \in Seq(FrameType) /\ Len(stack') = Len(stack) - 1
        /\ \A k \in 1..(Len(stack) - 1) : stack'[k] = stack[k]
    BY <1>3, <2>1, ReturnedIs DEF QueryInv
  <2> QED
    BY <1>3, <2>1, <2>2, WalkKeepsInv
<1>7. ASSUME NEW n \in Filter, SkipNull(n) PROVE QueryInv'
  <2>1. /\ progress = "table" /\ progress' = "table" /\ stack' = Visited(n)
        /\ UNCHANGED <<filter, flat, rows>>
    BY <1>7 DEF SkipNull
  <2>2. /\ stack' \in Seq(FrameType) /\ Len(stack') = Len(stack)
        /\ \A k \in 1..Len(stack) :
             stack'[k].of = stack[k].of /\ stack'[k].level = stack[k].level
    BY <1>3, <2>1, VisitedIs DEF QueryInv
  <2> QED
    BY <1>3, <2>1, <2>2, WalkKeepsInv
<1>8. ASSUME NEW n \in Filter, WriteRule(n) PROVE QueryInv'
  BY <1>8, WriteRuleKeepsInv
<1>9. ASSUME NEW n \in Filter, WriteGroup(n) PROVE QueryInv'
  BY <1>9, WriteGroupKeepsInv
<1>10. CASE Forget
  <2>1. QueryInit'
    BY <1>10 DEF Forget, QueryInit
  <2> QED
    BY <2>1, QueryInitInv, PTL
<1> QED
  BY <1>1, <1>2, <1>4, <1>5, <1>6, <1>7, <1>8, <1>9, <1>10 DEF QueryNext, QueryStep

-----------------------------------------------------------------------------
(* Type correctness, and that the table's calls are as deep as their level *)
(* says.                                                                   *)
THEOREM QueryTypeCorrect == QuerySpec => []QueryTypeOK
<1>1. QueryInv => QueryTypeOK
  BY DEF QueryInv
<1> QED
  BY <1>1, QueryInitInv, QueryNextInv, PTL DEF QuerySpec

(* The rows tell the group of every rule and every nested group, although  *)
(* the groups of one depth share a number.                                 *)
THEOREM GroupsCanBeTold == QuerySpec => []RowsTellTheirGroup
<1>1. QueryInv => RowsTellTheirGroup
  BY DEF QueryInv
<1> QED
  BY <1>1, QueryInitInv, QueryNextInv, PTL DEF QuerySpec
=============================================================================
