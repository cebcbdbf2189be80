---------------------------- MODULE QueryFilter ----------------------------
(***************************************************************************)
(* Filters: QueryBuilder.FromJson, which makes a flat list of a filter's   *)
(* nested rules, and DataHelper.QueryBuilderToDataTable, which writes them *)
(* as the rows of a table.  Both walk the rules by recursion; a frame of   *)
(* the stack is one running call.                                          *)
(*                                                                         *)
(* The rules of a filter are numbered in the order of the document:        *)
(* parent[n] is the rule whose list holds rule n, 0 for the filter's own   *)
(* list.  What a rule says (operator, values) is left out, except which of *)
(* Field and Condition it has.                                             *)
(***************************************************************************)
EXTENDS Naturals, Sequences

CONSTANTS
  NRules,  \* bound: rules of one filter
  Heads    \* what the filters at hand have set, see HeadRows

HeadTypes == {"CONDITION", "NOT", "OPTIONS"}

ASSUME QueryAssumption ==
  /\ NRules \in Nat
  /\ Heads \subseteq SUBSET HeadTypes

(* What is set of a rule: it may be null altogether.                       *)
Kinds == {"null", "nothing", "field", "condition", "both"}

VARIABLES
  parent, kind, head,  \* the filter the call was given
  tableGiven,          \* whether the DataTable was not null
  progress,            \* "idle", "json", "flat" (FromJson returned),
                       \* "table", "done" (the table is returned), "raised"
  stack,               \* the running calls: of, whose list this one goes
                       \* through; at, where it is; level, its parameter, 0
                       \* standing for null
  flat,                \* what FromJson has collected
  rows                 \* the rows written; of says which rule wrote one

filter == <<parent, kind, head, tableGiven>>
queryVars == <<filter, progress, stack, flat, rows>>

Filter == DOMAIN kind
HasField == {n \in Filter : kind[n] \in {"field", "both"}}
HasCondition == {n \in Filter : kind[n] \in {"condition", "both"}}

(* The filters of n rules: numbered so that a rule comes before those in   *)
(* its list, and they before whatever follows it.                          *)
Shapes(n) ==
  {p \in [1..n -> 0..n] :
     \A k \in 1..n : p[k] < k /\ \A j \in (p[k] + 1)..(k - 1) : p[j] >= p[k]}

NullsAreLeaves(p, k) == \A n \in DOMAIN p : p[n] # 0 => k[p[n]] # "null"

Frame(n, lvl) == [of |-> n, at |-> n, level |-> lvl]
Top == stack[Len(stack)]

QueryInit ==
  /\ parent = <<>> /\ kind = <<>> /\ head = {} /\ tableGiven = FALSE
  /\ progress = "idle" /\ stack = <<>> /\ flat = <<>> /\ rows = <<>>

-----------------------------------------------------------------------------
(* The next rule of the list the running call goes through, if there is    *)
(* one; the stack when it has been visited; and that of the return.        *)
IsNext(n) ==
  /\ n \in Filter /\ parent[n] = Top.of /\ n > Top.at
  /\ \A m \in Filter : parent[m] = Top.of /\ m > Top.at => n <= m

NoneLeft == \A n \in Filter : ~IsNext(n)

Visited(n) == [stack EXCEPT ![Len(stack)].at = n]
Returned == SubSeq(stack, 1, Len(stack) - 1)

Throw ==
  /\ progress' = "raised" /\ stack' = <<>>
  /\ UNCHANGED <<filter, flat, rows>>

-----------------------------------------------------------------------------
(* FromJson, and GetQueryRules for the list of one rule.                   *)
FromJson(p, k, h) ==
  /\ parent' = p /\ kind' = k /\ head' = h /\ tableGiven' = FALSE
  /\ progress' = "json" /\ stack' = <<Frame(0, 0)>>
  /\ UNCHANGED <<flat, rows>>

(* A plausible bug: a rule with a field is not looked into.               *)
Fault_FieldOrRules(n) ==
  /\ progress = "json" /\ IsNext(n) /\ kind[n] # "null"
  /\ flat' = IF n \in HasField THEN Append(flat, n) ELSE flat
  /\ stack' = IF n \notin HasField /\ \E m \in Filter : parent[m] = n
              THEN Append(Visited(n), Frame(n, 0))
              ELSE Visited(n)
  /\ UNCHANGED <<filter, progress, rows>>

(* Its field is collected before what its own list holds.                  *)
GetQueryRule(n) ==
  /\ progress = "json" /\ IsNext(n) /\ kind[n] # "null"
  /\ flat' = IF n \in HasField THEN Append(flat, n) ELSE flat
  /\ stack' = IF \E m \in Filter : parent[m] = n THEN Append(Visited(n), Frame(n, 0))
                                                 ELSE Visited(n)
  /\ UNCHANGED <<filter, progress, rows>>

(* A null in the list is asked for its field.                              *)
NullRuleThrows(n) ==
  /\ progress = "json" /\ IsNext(n) /\ kind[n] = "null"
  /\ Throw

GetQueryRulesReturns ==
  /\ progress = "json" /\ NoneLeft
  /\ stack' = Returned
  /\ progress' = IF Len(stack) = 1 THEN "flat" ELSE "json"
  /\ UNCHANGED <<filter, flat, rows>>

-----------------------------------------------------------------------------
(* QueryBuilderToDataTable.  The rows of a call are marked with its level, *)
(* as ParentGroup, and the next one, as Group.                             *)
Row(type, lvl, n) == [type |-> type, group |-> lvl + 1, parentGroup |-> lvl, of |-> n]

(* The rows of the filter itself; OPTIONS stands for those of Count,       *)
(* OrderBy, Offset and PageSize.                                           *)
HeadRows(h) ==
  (IF "CONDITION" \in h THEN <<Row("CONDITION", 0, 0)>> ELSE <<>>)
    \o (IF "NOT" \in h THEN <<Row("NOT", 0, 0)>> ELSE <<>>)
    \o (IF "OPTIONS" \in h THEN <<Row("OPTIONS", 0, 0)>> ELSE <<>>)

(* Without a table the first row to be written throws.                     *)
ToDataTable(p, k, h, given) ==
  /\ parent' = p /\ kind' = k /\ head' = h /\ tableGiven' = given
  /\ IF given \/ h = {}
     THEN progress' = "table" /\ rows' = HeadRows(h) /\ stack' = <<Frame(0, 0)>>
     ELSE progress' = "raised" /\ UNCHANGED <<rows, stack>>
  /\ flat' = flat

(* A plausible bug: a null rule ends the loop.                             *)
Fault_NullBreaks(n) ==
  /\ progress = "table" /\ IsNext(n) /\ kind[n] = "null"
  /\ stack' = Returned
  /\ progress' = IF Len(stack) = 1 THEN "done" ELSE "table"
  /\ UNCHANGED <<filter, flat, rows>>

SkipNull(n) ==
  /\ progress = "table" /\ IsNext(n) /\ kind[n] = "null"
  /\ stack' = Visited(n)
  /\ UNCHANGED <<filter, progress, flat, rows>>

WriteRule(n) ==
  /\ progress = "table" /\ IsNext(n) /\ kind[n] \in {"nothing", "field"}
  /\ tableGiven
  /\ rows' = Append(rows, Row("RULE", Top.level, n))
  /\ stack' = Visited(n)
  /\ UNCHANGED <<filter, progress, flat>>

(* A plausible bug: the call for the nested group passes its own level on. *)
Fault_SameLevel(n) ==
  /\ progress = "table" /\ IsNext(n) /\ n \in HasCondition
  /\ tableGiven
  /\ rows' = Append(rows, Row("CONDITION", Top.level, n))
  /\ stack' = Append(Visited(n), Frame(n, Top.level))
  /\ UNCHANGED <<filter, progress, flat>>

(* A rule with a condition is a group, whatever its field says: the call   *)
(* for it writes the condition and goes through its list.                  *)
WriteGroup(n) ==
  /\ progress = "table" /\ IsNext(n) /\ n \in HasCondition
  /\ tableGiven
  /\ rows' = Append(rows, Row("CONDITION", Top.level + 1, n))
  /\ stack' = Append(Visited(n), Frame(n, Top.level + 1))
  /\ UNCHANGED <<filter, progress, flat>>

NoTableThrows(n) ==
  /\ progress = "table" /\ IsNext(n) /\ kind[n] # "null"
  /\ ~tableGiven
  /\ Throw

TableReturns ==
  /\ progress = "table" /\ NoneLeft
  /\ stack' = Returned
  /\ progress' = IF Len(stack) = 1 THEN "done" ELSE "table"
  /\ UNCHANGED <<filter, flat, rows>>

(* The caller has the result and may call again.                           *)
Forget ==
  /\ progress \in {"flat", "done", "raised"}
  /\ parent' = <<>> /\ kind' = <<>> /\ head' = {} /\ tableGiven' = FALSE
  /\ progress' = "idle" /\ stack' = <<>> /\ flat' = <<>> /\ rows' = <<>>

-----------------------------------------------------------------------------
CallWith(p, k, h) == FromJson(p, k, h) \/ \E given \in BOOLEAN : ToDataTable(p, k, h, given)

QueryCall ==
  /\ progress = "idle"
  /\ \E n \in 0..NRules : \E p \in Shapes(n), k \in [1..n -> Kinds], h \in Heads :
       NullsAreLeaves(p, k) /\ CallWith(p, k, h)

QueryStep(n) == \/ GetQueryRule(n) \/ NullRuleThrows(n)
                \/ SkipNull(n) \/ WriteRule(n) \/ WriteGroup(n) \/ NoTableThrows(n)

QueryNext ==
  \/ QueryCall
  \/ \E n \in Filter : QueryStep(n)
  \/ GetQueryRulesReturns \/ TableReturns \/ Forget

QuerySpec == QueryInit /\ [][QueryNext]_queryVars

-----------------------------------------------------------------------------
(***************************************************************************)
(* Properties.                                                             *)
(***************************************************************************)
RowTypes == {"RULE", "CONDITION", "NOT", "OPTIONS"}

(* Type invariant.  The table's calls are as deep as their level says.     *)
QueryTypeOK ==
  /\ Filter \subseteq 1..NRules
  /\ parent \in [Filter -> 0..NRules]
  /\ kind \in [Filter -> Kinds]
  /\ head \subseteq HeadTypes
  /\ tableGiven \in BOOLEAN
  /\ progress \in {"idle", "json", "flat", "table", "done", "raised"}
  /\ stack \in Seq([of : {0} \union Filter, at : {0} \union Filter, level : Nat])
  /\ progress \in {"json", "table"} <=> Len(stack) > 0
  /\ progress = "table" => \A i \in 1..Len(stack) : stack[i].level = i - 1
  /\ flat \in Seq(Filter)
  /\ rows \in Seq([type : RowTypes, group : Nat, parentGroup : Nat, of : {0} \union Filter])

(* Groups are numbered by their depth, so that the groups of one depth     *)
(* share a number.  All the same the rows tell which group a rule or a     *)
(* nested group is in: the group that was written last under the number    *)
(* the row names, however many groups came in between; and none if the     *)
(* filter's own list has no condition.                                     *)
LastGroup(i, g, p) ==
  \E j \in 1..(i - 1) :
    /\ rows[j].type = "CONDITION" /\ rows[j].group = g /\ rows[j].of = p
    /\ \A l \in (j + 1)..(i - 1) : ~(rows[l].type = "CONDITION" /\ rows[l].group = g)

NoGroup(i, g) == \A j \in 1..(i - 1) : ~(rows[j].type = "CONDITION" /\ rows[j].group = g)

GroupNamed(i) == IF rows[i].type = "RULE" THEN rows[i].group ELSE rows[i].parentGroup

RowsTellTheirGroup ==
  \A i \in 1..Len(rows) :
    rows[i].of # 0 =>
      LET p == parent[rows[i].of]
      IN  IF p = 0 /\ "CONDITION" \notin head THEN NoGroup(i, GroupNamed(i))
                                              ELSE LastGroup(i, GroupNamed(i), p)

(* Rules are skipped only for a reason: they are null, or in the list of a *)
(* rule without a condition.  All others have their row, once and in the   *)
(* order of the document, whatever nulls, empty lists and nested groups    *)
(* surround them.                                                          *)
Within(a, n) == a < n /\ \A j \in (a + 1)..n : parent[j] >= a

Written ==
  {n \in Filter : kind[n] # "null" /\ \A a \in Filter : Within(a, n) => a \in HasCondition}

InDocumentOrder(s, set) ==
  /\ {s[i] : i \in 1..Len(s)} = set
  /\ \A i, j \in 1..Len(s) : i < j => s[i] < s[j]

TableIsComplete ==
  progress = "done" =>
    LET first == Len(HeadRows(head))
        rest  == SubSeq(rows, first + 1, Len(rows))
    IN  /\ SubSeq(rows, 1, first) = HeadRows(head)
        /\ InDocumentOrder([i \in 1..Len(rest) |-> rest[i].of], Written)

(* FromJson loses the groups but none of the conditions in them: it        *)
(* returns every rule with a field, at any depth, once and in order.       *)
FlatInDocumentOrder == progress = "flat" => InDocumentOrder(flat, HasField)
=============================================================================
