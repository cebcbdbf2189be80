----------------------------- MODULE UnitOfWork -----------------------------
(***************************************************************************)
(* What DataConnection promises its caller about the caller's writes,      *)
(* whatever happens to connections and to the server.  A write that is     *)
(* acknowledged while a unit of work is open is held until the unit is     *)
(* closed, and then all that was held becomes durable in one step, or      *)
(* nothing.  A unit is kept or undone by a call that says so, and such a   *)
(* call never returns normally for a unit that was lost before.  Until the *)
(* caller has been told of that, by a call that throws or by closing the   *)
(* connection, IsTransactionActive stays true.                             *)
(***************************************************************************)
CONSTANT Writes

VARIABLES
  durable,  \* the writes that last
  held,     \* those acknowledged in the open unit
  doubted,  \* a statement has thrown since the unit was opened
  stage,    \* "none", "open", or "lost": the unit is over, and still
            \*   IsTransactionActive
  last      \* the last call, whether it returned normally, and
            \*   IsTransactionActive before it

vars == <<durable, held, doubted, stage, last>>

Call(name, ok) == last' = [call |-> name, ok |-> ok, active |-> stage # "none"]

Init ==
  /\ durable = {} /\ held = {} /\ doubted = FALSE
  /\ stage = "none"
  /\ last = [call |-> "none", ok |-> TRUE, active |-> FALSE]

\* A unit is never opened within another.
Begin ==
  /\ stage # "open"
  /\ stage' = "open" /\ held' = {} /\ doubted' = FALSE
  /\ Call("BeginTran", TRUE)
  /\ UNCHANGED durable

\* A statement is acknowledged.
Write(w) ==
  /\ IF stage = "open"
     THEN held' = held \cup {w} /\ durable' = durable
     ELSE durable' = durable \cup {w} /\ held' = held
  /\ Call("query", TRUE)
  /\ UNCHANGED <<doubted, stage>>

\* A statement throws.  In an open unit it has written nothing.
Throw(w) ==
  /\ durable' \in {durable, IF stage = "open" THEN durable ELSE durable \cup {w}}
  /\ doubted' = TRUE
  /\ Call("query", FALSE)
  /\ UNCHANGED <<held, stage>>

\* A reader is not opened.
Unread ==
  /\ doubted' = TRUE
  /\ Call("read", FALSE)
  /\ UNCHANGED <<durable, held, stage>>

\* Everything that was held lasts; or nothing does, after a statement threw.
Keep ==
  /\ stage = "open"
  /\ durable' = durable \cup held \/ (doubted /\ durable' = durable)
  /\ stage' = "none" /\ held' = {}
  /\ Call("CommitTran", TRUE)
  /\ UNCHANGED doubted

Undo ==
  /\ stage = "open"
  /\ stage' = "none" /\ held' = {}
  /\ Call("RollbackTran", TRUE)
  /\ UNCHANGED <<durable, doubted>>

\* An open unit is lost, with its connection or to a commit or rollback that
\* throws.  Only the commit may have made something durable.
Lose(name) ==
  /\ stage = "open"
  /\ durable' \in {durable, IF name = "CommitTran" THEN durable \cup held ELSE durable}
  /\ stage' = "lost" /\ held' = {}
  /\ doubted' = (doubted \/ name \in {"query", "read"})
  /\ Call(name, name = "closeReader")

\* Closing gives up what is held.
Close ==
  /\ stage' = "none" /\ held' = {}
  /\ Call("Close", TRUE)
  /\ UNCHANGED <<durable, doubted>>

\* A call that does nothing to the writes.  Keeping or undoing a unit that
\* IsTransactionActive announces is not one of them.
Other(name, ok) ==
  /\ ok /\ stage # "none" => name \notin {"CommitTran", "RollbackTran"}
  /\ Call(name, ok)
  /\ UNCHANGED <<durable, held, doubted, stage>>

Next ==
  \/ Begin \/ Keep \/ Undo \/ Close \/ Unread
  \/ \E w \in Writes : Write(w) \/ Throw(w)
  \/ \E name \in {"query", "read", "closeReader", "CommitTran", "RollbackTran"} : Lose(name)
  \/ \E name \in {"Open", "BeginTran", "CommitTran", "RollbackTran", "read", "closeReader"},
        ok \in BOOLEAN : Other(name, ok)

Spec == Init /\ [][Next]_vars
=============================================================================
