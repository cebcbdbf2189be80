--------------------------- MODULE DataConnection ---------------------------
(***************************************************************************)
(* The class DataConnection: an NpgsqlConnection, the transaction begun on *)
(* it, and two flags that callers read.  One caller uses an object at a    *)
(* time and awaits the asynchronous methods, so a call is one step.        *)
(*                                                                         *)
(* Every NpgsqlConnection the object makes gets the next number; 0 is      *)
(* null.  Npgsql and PostgreSQL are external.  Their state is: the         *)
(* connections that are open, the transactions in progress on them (and    *)
(* those a failed statement aborted), the open readers, the writes a       *)
(* transaction holds and the writes that are durable.  The client notices  *)
(* a broken connection when it next uses it, so a connection breaks within *)
(* the call that finds out.                                                *)
(***************************************************************************)
EXTENDS Naturals, FiniteSets

CONSTANTS
  Writes,    \* the writes statements may make, each at most once
  MaxConns   \* bound: how many NpgsqlConnections the object makes

ASSUME MaxConnsAssumption == MaxConns \in Nat

Conns == 1..MaxConns

VARIABLES
  oConn,          \* the connection the object holds, or 0
  oTran,          \* the connection whose transaction it holds, or 0
  blnIsOpen, blnTranActive,
  made,           \* how many connections were made
  up,             \* connections in state Open
  inTran, failed, \* those with a transaction, and with an aborted one
  busy,           \* those with an open reader
  pending,        \* what the transaction of a connection wrote
  durable,        \* what is committed
  done,           \* history: the writes some statement attempted
  unit,           \* history: writes acknowledged while IsTransactionActive,
                  \*   since the transaction began
  erred,          \* history: a statement threw since then
  plain,          \* history: writes acknowledged while not active
  last            \* history: the last call, whether it returned normally,
                  \*   and IsTransactionActive before it

fields == <<oConn, oTran, blnIsOpen, blnTranActive, made>>
server == <<up, inTran, failed, busy, pending, durable>>
told == <<unit, erred, plain>>
vars == <<fields, server, done, told, last>>

Calls == {"none", "Open", "Close", "BeginTran", "CommitTran", "RollbackTran",
          "query", "read", "closeReader"}

(* IsTransactionActive says whether the object holds a transaction, and    *)
(* IsOpen is true while its connection is open.  IsOpen may also be true   *)
(* when the connection broke, or when opening another one threw.           *)
FlagsAgree ==
  /\ blnTranActive <=> oTran # 0
  /\ oConn \in up => blnIsOpen
  /\ oConn = 0 => ~blnIsOpen /\ oTran = 0

(* The type invariant, with what the flags say of the fields. *)
TypeOK ==
  /\ FlagsAgree
  /\ oConn \in 0..MaxConns /\ oTran \in 0..MaxConns
  /\ blnIsOpen \in BOOLEAN /\ blnTranActive \in BOOLEAN
  /\ made \in 0..MaxConns
  /\ up \subseteq Conns /\ inTran \subseteq Conns
  /\ failed \subseteq Conns /\ busy \subseteq Conns
  /\ pending \in [Conns -> SUBSET Writes]
  /\ durable \subseteq Writes /\ done \subseteq Writes
  /\ unit \subseteq Writes /\ plain \subseteq Writes
  /\ erred \in BOOLEAN
  /\ last \in [call : Calls, ok : BOOLEAN, active : BOOLEAN]

Init ==
  /\ oConn = 0 /\ oTran = 0
  /\ blnIsOpen = FALSE /\ blnTranActive = FALSE
  /\ made = 0
  /\ up = {} /\ inTran = {} /\ failed = {} /\ busy = {}
  /\ pending = [c \in Conns |-> {}]
  /\ durable = {} /\ done = {}
  /\ unit = {} /\ erred = FALSE /\ plain = {}
  /\ last = [call |-> "none", ok |-> TRUE, active |-> FALSE]

(***************************************************************************)
(* External: what happens to a connection.                                 *)
(***************************************************************************)
Returns(call) == last' = [call |-> call, ok |-> TRUE, active |-> blnTranActive]
Throws(call) == last' = [call |-> call, ok |-> FALSE, active |-> blnTranActive]

(* The transaction of c is over and its writes are forgotten. *)
TransactionEnds(c) ==
  /\ inTran' = inTran \ {c}
  /\ failed' = failed \ {c}
  /\ pending' = [pending EXCEPT ![c] = {}]

(* c is closed or breaks.  The server undoes its transaction; a reader on  *)
(* it is closed.                                                           *)
Goes(c) ==
  /\ up' = up \ {c}
  /\ busy' = busy \ {c}
  /\ TransactionEnds(c)

(* Npgsql lets a transaction be used until it has completed: committed,    *)
(* rolled back, or lost with its connection.  A connection with an open    *)
(* reader refuses every other use.                                         *)
Usable(c) == c \in inTran /\ c \notin busy

-----------------------------------------------------------------------------
(* A plausible bug: Open makes a connection every time. *)
Fault_OpenAlwaysNew ==
  /\ made < MaxConns
  /\ made' = made + 1 /\ oConn' = made + 1
  /\ up' = up \cup {made + 1}
  /\ blnIsOpen' = TRUE
  /\ Returns("Open")
  /\ UNCHANGED <<oTran, blnTranActive, inTran, failed, busy, pending, durable, done, told>>

(***************************************************************************)
(* Open, OpenAsync.  An open connection is kept.  Any other is replaced    *)
(* without being disposed of, and the new one is assigned before it opens, *)
(* so it stays when opening throws.  The transaction stays too.            *)
(***************************************************************************)
Open ==
  /\ UNCHANGED <<oTran, blnTranActive, inTran, failed, busy, pending, durable, done, told>>
  /\ \/ /\ oConn \in up
        /\ Returns("Open")
        /\ UNCHANGED <<oConn, blnIsOpen, made, up>>
     \/ /\ oConn \notin up
        /\ made < MaxConns
        /\ made' = made + 1
        /\ oConn' = made + 1
        /\ \/ /\ up' = up \cup {made + 1}
              /\ blnIsOpen' = TRUE
              /\ Returns("Open")
           \/ /\ UNCHANGED <<up, blnIsOpen>>
              /\ Throws("Open")

(* A plausible bug: Close leaves the transaction's flag. *)
Fault_CloseLeavesFlag ==
  /\ IF oConn = 0 THEN UNCHANGED <<up, busy, inTran, failed, pending>> ELSE Goes(oConn)
  /\ oTran' = 0 /\ oConn' = 0
  /\ blnIsOpen' = FALSE
  /\ Returns("Close")
  /\ UNCHANGED <<blnTranActive, made, durable, done, told>>

(* Close, Dispose.  Disposing of a transaction never throws. *)
Close ==
  /\ IF oConn = 0 THEN UNCHANGED <<up, busy, inTran, failed, pending>> ELSE Goes(oConn)
  /\ oTran' = 0 /\ oConn' = 0
  /\ blnIsOpen' = FALSE /\ blnTranActive' = FALSE
  /\ Returns("Close")
  /\ UNCHANGED <<made, durable, done, told>>

(* A plausible bug: BeginTran does not set the flag. *)
Fault_BeginLeavesFlag ==
  /\ UNCHANGED <<oConn, blnIsOpen, blnTranActive, made, up, failed, busy, pending, durable, done, told>>
  /\ \/ /\ oConn \notin up \ (busy \cup inTran)
        /\ IF oConn \in up THEN Throws("BeginTran") ELSE Returns("BeginTran")
        /\ UNCHANGED <<oTran, inTran>>
     \/ /\ oConn \in up \ (busy \cup inTran)
        /\ oTran' = oConn
        /\ inTran' = inTran \cup {oConn}
        /\ Returns("BeginTran")

(* BeginTran, BeginTranAsync.  Without an open connection nothing happens  *)
(* and nothing is reported.                                                *)
BeginTran ==
  /\ UNCHANGED <<oConn, blnIsOpen, made, up, failed, busy, pending, durable, done, plain>>
  /\ \/ /\ oConn \notin up
        /\ Returns("BeginTran")
        /\ UNCHANGED <<oTran, blnTranActive, inTran, unit, erred>>
     \/ /\ oConn \in up
        /\ oConn \in busy \cup inTran
        /\ Throws("BeginTran")
        /\ UNCHANGED <<oTran, blnTranActive, inTran, unit, erred>>
     \/ /\ oConn \in up \ (busy \cup inTran)
        /\ oTran' = oConn
        /\ inTran' = inTran \cup {oConn}
        /\ blnTranActive' = TRUE
        /\ unit' = {} /\ erred' = FALSE
        /\ Returns("BeginTran")

(* The end of a successful CommitTran or RollbackTran. *)
Forget ==
  /\ oTran' = 0
  /\ blnTranActive' = FALSE

(* PostgreSQL rolls an aborted transaction back on COMMIT, and Npgsql does *)
(* not report it.                                                          *)
Committed == IF oTran \in failed THEN {} ELSE pending[oTran]

(* A plausible bug: CommitTran swallows what Commit throws. *)
Fault_CommitSwallows ==
  /\ Forget
  /\ UNCHANGED <<oConn, blnIsOpen, made, done, told>>
  /\ Returns("CommitTran")
  /\ \/ ~Usable(oTran) /\ UNCHANGED server
     \/ /\ Usable(oTran)
        /\ durable' = durable \cup Committed
        /\ TransactionEnds(oTran)
        /\ UNCHANGED <<up, busy>>

(* A plausible bug: CommitTran forgets the transaction even when Commit    *)
(* throws.                                                                 *)
Fault_CommitForgets ==
  /\ UNCHANGED <<oConn, blnIsOpen, made, done, told>>
  /\ \/ oTran = 0 /\ Returns("CommitTran") /\ UNCHANGED server
     \/ oTran # 0 /\ ~Usable(oTran) /\ Throws("CommitTran") /\ UNCHANGED server
     \/ /\ Usable(oTran)
        /\ durable' = durable \cup Committed
        /\ TransactionEnds(oTran)
        /\ Returns("CommitTran")
        /\ UNCHANGED <<up, busy>>
     \/ /\ Usable(oTran)
        /\ durable' \in {durable, durable \cup Committed}
        /\ Goes(oTran)
        /\ Throws("CommitTran")
  /\ Forget

(***************************************************************************)
(* CommitTran, CommitTranAsync.  Without a transaction nothing happens and *)
(* nothing is reported.  If Commit throws, the transaction and the flag    *)
(* stay: it throws for a completed transaction and under an open reader,   *)
(* when the connection breaks, before or after the server committed, and   *)
(* when the server cannot commit and rolls back.                           *)
(***************************************************************************)
CommitTran ==
  /\ UNCHANGED <<oConn, blnIsOpen, made, done, told>>
  /\ \/ /\ oTran = 0
        /\ Returns("CommitTran")
        /\ UNCHANGED <<oTran, blnTranActive, server>>
     \/ /\ oTran # 0 /\ ~Usable(oTran)
        /\ Throws("CommitTran")
        /\ UNCHANGED <<oTran, blnTranActive, server>>
     \/ /\ Usable(oTran)
        /\ durable' = durable \cup Committed
        /\ TransactionEnds(oTran)
        /\ Forget
        /\ Returns("CommitTran")
        /\ UNCHANGED <<up, busy>>
     \/ /\ Usable(oTran)
        /\ durable' \in {durable, durable \cup Committed}
        /\ Goes(oTran)
        /\ Throws("CommitTran")
        /\ UNCHANGED <<oTran, blnTranActive>>
     \/ /\ Usable(oTran)
        /\ TransactionEnds(oTran)
        /\ Throws("CommitTran")
        /\ UNCHANGED <<oTran, blnTranActive, up, busy, durable>>

(* A plausible bug: RollbackTran swallows what Rollback throws. *)
Fault_RollbackSwallows ==
  /\ Forget
  /\ UNCHANGED <<oConn, blnIsOpen, made, durable, done, told>>
  /\ Returns("RollbackTran")
  /\ \/ ~Usable(oTran) /\ UNCHANGED <<up, inTran, failed, busy, pending>>
     \/ Usable(oTran) /\ TransactionEnds(oTran) /\ UNCHANGED <<up, busy>>

(* RollbackTran, RollbackTranAsync.  The same shape. *)
RollbackTran ==
  /\ UNCHANGED <<oConn, blnIsOpen, made, durable, done, told>>
  /\ \/ /\ oTran = 0
        /\ Returns("RollbackTran")
        /\ UNCHANGED <<oTran, blnTranActive, up, inTran, failed, busy, pending>>
     \/ /\ oTran # 0 /\ ~Usable(oTran)
        /\ Throws("RollbackTran")
        /\ UNCHANGED <<oTran, blnTranActive, up, inTran, failed, busy, pending>>
     \/ /\ Usable(oTran)
        /\ TransactionEnds(oTran)
        /\ Forget
        /\ Returns("RollbackTran")
        /\ UNCHANGED <<up, busy>>
     \/ /\ Usable(oTran)
        /\ Goes(oTran)
        /\ Throws("RollbackTran")
        /\ UNCHANGED <<oTran, blnTranActive>>

-----------------------------------------------------------------------------
(***************************************************************************)
(* External: statements on the connection, which DataManager runs.         *)
(***************************************************************************)

(* The caller is told that the statement succeeded. *)
Acknowledged(w) ==
  /\ IF blnTranActive
     THEN unit' = unit \cup {w} /\ plain' = plain
     ELSE plain' = plain \cup {w} /\ unit' = unit
  /\ erred' = erred
  /\ Returns("query")

(* The caller is told that it failed. *)
Refused(call) ==
  /\ erred' = TRUE
  /\ UNCHANGED <<unit, plain>>
  /\ Throws(call)

StatementSucceeds(w) ==
  /\ oConn \in up \ (busy \cup failed)
  /\ IF oConn \in inTran
     THEN /\ pending' = [pending EXCEPT ![oConn] = @ \cup {w}]
          /\ durable' = durable
     ELSE /\ durable' = durable \cup {w}
          /\ pending' = pending
  /\ Acknowledged(w)
  /\ UNCHANGED <<up, inTran, failed, busy>>

(* Npgsql refuses it, or the server does, and then aborts a transaction.   *)
StatementFails ==
  /\ \/ failed' = failed
     \/ oConn \in inTran \ busy /\ failed' = failed \cup {oConn}
  /\ Refused("query")
  /\ UNCHANGED <<up, inTran, busy, pending, durable>>

(* The connection breaks.  Outside a transaction the statement may have    *)
(* been executed all the same.                                             *)
StatementBreaks(w) ==
  /\ oConn \in up \ busy
  /\ Goes(oConn)
  /\ durable' \in IF oConn \in inTran THEN {durable}
                                       ELSE {durable, durable \cup {w}}
  /\ Refused("query")

(* A data adapter opens a closed connection for its statement and closes   *)
(* it again.                                                               *)
StatementReopens(w) ==
  /\ oConn # 0 /\ oConn \notin up
  /\ \/ durable' = durable \cup {w} /\ Acknowledged(w)
     \/ durable' \in {durable, durable \cup {w}} /\ Refused("query")
  /\ UNCHANGED <<up, inTran, failed, busy, pending>>

Statement(w) ==
  /\ w \notin done
  /\ done' = done \cup {w}
  /\ \/ StatementSucceeds(w)
     \/ StatementFails
     \/ StatementBreaks(w)
     \/ StatementReopens(w)
  /\ UNCHANGED fields

(* ExecuteReader with CommandBehavior.CloseConnection: the reader keeps    *)
(* the connection to itself until it is closed, and closes it with itself. *)
(* Npgsql closes the connection too when the statement fails.              *)
OpenReader ==
  /\ UNCHANGED <<fields, durable, done>>
  /\ \/ /\ oConn \in up \ (busy \cup failed)
        /\ busy' = busy \cup {oConn}
        /\ Returns("read")
        /\ UNCHANGED <<up, inTran, failed, pending, told>>
     \/ /\ IF oConn \in up THEN Goes(oConn)
                           ELSE UNCHANGED <<up, busy, inTran, failed, pending>>
        /\ Refused("read")

CloseReader(c) ==
  /\ c \in busy
  /\ Goes(c)
  /\ Returns("closeReader")
  /\ UNCHANGED <<fields, durable, done, told>>

-----------------------------------------------------------------------------
Next ==
  \/ Open \/ Close \/ BeginTran \/ CommitTran \/ RollbackTran
  \/ \E w \in Writes : Statement(w)
  \/ OpenReader
  \/ \E c \in Conns : CloseReader(c)

Spec == Init /\ [][Next]_vars

-----------------------------------------------------------------------------
(***************************************************************************)
(* Properties.                                                             *)
(***************************************************************************)

(* The object never loses an open connection or a transaction in progress  *)
(* from sight: whatever is open is what its fields hold, and a transaction *)
(* in progress is on the connection the next statement will use.           *)
OneConnection ==
  /\ up \subseteq {oConn}
  /\ inTran \subseteq up \cap {oTran}
  /\ busy \subseteq up

(* When CommitTran returns normally and IsTransactionActive was true, the  *)
(* writes acknowledged since BeginTran are durable, all of them; or none   *)
(* is, and then the caller has seen a statement throw.                     *)
CommitKeepsTheWork ==
  last.call = "CommitTran" /\ last.ok /\ last.active =>
    unit \subseteq durable \/ (erred /\ unit \cap durable = {})

(* When RollbackTran returns normally and IsTransactionActive was true,    *)
(* none of the writes acknowledged since BeginTran is durable, although    *)
(* the connection may have been replaced in between.                       *)
RollbackUndoesTheWork ==
  last.call = "RollbackTran" /\ last.ok /\ last.active =>
    unit \cap durable = {}

(* A write acknowledged while IsTransactionActive was false is durable,    *)
(* and stays so: no transaction is in progress behind a false flag, from   *)
(* which Close could still take it back.                                   *)
AutocommitIsDurable == plain \subseteq durable

(* To its caller the object is a unit of work: see UnitOfWork.  The unit is *)
(* open while the transaction in oTran is in progress, and lost when it is *)
(* not, although IsTransactionActive is still true.                        *)
Stage == IF ~blnTranActive THEN "none"
         ELSE IF oTran \in inTran THEN "open" ELSE "lost"

Held == IF Stage = "open" THEN unit ELSE {}

Work == INSTANCE UnitOfWork WITH held <- Held, doubted <- erred, stage <- Stage

KeepsUnits == Work!Spec

=============================================================================
