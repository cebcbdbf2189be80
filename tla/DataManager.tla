----------------------------- MODULE DataManager -----------------------------
(***************************************************************************)
(* DataManager objects, each with its parameters and a connection of its   *)
(* own or one that was set from outside.  The managers and their caller    *)
(* share one DataConnection, whose module this one extends: every step     *)
(* here is a step of the connection's, or leaves the connection alone.     *)
(*                                                                         *)
(* A manager that was given no connection makes a DataConnection without a *)
(* connection string.  Opening it throws, so it never holds a usable       *)
(* NpgsqlConnection, and all a manager keeps of it is whether the object   *)
(* holds a connection that never opened, or none since it was closed.      *)
(***************************************************************************)
EXTENDS DataConnection

CONSTANT Managers

VARIABLES
  oManaged,      \* each manager's oConn
  blnLocalConn,
  oParameters,   \* empty, all fresh, or some used by an earlier command
  by             \* history: who made the last call

managed == <<oManaged, blnLocalConn, oParameters>>
allVars == <<vars, managed, by>>

(* The type invariant; a manager without a connection has blnLocalConn set. *)
ManagersTypeOK ==
  /\ \A m \in Managers : oManaged[m] = "null" => blnLocalConn[m]
  /\ oManaged \in [Managers -> {"null", "external", "unopened", "closed"}]
  /\ blnLocalConn \in [Managers -> BOOLEAN]
  /\ oParameters \in [Managers -> {"empty", "fresh", "used"}]
  /\ by \in {"caller", "manager"}

ManagersInit ==
  /\ Init
  /\ oManaged = [m \in Managers |-> "null"]
  /\ blnLocalConn = [m \in Managers |-> TRUE]
  /\ oParameters = [m \in Managers |-> "empty"]
  /\ by = "caller"

(* The setter Connection. *)
SetConnection(m) ==
  /\ oManaged[m] # "external"
  /\ oManaged' = [oManaged EXCEPT ![m] = "external"]
  /\ by' = "manager"
  /\ UNCHANGED <<vars, blnLocalConn, oParameters>>

(* Add...Para *)
AddPara(m) ==
  /\ oParameters[m] = "empty"
  /\ oParameters' = [oParameters EXCEPT ![m] = "fresh"]
  /\ by' = "manager"
  /\ UNCHANGED <<vars, oManaged, blnLocalConn>>

ClearParameters(m) ==
  /\ oParameters' = [oParameters EXCEPT ![m] = "empty"]
  /\ by' = "manager"
  /\ UNCHANGED <<vars, oManaged, blnLocalConn>>

(* The manager's DataConnection holds an NpgsqlConnection. *)
HasConnection(m) ==
  \/ oManaged[m] = "unopened"
  \/ oManaged[m] = "external" /\ oConn # 0

(***************************************************************************)
(* InitQuery, with which every query begins.  A connection counts as local *)
(* when the field is null.  The field keeps the local DataConnection after *)
(* opening it threw.  The parameters join the new command, if there is a   *)
(* connection for it, and Npgsql refuses one that an earlier command has.  *)
(***************************************************************************)
InitQuery(m) ==
  /\ blnLocalConn' = [blnLocalConn EXCEPT ![m] = (oManaged[m] = "null")]
  /\ oManaged' = [oManaged EXCEPT ![m] = IF @ = "null" THEN "unopened" ELSE @]
  /\ oParameters' = [oParameters EXCEPT ![m] =
       IF @ = "fresh" /\ HasConnection(m) THEN "used" ELSE @]
  /\ by' = "manager"

(* InitQuery returns normally, with the shared connection. *)
Prepared(m) == oManaged[m] = "external" /\ oConn # 0 /\ oParameters[m] # "used"

(* Otherwise the query throws, or returns a null reader: InitQuery throws, *)
(* or the statement finds a local connection that never opened.            *)
Unprepared(m) ==
  /\ ~Prepared(m)
  /\ InitQuery(m)
  /\ UNCHANGED vars

(* GetTable, GetDataSet, RunActionQuery, GetScalar and their asynchronous  *)
(* forms.  The first two use a data adapter, which opens a closed          *)
(* connection; the others throw.  Only a local connection would be closed  *)
(* afterwards, but none gets so far.                                       *)
RunQuery(m, w) == Prepared(m) /\ InitQuery(m) /\ Statement(w)

(* ExecuteReader, ExecuteReaderAsync: null instead of an exception. *)
ExecuteReader(m) == Prepared(m) /\ InitQuery(m) /\ OpenReader

(* GetCommand hands the prepared command to the caller. *)
GetCommand(m) == Prepared(m) /\ InitQuery(m) /\ UNCHANGED vars

(* A plausible bug: Dispose forgets the connection but not that it was external. *)
Fault_DisposeForgets(m) ==
  /\ IF oManaged[m] = "external" THEN Close ELSE UNCHANGED vars
  /\ oManaged' = [oManaged EXCEPT ![m] = "null"]
  /\ oParameters' = [oParameters EXCEPT ![m] = "empty"]
  /\ by' = "manager"
  /\ UNCHANGED blnLocalConn

(* A plausible bug: Dispose closes the NpgsqlConnection behind the object. *)
Fault_DisposeClosesInner(m) ==
  /\ IF oManaged[m] = "external" /\ oConn # 0
     THEN Goes(oConn) /\ UNCHANGED <<fields, durable, done, told, last>>
     ELSE UNCHANGED vars
  /\ oParameters' = [oParameters EXCEPT ![m] = "empty"]
  /\ by' = "manager"
  /\ UNCHANGED <<oManaged, blnLocalConn>>

(* Dispose closes the connection, whoever made it. *)
Dispose(m) ==
  /\ IF oManaged[m] = "external" THEN Close ELSE UNCHANGED vars
  /\ oManaged' = [oManaged EXCEPT ![m] = IF @ = "unopened" THEN "closed" ELSE @]
  /\ oParameters' = [oParameters EXCEPT ![m] = "empty"]
  /\ by' = "manager"
  /\ UNCHANGED blnLocalConn

(* The caller uses the connection and the readers it was given itself. *)
CallerStep ==
  /\ \/ Open \/ Close \/ BeginTran \/ CommitTran \/ RollbackTran
     \/ \E c \in Conns : CloseReader(c)
  /\ by' = "caller"
  /\ UNCHANGED managed

ManagerStep(m) ==
  \/ SetConnection(m) \/ AddPara(m) \/ ClearParameters(m)
  \/ Unprepared(m)
  \/ \E w \in Writes : RunQuery(m, w)
  \/ ExecuteReader(m) \/ GetCommand(m) \/ Dispose(m)

ManagersNext == CallerStep \/ \E m \in Managers : ManagerStep(m)

ManagersSpec == ManagersInit /\ [][ManagersNext]_allVars

-----------------------------------------------------------------------------
(***************************************************************************)
(* Properties.                                                             *)
(***************************************************************************)

(* Whatever the managers do, they use the connection only as its class and *)
(* Npgsql allow: no step of a manager leaves its fields and the server     *)
(* apart, so the properties of DataConnection hold with managers as well.  *)
ManagersUseTheConnection == Spec

(* A manager that was given its connection leaves it open: the connection  *)
(* can be set from outside and only a local one is closed after a query.   *)
(* Violated: Dispose closes it under the other managers, whose transaction *)
(* is rolled back, and CommitTran then does nothing and reports nothing.   *)
ExternalStaysOpen == [][by' = "manager" /\ last'.ok => up \subseteq up']_allVars
=============================================================================
