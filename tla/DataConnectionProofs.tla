------------------------ MODULE DataConnectionProofs ------------------------
(***************************************************************************)
(* Proofs about DataConnection for all Writes and any MaxConns, and what   *)
(* they mean for the managers that share one.                              *)
(*                                                                         *)
(* The properties need to know what a transaction in progress holds: just  *)
(* the writes acknowledged since it began, none of them durable yet.  That *)
(* is UnitInv; OneConnection says that such a transaction is the one in    *)
(* oTran, on the connection in oConn.  From these follows that every step  *)
(* is one of UnitOfWork, or one it does not see (UnitsAreKept).            *)
(***************************************************************************)
EXTENDS DataManager, TLAPS

UnitInv ==
  /\ failed \subseteq inTran
  /\ failed # {} => erred
  /\ \A c \in inTran : pending[c] = unit /\ unit \cap durable = {}
  /\ \A c \in Conns \ inTran : pending[c] = {}
  /\ durable \subseteq done
  /\ unit \subseteq done

MadeInv == up \subseteq 1..made /\ oConn <= made

IInv ==
  /\ TypeOK
  /\ OneConnection
  /\ MadeInv
  /\ UnitInv
  /\ CommitKeepsTheWork
  /\ RollbackUndoesTheWork
  /\ AutocommitIsDurable

-----------------------------------------------------------------------------
(* The initial states satisfy the invariant. *)
LEMMA InitIInv == Init => IInv
<1> USE MaxConnsAssumption
<1> SUFFICES ASSUME Init PROVE IInv
  OBVIOUS
<1>1. TypeOK
  <2>1. FlagsAgree
    BY DEF Init, FlagsAgree
  <2>2. blnIsOpen \in BOOLEAN /\ blnTranActive \in BOOLEAN /\ erred \in BOOLEAN
    BY Zenon DEF Init
  <2>3. last \in [call : Calls, ok : BOOLEAN, active : BOOLEAN]
    BY DEF Init, Calls
  <2> QED
    BY <2>1, <2>2, <2>3 DEF Init, TypeOK, Conns
<1>2. OneConnection /\ MadeInv /\ UnitInv
  BY DEF Init, OneConnection, MadeInv, UnitInv, Conns
<1>3. CommitKeepsTheWork /\ RollbackUndoesTheWork /\ AutocommitIsDurable
  BY DEF Init, CommitKeepsTheWork, RollbackUndoesTheWork, AutocommitIsDurable
<1> QED
  BY <1>1, <1>2, <1>3 DEF IInv
(* The record of a call has its type. *)
LEMMA LastTyped ==
  ASSUME TypeOK, NEW c \in Calls, Returns(c) \/ Throws(c)
  PROVE  last' \in [call : Calls, ok : BOOLEAN, active : BOOLEAN]
<1>1. blnTranActive \in BOOLEAN
  BY Zenon DEF TypeOK
<1>2. PICK b \in BOOLEAN : last' = [call |-> c, ok |-> b, active |-> blnTranActive]
  BY Zenon DEF Returns, Throws
<1> QED
  BY <1>1, <1>2, Zenon

(***************************************************************************)
(* Open keeps an open connection, and replaces only one that is closed, on *)
(* which no transaction is in progress.                                    *)
(***************************************************************************)
LEMMA OpenKeeps == ASSUME IInv, Open PROVE IInv'
<1>0. TypeOK /\ OneConnection /\ MadeInv /\ UnitInv /\ FlagsAgree
  BY Zenon DEF IInv, TypeOK
<1>1. last' \in [call : Calls, ok : BOOLEAN, active : BOOLEAN]
  BY <1>0, LastTyped, Zenon DEF Open, Calls
<1>2. blnIsOpen' \in BOOLEAN /\ blnTranActive' \in BOOLEAN /\ erred' \in BOOLEAN
  BY <1>0, Zenon DEF Open, TypeOK, told
<1>3. made \in Nat /\ oConn \in Nat /\ made <= MaxConns
  BY <1>0, MaxConnsAssumption DEF TypeOK
<1>4. oConn' \in 0..MaxConns /\ made' \in 0..MaxConns /\ up' \subseteq Conns
  <2>1. CASE oConn \in up
    BY <1>0, <2>1, Zenon DEF Open, TypeOK
  <2>2. CASE oConn \notin up
    <3>1. made < MaxConns /\ made' = made + 1 /\ oConn' = made + 1 /\ up' \subseteq up \cup {made + 1}
      BY <2>2, Zenon DEF Open
    <3> QED
      BY <1>0, <1>3, <3>1, MaxConnsAssumption DEF TypeOK, Conns
  <2> QED
    BY <2>1, <2>2
<1>5. OneConnection' /\ MadeInv' /\ FlagsAgree'
  <2>1. CASE oConn \in up
    BY <1>0, <2>1 DEF Open, FlagsAgree, OneConnection, MadeInv
  <2>2. CASE oConn \notin up
    <3>1. up = {} /\ inTran = {} /\ busy = {}
      BY <1>0, <2>2 DEF OneConnection
    <3>2. /\ made' = made + 1 /\ oConn' = made + 1
          /\ up' = up \/ (up' = up \cup {made + 1} /\ blnIsOpen')
          /\ UNCHANGED <<oTran, blnTranActive, inTran, busy>>
      BY <2>2, Zenon DEF Open
    <3> QED
      BY <1>0, <1>3, <3>1, <3>2 DEF FlagsAgree, OneConnection, MadeInv
  <2> QED
    BY <2>1, <2>2
<1>6. TypeOK'
  BY <1>0, <1>1, <1>2, <1>4, <1>5, Zenon DEF Open, TypeOK, told
<1>7. UnitInv' /\ AutocommitIsDurable'
  BY DEF Open, UnitInv, AutocommitIsDurable, told, IInv
<1>8. CommitKeepsTheWork' /\ RollbackUndoesTheWork'
  BY DEF Open, Returns, Throws, CommitKeepsTheWork, RollbackUndoesTheWork
<1> QED
  BY <1>5, <1>6, <1>7, <1>8 DEF IInv

(* When the only transaction there can be ends, none is in progress.       *)
LEMMA NoTransaction ==
  ASSUME IInv, NEW c \in {oConn, oTran} \cup busy, TransactionEnds(c)
  PROVE  /\ inTran' = {} /\ failed' = {}
         /\ pending' \in [Conns -> SUBSET Writes]
         /\ \A x \in Conns : pending'[x] = {}
<1>1. inTran \subseteq {c} /\ failed \subseteq inTran
  BY DEF IInv, OneConnection, UnitInv
<1>2. pending \in [Conns -> SUBSET Writes] /\ \A x \in Conns \ inTran : pending[x] = {}
  BY Zenon DEF IInv, TypeOK, UnitInv
<1> QED
  BY <1>1, <1>2 DEF TransactionEnds

(* When the connection goes, none is open.                                 *)
LEMMA NoConnection ==
  ASSUME IInv, NEW c \in {oConn} \cup inTran \cup busy, Goes(c)
  PROVE  /\ up' = {} /\ busy' = {} /\ inTran' = {} /\ failed' = {}
         /\ pending' \in [Conns -> SUBSET Writes]
         /\ \A x \in Conns : pending'[x] = {}
<1>1. up \subseteq {c} /\ busy \subseteq up /\ c \in {oConn, oTran} \cup busy
  BY DEF IInv, OneConnection
<1>2. TransactionEnds(c) /\ up' = {} /\ busy' = {}
  BY <1>1 DEF Goes
<1> QED
  BY <1>1, <1>2, NoTransaction

(* What is to be shown of a step after which no transaction is in progress *)
(* and which keeps the history of the unit.                                *)
LEMMA QuietUnit ==
  ASSUME inTran' = {}, failed' = {}, \A x \in Conns : pending'[x] = {},
         durable' \subseteq done', unit' \subseteq done'
  PROVE  UnitInv'
BY DEF UnitInv

(* Close leaves no connection and no transaction.                          *)
LEMMA CloseKeeps == ASSUME IInv, Close PROVE IInv'
<1>0. TypeOK /\ OneConnection /\ MadeInv /\ UnitInv /\ FlagsAgree
  BY Zenon DEF IInv, TypeOK
<1>1. /\ up' = {} /\ busy' = {} /\ inTran' = {} /\ failed' = {}
      /\ pending' \in [Conns -> SUBSET Writes]
      /\ \A x \in Conns : pending'[x] = {}
  <2>1. CASE oConn = 0
    <3>1. up = {}
      BY <1>0, <2>1 DEF TypeOK, OneConnection, Conns
    <3>2. busy = {} /\ inTran = {} /\ failed = {}
      BY <1>0, <3>1 DEF OneConnection, UnitInv
    <3>3. UNCHANGED <<up, busy, inTran, failed, pending>>
      BY <2>1, Zenon DEF Close
    <3> QED
      BY <1>0, <3>1, <3>2, <3>3, Zenon DEF TypeOK, UnitInv
  <2>2. CASE oConn # 0
    <3>1. Goes(oConn)
      BY <2>2, Zenon DEF Close
    <3> QED
      BY <3>1, NoConnection
  <2> QED
    BY <2>1, <2>2
<1>2. /\ oConn' = 0 /\ oTran' = 0 /\ blnIsOpen' = FALSE /\ blnTranActive' = FALSE
      /\ UNCHANGED <<made, durable, done, unit, erred, plain>>
  BY Zenon DEF Close, told
<1>3. last' \in [call : Calls, ok : BOOLEAN, active : BOOLEAN]
  BY <1>0, LastTyped, Zenon DEF Close, Calls
<1>4. OneConnection' /\ FlagsAgree'
  BY <1>1, <1>2 DEF OneConnection, FlagsAgree
<1>5. MadeInv' /\ oConn' \in 0..MaxConns /\ oTran' \in 0..MaxConns
  BY <1>0, <1>1, <1>2, MaxConnsAssumption DEF MadeInv, TypeOK
<1>6. TypeOK'
  <2>1. blnIsOpen' \in BOOLEAN /\ blnTranActive' \in BOOLEAN /\ erred' \in BOOLEAN
    BY <1>0, <1>2, Zenon DEF TypeOK
  <2> QED
    BY <1>0, <1>1, <1>2, <1>3, <1>4, <1>5, <2>1, Zenon DEF TypeOK
<1>7. UnitInv' /\ AutocommitIsDurable'
  BY <1>0, <1>1, <1>2 DEF UnitInv, AutocommitIsDurable, IInv
<1>8. CommitKeepsTheWork' /\ RollbackUndoesTheWork'
  BY DEF Close, Returns, CommitKeepsTheWork, RollbackUndoesTheWork
<1> QED
  BY <1>4, <1>5, <1>6, <1>7, <1>8 DEF IInv

(* BeginTran either changes nothing or starts with an empty unit.          *)
LEMMA BeginTranKeeps == ASSUME IInv, BeginTran PROVE IInv'
<1>0. TypeOK /\ OneConnection /\ MadeInv /\ UnitInv /\ FlagsAgree
  BY Zenon DEF IInv, TypeOK
<1>1. /\ UNCHANGED <<oConn, blnIsOpen, made, up, failed, busy, pending, durable, done, plain>>
      /\ \/ UNCHANGED <<oTran, blnTranActive, inTran, unit, erred>>
         \/ /\ oConn \in up /\ oTran' = oConn /\ inTran' = inTran \cup {oConn}
            /\ blnTranActive' = TRUE /\ unit' = {} /\ erred' = FALSE
            /\ oConn \notin inTran
  BY Zenon DEF BeginTran
<1>2. last' \in [call : Calls, ok : BOOLEAN, active : BOOLEAN]
  BY <1>0, LastTyped, Zenon DEF BeginTran, Calls
<1>3. blnIsOpen' \in BOOLEAN /\ blnTranActive' \in BOOLEAN /\ erred' \in BOOLEAN
  BY <1>0, <1>1, Zenon DEF TypeOK
<1>4. oConn \in up => inTran \subseteq {oConn}
  BY <1>0 DEF OneConnection
<1>5. OneConnection' /\ MadeInv'
  BY <1>0, <1>1, <1>4 DEF OneConnection, MadeInv
<1>6. FlagsAgree'
  BY <1>0, <1>1 DEF FlagsAgree, TypeOK, Conns
<1>7. TypeOK'
  <2>1. oTran' \in 0..MaxConns /\ inTran' \subseteq Conns /\ unit' \subseteq Writes
    BY <1>0, <1>1 DEF TypeOK
  <2> QED
    BY <1>0, <1>1, <1>2, <1>3, <1>6, <2>1, Zenon DEF TypeOK
<1>8. UnitInv' /\ AutocommitIsDurable'
  <2>1. CASE UNCHANGED <<oTran, blnTranActive, inTran, unit, erred>>
    BY <1>0, <1>1, <2>1 DEF UnitInv, AutocommitIsDurable, IInv
  <2>2. CASE /\ oConn \in up /\ inTran' = inTran \cup {oConn} /\ oConn \notin inTran
             /\ unit' = {}
    <3>1. inTran = {} /\ failed = {} /\ oConn \in Conns
      BY <1>0, <1>4, <2>2 DEF UnitInv, TypeOK
    <3> QED
      BY <1>0, <1>1, <2>2, <3>1 DEF UnitInv, AutocommitIsDurable, IInv
  <2> QED
    BY <1>1, <2>1, <2>2
<1>9. CommitKeepsTheWork' /\ RollbackUndoesTheWork'
  BY DEF BeginTran, Returns, Throws, CommitKeepsTheWork, RollbackUndoesTheWork
<1> QED
  BY <1>5, <1>7, <1>8, <1>9 DEF IInv

(***************************************************************************)
(* A commit that returns normally commits the whole unit, which is what    *)
(* the transaction holds, or nothing of it after an error.                 *)
(***************************************************************************)
LEMMA CommitTranKeeps == ASSUME IInv, CommitTran PROVE IInv'
<1>0. TypeOK /\ OneConnection /\ MadeInv /\ UnitInv /\ FlagsAgree
  BY Zenon DEF IInv, TypeOK
<1>1. UNCHANGED <<oConn, blnIsOpen, made, done, unit, erred, plain>>
  BY Zenon DEF CommitTran, told
<1>2. last' \in [call : Calls, ok : BOOLEAN, active : BOOLEAN]
  BY <1>0, LastTyped, Zenon DEF CommitTran, Calls
<1>3. blnIsOpen' \in BOOLEAN /\ erred' \in BOOLEAN
  BY <1>0, <1>1, Zenon DEF TypeOK
<1>4. /\ up' \subseteq up /\ busy' \subseteq busy
      /\ \/ oTran' = oTran /\ blnTranActive' = blnTranActive
         \/ oTran' = 0 /\ blnTranActive' = FALSE
  BY Zenon DEF CommitTran, server, Forget, Goes
<1>5. \/ UNCHANGED <<oTran, blnTranActive, up, busy, inTran, failed, pending, durable>>
      \/ /\ oTran \in inTran /\ inTran' = {} /\ failed' = {} /\ busy' \subseteq up'
         /\ pending' \in [Conns -> SUBSET Writes]
         /\ \A x \in Conns : pending'[x] = {}
         /\ durable' = durable \/ durable' = durable \cup Committed
  <2>1. CASE Usable(oTran)
    <3>1. oTran \in inTran /\ oTran \notin busy
      BY <2>1 DEF Usable
    <3>2. oTran # 0
      BY <1>0, <3>1 DEF TypeOK, Conns
    <3>3. /\ durable' = durable \/ durable' = durable \cup Committed
          /\ \/ TransactionEnds(oTran) /\ UNCHANGED <<up, busy>>
             \/ Goes(oTran)
      BY <2>1, <3>2, Zenon DEF CommitTran
    <3>4. CASE TransactionEnds(oTran) /\ UNCHANGED <<up, busy>>
      <4>1. busy' \subseteq up'
        BY <1>0, <3>4 DEF OneConnection
      <4> QED
        BY <3>1, <3>3, <3>4, <4>1, NoTransaction
    <3>5. CASE Goes(oTran)
      BY <3>1, <3>3, <3>5, NoConnection
    <3> QED
      BY <3>3, <3>4, <3>5
  <2>2. CASE ~Usable(oTran)
    BY <2>2, Zenon DEF CommitTran, server
  <2> QED
    BY <2>1, <2>2
<1>6. durable' \subseteq done /\ durable \subseteq durable'
  <2>1. CASE oTran \in inTran
    <3>1. Committed \subseteq done
      BY <1>0, <2>1 DEF Committed, UnitInv
    <3> QED
      BY <1>0, <1>5, <3>1 DEF UnitInv
  <2>2. CASE oTran \notin inTran
    BY <1>0, <1>5, <2>2 DEF UnitInv
  <2> QED
    BY <2>1, <2>2
<1>7. OneConnection' /\ MadeInv' /\ FlagsAgree'
  BY <1>0, <1>1, <1>4, <1>5 DEF OneConnection, MadeInv, FlagsAgree
<1>8. TypeOK'
  <2>1. oTran' \in 0..MaxConns /\ up' \subseteq Conns /\ busy' \subseteq Conns
        /\ inTran' \subseteq Conns /\ failed' \subseteq Conns /\ durable' \subseteq Writes
    BY <1>0, <1>4, <1>5, <1>6, MaxConnsAssumption DEF TypeOK
  <2>2. pending' \in [Conns -> SUBSET Writes] /\ blnTranActive' \in BOOLEAN
    BY <1>0, <1>4, <1>5, Zenon DEF TypeOK
  <2> QED
    BY <1>0, <1>1, <1>2, <1>3, <1>7, <2>1, <2>2, Zenon DEF TypeOK
<1>9. UnitInv' /\ AutocommitIsDurable'
  BY <1>0, <1>1, <1>5, <1>6 DEF UnitInv, AutocommitIsDurable, IInv
<1>10. CommitKeepsTheWork'
  <2> SUFFICES ASSUME last'.ok = TRUE, last'.active = TRUE
               PROVE  unit \subseteq durable' \/ (erred /\ unit \cap durable' = {})
    BY <1>1, <1>2 DEF CommitKeepsTheWork
  <2>1. blnTranActive /\ ~Throws("CommitTran")
    BY DEF CommitTran, Returns, Throws
  <2>2. oTran # 0
    BY <1>0, <2>1 DEF FlagsAgree
  <2>3. Usable(oTran) /\ durable' = durable \cup Committed
    BY <2>1, <2>2, Zenon DEF CommitTran
  <2>4. pending[oTran] = unit /\ unit \cap durable = {} /\ (failed # {} => erred)
    BY <1>0, <2>3 DEF Usable, UnitInv
  <2> QED
    BY <2>3, <2>4 DEF Committed
<1>11. RollbackUndoesTheWork'
  BY DEF CommitTran, Returns, Throws, RollbackUndoesTheWork
<1> QED
  BY <1>7, <1>8, <1>9, <1>10, <1>11 DEF IInv

(* A rollback that returns normally leaves nothing of the unit durable.    *)
LEMMA RollbackTranKeeps == ASSUME IInv, RollbackTran PROVE IInv'
<1>0. TypeOK /\ OneConnection /\ MadeInv /\ UnitInv /\ FlagsAgree
  BY Zenon DEF IInv, TypeOK
<1>1. UNCHANGED <<oConn, blnIsOpen, made, durable, done, unit, erred, plain>>
  BY Zenon DEF RollbackTran, told
<1>2. last' \in [call : Calls, ok : BOOLEAN, active : BOOLEAN]
  BY <1>0, LastTyped, Zenon DEF RollbackTran, Calls
<1>3. blnIsOpen' \in BOOLEAN /\ erred' \in BOOLEAN
  BY <1>0, <1>1, Zenon DEF TypeOK
<1>4. /\ up' \subseteq up /\ busy' \subseteq busy
      /\ \/ oTran' = oTran /\ blnTranActive' = blnTranActive
         \/ oTran' = 0 /\ blnTranActive' = FALSE
  BY Zenon DEF RollbackTran, Forget, Goes
<1>5. \/ UNCHANGED <<oTran, blnTranActive, up, busy, inTran, failed, pending>>
      \/ /\ oTran \in inTran /\ inTran' = {} /\ failed' = {} /\ busy' \subseteq up'
         /\ pending' \in [Conns -> SUBSET Writes]
         /\ \A x \in Conns : pending'[x] = {}
  <2>1. CASE Usable(oTran)
    <3>1. oTran \in inTran /\ oTran \notin busy
      BY <2>1 DEF Usable
    <3>2. oTran # 0
      BY <1>0, <3>1 DEF TypeOK, Conns
    <3>3. \/ TransactionEnds(oTran) /\ UNCHANGED <<up, busy>>
          \/ Goes(oTran)
      BY <2>1, <3>2, Zenon DEF RollbackTran
    <3>4. CASE TransactionEnds(oTran) /\ UNCHANGED <<up, busy>>
      <4>1. busy' \subseteq up'
        BY <1>0, <3>4 DEF OneConnection
      <4> QED
        BY <3>1, <3>4, <4>1, NoTransaction
    <3>5. CASE Goes(oTran)
      BY <3>1, <3>5, NoConnection
    <3> QED
      BY <3>3, <3>4, <3>5
  <2>2. CASE ~Usable(oTran)
    BY <2>2, Zenon DEF RollbackTran
  <2> QED
    BY <2>1, <2>2
<1>6. OneConnection' /\ MadeInv' /\ FlagsAgree'
  BY <1>0, <1>1, <1>4, <1>5 DEF OneConnection, MadeInv, FlagsAgree
<1>7. TypeOK'
  <2>1. oTran' \in 0..MaxConns /\ up' \subseteq Conns /\ busy' \subseteq Conns
        /\ inTran' \subseteq Conns /\ failed' \subseteq Conns
    BY <1>0, <1>4, <1>5, MaxConnsAssumption DEF TypeOK
  <2>2. pending' \in [Conns -> SUBSET Writes] /\ blnTranActive' \in BOOLEAN
    BY <1>0, <1>4, <1>5, Zenon DEF TypeOK
  <2> QED
    BY <1>0, <1>1, <1>2, <1>3, <1>6, <2>1, <2>2, Zenon DEF TypeOK
<1>8. UnitInv' /\ AutocommitIsDurable'
  BY <1>0, <1>1, <1>5 DEF UnitInv, AutocommitIsDurable, IInv
<1>9. RollbackUndoesTheWork'
  <2> SUFFICES ASSUME last'.ok = TRUE, last'.active = TRUE
               PROVE  unit \cap durable = {}
    BY <1>1, <1>2 DEF RollbackUndoesTheWork
  <2>1. blnTranActive /\ ~Throws("RollbackTran")
    BY DEF RollbackTran, Returns, Throws
  <2>2. oTran # 0
    BY <1>0, <2>1 DEF FlagsAgree
  <2>3. Usable(oTran)
    BY <2>1, <2>2, Zenon DEF RollbackTran
  <2> QED
    BY <1>0, <2>3 DEF Usable, UnitInv
<1>10. CommitKeepsTheWork'
  BY DEF RollbackTran, Returns, Throws, CommitKeepsTheWork
<1> QED
  BY <1>6, <1>7, <1>8, <1>9, <1>10 DEF IInv

(***************************************************************************)
(* A statement: what it adds to the transaction it also adds to the unit,  *)
(* and outside a transaction what is acknowledged is durable.              *)
(***************************************************************************)
LEMMA StatementKeeps == ASSUME IInv, NEW w \in Writes, Statement(w) PROVE IInv'
<1>0. TypeOK /\ OneConnection /\ MadeInv /\ UnitInv /\ FlagsAgree /\ AutocommitIsDurable
  BY Zenon DEF IInv, TypeOK
<1>1. /\ UNCHANGED <<oConn, oTran, blnIsOpen, blnTranActive, made>>
      /\ w \notin done /\ done' = done \cup {w}
  BY Zenon DEF Statement, fields
<1>2. last' \in [call : Calls, ok : BOOLEAN, active : BOOLEAN]
  BY <1>0, LastTyped, Zenon DEF Statement, StatementSucceeds, StatementFails,
     StatementBreaks, StatementReopens, Acknowledged, Refused, Calls
<1>3. CommitKeepsTheWork' /\ RollbackUndoesTheWork'
  BY DEF Statement, StatementSucceeds, StatementFails, StatementBreaks, StatementReopens,
     Acknowledged, Refused, Returns, Throws, CommitKeepsTheWork, RollbackUndoesTheWork
<1>4. blnIsOpen' \in BOOLEAN /\ blnTranActive' \in BOOLEAN /\ erred' \in BOOLEAN
  BY <1>0, <1>1, Zenon DEF TypeOK, Statement, StatementSucceeds, StatementFails,
     StatementBreaks, StatementReopens, Acknowledged, Refused
<1>5. /\ unit' \subseteq done' /\ unit' \subseteq Writes
      /\ plain' \subseteq Writes /\ done' \subseteq Writes
  BY <1>0, <1>1, Zenon DEF Statement, StatementSucceeds, StatementFails, StatementBreaks,
     StatementReopens, Acknowledged, Refused, TypeOK, UnitInv
<1> SUFFICES /\ OneConnection' /\ UnitInv' /\ AutocommitIsDurable'
             /\ up' \subseteq up /\ durable' \subseteq Writes
             /\ pending' \in [Conns -> SUBSET Writes]
  <2>1. FlagsAgree' /\ inTran' \subseteq Conns /\ failed' \subseteq Conns /\ MadeInv'
        /\ up' \subseteq Conns /\ busy' \subseteq Conns
    BY <1>0, <1>1 DEF FlagsAgree, OneConnection, UnitInv, TypeOK, MadeInv
  <2>2. TypeOK'
    BY <1>0, <1>1, <1>2, <1>4, <1>5, <2>1, Zenon DEF TypeOK
  <2> QED
    BY <1>3, <2>1, <2>2 DEF IInv
<1>6. CASE StatementSucceeds(w)
  <2>1. /\ oConn \in up /\ oConn \notin failed
        /\ UNCHANGED <<up, inTran, failed, busy, erred>>
    BY <1>6, Zenon DEF StatementSucceeds, Acknowledged
  <2>2. OneConnection'
    BY <1>0, <1>1, <2>1 DEF OneConnection
  <2>3. CASE oConn \in inTran
    <3>1. /\ pending' = [pending EXCEPT ![oConn] = @ \cup {w}] /\ durable' = durable
      BY <1>6, <2>3, Zenon DEF StatementSucceeds
    <3>2. inTran = {oConn} /\ oTran = oConn /\ oConn \in Conns
      BY <1>0, <2>1, <2>3 DEF OneConnection, TypeOK
    <3>3. blnTranActive
      BY <1>0, <3>2 DEF FlagsAgree, Conns
    <3>4. unit' = unit \cup {w} /\ plain' = plain
      BY <1>6, <3>3, Zenon DEF StatementSucceeds, Acknowledged
    <3>5. pending' \in [Conns -> SUBSET Writes]
          /\ pending'[oConn] = unit' /\ \A x \in Conns \ {oConn} : pending'[x] = {}
      BY <1>0, <2>3, <3>1, <3>2, <3>4 DEF UnitInv, TypeOK
    <3>6. w \notin durable
      BY <1>0, <1>1 DEF UnitInv
    <3> QED
      BY <1>0, <1>1, <1>5, <2>1, <2>2, <2>3, <3>1, <3>2, <3>4, <3>5, <3>6
         DEF UnitInv, AutocommitIsDurable, TypeOK
  <2>4. CASE oConn \notin inTran
    <3>1. durable' = durable \cup {w} /\ pending' = pending
      BY <1>6, <2>4, Zenon DEF StatementSucceeds
    <3>2. inTran = {}
      BY <1>0, <2>1, <2>4 DEF OneConnection
    <3>3. plain' \subseteq plain \cup {w}
      BY <1>6, Zenon DEF StatementSucceeds, Acknowledged
    <3> QED
      BY <1>0, <1>1, <1>5, <2>1, <2>2, <3>1, <3>2, <3>3
         DEF UnitInv, AutocommitIsDurable, TypeOK
  <2> QED
    BY <2>3, <2>4
<1>7. CASE StatementFails
  <2>1. /\ UNCHANGED <<up, inTran, busy, pending, durable, unit, plain>>
        /\ failed' \subseteq failed \cup inTran /\ erred' = TRUE
    BY <1>7 DEF StatementFails, Refused
  <2> QED
    BY <1>0, <1>1, <2>1 DEF OneConnection, UnitInv, AutocommitIsDurable, TypeOK
<1>8. CASE StatementBreaks(w)
  <2>1. /\ Goes(oConn) /\ durable \subseteq durable' /\ durable' \subseteq durable \cup {w}
        /\ UNCHANGED <<unit, plain>>
    BY <1>8 DEF StatementBreaks, Refused
  <2>2. /\ up' = {} /\ busy' = {} /\ inTran' = {} /\ failed' = {}
        /\ pending' \in [Conns -> SUBSET Writes]
        /\ \A x \in Conns : pending'[x] = {}
    BY <2>1, NoConnection
  <2> QED
    BY <1>0, <1>1, <1>5, <2>1, <2>2 DEF OneConnection, UnitInv, AutocommitIsDurable, TypeOK
<1>9. CASE StatementReopens(w)
  <2>1. /\ oConn \notin up /\ UNCHANGED <<up, inTran, failed, busy, pending>>
    BY <1>9, Zenon DEF StatementReopens
  <2>2. inTran = {} /\ up = {} /\ failed = {}
    BY <1>0, <2>1 DEF OneConnection, UnitInv
  <2>3. /\ durable \subseteq durable' /\ durable' \subseteq durable \cup {w}
        /\ plain' \subseteq plain \/ (plain' \subseteq plain \cup {w} /\ w \in durable')
    BY <1>9 DEF StatementReopens, Acknowledged, Refused
  <2> QED
    BY <1>0, <1>1, <1>5, <2>1, <2>2, <2>3 DEF OneConnection, UnitInv, AutocommitIsDurable, TypeOK
<1> QED
  BY <1>6, <1>7, <1>8, <1>9 DEF Statement

(* A reader takes the connection, or the connection goes.                  *)
LEMMA ReaderKeeps ==
  ASSUME IInv, OpenReader \/ \E c \in Conns : CloseReader(c) PROVE IInv'
<1>0. TypeOK /\ OneConnection /\ MadeInv /\ UnitInv /\ FlagsAgree /\ AutocommitIsDurable
  BY Zenon DEF IInv, TypeOK
<1>1. /\ UNCHANGED <<oConn, oTran, blnIsOpen, blnTranActive, made>>
      /\ UNCHANGED <<durable, done, unit, plain>>
  BY Zenon DEF OpenReader, CloseReader, Refused, fields, told
<1>2. last' \in [call : Calls, ok : BOOLEAN, active : BOOLEAN]
  <2>1. PICK c \in Calls : Returns(c) \/ Throws(c)
    BY Zenon DEF OpenReader, CloseReader, Refused, Calls
  <2> QED
    BY <1>0, <2>1, LastTyped
<1>3. CommitKeepsTheWork' /\ RollbackUndoesTheWork'
  BY DEF OpenReader, CloseReader, Refused, Returns, Throws,
     CommitKeepsTheWork, RollbackUndoesTheWork
<1>4. blnIsOpen' \in BOOLEAN /\ blnTranActive' \in BOOLEAN /\ erred' \in BOOLEAN
  BY <1>0, <1>1, Zenon DEF TypeOK, OpenReader, CloseReader, Refused, told
<1>5. \/ /\ UNCHANGED <<up, inTran, failed, pending>>
         /\ busy' = busy \/ (oConn \in up /\ busy' = busy \cup {oConn})
         /\ erred' = erred \/ erred' = TRUE
      \/ \E c \in {oConn} \cup inTran \cup busy : Goes(c)
  BY Zenon DEF OpenReader, CloseReader, Refused, told
<1>6. /\ OneConnection' /\ UnitInv' /\ up' \subseteq up
      /\ pending' \in [Conns -> SUBSET Writes]
  <2>1. CASE \E c \in {oConn} \cup inTran \cup busy : Goes(c)
    <3>1. /\ up' = {} /\ busy' = {} /\ inTran' = {} /\ failed' = {}
          /\ pending' \in [Conns -> SUBSET Writes]
          /\ \A x \in Conns : pending'[x] = {}
      BY <2>1, NoConnection
    <3> QED
      BY <1>0, <1>1, <3>1 DEF OneConnection, UnitInv
  <2>2. CASE /\ UNCHANGED <<up, inTran, failed, pending>>
             /\ (busy' = busy \/ (oConn \in up /\ busy' = busy \cup {oConn}))
             /\ (erred' = erred \/ erred' = TRUE)
    <3>1. OneConnection'
      BY <1>0, <1>1, <2>2 DEF OneConnection
    <3>2. failed' # {} => erred'
      <4>1. failed # {} => erred
        BY <1>0, Zenon DEF UnitInv
      <4>2. CASE erred' = TRUE
        BY <4>2
      <4>3. CASE erred' = erred
        BY <2>2, <4>1, <4>3
      <4> QED
        BY <2>2, <4>2, <4>3
    <3>3. UnitInv'
      BY <1>0, <1>1, <2>2, <3>2 DEF UnitInv
    <3> QED
      BY <1>0, <2>2, <3>1, <3>3 DEF TypeOK
  <2> QED
    BY <1>5, <2>1, <2>2, Zenon
<1>7. FlagsAgree' /\ MadeInv' /\ up' \subseteq Conns /\ busy' \subseteq Conns
      /\ inTran' \subseteq Conns /\ failed' \subseteq Conns
  BY <1>0, <1>1, <1>6 DEF FlagsAgree, OneConnection, UnitInv, TypeOK, MadeInv
<1>8. TypeOK'
  BY <1>0, <1>1, <1>2, <1>4, <1>6, <1>7, Zenon DEF TypeOK
<1>9. AutocommitIsDurable'
  BY <1>0, <1>1 DEF AutocommitIsDurable
<1> QED
  BY <1>3, <1>6, <1>7, <1>8, <1>9 DEF IInv

-----------------------------------------------------------------------------
(* The invariant is inductive. *)
LEMMA NextIInv == IInv /\ [Next]_vars => IInv'
<1> SUFFICES ASSUME IInv, [Next]_vars PROVE IInv'
  OBVIOUS
<1>1. CASE UNCHANGED vars
  BY <1>1 DEF vars, fields, server, told, IInv, TypeOK, FlagsAgree, OneConnection, MadeInv,
     UnitInv, CommitKeepsTheWork, RollbackUndoesTheWork, AutocommitIsDurable, Committed
<1> QED
  BY <1>1, OpenKeeps, CloseKeeps, BeginTranKeeps, CommitTranKeeps, RollbackTranKeeps,
     StatementKeeps, ReaderKeeps, Zenon DEF Next

LEMMA Invariant == Spec => []IInv
BY InitIInv, NextIInv, PTL DEF Spec

(* The fields have their types and the flags agree with them. *)
THEOREM TypeCorrect == Spec => []TypeOK
<1>1. IInv => TypeOK
  BY Zenon DEF IInv
<1> QED
  BY <1>1, Invariant, PTL

(* No open connection and no transaction is ever lost from sight. *)
THEOREM OneConnectionOnly == Spec => []OneConnection
<1>1. IInv => OneConnection
  BY Zenon DEF IInv
<1> QED
  BY <1>1, Invariant, PTL

(* A commit that returns normally is true to the unit of work. *)
THEOREM CommitIsTrue == Spec => []CommitKeepsTheWork
<1>1. IInv => CommitKeepsTheWork
  BY Zenon DEF IInv
<1> QED
  BY <1>1, Invariant, PTL

(* A rollback that returns normally is true to the unit of work. *)
THEOREM RollbackIsTrue == Spec => []RollbackUndoesTheWork
<1>1. IInv => RollbackUndoesTheWork
  BY Zenon DEF IInv
<1> QED
  BY <1>1, Invariant, PTL

(* What is acknowledged while no transaction is active stays. *)
THEOREM AutocommitIsKept == Spec => []AutocommitIsDurable
<1>1. IInv => AutocommitIsDurable
  BY Zenon DEF IInv
<1> QED
  BY <1>1, Invariant, PTL

-----------------------------------------------------------------------------
(* The stages of a unit of work in terms of the fields.                    *)
LEMMA Stages ==
  ASSUME IInv
  PROVE  /\ (Stage # "none") = blnTranActive
         /\ Stage = "none" <=> oTran = 0
         /\ Stage = "open" <=> oTran \in inTran
         /\ Stage = "open" => /\ oTran = oConn /\ oConn \in up /\ inTran = {oTran}
                              /\ pending[oTran] = unit /\ Held = unit
         /\ Stage # "open" => inTran = {} /\ Held = {}
<1>1. /\ TypeOK /\ OneConnection /\ UnitInv
      /\ blnTranActive \in BOOLEAN /\ (blnTranActive <=> oTran # 0)
  BY Zenon DEF IInv, TypeOK, FlagsAgree
<1>2. 0 \notin inTran
  BY <1>1, MaxConnsAssumption DEF TypeOK, Conns
<1>3. Stage = "open" <=> oTran \in inTran
  BY <1>1, <1>2, Zenon DEF Stage
<1>4. Stage = "none" <=> oTran = 0
  BY <1>1, Zenon DEF Stage
<1>5. (Stage # "none") = blnTranActive
  BY <1>1, <1>4, Zenon
<1>6. inTran \subseteq up /\ up \subseteq {oConn} /\ inTran \subseteq {oTran}
  BY <1>1 DEF OneConnection
<1>7. Stage = "open" => oTran = oConn /\ oConn \in up /\ inTran = {oTran}
  BY <1>3, <1>6
<1>8. Stage = "open" => pending[oTran] = unit /\ Held = unit
  BY <1>1, <1>3, Zenon DEF UnitInv, Held
<1>9. Stage # "open" => inTran = {} /\ Held = {}
  BY <1>3, <1>6 DEF Held
<1> QED
  BY <1>3, <1>4, <1>5, <1>7, <1>8, <1>9, Zenon

(* Of a step that ends with no transaction in progress: nothing is held.   *)
LEMMA NothingHeld ==
  ASSUME IInv', inTran' = {}
  PROVE  /\ Stage' # "open" /\ Held' = {}
         /\ Stage' = "none" <=> oTran' = 0
<1>1. blnTranActive' \in BOOLEAN /\ (blnTranActive' <=> oTran' # 0)
  BY Zenon DEF IInv, TypeOK, FlagsAgree
<1>2. Stage' # "open" /\ (Stage' = "none" <=> oTran' = 0)
  BY <1>1 DEF Stage
<1> QED
  BY <1>2 DEF Held

(* Of a step that ends the transaction behind the object's back. *)
LEMMA LostStage ==
  ASSUME IInv', inTran' = {}, oTran' # 0
  PROVE  Stage' = "lost" /\ Held' = {}
<1>1. Stage' \in {"none", "open", "lost"}
  BY DEF Stage
<1> QED
  BY <1>1, NothingHeld

(* What the caller is told of a call. *)
LEMMA CallIsTold ==
  ASSUME IInv, NEW c
  PROVE  /\ Returns(c) => Work!Call(c, TRUE)
         /\ Throws(c) => Work!Call(c, FALSE)
BY Stages, Zenon DEF Returns, Throws, Work!Call

(* A call that leaves the unit alone. *)
LEMMA OtherCall ==
  ASSUME IInv, NEW c \in {"Open", "BeginTran", "CommitTran", "RollbackTran", "read", "closeReader"},
         Returns(c) \/ Throws(c),
         Returns(c) /\ c \in {"CommitTran", "RollbackTran"} => oTran = 0,
         UNCHANGED <<durable, erred, Stage, Held>>
  PROVE  Work!Next
<1>1. CASE Returns(c)
  <2>1. Stage # "none" => c \notin {"CommitTran", "RollbackTran"}
    BY <1>1, Stages, Zenon
  <2> QED
    BY <1>1, <2>1, CallIsTold, Zenon DEF Work!Next, Work!Other
<1>2. CASE Throws(c)
  BY <1>2, CallIsTold, Zenon DEF Work!Next, Work!Other
<1> QED
  BY <1>1, <1>2

(* The steps of the connection are steps of the unit of work. *)
LEMMA OpenWorks == ASSUME IInv, IInv', Open PROVE Work!Next
<1>1. UNCHANGED <<oTran, blnTranActive, inTran, durable, unit, erred>>
  BY Zenon DEF Open, told
<1>2. UNCHANGED <<Stage, Held>>
  BY <1>1 DEF Stage, Held
<1>3. Returns("Open") \/ Throws("Open")
  BY Zenon DEF Open
<1> QED
  BY <1>1, <1>2, <1>3, OtherCall

LEMMA CloseWorks == ASSUME IInv, IInv', Close PROVE Work!Next
<1>1. oTran' = 0 /\ Returns("Close") /\ UNCHANGED <<durable, erred>>
  BY Zenon DEF Close, told
<1>2. inTran' = {}
  <2>1. inTran' \subseteq {oTran'} /\ 0 \notin inTran'
    BY MaxConnsAssumption DEF IInv, TypeOK, OneConnection, Conns
  <2> QED
    BY <1>1, <2>1
<1>3. Stage' = "none" /\ Held' = {}
  BY <1>1, <1>2, NothingHeld, Zenon
<1> QED
  BY <1>1, <1>3, CallIsTold, Zenon DEF Work!Next, Work!Close

LEMMA BeginTranWorks == ASSUME IInv, IInv', BeginTran PROVE Work!Next
<1>1. UNCHANGED durable
  BY Zenon DEF BeginTran
<1>2. CASE UNCHANGED <<oTran, blnTranActive, inTran, unit, erred>>
  <2>1. UNCHANGED <<Stage, Held>>
    BY <1>2 DEF Stage, Held
  <2>2. Returns("BeginTran") \/ Throws("BeginTran")
    BY Zenon DEF BeginTran
  <2> QED
    BY <1>1, <1>2, <2>1, <2>2, OtherCall
<1>3. CASE /\ oConn \in up \ (busy \cup inTran)
           /\ oTran' = oConn /\ inTran' = inTran \cup {oConn} /\ blnTranActive' = TRUE
           /\ unit' = {} /\ erred' = FALSE
           /\ Returns("BeginTran")
  <2>1. Stage # "open" /\ Held = {}
    BY <1>3, Stages
  <2>2. Stage' = "open"
    BY <1>3 DEF Stage
  <2>3. Held' = {}
    BY <1>3 DEF Held
  <2> QED
    BY <1>1, <1>3, <2>1, <2>2, <2>3, CallIsTold, Zenon DEF Work!Next, Work!Begin
<1> QED
  BY <1>2, <1>3, Zenon DEF BeginTran

(* What a commit makes durable is all that was held, or nothing after a    *)
(* statement threw.                                                        *)
LEMMA CommittedIsHeld ==
  ASSUME IInv, Usable(oTran)
  PROVE  /\ Stage = "open" /\ oTran # 0 /\ oTran \in {oConn, oTran} \cup busy
         /\ oTran \in {oConn} \cup inTran \cup busy
         /\ Committed = Held \/ (erred /\ Committed = {})
<1>1. oTran \in inTran /\ Stage = "open" /\ oTran # 0
  BY Stages, Zenon DEF Usable
<1>2. CASE oTran \in failed
  BY <1>1, <1>2 DEF Committed, IInv, UnitInv
<1>3. CASE oTran \notin failed
  BY <1>1, <1>3, Stages DEF Committed
<1> QED
  BY <1>1, <1>2, <1>3

(* A commit or a rollback throws, and the unit is lost. *)
LEMMA ThrowLoses ==
  ASSUME IInv, NEW c \in {"CommitTran", "RollbackTran"}, Throws(c), Stage = "open",
         Stage' = "lost", Held' = {}, UNCHANGED erred,
         durable' \in {durable, IF c = "CommitTran" THEN durable \cup Held ELSE durable}
  PROVE  Work!Next
<1>1. erred' = (erred \/ c \in {"query", "read"})
  <2>1. erred \in BOOLEAN
    BY Zenon DEF IInv, TypeOK
  <2> QED
    BY <2>1
<1>2. Work!Lose(c)
  <2>1. (c = "closeReader") = FALSE
    OBVIOUS
  <2> QED
    BY <1>1, <2>1, CallIsTold, Zenon DEF Work!Lose
<1> QED
  BY <1>2, Zenon DEF Work!Next

LEMMA CommitTranWorks == ASSUME IInv, IInv', CommitTran PROVE Work!Next
<1>0. UNCHANGED <<erred, unit>>
  BY Zenon DEF CommitTran, told
<1>1. CASE ~Usable(oTran)
  <2>1. UNCHANGED <<oTran, blnTranActive, inTran, durable>>
    BY <1>1, Zenon DEF CommitTran, server
  <2>2. UNCHANGED <<Stage, Held>>
    BY <1>0, <2>1 DEF Stage, Held
  <2>3. \/ Throws("CommitTran")
        \/ Returns("CommitTran") /\ oTran = 0
    BY <1>1, Zenon DEF CommitTran
  <2>4. Returns("CommitTran") => ~Throws("CommitTran")
    BY DEF Returns, Throws
  <2> QED
    BY <1>0, <2>1, <2>2, <2>3, <2>4, OtherCall
<1>2. ASSUME Usable(oTran) PROVE Work!Next
  <2>0. /\ Stage = "open" /\ oTran # 0
        /\ Committed = Held \/ (erred /\ Committed = {})
    BY <1>2, CommittedIsHeld
  <2>1. inTran' = {}
    <3>1. CASE TransactionEnds(oTran)
      BY <1>2, <3>1, CommittedIsHeld, NoTransaction
    <3>2. CASE Goes(oTran)
      BY <1>2, <3>2, CommittedIsHeld, NoConnection
    <3> QED
      BY <1>2, <2>0, <3>1, <3>2, Zenon DEF CommitTran
  <2>2. CASE durable' = durable \cup Committed /\ Forget /\ Returns("CommitTran")
    <3>1. Stage' = "none" /\ Held' = {}
      BY <2>1, <2>2, NothingHeld, Zenon DEF Forget
    <3>2. durable' = durable \cup Held \/ (erred /\ durable' = durable)
      BY <2>0, <2>2
    <3> QED
      BY <1>0, <2>0, <2>2, <3>1, <3>2, CallIsTold, Zenon DEF Work!Next, Work!Keep
  <2>3. CASE /\ durable' \in {durable, durable \cup Committed}
             /\ UNCHANGED oTran /\ Throws("CommitTran")
    <3>1. Stage' = "lost" /\ Held' = {}
      BY <2>0, <2>1, <2>3, LostStage
    <3>2. durable' \in {durable, durable \cup Held}
      BY <2>0, <2>3
    <3> QED
      BY <1>0, <2>0, <2>3, <3>1, <3>2, ThrowLoses
  <2> QED
    BY <1>2, <2>0, <2>2, <2>3, Zenon DEF CommitTran
<1> QED
  BY <1>1, <1>2

LEMMA RollbackTranWorks == ASSUME IInv, IInv', RollbackTran PROVE Work!Next
<1>0. UNCHANGED <<durable, erred, unit>>
  BY Zenon DEF RollbackTran, told
<1>1. CASE ~Usable(oTran)
  <2>1. UNCHANGED <<oTran, blnTranActive, inTran>>
    BY <1>1, Zenon DEF RollbackTran
  <2>2. UNCHANGED <<Stage, Held>>
    BY <1>0, <2>1 DEF Stage, Held
  <2>3. \/ Throws("RollbackTran")
        \/ Returns("RollbackTran") /\ oTran = 0
    BY <1>1, Zenon DEF RollbackTran
  <2>4. Returns("RollbackTran") => ~Throws("RollbackTran")
    BY DEF Returns, Throws
  <2> QED
    BY <1>0, <2>1, <2>2, <2>3, <2>4, OtherCall
<1>2. ASSUME Usable(oTran) PROVE Work!Next
  <2>0. Stage = "open" /\ oTran # 0
    BY <1>2, CommittedIsHeld
  <2>1. inTran' = {}
    <3>1. CASE TransactionEnds(oTran)
      BY <1>2, <3>1, CommittedIsHeld, NoTransaction
    <3>2. CASE Goes(oTran)
      BY <1>2, <3>2, CommittedIsHeld, NoConnection
    <3> QED
      BY <1>2, <2>0, <3>1, <3>2, Zenon DEF RollbackTran
  <2>2. CASE Forget /\ Returns("RollbackTran")
    <3>1. Stage' = "none" /\ Held' = {}
      BY <2>1, <2>2, NothingHeld, Zenon DEF Forget
    <3> QED
      BY <1>0, <2>0, <2>2, <3>1, CallIsTold, Zenon DEF Work!Next, Work!Undo
  <2>3. CASE UNCHANGED oTran /\ Throws("RollbackTran")
    <3>1. Stage' = "lost" /\ Held' = {}
      BY <2>0, <2>1, <2>3, LostStage
    <3> QED
      BY <1>0, <2>0, <2>3, <3>1, ThrowLoses
  <2> QED
    BY <1>2, <2>0, <2>2, <2>3, Zenon DEF RollbackTran
<1> QED
  BY <1>1, <1>2

(* A statement is acknowledged and held, or lasts; it throws and writes    *)
(* nothing, or no unit is open; or it takes the unit with its connection.  *)
LEMMA StatementWorks ==
  ASSUME IInv, IInv', NEW w \in Writes, Statement(w) PROVE Work!Next
<1>0. UNCHANGED <<oTran, blnTranActive>> /\ oTran' = oTran
  BY Zenon DEF Statement, fields
<1>1. CASE StatementSucceeds(w) \/ (StatementReopens(w) /\ Acknowledged(w))
  <2>1. UNCHANGED <<inTran, erred>> /\ Returns("query")
    BY <1>1, Zenon DEF StatementSucceeds, StatementReopens, Acknowledged
  <2>2. UNCHANGED Stage
    BY <1>0, <2>1 DEF Stage
  <2>3. CASE Stage = "open"
    <3>1. oConn \in up /\ oConn \in inTran /\ blnTranActive /\ Held = unit
      BY <2>3, Stages
    <3>2. durable' = durable /\ unit' = unit \cup {w}
      BY <1>1, <3>1, Zenon DEF StatementSucceeds, StatementReopens, Acknowledged
    <3>3. Held' = Held \cup {w}
      BY <2>2, <2>3, <3>1, <3>2 DEF Held
    <3> QED
      BY <2>1, <2>2, <2>3, <3>2, <3>3, CallIsTold, Zenon DEF Work!Next, Work!Write
  <2>4. CASE Stage # "open"
    <3>1. oConn \notin inTran /\ Held = {}
      BY <2>4, Stages
    <3>2. durable' = durable \cup {w}
      <4>1. CASE StatementSucceeds(w)
        BY <3>1, <4>1, Zenon DEF StatementSucceeds
      <4>2. CASE StatementReopens(w) /\ Acknowledged(w)
        <5>1. ~Refused("query")
          BY <4>2 DEF Acknowledged, Refused, Returns, Throws
        <5> QED
          BY <4>2, <5>1, Zenon DEF StatementReopens
      <4> QED
        BY <1>1, <4>1, <4>2
    <3>3. Held' = {}
      BY <2>2, <2>4 DEF Held
    <3> QED
      BY <2>1, <2>2, <2>4, <3>1, <3>2, <3>3, CallIsTold, Zenon DEF Work!Next, Work!Write
  <2> QED
    BY <2>3, <2>4
<1>2. CASE StatementFails \/ (StatementReopens(w) /\ Refused("query"))
  <2>1. UNCHANGED <<inTran, unit>> /\ erred' = TRUE /\ Throws("query")
    BY <1>2, Zenon DEF StatementFails, StatementReopens, Refused
  <2>2. UNCHANGED <<Stage, Held>>
    BY <1>0, <2>1 DEF Stage, Held
  <2>3. durable' \in {durable, IF Stage = "open" THEN durable ELSE durable \cup {w}}
    <3>1. CASE StatementFails
      BY <3>1, Zenon DEF StatementFails
    <3>2. CASE StatementReopens(w) /\ Refused("query")
      <4>1. Stage # "open"
        BY <3>2, Stages DEF StatementReopens
      <4>2. ~Acknowledged(w)
        BY <3>2 DEF Acknowledged, Refused, Returns, Throws
      <4> QED
        BY <3>2, <4>1, <4>2, Zenon DEF StatementReopens
    <3> QED
      BY <1>2, <3>1, <3>2
  <2> QED
    BY <2>1, <2>2, <2>3, CallIsTold, Zenon DEF Work!Next, Work!Throw
<1>3. CASE StatementBreaks(w)
  <2>1. Goes(oConn) /\ erred' = TRUE /\ Throws("query") /\ unit' = unit
    BY <1>3, Zenon DEF StatementBreaks, Refused
  <2>2. inTran' = {}
    BY <2>1, NoConnection
  <2>3. CASE Stage = "open"
    <3>1. oConn \in inTran /\ oTran # 0
      BY <2>3, Stages
    <3>2. durable' = durable
      BY <1>3, <3>1, Zenon DEF StatementBreaks
    <3>3. Stage' = "lost" /\ Held' = {}
      BY <1>0, <2>2, <3>1, LostStage
    <3>4. Work!Lose("query")
      BY <2>1, <2>3, <3>2, <3>3, CallIsTold DEF Work!Lose, Work!Call
    <3> QED
      BY <3>4, Zenon DEF Work!Next
  <2>4. CASE Stage # "open"
    <3>1. inTran = {} /\ Held = {}
      BY <2>4, Stages
    <3>2. durable' \in {durable, durable \cup {w}}
      BY <1>3, <3>1, Zenon DEF StatementBreaks
    <3>3. UNCHANGED <<Stage, Held>>
      BY <1>0, <2>1, <2>2, <3>1 DEF Stage, Held
    <3>4. durable' \in {durable, IF Stage = "open" THEN durable ELSE durable \cup {w}}
      BY <2>4, <3>2, Zenon
    <3> QED
      BY <2>1, <3>3, <3>4, CallIsTold, Zenon DEF Work!Next, Work!Throw
  <2> QED
    BY <2>3, <2>4
<1>4. StatementReopens(w) => Acknowledged(w) \/ Refused("query")
  BY Zenon DEF StatementReopens
<1> QED
  BY <1>1, <1>2, <1>3, <1>4, Zenon DEF Statement

LEMMA OpenReaderWorks == ASSUME IInv, IInv', OpenReader PROVE Work!Next
<1>0. UNCHANGED <<oTran, blnTranActive, durable>>
  BY Zenon DEF OpenReader, fields
<1>1. CASE Returns("read") /\ UNCHANGED <<inTran, unit, erred>>
  <2>1. UNCHANGED <<Stage, Held>>
    BY <1>0, <1>1 DEF Stage, Held
  <2> QED
    BY <1>0, <1>1, <2>1, OtherCall
<1>2. CASE /\ IF oConn \in up THEN Goes(oConn) ELSE UNCHANGED <<up, busy, inTran, failed, pending>>
           /\ Refused("read")
  <2>1. erred' = TRUE /\ unit' = unit /\ Throws("read")
    BY <1>2, Zenon DEF Refused
  <2>2. CASE Stage = "open"
    <3>1. oConn \in up /\ oTran # 0
      BY <2>2, Stages
    <3>2. inTran' = {}
      BY <1>2, <3>1, NoConnection
    <3>3. Stage' = "lost" /\ Held' = {}
      BY <1>0, <3>1, <3>2, LostStage
    <3>4. Work!Lose("read")
      BY <1>0, <2>1, <2>2, <3>3, CallIsTold DEF Work!Lose, Work!Call
    <3> QED
      BY <3>4, Zenon DEF Work!Next
  <2>3. CASE Stage # "open"
    <3>1. inTran = {} /\ inTran' = {}
      <4>1. inTran = {}
        BY <2>3, Stages
      <4>2. CASE oConn \in up
        BY <1>2, <4>1, <4>2, NoConnection
      <4>3. CASE oConn \notin up
        BY <1>2, <4>1, <4>3
      <4> QED
        BY <4>1, <4>2, <4>3
    <3>2. UNCHANGED <<Stage, Held>>
      BY <1>0, <2>1, <3>1 DEF Stage, Held
    <3> QED
      BY <1>0, <2>1, <3>2, CallIsTold, Zenon DEF Work!Next, Work!Unread
  <2> QED
    BY <2>2, <2>3
<1> QED
  BY <1>1, <1>2, Zenon DEF OpenReader, told

LEMMA CloseReaderWorks ==
  ASSUME IInv, IInv', NEW c \in Conns, CloseReader(c) PROVE Work!Next
<1>0. /\ UNCHANGED <<oTran, blnTranActive, durable, erred, unit>>
      /\ c \in busy /\ Goes(c) /\ Returns("closeReader")
  BY Zenon DEF CloseReader, fields, told
<1>1. inTran' = {}
  BY <1>0, NoConnection
<1>2. CASE Stage = "open"
  <2>1. Stage' = "lost" /\ Held' = {}
    BY <1>0, <1>1, <1>2, LostStage, Stages
  <2>2. erred' = (erred \/ "closeReader" \in {"query", "read"})
    <3>1. erred \in BOOLEAN
      BY Zenon DEF IInv, TypeOK
    <3> QED
      BY <1>0, <3>1
  <2>3. durable' \in {durable, IF "closeReader" = "CommitTran" THEN durable \cup Held ELSE durable}
    BY <1>0
  <2>4. Work!Lose("closeReader")
    <3>1. ("closeReader" = "closeReader") = TRUE
      OBVIOUS
    <3> QED
      BY <1>0, <1>2, <2>1, <2>2, <2>3, <3>1, CallIsTold, Zenon DEF Work!Lose
  <2> QED
    BY <2>4, Zenon DEF Work!Next
<1>3. CASE Stage # "open"
  <2>1. inTran = {}
    BY <1>3, Stages
  <2>2. UNCHANGED <<Stage, Held>>
    BY <1>0, <1>1, <2>1 DEF Stage, Held
  <2> QED
    BY <1>0, <2>2, OtherCall
<1> QED
  BY <1>2, <1>3

(* To its caller the connection is a unit of work: what is held is kept or *)
(* undone as a whole, and a call that says so is right.                    *)
THEOREM UnitsAreKept == Spec => KeepsUnits
<1>1. Init => Work!Init
  BY DEF Init, Work!Init, Stage, Held
<1>2. ASSUME IInv, IInv', [Next]_vars PROVE [Work!Next]_(Work!vars)
  <2>1. CASE UNCHANGED vars
    BY <2>1 DEF vars, fields, server, told, Work!vars, Stage, Held
  <2> QED
    BY <1>2, <2>1, OpenWorks, CloseWorks, BeginTranWorks, CommitTranWorks, RollbackTranWorks,
       StatementWorks, OpenReaderWorks, CloseReaderWorks, Zenon DEF Next
<1> QED
  BY <1>1, <1>2, Invariant, PTL DEF Spec, KeepsUnits, Work!Spec

-----------------------------------------------------------------------------
(* Any number of managers use the connection as its class allows, whatever *)
(* they do to each other, so everything above holds for them too.          *)
THEOREM ManagersKeepToTheConnection == ManagersSpec => ManagersUseTheConnection
<1>1. ManagersInit => Init
  BY Zenon DEF ManagersInit
<1>2. ASSUME [ManagersNext]_allVars PROVE [Next]_vars
  <2>1. CASE UNCHANGED allVars
    BY <2>1, Zenon DEF allVars
  <2>2. CASE CallerStep
    BY <2>2, Zenon DEF CallerStep, Next
  <2>3. ASSUME NEW m \in Managers, ManagerStep(m) PROVE [Next]_vars
    BY <2>3, Zenon DEF ManagerStep, SetConnection, AddPara, ClearParameters, Unprepared,
       RunQuery, ExecuteReader, GetCommand, Dispose, Next
  <2> QED
    BY <1>2, <2>1, <2>2, <2>3, Zenon DEF ManagersNext
<1> QED
  BY <1>1, <1>2, PTL DEF ManagersSpec, ManagersUseTheConnection, Spec

(* So the managers' caller has its unit of work, too, with any number of   *)
(* managers that share the connection.                                     *)
THEOREM ManagersKeepUnits == ManagersSpec => KeepsUnits
BY ManagersKeepToTheConnection, UnitsAreKept, PTL DEF ManagersUseTheConnection

LEMMA ManagersTypeStep ==
  ManagersTypeOK /\ [ManagersNext]_allVars => ManagersTypeOK'
<1> SUFFICES ASSUME ManagersTypeOK, [ManagersNext]_allVars PROVE ManagersTypeOK'
  OBVIOUS
<1>1. CASE UNCHANGED allVars
  BY <1>1 DEF ManagersTypeOK, allVars, managed
<1>2. CASE CallerStep
  BY <1>2 DEF ManagersTypeOK, CallerStep, managed
<1>3. ASSUME NEW m \in Managers, InitQuery(m) PROVE ManagersTypeOK'
  <2>1. (oManaged[m] = "null") \in BOOLEAN
    BY Zenon
  <2>2. blnLocalConn' \in [Managers -> BOOLEAN]
    BY <1>3, <2>1, Zenon DEF ManagersTypeOK, InitQuery
  <2>3. /\ oManaged' \in [Managers -> {"null", "external", "unopened", "closed"}]
        /\ oParameters' \in [Managers -> {"empty", "fresh", "used"}]
        /\ by' = "manager"
    BY <1>3 DEF ManagersTypeOK, InitQuery
  <2>4. \A k \in Managers : oManaged'[k] = "null" => k # m /\ oManaged[k] = "null"
    BY <1>3 DEF ManagersTypeOK, InitQuery
  <2>5. \A k \in Managers : k # m => blnLocalConn'[k] = blnLocalConn[k]
    BY <1>3 DEF ManagersTypeOK, InitQuery
  <2> QED
    BY <2>2, <2>3, <2>4, <2>5, Zenon DEF ManagersTypeOK
<1>4. ASSUME NEW m \in Managers, ManagerStep(m) PROVE ManagersTypeOK'
  <2>1. CASE Unprepared(m) \/ (\E w \in Writes : RunQuery(m, w)) \/ ExecuteReader(m) \/ GetCommand(m)
    BY <1>3, <2>1, Zenon DEF Unprepared, RunQuery, ExecuteReader, GetCommand
  <2>2. CASE SetConnection(m) \/ AddPara(m) \/ ClearParameters(m) \/ Dispose(m)
    BY <2>2 DEF SetConnection, AddPara, ClearParameters, Dispose, ManagersTypeOK
  <2> QED
    BY <1>4, <2>1, <2>2, Zenon DEF ManagerStep
<1> QED
  BY <1>1, <1>2, <1>4, Zenon DEF ManagersNext

(* Type correctness of any number of managers; one without a connection    *)
(* has blnLocalConn set.                                                   *)
THEOREM ManagersTypeCorrect == ManagersSpec => []ManagersTypeOK
<1>1. ManagersInit => ManagersTypeOK
  BY DEF ManagersInit, ManagersTypeOK
<1> QED
  BY <1>1, ManagersTypeStep, PTL DEF ManagersSpec
=============================================================================
