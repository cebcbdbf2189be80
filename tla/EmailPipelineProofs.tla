------------------------ MODULE EmailPipelineProofs ------------------------
(***************************************************************************)
(* For every set of mails, every mixture of their classes, every number of *)
(* attempts and of sessions: worker and broker agree on what is            *)
(* outstanding, mails are settled only through their own delivery, and the *)
(* pipeline implements AtLeastOnce.                                        *)
(***************************************************************************)
EXTENDS EmailPipeline, FiniteSetTheorems, TLAPS

-----------------------------------------------------------------------------
(* The inductive invariant, in parts.                                       *)

(* A mail on the wire is an API request's and is not at the broker yet.     *)
WireInv ==
  /\ \A m \in Mails : pub[m] # "idle" => m \in OfApi
  /\ \A m \in OfApi : pub[m] \in {"idle", "open", "declared"} => status[m] = "none"
  /\ \A m \in wire : pub[m] = "written" /\ status[m] = "none"

(* Only a running process has a channel, and what StopAsync has closed      *)
(* stays closed, so the token is cancelled only when no channel is open.    *)
LinkInv ==
  /\ wk \in {"off", "connected"} => link = "none"
  /\ wk \in {"closed", "cancelled"} => link \in {"none", "closed"}
  /\ link = "up" => ns \in Sessions /\ first <= ns

(* A session that has not begun has seen no delivery, and a busy handler is *)
(* of a session of the present process.                                     *)
SessionInv ==
  \A s \in Sessions :
    /\ s > ns => log[s] = <<>> /\ taken[s] = 0
    /\ hnd[s] # "idle" => s \in first..ns /\ taken[s] \in 1..Len(log[s])

(* No mail is outstanding twice. *)
OutstandingOnce ==
  link = "up" => \A t, u \in OutstandingTags(ns) : log[ns][t] = log[ns][u] => t = u

(* What a handler is about to do tells what has happened to its mail; the   *)
(* open session's handler never refuses a mail that was sent.               *)
HandlerInv ==
  \A s \in Sessions :
    /\ hnd[s] = "send" => ~sent[s] /\ tries[s] < MaxAttempts
    /\ hnd[s] = "ack" => sent[s] \/ InHand(s) \in Silent
    /\ hnd[s] # "idle" /\ sent[s] => copies[InHand(s)] > 0
    /\ hnd[s] = "nack" /\ sent[s] => ~Live(s)

(* Only mails the broker has stored are ever delivered. *)
AtBroker == {m \in Mails : status[m] \in {"ready", "unacked", "acked", "dropped"}}
LogInv == \A s \in Sessions : \A t \in 1..Len(log[s]) : log[s][t] \in AtBroker

IInv == /\ TypeOK /\ WireInv /\ LinkInv /\ SessionInv /\ LogInv
        /\ OutstandingAgree /\ OutstandingOnce /\ HandlerInv

-----------------------------------------------------------------------------
(* Facts about the pieces of a step.                                        *)

(* Requeueing changes only mails that were outstanding, and leaves none.    *)
LEMMA RequeuedFacts ==
  ASSUME BrokerTypeOK
  PROVE  /\ Requeued \in [Mails -> {"none", "lost", "ready", "unacked", "acked", "dropped"}]
         /\ \A m \in Mails : Requeued[m] # "unacked"
         /\ \A m \in Mails : status[m] # "unacked" => Requeued[m] = status[m]
         /\ \A m \in Mails : status[m] = "unacked" => Requeued[m] = "ready"
  BY DEF BrokerTypeOK, Requeued

(* A busy handler has a mail in its hands. *)
LEMMA InHandIsMail ==
  ASSUME HandlerTypeOK, SessionInv, NEW s \in Sessions, hnd[s] # "idle"
  PROVE  InHand(s) \in Mails
<1>1. taken[s] \in 1..Len(log[s]) /\ log[s] \in Seq(Mails)
  BY DEF HandlerTypeOK, SessionInv
<1>2. QED
  BY <1>1 DEF InHand

LEMMA InitInv == Init => IInv
<1> SUFFICES ASSUME Init
             PROVE  IInv
  OBVIOUS
<1> USE ConstantsAssumption
<1>1. TypeOK
  <2>1. ApiTypeOK
    BY DEF Init, ApiTypeOK
  <2>2. BrokerTypeOK
    BY DEF Init, BrokerTypeOK
  <2>3. WorkerTypeOK
    <3>1. sub \in BOOLEAN
      BY Zenon DEF Init
    <3>2. QED
      BY <3>1 DEF Init, WorkerTypeOK
  <2>4. HandlerTypeOK
    BY DEF Init, HandlerTypeOK, Sessions
  <2>5. QED
    BY <2>1, <2>2, <2>3, <2>4 DEF TypeOK
<1>2. WireInv
  BY DEF Init, WireInv, OfApi
<1>3. LinkInv
  BY DEF Init, LinkInv
<1>4. SessionInv
  BY DEF Init, SessionInv, Sessions
<1>5. OutstandingAgree /\ OutstandingOnce
  BY DEF Init, OutstandingAgree, OutstandingOnce
<1>6. HandlerInv
  BY DEF Init, HandlerInv
<1>7. LogInv
  BY DEF Init, LogInv
<1>8. QED
  BY <1>1, <1>2, <1>3, <1>4, <1>5, <1>6, <1>7 DEF IInv

-----------------------------------------------------------------------------
(* Type correctness, one group of variables at a time. *)

LEMMA ApiTypeStep == TypeOK /\ [Next]_vars => ApiTypeOK'
<1> SUFFICES ASSUME TypeOK, [Next]_vars
             PROVE  ApiTypeOK'
  OBVIOUS
<1>1. ApiTypeOK
  BY DEF TypeOK
<1>2. ASSUME UNCHANGED apiVars
      PROVE  ApiTypeOK'
  BY <1>1, <1>2 DEF ApiTypeOK, apiVars
<1>3. ASSUME NEW m \in Mails, Api(m)
      PROVE  ApiTypeOK'
  BY <1>1, <1>3 DEF ApiTypeOK, Api, Reject, OpenChannel, PublisherDeclares, Publish,
                   PublishThrows, ReturnOk
<1>4. ASSUME NEW m \in Mails, Receive(m) \/ LosePublish(m)
      PROVE  ApiTypeOK'
  BY <1>1, <1>4 DEF ApiTypeOK, Receive, LosePublish
<1>5. CASE BrokerStops
  BY <1>1, <1>5 DEF ApiTypeOK, BrokerStops
<1>6. ASSUME NEW m \in Mails, ForeignPublish(m) \/ Deliver(m)
      PROVE  UNCHANGED apiVars
  BY <1>6, Zenon DEF ForeignPublish, Deliver
<1>7. ASSUME LinkDrops \/ BrokerStarts \/ ConsumerTimeout
      PROVE  UNCHANGED apiVars
  BY <1>7, Zenon DEF LinkDrops, BrokerStarts, ConsumerTimeout
<1>8. ASSUME Worker
      PROVE  UNCHANGED apiVars
  BY <1>8, Zenon DEF Worker, WorkerConnects, CreateChannel, WorkerDeclares, StartThrows,
         ExecuteWithoutChannel, Consume, ConsumeThrows, Recover, StopRequested,
         CloseChannel, CloseThrows, CancelToken, ProcessEnds
<1>9. ASSUME NEW s \in Sessions, Handler(s)
      PROVE  UNCHANGED apiVars
  BY <1>9, Zenon DEF Handler, Take, DropBuffered, SendSucceeds, SendFails, Ack, AckThrows, Nack
<1>10. ASSUME UNCHANGED vars
       PROVE  UNCHANGED apiVars
  BY <1>10, Zenon DEF vars
<1>11. QED
  BY <1>2, <1>3, <1>4, <1>5, <1>6, <1>7, <1>8, <1>9, <1>10, Zenon DEF Next, Broker

LEMMA BrokerTypeStep == TypeOK /\ [Next]_vars => BrokerTypeOK'
<1> SUFFICES ASSUME TypeOK, [Next]_vars
             PROVE  BrokerTypeOK'
  OBVIOUS
<1>1. BrokerTypeOK /\ WorkerTypeOK /\ HandlerTypeOK
  BY DEF TypeOK
<1>2. ASSUME UNCHANGED brokerVars
      PROVE  BrokerTypeOK'
  BY <1>1, <1>2 DEF BrokerTypeOK, brokerVars
<1>3. ASSUME NEW m \in Mails, Api(m)
      PROVE  BrokerTypeOK'
  <2>1. CASE PublisherDeclares(m)
    BY <1>1, <2>1 DEF BrokerTypeOK, PublisherDeclares
  <2>2. CASE UNCHANGED brokerVars
    BY <1>2, <2>2
  <2>3. QED
    BY <1>3, <2>1, <2>2, Zenon DEF Api, Reject, OpenChannel, Publish, PublishThrows, ReturnOk
<1>4. ASSUME NEW m \in Mails,
             Receive(m) \/ LosePublish(m) \/ ForeignPublish(m) \/ Deliver(m)
      PROVE  BrokerTypeOK'
  BY <1>1, <1>4 DEF BrokerTypeOK, Receive, LosePublish, ForeignPublish, Deliver, Enqueue
<1>5. CASE LinkDrops \/ BrokerStops \/ BrokerStarts \/ ConsumerTimeout
  BY <1>1, <1>5, RequeuedFacts
     DEF BrokerTypeOK, LinkDrops, BrokerStops, BrokerStarts, ConsumerTimeout
<1>6. CASE Worker
  <2>1. CASE WorkerDeclares \/ CloseChannel \/ ProcessEnds
    BY <1>1, <2>1, RequeuedFacts DEF BrokerTypeOK, WorkerDeclares, CloseChannel, ProcessEnds
  <2>2. CASE UNCHANGED brokerVars
    BY <1>2, <2>2
  <2>3. QED
    BY <1>6, <2>1, <2>2, Zenon
       DEF Worker, WorkerConnects, CreateChannel, StartThrows, ExecuteWithoutChannel, Consume,
           ConsumeThrows, Recover, StopRequested, CloseThrows, CancelToken
<1>7. ASSUME NEW s \in Sessions, Handler(s)
      PROVE  BrokerTypeOK'
  <2>1. CASE Ack(s) \/ Nack(s)
    BY <1>1, <2>1 DEF BrokerTypeOK, Ack, Nack, Settle
  <2>2. CASE UNCHANGED brokerVars
    BY <1>2, <2>2
  <2>3. QED
    BY <1>7, <2>1, <2>2, Zenon
       DEF Handler, Take, DropBuffered, SendSucceeds, SendFails, AckThrows
<1>8. CASE UNCHANGED vars
  BY <1>2, <1>8, Zenon DEF vars
<1>9. QED
  BY <1>3, <1>4, <1>5, <1>6, <1>7, <1>8, Zenon DEF Next, Broker

LEMMA WorkerTypeStep == TypeOK /\ [Next]_vars => WorkerTypeOK'
<1> SUFFICES ASSUME TypeOK, [Next]_vars
             PROVE  WorkerTypeOK'
  OBVIOUS
<1>1. WorkerTypeOK
  BY DEF TypeOK
<1>2. ASSUME UNCHANGED workerVars
      PROVE  WorkerTypeOK'
  BY <1>1, <1>2 DEF WorkerTypeOK, workerVars
<1>3. ASSUME NEW m \in Mails, Api(m)
      PROVE  UNCHANGED workerVars
  BY <1>3, Zenon DEF Api, Reject, OpenChannel, PublisherDeclares, Publish, PublishThrows, ReturnOk
<1>4. ASSUME NEW m \in Mails,
             Receive(m) \/ LosePublish(m) \/ ForeignPublish(m) \/ Deliver(m)
      PROVE  UNCHANGED workerVars
  BY <1>4, Zenon DEF Receive, LosePublish, ForeignPublish, Deliver
<1>5. CASE LinkDrops \/ BrokerStops \/ ConsumerTimeout
  BY <1>1, <1>5 DEF WorkerTypeOK, LinkDrops, BrokerStops, ConsumerTimeout
<1>6. ASSUME BrokerStarts
      PROVE  UNCHANGED workerVars
  BY <1>6, Zenon DEF BrokerStarts
<1>7. CASE Worker
  <2>1. CASE CreateChannel \/ Recover
    BY <1>1, <2>1, ConstantsAssumption DEF WorkerTypeOK, CreateChannel, Recover
  <2>2. CASE Consume
    BY <1>1, <2>2 DEF WorkerTypeOK, Consume
  <2>3. CASE ProcessEnds
    <3>1. sub' \in BOOLEAN
      BY <2>3, Zenon DEF ProcessEnds
    <3>2. QED
      BY <1>1, <2>3, <3>1, ConstantsAssumption DEF WorkerTypeOK, ProcessEnds
  <2>4. CASE WorkerConnects \/ WorkerDeclares \/ StartThrows \/ ExecuteWithoutChannel
    BY <1>1, <2>4
       DEF WorkerTypeOK, WorkerConnects, WorkerDeclares, StartThrows, ExecuteWithoutChannel
  <2>5. CASE ConsumeThrows \/ StopRequested \/ CloseThrows \/ CancelToken
    BY <1>1, <2>5 DEF WorkerTypeOK, ConsumeThrows, StopRequested, CloseThrows, CancelToken
  <2>6. CASE CloseChannel
    BY <1>1, <2>6 DEF WorkerTypeOK, CloseChannel
  <2>7. QED
    BY <1>7, <2>1, <2>2, <2>3, <2>4, <2>5, <2>6, Zenon DEF Worker
<1>8. ASSUME NEW s \in Sessions, Handler(s)
      PROVE  UNCHANGED workerVars
  BY <1>8, Zenon DEF Handler, Take, DropBuffered, SendSucceeds, SendFails, Ack, AckThrows, Nack
<1>9. CASE UNCHANGED vars
  BY <1>2, <1>9, Zenon DEF vars
<1>10. QED
  BY <1>2, <1>3, <1>4, <1>5, <1>6, <1>7, <1>8, <1>9, Zenon DEF Next, Broker

LEMMA HandlerTypeStep ==
  TypeOK /\ LinkInv /\ SessionInv /\ HandlerInv /\ [Next]_vars => HandlerTypeOK'
<1> SUFFICES ASSUME TypeOK, LinkInv, SessionInv, HandlerInv, [Next]_vars
             PROVE  HandlerTypeOK'
  OBVIOUS
<1>1. HandlerTypeOK /\ WorkerTypeOK
  BY DEF TypeOK
<1>2. ASSUME UNCHANGED handlerVars
      PROVE  HandlerTypeOK'
  BY <1>1, <1>2 DEF HandlerTypeOK, handlerVars
<1>3. ASSUME NEW m \in Mails, Api(m)
      PROVE  UNCHANGED handlerVars
  BY <1>3, Zenon DEF Api, Reject, OpenChannel, PublisherDeclares, Publish, PublishThrows, ReturnOk
<1>4. ASSUME NEW m \in Mails, Receive(m) \/ LosePublish(m) \/ ForeignPublish(m)
      PROVE  UNCHANGED handlerVars
  BY <1>4, Zenon DEF Receive, LosePublish, ForeignPublish
<1>5. ASSUME NEW m \in Mails, Deliver(m)
      PROVE  HandlerTypeOK'
  <2>1. ns \in Sessions
    BY <1>5 DEF Deliver, LinkInv
  <2>2. log' \in [Sessions -> Seq(Mails)]
    BY <1>1, <1>5, <2>1 DEF HandlerTypeOK, Deliver
  <2>3. \A s \in Sessions : Len(log[s]) <= Len(log'[s])
    BY <1>1, <1>5, <2>1 DEF HandlerTypeOK, Deliver
  <2>4. QED
    BY <1>1, <1>5, <2>2, <2>3 DEF HandlerTypeOK, Deliver
<1>6. ASSUME LinkDrops \/ BrokerStops \/ BrokerStarts \/ ConsumerTimeout
      PROVE  UNCHANGED handlerVars
  BY <1>6, Zenon DEF LinkDrops, BrokerStops, BrokerStarts, ConsumerTimeout
<1>7. CASE ProcessEnds
  BY <1>1, <1>7, ConstantsAssumption DEF HandlerTypeOK, ProcessEnds
<1>8. ASSUME Worker, ~ProcessEnds
      PROVE  UNCHANGED handlerVars
  BY <1>8, Zenon
     DEF Worker, WorkerConnects, CreateChannel, WorkerDeclares, StartThrows,
         ExecuteWithoutChannel, Consume, ConsumeThrows, Recover, StopRequested,
         CloseChannel, CloseThrows, CancelToken
<1>9. ASSUME NEW s \in Sessions, Handler(s)
      PROVE  HandlerTypeOK'
  <2>1. CASE Take(s)
    BY <1>1, <2>1, ConstantsAssumption DEF HandlerTypeOK, Take
  <2>2. CASE DropBuffered(s)
    BY <1>1, <2>2 DEF HandlerTypeOK, DropBuffered
  <2>3. CASE SendSucceeds(s)
    <3>1. InHand(s) \in Mails
      BY <1>1, <2>3, InHandIsMail DEF SendSucceeds
    <3>2. QED
      BY <1>1, <2>3, <3>1 DEF HandlerTypeOK, SendSucceeds
  <2>4. CASE SendFails(s)
    <3>1. InHand(s) \in Mails /\ tries[s] < MaxAttempts
      BY <1>1, <2>4, InHandIsMail DEF SendFails, HandlerInv
    <3>2. tries' \in [Sessions -> 0..MaxAttempts]
      BY <1>1, <2>4, <3>1, ConstantsAssumption DEF HandlerTypeOK, SendFails
    <3>3. copies' = copies \/ copies' = [copies EXCEPT ![InHand(s)] = @ + 1]
      BY <2>4, Zenon DEF SendFails
    <3>4. copies' \in [Mails -> Nat]
      BY <1>1, <3>1, <3>3 DEF HandlerTypeOK
    <3>5. QED
      BY <1>1, <2>4, <3>2, <3>4 DEF HandlerTypeOK, SendFails
  <2>5. CASE Ack(s) \/ AckThrows(s) \/ Nack(s)
    BY <1>1, <2>5 DEF HandlerTypeOK, Ack, AckThrows, Nack
  <2>6. QED
    BY <1>9, <2>1, <2>2, <2>3, <2>4, <2>5, Zenon DEF Handler
<1>10. CASE UNCHANGED vars
  BY <1>2, <1>10, Zenon DEF vars
<1>11. QED
  BY <1>2, <1>3, <1>4, <1>5, <1>6, <1>7, <1>8, <1>9, <1>10, Zenon DEF Next, Broker

-----------------------------------------------------------------------------
(* The mail in the hands of the open session's handler is outstanding.      *)
LEMMA InHandUnacked ==
  ASSUME TypeOK, SessionInv, OutstandingAgree,
         NEW s \in Sessions, Live(s), hnd[s] # "idle"
  PROVE  InHand(s) \in Mails /\ status[InHand(s)] = "unacked"
<1>1. taken[s] \in OutstandingTags(s)
  BY DEF SessionInv, OutstandingTags
<1>2. InHand(s) \in {log[ns][t] : t \in OutstandingTags(ns)}
  BY <1>1 DEF Live, InHand
<1>3. QED
  BY <1>2 DEF OutstandingAgree, Live

(* A settlement either reaches the broker for an outstanding mail or leaves *)
(* the broker alone.                                                        *)
LEMMA SettleFacts ==
  ASSUME IInv, NEW s \in Sessions, Ack(s) \/ Nack(s)
  PROVE  \/ UNCHANGED status
         \/ /\ Reaches(s) /\ InHand(s) \in Mails /\ status[InHand(s)] = "unacked"
            /\ \/ status' = [status EXCEPT ![InHand(s)] = "acked"] /\ hnd[s] = "ack"
               \/ status' = [status EXCEPT ![InHand(s)] = "dropped"] /\ hnd[s] = "nack"
<1>1. hnd[s] \in {"ack", "nack"}
  BY Zenon DEF Ack, Nack
<1>2. Reaches(s) => Live(s)
  BY DEF Reaches
<1>3. Reaches(s) => InHand(s) \in Mails /\ status[InHand(s)] = "unacked"
  BY <1>1, <1>2, InHandUnacked DEF IInv
<1>4. QED
  BY <1>3, Zenon DEF Ack, Nack, Settle

LEMMA WireStep == IInv /\ [Next]_vars => WireInv'
<1> SUFFICES ASSUME IInv, [Next]_vars
             PROVE  WireInv'
  OBVIOUS
<1>1. /\ WireInv /\ BrokerTypeOK
      /\ pub \in [Mails -> {"idle", "badRequest", "open", "declared", "written", "ok", "error"}]
      /\ wire \subseteq Mails
  BY DEF IInv, TypeOK, ApiTypeOK
<1>2. ASSUME UNCHANGED apiVars,
             \A m \in Mails : status[m] = "none" => status'[m] = "none"
      PROVE  WireInv'
  BY <1>1, <1>2 DEF WireInv, apiVars, OfApi
<1>3. ASSUME NEW m \in Mails, Api(m)
      PROVE  WireInv'
  <2>1. status' = status
    BY <1>3, Zenon DEF Api, Reject, OpenChannel, PublisherDeclares, Publish, PublishThrows,
                       ReturnOk, brokerVars
  <2>2. m \in OfApi
    BY <1>1, <1>3 DEF WireInv, Api, Reject, OpenChannel, PublisherDeclares, Publish,
                      PublishThrows, ReturnOk, OfApi
  <2>3. CASE Reject(m) \/ OpenChannel(m) \/ PublisherDeclares(m)
    BY <1>1, <2>1, <2>2, <2>3 DEF WireInv, Reject, OpenChannel, PublisherDeclares, OfApi
  <2>4. CASE Publish(m)
    BY <1>1, <2>1, <2>2, <2>4 DEF WireInv, Publish, OfApi
  <2>5. CASE PublishThrows(m) \/ ReturnOk(m)
    BY <1>1, <2>1, <2>2, <2>5 DEF WireInv, PublishThrows, ReturnOk, OfApi
  <2>6. QED
    BY <1>3, <2>3, <2>4, <2>5, Zenon DEF Api
<1>4. ASSUME NEW m \in Mails, Receive(m) \/ LosePublish(m)
      PROVE  WireInv'
  <2>1. /\ wire' = wire \ {m} /\ pub' = pub /\ m \in wire
        /\ \A n \in Mails : n # m => status'[n] = status[n]
    BY <1>1, <1>4 DEF Receive, LosePublish, Enqueue, BrokerTypeOK
  <2>2. pub[m] = "written"
    BY <1>1, <2>1 DEF WireInv
  <2>3. QED
    BY <1>1, <2>1, <2>2 DEF WireInv, OfApi
<1>5. ASSUME NEW m \in Mails, ForeignPublish(m)
      PROVE  WireInv'
  BY <1>1, <1>5 DEF WireInv, ForeignPublish, Enqueue, apiVars
<1>6. ASSUME NEW m \in Mails, Deliver(m)
      PROVE  WireInv'
  BY <1>1, <1>2, <1>6 DEF Deliver, BrokerTypeOK
<1>7. CASE BrokerStops
  BY <1>1, <1>7, RequeuedFacts DEF WireInv, BrokerStops, OfApi
<1>8. CASE LinkDrops \/ BrokerStarts \/ ConsumerTimeout
  BY <1>1, <1>2, <1>8, RequeuedFacts DEF LinkDrops, BrokerStarts, ConsumerTimeout
<1>9. CASE Worker
  <2>1. UNCHANGED apiVars
    BY <1>9, Zenon
       DEF Worker, WorkerConnects, CreateChannel, WorkerDeclares, StartThrows,
           ExecuteWithoutChannel, Consume, ConsumeThrows, Recover, StopRequested,
           CloseChannel, CloseThrows, CancelToken, ProcessEnds
  <2>2. status' = status \/ status' = Requeued
    BY <1>9, Zenon
       DEF Worker, WorkerConnects, CreateChannel, WorkerDeclares, StartThrows,
           ExecuteWithoutChannel, Consume, ConsumeThrows, Recover, StopRequested,
           CloseChannel, CloseThrows, CancelToken, ProcessEnds, brokerVars
  <2>3. QED
    BY <1>1, <1>2, <2>1, <2>2, RequeuedFacts
<1>10. ASSUME NEW s \in Sessions, Handler(s)
       PROVE  WireInv'
  <2>1. UNCHANGED apiVars
    BY <1>10, Zenon
       DEF Handler, Take, DropBuffered, SendSucceeds, SendFails, Ack, AckThrows, Nack
  <2>2. CASE Ack(s) \/ Nack(s)
    BY <1>1, <1>2, <2>1, <2>2, SettleFacts DEF BrokerTypeOK
  <2>3. CASE UNCHANGED status
    BY <1>2, <2>1, <2>3
  <2>4. QED
    BY <1>10, <2>2, <2>3, Zenon
       DEF Handler, Take, DropBuffered, SendSucceeds, SendFails, AckThrows, brokerVars
<1>11. CASE UNCHANGED vars
  BY <1>2, <1>11 DEF vars, brokerVars
<1>12. QED
  BY <1>3, <1>4, <1>5, <1>6, <1>7, <1>8, <1>9, <1>10, <1>11, Zenon DEF Next, Broker

LEMMA LinkStep == IInv /\ [Next]_vars => LinkInv'
<1> SUFFICES ASSUME IInv, [Next]_vars
             PROVE  LinkInv'
  OBVIOUS
<1>1. LinkInv /\ WorkerTypeOK
  BY DEF IInv, TypeOK
<1>2. ASSUME UNCHANGED <<wk, link, ns, first>>
      PROVE  LinkInv'
  BY <1>1, <1>2 DEF LinkInv, Sessions
<1>3. ASSUME NEW m \in Mails, Api(m)
      PROVE  UNCHANGED workerVars
  BY <1>3, Zenon DEF Api, Reject, OpenChannel, PublisherDeclares, Publish, PublishThrows, ReturnOk
<1>4. ASSUME NEW m \in Mails,
             Receive(m) \/ LosePublish(m) \/ ForeignPublish(m) \/ Deliver(m)
      PROVE  UNCHANGED workerVars
  BY <1>4, Zenon DEF Receive, LosePublish, ForeignPublish, Deliver
<1>5. CASE LinkDrops \/ BrokerStops \/ ConsumerTimeout
  BY <1>1, <1>5 DEF LinkInv, LinkDrops, BrokerStops, ConsumerTimeout
<1>6. ASSUME BrokerStarts
      PROVE  UNCHANGED workerVars
  BY <1>6, Zenon DEF BrokerStarts
<1>7. CASE Worker
  <2>1. CASE CreateChannel \/ Recover
    BY <1>1, <2>1, ConstantsAssumption DEF LinkInv, WorkerTypeOK, Sessions, CreateChannel, Recover
  <2>2. CASE ProcessEnds \/ CloseChannel \/ CloseThrows \/ CancelToken
    BY <1>1, <2>2 DEF LinkInv, ProcessEnds, CloseChannel, CloseThrows, CancelToken
  <2>3. CASE WorkerConnects \/ WorkerDeclares \/ StartThrows \/ ExecuteWithoutChannel
    BY <1>1, <2>3
       DEF LinkInv, Sessions, WorkerConnects, WorkerDeclares, StartThrows, ExecuteWithoutChannel
  <2>4. CASE Consume \/ ConsumeThrows \/ StopRequested
    BY <1>1, <2>4 DEF LinkInv, Sessions, Consume, ConsumeThrows, StopRequested
  <2>5. QED
    BY <1>7, <2>1, <2>2, <2>3, <2>4, Zenon DEF Worker
<1>8. ASSUME NEW s \in Sessions, Handler(s)
      PROVE  UNCHANGED workerVars
  BY <1>8, Zenon DEF Handler, Take, DropBuffered, SendSucceeds, SendFails, Ack, AckThrows, Nack
<1>9. ASSUME UNCHANGED vars
      PROVE  UNCHANGED workerVars
  BY <1>9, Zenon DEF vars
<1>10. ASSUME UNCHANGED workerVars
       PROVE  LinkInv'
  BY <1>2, <1>10 DEF workerVars
<1>11. QED
  BY <1>3, <1>4, <1>5, <1>6, <1>7, <1>8, <1>9, <1>10, Zenon DEF Next, Broker

LEMMA SessionStep == IInv /\ [Next]_vars => SessionInv'
<1> SUFFICES ASSUME IInv, [Next]_vars
             PROVE  SessionInv'
  OBVIOUS
<1>1. LinkInv /\ SessionInv /\ WorkerTypeOK /\ HandlerTypeOK
  BY DEF IInv, TypeOK
<1>2. ASSUME UNCHANGED handlerVars, first' = first, ns' = ns \/ ns' = ns + 1
      PROVE  SessionInv'
  BY <1>1, <1>2 DEF SessionInv, handlerVars, Sessions, WorkerTypeOK
<1>3. ASSUME NEW m \in Mails,
             Api(m) \/ Receive(m) \/ LosePublish(m) \/ ForeignPublish(m)
      PROVE  UNCHANGED <<workerVars, handlerVars>>
  BY <1>3, Zenon DEF Api, Reject, OpenChannel, PublisherDeclares, Publish, PublishThrows,
                     ReturnOk, Receive, LosePublish, ForeignPublish
<1>4. ASSUME NEW m \in Mails, Deliver(m)
      PROVE  SessionInv'
  <2>1. ns \in Sessions /\ log[ns] \in Seq(Mails)
    BY <1>1, <1>4 DEF Deliver, LinkInv, HandlerTypeOK
  <2>2. /\ \A s \in Sessions : s # ns => log'[s] = log[s]
        /\ Len(log'[ns]) = Len(log[ns]) + 1
    BY <1>1, <1>4, <2>1 DEF Deliver, HandlerTypeOK
  <2>3. UNCHANGED <<taken, hnd, ns, first>>
    BY <1>4 DEF Deliver, workerVars
  <2>4. QED
    BY <1>1, <2>1, <2>2, <2>3 DEF SessionInv, Sessions, WorkerTypeOK, HandlerTypeOK
<1>5. ASSUME LinkDrops \/ BrokerStops \/ BrokerStarts \/ ConsumerTimeout
      PROVE  UNCHANGED <<handlerVars, first, ns>>
  BY <1>5, Zenon DEF LinkDrops, BrokerStops, BrokerStarts, ConsumerTimeout, workerVars
<1>6. CASE Worker
  <2>1. CASE CreateChannel \/ Recover
    BY <1>2, <2>1, Zenon DEF CreateChannel, Recover
  <2>2. CASE ProcessEnds
    BY <1>1, <2>2 DEF SessionInv, ProcessEnds, Sessions
  <2>3. ASSUME ~CreateChannel, ~Recover, ~ProcessEnds
        PROVE  UNCHANGED <<handlerVars, first, ns>>
    BY <1>6, <2>3, Zenon
       DEF Worker, WorkerConnects, WorkerDeclares, StartThrows, ExecuteWithoutChannel, Consume,
           ConsumeThrows, StopRequested, CloseChannel, CloseThrows, CancelToken
  <2>4. QED
    BY <1>2, <2>1, <2>2, <2>3, Zenon
<1>7. ASSUME NEW s \in Sessions, Handler(s)
      PROVE  SessionInv'
  <2>1. UNCHANGED <<ns, first, log>>
    BY <1>7, Zenon
       DEF Handler, Take, DropBuffered, SendSucceeds, SendFails, Ack, AckThrows, Nack, workerVars
  <2>2. CASE Take(s)
    BY <1>1, <2>1, <2>2 DEF SessionInv, Take, HandlerTypeOK, WorkerTypeOK
  <2>3. CASE DropBuffered(s)
    BY <1>1, <2>1, <2>3 DEF SessionInv, DropBuffered, HandlerTypeOK
  <2>4. CASE SendSucceeds(s) \/ SendFails(s)
    BY <1>1, <2>1, <2>4 DEF SessionInv, SendSucceeds, SendFails, HandlerTypeOK
  <2>5. CASE Ack(s) \/ AckThrows(s) \/ Nack(s)
    BY <1>1, <2>1, <2>5 DEF SessionInv, Ack, AckThrows, Nack, HandlerTypeOK
  <2>6. QED
    BY <1>7, <2>2, <2>3, <2>4, <2>5, Zenon DEF Handler
<1>8. ASSUME UNCHANGED vars
      PROVE  UNCHANGED <<workerVars, handlerVars>>
  BY <1>8, Zenon DEF vars
<1>9. ASSUME UNCHANGED workerVars
      PROVE  UNCHANGED <<first, ns>>
  BY <1>9, Zenon DEF workerVars
<1>10. QED
  BY <1>2, <1>3, <1>4, <1>5, <1>6, <1>7, <1>8, <1>9, Zenon DEF Next, Broker

LEMMA LogStep == IInv /\ [Next]_vars => LogInv'
<1> SUFFICES ASSUME IInv, [Next]_vars
             PROVE  LogInv'
  OBVIOUS
<1>1. LogInv /\ BrokerTypeOK /\ HandlerTypeOK /\ LinkInv /\ WireInv
  BY DEF IInv, TypeOK
<1>2. ASSUME UNCHANGED log, AtBroker \subseteq AtBroker'
      PROVE  LogInv'
  BY <1>1, <1>2 DEF LogInv
<1>3. ASSUME UNCHANGED status
      PROVE  AtBroker' = AtBroker
  BY <1>3 DEF AtBroker
<1>4. ASSUME NEW m \in Mails, Api(m)
      PROVE  UNCHANGED <<log, status>>
  BY <1>4, Zenon DEF Api, Reject, OpenChannel, PublisherDeclares, Publish, PublishThrows,
                     ReturnOk, brokerVars, handlerVars
<1>5. ASSUME NEW m \in Mails, Receive(m) \/ LosePublish(m) \/ ForeignPublish(m)
      PROVE  LogInv'
  <2>1. UNCHANGED log /\ status[m] = "none"
    BY <1>1, <1>5 DEF Receive, LosePublish, ForeignPublish, WireInv, handlerVars
  <2>2. AtBroker \subseteq AtBroker'
    BY <1>1, <1>5, <2>1 DEF Receive, LosePublish, ForeignPublish, Enqueue, AtBroker, BrokerTypeOK
  <2>3. QED
    BY <1>2, <2>1, <2>2
<1>6. ASSUME NEW m \in Mails, Deliver(m)
      PROVE  LogInv'
  <2>1. ns \in Sessions /\ log[ns] \in Seq(Mails)
    BY <1>1, <1>6 DEF Deliver, LinkInv, HandlerTypeOK
  <2>2. AtBroker \subseteq AtBroker' /\ m \in AtBroker'
    BY <1>1, <1>6 DEF Deliver, AtBroker, BrokerTypeOK
  <2>3. \A s \in Sessions : log'[s] = log[s] \/ log'[s] = Append(log[s], m)
    BY <1>1, <1>6, <2>1 DEF Deliver, HandlerTypeOK
  <2>4. \A s \in Sessions : log[s] \in Seq(Mails)
    BY <1>1 DEF HandlerTypeOK
  <2>5. ASSUME NEW s \in Sessions, NEW t \in 1..Len(log'[s])
        PROVE  log'[s][t] \in AtBroker'
    <3>1. CASE log'[s] = log[s]
      BY <1>1, <2>2, <2>5, <3>1 DEF LogInv
    <3>2. CASE log'[s] = Append(log[s], m)
      BY <1>1, <2>2, <2>4, <2>5, <3>2 DEF LogInv
    <3>3. QED
      BY <2>3, <3>1, <3>2
  <2>6. QED
    BY <2>5 DEF LogInv
<1>7. CASE LinkDrops \/ BrokerStops \/ BrokerStarts \/ ConsumerTimeout
  <2>1. UNCHANGED log
    BY <1>7, Zenon DEF LinkDrops, BrokerStops, BrokerStarts, ConsumerTimeout, handlerVars
  <2>2. AtBroker \subseteq AtBroker'
    BY <1>1, <1>7
       DEF LinkDrops, BrokerStops, BrokerStarts, ConsumerTimeout, AtBroker, Requeued, WireInv
  <2>3. QED
    BY <1>2, <2>1, <2>2
<1>8. CASE Worker
  <2>1. UNCHANGED log /\ (status' = status \/ status' = Requeued)
    BY <1>8, Zenon
       DEF Worker, WorkerConnects, CreateChannel, WorkerDeclares, StartThrows,
           ExecuteWithoutChannel, Consume, ConsumeThrows, Recover, StopRequested,
           CloseChannel, CloseThrows, CancelToken, ProcessEnds, brokerVars, handlerVars
  <2>2. AtBroker \subseteq AtBroker'
    BY <2>1 DEF AtBroker, Requeued
  <2>3. QED
    BY <1>2, <2>1, <2>2
<1>9. ASSUME NEW s \in Sessions, Handler(s)
      PROVE  LogInv'
  <2>1. UNCHANGED log
    BY <1>9, Zenon
       DEF Handler, Take, DropBuffered, SendSucceeds, SendFails, Ack, AckThrows, Nack
  <2>2. CASE Ack(s) \/ Nack(s)
    <3>1. AtBroker \subseteq AtBroker'
      BY <1>1, <2>2, SettleFacts DEF AtBroker, BrokerTypeOK
    <3>2. QED
      BY <1>2, <2>1, <3>1
  <2>3. CASE UNCHANGED status
    BY <1>2, <1>3, <2>1, <2>3
  <2>4. QED
    BY <1>9, <2>2, <2>3, Zenon
       DEF Handler, Take, DropBuffered, SendSucceeds, SendFails, AckThrows, brokerVars
<1>10. ASSUME UNCHANGED vars
       PROVE  UNCHANGED <<log, status>>
  BY <1>10, Zenon DEF vars, brokerVars, handlerVars
<1>11. QED
  BY <1>2, <1>3, <1>4, <1>5, <1>6, <1>7, <1>8, <1>9, <1>10, Zenon DEF Next, Broker

-----------------------------------------------------------------------------
(* What is outstanding.                                                     *)

Outstanding == OutstandingAgree /\ OutstandingOnce

(* Nothing is outstanding while no channel is open. *)
LEMMA NothingOutstanding ==
  ASSUME OutstandingAgree, link # "up"
  PROVE  \A m \in Mails : status[m] # "unacked"
  BY DEF OutstandingAgree

(* If neither side changes what it counts, the agreement stays. *)
LEMMA OutstandingSame ==
  ASSUME Outstanding, UNCHANGED <<link, ns>>,
         \A m \in Mails : status'[m] = "unacked" <=> status[m] = "unacked",
         link = "up" => /\ OutstandingTags(ns)' = OutstandingTags(ns)
                        /\ \A t \in OutstandingTags(ns) : log'[ns][t] = log[ns][t]
  PROVE  Outstanding'
  BY DEF Outstanding, OutstandingAgree, OutstandingOnce

(* If no channel is open afterwards and everything has been requeued, the   *)
(* agreement is that there is nothing outstanding.                          *)
LEMMA OutstandingClosed ==
  ASSUME link' # "up", \A m \in Mails : status'[m] # "unacked"
  PROVE  Outstanding'
  BY DEF Outstanding, OutstandingAgree, OutstandingOnce

(* A channel that has just been opened has nothing outstanding. *)
LEMMA OutstandingOpened ==
  ASSUME IInv, link # "up", UNCHANGED <<status, handlerVars>>,
         ns' = ns + 1, ns + 1 \in Sessions
  PROVE  Outstanding'
<1>1. /\ log'[ns'] = <<>> /\ ns' \in Sessions
  BY DEF IInv, SessionInv, TypeOK, WorkerTypeOK, Sessions, handlerVars
<1>2. OutstandingTags(ns)' = {}
  BY <1>1 DEF OutstandingTags
<1>3. \A m \in Mails : status'[m] # "unacked"
  BY NothingOutstanding DEF IInv
<1>4. QED
  BY <1>2, <1>3 DEF Outstanding, OutstandingAgree, OutstandingOnce

LEMMA OutstandingStep == IInv /\ [Next]_vars => Outstanding'
<1> SUFFICES ASSUME IInv, [Next]_vars
             PROVE  Outstanding'
  OBVIOUS
<1>1. /\ Outstanding /\ TypeOK /\ WireInv /\ LinkInv /\ SessionInv
      /\ ApiTypeOK /\ BrokerTypeOK /\ WorkerTypeOK /\ HandlerTypeOK
  BY DEF IInv, TypeOK, Outstanding
<1>2. ASSUME UNCHANGED <<link, ns, log, taken, hnd>>,
             \A m \in Mails : status'[m] = "unacked" <=> status[m] = "unacked"
      PROVE  Outstanding'
  <2>1. OutstandingTags(ns)' = OutstandingTags(ns)
    BY <1>2 DEF OutstandingTags
  <2>2. QED
    BY <1>1, <1>2, <2>1, OutstandingSame
<1>3. ASSUME UNCHANGED vars
      PROVE  Outstanding'
  BY <1>2, <1>3 DEF vars, brokerVars, workerVars, handlerVars
<1>4. ASSUME NEW m \in Mails, Api(m)
      PROVE  Outstanding'
  <2>1. UNCHANGED <<link, ns, log, taken, hnd, status>>
    BY <1>4, Zenon DEF Api, Reject, OpenChannel, PublisherDeclares, Publish, PublishThrows,
                       ReturnOk, brokerVars, workerVars, handlerVars
  <2>2. QED
    BY <1>2, <2>1
<1>5. ASSUME NEW m \in Mails, Receive(m) \/ LosePublish(m) \/ ForeignPublish(m)
      PROVE  Outstanding'
  <2>1. UNCHANGED <<link, ns, log, taken, hnd>>
    BY <1>5, Zenon DEF Receive, LosePublish, ForeignPublish, workerVars, handlerVars
  <2>2. status[m] = "none"
    BY <1>1, <1>5 DEF Receive, LosePublish, ForeignPublish, WireInv
  <2>3. \A n \in Mails : status'[n] = "unacked" <=> status[n] = "unacked"
    BY <1>1, <1>5, <2>2 DEF Receive, LosePublish, ForeignPublish, Enqueue, BrokerTypeOK
  <2>4. QED
    BY <1>2, <2>1, <2>3
<1>6. ASSUME NEW m \in Mails, Deliver(m)
      PROVE  Outstanding'
  <2> DEFINE n == Len(log[ns]) + 1
  <2>1. /\ link = "up" /\ status[m] = "ready" /\ ns \in Sessions
        /\ UNCHANGED <<link, ns, taken, hnd>>
        /\ log[ns] \in Seq(Mails) /\ taken[ns] \in Nat /\ taken[ns] <= Len(log[ns])
    BY <1>1, <1>6 DEF Deliver, LinkInv, HandlerTypeOK, workerVars
  <2>2. /\ Len(log'[ns]) = n /\ log'[ns][n] = m
        /\ \A t \in 1..Len(log[ns]) : log'[ns][t] = log[ns][t]
    BY <1>1, <1>6, <2>1 DEF Deliver, HandlerTypeOK
  <2>3. OutstandingTags(ns)' = OutstandingTags(ns) \union {n}
    BY <2>1, <2>2 DEF OutstandingTags
  <2>4. \A t \in OutstandingTags(ns) :
          t \in 1..Len(log[ns]) /\ log'[ns][t] = log[ns][t] /\ log[ns][t] # m
    BY <1>1, <2>1, <2>2 DEF Outstanding, OutstandingAgree, OutstandingTags
  <2>5. {k \in Mails : status'[k] = "unacked"} = {k \in Mails : status[k] = "unacked"} \union {m}
    BY <1>1, <1>6 DEF Deliver, BrokerTypeOK
  <2>6. OutstandingAgree'
    BY <1>1, <2>1, <2>2, <2>3, <2>4, <2>5 DEF Outstanding, OutstandingAgree
  <2>7. OutstandingOnce'
    BY <1>1, <2>1, <2>2, <2>3, <2>4 DEF Outstanding, OutstandingOnce
  <2>8. QED
    BY <2>6, <2>7 DEF Outstanding
<1>7. CASE LinkDrops \/ ConsumerTimeout
  BY <1>1, <1>7, RequeuedFacts, OutstandingClosed DEF LinkDrops, ConsumerTimeout
<1>8. CASE BrokerStops
  <2>1. link' # "up"
    BY <1>8 DEF BrokerStops
  <2>2. \A m \in Mails : status'[m] # "unacked"
    BY <1>1, <1>8, RequeuedFacts DEF BrokerStops
  <2>3. QED
    BY <2>1, <2>2, OutstandingClosed
<1>9. CASE BrokerStarts
  BY <1>2, <1>9 DEF BrokerStarts, workerVars, handlerVars
<1>10. CASE Worker
  <2>1. CASE CreateChannel \/ Recover
    <3>1. link # "up" /\ ns' = ns + 1 /\ ns + 1 \in Sessions /\ UNCHANGED <<status, handlerVars>>
      BY <1>1, <2>1, ConstantsAssumption
         DEF CreateChannel, Recover, LinkInv, WorkerTypeOK, Sessions, brokerVars
    <3>2. QED
      BY <3>1, OutstandingOpened
  <2>2. CASE CloseChannel \/ ProcessEnds
    BY <1>1, <2>2, RequeuedFacts, OutstandingClosed DEF CloseChannel, ProcessEnds
  <2>3. ASSUME ~CreateChannel, ~Recover, ~CloseChannel, ~ProcessEnds
        PROVE  UNCHANGED <<link, ns, log, taken, hnd, status>>
    BY <1>10, <2>3, Zenon
       DEF Worker, WorkerConnects, WorkerDeclares, StartThrows, ExecuteWithoutChannel, Consume,
           ConsumeThrows, StopRequested, CloseThrows, CancelToken, brokerVars, handlerVars
  <2>4. QED
    BY <1>2, <2>1, <2>2, <2>3
<1>11. ASSUME NEW s \in Sessions, Handler(s)
       PROVE  Outstanding'
  <2>1. UNCHANGED <<link, ns, log>>
    BY <1>11, Zenon
       DEF Handler, Take, DropBuffered, SendSucceeds, SendFails, Ack, AckThrows, Nack, workerVars
  <2>2. ASSUME UNCHANGED status, link = "up" => OutstandingTags(ns)' = OutstandingTags(ns)
        PROVE  Outstanding'
    BY <1>1, <2>1, <2>2, OutstandingSame
  <2>3. CASE Take(s)
    <3>1. \A t \in 1..Len(log[ns]) : t \in OutstandingTags(ns)' <=> t \in OutstandingTags(ns)
      BY <1>1, <2>1, <2>3 DEF Take, OutstandingTags, HandlerTypeOK
    <3>2. QED
      BY <2>1, <2>2, <2>3, <3>1 DEF Take, OutstandingTags, brokerVars
  <2>4. CASE DropBuffered(s)
    <3>1. link = "up" => taken'[ns] = taken[ns] /\ hnd' = hnd
      BY <1>1, <2>4 DEF DropBuffered, Live, HandlerTypeOK
    <3>2. QED
      BY <2>1, <2>2, <2>4, <3>1 DEF DropBuffered, OutstandingTags, brokerVars
  <2>5. CASE SendSucceeds(s) \/ SendFails(s) \/ AckThrows(s)
    <3>1. taken' = taken /\ UNCHANGED status
      BY <2>5, Zenon DEF SendSucceeds, SendFails, AckThrows, brokerVars
    <3>2. hnd[s] # "idle" /\ \E h \in {"send", "ack", "nack"} : hnd' = [hnd EXCEPT ![s] = h]
      BY <2>5 DEF SendSucceeds, SendFails, AckThrows
    <3>3. link = "up" => (hnd'[ns] # "idle" <=> hnd[ns] # "idle")
      BY <1>1, <3>2 DEF HandlerTypeOK, LinkInv
    <3>4. QED
      BY <2>1, <2>2, <3>1, <3>3 DEF OutstandingTags
  <2>6. CASE Ack(s) \/ Nack(s)
    <3>1. /\ taken' = taken /\ hnd' = [hnd EXCEPT ![s] = "idle"]
          /\ taken[s] \in 1..Len(log[s]) /\ hnd[s] # "idle"
      BY <1>1, <2>6 DEF Ack, Nack, SessionInv
    <3>2. CASE UNCHANGED status
      <4>1. link = "up" => s # ns
        BY <1>1, <2>6, <3>2, InHandUnacked
           DEF Ack, Nack, Reaches, Stale, Live, Settle, LinkInv, Cancelled, BrokerTypeOK, Outstanding
      <4>2. QED
        BY <1>1, <2>1, <2>2, <3>1, <3>2, <4>1 DEF OutstandingTags, HandlerTypeOK
    <3>3. ASSUME status' # status
          PROVE  Outstanding'
      <4>1. /\ link = "up" /\ s = ns
            /\ InHand(s) \in Mails /\ status[InHand(s)] = "unacked"
            /\ \/ status' = [status EXCEPT ![InHand(s)] = "acked"]
               \/ status' = [status EXCEPT ![InHand(s)] = "dropped"]
        BY <2>6, <3>3, SettleFacts, Zenon DEF Reaches, Live
      <4>2. OutstandingTags(ns)' = OutstandingTags(ns) \ {taken[s]} /\ taken[s] \in OutstandingTags(ns)
        BY <1>1, <2>1, <3>1, <4>1 DEF OutstandingTags, HandlerTypeOK
      <4>3. {k \in Mails : status'[k] = "unacked"}
              = {k \in Mails : status[k] = "unacked"} \ {InHand(s)}
        BY <1>1, <4>1 DEF BrokerTypeOK
      <4>4. \A t \in OutstandingTags(ns) : log[ns][t] = InHand(s) <=> t = taken[s]
        BY <1>1, <4>1, <4>2 DEF Outstanding, OutstandingOnce, InHand
      <4>5. OutstandingAgree'
        BY <1>1, <2>1, <4>1, <4>2, <4>3, <4>4 DEF Outstanding, OutstandingAgree
      <4>6. OutstandingOnce'
        BY <1>1, <2>1, <4>1, <4>2 DEF Outstanding, OutstandingOnce
      <4>7. QED
        BY <4>5, <4>6 DEF Outstanding
    <3>4. QED
      BY <3>2, <3>3
  <2>7. QED
    BY <1>11, <2>3, <2>4, <2>5, <2>6, Zenon DEF Handler
<1>12. QED
  BY <1>3, <1>4, <1>5, <1>6, <1>7, <1>8, <1>9, <1>10, <1>11, Zenon DEF Next, Broker

-----------------------------------------------------------------------------
(* What the handlers know.                                                  *)

HandlerKnows(s) ==
  /\ hnd[s] = "send" => ~sent[s] /\ tries[s] < MaxAttempts
  /\ hnd[s] = "ack" => sent[s] \/ InHand(s) \in Silent
  /\ hnd[s] # "idle" /\ sent[s] => copies[InHand(s)] > 0
  /\ hnd[s] = "nack" /\ sent[s] => ~Live(s)

(* A handler that does nothing still knows what it knew, unless its channel *)
(* comes to life, which no channel does twice.                              *)
LEMMA HandlerSame ==
  ASSUME HandlerInv, NEW s \in Sessions,
         hnd[s] # "idle" => /\ hnd'[s] = hnd[s] /\ sent'[s] = sent[s] /\ tries'[s] = tries[s]
                            /\ InHand(s)' = InHand(s)
                            /\ copies[InHand(s)] > 0 => copies'[InHand(s)] > 0
                            /\ Live(s)' => Live(s),
         hnd[s] = "idle" => hnd'[s] = "idle"
  PROVE  HandlerKnows(s)'
  BY DEF HandlerInv, HandlerKnows, Silent

LEMMA HandlerStep == IInv /\ [Next]_vars => HandlerInv'
<1> SUFFICES ASSUME IInv, [Next]_vars,
                    NEW r \in Sessions
             PROVE  HandlerKnows(r)'
  BY DEF HandlerInv, HandlerKnows
<1>1. /\ HandlerInv /\ LinkInv /\ SessionInv /\ WorkerTypeOK /\ HandlerTypeOK
  BY DEF IInv, TypeOK
<1>2. ASSUME UNCHANGED handlerVars, hnd[r] # "idle" /\ Live(r)' => Live(r)
      PROVE  HandlerKnows(r)'
  BY <1>1, <1>2, HandlerSame DEF handlerVars, InHand
<1>3. ASSUME UNCHANGED <<link, ns>>
      PROVE  Live(r)' = Live(r)
  BY <1>3 DEF Live
<1>4. ASSUME NEW m \in Mails, Api(m) \/ Receive(m) \/ LosePublish(m) \/ ForeignPublish(m)
      PROVE  HandlerKnows(r)'
  <2>1. UNCHANGED <<handlerVars, link, ns>>
    BY <1>4, Zenon DEF Api, Reject, OpenChannel, PublisherDeclares, Publish, PublishThrows,
                       ReturnOk, Receive, LosePublish, ForeignPublish, workerVars
  <2>2. QED
    BY <1>2, <1>3, <2>1
<1>5. ASSUME NEW m \in Mails, Deliver(m)
      PROVE  HandlerKnows(r)'
  <2>1. UNCHANGED <<link, ns, taken, hnd, tries, sent, copies>> /\ ns \in Sessions
    BY <1>1, <1>5 DEF Deliver, workerVars, LinkInv
  <2>2. hnd[r] # "idle" => log'[r][taken[r]] = log[r][taken[r]]
    BY <1>1, <1>5, <2>1 DEF Deliver, SessionInv, HandlerTypeOK
  <2>3. QED
    BY <1>1, <1>3, <2>1, <2>2, HandlerSame DEF InHand
<1>6. CASE LinkDrops \/ BrokerStops \/ BrokerStarts \/ ConsumerTimeout
  <2>1. UNCHANGED <<handlerVars, ns>> /\ (link' = "up" => link = "up")
    BY <1>6 DEF LinkDrops, BrokerStops, BrokerStarts, ConsumerTimeout, workerVars
  <2>2. QED
    BY <1>2, <2>1 DEF Live
<1>7. CASE Worker
  <2>1. CASE CreateChannel \/ Recover
    <3>1. UNCHANGED handlerVars /\ ns' = ns + 1
      BY <2>1 DEF CreateChannel, Recover
    <3>2. hnd[r] # "idle" => r <= ns
      BY <1>1 DEF SessionInv, WorkerTypeOK, Sessions
    <3>3. QED
      BY <1>1, <1>2, <3>1, <3>2 DEF Live, WorkerTypeOK, Sessions
  <2>2. CASE ProcessEnds
    BY <2>2 DEF ProcessEnds, HandlerKnows
  <2>3. ASSUME ~CreateChannel, ~Recover, ~ProcessEnds
        PROVE  UNCHANGED <<handlerVars, ns>> /\ (link' = "up" => link = "up")
    BY <1>7, <2>3
       DEF Worker, WorkerConnects, WorkerDeclares, StartThrows, ExecuteWithoutChannel, Consume,
           ConsumeThrows, StopRequested, CloseChannel, CloseThrows, CancelToken
  <2>4. QED
    BY <1>2, <2>1, <2>2, <2>3 DEF Live
<1>8. ASSUME NEW s \in Sessions, Handler(s)
      PROVE  HandlerKnows(r)'
  <2>1. UNCHANGED <<link, ns, wk>> /\ UNCHANGED log
    BY <1>8, Zenon
       DEF Handler, Take, DropBuffered, SendSucceeds, SendFails, Ack, AckThrows, Nack, workerVars
  <2>2. CASE r # s
    <3>1. /\ hnd'[r] = hnd[r] /\ sent'[r] = sent[r] /\ tries'[r] = tries[r] /\ taken'[r] = taken[r]
      BY <1>1, <1>8, <2>2
         DEF Handler, Take, DropBuffered, SendSucceeds, SendFails, Ack, AckThrows, Nack, HandlerTypeOK
    <3>2. \A m \in Mails : copies[m] > 0 => copies'[m] > 0
      <4>1. copies' = copies \/ \E m \in Mails : copies' = [copies EXCEPT ![m] = @ + 1]
        BY <1>1, <1>8, InHandIsMail
           DEF Handler, Take, DropBuffered, SendSucceeds, SendFails, Ack, AckThrows, Nack
      <4>2. ASSUME NEW m \in Mails, copies' = [copies EXCEPT ![m] = @ + 1]
            PROVE  \A n \in Mails : copies'[n] \in {copies[n], copies[n] + 1}
        BY <1>1, <4>2 DEF HandlerTypeOK
      <4>3. \A n \in Mails : copies'[n] \in {copies[n], copies[n] + 1}
        BY <4>1, <4>2
      <4>4. \A n \in Mails : copies[n] \in Nat
        BY <1>1 DEF HandlerTypeOK
      <4>5. ASSUME NEW m \in Mails, copies[m] > 0
            PROVE  copies'[m] > 0
        <5>1. copies'[m] = copies[m] \/ copies'[m] = copies[m] + 1
          BY <4>3
        <5>2. QED
          BY <4>4, <4>5, <5>1
      <4>6. QED
        BY <4>5
    <3>3. hnd[r] # "idle" => InHand(r) \in Mails
      BY <1>1, InHandIsMail
    <3>4. QED
      BY <1>1, <1>3, <2>1, <3>1, <3>2, <3>3, HandlerSame DEF InHand
  <2>3. CASE r = s /\ Take(s)
    <3>1. taken'[s] = taken[s] + 1 /\ sent'[s] = FALSE /\ tries'[s] = 0
      BY <1>1, <2>3 DEF Take, HandlerTypeOK
    <3>2. hnd'[s] = "ack" => Class[log[s][taken[s] + 1]] = "noRecipient"
      BY <1>1, <2>3 DEF Take, HandlerTypeOK
    <3>3. log[s][taken[s] + 1] \in Mails
      BY <1>1, <2>3 DEF Take, HandlerTypeOK
    <3>4. QED
      BY <2>1, <2>3, <3>1, <3>2, <3>3, ConstantsAssumption DEF HandlerKnows, InHand, Silent
  <2>4. CASE r = s /\ DropBuffered(s)
    BY <2>4 DEF DropBuffered, HandlerKnows
  <2>5. CASE r = s /\ SendSucceeds(s)
    <3>1. InHand(s) \in Mails
      BY <1>1, <2>5, InHandIsMail DEF SendSucceeds
    <3>2. /\ hnd'[s] = "ack" /\ sent'[s] = TRUE /\ InHand(s)' = InHand(s)
          /\ copies'[InHand(s)] = copies[InHand(s)] + 1
      BY <1>1, <2>1, <2>5, <3>1 DEF SendSucceeds, HandlerTypeOK, InHand
    <3>3. QED
      BY <1>1, <2>5, <3>1, <3>2 DEF HandlerKnows, HandlerTypeOK
  <2>6. CASE r = s /\ SendFails(s)
    <3>1. ~sent[s] /\ tries[s] < MaxAttempts
      BY <1>1, <2>6 DEF SendFails, HandlerInv
    <3>2. /\ sent'[s] = sent[s] /\ tries'[s] = tries[s] + 1
          /\ hnd'[s] = IF tries[s] + 1 < MaxAttempts THEN "send" ELSE "nack"
      BY <1>1, <2>6 DEF SendFails, HandlerTypeOK
    <3>3. QED
      BY <2>6, <3>1, <3>2 DEF HandlerKnows
  <2>7. CASE r = s /\ AckThrows(s)
    <3>1. hnd[s] = "ack" /\ hnd'[s] = "nack" /\ UNCHANGED <<sent, taken, copies>>
      BY <1>1, <2>7 DEF AckThrows, HandlerTypeOK
    <3>2. ~Live(s)
      BY <1>1, <2>7 DEF AckThrows, Throws, Reaches, Live, Cancelled, LinkInv
    <3>3. QED
      BY <1>1, <1>3, <2>1, <2>7, <3>1, <3>2 DEF HandlerKnows, HandlerInv, InHand
  <2>8. CASE r = s /\ (Ack(s) \/ Nack(s))
    BY <1>1, <2>8 DEF Ack, Nack, HandlerKnows, HandlerTypeOK
  <2>9. QED
    BY <1>8, <2>2, <2>3, <2>4, <2>5, <2>6, <2>7, <2>8, Zenon DEF Handler
<1>9. CASE UNCHANGED vars
  BY <1>2, <1>3, <1>9 DEF vars, workerVars
<1>10. QED
  BY <1>4, <1>5, <1>6, <1>7, <1>8, <1>9, Zenon DEF Next, Broker

-----------------------------------------------------------------------------
(* The theorems.                                                            *)

LEMMA NextInv == IInv /\ [Next]_vars => IInv'
<1> SUFFICES ASSUME IInv, [Next]_vars
             PROVE  IInv'
  OBVIOUS
<1>1. TypeOK /\ LinkInv /\ SessionInv /\ HandlerInv
  BY DEF IInv
<1>2. TypeOK'
  BY <1>1, ApiTypeStep, BrokerTypeStep, WorkerTypeStep, HandlerTypeStep DEF TypeOK
<1>3. QED
  BY <1>2, WireStep, LinkStep, SessionStep, LogStep, OutstandingStep, HandlerStep DEF IInv, Outstanding

LEMMA SpecInv == Spec => []IInv
  BY InitInv, NextInv, PTL DEF Spec

(* For every instance, all variables keep their types; in particular the   *)
(* handlers never take a delivery that was not made, and no delivery is    *)
(* attempted more than MaxAttempts times.                                  *)
THEOREM TypeCorrect == Spec => []TypeOK
<1>1. IInv => TypeOK
  BY DEF IInv
<1>2. QED
  BY <1>1, SpecInv, PTL

(* For every instance, what the broker holds unacknowledged is what the    *)
(* open channel's handler still has to settle: no unknown tag is ever      *)
(* settled, and no delivery is left behind by an exception.                *)
THEOREM WorkerAndBrokerAgree == Spec => []OutstandingAgree
<1>1. IInv => OutstandingAgree
  BY DEF IInv
<1>2. QED
  BY <1>1, SpecInv, PTL

(* The status of a mail becomes final in two actions only. *)
LEMMA StatusStep ==
  ASSUME IInv, [Next]_vars, NEW m \in Mails,
         NEW final \in {"acked", "dropped"}, status[m] # final, status'[m] = final
  PROVE  \E s \in Sessions :
           /\ Ack(s) \/ Nack(s)
           /\ Live(s) /\ InHand(s) = m /\ status[m] = "unacked"
           /\ final = "acked" => hnd[s] = "ack"
           /\ final = "dropped" => hnd[s] = "nack"
<1>1. BrokerTypeOK /\ Requeued[m] # final /\ (\A n \in wire : status[n] = "none")
  BY DEF IInv, TypeOK, WireInv, BrokerTypeOK, Requeued
<1>2. ASSUME NEW n \in Mails, Api(n)
      PROVE  FALSE
  BY <1>2 DEF Api, Reject, OpenChannel, PublisherDeclares, Publish, PublishThrows,
              ReturnOk, brokerVars
<1>3. ASSUME NEW n \in Mails, Receive(n) \/ LosePublish(n) \/ ForeignPublish(n) \/ Deliver(n)
      PROVE  FALSE
  BY <1>1, <1>3 DEF Receive, LosePublish, ForeignPublish, Deliver, Enqueue, BrokerTypeOK
<1>4. CASE LinkDrops \/ BrokerStops \/ BrokerStarts \/ ConsumerTimeout
  BY <1>1, <1>4 DEF LinkDrops, BrokerStops, BrokerStarts, ConsumerTimeout
<1>5. ASSUME Worker
      PROVE  FALSE
  BY <1>1, <1>5
     DEF Worker, WorkerConnects, CreateChannel, WorkerDeclares, StartThrows,
         ExecuteWithoutChannel, Consume, ConsumeThrows, Recover, StopRequested,
         CloseChannel, CloseThrows, CancelToken, ProcessEnds, brokerVars
<1>6. ASSUME NEW s \in Sessions, Handler(s)
      PROVE  /\ Ack(s) \/ Nack(s)
             /\ Live(s) /\ InHand(s) = m /\ status[m] = "unacked"
             /\ final = "acked" => hnd[s] = "ack"
             /\ final = "dropped" => hnd[s] = "nack"
  <2>1. Ack(s) \/ Nack(s)
    BY <1>6 DEF Handler, Take, DropBuffered, SendSucceeds, SendFails, AckThrows, brokerVars
  <2>2. /\ Reaches(s) /\ InHand(s) \in Mails /\ status[InHand(s)] = "unacked"
        /\ \/ status' = [status EXCEPT ![InHand(s)] = "acked"] /\ hnd[s] = "ack"
           \/ status' = [status EXCEPT ![InHand(s)] = "dropped"] /\ hnd[s] = "nack"
    BY <2>1, SettleFacts
  <2>3. QED
    BY <1>1, <2>1, <2>2 DEF BrokerTypeOK, Reaches
<1>7. CASE UNCHANGED vars
  BY <1>7 DEF vars, brokerVars
<1>8. QED
  BY <1>2, <1>3, <1>4, <1>5, <1>6, <1>7, Zenon DEF Next, Broker

(* For every instance, a mail is acknowledged or refused only by the        *)
(* handler of its own latest delivery, and refused only if SendEmailAsync   *)
(* did not return for it: neither a stale handler nor the failure of an     *)
(* acknowledgement settles it.                                              *)
THEOREM SettlementIsOwn == Spec => SettledByItsDelivery
<1> DEFINE A == \A m \in Mails :
       /\ status[m] # "acked" /\ status'[m] = "acked" =>
            hnd[ns] = "ack" /\ InHand(ns) = m /\ (sent[ns] \/ m \in Silent)
       /\ status[m] # "dropped" /\ status'[m] = "dropped" =>
            hnd[ns] = "nack" /\ InHand(ns) = m /\ ~sent[ns]
<1>1. IInv /\ [Next]_vars => A
  <2> SUFFICES ASSUME IInv, [Next]_vars, NEW m \in Mails
               PROVE  /\ status[m] # "acked" /\ status'[m] = "acked" =>
                           hnd[ns] = "ack" /\ InHand(ns) = m /\ (sent[ns] \/ m \in Silent)
                      /\ status[m] # "dropped" /\ status'[m] = "dropped" =>
                           hnd[ns] = "nack" /\ InHand(ns) = m /\ ~sent[ns]
    OBVIOUS
  <2>1. CASE status[m] # "acked" /\ status'[m] = "acked"
    BY <2>1, StatusStep DEF IInv, HandlerInv, Live
  <2>2. CASE status[m] # "dropped" /\ status'[m] = "dropped"
    BY <2>2, StatusStep DEF IInv, HandlerInv, Live
  <2>3. QED
    BY <2>1, <2>2
<1>2. IInv /\ [Next]_vars => [A]_vars
  BY <1>1
<1>3. Spec => [][A]_vars
  BY <1>2, SpecInv, PTL DEF Spec
<1>4. QED
  BY <1>3 DEF SettledByItsDelivery

-----------------------------------------------------------------------------
(* The pipeline implements AtLeastOnce.                                     *)

LEMMA StepRefines == IInv /\ IInv' /\ [Next]_vars => [ALO!Next]_ALO!vars
<1> SUFFICES ASSUME IInv, IInv', [Next]_vars
             PROVE  [ALO!Next]_ALO!vars
  OBVIOUS
<1>1. /\ BrokerTypeOK /\ HandlerTypeOK
      /\ HandlerInv /\ SessionInv /\ WireInv /\ LogInv
  BY DEF IInv, TypeOK
<1>2. ASSUME UNCHANGED copies, \A m \in Mails : Fate(m)' = Fate(m)
      PROVE  UNCHANGED ALO!vars
  BY <1>2 DEF ALO!vars
<1>3. ASSUME UNCHANGED <<copies, status>>
      PROVE  UNCHANGED ALO!vars
  BY <1>2, <1>3 DEF Fate
<1>4. ASSUME NEW m \in Mails, Api(m)
      PROVE  UNCHANGED <<copies, status>>
  BY <1>4, Zenon DEF Api, Reject, OpenChannel, PublisherDeclares, Publish, PublishThrows,
                     ReturnOk, brokerVars, handlerVars
<1>5. ASSUME NEW m \in Mails, Receive(m) \/ ForeignPublish(m)
      PROVE  ALO!Store(m)
  <2>1. status[m] = "none" /\ status' = [status EXCEPT ![m] = "ready"] /\ copies' = copies
    BY <1>1, <1>5 DEF Receive, ForeignPublish, Enqueue, WireInv, handlerVars
  <2>2. Fate(m) = "new" /\ Fate(m)' = "stored" /\ \A n \in Mails : n # m => Fate(n)' = Fate(n)
    BY <1>1, <2>1 DEF Fate, BrokerTypeOK
  <2>3. QED
    BY <2>1, <2>2 DEF ALO!Store
<1>6. ASSUME NEW m \in Mails, LosePublish(m) \/ Deliver(m)
      PROVE  UNCHANGED ALO!vars
  <2>1. copies' = copies
    BY <1>6 DEF LosePublish, Deliver, handlerVars
  <2>2. \/ status[m] = "none" /\ status' = [status EXCEPT ![m] = "lost"]
        \/ status[m] = "ready" /\ status' = [status EXCEPT ![m] = "unacked"]
    BY <1>1, <1>6 DEF LosePublish, Deliver, WireInv
  <2>3. \A n \in Mails : Fate(n)' = Fate(n)
    BY <1>1, <2>2 DEF Fate, BrokerTypeOK
  <2>4. QED
    BY <1>2, <2>1, <2>3
<1>7. ASSUME UNCHANGED copies,
             \/ status' = status
             \/ status' = Requeued
             \/ status' = [m \in Mails |-> IF m \in wire THEN "lost" ELSE Requeued[m]]
      PROVE  UNCHANGED ALO!vars
  <2>1. \A n \in Mails : Fate(n)' = Fate(n)
    BY <1>1, <1>7 DEF Fate, BrokerTypeOK, Requeued, WireInv
  <2>2. QED
    BY <1>2, <1>7, <2>1
<1>8. CASE LinkDrops \/ BrokerStops \/ BrokerStarts \/ ConsumerTimeout
  BY <1>7, <1>8, Zenon DEF LinkDrops, BrokerStops, BrokerStarts, ConsumerTimeout, handlerVars
<1>9. CASE Worker
  BY <1>7, <1>9, Zenon
     DEF Worker, WorkerConnects, CreateChannel, WorkerDeclares, StartThrows,
         ExecuteWithoutChannel, Consume, ConsumeThrows, Recover, StopRequested,
         CloseChannel, CloseThrows, CancelToken, ProcessEnds, brokerVars, handlerVars
<1>10. ASSUME NEW s \in Sessions, Handler(s)
       PROVE  [ALO!Next]_ALO!vars
  <2>1. CASE Take(s) \/ DropBuffered(s) \/ AckThrows(s)
    BY <1>3, <2>1, Zenon DEF Take, DropBuffered, AckThrows, brokerVars
  <2>2. CASE SendSucceeds(s) \/ SendFails(s)
    <3>1. InHand(s) \in Mails /\ InHand(s) \in AtBroker
      BY <1>1, <2>2, InHandIsMail DEF SendSucceeds, SendFails, SessionInv, LogInv, InHand
    <3>2. UNCHANGED status /\ (\/ copies' = copies
                              \/ copies' = [copies EXCEPT ![InHand(s)] = @ + 1])
      BY <2>2, Zenon DEF SendSucceeds, SendFails, brokerVars
    <3>3. \A n \in Mails : Fate(n)' = Fate(n)
      BY <3>2 DEF Fate
    <3>4. Fate(InHand(s)) # "new"
      BY <3>1 DEF Fate, AtBroker
    <3>5. CASE copies' = copies
      BY <1>3, <3>2, <3>5
    <3>6. CASE copies' = [copies EXCEPT ![InHand(s)] = @ + 1]
      BY <3>1, <3>3, <3>4, <3>6 DEF ALO!HandOver, ALO!Next
    <3>7. QED
      BY <3>2, <3>5, <3>6
  <2>3. CASE Ack(s) \/ Nack(s)
    <3>1. UNCHANGED copies
      BY <2>3, Zenon DEF Ack, Nack
    <3>2. CASE UNCHANGED status
      BY <1>3, <3>1, <3>2
    <3>3. ASSUME status' # status
          PROVE  [ALO!Next]_ALO!vars
      <4>1. PICK m \in Mails :
              /\ m = InHand(s) /\ status[m] = "unacked"
              /\ \/ status' = [status EXCEPT ![m] = "acked"] /\ hnd[s] = "ack"
                 \/ status' = [status EXCEPT ![m] = "dropped"]
        BY <2>3, <3>3, SettleFacts
      <4>2. Fate(m) = "stored" /\ \A n \in Mails : n # m => Fate(n)' = Fate(n)
        BY <1>1, <4>1 DEF Fate, BrokerTypeOK
      <4>3. CASE status' = [status EXCEPT ![m] = "acked"] /\ hnd[s] = "ack"
        <5>1. Fate(m)' = "done"
          BY <1>1, <4>3 DEF Fate, BrokerTypeOK
        <5>2. copies[m] > 0 \/ m \in Silent
          BY <1>1, <4>1, <4>3 DEF HandlerInv
        <5>3. ALO!Finish(m)
          BY <3>1, <4>2, <5>1, <5>2 DEF ALO!Finish
        <5>4. QED
          BY <5>3 DEF ALO!Next
      <4>4. CASE status' = [status EXCEPT ![m] = "dropped"]
        <5>1. Fate(m)' = "discarded"
          BY <1>1, <4>4 DEF Fate, BrokerTypeOK
        <5>2. ALO!Discard(m)
          BY <3>1, <4>2, <5>1 DEF ALO!Discard
        <5>3. QED
          BY <5>2 DEF ALO!Next
      <4>5. QED
        BY <4>1, <4>3, <4>4
    <3>4. QED
      BY <3>2, <3>3
  <2>4. QED
    BY <1>10, <2>1, <2>2, <2>3, Zenon DEF Handler
<1>11. CASE UNCHANGED vars
  BY <1>3, <1>11 DEF vars, brokerVars, handlerVars
<1>12. QED
  BY <1>3, <1>4, <1>5, <1>6, <1>8, <1>9, <1>10, <1>11 DEF Next, Broker, ALO!Next

(* For every instance, the pipeline delivers at least once: a stored mail   *)
(* is never lost, and it is settled as done only after a copy went out (or  *)
(* because it has no recipient).                                            *)
THEOREM PipelineDeliversAtLeastOnce == Spec => DeliversAtLeastOnce
<1>1. Init => ALO!Init
  BY DEF Init, ALO!Init, Fate
<1>2. QED
  BY <1>1, SpecInv, StepRefines, PTL DEF Spec, DeliversAtLeastOnce, ALO!Spec

-----------------------------------------------------------------------------
(* Copies.  A session delivers a mail once at most, because what it has     *)
(* delivered is not ready again before it ends.                             *)
OnceInv ==
  /\ \A s \in Sessions : \A t, u \in 1..Len(log[s]) : log[s][t] = log[s][u] => t = u
  /\ link = "up" => \A t \in 1..Len(log[ns]) : status[log[ns][t]] # "ready"

(* The attempts that may have been spent on a mail: all of those of its     *)
(* deliveries that have been handled, and of the one being sent those that  *)
(* have failed.  Every copy is one of them.                                 *)
Spent(m) ==
  {a \in Sessions \X (1..MaxAttempts) :
     \E t \in 1..taken[a[1]] :
       /\ log[a[1]][t] = m
       /\ t = taken[a[1]] /\ hnd[a[1]] = "send" => a[2] <= tries[a[1]]}

CopiesInv == \A m \in Mails : copies[m] <= Cardinality(Spent(m))

(* The sessions in which a mail was delivered. *)
DeliveredIn(m) == {s \in Sessions : \E t \in 1..Len(log[s]) : log[s][t] = m}

LEMMA OnceStep == IInv /\ OnceInv /\ [Next]_vars => OnceInv'
<1> SUFFICES ASSUME IInv, OnceInv, [Next]_vars
             PROVE  OnceInv'
  OBVIOUS
<1>1. /\ log \in [Sessions -> Seq(Mails)] /\ ns \in Nat
      /\ status \in [Mails -> {"none", "lost", "ready", "unacked", "acked", "dropped"}]
  BY DEF IInv, TypeOK, HandlerTypeOK, WorkerTypeOK, BrokerTypeOK, Sessions
<1>2. link = "up" => ns \in Sessions
  BY DEF IInv, LinkInv
<1>3. \A s \in Sessions : \A t \in 1..Len(log[s]) : status[log[s][t]] # "none"
  BY DEF IInv, LogInv, AtBroker
<1>4. ASSUME UNCHANGED log, link' # "up" \/ (UNCHANGED <<link, ns, status>>)
      PROVE  OnceInv'
  BY <1>4 DEF OnceInv
<1>5. ASSUME NEW m \in Mails, Api(m)
      PROVE  UNCHANGED log /\ UNCHANGED <<link, ns, status>>
  BY <1>5 DEF Api, Reject, OpenChannel, PublisherDeclares, Publish, PublishThrows,
              ReturnOk, brokerVars, workerVars, handlerVars
<1>6. ASSUME NEW m \in Mails, Receive(m) \/ LosePublish(m) \/ ForeignPublish(m)
      PROVE  OnceInv'
  <2>1. /\ status[m] = "none" /\ UNCHANGED <<log, link, ns>>
        /\ \E v \in {"ready", "lost"} : status' = [status EXCEPT ![m] = v]
    BY <1>6 DEF IInv, WireInv, Receive, LosePublish, ForeignPublish, Enqueue,
                workerVars, handlerVars
  <2>2. \A t \in 1..Len(log[ns]) : link = "up" => log[ns][t] # m /\ log[ns][t] \in Mails
    BY <1>1, <1>2, <1>3, <2>1
  <2> QED
    BY <1>1, <2>1, <2>2 DEF OnceInv
<1>7. ASSUME NEW m \in Mails, Deliver(m)
      PROVE  OnceInv'
  <2>1. /\ link = "up" /\ status[m] = "ready" /\ UNCHANGED <<link, ns>>
        /\ status' = [status EXCEPT ![m] = "unacked"]
        /\ log' = [log EXCEPT ![ns] = Append(@, m)]
    BY <1>7 DEF Deliver, workerVars
  <2> DEFINE n == Len(log[ns])
  <2>2. /\ log[ns] \in Seq(Mails) /\ n \in Nat /\ Len(log'[ns]) = n + 1 /\ log'[ns][n + 1] = m
        /\ \A t \in 1..n : log'[ns][t] = log[ns][t] /\ log[ns][t] \in Mails
    BY <1>1, <1>2, <2>1
  <2>3. \A t \in 1..n : log[ns][t] # m /\ status[log[ns][t]] # "ready"
    BY <2>1 DEF OnceInv
  <2>4. \A t \in 1..(n + 1) : t \in 1..n \/ t = n + 1
    BY <2>2
  <2> HIDE DEF n
  <2>5. \A t, u \in 1..Len(log'[ns]) : log'[ns][t] = log'[ns][u] => t = u
    <3>1. \A t, u \in 1..n : log[ns][t] = log[ns][u] => t = u
      BY <1>2, <2>1 DEF OnceInv, n
    <3> QED
      BY <2>2, <2>3, <2>4, <3>1
  <2>6. \A s \in Sessions : \A t, u \in 1..Len(log'[s]) : log'[s][t] = log'[s][u] => t = u
    <3> SUFFICES ASSUME NEW s \in Sessions
                 PROVE  \A t, u \in 1..Len(log'[s]) : log'[s][t] = log'[s][u] => t = u
      OBVIOUS
    <3>1. CASE s = ns
      BY <2>5, <3>1
    <3>2. CASE s # ns
      <4>1. log'[s] = log[s]
        BY <1>1, <2>1, <3>2
      <4> QED
        BY <4>1 DEF OnceInv
    <3> QED
      BY <3>1, <3>2
  <2>7. \A t \in 1..Len(log'[ns]) : status'[log'[ns][t]] # "ready"
    BY <1>1, <2>1, <2>2, <2>3, <2>4
  <2> QED
    BY <2>1, <2>6, <2>7 DEF OnceInv
<1>8. CASE LinkDrops \/ BrokerStops \/ BrokerStarts \/ ConsumerTimeout
  BY <1>4, <1>8 DEF LinkDrops, BrokerStops, BrokerStarts, ConsumerTimeout,
                    workerVars, handlerVars
<1>9. CASE CreateChannel \/ Recover
  <2>1. link' = "up" /\ ns' = ns + 1 /\ UNCHANGED <<log, status>> /\ ns < MaxSessions
    BY <1>9 DEF CreateChannel, Recover, brokerVars, handlerVars
  <2>2. ns + 1 \in Sessions
    BY <1>1, <2>1, ConstantsAssumption DEF Sessions
  <2>3. log[ns + 1] = <<>>
    BY <1>1, <2>2 DEF IInv, SessionInv
  <2> QED
    BY <2>1, <2>3 DEF OnceInv
<1>10. CASE \/ WorkerConnects \/ WorkerDeclares \/ StartThrows
            \/ ExecuteWithoutChannel \/ Consume \/ ConsumeThrows
            \/ StopRequested \/ CloseChannel \/ CloseThrows \/ CancelToken
            \/ ProcessEnds
  BY <1>4, <1>10
     DEF WorkerConnects, WorkerDeclares, StartThrows, ExecuteWithoutChannel, Consume,
         ConsumeThrows, StopRequested, CloseChannel, CloseThrows, CancelToken,
         ProcessEnds, brokerVars, handlerVars
<1>11. ASSUME NEW s \in Sessions, Handler(s)
       PROVE  OnceInv'
  <2>1. UNCHANGED <<log, link, ns>>
    BY <1>11 DEF Handler, Take, DropBuffered, SendSucceeds, SendFails, Ack, AckThrows, Nack,
                 workerVars
  <2>2. CASE Ack(s) \/ Nack(s)
    <3>1. \/ UNCHANGED status
          \/ \E v \in {"acked", "dropped"} : status' = [status EXCEPT ![InHand(s)] = v]
      BY <2>2, SettleFacts
    <3>2. \A m \in Mails : status[m] # "ready" => status'[m] # "ready"
      BY <1>1, <3>1
    <3>3. link = "up" => \A t \in 1..Len(log[ns]) : log[ns][t] \in Mails
      BY <1>1, <1>2
    <3> QED
      BY <2>1, <3>2, <3>3 DEF OnceInv
  <2>3. CASE ~(Ack(s) \/ Nack(s))
    BY <1>4, <1>11, <2>1, <2>3
       DEF Handler, Take, DropBuffered, SendSucceeds, SendFails, AckThrows, brokerVars
  <2> QED
    BY <2>2, <2>3
<1>12. CASE UNCHANGED vars
  BY <1>4, <1>12 DEF vars, brokerVars, workerVars, handlerVars
<1> QED
  BY <1>4, <1>5, <1>6, <1>7, <1>8, <1>9, <1>10, <1>11, <1>12, Zenon DEF Next, Broker, Worker

LEMMA SpentBounded ==
  ASSUME HandlerTypeOK, NEW m \in Mails
  PROVE  /\ IsFiniteSet(Spent(m)) /\ Cardinality(Spent(m)) \in Nat
         /\ Cardinality(Spent(m)) <= MaxAttempts * Cardinality(DeliveredIn(m))
<1> DEFINE D == DeliveredIn(m)
           P == D \X (1..MaxAttempts)
<1>1. IsFiniteSet(Sessions) /\ D \subseteq Sessions
  BY ConstantsAssumption, FS_Interval DEF Sessions, DeliveredIn
<1>2. IsFiniteSet(D) /\ Cardinality(D) \in Nat
  BY <1>1, FS_Subset, FS_CardinalityType
<1>3. IsFiniteSet(1..MaxAttempts) /\ Cardinality(1..MaxAttempts) = MaxAttempts
  BY ConstantsAssumption, FS_Interval
<1> HIDE DEF D
<1>4. IsFiniteSet(P) /\ Cardinality(P) = Cardinality(D) * MaxAttempts
  BY <1>2, <1>3, FS_Product
<1>5. Spent(m) \subseteq P
  <2>1. \A s \in Sessions : 1..taken[s] \subseteq 1..Len(log[s])
    <3> TAKE s \in Sessions
    <3>1. taken[s] \in Nat /\ log[s] \in Seq(Mails) /\ taken[s] <= Len(log[s])
      BY DEF HandlerTypeOK
    <3> QED
      BY <3>1
  <2> QED
    BY <2>1 DEF Spent, D, DeliveredIn
<1>6. IsFiniteSet(Spent(m)) /\ Cardinality(Spent(m)) <= Cardinality(P)
  BY <1>4, <1>5, FS_Subset
<1>7. Cardinality(D) * MaxAttempts = MaxAttempts * Cardinality(D)
  BY <1>2, ConstantsAssumption
<1> QED
  BY <1>4, <1>6, <1>7, FS_CardinalityType DEF D

SpentFinitely == \A m \in Mails : IsFiniteSet(Spent(m)) /\ Cardinality(Spent(m)) \in Nat

LEMMA SpentFinite == HandlerTypeOK => SpentFinitely
BY SpentBounded DEF SpentFinitely

(* What has been spent stays spent, and a copy is another attempt.          *)
LEMMA SpentGrows ==
  ASSUME IInv, HandlerTypeOK', CopiesInv, NEW m \in Mails, Spent(m) \subseteq Spent(m)',
         \/ copies'[m] = copies[m]
         \/ copies'[m] = copies[m] + 1 /\ \E a \in Spent(m)' : a \notin Spent(m)
  PROVE  copies'[m] <= Cardinality(Spent(m)')
<1>1. HandlerTypeOK
  BY DEF IInv, TypeOK
<1>2. IsFiniteSet(Spent(m)) /\ Cardinality(Spent(m)) \in Nat
  BY <1>1, SpentFinite DEF SpentFinitely
<1>3. IsFiniteSet(Spent(m)') /\ Cardinality(Spent(m)') \in Nat
  <2>1. SpentFinitely'
    BY SpentFinite, PTL
  <2> QED
    BY <2>1 DEF SpentFinitely
<1>4. copies[m] \in Nat /\ copies[m] <= Cardinality(Spent(m))
  BY <1>1 DEF CopiesInv, HandlerTypeOK
<1>5. CASE copies'[m] = copies[m]
  <2>1. Cardinality(Spent(m)) <= Cardinality(Spent(m)')
    BY <1>3, FS_Subset
  <2> QED
    BY <1>2, <1>3, <1>4, <1>5, <2>1
<1>6. ASSUME copies'[m] = copies[m] + 1, NEW a \in Spent(m)', a \notin Spent(m)
      PROVE  copies'[m] <= Cardinality(Spent(m)')
  <2>1. /\ IsFiniteSet(Spent(m) \union {a})
        /\ Cardinality(Spent(m) \union {a}) = Cardinality(Spent(m)) + 1
    BY <1>2, <1>6, FS_AddElement
  <2>2. Spent(m) \union {a} \subseteq Spent(m)'
    BY <1>6
  <2>3. Cardinality(Spent(m) \union {a}) <= Cardinality(Spent(m)')
    BY <1>3, <2>2, FS_Subset
  <2> QED
    BY <1>2, <1>3, <1>4, <1>6, <2>1, <2>3
<1> QED
  BY <1>5, <1>6

(* A step of one handler, or of none, that takes nothing back.              *)
NothingBack ==
  \A s \in Sessions :
    /\ taken[s] <= taken'[s]
    /\ \A t \in 1..taken[s] : log'[s][t] = log[s][t]
    /\ taken'[s] = taken[s] /\ hnd'[s] = "send" => hnd[s] = "send" /\ tries[s] <= tries'[s]

LEMMA SpentStays ==
  ASSUME IInv, HandlerTypeOK', NothingBack, NEW m \in Mails
  PROVE  Spent(m) \subseteq Spent(m)'
<1> SUFFICES ASSUME NEW a \in Spent(m)
             PROVE  a \in Spent(m)'
  OBVIOUS
<1> DEFINE s == a[1]
           k == a[2]
<1>5. s \in Sessions /\ k \in 1..MaxAttempts /\ a \in Sessions \X (1..MaxAttempts)
  BY DEF Spent
<1>1. /\ taken[s] \in Nat /\ tries[s] \in Nat /\ taken'[s] \in Nat /\ tries'[s] \in Nat
      /\ k \in Nat
  BY <1>5, ConstantsAssumption DEF IInv, TypeOK, HandlerTypeOK
<1>2. PICK t \in 1..taken[s] :
        /\ log[s][t] = m
        /\ t = taken[s] /\ hnd[s] = "send" => k <= tries[s]
  BY DEF Spent
<1> HIDE DEF s, k
<1>3. t \in 1..taken'[s] /\ log'[s][t] = m
  BY <1>1, <1>2, <1>5 DEF NothingBack
<1>4. t = taken'[s] /\ hnd'[s] = "send" => k <= tries'[s]
  BY <1>1, <1>2, <1>5 DEF NothingBack
<1> QED
  BY <1>3, <1>4, <1>5 DEF Spent, s, k

(* The steps that take nothing back and send nothing. *)
LEMMA QuietStep ==
  ASSUME IInv, HandlerTypeOK', CopiesInv, NothingBack, NEW m \in Mails, copies' = copies
  PROVE  copies'[m] <= Cardinality(Spent(m)')
BY SpentStays, SpentGrows

LEMMA CopiesStep == IInv /\ IInv' /\ OnceInv /\ CopiesInv /\ [Next]_vars => CopiesInv'
<1> SUFFICES ASSUME IInv, IInv', OnceInv, CopiesInv, [Next]_vars, NEW m \in Mails
             PROVE  copies'[m] <= Cardinality(Spent(m)')
  BY DEF CopiesInv
<1>1. HandlerTypeOK /\ HandlerTypeOK'
  BY DEF IInv, TypeOK
<1>2. /\ log \in [Sessions -> Seq(Mails)] /\ taken \in [Sessions -> Nat]
      /\ hnd \in [Sessions -> {"idle", "send", "ack", "nack"}]
      /\ tries \in [Sessions -> 0..MaxAttempts] /\ copies \in [Mails -> Nat]
      /\ \A s \in Sessions : taken[s] <= Len(log[s])
  BY <1>1 DEF HandlerTypeOK
<1>3. CASE UNCHANGED handlerVars
  <2>1. NothingBack /\ copies' = copies
    BY <1>2, <1>3, ConstantsAssumption DEF NothingBack, handlerVars
  <2> QED
    BY <1>1, <2>1, QuietStep
<1>4. ASSUME NEW n \in Mails, Deliver(n)
      PROVE  copies'[m] <= Cardinality(Spent(m)')
  <2>1. /\ UNCHANGED <<taken, hnd, tries, copies>> /\ log' = [log EXCEPT ![ns] = Append(@, n)]
        /\ ns \in Sessions
    BY <1>4 DEF Deliver, IInv, LinkInv
  <2>2. \A s \in Sessions : \A t \in 1..taken[s] : log'[s][t] = log[s][t]
    BY <1>2, <2>1
  <2>3. NothingBack
    BY <1>2, <2>1, <2>2, ConstantsAssumption DEF NothingBack
  <2> QED
    BY <1>1, <2>1, <2>3, QuietStep
<1>5. CASE ProcessEnds
  <2>1. /\ UNCHANGED <<log, taken, copies>> /\ hnd' = [s \in Sessions |-> "idle"]
    BY <1>5 DEF ProcessEnds
  <2>2. NothingBack
    BY <1>2, <2>1 DEF NothingBack
  <2> QED
    BY <1>1, <2>1, <2>2, QuietStep
<1>6. ASSUME NEW s \in Sessions, Handler(s)
      PROVE  copies'[m] <= Cardinality(Spent(m)')
  <2>1. UNCHANGED log
    BY <1>6 DEF Handler, Take, DropBuffered, SendSucceeds, SendFails, Ack, AckThrows, Nack
  <2>2. CASE Take(s) \/ DropBuffered(s)
    <3>1. /\ UNCHANGED copies /\ hnd[s] = "idle"
          /\ \E v \in Nat : v > taken[s] /\ taken' = [taken EXCEPT ![s] = v]
          /\ \A u \in Sessions : u # s => hnd'[u] = hnd[u] /\ tries'[u] = tries[u]
      BY <1>2, <2>2 DEF Take, DropBuffered
    <3>2. NothingBack
      BY <1>2, <2>1, <3>1, ConstantsAssumption DEF NothingBack
    <3> QED
      BY <1>1, <3>1, <3>2, QuietStep
  <2>3. CASE Ack(s) \/ AckThrows(s) \/ Nack(s)
    <3>1. /\ UNCHANGED <<copies, taken, tries>>
          /\ \E v \in {"idle", "nack"} : hnd' = [hnd EXCEPT ![s] = v]
      BY <2>3 DEF Ack, AckThrows, Nack
    <3>2. NothingBack
      BY <1>2, <2>1, <3>1, ConstantsAssumption DEF NothingBack
    <3> QED
      BY <1>1, <3>1, <3>2, QuietStep
  <2>4. CASE SendSucceeds(s) \/ SendFails(s)
    <3>1. /\ hnd[s] = "send" /\ UNCHANGED taken
          /\ copies' = copies \/ copies' = [copies EXCEPT ![InHand(s)] = @ + 1]
          /\ \/ hnd' = [hnd EXCEPT ![s] = "ack"] /\ tries' = tries
             \/ /\ tries' = [tries EXCEPT ![s] = @ + 1]
                /\ \E v \in {"send", "nack"} : hnd' = [hnd EXCEPT ![s] = v]
      BY <2>4 DEF SendSucceeds, SendFails
    <3>2. tries[s] \in Nat /\ tries[s] < MaxAttempts /\ taken[s] \in 1..Len(log[s])
      BY <1>2, <3>1, ConstantsAssumption DEF IInv, HandlerInv, SessionInv
    <3>3. Spent(m) \subseteq Spent(m)'
      <4>1. \A u \in Sessions : /\ taken'[u] = taken[u]
                                /\ hnd'[u] = "send" => hnd[u] = "send" /\ tries[u] <= tries'[u]
        BY <1>2, <3>1, <3>2, ConstantsAssumption
      <4>2. NothingBack
        BY <1>2, <2>1, <4>1 DEF NothingBack
      <4> QED
        BY <1>1, <4>2, SpentStays
    <3>4. CASE copies'[m] = copies[m]
      BY <1>1, <3>3, <3>4, SpentGrows
    <3>5. CASE copies'[m] # copies[m]
      <4>1. InHand(s) = m /\ copies'[m] = copies[m] + 1
        BY <1>2, <3>1, <3>5
      <4>2. <<s, tries[s] + 1>> \in Spent(m)'
        <5>1. tries[s] + 1 \in 1..MaxAttempts
          BY <3>2, ConstantsAssumption
        <5>2. taken[s] \in 1..taken'[s] /\ log'[s][taken[s]] = m
          BY <1>2, <2>1, <3>1, <3>2, <4>1 DEF InHand
        <5>3. hnd'[s] = "send" => tries'[s] = tries[s] + 1
          BY <1>2, <3>1
        <5> QED
          BY <3>2, <5>1, <5>2, <5>3 DEF Spent
      <4>3. <<s, tries[s] + 1>> \notin Spent(m)
        <5> SUFFICES ASSUME NEW t \in 1..taken[s], log[s][t] = m,
                            t = taken[s] => tries[s] + 1 <= tries[s]
                     PROVE  FALSE
          BY <3>1 DEF Spent
        <5>1. t \in 1..Len(log[s]) /\ log[s][taken[s]] = m
          BY <1>2, <3>2, <4>1 DEF InHand
        <5>2. t = taken[s]
          BY <3>2, <5>1 DEF OnceInv
        <5> QED
          BY <3>2, <5>2
      <4> QED
        BY <1>1, <3>3, <4>1, <4>2, <4>3, SpentGrows
    <3> QED
      BY <3>4, <3>5
  <2> QED
    BY <1>6, <2>2, <2>3, <2>4, Zenon DEF Handler
<1>7. ASSUME NEW n \in Mails, Api(n) \/ Receive(n) \/ LosePublish(n) \/ ForeignPublish(n)
      PROVE  UNCHANGED handlerVars
  BY <1>7, Zenon DEF Api, Reject, OpenChannel, PublisherDeclares, Publish, PublishThrows,
                     ReturnOk, Receive, LosePublish, ForeignPublish
<1>8. CASE LinkDrops \/ BrokerStops \/ BrokerStarts \/ ConsumerTimeout
  BY <1>3, <1>8, Zenon DEF LinkDrops, BrokerStops, BrokerStarts, ConsumerTimeout
<1>9. ASSUME Worker, ~ProcessEnds
      PROVE  UNCHANGED handlerVars
  BY <1>9, Zenon
     DEF Worker, WorkerConnects, CreateChannel, WorkerDeclares, StartThrows,
         ExecuteWithoutChannel, Consume, ConsumeThrows, Recover, StopRequested,
         CloseChannel, CloseThrows, CancelToken
<1>10. CASE UNCHANGED vars
  BY <1>3, <1>10, Zenon DEF vars
<1> QED
  BY <1>3, <1>4, <1>5, <1>6, <1>7, <1>8, <1>9, <1>10, Zenon DEF Next, Broker

(* For every instance, a recipient gets at most MaxAttempts copies of a     *)
(* mail for each session in which it was delivered.                         *)
THEOREM CopiesAreBounded == Spec => []CopiesBounded
<1>1. Init => OnceInv /\ CopiesInv
  <2> SUFFICES ASSUME Init PROVE OnceInv /\ CopiesInv
    OBVIOUS
  <2>1. IInv
    BY InitInv
  <2>2. \A m \in Mails : Cardinality(Spent(m)) \in Nat
    BY <2>1, SpentFinite DEF SpentFinitely, IInv, TypeOK
  <2> QED
    BY <2>2 DEF Init, OnceInv, CopiesInv
<1>2. IInv /\ IInv' /\ OnceInv /\ CopiesInv /\ [Next]_vars => OnceInv' /\ CopiesInv'
  BY OnceStep, CopiesStep
<1>3. IInv /\ CopiesInv => CopiesBounded
  <2> SUFFICES ASSUME IInv, CopiesInv, NEW m \in Mails
               PROVE  copies[m] <= MaxAttempts * Cardinality(DeliveredIn(m))
    BY Zenon DEF CopiesBounded, DeliveredIn
  <2>1. /\ Cardinality(Spent(m)) \in Nat
        /\ Cardinality(Spent(m)) <= MaxAttempts * Cardinality(DeliveredIn(m))
    BY SpentBounded DEF IInv, TypeOK
  <2>2. IsFiniteSet(Sessions) /\ DeliveredIn(m) \subseteq Sessions
    BY ConstantsAssumption, FS_Interval DEF Sessions, DeliveredIn
  <2>3. Cardinality(DeliveredIn(m)) \in Nat
    BY <2>2, FS_Subset, FS_CardinalityType
  <2>4. copies[m] \in Nat /\ copies[m] <= Cardinality(Spent(m))
    BY DEF IInv, TypeOK, HandlerTypeOK, CopiesInv
  <2> DEFINE bound == MaxAttempts * Cardinality(DeliveredIn(m))
  <2>5. bound \in Nat
    BY <2>3, ConstantsAssumption
  <2> HIDE DEF bound
  <2>6. Cardinality(Spent(m)) <= bound
    BY <2>1 DEF bound
  <2>7. copies[m] <= bound
    BY <2>1, <2>4, <2>5, <2>6
  <2> QED
    BY <2>7 DEF bound
<1> QED
  BY <1>1, <1>2, <1>3, SpecInv, PTL DEF Spec
=============================================================================
