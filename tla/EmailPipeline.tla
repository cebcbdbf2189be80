---------------------------- MODULE EmailPipeline ----------------------------
(***************************************************************************)
(* The path of a mail from the API to the SMTP server:                     *)
(*                                                                         *)
(*   TestEmailController -> EmailPublisher -> RabbitMQ's email_queue       *)
(*     -> EmailConsumerWorker -> EmailService (SMTP)                       *)
(*                                                                         *)
(* Every API request works through its own connection.  The worker owns    *)
(* one connection and one channel, which RabbitMQ.Client reopens after a   *)
(* network failure; a "session" is one life of that channel.  Delivery     *)
(* tags count from 1 in each session, so log[s][t] is the mail delivered   *)
(* on session s with tag t.  Messages wait in the client until the         *)
(* session's handler takes them, one at a time; the handlers of different  *)
(* sessions run concurrently, because the client starts a new dispatcher   *)
(* for the reopened channel while the old one still runs.                  *)
(*                                                                         *)
(* The broker, the client library and the network are external and         *)
(* modelled from how the code uses them.  SendEmailAsync is represented by *)
(* the steps of module MailHandoff, which MailDelivery implements.         *)
(***************************************************************************)
EXTENDS Naturals, Sequences, FiniteSets

CONSTANTS
  Mails,        \* the mails producers may queue
  Class,        \* what each of them is, see Classes
  MaxAttempts,  \* SMTP attempts of one SendEmailAsync call; 4 in the code
  MaxSessions   \* bound: how many times the worker may get a channel

(* "blank":       an API request without address or name                   *)
(* "good":        an API request that makes a proper mail                  *)
(* "badAddress":  an API request whose address MimeKit refuses             *)
(* "malformed":   another producer's message that is not the expected JSON *)
(* "noRecipient": another producer's message whose To is null or empty     *)
Classes == {"blank", "good", "badAddress", "malformed", "noRecipient"}

ASSUME ConstantsAssumption ==
  /\ Class \in [Mails -> Classes]
  /\ MaxAttempts \in Nat \ {0}
  /\ MaxSessions \in Nat

Sessions == 1..MaxSessions
OfApi == {m \in Mails : Class[m] \in {"blank", "good", "badAddress"}}
Silent == {m \in Mails : Class[m] = "noRecipient"}

VARIABLES
  pub,       \* where each API request is
  wire,      \* mails written to a publisher's socket, not yet at the broker
  brokerUp,  \* whether the broker can be reached
  queue,     \* whether email_queue has been declared
  status,    \* where the broker has each mail
  wk,        \* where the worker process is
  link,      \* _channel: "none" (null), "up", "down" (connection lost, the
             \* client reconnects), "dead" (closed by the broker), "closed"
  sub,       \* whether BasicConsume has registered the consumer
  ns,        \* sessions so far; session ns is the open one when link is "up"
  first,     \* first session of the present worker process
  log,       \* deliveries of each session, by tag
  taken,     \* last tag each session's handler has taken
  hnd,       \* what that handler is doing
  tries,     \* failed SMTP attempts of the delivery it handles
  sent,      \* whether SendEmailAsync returned for that delivery
  copies     \* copies of each mail the SMTP server took

apiVars == <<pub, wire>>
brokerVars == <<brokerUp, queue, status>>
workerVars == <<wk, link, sub, ns, first>>
handlerVars == <<log, taken, hnd, tries, sent, copies>>
vars == <<apiVars, brokerVars, workerVars, handlerVars>>

Init ==
  /\ pub = [m \in Mails |-> "idle"] /\ wire = {}
  /\ brokerUp \in BOOLEAN /\ queue = FALSE
  /\ status = [m \in Mails |-> "none"]
  /\ wk = "off" /\ link = "none" /\ sub = FALSE /\ ns = 0 /\ first = 1
  /\ log = [s \in Sessions |-> <<>>]
  /\ taken = [s \in Sessions |-> 0]
  /\ hnd = [s \in Sessions |-> "idle"]
  /\ tries = [s \in Sessions |-> 0]
  /\ sent = [s \in Sessions |-> FALSE]
  /\ copies = [m \in Mails |-> 0]

-----------------------------------------------------------------------------
(* The API: TestEmailController.PublishWelcomeEmail and EmailPublisher.     *)

Reject(m) ==
  /\ pub[m] = "idle" /\ Class[m] = "blank"
  /\ pub' = [pub EXCEPT ![m] = "badRequest"]
  /\ UNCHANGED <<wire, brokerVars, workerVars, handlerVars>>

OpenChannel(m) ==
  /\ pub[m] = "idle" /\ Class[m] \in {"good", "badAddress"}
  /\ brokerUp
  /\ pub' = [pub EXCEPT ![m] = "open"]
  /\ UNCHANGED <<wire, brokerVars, workerVars, handlerVars>>

PublisherDeclares(m) ==
  /\ pub[m] = "open" /\ brokerUp
  /\ pub' = [pub EXCEPT ![m] = "declared"]
  /\ queue' = TRUE
  /\ UNCHANGED <<wire, brokerUp, status, workerVars, handlerVars>>

\* BasicPublishAsync without publisher confirms: it returns once written.
Publish(m) ==
  /\ pub[m] = "declared" /\ brokerUp
  /\ pub' = [pub EXCEPT ![m] = "written"]
  /\ wire' = wire \union {m}
  /\ UNCHANGED <<brokerVars, workerVars, handlerVars>>

\* An exception in any of the calls above ends the request with status 500.
PublishThrows(m) ==
  /\ \/ pub[m] \in {"open", "declared"}
     \/ pub[m] = "idle" /\ Class[m] \in {"good", "badAddress"}
  /\ pub' = [pub EXCEPT ![m] = "error"]
  /\ UNCHANGED <<wire, brokerVars, workerVars, handlerVars>>

\* Leaving the "using" scopes closes the channel.  The broker answers after it
\* has read what was written before; on a broken connection the close gives up
\* without an exception.  Either way the controller returns Ok.
ReturnOk(m) ==
  /\ pub[m] = "written" /\ m \notin wire
  /\ pub' = [pub EXCEPT ![m] = "ok"]
  /\ UNCHANGED <<wire, brokerVars, workerVars, handlerVars>>

-----------------------------------------------------------------------------
(* The broker (external).                                                   *)

Enqueue(m) == status' = [status EXCEPT ![m] = "ready"]

Receive(m) ==
  /\ m \in wire /\ brokerUp
  /\ wire' = wire \ {m}
  /\ Enqueue(m)
  /\ UNCHANGED <<pub, brokerUp, queue, workerVars, handlerVars>>

\* The publisher's connection breaks before the broker has read the message.
LosePublish(m) ==
  /\ m \in wire
  /\ wire' = wire \ {m}
  /\ status' = [status EXCEPT ![m] = "lost"]
  /\ UNCHANGED <<pub, brokerUp, queue, workerVars, handlerVars>>

\* A producer other than the API queues a message.
ForeignPublish(m) ==
  /\ m \notin OfApi /\ status[m] = "none"
  /\ brokerUp /\ queue
  /\ Enqueue(m)
  /\ UNCHANGED <<apiVars, brokerUp, queue, workerVars, handlerVars>>

Live(s) == link = "up" /\ s = ns

\* No prefetch limit: whatever is ready goes out.  The order is left open.
Deliver(m) ==
  /\ link = "up" /\ sub
  /\ status[m] = "ready"
  /\ status' = [status EXCEPT ![m] = "unacked"]
  /\ log' = [log EXCEPT ![ns] = Append(@, m)]
  /\ UNCHANGED <<apiVars, brokerUp, queue, workerVars>>
  /\ UNCHANGED <<taken, hnd, tries, sent, copies>>

\* When a channel ends, what was not acknowledged on it is ready again.
Requeued == [m \in Mails |-> IF status[m] = "unacked" THEN "ready" ELSE status[m]]

\* The network between worker and broker fails.
LinkDrops ==
  /\ link \in {"up", "dead"}
  /\ ns < MaxSessions
  /\ link' = "down"
  /\ status' = Requeued
  /\ UNCHANGED <<apiVars, brokerUp, queue>>
  /\ UNCHANGED <<wk, sub, ns, first, handlerVars>>

\* The broker stops: every connection breaks, durable contents survive.
BrokerStops ==
  /\ brokerUp /\ (link \in {"up", "dead"} => ns < MaxSessions)
  /\ brokerUp' = FALSE
  /\ link' = IF link \in {"up", "dead"} THEN "down" ELSE link
  /\ wire' = {}
  /\ status' = [m \in Mails |-> IF m \in wire THEN "lost" ELSE Requeued[m]]
  /\ UNCHANGED <<pub, queue, wk, sub, ns, first, handlerVars>>

BrokerStarts ==
  /\ ~brokerUp /\ brokerUp' = TRUE
  /\ UNCHANGED <<apiVars, queue, status, workerVars, handlerVars>>

\* A delivery stayed unacknowledged beyond the broker's consumer timeout: the
\* broker closes the channel; the client does not reopen it.
ConsumerTimeout ==
  /\ link = "up"
  /\ \E m \in Mails : status[m] = "unacked"
  /\ link' = "dead"
  /\ status' = Requeued
  /\ UNCHANGED <<apiVars, brokerUp, queue>>
  /\ UNCHANGED <<wk, sub, ns, first, handlerVars>>

-----------------------------------------------------------------------------
(* The worker process: EmailConsumerWorker.StartAsync, ExecuteAsync up to   *)
(* BasicConsume, StopAsync, and the end of the process.                     *)

WorkerConnects ==
  /\ wk = "off" /\ brokerUp /\ ns < MaxSessions
  /\ wk' = "connected"
  /\ UNCHANGED <<apiVars, brokerVars, link, sub, ns, first, handlerVars>>

CreateChannel ==
  /\ wk = "connected" /\ brokerUp /\ ns < MaxSessions
  /\ wk' = "channel"
  /\ link' = "up" /\ ns' = ns + 1
  /\ UNCHANGED <<apiVars, brokerVars, sub, first, handlerVars>>

WorkerDeclares ==
  /\ wk = "channel" /\ link = "up"
  /\ wk' = "execute"
  /\ queue' = TRUE
  /\ UNCHANGED <<apiVars, brokerUp, status, link, sub, ns, first, handlerVars>>

\* Whichever of the three calls throws, the exception is only logged and the
\* host goes on to ExecuteAsync with what has been assigned so far.
StartThrows ==
  /\ wk \in {"off", "connected", "channel"}
  /\ wk' = "execute"
  /\ UNCHANGED <<apiVars, brokerVars, link, sub, ns, first, handlerVars>>

\* ExecuteAsync returns at once without a channel: the process idles.
ExecuteWithoutChannel ==
  /\ wk = "execute" /\ link = "none"
  /\ wk' = "idle"
  /\ UNCHANGED <<apiVars, brokerVars, link, sub, ns, first, handlerVars>>

Consume ==
  /\ wk = "execute" /\ link = "up" /\ queue
  /\ wk' = "consuming"
  /\ sub' = TRUE
  /\ UNCHANGED <<apiVars, brokerVars, link, ns, first, handlerVars>>

\* BasicConsume throws on a closed channel or an unknown queue; an exception
\* that leaves ExecuteAsync stops the host.
ConsumeThrows ==
  /\ wk = "execute" /\ link # "none" /\ (link = "up" => ~queue)
  /\ wk' = "stopping"
  /\ UNCHANGED <<apiVars, brokerVars, link, sub, ns, first, handlerVars>>

\* RabbitMQ.Client (external) reconnects and reopens the channel with its
\* consumer, until StopAsync has closed them.
Recover ==
  /\ link = "down" /\ brokerUp /\ ns < MaxSessions
  /\ link' = "up" /\ ns' = ns + 1
  /\ UNCHANGED <<apiVars, brokerVars, wk, sub, first, handlerVars>>

StopRequested ==
  /\ wk \in {"consuming", "idle"}
  /\ wk' = "stopping"
  /\ UNCHANGED <<apiVars, brokerVars, link, sub, ns, first, handlerVars>>

CloseChannel ==
  /\ wk = "stopping"
  /\ wk' = "closed"
  /\ link' = IF link = "none" THEN "none" ELSE "closed"
  /\ status' = Requeued
  /\ UNCHANGED <<apiVars, brokerUp, queue, sub, ns, first, handlerVars>>

\* Closing a channel or connection that is already gone may throw: the rest of
\* StopAsync is skipped, so the token stays uncancelled.
CloseThrows ==
  /\ \/ wk = "stopping" /\ link \in {"down", "dead"}
     \/ wk = "closed"
  /\ wk' = "aborted"
  /\ UNCHANGED <<apiVars, brokerVars, link, sub, ns, first, handlerVars>>

\* The connection is closed, then base.StopAsync cancels stoppingToken.
CancelToken ==
  /\ wk = "closed"
  /\ wk' = "cancelled"
  /\ UNCHANGED <<apiVars, brokerVars, link, sub, ns, first, handlerVars>>

Cancelled == wk = "cancelled"

\* The process ends, after StopAsync or by a crash at any moment: no handler
\* survives it, and the broker requeues what its channel had not acknowledged.
ProcessEnds ==
  /\ wk # "off"
  /\ wk' = "off" /\ link' = "none" /\ sub' = FALSE /\ first' = ns + 1
  /\ status' = Requeued
  /\ hnd' = [s \in Sessions |-> "idle"]
  /\ tries' = [s \in Sessions |-> 0]
  /\ sent' = [s \in Sessions |-> FALSE]
  /\ UNCHANGED <<apiVars, brokerUp, queue, ns, log, taken, copies>>

-----------------------------------------------------------------------------
(* The message handler of session s: the ReceivedAsync callback.            *)

\* The mail in the handler's hands (when hnd[s] is not "idle").
InHand(s) == log[s][taken[s]]

\* Fault: a message without recipient is skipped, not acknowledged.
Fault_SilentSkipped(s) ==
  /\ s \in first..ns /\ hnd[s] = "idle"
  /\ taken[s] < Len(log[s])
  /\ taken' = [taken EXCEPT ![s] = @ + 1]
  /\ \E next \in {"send", "idle", "nack"} :
       /\ CASE Class[log[s][taken[s] + 1]] = "malformed" -> next = "nack"
            [] Class[log[s][taken[s] + 1]] = "noRecipient" -> next = "idle"
            [] OTHER -> next \in {"send", "nack"}
       /\ hnd' = [hnd EXCEPT ![s] = next]
  /\ tries' = [tries EXCEPT ![s] = 0]
  /\ sent' = [sent EXCEPT ![s] = FALSE]
  /\ UNCHANGED <<apiVars, brokerVars, workerVars, log, copies>>

\* The next delivery is taken and parsed.  A message that does not parse goes
\* to the catch block, one without recipient straight to the acknowledgement;
\* for the others SendEmailAsync is called, which may fail before its first
\* attempt (the template file cannot be read).
Take(s) ==
  /\ s \in first..ns /\ hnd[s] = "idle"
  /\ taken[s] < Len(log[s])
  /\ taken' = [taken EXCEPT ![s] = @ + 1]
  /\ \E next \in {"send", "ack", "nack"} :
       /\ CASE Class[log[s][taken[s] + 1]] = "malformed" -> next = "nack"
            [] Class[log[s][taken[s] + 1]] = "noRecipient" -> next = "ack"
            [] OTHER -> next \in {"send", "nack"}
       /\ hnd' = [hnd EXCEPT ![s] = next]
  /\ tries' = [tries EXCEPT ![s] = 0]
  /\ sent' = [sent EXCEPT ![s] = FALSE]
  /\ UNCHANGED <<apiVars, brokerVars, workerVars, log, copies>>

\* What a closed channel had buffered may also be thrown away by the client.
DropBuffered(s) ==
  /\ s \in first..ns /\ ~Live(s) /\ hnd[s] = "idle"
  /\ taken[s] < Len(log[s])
  /\ taken' = [taken EXCEPT ![s] = Len(log[s])]
  /\ UNCHANGED <<apiVars, brokerVars, workerVars, log, hnd, tries, sent, copies>>

Deliverable(s) == Class[InHand(s)] # "badAddress" /\ ~Cancelled

SendSucceeds(s) ==
  /\ hnd[s] = "send" /\ Deliverable(s)
  /\ copies' = [copies EXCEPT ![InHand(s)] = @ + 1]
  /\ hnd' = [hnd EXCEPT ![s] = "ack"]
  /\ sent' = [sent EXCEPT ![s] = TRUE]
  /\ UNCHANGED <<apiVars, brokerVars, workerVars, log, taken, tries>>

\* Fault: one retry too many.
Fault_OneRetryMore(s) ==
  /\ hnd[s] = "send"
  /\ \/ UNCHANGED copies
     \/ Deliverable(s) /\ copies' = [copies EXCEPT ![InHand(s)] = @ + 1]
  /\ tries' = [tries EXCEPT ![s] = @ + 1]
  /\ hnd' = [hnd EXCEPT ![s] = IF tries[s] < MaxAttempts THEN "send" ELSE "nack"]
  /\ UNCHANGED <<apiVars, brokerVars, workerVars, log, taken, sent>>

\* The attempt throws, perhaps after the server took the mail; after the last
\* one SendEmailAsync throws too.
SendFails(s) ==
  /\ hnd[s] = "send"
  /\ \/ UNCHANGED copies
     \/ Deliverable(s) /\ copies' = [copies EXCEPT ![InHand(s)] = @ + 1]
  /\ tries' = [tries EXCEPT ![s] = @ + 1]
  /\ hnd' = [hnd EXCEPT ![s] = IF tries[s] + 1 < MaxAttempts THEN "send" ELSE "nack"]
  /\ UNCHANGED <<apiVars, brokerVars, workerVars, log, taken, sent>>

\* BasicAck and BasicNack on the channel object: the open session's tags reach
\* the broker; a tag of an earlier session is ignored once the channel has been
\* reopened; on a channel that is not open, and with a cancelled token, the
\* call throws.
Reaches(s) == Live(s) /\ ~Cancelled
Stale(s) == link = "up" /\ s # ns
Throws(s) == ~Reaches(s) /\ ~Stale(s)

Settle(s, outcome) == status' = [status EXCEPT ![InHand(s)] = outcome]

Ack(s) ==
  /\ hnd[s] = "ack"
  /\ \/ Reaches(s) /\ Settle(s, "acked")
     \/ Stale(s) /\ UNCHANGED status
  /\ hnd' = [hnd EXCEPT ![s] = "idle"]
  /\ UNCHANGED <<apiVars, brokerUp, queue, workerVars>>
  /\ UNCHANGED <<log, taken, tries, sent, copies>>

\* Fault: the acknowledgement may throw although the channel is open.
Fault_AckThrowsAnytime(s) ==
  /\ hnd[s] = "ack"
  /\ hnd' = [hnd EXCEPT ![s] = "nack"]
  /\ UNCHANGED <<apiVars, brokerVars, workerVars, log, taken, tries, sent, copies>>

\* The acknowledgement is inside the try block: its exception leads to the nack.
AckThrows(s) ==
  /\ hnd[s] = "ack" /\ Throws(s)
  /\ hnd' = [hnd EXCEPT ![s] = "nack"]
  /\ UNCHANGED <<apiVars, brokerVars, workerVars, log, taken, tries, sent, copies>>

\* Fault: the catch block only logs.
Fault_NackForgotten(s) ==
  /\ hnd[s] = "nack"
  /\ hnd' = [hnd EXCEPT ![s] = "idle"]
  /\ UNCHANGED <<apiVars, brokerVars, workerVars>>
  /\ UNCHANGED <<log, taken, tries, sent, copies>>

\* Fault: the acknowledgement moved behind the catch block.
Fault_AlwaysAck(s) ==
  /\ hnd[s] = "nack"
  /\ \/ Reaches(s) /\ Settle(s, "acked")
     \/ ~Reaches(s) /\ UNCHANGED status
  /\ hnd' = [hnd EXCEPT ![s] = "idle"]
  /\ UNCHANGED <<apiVars, brokerUp, queue, workerVars>>
  /\ UNCHANGED <<log, taken, tries, sent, copies>>

\* Refused without requeue, and no dead letter exchange: the mail is gone.
\* An exception of the nack itself ends in the client's dispatcher.
Nack(s) ==
  /\ hnd[s] = "nack"
  /\ \/ Reaches(s) /\ Settle(s, "dropped")
     \/ ~Reaches(s) /\ UNCHANGED status
  /\ hnd' = [hnd EXCEPT ![s] = "idle"]
  /\ UNCHANGED <<apiVars, brokerUp, queue, workerVars>>
  /\ UNCHANGED <<log, taken, tries, sent, copies>>

-----------------------------------------------------------------------------
Api(m) == \/ Reject(m) \/ OpenChannel(m) \/ PublisherDeclares(m)
          \/ Publish(m) \/ PublishThrows(m) \/ ReturnOk(m)

Broker == \/ \E m \in Mails : Receive(m) \/ LosePublish(m) \/ ForeignPublish(m) \/ Deliver(m)
          \/ LinkDrops \/ BrokerStops \/ BrokerStarts \/ ConsumerTimeout

Worker == \/ WorkerConnects \/ CreateChannel \/ WorkerDeclares \/ StartThrows
          \/ ExecuteWithoutChannel \/ Consume \/ ConsumeThrows \/ Recover
          \/ StopRequested \/ CloseChannel \/ CloseThrows \/ CancelToken
          \/ ProcessEnds

Handler(s) == \/ Take(s) \/ DropBuffered(s) \/ SendSucceeds(s) \/ SendFails(s)
              \/ Ack(s) \/ AckThrows(s) \/ Nack(s)

Next == \/ \E m \in Mails : Api(m)
        \/ Broker
        \/ Worker
        \/ \E s \in Sessions : Handler(s)

Spec == Init /\ [][Next]_vars

\* The client library keeps dispatching, reconnecting and pushing deliveries,
\* every SMTP call ends, and StartAsync and ExecuteAsync run to their end once
\* begun.  Nothing makes the broker or the worker process come back.
Fairness ==
  /\ WF_vars(\E m \in Mails : Deliver(m))
  /\ WF_vars(Recover)
  /\ WF_vars(wk # "off" /\ (CreateChannel \/ WorkerDeclares \/ StartThrows))
  /\ WF_vars(ExecuteWithoutChannel \/ Consume \/ ConsumeThrows)
  /\ \A s \in Sessions : WF_vars(Handler(s))

FairSpec == Spec /\ Fairness

-----------------------------------------------------------------------------
(* Type invariant. *)
ApiTypeOK ==
  /\ pub \in [Mails -> {"idle", "badRequest", "open", "declared", "written", "ok", "error"}]
  /\ wire \subseteq Mails
BrokerTypeOK ==
  /\ brokerUp \in BOOLEAN
  /\ queue \in BOOLEAN
  /\ status \in [Mails -> {"none", "lost", "ready", "unacked", "acked", "dropped"}]
WorkerTypeOK ==
  /\ wk \in {"off", "connected", "channel", "execute", "consuming", "idle",
             "stopping", "closed", "cancelled", "aborted"}
  /\ link \in {"none", "up", "down", "dead", "closed"}
  /\ sub \in BOOLEAN
  /\ ns \in 0..MaxSessions
  /\ first \in 1..(ns + 1)
HandlerTypeOK ==
  /\ log \in [Sessions -> Seq(Mails)]
  /\ taken \in [Sessions -> Nat]
  /\ \A s \in Sessions : taken[s] <= Len(log[s])
  /\ hnd \in [Sessions -> {"idle", "send", "ack", "nack"}]
  /\ tries \in [Sessions -> 0..MaxAttempts]
  /\ sent \in [Sessions -> BOOLEAN]
  /\ copies \in [Mails -> Nat]
TypeOK == ApiTypeOK /\ BrokerTypeOK /\ WorkerTypeOK /\ HandlerTypeOK

(* Worker and broker agree on what is outstanding: the mails the broker     *)
(* counts as unacknowledged are those the open channel's handler holds or   *)
(* has buffered behind it.  So the worker never settles a tag the broker    *)
(* does not know (which would cost it the channel), and no exception path   *)
(* of the handler leaves a delivery behind that nobody will settle.         *)
OutstandingTags(s) ==
  {t \in 1..Len(log[s]) : t > taken[s] \/ (t = taken[s] /\ hnd[s] # "idle")}

OutstandingAgree ==
  {m \in Mails : status[m] = "unacked"} =
    IF link = "up" THEN {log[ns][t] : t \in OutstandingTags(ns)} ELSE {}

(* The recipient's worst case: every delivery of a mail costs at most       *)
(* MaxAttempts copies.                                                      *)
CopiesBounded ==
  \A m \in Mails :
    copies[m] <= MaxAttempts *
      Cardinality({s \in Sessions : \E t \in 1..Len(log[s]) : log[s][t] = m})

(* A mail is settled only through its own latest delivery: acknowledged if  *)
(* SendEmailAsync returned for that very delivery (or nobody is to be       *)
(* written to), refused if it did not.  Handlers left over from earlier     *)
(* sessions settle nothing, and the failure of an acknowledgement, which    *)
(* falls into the same catch block, never drops a mail that went out.       *)
SettledByItsDelivery ==
  [][\A m \in Mails :
       /\ status[m] # "acked" /\ status'[m] = "acked" =>
            hnd[ns] = "ack" /\ InHand(ns) = m /\ (sent[ns] \/ m \in Silent)
       /\ status[m] # "dropped" /\ status'[m] = "dropped" =>
            hnd[ns] = "nack" /\ InHand(ns) = m /\ ~sent[ns]]_vars

(* The pipeline as a whole delivers at least once; see AtLeastOnce.         *)
Fate(m) == CASE status[m] \in {"none", "lost"} -> "new"
             [] status[m] \in {"ready", "unacked"} -> "stored"
             [] status[m] = "acked" -> "done"
             [] status[m] = "dropped" -> "discarded"

ALO == INSTANCE AtLeastOnce WITH fate <- [m \in Mails |-> Fate(m)]

DeliversAtLeastOnce == ALO!Spec

(* While the worker consumes, the broker is up and the broker has not       *)
(* closed the channel, a queued mail is settled in the end, whatever        *)
(* network failures, failing sends and stale handlers come in between.      *)
Healthy == wk = "consuming" /\ brokerUp /\ link # "dead"
QueuedIsSettled ==
  \A m \in Mails :
    status[m] = "ready" ~> status[m] \in {"acked", "dropped"} \/ ~Healthy

-----------------------------------------------------------------------------
(* Three statements of the documentation and the code's own answers that    *)
(* the code does not keep; see the README's findings.                       *)

(* Documentation: a message is refused when sending it failed permanently.  *)
RefusedWasNotSent == \A m \in Mails : status[m] = "dropped" => copies[m] = 0

(* The controller's answer: the mail has been put into the queue.           *)
OkMeansQueued == \A m \in Mails : pub[m] = "ok" => status[m] # "lost"

(* Documentation: the worker stays alive and listens to the queue; so once  *)
(* it has started it listens, or its process ends.                          *)
StartedWorkerListens == wk = "execute" ~> sub \/ wk \notin {"execute", "idle"}
=============================================================================
