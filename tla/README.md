# SkillBuddy: models and proofs

This directory holds TLA+ modules for the parts of SkillBuddy that have state
worth reasoning about, TLC configurations that check them on small instances, and
theorems that the TLAPS proof system checks for every value of the constants.
Paths below are relative to `src/`.

## 1. The system and its components

SkillBuddy is a .NET 8 solution: an API (`SkillBuddy.ui`), an email worker
(`SkillBuddy.Worker`), a PostgreSQL access layer (`SkillBuddy.data`), shared
helpers (`SkillBuddy.Core`, `SkillBuddy.Entity`, `SkillBuddy.BLL`) and two nearly
identical web front ends (`SkillBuddy.Blazor`, `SkillBuddy.frontend`). The
repository has no tests of the C# code.

| Component | State it keeps | Operations | Talks to |
| --- | --- | --- | --- |
| `TestEmailController`, `EmailPublisher` | none between requests | `PublishWelcomeEmail`, `PublishEmailAsync` | RabbitMQ, a connection per request |
| `EmailConsumerWorker` | `_connection`, `_channel`, the stopping token, the deliveries in its handlers | `StartAsync`, `ExecuteAsync`, the `ReceivedAsync` handler, `StopAsync` | RabbitMQ, `EmailService` |
| `EmailService`, `RetryService`, `TemplateService`, `SmtpProvider` | the progress of one call | `SendEmailAsync` | template files, the SMTP server |
| `DataConnection` | `oConn`, `oTran`, `blnIsOpen`, `blnTranActive` | open, close, begin, commit, roll back, each also asynchronous | Npgsql |
| `DataManager` | `oConn`, `blnLocalConn`, `oParameters` | connection setter, parameters, queries, reader, `GetCommand`, `Dispose` | `DataConnection`, Npgsql |
| `single-product.js` | index, selection, layout, drag state, a resize timeout | pointer, click, key and resize handlers, a second script for the arrows | the browser |
| `Cryptography` | an instance's and the static key and salt | constructor, encrypt, decrypt, static and as extension methods | nothing |
| `Helper`, `ListExtension` | the positions of one `CsvParser` call | rows to CSV, CSV to rows with two readers, list conversions | files |
| `QueryBuilder`, `DataHelper` | the running calls of a recursion over nested rules | `FromJson`, `QueryBuilderToDataTable` | nothing |
| controllers, pages, entities, `UserManager`, `UserDataAccess` | none | stubs and static content | nothing |
| `skillbuddy/cmake-4.0.3` | – | vendored build tool | – |

How they interact: the API publishes a message to the durable queue
`email_queue`; the worker consumes it with manual acknowledgement, sends one
mail by SMTP with retries, then acknowledges or refuses it. A `DataConnection` is
shared, by reference, between its owner (who controls the transaction) and any
number of `DataManager`s (who run statements on it). Everything else is called
synchronously. At this commit nothing in the API opens a database connection yet,
and `single-product.js` is loaded by a saved page only; both are modelled as
their interfaces allow them to be used.

What is hard about it, and what makes each component correct:

* **Email pipeline** – redelivery while an earlier handler still runs, a channel
  reopened behind the handler's back, exceptions of the acknowledgement itself,
  shutdown and crash in the middle, publishing without confirms. Correct: a stored
  mail is not lost before it is settled, it is settled once, by its own delivery
  and in agreement with what happened to it, and every copy the recipient gets
  has a reason and a bound.
* **One mail** – retries around an action whose failure does not mean that
  nothing happened. Correct: duplicates only after late failures, and an exception
  only when all has been tried.
* **Data access** – two flags and two references that must tell the truth about a
  server that can abort a transaction or disappear. Correct: what a normal return
  of `CommitTran` and `RollbackTran` tells its caller is true.
* **Carousel** – handlers for a layout that a pending timeout will change.
  Correct: the index stays within limits that the layout moves, the layout
  that is shown is the window's once no resize waits, and a release leaves
  nothing of a drag behind, also of one that a change of layout cut off.
* **Filters** – two recursions over the same nested rules that skip different
  rules, and groups that are numbered by their depth. Correct: nothing is lost,
  doubled or moved but what the code means to skip, and the flat rows still tell
  which group each rule is in.
* **CSV** – a writer and two readers that were written apart: one toggles a flag
  at each qualifier, the other looks ahead with a regular expression. Correct: the
  readers agree, as far as the regular expression takes the separator for itself, and
  what the writer wrote is read back.
* **Cryptography** – two static fields that every constructor overwrites without
  a lock, under a static API. Correct: after a constructor has run alone the two
  fields belong together, and a text is read by the instance it was made with.

`PROJECT.json` lists every component with its status, and the hazards with the
line where each one bites and the properties that cover it.

## 2. Modules

| Module | Models | Relation to the others |
| --- | --- | --- |
| `MailHandoff` | what one `SendEmailAsync` call promises | abstract specification |
| `MailDelivery` | the call itself: template, retry loop, SMTP steps | implements `MailHandoff` |
| `AtLeastOnce` | what the pipeline promises for every mail | abstract specification |
| `EmailPipeline` | API, broker, worker, handlers | implements `AtLeastOnce`; its handler takes `MailHandoff`'s steps |
| `MCEmailPipeline` | sets of mails for TLC | extends `EmailPipeline` |
| `UnitOfWork` | what a connection promises about its caller's writes | abstract specification |
| `DataConnection` | the class, with Npgsql and PostgreSQL | used by `DataManager`; implements `UnitOfWork` |
| `DataManager` | managers and a caller sharing a connection | extends and implements `DataConnection` |
| `MCDataManager` | symmetry for TLC | extends `DataManager` |
| `Carousel` | both scripts of `single-product.js` | – |
| `QueryFilter` | `FromJson` and `QueryBuilderToDataTable` | – |
| `CsvText` | `DataTableToCsv`, `CsvToDataTableSimple` with `CsvParser`, `CsvToDataTableRegex` | – |
| `Cryptography` | constructors, static API and extension methods | – |
| `MCHelpers` | an instance of these three for TLC | extends them |
| `MailDeliveryProofs`, `EmailPipelineProofs`, `DataConnectionProofs`, `CarouselProofs`, `QueryFilterProofs`, `CsvTextProofs`, `CryptographyProofs` | theorems | extend their component (`DataConnectionProofs` extends `DataManager`) |
| `QueryWalkProofs` | the theorems about what the two walks visit | extends `QueryFilterProofs` |

Operators whose names start with `Fault_` are not part of the model. Each is a
variant of the operator that follows it, changed by a plausible bug, and
`PROJECT.json` says which property finds it.

### MailDelivery

`pc` is the place in `SendEmailAsync`: the template is loaded (`LoadTemplate`),
then each attempt is `BuildMessage`, `Connect`, `Authenticate`, `Send`, `Reply`,
`Disconnect`. `SendAsync` is two steps, because the server may have taken the mail
when the reply is lost. Any step may throw (`AttemptFails`), which is Polly's
policy: wait and try again while `failures < RetryCount`. `Cancel` is the stopping
token. The content of the body is abstracted to "rendered" or "notFound".

### EmailPipeline

| Variables | Code |
| --- | --- |
| `pub`, `wire` | where each request is in the controller and `PublishEmailAsync`, and what is written to its socket |
| `brokerUp`, `queue`, `status` | RabbitMQ (external): reachable, `email_queue` declared, the state of each message |
| `wk` | where the worker is in `StartAsync`, `ExecuteAsync`, `StopAsync` |
| `link`, `ns`, `sub` | the state of `_channel`, how often it was opened, whether `BasicConsume` registered the consumer |
| `log`, `taken` | deliveries per life of the channel, by delivery tag, and how many its handler has taken |
| `hnd`, `tries`, `sent` | the handler of each life: sending, acknowledging or refusing |
| `copies` | what the SMTP server took |

Delivery tags restart with each life of the channel, and handlers of an earlier
life go on running while the reopened channel already delivers; `Ack` and `Nack`
therefore act on whatever channel is open when they are called. The client ignores
tags of an earlier life, throws on a channel that is not open, and does not reopen
a channel the broker closed (`ConsumerTimeout`). `ProcessEnds` covers the orderly
end and a crash at any moment. The order of deliveries is left open, since
requeueing does not keep it.

One SMTP attempt is one step here (`SendSucceeds`, `SendFails`); `MailDelivery`
shows that these steps are all it takes.

### DataConnection and DataManager

`DataConnection` numbers the `NpgsqlConnection` objects the class makes; `oConn`
and `oTran` are such numbers or 0 for null. Npgsql and PostgreSQL are external:
which connections are open (`up`), in a transaction (`inTran`), in an aborted one
(`failed`), held by a reader (`busy`), and what is `pending` and `durable`. Each
method is one action with all its outcomes, exceptions included: `Commit` may throw
before or after the server has committed. The histories `unit`, `plain`, `erred` and
`last` record what the caller was told, which is what the properties are about.
Statements and readers are the connection's external half of `DataManager`'s
queries; `DataManager` adds the managers' own fields and `InitQuery`'s conditions
and allows the owner to call the connection in between.

`UnitOfWork` is the connection without connections: a unit is open, lost or not there
(`Stage`), and what is acknowledged in an open one is `Held` until a commit makes all of
it durable in one step. `DataConnection` implements it as `KeepsUnits`, which says more than
the invariants do about single steps: nothing that is held lasts before a commit is called,
no unit is opened within another, a unit that is lost stays visible in
`IsTransactionActive` until the connection is closed or a new unit begins, and no commit or
rollback returns normally for it.

A manager without a connection makes its own `DataConnection` with an empty
connection string, which never opens. So the local path of the class always ends in
an exception, and the model keeps of it only what later calls see.

### Carousel

The state of the closure, abstracted: pixels become five distances (none, short
and long, to either side), time becomes a nondeterministic choice (a short drag may
be quick enough or not), the window's width becomes the layout that `getViewMode`
would choose. Every handler is one step, as in a browser. A release is the
`mouseup` or `touchend` (`PointerUp`), or that and the click that the browser sends
after it if the pointer is still on a card: `CardClick` composes the two handlers in
that order.
`UpdateArrows` is the second script; what it computes from the scroll position is
left open.

### QueryFilter

A filter is the list `parent` of its rules, numbered in the order of the document,
and what is set of each of them (`kind`: null, nothing, a field, a condition,
both) and of the filter itself (`head`). Operators, values and their quoting are
left out. `stack` holds the running calls of the recursion, with the rule each is
at and its `level` parameter; every rule visited and every return is a step.
`FromJson` collects `flat`, `QueryBuilderToDataTable` writes `rows`, of which the
type, the two group numbers and the rule are kept. A null rule throws in the one
and is skipped in the other; a null table throws at the first row.

### CsvText

A line is a sequence of four kinds of character: separator, qualifier, white space,
any other. It is either `LineOf` a row of values, which is `DataTableToCsv`, or
any line at all. `Qualifier`, `Separator` and `Other` are the loop of `CsvParser`,
`EndOfLine` what follows it; `RegexCells` is what the other reader makes of the
line. The header, which is written and split plainly, and line breaks inside of
values, which no reader knows, are left out.

The separator is a parameter of these functions, and two constants say what else it is.
`White`: a tab is white space, so it is trimmed off like any, and a row of empty values is
skipped like a blank line (`Helper.cs:166`). `Matched`: `Helper.cs:214` puts the
delimiter into its regular expression unescaped, so a full stop matches every
character; `ParsersAgree` then speaks only of lines where the pattern finds nothing but
separators. Delimiters that match between characters (`|`, `^`, `$`) or with which the
pattern is invalid (`*`, `+`, `?`, `(`, `)`, `[`, `\`) are not modelled: with those the
readers do not agree, and nothing in the repository uses them. The qualifier is the double
quote, which the writer and the regular expression have built in; another one for
`CsvToDataTableSimple`, or none, is left out.

### Cryptography

`static` holds the two static fields. A constructor writes them in two steps
(`WriteStatic`) and a static call reads them in two (`ReadStatic`), in either order,
since the fields are not volatile. A text is the pair it was encrypted with. `latest`,
`alone` and `quiet` are histories: which constructor began last, whether another was
running then, and whether one ran during a call. The extension methods use an
instance's own pair, which never changes, and are one step each.

## 3. Runs

All passing runs are exhaustive. Deadlock is checked except in the pipeline's runs,
where everything may rightly come to rest (all mails settled, no session left in
the bound).

| Run | Question | Instance | Result |
| --- | --- | --- | --- |
| `mail_delivery` | duplicates, exceptions, the refinement of `MailHandoff`, which includes that the call ends | `RetryCount = 3`, the code's value | holds, 384 states |
| `mail_rendered` | is only the rendered template mailed? | as above | violated |
| `pipeline_reconnect` | who settles a mail, and how many copies can there be | a proper mail and a blank request, 2 attempts, 3 lives of the channel | holds, 571 050 states |
| `pipeline_mixed` | do worker and broker agree on what is outstanding, and is everything queued settled in the end | a proper mail and one without recipient, 2 attempts, 2 lives, fair | holds, 342 192 states |
| `pipeline_refused` | was a refused mail not sent? | one mail | violated |
| `pipeline_ok` | does Ok mean queued? | one mail | violated |
| `pipeline_listens` | does a started worker listen? | one mail | violated |
| `data_manager` | do flags and normal returns tell the truth, and is a unit of work kept or undone as a whole | 2 managers, 2 writes, 2 connections, symmetric | holds, 0.31 M states |
| `manager_external` | does a given connection stay open? | as above | violated |
| `carousel` | index, page, layout and the end of drags | 5 cards | holds, 38 500 states |
| `carousel_guard` | does a drag select nothing? | 5 cards | violated |
| `core_helpers` | are filters, CSV lines and texts converted without loss | see the bounds | holds, 658 213 states |

`core_helpers` runs `QueryFilter`, `CsvText` and `Cryptography` one at a time,
each from its initial state, because they share nothing and call one another
nowhere: its states are the sum of theirs and not the product.

### Bounds

* `MaxSessions`: how many times the worker gets a channel, over all its processes.
  Two are enough for a redelivery beside a stale handler; three let a mail be
  redelivered twice, with two stale handlers. `LinkDrops` and `BrokerStops` need a
  session in reserve, so that `Recover` is never what the bound forbids: otherwise
  `QueuedIsSettled` would be refuted by the bound and not by the code.
* `MaxAttempts`: 4 in the code, 1 or 2 here. Two tell a last attempt from one that
  is retried; `MailDelivery` is checked with the real number.
* Mails: in `pipeline_mixed` one mail is in the handler while another waits behind
  it in the client's buffer, which is where the missing prefetch limit shows. The
  classes `badAddress` (an address MimeKit refuses) and `malformed` (a message that
  does not parse) are in no run, because what becomes of them is among what may
  become of a proper mail; the theorems cover them.
* `MaxConns`: connections made by one `DataConnection`. Two are what it takes for a
  transaction of one and statements on another. `Writes`: two, so that "all" and
  "some" differ; each is attempted once.
* `NCards = 5`: the three layouts then have the limits 4, 3 and 2, so a change of
  layout both keeps and moves the index. Fewer cards than a page are covered by the
  theorems.
* `NRules = 4`: sibling groups at two depths with a rule behind each, and every
  mixture of nulls, brackets and groups. `Heads`: nothing, a condition, everything.
  The theorems cover filters of any size.
* `MaxColumns = 3` values of up to `MaxValue = 2` characters: a first, a middle and a
  last value, each empty, blank, with a separator or not. `MaxLine = 6`: two texts in
  qualifiers on one line, or a text left open. `White` and `Matched` are those of a comma;
  a tab and a full stop are covered by the theorems.
* `Instances`: three, so that two constructors can overlap and a third run alone after
  them. `Callers`: one thread, which reads its own texts; what another thread does
  would be seen only through the static fields, which calls do not write.

### Fairness

`MailDelivery` is weakly fair on its steps: MailKit's calls have a timeout and the
backoff is a timer, so every awaited call ends. `EmailPipeline`'s `FairSpec` is
weakly fair on delivering, on recovering (RabbitMQ.Client retries for ever), on
what `StartAsync` and `ExecuteAsync` do once begun, and on each session's handler.
It is not fair on the broker or the worker process coming back, nor on any SMTP
success. The other modules state safety only.

### Findings

Each is a property that quotes a doc, a comment or an answer of the program, and
that TLC refutes.

1. `OnlyRenderedMailIsSent` – `technical_documentation.md:25` says that
   `TemplateService` loads the HTML file and replaces its tags. A missing template
   becomes the text "Template … not found", which is mailed and acknowledged; the
   worker ships no templates and the API names none.
2. `RefusedWasNotSent` – `technical_documentation.md:29` has a message refused when
   it "fails permanently". An attempt that fails after the server took the mail
   counts as failed too, so a refused mail may have arrived up to four times.
3. `OkMeansQueued` – `TestEmailController.cs:34` answers "published to queue
   successfully" after a publish without confirms.
4. `StartedWorkerListens` – `technical_documentation.md:37` says the worker stays
   alive and listens. If the broker is away at start it stays alive only. The
   violation is a fair behaviour.
5. `ExternalStaysOpen` – `DataManager` allows an external connection
   (`DataManager.cs:795`) and closes only local ones after queries; `Dispose` closes
   any, under the transaction of other managers. The owner's `CommitTran` then
   returns normally without having committed anything.
6. `DragSelectsNothing` – `single-product.js:8` promises a "Drag guard: Prevents
   accidental selection while scrolling". `handleDragEnd` clears `hasDragged` on
   `mouseup` (241), before the browser sends the click that asks for it (358): a drag
   that ends over the card it began on selects that card.

Visible in the models but contradicted by nothing the repository says, so not
findings: the second script of `single-product.js` overwrites the arrows' state
400 ms after a click (`UpdateArrows`); a drag that a change to the desktop's layout
cuts off leaves text selection disabled until a later drag ends; `FromJson` drops the
groups of a filter, so that (a OR b) AND c becomes three conditions, and throws on a
null rule that `QueryBuilderToDataTable` skips; `DataTableToCsv` does not double the
qualifiers inside of a value, so such values are not read back; with a tab for
separator a row of empty values is written but not read back; with a delimiter that is a
metacharacter `CsvToDataTableRegex` splits elsewhere than `CsvToDataTableSimple`.

## 4. Theorems

TLAPS checks these for every value of the constants, from the assumptions named in
the component's module only: `RetryCountAssumption` (a natural number),
`ConstantsAssumption` (every mail has a class, at least one attempt),
`MaxConnsAssumption` (a natural number), `NCardsAssumption` (at least one card),
`QueryAssumption` (the bound is a natural number, a filter has set what a filter can
have), `CsvAssumption` (the bounds are natural numbers), `SeparatorAssumption` (the separator
is white space or not, and matches itself or any character), `CryptoAssumption` (null is
no instance).

* **MailDelivery** – `TypeCorrect`, `DuplicatesExplained`, `ThrowsLate`: the
  conjunction of the invariants, with what `pc` says about `failures`, is inductive.
  `HandoffSafety`: initial states and steps map to `MailHandoff`'s.
* **EmailPipeline** – `IInv` adds to the type invariant: what is on a wire has been
  written and is not yet at the broker (`WireInv`); `wk`, `link` and `ns`
  fit each other (`LinkInv`); sessions after `ns` are empty and only handlers of
  `first..ns` are busy (`SessionInv`); what was delivered had reached the broker (`LogInv`);
  `OutstandingAgree`; no mail is outstanding under two tags of the open session
  (`OutstandingOnce`); and what a handler is doing agrees with `sent`, `copies` and
  the class of its mail (`HandlerInv`). `OutstandingAgree` alone is not inductive:
  settling a tag must remove the mail from both sides, which needs
  `OutstandingOnce`. From it follow `WorkerAndBrokerAgree`, `SettlementIsOwn` (an
  action property) and the refinement `PipelineDeliversAtLeastOnce`.
  `CopiesAreBounded` charges every copy to an attempt: `Spent(m)` is the set of
  attempts that may have been spent on mail m (all of each delivery that has been
  handled, the failed ones of the delivery in hand), and `copies[m]` never exceeds its
  size. It is bounded because a life of the channel delivers a mail once at most
  (`OnceInv`).
* **DataConnection** – `IInv` adds that connections are numbered up to `made`
  (`MadeInv`) and where the acknowledged writes of the present unit are (`UnitInv`):
  on a connection with a transaction in progress the uncommitted writes are exactly
  the unit's and none of them is durable; a connection outside a transaction has no
  uncommitted write; an aborted transaction is one in which a statement failed.
  From it follow `OneConnectionOnly`, `CommitIsTrue`,
  `RollbackIsTrue` and `AutocommitIsKept`. `ManagersKeepToTheConnection` shows that
  the composition refines the connection's specification, so these hold with any
  number of managers; `ManagersTypeCorrect` is about the managers' own fields.
  `UnitsAreKept` is the refinement of `UnitOfWork`: `Stages` says what a stage is in terms
  of the fields, and then every action gets a lemma. It rests on `OneConnection` (the
  transaction is on the connection that statements use) and `UnitInv` (it holds
  what the caller was told, and no more), so the invariant that was inductive for the rest
  is enough. `ManagersKeepUnits` is the same for the managers' composition.
* **Carousel** – `PageInv`: the page is what `Display` shows for the mode, its
  `cardsPerView` and an index within the limits. `DragInv`: dragging, its style and the
  guard go together, and the handlers are attached outside the desktop's layout.
  `TypeCorrect`, `AlwaysAFullPage`, `LayoutIsTheWindows` and `ReleasesAreClean` hold
  for any number of cards.
* **QueryFilter** – `CallsInv`: for every running call the rows written so far already
  tell, of a row that were written next, the group the call is in (`Tells`). It is what
  a return relies on: the number of the outer group is still that of the outer group.
  From it follow `QueryTypeCorrect` and `GroupsCanBeTold`.
  For `NoConditionIsLost` and `NoRowIsMissing`, `QueryWalkProofs` says where a walk is
  (`Walked`): at rule c, with all rules up to c that it will ever visit behind it. A rule
  after c whose list is open lies in the list of a running call; so the least rule not
  yet visited is the next one of the top call (`NothingBetween`), a visit moves the place
  there (`WalkMoves`, `WalkDives`), and when the last call returns no rule is left
  (`WalkEnds`). What has been collected is then, at every step, the rules up to c in
  ascending order (`JsonInv`, `TableInv`). The order of the rules stands in for an
  induction over the tree.
* **CsvText** – the theorems hold for lines, rows and values of any length, and for
  separators that are white space or not and that match themselves or any character.
  `CutInv` adds to `CutsOutsideText` that `inText` is the parity of the qualifiers read
  so far; from it follows `CutsAreOutsideText`. Three more strengthenings:
  * `TypeInv`, for `CsvTypeCorrect`: no token begins behind the place read, and a reader
    that waits has read nothing.
  * `OwnInv`, for `RowsAreReadBack`. `RowIsLaid` takes a written line apart: value k lies
    between places `Start(k)` and `Start(k + 1)`, with its qualifiers when it has any. `InCell`
    then says where in the row the parser is: as many tokens as cells behind it, each the
    trimmed value, `last` at the separator before the present cell, and `inText` exactly
    within the qualifiers of a quoted value. `CellIsRead` and `EndOfRow` read one cell.
  * `AgreeInv`, for `ReadersAgree`: the tokens made so far are those between
    consecutive cuts in the sense of `CutsOutsideText`, the cuts ranked by how many lie
    before them. `SameCuts` shows that on a line with paired qualifiers an even number behind a
    separator is an even number before it, so the regular expression has the same cuts
    where it finds nothing but separators.

  What trimming, joining and taking out qualifiers compute is defined by recursion over
  the line. The library's induction theorems take a predicate as a parameter, which the
  provers cannot instantiate; `SetInduction` takes the set of the numbers that satisfy it
  instead, and `Recursion` gets from it that a function defined step by step exists and
  unfolds. `Sifting`, `Joining` and `Unquoted` are applications of the two.
* **Cryptography** – `SyncInv`: while constructors run one at a time, the fields they
  have written are the latest instance's. `CallInv`: what an undisturbed call has read is
  the latest instance's. `CryptoTypeCorrect`, `StaticFollows` and `TextsAreReadBack` hold
  for any instances and any number of threads, so also where the run has one thread.

Only model-checked: the liveness properties (`QueuedIsSettled`, and that
`SendEmailAsync` ends, a part of `KeepsHandoffPromise`), since liveness under fairness
is beyond the prover. Every safety property of a passing run is stated by a theorem.

## 5. What is not modelled

* The text of a message: names, bodies, JSON. A message is one of five classes.
* Separators of a CSV file that match between characters or make the regular expression
  invalid, other qualifiers than the double quote, and reading without qualifiers.
* Two asynchronous calls on one `DataConnection` at the same time; one caller at a
  time is what Npgsql requires.
* `touchcancel`, which the scripts do not handle either, and style sheets.
* Output parameters and type conversions of `DataManager`.
* How `QueryBuilder` and `DataHelper` quote and join the values of one rule; the list
  conversions of `ListExtension`, `DateTimeExtension` and the exception types: stateless
  conversions of a line or two. Excel files and CsvHelper's writer are calls of libraries.
* Empty and malformed inputs of `Cryptography`: they change no state.
* Stubs, scaffolded controllers, static pages and deployment files: no behaviour of
  their own.
* `skillbuddy/cmake-4.0.3`, 28 600 of the repository's 29 000 files and nearly all of its
  lines: an unmodified release of a build tool, which no part of SkillBuddy builds, links
  or runs. The repository's own C++ is one print statement. The share of the tree's lines
  that these modules stand for is therefore small, although they stand for every part of
  SkillBuddy that keeps state.

## 6. Plan

Done, in this order: mail delivery, the pipeline with its refinement, the data
layer, the carousel, the proofs of each; then the filters, CSV and `Cryptography`
with their proofs, the drag guard, the bound on copies, the managers' types, and
liveness of the pipeline with a second mail behind the first; then `UnitOfWork`, which
`DataConnection` implements, and the proofs about CSV lines of any length.

Left: `DataConnection` with two tasks, its asynchronous methods split at each await. The
class promises nothing for two tasks, and Npgsql forbids them on one connection, so this
waits until a caller in the repository does it.
