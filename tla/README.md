# A TLA+ model of MQTTraffic-Warden

MQTTraffic-Warden subscribes to MQTT topics, changes each message that arrives
along the routes configured for its topic, and publishes the results. This
directory holds TLA+ modules of the program, the TLC configurations that check
them on small instances, and proofs of the main results, checked by TLAPS for
every value of the constants.

All paths below are relative to the repository.

## 1. The system

| component | state | operations | interacts with |
|---|---|---|---|
| routing table (`include/traffic_warden.h`) | `m_routes`: input topic → list of (output topic, stream transformers) | filled by `retrieve_routes`, then only read | `ingest` looks topics up in it |
| threads of `TrafficWarden` (`src/traffic_warden.cpp:339-441`) | `m_incomingQueue`, `m_transformQueue`, `m_outgoingQueue`, and what each thread holds | `ingest`, `transform`, `publish`, each an endless loop | the queues; `execute()`; `MqttClient::publish` |
| MQTT client (`mqtt_client.h`, `mqtt_client.cpp`) | the library's client, its options, the callback object | `initCallback`, `connect`, `publish` (and `disconnect`, `unsubscribe`, called nowhere) | the client library |
| connection callback (`mqtt_client_connection_callback.h`), subscription listener | the topics to subscribe, the queue to fill | `connected`, `connection_lost`, `on_failure`, `on_success`, `message_arrived`, `delivery_complete`, `reconnect` | called on the library's thread; pushes on `m_incomingQueue` |
| stream transformers (`src/stream_transformer_*.cpp`) | their setup, constant once loaded | `setup`, `is_valid_setup`, `execute` | `transform` runs them in a chain |
| configuration (`traffic_warden.cpp:47-337`) | – | `retrieve_broker_infos`, `retrieve_routes`, `is_valid_*` | runs before any thread |
| utilities (`utilities.cpp`, `json_utilities.cpp`, `cast.cpp`, `cast.h`) | – | splitting and joining topics, deciding what a text is, converting it, recognizing addresses | used by transformers and configuration |
| entry (`main.cpp`) | a stop flag that nobody reads | `main`, `stopHandler` (never installed) | – |

What is hard here:

* *Concurrency.* Four threads work at once: the library's callback thread and
  the three of `TrafficWarden`. Two of them push on `m_outgoingQueue`. A message
  is handed over route by route, so one message may be in several places.
* *Failure.* A transformer's `StreamTransformerExecutionException` is caught and
  the chain goes on; any other exception (a missing key, a payload that is not
  JSON, `publish` without a connection) leaves a thread or callback function and
  terminates the process.
* *The network.* Sessions are clean and automatic reconnection is off: the
  callbacks reconnect by hand after a sleep, and have to subscribe again. The
  broker returns what is published on an input topic.
* *Numbers.* A text is tested as one kind of number and converted as another:
  `isInt` reads decimal digits, `lexical_cast<long>` any base; what an `int` does
  not hold goes through a `float`, what that does not hold through a `double`.

What makes each component correct: no delivery lost, doubled, or reordered
within its lane, and each with the output of exactly its chain (threads); one
chain of connection attempts that does not die, renewed subscriptions, messages
at the broker at most once and in order (client); every message relayed once
the connection lasts, and no circulation without end where no route leads back
(the program); numbers that keep their value and order, topics that keep their
levels (utilities); outputs that are a function of the message
as it arrived, and no termination on payloads with the expected keys
(transformers); only conforming documents start the threads, on exactly the
routes they list (configuration).

## 2. The modules

| module | what it models |
|---|---|
| `Routing` | the routes, how `execute()` ends, what carrying a message along a route means; no variables |
| `Relay` | the abstract service: messages arrive, each is published once along each route, in lane order, or the process fails |
| `TrafficWarden` | the three threads and three queues, one action per pop, loop iteration and push |
| `Channel` | the abstract client: accepted messages reach the broker once and in order, but for the oldest that a lost connection took with it |
| `MqttClient` | the client, its callbacks, the client library and the broker as the code uses them |
| `MqttTrafficWarden` | `TrafficWarden` and `MqttClient` composed: the program after `init` has started its threads |
| `Service` | the abstract program: what arrives is carried once along each route and received by the broker in lane order, or lost with a connection; it has neither queues nor threads nor a client |
| `Feedback` | `TrafficWarden` with a broker that returns what is published on an input topic |
| `Casts` | the utilities on texts of characters: splitting, joining, numbers, booleans, characters, addresses |
| `StreamTransformers` | `execute()` of the four transformers, as operators |
| `TransformChain` | the loop of `transform` with these transformers, as a state machine |
| `Configuration` | the checks of the configuration document and `setup()` of the four transformers, as operators |
| `Startup` | `main` and `init` up to the start of the threads, with the loops of `retrieve_routes` |
| `TrafficWarden_proofs`, `TrafficWardenRelay_proofs` | theorems about the threads: types, stages and order; contents and the refinement of `Relay` |
| `MqttClient_proofs` | theorems about the client, with the refinement of `Channel` |
| `MqttTrafficWarden_proofs` | theorems about the program, from those about its parts, with the refinement of `Service` |
| `Feedback_proofs` | that what circulates is bounded, with the theory of sums it needs |
| `TransformChain_proofs` | theorems about chains of the four transformers |
| `Startup_proofs` | theorems about the configuration and the routing table |
| `Casts_proofs` | theorems about every text: splitting, joining, inserting, integers, addresses |
| `MC*` | the instances that TLC checks |

Definitions named `X_Fault` (for instance `PublishPop_TakesNewest`) are used by
no specification. Each is a plausible mistake in `X`; replacing `X` by it makes
TLC report the property that guards against it, which shows that the property
can fail.

### Threads and queues (`TrafficWarden`)

A queue is a sequence; its `empty()` test and `try_pop()` are one step, as each
queue has one consumer. What a thread holds is a sequence of length at most one:
`ingesting` (a message and the next route), `transforming` (an item and the next
transformer), `publishing`. `ingest` takes the steps `IngestPop` and, per route,
`IngestRoute`; `transform` takes `TransformPop`, per transformer
`TransformExecute`, and `TransformPush`; `publish` takes `PublishPop` and then
`PublishAccepted` or `PublishThrows`. `MessageArrived` and
`MalformedMessageArrived` are `message_arrived` on the library's thread. An
uncaught exception makes `running` false, which stops everything.

Topics, payloads and transformers are opaque; `Execute` is a constant operator,
so results about the pipeline hold whatever the transformers do. The fields
`origin`, `from` and `route` (partly copied from the code's tuple, partly
history) name the delivery an item belongs to; `arrived` and `published` are
histories. A *lane* is the set of deliveries that pass the transformer thread,
or the set of those that do not: `ingest` keeps the order within a lane, and
nothing orders one lane against the other.

### The client (`MqttClient`)

The library calls every callback on one thread and holds its lock, so the
callback thread is a program counter: `idle`, in the subscription loop of
`connected`, or asleep in `reconnect`. A call to the library queues a command
(`queued`), the library writes it (`wire`), the broker processes it and the
acknowledgement completes it (`unacked`); it occupies one of `MaxMsgIds`
identifiers meanwhile. `ConnectionLost` forgets what a clean session forgets
(written or unacknowledged) and keeps what is only queued. `connect()` may throw
at either of its two call sites; the exception is caught and logged, and
`gaveUp` records it. `publish` and `subscribe` throw without an identifier,
`publish` also without a connection, and nobody catches it.

`publish` is one step: what it changes it changes when the C library accepts the
message. `Acknowledged` stands for `delivery_complete` and for the subscription
listener's callbacks, which only log. The library calls `delivery_complete` with the
token that `publish` made, since the token itself is the context of the C library's
callback (`third_party/paho.mqtt.cpp`, `token.h:145-150`, `async_client.h:147`); an
acknowledgement that comes before `publish` has returned finds it all the same. The
quality of service is the default, 2, for which the library calls it.

### The program (`MqttTrafficWarden`)

The variables of both modules, with one `running`. The joint actions are
`MessageArrived` (enabled while a granted subscription's connection is up and
the callback thread is idle), `PublishAccepted` and `PublishThrows`. Every other
action belongs to one side. A subscription matches a set of topics
(`Matching`): a wildcard input topic lets through topics that have no route,
which `ingest` drops.

### Feedback (`Feedback`)

The threads alone, on a lasting connection, with `BrokerReturns`: the broker goes
through what has been published, in order, and hands the program each message
whose topic is an input topic. `Visits` bounds how often a message on a topic
comes by, itself and its descendants; `VisitsAssumption` demands of it what makes
it a bound (for any payload more than the sum, over the routes of the topic, of
the visits of what leaves there), which a number can satisfy only where no route
leads back. The instance branches and rejoins.

### Transformers (`StreamTransformers`, `TransformChain`)

A topic is the sequence of its levels. A JSON value is a kind and a text, a
document an object with fields or something else. The conversions of texts are
constants; the instance `MCTransformChain` gives them with `Casts`. Each operator
returns how the call ends (`done`, `skipped`, `thrown`) and the outputs.

### Utilities (`Casts`)

A text is a sequence of characters. `isInt`, `isFloat`, `isDouble` and `isBool`
say what a stream reads to its end, `lexical_cast_*` what the conversion then
makes of the text, as the text that `dump()` writes; `json_to_string` the one
character that a number assigned to a `std::string` becomes. The widths of an
`int` and of the mantissas are constants; numbers with a fraction are integers in
units of `1/Scale`, rounded to the nearest, the even one of two. `isBool` is true
of no text: reading a boolean by name stops behind the name, before the stream has
seen its end. Decimal exponents, infinities, the sign of a zero and the folding of
capitals by `isBool` are left out. The loops of `splitString` and `joinStrings` are
recursive functions, over the places where the rest of the text begins and over
the number of elements joined. That `Insert` of `StreamTransformers` may work on
levels, where the code works on text, is the property `InsertsLevels`.

### Configuration and startup (`Configuration`, `Startup`)

A JSON value is its kind with its contents. `IsValidBroker`, `IsValidRoute`,
`IsValidTopic` and `Setup*` are the checks and what they store; `setup()` has
three endings, because `payloadToPayload` leaves the kind of `keep` unchecked
when there is an `as` and then meets the JSON library's exception instead of its
own. An index is read as an `int` and kept as an `unsigned long`: `Narrowed`
keeps these widths (`IntSize` and `LongSize` values; 8 and 32 in the instance). `Startup` runs the
loops of `retrieve_routes` one route and one transformer at a time, with every
early exit, and what `main` does with an exception or with a normal return.
`ClientOf` records the server URI and whether the client is made with the library's
ssl options; that the library then decides about TLS by the prefix of the URI
(`third_party/paho.mqtt.c/include/MQTTAsync.h:900-904`) is `ConnectsWithTls`, marked
external, with the constant `HasTlsPrefix`. `RoutesAsConfigured` relates every index
of the table to the number in the document (`StandsFor`), also where it is narrowed.
`Interrupt` is a SIGINT, which kills the program in every phase, as `stopHandler`
is never installed. It is the only action of `Next` that is not fair.

## 3. What the runs check

| run | module / cfg | instance | what it shows |
|---|---|---|---|
| `pipeline` | `MCTrafficWarden` / `MCTrafficWarden.cfg` | 3 messages, 3 topics, 2 payloads; a topic with a transformed and a direct route, one with a throwing transformer, one without a route | `TypeOK`, `InLaneOrder`, `NothingLost`, `PublishedIsChainOutput` |
| `pipeline_refines_relay` | `MCTrafficWarden` / `MCRelay.cfg` | the same with 2 messages | `ImplementsRelay` (safety and liveness of `Relay`), `EveryRouteServed` |
| `client` | `MqttClient` / `MCMqttClient.cfg` | 2 topics, 5 identifiers, 3 publishes; any number of losses | `TypeOK`, `OneAttemptAtATime`, `RetryChainAlive`, `DeliveredInOrder`, `NoneForgotten`, `Resubscribed`, `EventuallyDelivered`, `ImplementsChannel` |
| `program` | `MCMqttTrafficWarden` / `MCMqttTrafficWarden.cfg` | 2 messages, one plain and one wildcard input topic, 3 identifiers | `BrokerLaneOrder`, `NothingVanishes`, `EveryMessageRelayed`, `ImplementsService` |
| `reconnect_after_loss` | `MCMqttTrafficWarden` / `MCReconnect.cfg` | 1 message | a violation, see below |
| `feedback` | `MCFeedback` / `MCFeedback.cfg` | 2 messages of others; one topic with two routes to a second one, that with one to a third; 7 arrivals, more than the 6 that may come about | `ArrivalsAreBounded`, `ComesToRest` |
| `conversions` | `MCCasts` / `MCCasts.cfg` | every text over six alphabets, up to 4 characters for numbers and booleans, 8 for IPv4, 7 after six groups for IPv6, 6 for topics | `IntegersKept`, `OrderIsKept`, `RereadsAsItself`, `SplitIsExact`, `InsertsLevels`, `AddressIsComplete` |
| `boolean_text` | `MCCasts` / `MCBoolean.cfg` | the same | a violation, see below |
| `transformer_chains` | `MCTransformChain` / `MCTransformChain.cfg` | 12 transformers in chains of one and two, those that interfere also in chains of three; objects, null, a number; missing keys, erased keys, values that do not convert | `TypeOK`, `NeverTerminatesOnExpectedPayload`, `LastTransformerDecides`, `TopicOnlyGrows` |
| `startup` | `MCStartup` / `MCStartup.cfg` | 1880 documents: each broker and route field missing or of another kind, all combinations of a transformer's fields, lists of up to three routes | `TypeOK`, `AcceptedIffConforming`, `RoutesAsConfigured`, `SslOptionsAsConfigured` |
| `ssl_without_tls` | `MCStartup` / `MCTls.cfg` | the same | a violation, see below |
| `exit_without_routes` | `MCStartup` / `MCExit.cfg` | the same | a violation, see below |

*Bounds.* `MaxMessages` bounds the arrivals, `MaxPublishes` the messages handed
to the client alone (in the program it is at least the number of deliveries, so
it never holds anything back). Reordering needs two deliveries of a lane, losing
a route a topic with two, a stale value a second message in flight: three
messages give all of these with both producers of `m_outgoingQueue` busy. Three
identifiers for two subscriptions and two publishes of the program make the
identifiers run out, and so do five for the client alone, with the commands that
are still queued when a connection is lost. Chains of three are enough for a transformer to read what a first one was
to erase and a third one to overwrite it. An `int` of 6 bits and mantissas of 3
(`float`) and 6 bits (`double`) keep the relation that matters, an `int` that a
`float` cannot hold, and four characters reach past the limits of all three
types; a fraction of two digits is enough for every rounding, and a leading zero
before 7, 8 or another zero for every way the bases differ. Eight characters
write the shortest IPv4 address and one too many of its parts; the first six
groups of an IPv6 address are given. The losses of the connection are not
bounded: the state returns, so TLC covers any number.

*Deadlock.* `CHECK_DEADLOCK FALSE` in every run, as the models really stop: no
message is left to arrive (the bound), or the process has terminated.

*Fairness.* Weak fairness of each thread: the threads spin, are never blocked
and the operating system runs them. In `Startup`
weak fairness of the main thread, not of `Interrupt`. Weak fairness of the library's writing, the
broker's processing and the acknowledgements, which need only happen while the
connection lasts; and of the callback thread, which includes the end of an
attempt to connect; in `Feedback` of the broker's returning messages. Nothing is assumed about messages that arrive, about
`connect()` not throwing, about the connection not being lost, or about success
rather than failure of an attempt: the liveness properties of the client and of
the program assume in their own statement that the connection lasts in the end.
They excuse a process that has ended: a malformed payload, a lack of identifiers or a
`publish` without a connection ends it, and but for the last (`reconnect_after_loss`)
nothing in the repository says that it should not.

*The abstract specifications.* `ImplementsRelay` is `Relay`'s `Spec` with the
variables of the same names: the queues and hands are hidden, each thread step
is a stutter, an arrival, a delivery or a failure. `Relay` says which delivery
may be next (every earlier one of its lane has been delivered), what it contains
(the chain's output on the message as it arrived), and that a delivery that is
due happens.

`ImplementsChannel` is `Channel`'s `Spec` with the histories of the client. Commands
to subscribe, identifiers, connections, callbacks and the broker's queue are
hidden. What a lost connection drops is the oldest part of what is under way
(what was written goes before what is only queued), and nothing overtakes or
comes twice.

`ImplementsService` is `Service`'s `Spec` with `arrived`, the broker's receipts
(`Received`, each with the delivery it belongs to) and the deliveries that went
with a lost connection (`Lost`). It joins the other two: from arrival to broker,
across threads, queues, client and connections, each delivery is received at most
once, in its turn within its lane, with the output of its chain on the message as
it arrived; and what one loss of the connection takes is, of each lane, what would
have been received next. It claims no liveness, as a lost connection may end the
process; what happens when it does not is `EveryMessageRelayed`.

### The violations

`connection_lost` is documented (`include/mqtt_client_connection_callback.h:69`)
as "Callback for when the connection is lost. This will initiate the attempt to
manually reconnect." It sleeps 2.5 s first. A message that `publish()`
(`src/traffic_warden.cpp:435`) takes from the queue in that time goes to
`async_client::publish`, which throws without a connection; `MqttClient::publish`
does not catch it, nor does the thread, and the process terminates. TLC's trace:
a message arrives and is popped, the connection is lost, `PublishThrows`. The
attempt is never made.

`init` logs "No routes have been defined, exiting." (`src/traffic_warden.cpp:43`)
and returns; `main` (`src/main.cpp:132`) then reads standard input until it sees a
`q`. `ExitsWithoutRoutes` says that the program exits; in TLC's trace standard
input has ended, which `std::cin.get()` reports again and again, and the program
spins.

`configure_mqtt_client` says "with ssl" (`src/traffic_warden.cpp:168`) of the client
that it makes with the three stores. The server URI is `brokerAddress` as it is
(`include/mqtt_client.h:30`), and accepted is only a bare IP address
(`src/traffic_warden.cpp:57`). The client library uses TLS when the URI begins with
`ssl://` or `wss://`, so the options have no effect: in TLC's trace of
`ssl_without_tls` a document that says `ssl` is accepted, and the client made of it
connects without TLS. `SslOptionsAsConfigured` says only which constructor is used.

`execute` of `payloadToPayload` says of a text for which `isBool` is false that "The
input payload is expected to be a boolean, instead it is: '{}'"
(`src/stream_transformer_payload_to_payload.cpp:91`). TLC finds the text `true`.

Other places where the code and its texts part, which no run is spent on: an input
topic with a wildcard is accepted and subscribed to, but its messages are looked
up by their own topic and ignored (`src/traffic_warden.cpp:347-352`); an IPv6
address that leaves out zero groups is refused (`src/utilities.cpp:83`) by a
message that asks for a valid IPv6 address (`src/traffic_warden.cpp:59`);
`stopHandler` says that "threads will gently terminate" (`src/main.cpp:28`) and is never
installed, nor is its flag read.

Something a reader might expect does not hold, and no property claims it: the
order of a JSON integer and a fraction next to it need not survive "as number",
as the integer keeps all its digits and the fraction only those of a `float`.

## 4. What is proved

Every theorem holds for all values of the constants under the assumptions that the
modules name: no length, width or number of anything is fixed.

| module | assumptions |
|---|---|
| `Routing`, `TrafficWarden` | routes are lists of routes whose topics and transformers are of their sets (`RoutesAssumption`); `Execute` returns an `ExecuteResult` (`ExecuteAssumption`); `MaxMessages` is a natural number |
| `MqttClient` | the numbers of topics, identifiers and publishes are natural numbers; there is a topic and an identifier |
| `MqttTrafficWarden` | the above, and a list of subscriptions that names the input topics, each once, and what each matches (`TopicListAssumption`) |
| `Feedback` | the above for the threads; `VisitsAssumption`, with which topics of the routes come by how often; the two bounds are natural numbers |
| `StreamTransformers`, `TransformChain` | the conversions make texts of texts (`ConversionsAssumption`); chains, messages and output topics are of their kinds. What a conversion makes of a text is left open |
| `Casts`, `MCCasts` | none that the proofs use: any text, over any characters, and any widths |
| `Configuration`, `Startup` | an `int` has an even number of values and not more than an `unsigned long` (`SizesAssumption`); the contents of a JSON value are of its kind (`ConfigurationsAssumption`) |

**The threads.** `InLaneOrder`, `NothingLost` and `PublishedIsChainOutput` are not
inductive: what may be published next depends on what is in the queues and hands
behind it.

* `TypeCorrect`: `Safety => []TypeOK`, by induction, one step per action.
* `PipelineInvariant`: `Safety => []IInv`, which speaks of all stages. Every delivery
  is a token (message, topic, route); `IInv` says that what is still to be ingested
  is in arrival order and nothing behind it has been ingested (`IntakeInv`),
  that every token due is in a stage (`Conserved`), that only tokens of the
  transformed lane are with the transformer thread, with their own chain and
  never an empty one (`LaneInv`), and that each stage is ordered within each
  lane and wholly precedes the stages behind it (`OrderInv`). `LaneOrder` and `NoLoss`
  (`InLaneOrder`, `NothingLost`) follow.
* `ContentInvariant`: `Safety => []ContentInv`. A message in the incoming queue or with
  `ingest` is as it arrived; an item with the transformer thread is what a prefix
  of its chain makes of its message (`IsThrough`), the prefix being as long as the
  thread's loop has come; an item on its way out is what the whole chain makes.
  `ChainOutputOnly` (`PublishedIsChainOutput`) is the last part of it.
* `ThreadsImplementRelay`: `Safety => Promised!Safety`, that the threads implement the
  safety part of `Relay`. Types, order and content together show that
  `PublishAccepted` is `Relay`'s delivery: its turn by `OrderInv`, its contents by
  `ContentInv`. Each other step is an arrival, a failure or a stutter.

**The client.** `ClientInvariant`: `Safety => []IInv`. Messages are numbered in the order
of their acceptance. The invariant (`MessagesInv`) is that the settled numbers, which
the broker received or a lost connection took, are an initial interval, that
the messages written continue it and those queued continue these, each in order.
Beside it, `ConnectionInv` and `RetryChainAlive` relate the callback thread, the main
thread and the connection. From it `ClientTypeCorrect` (`TypeOK`), `OneChainOfAttempts`
(`OneAttemptAtATime`), `SomebodyReconnects` (`RetryChainAlive`), `BrokerReceivesInOrder`
(`DeliveredInOrder`), `EveryMessageAccounted` (`NoneForgotten`), and
`ClientImplementsChannel`, the refinement of `Channel`.

**The program.** The theorems about the parts are used through instances
(`PipelineFacts`, `ClientFacts`). Every step of the program is a step of each part, or
leaves it alone but for the end of the process; `ProgramInvariant` is both parts'
invariants and `Joined`, that the client has accepted as many messages as the
publisher thread has handed over. From it `LaneOrderAtBroker` (`BrokerLaneOrder`):
the order of the threads and the order of the client compose; and
`EveryDeliveryAccounted` (`NothingVanishes`): so does what neither of them forgets.

`ProgramImplementsService` (`ImplementsService`) composes the two refinements. The
client numbers the messages that it accepts and the threads number the
deliveries they publish; `Joined` and `SameRouting` make these the same numbers
(`TokensUpTo`). The order of the threads says that what is published is ready as
soon as all before it is settled (`PublishedIsReady`), `ContentInv` what it holds. The
client's invariant says that a receipt is of the least unsettled number
(`ReceiptIsDelivery`) and that a loss takes an initial interval of the unsettled
ones (`LossIsOfTheReady`), so of each lane those next in turn. Every other step is
an arrival, the end of the process or a stutter.

**Feedback.** `FeedbackIsBounded` (`ArrivalsAreBounded`): however the threads
interleave and however slowly the broker returns the messages, no more arrive than
`Visits` grants those of others. The arrivals alone are not inductive: what has
arrived may still cause more. `FeedbackInvariant` adds the debt: each delivery that
is due and has not come back is owed the visits of its output, and the arrivals
with all that is owed are no more than what was granted (`IsPaid`). A return spends
the debt of its delivery on the arrival and on the routes of its topic
(`ReturnIsPaid`, `ArrivalIsPaid`), which is where `VisitsAssumption` enters; that a
delivery comes back no more than once is the order of the threads
(`PublishedOnce`), that it comes back with the output its debt is reckoned from is
`ContentInv`, as a chain has at most one output (`OneOutput`). The sums are the
community modules' folds. What is needed of them (one value changed, one added) is
proved from their definition, by induction over finite sets, which
`SubsetInduction` and `NatSetInduction` derive from the well-foundedness of the
natural numbers: induction over a set of numbers instead of over a predicate.

**The transformers.** Every call of `execute()` leaves both outputs alone, puts levels
into the topic, or assigns and erases one key (`LeavesAlone`, `FillsTopic`,
`FillsPayload`); the four proofs go along these. `ChainTypeCorrect` (`TypeOK`);
`ExpectedPayloadsSurvive` (`NeverTerminatesOnExpectedPayload`), because the payload
stays an object (`ObjectInv`) and the keys are read from the message, not from the
output; `LastDecides` (`LastTransformerDecides`), by what one step does to one key;
`NoLevelIsLost` (`TopicOnlyGrows`), with `TopicInv` and the fact that an insertion keeps
every subsequence of the topic.

**The startup.** `StartInvariant`: `Safety => []IInv`: the phases know what has been read
(`KindInv`), all that has been read was accepted, and of the current route what has
been set up so far is what `setup()` makes of it (`ReadInv`), and the table holds
the routes read, for each topic in their order (`TableInv`). From it
`StartTypeCorrect` (`TypeOK`, with the range of the narrowed indices),
`OnlyConformingStarts` (`AcceptedIffConforming`), `TableIsDocument`
(`RoutesAsConfigured`, narrowed indices included: `IndexIsKept`) and
`OptionsAsConfigured` (`SslOptionsAsConfigured`). "In their order" is
stated by an increasing function from places in the list to places in the document,
as is "subsequence" in `TopicOnlyGrows`.

**The utilities.** The theorems of `Casts_proofs` are about every text, of any length.
The library's induction theorems cannot be used, so `NatSetInduction` and
`StrongInduction` derive induction over a set of numbers from the well-foundedness
of the naturals, and `Recursion` shows that a recursive function exists if each
value depends only on those of lower rank; this lets `joinStrings`, `splitString`,
`Numeral` and `Natural` be unfolded (`JoinUnfolds`, `SplitUnfolds`, `NumeralUnfolds`,
`NaturalUnfolds`). The core is that joining is injective on lists of elements that
hold no token (`JoinInjective`: the last token of a text is in one place) and that
splitting makes such a list (`SplitIsList`). What is true of the levels of a text
is then shown by induction over such lists, an element at a time from the back.

* `SplittingIsExact` (`SplitIsExact`): joining undoes splitting, there is one level
  more than there are slashes (`JoinCounts`), and the outer levels tell whether the
  topic is valid (`SplitEnds`, `SplitToken`).
* `PuttingInsertsLevels` (`InsertsLevels`): both sides are lists that are joined to the
  same text. `PutsLevels` says it for every index and text, not only those of the
  instance.
* `IntegersAreKept` (`IntegersKept`): a numeral begins with a zero for zero alone
  (`NumeralIsProper`), so that an integer without leading zeros is not read as an
  octal one, and zero is zero in both bases.
* `AddressesAreComplete` (`AddressIsComplete`): the five alternatives of the expression
  are the numerals up to 255 (`OctetsAreBytes`); the groups between the colons are of
  one to four characters exactly if the colons are neither adjacent nor more than
  five apart (`GroupBehind`, `JoinGroups`).

*Only model-checked.* Every liveness property, and with it the fairness half of
`ImplementsRelay`: liveness under fairness and `ENABLED` are out of the prover's reach.
Of the invariants two: `OrderIsKept` and `RereadsAsItself`. They rest on the rounding to
a mantissa, whose unit is a power of two with a variable exponent (`Rounded`), and
the provers know nothing of `^` but its name; besides, the exponents that `Rounded`
tries are bounded, by more than the texts of the instance need.

## 5. What is not modelled

* `disconnect` and `unsubscribe`: nothing calls them, so that no behaviour contains
  them. The same holds of `stopHandler` (`src/main.cpp:24`) and of the
  specialisations of `lexical_cast` for other types than `long`, `float`, `double` and
  `bool`.
* Logging, reflection, exception types and the version: no influence on the state.
* Decimal exponents, infinities, capitals in the names of booleans, texts that
  `dump_json` cannot write because they are not UTF-8.
* Quality-of-service retransmission within one connection, TLS itself (only
  which URI asks for it is), the effect of `keepAliveInterval`.
* The threads with the real transformers as one module: the theorems about the
  threads hold for any `Execute`, and `TransformChain` runs the real ones in the very
  loop that the threads run; together they would only multiply the states.
* Vendored code. `MqttClient` describes the client library by how the code uses
  it, and `ConnectsWithTls` by what its header says; these definitions are marked
  external.

## 6. Plan

Done: `Routing`, `Relay`, `TrafficWarden` with its proofs, `Channel`, `MqttClient`,
`MqttTrafficWarden`, `Service`, `Feedback`, `Casts`, `StreamTransformers`, `TransformChain`,
`Configuration`, `Startup`. No module is left to be written.

Of the invariants that the runs check all are proved but `OrderIsKept` and
`RereadsAsItself`.
