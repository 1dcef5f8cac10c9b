# A formal model of go-overlay-discovery-services

TLA+ modules, TLC configurations and TLAPS proofs about the SHIP and SLAP discovery services:
the topic managers that admit advertisements and track subscriptions, the lookup services that
index and answer, and the wallet advertiser that makes, finds and revokes advertisements.
`PROJECT.json` lists the components, the runs, the faults each property was tried against, the
lines every definition stands for, the findings and the hazards.

To check a run: `tlc -config tm_threads.cfg MCTopicManager`. To check the proofs: `tlapm
TopicManager_proofs.tla`. Both need the community modules.

## 1. The system

| part | source | state it keeps | operations |
|---|---|---|---|
| SHIP topic manager | `pkg/ship/topic_manager.go` | two maps from topic to record and to handler, one `sync.RWMutex` | `SubscribeToTopic`, `UnsubscribeFromTopic`, `CreateTopicSubscription`, `HandleTopicMessage`, `Close`, five getters, `IdentifyAdmissibleOutputs` |
| SLAP topic manager | `pkg/slap/topic_manager.go` | the same two maps, keyed by service and domain joined with `@` | the same, for pairs; and listings by domain and of available services |
| Admission | `pkg/shared/admittance.go`, `pkg/shared/base_topic_manager.go`, `pkg/utils/helpers.go` | none | `IdentifyAdmissibleOutputs`, `validateOutput`, `IsTokenSignatureCorrectlyLinked` |
| Lookup service, writing | `pkg/shared/base_lookup_service.go`, `pushdrop.go`, `record_lifecycle.go`, `pkg/{ship,slap}/storage.go` | one MongoDB collection per protocol | `OutputAdmittedByTopic`, `OutputSpent`, `OutputEvicted`; insert one, delete one |
| Lookup service, reading | `pkg/shared/lookup_executor.go`, `lookup.go`, `storage.go`, `pkg/{ship,slap}/lookup_service.go`, `storage.go` | none of its own | `Lookup`: refuse, parse, filter, sort, skip, limit, read the cursor |
| Wallet advertiser | `pkg/advertiser/wallet_advertiser.go` | key, URI, initialized flag, identity key, skip-validation flag | `NewWalletAdvertiser`, `Init`, `CreateAdvertisements`, `FindAllAdvertisements`, `ParseAdvertisement`, `RevokeAdvertisements` |
| Revocation transactions | the same file, from `encodeTransactionsAsBEEF` on | none | `encodeVarInt`, `parseVarInt`, `encodeTransaction`, `parseTransactionFromBEEF`, `calculateTransactionHash` |
| Names and URIs | `pkg/utils/validation.go` | none | `IsValidTopicOrServiceName`, `IsAdvertisableURI` |
| Byte conversions, metadata, examples, fuzz helpers | the remaining files | none | not modelled |

How they meet. The advertiser makes a transaction whose outputs are PushDrop tokens (protocol,
identity key, domain, name, signature). The overlay engine, a library, offers every transaction
to the topic managers, keeps what they admit, and calls the lookup services for what was
admitted, spent and evicted. A lookup service trusts the topic it is told of, parses the token
once more and writes its collection. A client, the advertiser among them, asks a lookup service.
Topic subscriptions are independent of all that: they live in the topic manager's two maps, any
goroutine may use them, and a handler may call the manager again from the goroutine that
delivered the message.

What is hard, and what would make it right:

* **Topic managers.** `HandleTopicMessage` looks up under the read lock, lets go, counts under
  the write lock, lets go, and calls the handler: other calls fit into every gap. The two maps
  are written one after the other. Getters walk the maps. Right means: the maps agree, no count
  is lost, getters report a state there was, no call waits for ever, and callers see operations
  that take effect at once.
* **Joined keys** (SLAP). A pair is found by a joined string and listed by the names in its
  record. Right means: keys do not interfere, the two ways to ask agree, and a key belongs to one
  pair (which fails when a name holds the separator, section 4).
* **Admission and index.** Two validations of one token, in two places, with different rules; an
  index without unique keys; an engine that repeats and reorders calls; a storage that fails.
  Right means: what is admitted is indexed, once; nothing else is; it is gone when it is spent;
  and nothing is lost without an error that says so.
* **Queries.** The collection changes between two pages, the cursor breaks midway, numbers may
  be negative, zero or absent. Right means: no short answer passes for a whole one, and paging
  misses nothing.
* **Advertiser.** One name is validated in two forms at two moments, a list may be faulty at any
  entry, wallet, storage and resolver fail. Right means: a transaction for the whole request or
  none, of tokens that are admitted, found and can be revoked, whatever one host adds to an answer.
* **Revocation transactions.** Integers of four widths, lists and scripts with their lengths
  before them, and a reader that takes a few bytes from the start of what another call wrote.
  Right means: what is written says what was meant, and what is read is what was written.

## 2. The modules

| module | models | used by |
|---|---|---|
| `TopicManager` | the SHIP manager, step by step, for any number of goroutines | `TopicManagerRefinement`, the proofs |
| `Subscriptions` | what a manager promises: atomic operations | both managers implement it (`TopicManagerRefinement_proofs`, `ServiceManager_proofs`) |
| `TopicManagerRefinement` | the mapping from `TopicManager` to `Subscriptions` | `MCTopicManager` |
| `ServiceManager` | the SLAP manager on keyed tables, and its mapping to `Subscriptions` | `MCServiceManager`, the proofs |
| `Uri` | `IsAdvertisableURI`, scheme by scheme | `Admittance` |
| `Admittance` | `validateOutput` and `IsTokenSignatureCorrectlyLinked` | `DiscoveryIndex`, `Advertiser` |
| `DiscoveryIndex` | admission, engine, notifications and both collections | `MCDiscoveryIndex`, the proofs |
| `Lookup` | one collection, either lookup service, a client that pages and retries | `MCLookup`, the proofs |
| `Wire` | numbers, transactions and the simplified BEEF as bytes, written and read | `Revocation` |
| `Revocation` | one call of `RevokeAdvertisements`, byte by byte, and a reference reader of the format | `MCRevocation`, the proofs |
| `Advertiser` | the advertiser with wallet, overlay and resolver | `MCAdvertiser`, the proofs |
| `MC*` | constants for TLC | the `.cfg` files |
| `*_proofs` | theorems checked by TLAPS | |

Definitions marked "Fault" are not part of any next-state relation: each is a plausible bug,
written beside the definition it replaces, and a property that no such replacement breaks is not
kept.

### TopicManager

`subscriptions`, `isActive`, `messageCount` are the keys and the two mutable fields of
`tm.subscriptions`; `handlers` is `tm.handlers`; `NoHandler` is both `nil` and an absent entry.
`readers` and `writer` are the `RWMutex`. `Lock` has two steps: `AnnounceLock` keeps new readers
out, `AcquireLock` waits for the readers that are in to leave. `pc` is the point of the code a
goroutine has reached, `call` its arguments, locals and result.

One action is one access to the shared maps: the two writes of `SubscribeToTopic`
(`SubscribeRecord`, `SubscribeHandler`) and of `UnsubscribeFromTopic`, one iteration of the
loops of `Close` and of the getters, the load and the store of `MessageCount++`. Reading under
the read lock, deciding after it is released, counting, and calling the handler are different
actions, so that anything may happen between them. The read and the decisions on it are merged
with the `RUnlock` that follows: they use local variables only. The five getters
(`IsSubscribedToTopic`, `GetTopicMessageCount`, `GetTotalMessageCount`, `GetActiveTopicCount`,
`GetSubscribedTopics`) are one operation `Get` that copies the records it is asked about; what a
getter makes of its copies is a function of them. Times and the message payload are left out:
the manager does not read them.

A running handler may make one call of its own before it returns (`nested`). Longer chains do
not add a state of the lock: no lock is held while a handler runs, so the second call of a
handler meets the same situations as the first.

`AliasSpec` adds what the API permits without a lock: `CreateTopicSubscription` returns the
record in the table, and a caller may write its `IsActive` and `MessageCount` (`AliasWrite`). It can
write the name and the time too, which no operation reads. Counts can then be lost or reset, so the
properties of counts are about `Spec`, where only the manager writes its records.

`delivered` is history: it counts the handler invocations, which the code does not.

### Subscriptions and the refinements

`Subscriptions` has no lock. Every call takes effect in one step between call and return, except
`HandleTopicMessage`, which the code makes no attempt to keep whole: it accepts (reads the
handler of an active topic), counts and invokes in three steps. In `TopicManagerRefinement` a
mutator takes effect at its first write: the abstract tables show the remaining writes already
(`Pending`, `Closing`), which nobody can observe since the lock is held. A getter and
`HandleTopicMessage` take effect at their last read. `ServiceManager!Atomic` maps the
joined keys to topics.

A message that was accepted while its topic was active may be delivered after the topic was
unsubscribed or the manager closed: `Subscriptions` declares that, with the handler of the moment of
acceptance, because no text of the repository promises more.

### ServiceManager

The same manager with joined keys. Its locking is line for line that of the SHIP manager, and
`Linearizable` shows what that locking is worth; so a lock section is one action here, and the
state that is saved is spent on names: a name is a non-empty sequence of `Characters`, and `Key`
joins two with `Separator`, which is one of them. Nothing in the code keeps it out of a name, so
nothing does here: two pairs may have one key, and then share record, count and handler.
`GetSubscribedServices`, `GetServicesByDomain` and `GetAvailableServices` read the names in
the records, `IsSubscribedToService` and `GetServiceMessageCount` look up the key.

### Uri

A URI is its scheme, what `net/url` makes of the rest, and for JS8 Call the four parameters. A
coordinate is absent, text, a number or not a number, as `ParseFloat` tells them apart; degrees
are whole. `ValidCoordinate` is written as the code writes it, refusing what is below or above,
so that a value that is neither passes. A quantity is the first number in its text and whether a
minus stands before it.

### Admittance

A token is what the code can tell apart: does it decode, how many fields, which protocol, which
URI, is the name valid and with which prefix, is the key readable, is the signature readable and
right, is the locking key derived from it. `ValidOutput` is `validateOutput` with every check.

### DiscoveryIndex

An output has a token for life, chosen at the start (`Scripts`). `ValidOutput` admits it, `Parse`
is `ParsePushDropOutput`; their rules differ and no definition is shared. `Submit` and `Evict` are
the engine, modelled from the interface it calls: a transaction spends what topics hold, each topic
admits outputs, and every change leaves notes, the calls that are owed. `Handle(n)` makes one: the
whole of `OutputAdmittedByTopic`, `OutputSpent` or `OutputEvicted`. A call may end in an error: the
BEEF it comes with cannot be read or has no such output (`Beefs`), or the storage fails (`Fails`).
The repository does not try again, so neither does the model, and `failed` is history: the service
and output it was about. With `Redelivery` a call may stay owed after it had its effect (its
answer was lost); `repeated` is history, the admissions that were stored and are told again. With
`InOrder` the engine is done with the notes of an output before something else happens to it.
`copies` counts the records of an output: nothing keeps the insertion from making a second one.

Admission and bookkeeping are one step because the engine waits for `IdentifyAdmissibleOutputs`
before it keeps anything. An evicted output may be submitted again, a spent one not.

### Lookup

`service` says which of the two lookup services this is: they differ in the question they accept
and in the filter of the name (`NameMatches`: any of `topics` for SHIP, one `service` for SLAP; each
ignores the field of the other). A question is what its JSON is to the code (`Kinds`) and the
fields of the query. `Refusal` has every refusal in the order of the code. `Windows` is sort, skip and limit: the records skipped
and those up to the end of the page, with any choice among records of equal `createdAt`. `Find`
selects the page when the query is made and `CursorNext` reads it one record at a time while the
collection changes. This takes the server to fix the page at the query, as it does for a sort
that the only index of the collection does not serve. `createdAt` is what the clock of the
storing process shows: any of `Times`, in any order, and two records may get the same one. `late`
is history: while the client pages, a record was stored with a `createdAt` below that of an
earlier one. `owed` is history: what the first page would have held
without a limit, and nothing once a record is deleted, because offset paging can then promise
nothing. The client (`NextPage`, `LastPage`, `Retry`, `Stop`) is outside the repository: it
reads pages until one is short.

### Wire and Revocation

A byte is one of `Base` values, 256 in the code and 4 in the run: the last three announce
integers of two, four and eight bytes in either, and with 4 values the widths change at 1, 16
and 256, so that transactions of a few inputs cross the first two edges. `ParseTransactionFromBEEF` is
the code's reader: it skips eight bytes and a count and looks at the first ten bytes of what
follows. `MaxInputs` is the longest slice `make` can allocate; a longer one is the state
`panicked`. One behaviour of `Revocation` is one call. An advertisement holds the start of what
the encoder wrote for its `source`, whole or cut anywhere, or the bytes of other software. The
`Read...` operators are not the program's: they read the format as Bitcoin defines it and say
what the bytes mean. Lists and scripts are slices, whose lengths are integers of eight bytes
(`Slice`).

The two ways an advertisement reaches `RevokeAdvertisements` give it the BEEF of the SDK, which
has no eight-byte header: the code then reads its version and number of inputs from wherever
they happen to fall. That is the case of foreign bytes, about which nothing is claimed. And what
is written is no revocation that a node would accept: the input names a placeholder, not the hash
of a transaction (`CalculateTransactionHash`), and the script signs nothing.

### Advertiser

`NewWalletAdvertiser` refuses what it refuses in the order of the code, and may fail while it
opens its database; until it succeeds there is no instance (`pc` is `"none"`). A name is the
sequence of words its underscores separate, and a word has a length: that is all
`IsValidTopicOrServiceName` looks at once the words are made of the permitted characters.
`FullName` is the concatenation with the prefix. An output (`AdToken`) has its fields, the key it
names, the key that signed it and the key it is locked to; `ParseError` is `ParseAdvertisement`,
check by check, and `Script` is what `Admittance` sees of the same output. `CreateAdvertisements`
validates every entry (a nil one panics), `Lock` makes one output and validates its name again, as
it is; `CreateAction` makes the transaction, and `ConversionFails` is the failure after it.
`Initialize` has the storage probe with its two requests on one context, a storage URL that does
not parse, and the cryptographic context that may fail. `RevokeAdvertisements` fails when the BEEF
of an advertisement cannot be read; its bytes are in `Revocation`.

`Earlier` are transactions of other software: a token with the own key whose name is too long for
the parser, one without a signature, an output that is no token. `Publish`, `Spend` and `Answer` are
the overlay, reduced to what `DiscoveryIndex` and `Lookup` show of it: the outputs of which
`Admittance` admits the token. An answer is gathered from several hosts, one of which may add an
item of its own (`Stray`): some output with a BEEF that holds it or one that does not. One goroutine
uses the advertiser: its fields have no lock, and neither tests nor examples share it.

## 3. The runs

Every run below finishes within four minutes on two cores.

| run | distinct states | what it checks |
|---|---|---|
| `tm_threads` | 337,865 (symmetry) | two goroutines with nested calls, two topics, two handlers: `HandlersMatchActive` (the maps agree whenever nobody is between two writes), `ActiveHasHandler` (`errNoHandlerFoundForTopic` is unreachable), `GettersAreSnapshots`, `CountMatchesDeliveries` (counted = invoked + about to be), `HistoryIsKept` (records stay, counts never fall and never jump), `Linearizable` (the manager implements `Subscriptions`) |
| `tm_liveness` | 197,819 | two goroutines with nested calls, and a caller that writes to the record it was given: `OnlyHandlersAreCalled` (never nil, even when a record is made active from outside), and under fairness `EveryCallReturns` |
| `sm_names` | 34,282 | names with and without the separator, two pairs of which have one key: `ListingsAgree`, `KeysAreSeparate` (the manager implements the atomic one whose topics are the keys) |
| `di_index` | 1,049,280 | two outputs, every valid and nearly valid token and URI, submit, spend, evict, submit again, calls made twice and calls that fail: `SettledIndexIsExact`, `AdmittedIsParsed`, `NoForeignRecords`, `LiveIsFindable` |
| `lk_paging` | 2,012,970 | both services, every refusal and filter, equal times, clocks that lag, insertions, deletions, broken cursors, a client that pages and retries: `AnswerIsWhole`, `NothingMissed`, `PagesInOrder` |
| `adv_lifecycle` | 245,853 | every kind of faulty argument and entry, every external failure, outputs of other software: `IssuedAsAsked`, `IssuedIsAdmitted` (the topic managers admit exactly the tokens whose name has the prefix of their protocol; both cases occur), `FindsAsAsked` |
| `rev_bytes` | 5,102 | one and two advertisements, whole, cut and foreign, numbers of inputs at the edges of three and five bytes: `ReadsWhatWasWritten`, `BundleSpendsEach` |

Every run but `tm_liveness` checks the `TypeOK` of its module as well. What the properties leave out
is said in each of them: a failed call, an admission told twice, a deletion between two pages,
equal times, a clock that lags, an answer that is no output-list, and BEEF of other software.

**Bounds and why they suffice.** Topics do not interact in a manager except through the lock,
`Close` and the getters, so two topics show what there is; two goroutines are a reader or a
writer and a rival, with a nested call each (what needs a third, a reader, a writer and a
waiting writer at once, is covered by the theorems, which hold for any number). `MaxMessages`
bounds the messages that are started per topic: two goroutines may both have started one before
either is counted, which is what a lost increment needs. `ServiceManager` is run with one
goroutine, because the subject is names and the interleavings are those of `TopicManager`. The
services `a` and `a@b` on the domains `b@c` and `c` are four pairs with three keys: two pairs that
share one beside two that do not. The index treats outputs one by one; two outputs give
a transaction that spends one and makes another, or one that makes two. `MaxCopies` = 2 is one
record too many, which is where the behaviour with duplicates begins. Paging: three records and
pages of one and two, so that there are up to three pages with insertions before, between and
after; three times tell records apart, and any order of them is met. Advertiser: requests of two
entries, faulty in the second, show that the first is not made alone; `MaxIssued` = 3 leaves room
for two transactions beside one of other software. Revocation: a cut past the 34th byte is like one
there, because nothing after it is read; the sources have numbers of inputs on both sides of three
and of five bytes. A number of inputs that takes nine bytes would be a list of 256 there, which no
request has: that width is written and read by the theorems only, which hold for lists of any
length.

**Fairness.** `tm_liveness`: a goroutine that has started a call goes on (the Go scheduler runs
every runnable goroutine), a handler returns (an assumption on the caller: a handler that never
returns keeps its caller for ever, which is the code's intention), and the lock is strongly
fair: `sync.RWMutex` documents that a blocked `Lock` keeps new readers out, and queues the rest.
Nobody is obliged to start a call, nor to write to a record. No other run assumes fairness: an
engine that repeats what failed until it succeeds is nothing this repository provides.

**`CHECK_DEADLOCK FALSE`** is set for the index, where nothing is left to do when every output is
spent and every call made, and for `rev_bytes`, whose behaviours are single calls. Everywhere else a deadlock is an error.

## 4. Where code and text disagree

Each of these runs checks one property that the repository's own text states, and ends with a
behaviour of the code that violates it. The quotations are in `PROJECT.json`.

| run | property | what happens |
|---|---|---|
| `sm_same_key` | `CountedForItsOwnPair` | service `a` on `b@c` and service `a@b` on `c` have one key: a message for the one is counted in, and delivered to, the other |
| `di_stale_record` | `SpentRecordIsRemoved` | a repeated admission makes two records, the spend removes one |
| `di_not_a_number` | `RadioIsLocated` | `lat=NaN` is neither below -90 nor above 90, and is advertised |
| `adv_first_output` | `FoundIsRevocable` | output 0, a legal index, is taken for a missing one |
| `adv_freeform` | `EveryAnswerIsRead` | answers of the type this repository's lookup services give are read as empty |

Met while modelling, and visible in the modules, but without a run of their own:

* A limit of 0 passes `ValidatePagination`, whose error says a limit must be positive, and means
  none (`Limited`).
* `pkg/advertiser/README.md:158` asks for "appropriate prefixes ("tm_" for SHIP, "ls_" for SLAP)",
  while `pkg/advertiser/wallet_advertiser_test.go:171-178` takes `tm_meter` for a valid SLAP
  advertisement. The code follows the test: `Invalid` and `LockRefused` never compare the prefix
  with the protocol, a transaction is made, and no topic manager admits its output. Two texts of the
  repository disagree here, so there is no run that takes the side of one; `IssuedIsAdmitted` says
  what comes of it.
* The advertiser finds no advertisement of its own whose name has 48 characters or more, should
  other software have made it with the same key: it is admitted, indexed and answered, and
  `ParseAdvertisement` refuses it with the prefix before it (`ParseError`).
* `CreateAdvertisements` refuses the usage example of its own README, `TopicOrServiceName:
  "payments"`: the name passes with the prefix put before it (`Invalid`) and fails as it is (`LockRefused`).
* Its bundle is tagged `tm_tm_meter` for `tm_meter` (`TopicsOf`), not `tm_ship`.
* It opens its wallet on the main network whatever chain the constructor was given
  (`wallet_advertiser.go:315`), while `FindAllAdvertisements` asks the network of the chain: on
  the test chain an advertiser looks where it does not publish. The model has one network.
* `validateCustomHTTPSURI` accepts a URI without a host, `https://` alone
  (`ValidateCustomHTTPSURI`).

## 5. The proofs

Checked by TLAPS, for all values of the constants that satisfy the named assumptions. Every
invariant that a passing run checks is a theorem, and so is every action property and both
refinements.

**`TopicManager_proofs`**: `ArgumentsCorrect` and from it `TypeCorrect`. `TypeOK` alone is not
inductive: a call under way must name a topic (`ArgsOK`), which the early refusals ensure.

**`TopicManagerSafety_proofs`**: `Safety`, and from it `MapsInStep` (`HandlersMatchActive`) and
`NoMissingHandler` (`ActiveHasHandler`). The maps disagree between two writes, so the invariant
has to say who may be there: the lock excludes (one goroutine at `first` to `unlock`, and then
no readers), the maps agree for every topic except the one the writer is at, and what a
`HandleTopicMessage` read under the read lock is a pair that agreed. For any number of
goroutines, topics and handlers.

**`TopicManagerRefinement_proofs`**, for any number of goroutines too. `CallInv` says what the
locals of a call hold at each label.

* `CountsAreExact` (`CountMatchesDeliveries`) and `HistoryAlwaysKept` (`HistoryIsKept`), for `Spec`:
  under `AliasSpec` both are false, because the pointer a caller was given lets it write
  `MessageCount`. Between the load and the
  store of a count nobody else changes it (`CountInv`), because the lock is held; the rest is
  counting: a delivery is about to be made by exactly one more or one fewer goroutine than
  before. That needs `Procs` to be finite.
* `NoNilHandlerIsCalled` (`OnlyHandlersAreCalled`), for `AliasSpec`: an accepted call carries the
  handler it read (`HandlerInv`), which no write to a record reaches.
* `GettersSeeOneState` (`GettersAreSnapshots`): while a getter holds the read lock no goroutine is
  at a label that writes (`ReadersFreeze`), so what it has copied remains what the table holds
  (`SnapInv`).
* `ManagerIsLinearizable` (`Linearizable`): every step of `TopicManager` is a step of
  `Subscriptions` or a stutter. The abstract tables are those of the code with the remaining
  writes of the holder of the lock applied; there is at most one holder, so a step of any other
  goroutine leaves them alone. A lemma per operation says which abstract step its first write, its
  last read or its early return is, and that the others are silent.

**`ServiceManager_proofs`**, for any names, with the separator or without: `TypeCorrect`;
`ListingsAlwaysAgree` (`ListingsAgree`): a record sits under the key of its own names, so the
question by key and the listing by names agree up to pairs with one key; `KeysNeverInterfere`
(`KeysAreSeparate`): the manager implements the atomic manager of keys. For the last, what a step
writes at a key shows at that key only, an active record has a handler, and an accepted message has
a record (`ActiveHasHandler`, `AcceptedHasRecord`). That a key belongs to one pair is not a theorem:
`sm_same_key` refutes it.

**`DiscoveryIndex_proofs`**: `TypeCorrect`; `AdmittedAlwaysParsed` and `OnlyGenuineRecords` for
any order and repetition of calls (`di_index` checks them for calls in order): the
invariant is that every owed admission and every record is of an output that its topic admitted;
`IndexIsExact` (`SettledIndexIsExact`) for `InOrder`, with or without `Redelivery`: the invariant
relates the number of records, the notes owed and what the topic holds, note by note, for every
output and service that no call failed for and whose admission was not told twice; `LiveAlwaysFindable` (`LiveIsFindable`),
which includes those told twice: what a topic holds has a record or its admission is
still owed, and no removal is owed (`Findable`). That a token that was admitted has a URI
that `Advertised` describes without the order of the checks is a lemma (`AdvertisedUris`).

**`Lookup_proofs`**, for either service: `TypeCorrect`; `AnswersAreWhole`; `PagingMissesNothing` (`NothingMissed`).
Its invariant says that a record that is owed and not yet collected has at least `skip` records
before it in the current order, and, once the page is known and the record is not on it, a full
page and `skip + limit` before it; insertions only add to what is before a record, whatever their
`createdAt`. `PagesAreInOrder` (`PagesInOrder`), oldest first with unique times and clocks that do
not lag: the records that match and are no newer than one that was collected (`Reached`) are at most as
many as the next page skips, so it starts after all of them; deletions make them fewer and
insertions are newer. For any number of records, any filters, page sizes and clocks.

**`Advertiser_proofs`**: `MadeAsAsked` (`IssuedAsAsked`), for any requests, names and lengths.
The invariant follows the request through the loop: what is locked so far are the tokens of its
first entries, all of which passed both validations. `WhatIsIssuedIsAdmitted`
(`IssuedIsAdmitted`) adds that an initialized instance has a URI that passed `IsAdvertisableURI`,
that what is locked has five fields, the own key, its signature and a locking key derived from it,
and that of the rest of `validateOutput` only the prefix of the name is left open; it proves both
directions. `TypeCorrect` is for the whole state, and `WhatIsAskedIsFound` (`FindsAsAsked`) for any
requests and any transactions of other software. It assumes nothing about the types of answers; it
says what is found in an output-list, and `adv_freeform` what happens to the other type.

**`Revocation_proofs`**: `TypeCorrect`; `ReadsBack` (`ReadsWhatWasWritten`); `BundleIsRead`
(`BundleSpendsEach`): the wire format is read back, for any number of values of a byte from four
up, any transactions and any requests. `Holds(d, k, s)` says that the bytes `s` stand in `d` from
byte `k` on. What holds two joined pieces holds each in its place, so a reader that reads every
piece where it stands reads the whole: `VarIntRead`, `ScriptRead`, `InputRead`, `TransactionRead`,
up to `BeefRead`, and for the parsers of the code `VarIntParsed` and `WrittenIsRead`, whatever
follows and wherever it is cut. The invariant of the call is then short: each transaction made is
the one its BEEF reads as, and an error or a panic is that of the first that could not be read.
Joining and reading a list is defined by recursion over its items; that they are found where they
were put is an induction over the length, done with the least counterexample in the order of the
natural numbers (`UpTo`).

**Only model-checked.** Liveness (`EveryCallReturns`): TLAPS does not prove fairness arguments. The runs of section 4, which end with a violation.

## 6. What is not modelled

* Cryptography, the MongoDB driver, the wallet, the resolver and the engine: outside the
  repository, modelled by how they are used. MongoDB writes to one document are atomic.
* Of the advertiser: `SetTestMode`, whose flag nothing reads, the `Finder` that tests put in place
  of the resolver, the choice of a network by chain, and the getters of its fields.
* `EnsureIndexes`: a non-unique index changes cost, not answers.
* No-op notifications, constant metadata, byte conversions, examples, fuzz helpers: no state, or
  no behaviour of the services.
* Contexts and cancellation, except where one context is shared by two requests: a cancelled
  call is the failure of the external step it was in.

## 7. Plan

Built: the modules above, in the order topic managers, admission and index, queries, advertiser,
URIs, revocation; and a theorem for every invariant, action property and refinement that the passing
runs check. What could still be added: the hazards of `PROJECT.json` that no property covers, where
a state can show them, such as the second probe of the storage on the context of the first; and the
bytes of other software in `RevokeAdvertisements`, of which `Revocation` has two examples and about
which nothing is claimed.
