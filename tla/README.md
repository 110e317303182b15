# A verification of bhgraph

bhgraph is a Go library that builds, validates and uploads BloodHound OpenGraph
payloads. This directory holds TLA+ specifications of its core, the TLC
configurations that check them on small instances, and proofs that TLAPS checks
for every instance. `PROJECT.json` lists the runs, the mutants that show each
property can fail, which source lines each definition stands for, the findings,
the hazards and the theorems.

    tlc -config MCUpload.cfg MCUpload      # model-check one instance
    tlapm Ingest_proofs.tla                # check one module's proofs

## 1. The system

| component | source | state it keeps | operations |
|---|---|---|---|
| Graph | `graph.go` | nodes and edges | AddNode, AddEdge, UppercaseIDs |
| Graph validation | `validate.go` | the ids seen, the problems found | Validate, ValidateAgainst |
| Extension schema | `extension.go`, `validate.go` | kinds, environments, sections | Validate, TraversableKinds |
| Streaming writer | `marshal.go` | a sticky error and a count | WriteTo, MarshalJSON |
| Spool | `client/spool.go` | a buffer, then a temporary file, and a count | Write, reader, size, close |
| Signing | `client/sign.go` | a keyed digest | Sign, BodySigner |
| Request plumbing | `client/client.go` | none (a Client is immutable) | do, doStream, send |
| Ingest | `client/ingest.go` | none locally; a job on the server | Ingest, StartJob, UploadGraph, EndJob, JobStatus |
| Extension endpoints | `client/extensions.go` | none locally | Install, List, Delete |
| Feature flags | `client/features.go` | none, on purpose | Features, FeatureEnabled |
| Queries | `client/pathfinding.go`, `client/cypher.go` | none | ShortestPath, Cypher |
| Examples | `examples/` | none | install, ingest, wait, query |

How they interact. `Ingest` validates its graph, then makes three requests:
start, upload and end. The upload serializes the graph once, through an
`io.MultiWriter`, into a spool and a `BodySigner`; the spool, rewound, becomes
the body of a request that net/http's transport reads and closes from its own
goroutine, while `UploadGraph` may already be returning and its deferred call
be closing the same file. The other requests hold their body in memory.

What is hard about it:

- *Concurrency.* The transport against the deferred close; concurrent `Ingest`
  calls on one Client; requests that are served after the client gave up.
- *Failure.* Partial writes while counting, a spill that fails half way, an
  element that cannot be encoded in mid-document, replies that are lost or that
  are errors although the request took effect.
- *Ordering.* Spool before signer; the hour may turn between signing and
  sending; a graph may be uppercased, extended and validated in any order.
- *Timeouts.* The client's timeout is the only thing that ends an exchange.

What makes each part correct, in a sentence each:

- Spool: a reader gets exactly what was written, its announced size is its
  length, and no file stays behind.
- Signing and upload: what the server receives is what was signed, and a
  success means it received the whole document.
- Ingest: what a caller is told is true of its graph on the server.
- Graph validation: everything wrong is reported, and what is accepted resolves.
- Extension validation: what is accepted is exactly what keeps the rules of
  BloodHound's install that the code states, and everything else is reported.
- Single requests: what the server carries out is what the caller meant, an
  answer is one of its own call's time, and a call that says it had an effect had.
- Examples: a file reported written is the whole document, and three checks that
  come out right mean the schema took effect.

## 2. The modules

| module | models | checked by | proved in |
|---|---|---|---|
| `Spool` | the spool's state and operations, with every file system failure | both below | |
| `SpoolCalls` | a spool driven by any caller | `MCSpoolCalls` | `SpoolCalls_proofs` |
| `ByteLog` | what a spool promises (abstract) | as a property of `SpoolCalls` | `SpoolCalls_proofs` |
| `Signing` | the HMAC chain and the streaming signer | through `Upload` and `ClientCalls` | |
| `GraphWriter` | `Graph.WriteTo` and its `graphWriter`, one action per outcome of a call | through `Upload` and `PayloadFile` | `Document_proofs` |
| `Upload` | `UploadGraph`: `Spool`, `Signing`, `GraphWriter`, the transport, a server, a clock | `MCUpload` | `Document_proofs` |
| `Ingest` | concurrent `Client.Ingest` calls and the server's job table | `MCIngest` | `Ingest_proofs` |
| `IngestJob` | what `Ingest` promises (abstract) | as a property of `Ingest` and of `IngestUpload` | `Ingest_proofs`, `Document_proofs` |
| `IngestUpload` | one `Client.Ingest` with the whole of `Upload` inside it | `MCIngestUpload` | `Document_proofs` |
| `ClientCalls` | concurrent single requests: extensions, flags, queries, job status, bare verbs; redirects | `MCClientCalls` | `ClientCalls_proofs` |
| `GraphValidate` | a graph that is built, uppercased and validated | `MCGraphValidate` | `GraphValidate_proofs` |
| `ExtensionValidate` | one call of `Extension.Validate` | `MCExtensionValidate` | `ExtensionValidate_proofs` |
| `Workflow` | the with-extension example, on top of `IngestJob` | `MCWorkflow` | `Workflow_proofs` |
| `PayloadFile` | the minimal example: `GraphWriter` into a file | `MCPayloadFile` | `Document_proofs` |

### Spool, SpoolCalls, ByteLog

`buf`, `file`, `n` are the struct's fields. `disk`, `pos` and `linked` are what
the operating system keeps for the temporary file: contents, offset, and whether
its name exists. Each outcome of `Write(p)` is an operator: it fits
(`WriteToBuffer`); the file cannot be made (`CreateTempFails`); the buffered
bytes do not all reach it (`SpillFails`); the spill works and `k` bytes of `p`
follow (`SpillAndWrite`); `k` bytes of `p` go to the open file (`WriteToFile`).
`os.File.Write` is taken by its contract: an error exactly when fewer bytes were
written than given. `SpoolClose` removes the name even when closing the
descriptor fails, as the code does. A mutant stands just before the operator it
mutates, in every module.

`ByteLog` is the promise: a log that grows by whole chunks until it is sealed,
and breaks at the first error.

### GraphWriter, Upload

`GraphWriter` has no next-state relation of its own: `GwWrites`, `GwFails(k)`,
`GwRefuses`, `GwSkips` and `GwReports` are the outcomes of the next call, and a
user of the module says what became of the text.

In `Upload` `pc` goes through `start`, `writing`, `reader`, `sending`, `closing` and
`returned`. While `writing`, `step` walks the list of calls that `Graph.WriteTo`
makes on its `graphWriter` (`WriteTo(graph)`): a `write` for each literal and an
`encode` for each element. A text is a sequence of opaque letters, one for each
literal (the comma's is called `"comma"`), and an element may be unencodable.
`gwErr` is the sticky error: `encode` returns at once, `write` goes on silently,
and `WriteToReturns` is where `UploadGraph` checks. The deferred `sp.close` is the
`closing` step, on every path out.

The transport (`SendByte`, `EndOfBody`, `TransportFails`, `CloseBody`) runs
beside it. It may stop, be slow, or close the file before or after the call
closes the spool. A body of the wrong length shows as `tx = "short"`. The server
recomputes the signature from the target, the date header and the body it got,
and refuses what is older than `MaxAge`; it may also refuse for any other reason
at any time.

### Ingest, IngestJob

One record of `requests` is a request on the wire, one of `replies` an answer.
Both are sets without an order, and a record may stay in them for ever, so loss,
delay and reordering need no actions of their own. `DoFails` is a timeout, a
cancelled context or a broken connection: the caller moves on and its request
stays. The server may answer an error after acting (`ok = FALSE` in `ServeStart`
and the others), and may leave the id out of its answer to start. `CleanUp` is a
caller that ends the job it was given with an error. `LocalFailure` is every
error before a request is on the wire.

`IngestJob` forgets requests, replies and ids and keeps, for each caller, what
became of its graph and what the caller was told. The refinement mapping reads
the first from the job table and the second from `pc` and `jobId`.

### IngestUpload

The same call again, with nothing of the upload left out: `stage` is where
`Ingest` is, and while it is `"uploading"` every step of `Upload` may happen. The
server takes into its job the bytes that arrived on the wire (`loaded`), if they
are authentic, and may answer with an error all the same (`TakeUpload`). The
transport and the server may go on after `Ingest` has returned, and a caller may
end the job it was left with (`CleanUp`). The refinement mapping calls a job
`loaded` only when the one thing in it is the document of the graph, so that
`ImplementsIngestJob` says what `Ingest` alone takes for granted: "the upload
answered 2xx" is "the document arrived".

### ClientCalls

One caller makes one call. `RequestFor` is the request each operation builds,
and `NoRequest` what it refuses to build; `DoRequest` signs it, over the target
that `URL.RequestURI` gives, base path and query included. `Outcome` is `send`
and what the call makes of the body; of an `APIError` it keeps the status.
`Abandon` is an error of `http.Client.Do` or of reading the body: the caller
returns and the request stays, so that it may be served later. `Redirect` is
net/http's: the headers stay, and a 301, 302 or 303 turns the request into a GET
without a body. A URL is the sequence of its segments and its query.

BloodHound is external. It carries out nothing that is not authentic, may answer
401, 403, 404 or 500 to anything (`Refuse`), may answer 500 to what it has done,
does not route the extension endpoints with the flag off, and has its flags
toggled. `since` is a history variable: what flags and extensions have been
since a caller's request was sent.

### GraphValidate

A caller adds nodes and edges, uppercases and validates in any order. Each loop
of `validate` and `ValidateAgainst` takes one step per element; `ids` is the
map of the node loop. A problem is a record of what is wrong and at which place.
`NodeFaults` and its companions say the same without a loop, with quantifiers
over the graph; they belong to the properties. The extension is the two sets of
declared kinds. Three history variables keep what the caller handed over, as it
was given, and whether `UppercaseIDs` has run since: `StoredAsGiven` compares the
ids held, and what BloodHound makes of them, with the caller's own.

### ExtensionValidate

One call, whose loops take one step per element: `CheckKind` is a kind's name
and the number of its sections, `CheckSection` one section of the kind before
index `i`, `CheckEnvironment` one environment. `seen`, `displayKinds` and
`positions` are the code's `seen`, `displayKinds` and `positions`; `keys` is what
is left of the sorted keys. A name is the sequence of its parts between
underscores (`X_User` is `<<"X", "User">>`, `X_` is `<<"X", "">>`), so that "the
namespace and an underscore, and something after it" is about lengths and
prefixes, and a namespace that brings its own underscore is told apart. `Keys`
is the info keys in the order of `sort.Strings`. Whether a section's content
parses as a template is a field of it.

### Workflow, PayloadFile

`Workflow` is `run` of with-extension, one action per call it makes. `told` and
`effect` are those of `IngestJob` for its one `Ingest`. BloodHound's search is
`Followed` and `Connects`; the server may take any set of kinds for traversable,
processes an ended job in stages (a first node, all nodes, edges), and may have
the graph of an earlier run. `PayloadFile` is `run` of minimal: truncate, stream,
close, with every write and the close free to fail; the variable `run` is where it
is. Its actions on the writer (`FileWriteText`, `FileEncodeFails` and so on) are
named apart from `Upload`'s, so that one module can prove about both.

## 3. The runs

| run | result | what it shows |
|---|---|---|
| `MCSpoolCalls.cfg` | passes, 13 736 states | every byte kept in order and counted, nothing left on disk, `ByteLog` implemented |
| `MCSpoolCallsAhead.cfg` | violates `CountNeverRunsAhead` | finding 2 below |
| `MCUpload.cfg` | passes, 6 262 states | the document sent is the one signed, a success is a delivery, the call returns |
| `MCUploadBasePath.cfg` | violates `SignatureCoversRequest` | finding 1 below |
| `MCIngest.cfg` | passes, 22 930 states | what two concurrent callers are told is true, what they send names their own jobs, `IngestJob` implemented |
| `MCGraphValidate.cfg` | passes, 3.2 million states | all problems are reported, accepted graphs resolve, uppercasing keeps edges, and a graph uppercased and accepted, in whatever case it was given, is held as BloodHound stores it, with no two nodes merged |
| `MCExtensionValidate.cfg` | passes, 69 315 states | all problems are reported, and a schema is accepted exactly when it keeps the rules |
| `MCClientCalls.cfg` | passes, 620 008 states | signed is meant, answers are fresh, successes are effects, every call returns |
| `MCIngestUpload.cfg` | passes, 11 418 states | `Ingest` with a real upload inside implements `IngestJob` |
| `MCWorkflow.cfg` | passes, 16 916 states | three answered checks that are OK prove the schema took effect; the program ends |
| `MCWorkflowErrors.cfg` | violates `OksMeanTookEffect` | finding 3 below |
| `MCPayloadFile.cfg` | passes, 228 states | a file reported written is whole, whatever fails |

Bounds, and why they are enough:

- *Spool.* Threshold 2, two byte values, chunks of 0 to 3 bytes, 6 bytes in all:
  a chunk meets an empty, a half full and a full buffer, fits, fills or crosses
  the threshold, and two more writes follow on disk. Two values show a swap.
  The proofs hold for every threshold and every chunk.
- *Upload.* Threshold 4 against documents of 3, 4, 7 and 8 bytes: two in memory,
  one of which fills the threshold, and two that cross it inside an element, with
  one or two literals after that element; two with an unencodable node or edge.
  An hour of two ticks and a clock of three: the hour can turn between any two
  steps, and a signature can expire.
- *Ingest.* Two callers with graphs that are valid or not. Callers only meet in
  the job table, so a third adds no new kind of meeting; the proofs do not depend
  on the number.
- *GraphValidate.* Three nodes and two edges out of six and six, with ids that
  differ in case only, empty ones, duplicates (of the first and of a later node),
  undeclared and empty kinds, and endpoints of all three strategies.
- *ExtensionValidate.* Two kinds of each sort and one environment: a duplicate
  in one list and across the two, a display kind first, last or missing. At most
  two sections for BloodHound's 100, against a kind with three. A position that
  three sections share, and a negative one twice.
- *ClientCalls.* Two callers, and the pairs of calls that meet in BloodHound: flag
  against flag and install, install and delete against each other and themselves;
  every other kind of call next to one that is refused. Callers are alike, so a
  pair is given to them in one order. Two toggles: off and on again within a
  call. One redirect, to the same target, to another endpoint or to a landing
  page; a second adds no other kind of request. Base URLs with and without
  BloodHound's path and with a trailing slash, a client without a timeout, and
  credentials that `New` refuses.
- *IngestUpload.* `Upload`'s threshold and clock; an empty graph, one in memory,
  one on disk and one that cannot be encoded.
- *Workflow.* Three polls and two toggles; every set of kinds, before and after
  the install. Three toggles would add one more off-and-on, which two show.
- *PayloadFile.* Documents of 3 and 8 bytes and, cut short, two that cannot be encoded,
  over no file and over a longer one.

`CHECK_DEADLOCK FALSE` stands where a call really ends: a closed spool, an
upload, an ingest, a schema's validation or a call that returned, a program that
ended. A graph can always be validated again, so that run checks deadlock.

Fairness. `Upload` assumes only `WF_vars(UploadGraph)` and `Ingest` only
`WF_vars(Ingest(c))` for each caller: the goroutine is scheduled, and
`http.Client.Timeout`, which `New` sets to a minute, ends an exchange that does
not end otherwise (`DoFails` is always enabled while one waits). The transport,
the server, the clock and a caller's clean-up are free to do nothing for ever.
With a client of the caller's own that has no timeout, neither liveness property
is claimed of those two. `ClientCalls` assumes `WF_vars(MakeCall(c))` for each
caller, where `TimesOut` is enabled only for a client that has a timeout: without
one, all that is claimed is that an answer ends the call. `Workflow` assumes
`WF_vars(Program)`: its calls return, as `EveryCallReturns` shows of both `Ingest`
and the single requests, and waitForNode counts down to its own deadline. The
server, the operator and whatever redirects owe nothing in any module.

Findings:

1. `UploadGraph` signs the bare path (`ingest.go:83-86`) but `doStream` requests
   the base URL followed by that path (`client.go:194`). `New` accepts a base URL
   with a path, as of a reverse proxy. `sign.go:115` asks for "the full request
   target". Every upload through such a client is refused, after `StartJob`, which
   signs the right target, has opened a job.
2. A spill that fails half way has set `s.file` and not touched the count
   (`spool.go:63-66`), so the count is ahead of what a reader would get, against
   `spool.go:40`. `UploadGraph` never reads a spool after an error, which
   `PartialDocumentIsNotSent` shows.
3. `hasPath` returns false for a query that failed, as for no path
   (`with-extension/main.go:161-166`): the check that wants no path is an OK when
   its query fails, whatever the error says, and the program's three OKs, which
   `with-extension/main.go:7` says tell the two outcomes apart, come out with a
   schema that made every kind traversable. `AnsweredOksMeanTookEffect` is what
   does hold.

Two observations that are in the models and not among the findings. A redirect
that leads outside BloodHound, to a page that answers 200 to anything, makes an
`InstallExtension` or `DeleteExtension` succeed without an effect: neither looks
at the body, and `SuccessIsEffect` has to exempt it. And `ShortestPath` reports no
path as the server's 404, an `APIError`, so that a caller has to tell it from
other errors, as the example does.

## 4. What is proved

Every theorem is about its `Spec`, for all values of the constants that satisfy
the named assumptions of the module.

**SpoolCalls_proofs.** From `SpoolAssumption` (the threshold is an integer, the
default positive) and `CallsAssumption`. None of the properties is inductive by
itself: that a reader gets what was accepted needs to know, on disk, that the
offset is at the end of the file and the buffer is empty, as long as no write
failed. `IInv` is `TypeOK`, and one part for each of: memory (`InMemory`), disk
(`OnDisk`), counting, the threshold (`OnlyLargeSpill`) and closing. Theorems:
`TypeCorrect`, `ReaderCorrect`, `CountCorrect`, `ThresholdHonoured`,
`FileRemoved`, and `Refinement` (the spool implements `ByteLog`).

**Ingest_proofs.** For any set of callers, finite or not, without assumptions.
`IInv` relates each request and reply in flight, however old, to where its
caller is and which job it names. A pending start names no job, and its caller has
none yet; a pending upload, end or clean-up names its caller's own job; an end
that `Ingest` sent is pending only when that job is loaded (`PendingRequests`). A
positive reply tells the truth about the job it names (`PendingReplies`), and what
a call has got through has happened on the server (`Achieved`). Jobs have owners
(`OwnedJobs`) and exist when they are named (`KnownJobs`). Theorems:
`TypeCorrect`, `SuccessIsIngestion`, `CallsAreIndependent`, `OrphansAreEmpty`,
`NoSecondJob`, `NoEmptyIngestion`, `RequestsAreForJobs`, and `Refinement`
(`Ingest` implements `IngestJob`'s safety part, which is all of it).

**GraphValidate_proofs.** From `GraphAssumption` (the choices are graphs' nodes
and edges, and uppercasing maps ids to ids and does nothing the second time).
`IInv` says what each loop has found before its index (`Found`), that the map holds the
ids of the nodes passed (`Looked`), and where verdicts may be held (`Control`).
`NodeStep`, `EdgeStep` and `KindStep` show that a loop's body adds exactly the
faults of one more element. Theorems: `TypeCorrect`, `ReportComplete`,
`AcceptedResolves`, `UppercaseSafe`, and `StoredWhole`, which has an invariant of
its own: every element held is the one given or what uppercasing makes of it
(`Held`), and the latter once `UppercaseIDs` has run over all of them (`Settled`).
An id uppercased twice, with elements added between, is where idempotence counts.

**ClientCalls_proofs.** From `ClientAssumption` (paths are sequences of
segments, a toggled choice of flags is a choice of flags, and the calls are those
the module knows): any callers, calls, redirects and toggles. What a call
returned is fixed when it receives a reply, so `IInv` speaks of what is still on
the wire. A request, wherever a redirect has led it, carries the signature of
what its caller meant (`Signed`, from which `AuthenticIsMeant` follows because a
signature is of one request only); a reply tells the flags of some moment of its
caller's call, and a success of BloodHound's an effect in it (`Truthful`); and a
caller has nothing on the wire before it sent (`Unsent`), since `since` starts
there. Theorems: `TypeCorrect`, `SignedIsMeant`, `AnswersAreFresh`,
`EffectsAreReal`.

**Document_proofs.** About everything that streams a document: `GraphWriter`
under `PayloadFile`, under `Upload`, and under `IngestUpload`. The assumptions say
that the texts of a document are made of the letters the module speaks of
(`WritesIn`), that paths are sequences of segments, and that the clock's bounds
are numbers; the graphs, the elements they hold, the threshold and the hour are
arbitrary.

- *The document.* `Document` flattens the texts of `WriteTo`'s calls with a fold,
  which is a recursive function. Such a function is the one its equation describes
  only if there is one, and that is shown by induction (`Induction`, from the fact
  that the naturals are well founded, and `JoinExists`). From it come what the
  first `k` calls write (`WrittenStep`) and that it is a beginning of the document
  (`WrittenBegins`).
- *PayloadFile.* `DoneMeansWhole` is about the end; `FileInv` says of each step
  before it that the file holds what was counted and, until something fails, what
  the calls so far wrote. Theorem: `PayloadIsWhole`.
- *Upload.* `SpoolAndSignerAgree` is nearly inductive, once it also says where the
  file's offset is (`Spooling`). The rest speaks of what the server received,
  which is decided long after: `Handed` keeps that the transport reads the whole
  document and has sent as much of it as the offset says, whether the bytes come
  from memory or from a file that may be closed under it; `RequestMade` that the
  header was signed over that same document. Theorems: `TypeCorrect`,
  `SpoolAndSignerInStep`, `SuccessIsDelivery`, `SignatureCovers`,
  `ContentLengthCorrect`, `OnlyWholeDocumentsSent`, `FileRemoved`, and
  `StepsAreBounded`: each step of the call lowers `StepsToGo`, which no step of the
  transport, the server or the clock touches.
  `SignatureCovers` assumes `BasePath = <<>>`, a base URL without a path: for one
  with a path it is false, which is finding 1.
- *IngestUpload.* Every step of it is a step of `Upload` or none, so `Upload`'s
  invariant holds of it. `JobInv` adds what the job, the id and the calls and
  answers on their way have to do with each other; then every step maps to one of
  `IngestJob` or to a stutter (`IngestStepMaps`). Theorem: `IngestKeepsItsPromise`.

**ExtensionValidate_proofs.** From `ExtensionAssumption` (the keys are listed once
each; an extension is what Go's types make it). `sortedKeys` lists the keys of a
kind that `InOrder`, a recursive function over `Keys`, gives it; that it lists each
once and in order is shown by induction as above. `IInv` says what the loops
remember (`NamesSeen`, `Displays`; `Current` and `TakenOnce` for the sections of
the kind that is being looked at) and that what is reported is what is wrong with
what they have passed (`Reported`). A shared position is reported once for every
section but the first to have it, so the proof tells the first section of a
position from the others (`FirstAt`). Theorems: `TypeCorrect`,
`ReportComplete`, and `AcceptedMeetsRules`. The last one follows from
`ReportsEveryProblem`, both ways, once each fault is shown to be a broken rule:
the rules are stated of the schema alone (a name is the namespace, an underscore
and a rest that is not blank; no two kinds have one name), and the faults by place
in a list and order of keys. Rules `Validate` leaves to BloodHound, such as which
functions a template may call, are not among them.

**Workflow_proofs.** From `WorkflowAssumption` (the bounds are numbers). The
property speaks of three checks that were made one after another while the flag
may have been toggled any number of times. A check tells how the flag stood when
it was made, and that is over when the next one is. `IInv` keeps what outlives it:
a first OK fixes the flag as a function of the toggles since (`First`), a second
one at the same count rules the third kind out (`Second`), and a third
cannot be one toggle after the first (`Third`). Theorems: `OksProveEffect`, and
`StepsAreBounded` (the same of the program and its wait, from
`polls \in 0..MaxPolls`).

Only model-checked: the liveness properties `Returns`, `EveryCallReturns` (of
`Ingest` and of `ClientCalls`) and `Terminates`, since liveness under fairness is
beyond the prover: the two `StepsAreBounded` say that there is no endless run of
steps, and leave to TLC that there always is a next one. Every other property of a
passing run is a theorem.

## 5. What is not modelled

- JSON text, base64, the digits of SHA-256: taken as injective. `Sign` chains
  the method and the path without a separator between them; methods and paths
  are separate values here.
- Headers other than the signature, the date and the length.
- The text of errors, and so the advice `APIError.Error` adds to it from status and
  path (`client.go:124-134`). It is a guess ("usually"), and a wrong one of a
  repeated delete, or of a read below `/api/v2/extensions` with the flag on; the
  models neither use it nor show anything of it. `hasPath` of with-extension looks
  for "404" in that text (`main.go:162`), which decides only what it prints.
- Of net/http: how many redirects it follows (one is enough to change a
  request), which headers it strips when a redirect leads to another host, the
  replay of a request on a stale connection, and redirects of the upload, whose
  body is a file and is signed apart (`Upload` has no redirect).
- Redirects of StartJob and EndJob: `Ingest` and `IngestUpload` have none, and what
  they show of a success (`SuccessMeansIngested`, `ImplementsIngestJob`) is shown
  where nothing leads out of BloodHound. `send` takes any 2xx, so an EndJob that is
  redirected to a page that answers 200 to anything would be a success without an
  ended job, as `ClientCalls` has it of an install and a delete. A redirect within
  BloodHound is stopped by the signature (`SignatureMeansIntent`).
- In `Workflow`, edges become visible all at once, and the age of a signature is
  only in `Upload` and `IngestUpload`.
- In `PayloadFile`, what a close that follows a failed write may lose: a
  beginning of the document is left either way.
- `TraversableKinds`, which filters a list; text/template's parser; `JobStatus`'s
  and `ListExtensions`' decoding, which the code leaves to its caller.

## 6. Plan

Done, in this order: `Spool`, `SpoolCalls` with `ByteLog`, `Upload`, `Ingest`
with `IngestJob`, `GraphValidate`, `ExtensionValidate`, `GraphWriter`,
`ClientCalls`, `IngestUpload`, `Workflow`, `PayloadFile`; proofs for all of them.

Next, all proofs:

1. `StepsAreBounded` of a call of `Ingest` and of the loops of `ExtensionValidate`
   and `GraphValidate`, for graphs and schemas of any size.
2. That a clean-up after a failed `Ingest` leaves nothing open that the caller
   knows of, from `Ingest_proofs`' invariant.
3. That an upload which the server takes after its call has returned does not
   change what the call reported, as an action property of `Upload`.
