# Verification of the Tensorlake MCP server

TLA+ modules, TLC runs and TLAPS proofs for the service in `src/tensorlake`
(Go, Encore): an MCP server that gives an AI client a cloud sandbox (a shell,
files, document parsing) on behalf of a Tensorlake account, behind its own
OAuth 2.1 authorization server.

All references of the form `server.go:88` are to files of `src/tensorlake`.

## 1. Inventory

The service runs as several identical processes ("instances") over one
PostgreSQL database. The MCP endpoint is stateless (`encore_api.go:76`), so
each request may reach any instance. Whatever is kept in memory is kept by each
instance for itself and is lost when the instance is replaced.

| Part | State it keeps | Operations | Interacts with |
|---|---|---|---|
| Primary sandbox selection (`server.go:64-107`, `tool_sandbox.go`, `db.go`) | database: `primary_sandbox_id` of the account; per instance and account: `sandboxID`, `homeDir`, the mutexes `sandboxMu`, `homeMu` | `ensureSandbox`, `sandboxHomeDir`, `set_sandbox`, `list_sandboxes` | every tool calls it, most of them several times in one call |
| Command execution (`server.go:124-217`) | locals of `runCommand`; the remote process | start with retries, poll, kill at the deadline, collect output, exit code | Tensorlake's process API; calls `ensureSandbox` |
| Background commands (`tool_bash.go:81-144`) | per instance and account: `bgProcesses`, `bgCounter`, `bgMu` | `bash` with `run_in_background`, `bash_status`, the goroutine | runs `runCommand` |
| OAuth server (`oauth_*.go`, `db.go`, migration) | four tables: accounts, clients, codes, sessions | registration, consent, code exchange, refresh rotation | Tensorlake (checks the API key), the client's metadata document and key set |
| MCP endpoint (`encore_api.go`, `oauth_tool_auth.go`) | per instance: `tenantServers`, one server object per API key | `serveMCP`, `resolveTensorlakeAPIKey`, `serverForAPIKey` | looks access tokens up in the OAuth tables, dispatches to the tools |
| File tools (`tool_file_*.go`, `tool_upload.go`, `tool_grep.go`, `tool_glob.go`) | none of their own; the files of the sandbox | read, write, edit, upload, search | primary sandbox, command execution, file API |
| `parse` (`tool_parse.go`) | locals; an uploaded file and a parse job in Tensorlake | upload, parse, wait, write result, clean up | primary sandbox, document API |
| Client authentication (`oauth_client_auth.go`) | none | `verifyChatGPTClientAssertion`, `authenticateTokenClient` | key set and metadata document of the client |
| Pure helpers | none | `truncateOutput`, the line window of `file_read`, result limits of `grep`, `parseDataURI`, `internal/mimetype` | |
| Metadata documents, consent page, tool descriptions (`oauth_metadata.go`, `oauth_authorize.go`, `main.go`) | none | formatting | |

What is hard in it, and what makes each part correct:

* **Primary sandbox.** One call resolves the primary sandbox up to four times,
  with remote calls in between; other calls and other instances change it
  meanwhile; two caches with two mutexes must stay consistent with each other;
  `homeMu` is held across a remote command that itself calls `ensureSandbox`.
  Correct: the cached directory belongs to the cached sandbox; a call acts only
  on sandboxes that were selected since it began; every call returns.
* **Commands.** The remote calls fail or lose their answers; the deadline may
  fall between any two steps. Correct: a reported success is final; a command
  runs once; nothing is left running; the call returns.
* **Background commands.** Ids and results live in one instance's memory; status
  calls race with each other and with the goroutine. Correct: an answer is about
  the command that was asked for; a result is not forgotten before it was
  answered.
* **OAuth.** Handlers run SQL statements with no transaction around them, on all
  instances at once, and can stop between any two of them. Correct: codes and
  refresh tokens buy one pair each; one live pair per consent; tokens go to the
  client and open the account that the consent names; dead tokens stay dead.
* **Endpoint.** Tokens expire and are rotated while the request that presents
  them waits; first requests race for the server object of their key. Correct:
  one server object per key and instance; a request is served with the account
  of its own credential; a dead token is refused.
* **Client authentication.** The claims of an assertion are checked at one
  moment, its signature against the keys of a later one. Correct: what is
  accepted is genuine, cannot be repeated for long, and what is genuine is
  accepted.
* **File tools, parse.** Nothing holds a file between its read and its write; a
  call fails, or its answer is lost, half-way through `parse`. Correct: a call
  changes its file at most once, from a content it had since the call began; the
  answer says truly whether it did; what `parse` leaves behind has a cause.
* **Content.** The first bytes of a download are consumed to look at them;
  offsets and limits come unchecked from the client; the file grows between two
  pages. Correct: every byte arrives once; pages tile the file; an omission is
  told as what it is.

The full list of hazards, each with its line and the properties about it, is in
`PROJECT.json`.

## 2. Modules

| Module | What it is |
|---|---|
| `PrimarySandbox` | the tool calls of one account over the shared row and the caches of each instance |
| `PrimarySandboxProofs` | TLAPS: its type invariant and its safety invariants |
| `RunCommand` | one `runCommand` against the remote process API, and the answer of `bash` |
| `RunCommandProofs` | TLAPS: its type invariant and its safety invariants |
| `BashBackground` | the table of background commands and `bash_status`, on several instances |
| `BashBackgroundProofs` | TLAPS: its invariants |
| `Clients` | the client ids that the next three share |
| `OAuthServer` | the authorization server and its tables |
| `Consents` | abstract: the life of a consent; `OAuthServer` implements it |
| `OAuthServerProofs` | TLAPS: the invariants of `OAuthServer`, its action property, and that it implements `Consents` |
| `ClientAssertion` | how `/oauth/token` authenticates a client |
| `ClientAssertionProofs` | TLAPS: its invariants |
| `Gateway` | the MCP endpoint; extends `OAuthServer` |
| `GatewayProofs` | TLAPS: its invariants; extends `OAuthServerProofs` |
| `FileStore` | abstract: what the tools promise about files; `FileTools` implements it |
| `FileTools` | `file_edit`, `file_write`, `upload` and `parse` on the files of a sandbox |
| `FileToolsProofs` | TLAPS: its invariants, its action property, and that it implements `FileStore` |
| `UploadSource` | where `upload` takes its content and its extension from |
| `Excerpts` | how much of a text `file_read`, `grep` and `bash` answer |
| `ContentProofs` | TLAPS: the invariants of `UploadSource` and of `Excerpts` |
| `MC...` | constants, symmetry and composition for TLC |

A definition whose comment begins with "Mutant" is a faulty variant of the one
after it. No specification uses these; they serve to show that the properties
can tell the code from a plausible mistake in it (`PROJECT.json`, "mutants").

### PrimarySandbox

State: `primary` is the column `primary_sandbox_id`; `sandboxID`, `homeDir` and
`homeMu` are the fields of the `server` object (`server.go:34-45`), one for each
instance; the other variables are the locals of a tool call, `pc` and `todo`
saying where it is. A tool is a sequence of phases, read off its function: for
example `parse` is resolve, read the file, upload and parse, ask for the home
directory, `mkdir`, write the file. One definition per tool names its function.

| Action | Code |
|---|---|
| `Begin` | a request is dispatched to the account's server object |
| `BeginHome` | `sandboxHomeDir`: take `homeMu`, answer from the cache (`server.go:88-93`) |
| `LoadPrimary` | the SELECT of `ensureSandbox` (`server.go:65-71`) |
| `StoreSandboxID` | its critical section of `sandboxMu` (`server.go:73-76`), the same as in `SetSandbox` |
| `ClearHomeDir` | its critical section of `homeMu` (`server.go:78-82`) |
| `CacheHomeDir` | the end of `sandboxHomeDir`, with the deferred unlock |
| `KeepSandbox`, `Execute`, `AccessFile` | the tool uses what it resolved |
| `PersistPrimary`, `SelectionDone` | `set_sandbox`: the UPDATE, and the return after the cache update |
| `MkdirFails` | the `mkdir` of `file_write` and `parse`, whose error is dropped |
| `Return`, `Abort` | the end of a call; `Abort` is every early return on an error |
| `Restart` | an instance is replaced |

`sandboxMu` needs no variable: its critical sections contain nothing that
blocks, so each is one step. `homeMu` is a variable because `sandboxHomeDir`
holds it across remote calls. What a command does in the sandbox is reduced to
which sandbox it runs in; `RunCommand` has the rest. A fresh account has no
selected sandbox, `NoSandbox`. Requests are assumed to be from one account:
accounts share nothing but the database, in different rows.

### RunCommand

State: the locals of `runCommand` (`pid`, the context's `expired`),
the processes that Tensorlake has started (`procs`), and the result. Every
remote call is a step with its outcomes: answered, refused before it took
effect, and, for the start, taken effect with the answer lost. `CallFails` is
any error after the start. `Expire` is the deadline of the context or the
caller's cancellation; it can fall between any two steps. The process ends, or
does not, on its own (`ProcessEnds`). The kill at the deadline uses a context
of its own (`server.go:188`) and its outcome is ignored (`WaitExpired`,
`KillFails`). Bytes of output and lengths of time are left out; a negative
`timeout_sec` is a context that is done from the start.

### BashBackground

State: `bgCounter` and `bgProcesses` of each instance, the goroutine of each
job, the process id that the client was handed, and the status calls. Ids are
the numbers of `bg-1`, `bg-2`, .... `Launch` is the critical section of
`bashBackground`; `Lookup`, `Select`, `Delete` are the three steps of
`BashStatus`, with other calls between them. `Restart` empties an instance. An
answer is "at home" when the process that started the command gives it.

### OAuthServer

State: the four tables as sets of rows, a clock, and for each handler its form
and its next statement. Secrets are `<<kind, n>>` for the n-th draw: 24 or 32
random bytes do not repeat, and a client presents only secrets that were
answered (`known`). SHA-256 is taken to be injective. One SQL statement is one
step; a DELETE or UPDATE with its WHERE clause is atomic, because PostgreSQL
evaluates the clause again after it waited for a row lock. `Fail` ends a handler
between any two statements: an error, a lost answer or a replaced instance.
`grants` and `pairs` are history: which consent a code stands for, and which
code or refresh token was given for a pair.

Requests that are refused before their first statement change nothing and are
left out. The check of the client assertion at `/oauth/token` is reduced to
"the client id exists"; the syntax of URIs is in the choice of the sets.

`Consents` is what a user means by a consent: it is given, redeemed once, issued
one pair of tokens, and from then on one pair follows another, or it lapses. The
refinement mapping reads the stage of a consent off the tables and the handlers
(`Stage`, `Lives` in `OAuthServer`); `ConsentsLive` says that every step of the
server is a step of such a life for every consent, or none.

### ClientAssertion

State: the published key set, the clock, and for each token request the next
step and what it presents (`posted`). `Present` is what is decided before any fetch,
`LoadClient` the fetch of the client, `CheckClaims` the comparison with the
clock, `VerifySignature` the fetch of the keys with the choice of one and the
verification. `PassTime` and `ReplaceKeys` fall between any two of them. RSA is
taken as ideal; whether a metadata document is acceptable
(`loadChatGPTCIMDClient`) is one outcome of its fetch (`FetchFails`).

### Gateway

State: `tenantServers` of each instance, and for each request its credential,
the key it was resolved to and the server object it was dispatched to, over the
variables of `OAuthServer`. `Dispatch` is `serverForAPIKey` with its critical
section of `tenantMu`; `Replace` empties an instance. What the server object
then does is in the modules of the tools: it is the `server` of
`PrimarySandbox` and `BashBackground`.

### FileTools and FileStore

State: the files of one sandbox, the next step, the text and the answer of each
call, and of each `parse` the document and the job that it has in Tensorlake.
A text is a sequence of tokens and `old_string` is one token or empty, which is
enough for no, one and several occurrences, for gaps, and for a replacement that
contains what it replaces. Each remote call is answered, fails (`CallFails`), or
takes effect with its answer lost; `Crash` takes a call away between any two.
The sandbox of a call is chosen in `PrimarySandbox`.

`FileStore` is the promise: a call changes its target at most once, between its
beginning and its end, to what its request makes of a content that the source
had in that time. Two edits that overlap may overwrite each other, two that
follow each other may not. `Outcomes` states what a request may make of a
content independently of `Edits`.

### UploadSource

State: a source, how far reading it is, and what was received of it as a
sequence of intervals of its bytes. `Download` is `downloadFile` up to the name,
`Peek` the one Read of `DetectExtensionFromContentType`, `ParseDataURI` the
data URIs. A body is a format and a size: `Detected` says what
`DetectFromContent` makes of its first n bytes. Base64 text is the alphabet it
needs and its numbers of digits and padding characters. The table of
`contenttype.go` is the constant `MediaExt`; the three formats of Office are one.

### Excerpts

State: a text, what a client asked of it and what it was shown. `Window` is the
slice of `readText` with Go's wrapping integers, and a slice out of order is the
state "panic"; `ReadMore` is the client that follows the note under a page,
while `AppendLines` lets the file grow. `Bash` and `Grep` answer the text as the
output of a command, after `truncateOutput`. Bytes are counted as lines there.

## 3. Runs

| Run | Expected | Properties | Instance |
|---|---|---|---|
| `primary_safety` | pass | `TypeOK`, `HomeCacheCoherent`, `ActsOnSelectedSandbox` | 2 instances, 3 calls (two on one instance), 2 sandboxes; grep, file_read, set_sandbox |
| `primary_returns` | pass | `EveryCallReturns` | 1 instance, 2 calls, the tools that resolve the sandbox first |
| `home_dir_resolves` | violation | `HomeDirResolves` | 1 call of grep |
| `home_of_selected` | violation | `HomeOfSelectedSandbox` | 2 instances, a call on each |
| `command` | pass | `TypeOK`, `SuccessIsFinal`, `OrphansHaveACause`, `StartedOnceUnlessLost`, `Returns` | 1 command, 2 lost answers |
| `started_once` | violation | `RetryEndsWithAcceptance` | 1 command, 1 lost answer |
| `background` | pass | `TypeOK`, `ResultKept`, `AnswersOwnCommandAtHome`, `UnknownAtHomeOnlyAfterResult` | 2 instances, 1 restart, 2 jobs, 2 status calls |
| `own_command` | violation | `AnswersOwnCommand` | 2 instances, 2 jobs, 2 status calls |
| `oauth_grants` | pass | `TypeOK`, `SpentOnce`, `OneLivePair`, `TokensBelongToGrant`, `UnspentPairKeepsSession`, `DeadStaysDead`, `ConsentsLive` | 2 handlers, 2 users, 1 client, 4 draws, 2 ticks |
| `oauth_binding` | pass | `BoundToConsent`; `AssertionTypeOK`, `AcceptedIsGenuine`, `RepeatedWithinLifetime`, `GenuineIsAccepted` of `ClientAssertion` | 1 handler, 2 clients, 2 URIs, 2 verifiers, a resource or none, 3 draws, no tick; 2 requests, 12 assertions, a malformed one and none, 3 key sets, 3 ticks |
| `file_tools` | pass | `TypeOK`, `AnswersAreTrue`, `NothingDeletedTooEarly`, `LeftoversHaveACause`, `KeepsFileStorePromise`, `EmptyOldStringKeepsText`; `ReceivedWhole`, `ExtensionFits`; `PanicsHaveACause`, `PagesCoverFile`, `OmissionsAreTold` | 3 calls of 8 requests, 2 files, 3 first contents; 10 formats, sizes 0 to 600 bytes, 11 sizes of a first Read; texts of 1 to 5 lines, ints of 5 bits |
| `gateway` | pass | `GatewayTypeOK`, `OneServerPerKey`, `ServesConsentingAccount`, `DeadTokenIsRefused` | 2 requests, 1 instance, 2 accounts, 3 server objects, 3 draws, 1 tick |

`oauth_binding` and `file_tools` each check modules that answer one question
together and share no variable. A behaviour of such a run exercises one of
them, chosen at its beginning (`part`), and the others stay at one initial
state: interleaving them would multiply the states and show nothing.

Why the bounds are enough:

* *PrimarySandbox.* The caches are per instance; two calls on one instance and a
  third on another give every pair of actors that share something. Two sandboxes
  are needed for a change, and with two a change back is possible as well. The
  safety run has one tool for each use of the caches (`grep` asks for the home
  directory, `file_read` pins a sandbox, `set_sandbox` selects one); the other
  tools combine the same phases. The proofs cover all tools and any number of
  everything.
* *RunCommand.* One command has one goroutine; two lost answers are one more
  than a single retry needs.
* *BashBackground.* A clash of ids needs two jobs, on two instances, or one after
  a restart or after the other was deleted; a race of status calls needs two.
* *OAuthServer.* Four draws are two consents with a pair each, or one consent
  with an exchange and two rotations. Two handlers are the racing requests. Two
  ticks let codes and access tokens expire (life 1) before refresh tokens do
  (life 2). In `oauth_binding` three draws are a code, a pair and the pair of a
  rotation, which either client may ask for; no time passes there, because no
  part of `BoundToConsent` depends on the clock, and expiry is in `oauth_grants`.
* *ClientAssertion.* The assertions are a good one and those that differ from it
  in one thing; both requests present the same, which is the case that relates
  them. The key sets have the key alone, behind one for another algorithm, and
  behind one that cannot be used. Three ticks go past the lifetime (2) and the
  leeway (1).
* *Gateway.* Two requests are the race for a server object, also of two
  accounts; three draws are a code, a pair, and the pair that replaces it while
  a request waits.
* *FileTools.* Two edits of a file, and a third call that puts or parses it
  between their steps; a parse whose output is another call's source. A file
  with two occurrences covers the ambiguous edit and the replacement of all.
* *UploadSource.* Every format with a size below, at and above its signature,
  and beyond one Read; every class of base64 text up to two groups of digits.
* *Excerpts.* Texts longer than the default limits (2 lines of a file, 3 of a
  grep), so that every page can be followed by another; offsets and limits at
  zero, around the length, and at both ends of an int. The sum of an offset and
  a limit wraps, as 64 bits do at 2^63.

Deadlock is checked in the runs of `OAuthServer`, `ClientAssertion`, `Gateway`
and `BashBackground`, where something can always happen. A finished command
stops (`RunCommand`), in `PrimarySandbox` requests need not arrive, and calls of
`file_tools` come to an end.

Fairness, used by the liveness runs only: a goroutine that can run does run, and
a remote call ends in an answer or an error: weak fairness of a call's steps.
Go's mutex is handed to a goroutine that has waited for a millisecond
("starvation mode"), so taking a mutex that is free again and again is strongly
fair (`BeginHome`, `ClearHomeDir`). The context's timer fires: weak fairness of
`Expire`. Nothing is assumed of processes in the sandbox, of clients or of
restarts.

## 4. Disagreements between the code and what is said about it

Each is a run that must find a violation; the quotations are in `PROJECT.json`.

* `home_dir_resolves`: the first `grep` or `glob` on an instance (or an upload or
  parse after a selection elsewhere) waits for a mutex it holds itself, because
  `sandboxHomeDir`, through `runCommand`, calls `ensureSandbox`, which locks
  `homeMu` again when the cached id changes. `EveryCallReturns` therefore holds
  only where the id was stored before `homeMu` is taken.
* `home_of_selected`: the cached directory hides a selection made elsewhere.
* `started_once`: a start that was accepted and whose answer was lost is repeated.
* `own_command`: process ids mean something in one process of the service only.
  A status call that reaches another instance is answered with the output of the
  command that has this id there, and deletes its entry. (That it may also answer
  "running" about that command is no violation: the client cannot tell.)

Seen in the code while modelling, without a run of its own, because it takes one
step or because a run above shows the same cause:

* `file_write` and `parse` resolve the primary sandbox once for the file and once
  more for `mkdir` (`tool_file_write.go:36,43`): a selection in between makes the
  parent directory in another sandbox. `ActsOnSelectedSandbox` says that both were
  selected during the call.
* A process without an exit code is reported with exit code 0 (`server.go:211`).
* `bash` answers every error as a time-out, without its text (`tool_bash.go:66`).
* Nothing enforces the documented maximum of `timeout_sec` (`main.go:164`).
* A status call at another instance than the job's is answered "unknown
  process_id" when that instance has not used the id yet (`tool_bash.go:127`).
* A process whose status query fails is not killed (`server.go:176`); it is the
  one orphan that `OrphansHaveACause` allows without a lost answer.
* `file_edit` with an empty `old_string` is said to create a file: "Only works if
  the file does not exist" (`main.go:223`). Three calls do more. With
  `replace_all`, the empty string is found in every gap of a file that is there,
  `new_string` is put into each, and the file is written
  (`tool_file_edit.go:54-68`). A file that is there and empty is edited also
  without `replace_all`. And any error of the read, also of a file that is there,
  makes the tool overwrite it (`tool_file_edit.go:45`). What remains true is in
  `EmptyOldStringKeepsText`: unless the read failed, `new_string` alone is
  written only if the file was absent or empty, and otherwise, with
  `replace_all`, the whole text with `new_string` in its gaps.
* Edits of a file that overlap overwrite each other, and both are answered with
  success: `FileStore` promises no more.
* Two documents with the same name up to the extension are parsed into the same
  default output (`tool_parse.go:119`), the second over the first.
* An error after the upload leaves the document, and the job, in Tensorlake
  (`tool_parse.go:98`); only after a success does a leftover need a failed
  deletion (`LeftoversHaveACause`).
* A negative `offset`, `limit` or `head_limit`, or an `offset` and a `limit`
  whose sum is no int, makes a slice panic (`tool_file_read.go:92`,
  `tool_grep.go:109`). `PanicsHaveACause` shows that nothing else does.
* A grep of exactly `head_limit` lines is answered with the note that it was
  truncated when its output ends in a newline, for the empty piece after the
  newline counts (`tool_grep.go:106-108`); and after `truncateOutput` the number
  of lines in the note is that of the shortened output.
* The note of `truncateOutput` is longer than what it omits when that is a few
  bytes, and the cut can fall inside a UTF-8 character (`server.go:116-117`).
* "the first 512 bytes" (`detect.go:26`) are one Read, which may deliver fewer: a
  PNG then passes for text (`ExtensionFits` has the precise claim). The replaced
  body is never closed (`detect.go:57`).
* `DetectExtensionFromContentType` is said to return "an error if the extension
  is not found" (`detect.go:27`); it returns the empty extension and no error.
* A metadata document that lists `private_key_jwt` and not `none` is refused at
  every request (`oauth_metadata.go:286-295`), although the server advertises
  both methods (`oauth_metadata.go:160`, `encore_api_test.go:106-112`). In
  `ClientAssertion` it is among the causes of a failed fetch, so
  `GenuineIsAccepted` says nothing of such a client.
* `data:raw content` (`tool_upload.go:117`) loses everything up to its first
  comma, if it has one; percent-encoding in data URIs is not decoded.
* "legacy query parameters" (`encore_api.go:49`) are not read as credentials any
  more, only deleted (`encore_api.go:119`).

## 5. Proofs

TLC checks small instances; the proofs hold for every value of the constants
that the assumptions of the modules allow. Every invariant and action property
that a passing run checks is also a theorem, and so are the two refinements.

| Module | Theorems |
|---|---|
| `PrimarySandboxProofs` | `TypeCorrect`, `HomeCacheIsCoherent` (`HomeCacheCoherent`), `CallsActOnSelectedSandbox` (`ActsOnSelectedSandbox`), `OneResolver` |
| `RunCommandProofs` | `TypeCorrect`, `SuccessesAreFinal` (`SuccessIsFinal`), `StartedOnce` (`StartedOnceUnlessLost`), `OrphansAreAccountedFor` (`OrphansHaveACause`) |
| `BashBackgroundProofs` | `TypeCorrect`, `NoResultLost` (`ResultKept`), `OwnCommandAtHome` (`AnswersOwnCommandAtHome`), `KnownAtHome` (`UnknownAtHomeOnlyAfterResult`) |
| `OAuthServerProofs` | `TypeCorrect`, `SpendsOnce` (`SpentOnce`), `SessionsKept` (`UnspentPairKeepsSession`), `OnePairAtATime` (`OneLivePair`), `RightAccount` (`TokensBelongToGrant`), `TermsOfConsent` (`BoundToConsent`), `DeadForGood` (`DeadStaysDead`), `LivesOfConsents` (`ConsentsLive`) |
| `ClientAssertionProofs` | `TypeCorrect` (`AssertionTypeOK`), `OnlyGenuineAccepted` (`AcceptedIsGenuine`), `ReplayWindow` (`RepeatedWithinLifetime`), `GenuineNotRefused` (`GenuineIsAccepted`) |
| `GatewayProofs` | `GatewayTypeCorrect`, `OneObjectForAKey` (`OneServerPerKey`), `AccountsKeptApart` (`ServesConsentingAccount`), `NothingForDeadTokens` (`DeadTokenIsRefused`) |
| `FileToolsProofs` | `TypeCorrect`, `TrueAnswers` (`AnswersAreTrue`), `DeletesInTime` (`NothingDeletedTooEarly`), `LeavesOnlyByMishap` (`LeftoversHaveACause`), `CreatesOnly` (`EmptyOldStringKeepsText`), `ImplementsFileStore` (`KeepsFileStorePromise`) |
| `ContentProofs` | `PanicsOnlyOnRequest` (`PanicsHaveACause`), `PagesAreOneRead` (`PagesCoverFile`), `NotesTellOmissions` (`OmissionsAreTold`), `UploadsWhole` (`ReceivedWhole`), `ExtensionOfFormat` (`ExtensionFits`) |

Each proof has an inductive invariant, a lemma for each action (or group of
actions) that changes what the invariant is about, and theorems that follow with
`PTL`. What the invariants have to say beyond the properties:

*PrimarySandbox*, from `ConstantsAssumption`. `HomeCacheCoherent` is not
inductive: `CacheHomeDir` writes the directory of the sandbox the call resolved,
which has to be the cached one still. That is so because a call that changed the
cached id meanwhile is waiting in "clear" and is released only after the
directory was stored. `Inv` therefore has `MutexInv` (who is inside holds the
mutex), `ResolvesCachedSandbox` (a resolver's sandbox is the cached one, or
someone is about to clear), `PhaseInv` (the label of a call fits its phase) and
`SeenInv` (what a call holds was the primary sandbox since it began).

*RunCommand*, for any number of lost answers. `Inv` adds where the handler knows
a process (`PidInv`), that every start but the answered one has lost its answer
(`StartsCounted`), that a process seen ended stays ended while its output is
collected (`EndSeen`), that a result without an error is about an ended process
(`ResultInv`), and that the known process has ended unless a call failed
(`KnownEnds`). The count of orphans follows from `StartsCounted` and `KnownEnds`.

*BashBackground*, for any number of instances, jobs, status calls and restarts.
The properties hold because of three facts about the jobs whose goroutine or
result is still in memory (`Live`): an instance has given each of them its own
id, no greater than its counter (`HandlesInv`); what is in its map are such jobs
under their own ids (`EntriesInv`); and such a job is in the map until its result
was answered (`KeptInv`). `QueriesInv` carries this over the steps of a status
call: what it found is live and has the id it asked for, also when another call
has deleted the entry since, and because `Restart` ends the calls with the map.

*OAuthServer*, for any number of handlers, users, clients, draws and ticks.
`Inv` relates the tables, the handlers between two statements, and the history:
secrets yet to be drawn occur nowhere (`NewDraws`); a code row stands for one
consent, for which no pair was given, and a handler that has deleted a row holds
what was in it, alone (`CodesInv`); a session has the tokens of one pair, of the
consent's client and account, one session for each consent, and never a refresh
token that was spent (`SessionsInv`). `SpentOnce` and `UnspentPairKeepsSession`
are conjuncts of it; the other properties follow from it. For `BoundToConsent`,
the history records with each pair the client of the request that it was made
for, of an exchange or of a rotation. That it is the client of the consent after
a rotation needs the comparison in the UPDATE (`Rotatable`, `oauth_token.go:131`)
and that a session keeps the client of its pair (`SessionsInv`).

That `OAuthServer` implements `Consents` is proved without another invariant:
`StagesStep` shows which step each action is of the stage of each consent,
`TokensFade` and `NewPairOnly` that the tokens that are usable change only by
running out or with a new pair, and `LivesStep` puts them together. It needs
`CodeTTL > 0` (ten minutes, `oauth_authorize.go:159`): a code that has expired
when it is stored would take its consent from "none" to "lapsed" at once.

*ClientAssertion*, for any assertions, key sets and life times. Time passes and
keys are replaced between the steps of a request, so that nothing a step has
found need hold later. `Inv` keeps that it held at a moment of the request
(`HeldOnce`), or failed at one (`FailedOnce`), and under which published key set.
Assumption: a missing parameter (`Nothing`) is no client id and no algorithm.

*Gateway*, on top of `OAuthServer`, for any number of requests, instances and
objects. `GatewayInv` is the invariant of the tables, which the requests leave
alone, with `KnownInv` (a token a client can have belongs to a pair), `ServersInv`
(one object for a key in the map of an instance) and what a request holds at each
stage: `LookingUp` says that a token that was dead when its request came has no
row still, which is `DeadStaysDead` of the tables seen from the request, and
`Resolved` that its key is that of the consent. Assumption: `NoServer` is no
server object.

*FileTools*, for any requests, texts, files and number of calls. `OrderInv` says
which steps come after the write, `RemoteInv` which step fits which state of the
document and the job, and `SeenInv` that the text a call is about to write is one
of the `Outcomes` of its request for a content that its source had since it
began; the refinement of `FileStore` rests on it. That the result of a
replacement is a text at all is an induction over the length of the text: the
concatenation of the pieces is a recursive function, and `SetInduction`,
induction over the natural numbers for a set rather than for an operator, follows
from the well-foundedness of `<`. `CreatesOnly` needs more of it: `WovenNext` shows
by the same induction that replacing the empty string puts `new_string` before
every token (`Woven`), and `ReplacedGaps` that the result is the text with
`new_string` in every gap, as `EmptyOldStringKeepsText` says it, by position;
`MayCreate` carries the reason for a write from the read to the write.

*Excerpts*, for every text, offset, limit and width of an int. `TextInv` says
that the text a page was taken from is a beginning of the file, up to its last
line, which can grow; `NextPageInv` that the note under a page names an offset
inside the text. `WrappedInts` shows that a sum of two ints that is no int is
negative after it wraps, so that `WindowBounds` knows every slice out of order.
Assumptions: `MaxLines > 0` (an empty file is one empty line), a number of lines
plus the default limit, and twice a number of lines, are ints, and a note of an
omission is not itself a line.

*UploadSource*, for every source. `FirstReadInv` says what was received before
`ReadAll`, `ToldInv` from which bytes the extension was told.
`DecodersAcceptWellFormed` shows by arithmetic on groups of three bytes and four
digits that the four decoders together accept exactly the well-formed payloads.

Model-checked only: liveness (`EveryCallReturns`, `Returns`), for which there is
no prover here, and the properties of section 4, which are false. The
invariants of the proofs were checked by TLC on the instances of section 3, and
mutants of the models break the proofs too.

None of these modules uses a recursive operator; `SumSet` and `FlattenSeq` are
defined by recursive functions, which are shown to exist where they are used.

## 6. Not modelled, and what comes next

Next, in this order:

1. What `Replaced` makes of a text, for every text, with `SetInduction`: its
   length, and that without an occurrence it is the text itself.
2. That a wait for `homeMu` which does not end has the one cause that
   `home_dir_resolves` shows, as an invariant of `PrimarySandbox`.
3. For `Gateway`, the tools behind the server object: that a call acts under the
   key its request was resolved to.

Left out, and why:

* HTML, headers, metadata documents and tool descriptions: formatting, no state.
  The syntax of redirect URIs, scopes and resources is in the choice of the sets
  of `OAuthServer`.
* The command lines of `grep`, `glob` and `pdftotext`, and images: text that is
  composed and passed on.
* RSA and SHA-256 are taken as ideal, and random secrets do not repeat.
* The way of an answer to its client: `bash_status` deletes an entry before its
  answer is sent (`tool_bash.go:135`), and the code has no second way to the
  result, so that a lost answer is a lost result by construction.
* `CleanupSession` and `loadAccountByTenantID`, which nothing calls.
* Growth: the tables of codes and sessions and the map `tenantServers` only grow
  (nothing deletes an expired row or an unused server object, and a raw key need
  not be valid to get one), which no finite instance can show to be wrong.
