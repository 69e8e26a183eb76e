# Direct Attachment: specifications, model checks and proofs

Direct Attachment lets a web page's file input receive a photo taken with a
phone. The browser extension intercepts the click on the input and asks a small
Go server for a *session* (id, token, URL); the PC waits on a WebSocket while
the phone scans a QR code, opens the session's page and uploads an encrypted
photo; the server relays it to the WebSocket and forgets the session. Nothing is
stored: the server is two maps in memory, and everything hard about it is the
order in which requests, sockets and the clock touch them.

## 1. Inventory

| component | source | state | operations | hard part |
|---|---|---|---|---|
| session store | `server/internal/session` | `sessions` map under an RWMutex, TTL | `Create`, `Get`, `Delete`, `Cleanup` (every 30 s) | `Get` judges a copy after unlocking and may delete |
| transfer hub | `server/internal/transfer` | `receivers` map under `Hub.mu`; one `receiver.mu` per connection | `Register` (replaces), `Unregister`, `Deliver` (3 frames), `HandleConn` | two mutexes, eviction during delivery, a close without a mutex |
| HTTP API | `server/internal/api`, `httpx` | none of its own | create, cancel, WebSocket, upload, phone page | checks a session first and acts on it much later |
| process | `server/cmd/server` | listener, cleanup goroutine | start, shut down | hijacked sockets are not waited for; no body timeout |
| upload names, configuration | `internal/upload`, `internal/config` | none | normalise a name; read the environment | numeric limits that must agree |
| phone page | `server/web/app.js` | selected file, camera stream, cropper | camera, capture, crop, choose, send | awaits between reads of the shared variables |
| content script | `extension/content` | current input, `transfer.ws`, `transfer.currentSession`, the overlay, `allowNative` | intercept a click, create a session, show the QR code, receive, attach | callbacks of several flows share one set of variables |
| background worker | `extension/background.js` | `injectingTabs`, badges | activate a tab, follow navigations | navigation during an injection, worker restart |
| vendored, packaging | `extension/lib`, `cropper.min.js`, `scripts`, `Dockerfile` | - | - | not part of the program's logic |

How they interact: the content script calls the server with `fetch`
(`POST /api/sessions`, `DELETE /api/sessions/{id}`) and a WebSocket
(`/ws/transfer`); the phone with `GET /s/{id}` and `POST /api/upload/{id}`. In
the server, each request is a goroutine that calls the store and the hub; a
WebSocket leaves a second goroutine behind, its read loop. In the content
script, the modules call each other directly, and promises and socket events
call back into closures created by earlier clicks.

What makes each correct:

* store: a session leaves it only by expiry, cancel or delivery; once it was
  reported ended it never comes back; expired ones are eventually removed.
* hub: a socket carries whole deliveries, the registry holds exactly the open
  sockets, no close cuts a delivery, no goroutine waits for ever.
* API: an answer tells what happened; a photo stays within its session.
* content script: the overlay follows the current input, its QR code is of the session
  that a cancel would end, a photo goes into the input whose click asked for it.
* phone page: every panel belongs to the photo it shows, there is always a way on,
  the camera runs only while it is shown, one upload runs at a time and ends.
* background: one listener per document, few injections, no tab deaf to the icon, and
  a badge that is true, which it is not always.

## 2. Modules

| module | models | extends |
|---|---|---|
| `RelayActors` | the requests: uploads, cancels, connections, page requests | - |
| `SessionStore` | `store.go`, `session.go` and the clock | `RelayActors` |
| `TransferHub` | `hub.go` and the sockets | `RelayActors` |
| `Relay` | the handlers and `HandleConn` over both | `SessionStore`, `TransferHub` |
| `RelayProperties` | safety, action and liveness properties | `Relay` |
| `RelayInvariants` | the inductive invariant | `RelayProperties` |
| `RelayProofs` | theorems | `RelayInvariants`, `TLAPS` |
| `Pairing` | the abstract promise of the relay | - |
| `RelayPairing` | the refinement mapping from `Relay` to `Pairing` | `RelayProperties` |
| `RelayPairingProofs` | theorem: the relay implements `Pairing` | `RelayProofs`, `RelayPairing` |
| `MCRelay` | symmetry sets for TLC | `RelayInvariants`, `RelayPairing` |
| `ExtensionFlow` | the content script, its properties and inductive invariant | - |
| `ExtensionFlowProofs` | theorems | `ExtensionFlow`, `TLAPS` |
| `MCExtensionFlow` | symmetry set for TLC | `ExtensionFlow` |
| `SizeLimits` | the page's and the server's limits, in int64 | - |
| `SizeLimitsProofs` | theorems on the limits | `SizeLimits`, `TLAPS` |
| `MobilePage` | the phone's page (`app.js`), its properties and inductive invariant | `SizeLimits` |
| `MobilePageProofs` | theorems | `MobilePage`, `SizeLimitsProofs` |
| `MCMobilePage` | sizes at the limits for TLC | `MobilePage` |
| `Activation` | the background worker, its properties and inductive invariant | - |
| `ActivationProofs` | theorems | `Activation`, `FiniteSetTheorems`, `TLAPS` |
| `MCActivation` | a small instance for TLC | `Activation` |

### The relay

**Grain.** One step is what other goroutines cannot split: a critical section of
`Store.mu` or `Hub.mu`, taking `receiver.mu`, one WebSocket write, one read.
`Store.Get` is a read (`Arrive`), a verdict on the copy (`Refuse`,
`FindExpired`, `Admitted`) and the lazy deletion (`DropExpired`). `Register` and
`Unregister` are one step when there is nobody to evict; otherwise they take
`Hub.mu` (`RegisterLocks`, `UnregisterLocks`), wait for `receiver.mu` of the
evicted receiver with `Hub.mu` held, then close and release
(`RegisterReplaces`, `UnregisterCloses`). `Deliver` takes `Hub.mu` only to look
up, then `receiver.mu` for its three writes, each of which may fail.

**State.**

| variable | code |
|---|---|
| `sessions`, `expiresAt`, `now` | `Store.sessions`, `Session.ExpiresAt`, `time.Now()` |
| `call[p]` | a request's id and token, and what `Get` read |
| `hubLock`, `recvLock` | holders of `Hub.mu` and of each `receiver.mu` |
| `receivers`, `sock`, `broken` | `Hub.receivers`, the server's end of each socket, the library's sticky write error |
| `wire` | frames written to each socket, in order |
| `target[u]` | the `r` of `Deliver` |
| `pc`, `answer` | where the goroutine is, what the client was answered |
| `peer` | what the PC did: connected, sent `cancel`, left |

**Abstractions.** Ids and tokens are 16 random bytes each: an id is drawn once, and a
request's token is a Boolean, right or wrong. A photo is its upload's
name. A connection registers at most once, so a receiver is identified with it.
A frame counts as written when the call returned no error; a write to a PC that
left may succeed, even after the reader noticed (`Break`). Each request runs once; a
client that retries is another element of the set. CORS, logging, recovery from
panics and response bodies are left out, and so is the 500 of the phone's page when
`index.html` cannot be read: it is embedded in the binary. A failed handshake, and a body that is
malformed or too large, are nondeterministic. The ticker's time may be a little
older than the pass of `Cleanup` that uses it; that pass then removes less, and
the next one the rest.

**What it promises.** `Pairing` says the same from outside, with no locks,
handlers or frames: a session is drawn once, lives and ends for good; a request
that presents its token while it lives *holds* it from then on; a photo is given
whole, once, to a connection that holds the session of the upload; ok means that
it was given and the session ended, a refusal that nothing was given. `RelayPairing` reads
this state off the relay's (`LifeOf`, `HeldBy`, `Relayed`, `WordOf`), and
`KeepsPromise` says that every step of the relay is one abstract step or none.
That a request holds its session after the end is deliberate: it is
what the code does (`Store.Get` is the only check), and `SingleUse` and
`CancelReleasesReceiver` show what it costs.

### The content script

One action is one task of the page's event loop. `handleInput` ends in a promise
whose continuation is a microtask: `Mount` runs before any other task (`Idle`
guards them), but a page's script may click several inputs within one task, so
clicks are not guarded. A *flow* is one call of `handleInput`; it owns the
session, the socket and the key that its closures captured, while `ws`,
`session`, `currentInput` and the overlay exist once, as in the code. A socket
that the script closed before it opened fails (error, then close), as the
WebSocket standard says, and one that is open or closing may lose its connection
with an error too. `setState` after `renderReceived` writes to an element
that is no longer displayed: `SetState` leaves "received" alone. It rewrites the
status line only, so after an error the QR code stays (`qr`), whereas a code that the
library refused leaves its place empty. The server and the phone are reduced to what
the script can notice. It cannot notice the end of a session, so there is none
here: whoever scanned a code that was on show (`published`) may send to its socket
while that is open, any number of times, late or not, and what arrives is an image,
decrypts to none, or does not decrypt. In Firefox (`IsFirefox`) the
page may ignore the drop that `attach` dispatches, and the photo is gone.

### The phone's page

One action is one task of the page: a tap, or what follows one of its five kinds
of pending work: `getUserMedia` (`opening`), `takePhoto` (`taking`), the `toBlob`
of a capture (`drawing`) and of a crop (`rendering`), and `send` at its two awaits
(`sending`). Any of them may settle after the user went elsewhere, and acts on
the page as it is then. `shown` holds the panels that are not hidden: several may
be at once. The camera panel covers the page, the crop panel covers both, and the file
picker is modal (`CanTap`), so taps are limited to what the user can reach, and continuations
are not. `stream` is the page's variable, `live` the streams whose tracks run:
the two differ when a stream is forgotten. A photo is its size in bytes, which is
all `validate` and the server look at; `Choose` starts the change event only if
the file is not the one the input holds already. `done` and `overlapped` only
record the past: an upload was answered ok; the camera was opened while on or opening.

`SizeLimits` has the page's constant 15 MiB, the 40 bytes of nonce and tag, and the
handler's two limits as Go computes them; the framing of the multipart form is a
number of bytes that `Encrypted` chooses.

### The background worker

A *click* is one call of `activateTab`; `at` is the await it is in, `request` what
the browser has yet to run for it and `said` the answer on its way. Answers and events
reach the worker in any order, as the extension API promises none. `WorkerStops`
forgets `injectingTabs` and every await; what was asked of the browser still
happens, and nobody hears of it. A navigation may keep `activeTab` (same origin)
or lose it, may drop scripts that wait and may reset the badge by itself,
as browsers differ.

## 3. Model checking

| run | instance | shows | distinct states |
|---|---|---|---|
| `relay_races` | 1 session, 2 uploads, 1 cancel, 2 receivers, clock stopped | whole frames, exact registry, true answers, no resurrection, no close during a delivery, no circular wait for the mutexes | 1.85 M |
| `relay_isolation` | 2 sessions, 1 upload, 2 receivers, 1 page request, right and wrong tokens | nothing crosses sessions; the relay implements `Pairing` | 0.76 M |
| `relay_endings` | 1 session, TTL 1, clock to 2, and one of three crowds: 1 upload, 1 receiver, 1 cancel; 2 uploads, 1 receiver, 1 cancel; 1 upload, 2 receivers | the inductive invariant; sessions end for a cause, stay ended and are cleaned up; uploads and cancels are answered, dead receivers released; the relay implements `Pairing` | 82 k |
| `extension_flow` | 2 inputs, 3 flows, Firefox | the safety properties of the overlay and of the transfer, and their inductive invariant `ExtensionInv`; the spinner ends | 400 k |
| `mobile_page` | 2 streams, 2 pending captures, 2 pending crops, gallery files at and beyond the limit | panels, camera, send button, limits, and the inductive invariant `PageInv`; the sending message ends | 703 k |
| `activation` | 1 tab, 4 clicks, 2 restarts | listeners, injections, and the inductive invariant `ActivationInv`; tabs are released | 24 k |

Three runs of the relay and one each of the content script, the phone's page and the
background worker end in a counterexample, each to a sentence of the sources (the `findings` of `PROJECT.json`):

* `single_use`: two uploads of one session are both relayed and answered ok
  (`handlers.go:150`, "the session is single-use").
* `replaced_receiver`: the read loop of a replaced receiver closes its
  replacement (`ws.go:32`, "then unregisters it").
* `cancel_orphan`: a WebSocket admitted before a cancel registers after it
  (`handlers.go:36`, "releases a session and its receiver early").
* `send_stuck`: "Escolher outra" (`index.html:17`) during the encryption makes
  `send` throw outside its `try`; "Enviar" stays disabled for every later photo.
* `wrong_input`: a photo is attached to another input than the one whose click
  asked for it (`injector.js:1`, "the original `<input type="file">`"): two flows of one
  input both pass the identity check, and the first one's socket is forgotten open.
* `stale_badge`: the answer to an injection comes after the event of a navigation and
  sets ON again over a document without a listener (`background.js:67`, "A navigation
  replaces the document, so injected listeners and activeTab access no longer apply").

**Why these bounds.** The races of the relay are between two deliveries to one
receiver, two receivers of one session, an eviction and a delivery, and a delivery
and a cancel: two uploads, two receivers and one cancel have them all, and
every pair of handlers meets at every pair of steps. Expiry needs no
second upload, so the clock runs for a crowd of one request of each kind: with TTL 1
and a clock to 2, every request can straddle the deadline and the instant of the
deadline itself is visited. The liveness properties rule out a symmetry set, so
`relay_endings` spares them by limiting who arrives (`CrowdSpec` in `MCRelay`): the
larger crowds come when the clock has stopped, and only requests that are admitted belong
to them. With two uploads and a cancel, one upload waits for the `receiver.mu` of the other, and
the cancel waits for it with `Hub.mu` in hand, for which the other upload may wait in
turn; with two receivers, evictions and departures meet a delivery. The limit is on
arrivals, of which no fairness is assumed, so it takes nothing from the rest. A third request of a kind can only wait
longer; the safety properties do not rest on that argument anyway, as they are
proved for every instance. For the content script, three flows are an old one
whose answers are late, one that replaced it, and one more on another input:
the counterexample of `wrong_input` needs exactly that.
On the phone's page, every race is between two of its pending
continuations and a tap: two streams are one that is forgotten and one that is
kept, two pending captures or crops are a double tap, and the sizes are the
page's limit, one byte more, and forms at the slack and one byte more.
In the background worker the tabs share nothing but the worker's memory, where
each has its own entry, and its restarts, so one tab is checked with more
clicks: `LoadedOnce` counts one injection per restart, and with two
restarts three of the clicks inject at once and the fourth comes after them.
The numeric bounds are `MaxTime`, `MaxFlows`, `Streams`, `MaxPending`, `MaxClicks`
and `MaxRestarts`; `IntMax` is 2^30-1 for TLC, and any value in the theorems.

**Deadlock** is checked for the relay (`relay_races`, `relay_isolation`): the only state allowed to stop is the one
in which every request was served and the connections left wait in their read
for a PC that may never speak (`Quiet`).
It is off for `relay_endings`, where the crowd is served and nobody else comes, and
for the content script, the phone's page and the background worker,
where clicks are bounded or the user may stop.

**Fairness.** In the relay, time passes, the cleanup ticker runs and every
goroutine that can take a step eventually does: Go schedules them all, and
weak fairness is enough because a mutex that is held is released by a step that
is itself fair, and finitely many requests contend for it (Go's mutexes do not
starve a waiter either). Writes are finite because of the 30 s write deadline; a reader
learns that its PC left by the closed connection or by TCP keep-alive, which
Go's listener turns on. Nothing is assumed of clients: a request need not come,
a body need not end, a PC need not leave or cancel. In the content
script, microtasks run and the browser settles a fetch one way or the
other; nothing is assumed of the user, of sockets or of the phone. On the phone's
page the browser finishes reading the photo and settles the fetch; nothing is
assumed of the camera or the user. For the background worker the browser answers
`executeScript`, at the latest when the document was loaded or given up, and
delivers the answer to a worker that still waits.

Each property of a passing run is paired in `PROJECT.json` with a faulty variant
of one definition, written before that definition, which breaks it.

## 4. Proofs

`SizeLimitsProofs` proves, for every `MAX_FILE_SIZE` and every width of integers, that
a photo within the limit in a form of at most 984 bytes is never refused as
too large (`SlackIsEnough`), that 985 are too many (`SlackIsExact`; a file name of
some 250 bytes appears twice in the form and is enough), and that a
`MAX_FILE_SIZE` within 1024 of the largest int64, which `config.go` accepts,
refuses everything (`WrappedLimitRefusesAll`).

`RelayProofs` proves, for any finite or infinite sets of sessions and requests,
any positive TTL and any clock bound, from `ActorsAssumption` (the
kinds of requests are disjoint and the sentinels are none of them) and
`ClockAssumption` alone:

* `RelayInvariance`: `Spec => []RelayInv`, the inductive invariant;
* `TypeCorrectness`, `FramesAreWhole`, `RegistryIsExact`, `RelayStaysInSession`,
  `AnswersAreTrue`, `AnsweredSessionsStayGone`, `WaitsEnd`: the state properties;
* `DeliveriesAreNotClosed`, `SessionsEndForCause`: the action properties.

**Why an invariant is needed.** None of the properties is inductive. That frames
are not mixed rests on the mutex, that the mutex is exclusive rests on who is
where (`pc`), and that a delivery's receiver is the right one rests on what was
true when it was looked up. `RelayInv` has these parts, each with its own lemma:

1. `ArgumentsInv`: what a handler knows of its arguments at each step;
2. `LocksInv`: the holder of a mutex is at a step between its lock and unlock;
3. `RegistryInv`: `RegistryHoldsOpenReceivers` and what a connection is before it
   registers. Uses 1 and 2: an evicted receiver is the one found under the
   lock, because nobody else changes the map while `Hub.mu` is held;
4. `FramesInv`: `FramesWhole` and what the last frame on a socket is when its
   upload is between two writes. Uses 2;
5. `SessionsInv`: an id in the store or found there was drawn before, so it is
   never drawn again: a deletion is for good. Uses 1;
6. `RelayedInv`: an upload only ever touches the one receiver it looked up, which
   belongs to its session. Uses 1 and 3;
7. `HoldersInv`: a request is answered once, and nobody holds a session before
   asking for it; a receiver holds the session of the upload on its way
   to it, and an upload is written to the end once. Uses 1, 3 and 6, and only the
   refinement needs it.

`NoCloseDuringDelivery` needs 2 and 3 for the one close without a
mutex: `HandleConn`'s own `conn.Close()` runs after `Unregister(sessionID)`,
and by the invariant its socket is closed by then, so the step closes nothing.
`NoCircularWait` needs 2 and 3 as well: whoever holds a `receiver.mu` is at a
write, and whoever keeps `Hub.mu` has a receiver to evict whose holder, if any,
is. That such a wait then ends in time is liveness, and TLC's.

**The relay implements `Pairing`** (`RelayPairingProofs`, `RelayKeepsPromise`), from
`RelayInvariance`, by naming the abstract step of each step of the relay:

| relay | `Pairing` |
|---|---|
| `TimePasses` | `PassDeadlines` |
| `CreateSession` | `Draw` |
| `RunCleanup` | `Expire` |
| `Arrive` | `Present` where the session lives and the token is right, else none |
| `DropExpired` | `SayNo` that ends the overdue session |
| `Refuse`, `BodyRejected`, `FindNoReceiver`, `DeliveryFails`, `UpgradeFails` | `SayNo` |
| `WriteDone` | `Give` |
| `ServePage`, `Upgrade`, `DeleteSession` | `SayOk` |
| every other step | none |

Two of these say something: `DeleteSession` by an upload is `SayOk` only as its
photo was given (part 6), and `DeliveryFails`, after any number of frames, leaves
nothing given, because "done" is written last and unlocks (parts 6 and 7).

`ExtensionFlowProofs` proves, for any inputs, number of flows and browser, from
`FlowsAssumption` (`null` is no input): the inductive invariant
(`ExtensionInvariance`) and from it the overlay without a dead end (`NoDeadOverlay`), the
socket and the session of one flow (`CancelHitsOneFlow`), the QR code on show, in
whatever status, of the current input and of the session that a cancel would end or, under
an error, has ended (`QRCodeIsOwn`) and, as an action property, that an offer gives way
to a newer photo, a click or a reset only (`OfferIsKept`).
The properties hold up each other, and `ExtensionInv` adds `FlowsInv` to them: a flow
not yet started has no input, so it cannot be taken for the current one; a session is
cancelled, or held, only once its creation was answered, so a flow that starts has
none.

`ActivationProofs` proves, for any tabs, clicks and restarts, the listeners
(`ListensOnce`) and the bound on injections (`LoadsAreBounded`). A count of what has
run is not inductive, since what the browser has yet to run counts too:
`InjectionsInv` adds the injections that are due (`ToInject`), of which those that a
stopped worker forgot (`Forgotten`) are no more than the stops. That needs `OneWaiting`,
which is what `injectingTabs` is for, and `ClicksInv`: of a click there is either a
request or an answer under way, and it fits the await.

`MobilePageProofs` proves, for any gallery, any framings and any number of
streams and pending captures and crops, the panels (`PanelsAreTrue`, `SomethingToTap`), the camera
(`CameraIsSeen`) and the send button (`OneSendAtATime`). `PageInv` adds `OneStream` (until
the camera is opened twice at once, one stream runs or opens, and the page's variable
holds the one that runs) and `PendingInv` (`send` is at work on a photo that passed the
check). `PageLimitFits` joins the page and the limits: it states
`FittingPhotoAdmitted` under two conditions, `PageLimit <= MaxFileSize` and
`MaxFileSize + 1024 <= IntMax`. The default configuration meets both; `config.go`
enforces neither, and `WrappedLimitRefusesAll` shows what becomes of the second.

Each of these modules proves its type invariant too (`TypeCorrectness`,
`ExtensionTypes`, `WorkerTypes`, `PageTypes`).

**Only model-checked.** Liveness: `UploadAnswered`, `CancelAnswered`,
`GoneReceiverReleased`, `ExpiredSessionRemoved`, `LoadingEnds`, `BusyEnds` and
`TabReleased`, because fairness and ENABLED are outside what the prover handles. Every
other property of a passing run is a theorem. The six counterexamples are TLC's. The fair
specifications imply `Spec`, so what is proved of `Spec` holds of both.

## 5. What is not modelled

* The middleware, response formatting, static files and `buildURL`: no state that
  handlers share.
* `upload.Prepare` and `sanitizeName`: the wording of file names, on which no
  decision rests.
* The server's shutdown: nothing is persisted, so nothing is there to recover; a
  deployment ends what is under way, and no source promises otherwise.
* The cipher, the QR and crop libraries, the CSS and the packaging: third-party or
  no logic.
* Of the content script, `findFileInput` (which, against the comment at
  `interceptor.js:6`, asks the target and not the event for the composed path,
  so that inputs in a shadow tree are not intercepted), texts and DOM construction.
* The content script, the relay and the phone's page in one instance: each sees
  the others only through answers and frames. Each module lets those come in every way
  the others allow, and in more (the content script also takes any number of photos
  and late ones, as `single_use` and the uploads that outlive their session require), so a
  composition would only exclude behaviours. What it could add, the QR
  code shown before the receiver is registered, costs the phone a retry.

## 6. Plan

Done in this order: the relay and its races; its invariant and proofs; the content
script; the phone's page and the limits; the background worker; `Pairing` and
the refinement; the inductive invariants of every component and the theorems
of section 4. What is left, the most important first:

1. `PairingProofs`: what the promise implies by itself (a photo is given only between
   holders of one session, ok to an upload means given and ended, ended is final),
   so that a reader of `Pairing` need not trust its wording.
2. More of the content script's guarantees: what `attach` may do to an input whose
   flow is over, and when a session is left to expire on the server.
3. The hazards of `PROJECT.json` that no property covers: a property where one
   that the code keeps can be stated, a note where none can.
