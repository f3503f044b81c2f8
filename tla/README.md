# Verification of the desktop chat client

TLA+ models of the parts of the client in which order, failure and concurrency
decide whether it is correct, TLC runs that check them on small instances, and
TLAPS proofs that hold for every instance.  Source paths below are relative to
`src/src/`.

## 1. The system

A Qt/QML chat client.  The GUI thread runs the views, the view models, the use
cases, the repositories and the HTTP client; an XMPP thread runs `XmppManager`,
the uploads and the signaling of calls; cameras and WebRTC have threads of their
own; the answers of history fetches are handled on a thread pool.  Threads
exchange posted calls, `QFuture`s and queued signals.

| Part | State | Operations | Talks to | Hard behaviour | Correct means |
|---|---|---|---|---|---|
| Local storage (`core/storage/local_storage.cpp`) | blocks on disk; index, free stack, roots, directory id in memory | insert, update, remove, set and drop roots, open | every cache | a crash or failed write between two blocks; reuse of blocks | a record is replaced as a whole or not at all; no block has two owners; the index is the file |
| Saved login (`core/storage/auth_storage.cpp`) | index file, a snapshot per account, legacy snapshots | save, read with migration, update, clear | session, token refresh | a crash or failure between two files; late updates | requests are atomic; the index names an existing snapshot |
| Send queue (`message_repository_impl.cpp`, `send_message_usecase.cpp`, `upload_cancellation`) | queue, current entry, tasks, cancellations | send, send a batch, cancel one or all, reconnect | XMPP thread, view model | cancellation against continuation; missed wakeups; lost connection | first in first out, at most once, nothing after a confirmed cancel, everything finishes |
| File upload (`core/xmpp/file_upload_operation.cpp`, `xmpp_manager.cpp`) | operations, replies, timers, a batch | upload, batch, cancel, lose, destroy | send queue, HTTP, XMPP | five ends race for one promise | finished once, real results, in order, always |
| Message history (`message_history_cache.hpp`, `fetchMessageById()`) | cached page and live messages of a conversation; fetches | receive, fetch, store a page | local storage, server, view model | answers out of order; two roots written one after the other; records that cannot be read | a live message is not lost |
| Message list (`messaging_vm.cpp`, `message_usecase.cpp`, `MessagingBody.qml`) | rows, displayed and active conversation, fetch generation, uploads, the view's waiting flag | select, first and older pages, refresh, live and sent messages, progress, cancel, delete | history, send queue, view | answers of superseded fetches; refresh against paging; pages that move while they are read; late progress | scrolling up skips no message of the selected conversation; no wait without an answer |
| Conversation list (`conversations_repository_impl.cpp`, `conversations_vm.cpp`) | fetches, `m_queue` of failed ones, rows, cache | fetch, answer, retry | HTTP client, cache, network monitor | superseded and retried fetches | a fetch is neither lost nor doubled; rows are its answer |
| HTTP client (`core/network/network_client.cpp`, `retry_policy.hpp`) | attempts, timers | send, time out, retry | every repository | timeout against answer; retry of what was handled | one outcome for each request; a POST is never sent twice |
| Network monitor (`core/network/network_monitor.*`, `Main.qml`) | countdown, banner | tick, "Try Now", reachable | conversation list | a forced try during another | a forced try happens |
| Downloads (`core/network/http_download_service.cpp`, `media_repository_impl.cpp`, `messaging_vm.cpp`) | requests, two tables, rows | click, save dialog, reply events, cancel | HTTP, disk | an event loop inside a dialog; full disks | tables mirror each other; one writer for a path; rows do not wait for ever |
| Voice playback (`voice_message_controller.cpp`) | wanted and playing message | play, pause, stop | downloads | late downloads | only what was asked for sounds |
| Voice recording (`core/media`, `voice_message_controller.cpp`, `messaging_vm.cpp`) | recorder, encoder jobs, draft, waiting send | start, pause, resume, send, cancel, switch conversation | encoder, send queue | late permission, timers, encoder and uploads | only wanted, finished recordings are sent, once, to their conversation |
| XMPP connection (`core/xmpp/xmpp_manager.cpp`) | client, pending parameters, zero timer | connect, close | QXmpp | a request while a disconnection is under way; requests that are refused | the last request wins |
| Session and login (`features/authentication`, `app_controller.cpp`) | page, user, stored login, requests | check, refresh, log in, log out | XMPP, saved login, HTTP | overlapping logins and refreshes | the account shown is the one being connected |
| Calls (`features/voip`) | window, proposals, Jingle session, permissions | call, accept, decline, hang up; offers, answers, candidates | XMPP, WebRTC | posted commands crossing stanzas; late permissions | nothing runs, or is said to anybody, outside the call |
| WebRTC client (`core/webrtc/webrtc_client.cpp`) | peer connection, pending description, camera, audio module | prepare, offer, answer, close, switch devices | calls, devices | deletion against posted tasks | as for calls and devices |
| Media devices (`core/media/media_device_manager.cpp`, `qt_camera_capture.cpp`) | lists, selections, devices in use | plug, reload, select, apply | system, calls | devices vanish between two questions; three queues | the call follows the selection; nothing listens or looks unasked |
| Shell, logging, UI, remaining media wrappers | | | | | not modelled, see section 9 |

What can go wrong in each of them, with its line, is the list of hazards in
`PROJECT.json`.

## 2. The modules

| Module | What it is |
|---|---|
| `LocalStorage` | the block file, one action for each block or header write |
| `RecordStore` | abstract: records that change by whole requests |
| `AuthStorage` | the saved login, one action for each file touched |
| `SessionRegister` | abstract: one register with the session, or none |
| `SendQueue` | use case, queue, cancellation and the XMPP calls, one action for each posted event |
| `Outbox` | abstract: messages leave in order, at most once, or are given up |
| `FileUpload` | operations and batches on the XMPP thread |
| `MessageHistory` | cache, live messages and overlapping fetches of one conversation |
| `MessageList` | the view model of a conversation, the use case below it and the pagination of the view |
| `HttpRequests` | `NetworkClient` and `RetryPolicy`: attempts of a request |
| `Conversations` | extends `HttpRequests`: the list, its repository, the network monitor and its banner |
| `Downloads` | download service, registry, file rows and voice playback |
| `VoiceRecording` | recorder, encoder, draft and hand-over to the send queue |
| `Session` | pages, session check, logins, logout, and `XmppManager` behind the posted calls |
| `WebrtcClient` | the client of a call as a value, with its operations |
| `Calls` | extends `WebrtcClient`: `CallVM`, permissions, `JingleService` and the other parties |
| `MediaDevices` | system, manager, service, audio module and camera thread |
| `MC*` | the constants, symmetries and constraints of the TLC instances |
| `*Proofs` | inductive invariants and theorems |

How state and actions correspond to the code:

* **LocalStorage.**  `disk` is the file; `m_head`, `m_free`, `m_roots`,
  `m_dirId` and `m_nblocks` keep their names.  `op` is the request being carried
  out: which blocks are allocated and how many are written, last block first, as
  in `writeChain()`.  Between any two block writes the process may die, and each
  write may fail.  `open` rebuilds memory by the scan of `scan()`.  `m_free` is a
  multiset, so that an id freed twice would be seen.
* **AuthStorage.**  `index`, `snap` and `legacy` are files.  `op` walks through
  the steps of `writeSession()`, `clear()` and the migration in `read()`, one
  file at a time; each may fail or be the last one before a crash.
* **SendQueue.**  `events` is the queue of the GUI thread, in the order the
  events are posted.  `todo` is the rest of a loop of the use case; `phase` is
  where the current entry is, on either thread; `child` is the
  `UploadCancellation` of an upload; `revoked` are the canceled futures.
* **FileUpload.**  `stage` is where an operation is, `reply` its HTTP transfer,
  `finishes` how often its promise was finished.  `batch`, `started`, `heard`
  are the loop and the watcher of `fileUploads()`.
* **MessageHistory.**  `cachedPage` and `live` are the two roots; every read of one may
  fail and is then empty (`ReadSnapshot`), and once the file is `broken` all of them
  do.  A fetch keeps the copy of the cache it started with.  A page is a set with its
  last message beside it (`pageLast`, `cacheLast`, `answerLast`), because
  `ShouldUpdate` looks at the last message only, in the order of the server and of
  `toDomain()`, which need not be that of time.  `sentAt` and the page it induces are
  the server.  `alone` records that no two fetches have overlapped so far, and
  `forgotten` the live messages that were overwritten unread.
* **MessageList.**  `active`, `displayed`, `fetchId`, `loading`, `rows`, `page`,
  `total` and `uploads` are members of the view model, `pending` is the view's
  flag.  `requests` are the fetches under way, with the generation they captured;
  `core` is what the send queue has done with a message.  A row is a message or a
  token for the older messages in the server's answer for one page.  Pages are
  counted from the newest message, so that every message the server stores moves the
  others on (`count`); `asOf` is how many were stored when a page that is shown was
  read.  `crossed` and `resumed` mark the two situations of section 8.
* **HttpRequests, Conversations.**  `req` is what each request's attempt is
  doing; the server handles an attempt at some time after it was sent or never,
  and counts it.  `op` is the future of a fetch, with its canceled flag and its
  results, `queue` is `m_queue`, `watched` the future the view model watches and
  how many results it has seen, `monitor` the countdown.  Delays are in ticks;
  `DelayForRetry` doubles, casts to an `int` of `IntMax` and caps, in the order of
  the code.  `OtherSend` and `OtherAnswered` are requests that are not fetches (a
  POST is never retried).
* **Downloads.**  `net` holds the requests of the service and both tables of the
  repository.  A click, the choice in the save dialog and an event of a reply are
  one step each, because their signals are direct calls.  While `dialog` is open
  replies are handled and clicks are not; it keeps the URL of the click.  `wanted` is
  the voice message that the user asked for last, `closed` the one whose download was
  under way when the user closed the playback bar.
* **VoiceRecording.**  `state`, `session`, `request`, `discard`, `error`,
  `encodingFinal` are the recorder's members; `asks` and `timers` are the
  closures waiting to run, with the request they captured; `job` is the encoder's
  `m_job`.  `active`, `recipient`, `file` belong to the controller,
  `whenReady`, `sendError` to the view model, `latest` is the send whose revision
  is still current.  `madeFor`, `asked` and `withdrawn` are history for the
  properties.  Signals are direct calls, so a handler is part of the action that
  emits the signal.
* **Session.**  `page`, `user`, `store`, `check`, `logins` are the GUI thread's;
  `calls` is what it has posted to the XMPP thread; `client`, `pending` and
  `timer` are `XmppManager`'s.  A call whose parameters are
  in `Refused` leaves the client alone.  `wanted` is what the last handled call asked
  for, `overtaken` that one was handled in a gap described in section 8.
* **Calls.**  `vm` is `CallVM`; `prompts` are permission prompts with the request
  they captured; `toService` and `toGui` are the queues between the threads; `sig`
  is what `JingleService` and `JingleExtension` remember, and `with` the party of the
  started call, which they do not; `rtc` is the client.
  `open` is what the other parties may answer to.  `agreed`, `overlap` and
  `astray` (the kinds of stanzas that went to a party they were not about) are history
  for the properties; `overlap` is set when a second call
  meets one that is not over, also when the user calls while a proposal waits.
* **MediaDevices.**  `plugged` and `default` are the system, which changes at any
  time, also between the two questions of a reload (`ReloadList`,
  `ReloadSelection`).  `posts` and `tasks` are the queues of the signaling thread
  and of the camera.  `Applied` is the set of what `applyAudioDevice()` may
  leave, one element for each call of the audio module that can fail.

How they compose.  `Conversations` extends `HttpRequests` and `Calls` extends
`WebrtcClient`, so those pairs are checked together.  The others meet in a
promise: the queue's upload step assumes what `UploadSound` and `EveryUploadEnds`
say; `MessageList` takes from the queue the ends that `QueueSound` allows, and
from `HttpRequests` that a fetch ends (`EveryRequestEnds`: with three retries no delay
outgrows an `int`); `VoiceRecording` ends
where `sendVoice()` hands its file to the queue; `MessageHistory` assumes that a
root is replaced as a whole, which `ImplementsRecordStore` shows; `Session` uses
the saved login as the register that `ImplementsSessionRegister` shows it to be.
`Calls` and `MediaDevices` look at the same client from two sides: the first at
what is negotiated, the second at what it records and plays.

## 3. What the runs check

| Run | Shows | Distinct states |
|---|---|---|
| `local_storage` | `Integrity`: blocks are owned once, chains on disk are intact at every instant, the index is the file, there is one directory; `NothingLeaks`: only a failed write loses blocks, and only until the file is opened again; `ImplementsRecordStore` | 210 000 |
| `auth_storage` | `LoginConsistent`: the index names a snapshot that exists; `ImplementsSessionRegister`: save, update, clear and migration are atomic | 18 000 |
| `send_queue` | `QueueSound`: no lost wakeup, an exact table of uploads, truthful results; `ImplementsOutbox`; `EverythingSettles` | 124 000 |
| `file_upload` | `UploadSound`: finished once, with its transport, real results, a batch in order; `EveryUploadEnds` while timers run; `CancelIsPrompt` without them | 10 000 |
| `message_history` | `CacheSound`: a live message stays until a stored page has held it, and is not erased while fetches do not overlap, but for a save that could not read it; `LeavesForPage`; `SkipIsSound`: an answer that is not stored brings nothing new | 918 000 |
| `voice_recording` | `SentAsMeant`: only finished recordings that were asked for are sent, once, to their conversation; `ScreenInv`: the composer's error and waiting flag are current; `BusyEnds` | 33 000 |
| `conversations` | `ListSound`: a fetch has exactly one continuation, a POST reaches the server once, the rows are the answer; `SupersededNeverSaved`; `EveryRequestEnds`, unless a retry's delay outgrew an `int` (section 8); `ForceTry` | 338 000 |
| `downloads` | `RegistryExact`: the two tables mirror each other and the rows; `OneWriter` for a path; `NeverPlaysUnasked`; `EveryDownloadEnds` | 576 000 |
| `session` | `LastCallWins`; `OnlineAsShown`: the main page's account is the one last asked for; `PendingServed` | 461 000 |
| `calls` | `NothingAstray`: no offer, answer, candidate or termination to a party it is not about, with one exception (section 8); `OnlyInCall`: neither camera nor connection outside a call; `QuietWhenClosed`; `DiesOnlyByCandidate` (section 8) | 2 870 000 |
| `message_list` | `ShowsTheSelected`; `PagesWhole`: pages are consecutive and none was read before the one it follows, so that no message is skipped; `WaitsAreAnswered`: nothing waits for an answer that will not come; `UploadsHonest` | 2 740 000 |
| `media_devices` | `SelectionCurrent`: a device that is there; `CallFollowsSelection`; `OnlyWhileAsked` | 1 810 000 |

Each of them takes less than three minutes with two workers.

## 4. Bounds

* Block file: four blocks, payloads of one and two blocks, a directory that grows
  by a block with its first root.  This is the least in which an update needs a
  new block while an old one is recycled, and the directory moves at the same time.
* Saved login: two accounts with two tokens, two legacy files.  A third account
  plays no role: an operation knows the active account and its own.
* Send queue: a text message and a batch of two, one lost connection.  Two uploads
  suffice for one to be queued behind another.  An attachment that is sent again
  under the same id is not in the run; the theorem `QueueAlwaysSound` covers it.
* Uploads: a single file and a batch of two, so that files of a batch end in both
  orders while another upload is independent of them.
* History: three messages, two fetches, a page of two, so that messages are pushed
  off the page and a page may end in either of its messages.
* Voice: two recordings, two conversations, two pieces of audio, so that a
  recording is resumed, and the end of an older one meets a newer one.
* Conversations: two requests at a time, one with two retries; a fetch can be
  superseded, queued and retried while another runs.  Delays of 500 ms and 5 s and
  the largest `int` are 1, 2 and 1 ticks: the second delay does not fit, so that the
  run has requests that are tried again and requests lost to the overflow of
  section 8.
* Downloads: two files, of which one may have the URL of the other or a bad one, two
  voice messages, one path, two requests: the dialog of the one file is open while
  the other ends, and a voice message is asked for while another is downloaded.  One
  of the voice messages is local until it has been uploaded.
* Session: two accounts and three posted calls, one more than a refresh posts.
  `b` may be entered without a password while the answer for `a` is on its way
  (`login_repository_impl.cpp:84`): the call for `a` then has no password and is
  refused, so that every step also meets a refused one.
* Calls: two other parties, two proposals, two sessions, two commands on their
  way: an old call meets a new one.  The parties are symmetric.
* Message list: two conversations, three fetches and requests, and one message in
  all, which is incoming, a text or a file.  The conversations have two full pages,
  and a third one once a message was stored: the least in which an older page can be
  skipped, and in which one is read before and the other after the pages moved.
* Media devices: two devices of a kind, one kind of audio and the camera.  Two changes
  of the system, so that a device can vanish between the two questions of a reload, and
  one posted call for each kind of device.  The theorems of section 6 have no such limit.

A bound can hide a behaviour, and two did until the proofs asked for it.  With two
commands on their way, the user never calls while a proposal is still queued
behind them, so that `overlap` was incomplete.  With two changes of the system, no
device is pulled out, put back and pulled out again: `CallFollowsSelection` once
said that audio without a device is off, which that sequence refutes (section 8).
Both were corrected in the model or the property and are now proved for every
bound.

`CHECK_DEADLOCK FALSE` is set where a component may come to rest: a queue is
empty, all uploads have ended, a bound is reached.  `downloads` and `session`
check for deadlock.

## 5. Fairness

* `SendQueue!FairSpec`: both event loops run; an upload ends after 120 s at the
  latest (`file_upload_operation.cpp`); QXmpp finishes every send and reconnects
  by itself.  The user and the loss of the connection are not fair.
* `FileUpload!PromptSpec`: the event loop handles what is posted.  Servers are
  never fair.  `EveryUploadEnds` also assumes the operations' own timers.
* `VoiceRecording!FairSpec`: zero timers fire, and the encoder ends because
  `M4aEncoder` starts a timer of a minute.  The permission question may stay
  unanswered, so nothing is promised of `Starting`.
* `Conversations`: the timers of `HttpRequests` (timeout and retry delay) and the
  tick of the monitor fire.  The server never has to answer.
* `Downloads`: a reply finishes (Qt aborts a transfer that does not move).  The
  user never has to choose in the dialog.
* `Session`: the XMPP thread handles its calls and its timer, and a client that is
  being closed gets disconnected.  Servers need not let anybody in.
* `MessageHistory`, `Calls`, `MessageList` and `MediaDevices` state no fairness: their
  questions are invariants, where a wait that nobody answers is a state
  (`WaitsAreAnswered`).  That every fetch of the history finishes follows from
  `EveryRequestEnds`: each branch of its closure finishes the promise.

## 6. Proofs

All are of the form `Spec => []P`, `Spec => [][A]_vars` or
`Spec => Abstract!Spec`, for every value of the constants that satisfies the named
assumption of the module.  Each rests on an inductive invariant:

* `LocalStorageProofs`, `IInv`: beside ownership and intact chains it describes
  the chain that is being written (`ChainInProgress`): which of its blocks are
  already on disk, that they are exactly what hangs on the next one, and that
  nothing points to them yet.  Without that, the write of the head could complete a
  broken chain, or drop a block.  `IntegrityHolds`, `NothingEverLeaks` and the
  refinement `RefinesRecordStore` follow: every record reads as what its head block
  says, so the write of one head block is the instant of the whole request.
* `AuthStorageProofs`, `AuthInv`: what an operation found in the index is still
  there when it touches its next file (`WriteSound`, `StepSound`), and a snapshot
  is filed under its own account.  From it follow `LoginAlwaysConsistent` and the
  refinement `RefinesSessionRegister`.  It assumes that the index can be read,
  as section 8 shows it must.
* `SendQueueProofs`, `IInv`: a message is in one place only (`OrderInv`), the
  continuation the current entry waits for is posted at most once and only in its
  phase (`EventInv`), and a sent upload was committed (`CancelInv`).  From it
  follow `QueueAlwaysSound` and the refinement `RefinesOutbox`.
* `TransferProofs` has two parts.  Uploads, `UploadInv`: the stage of a file says
  whether its promise is finished, whether its transfer runs and whether its file
  is open; the batch has heard of a file only after that file's end.
  `UploadAlwaysSound` follows.  Downloads, `DownloadsInv`: the two tables are
  inverse to each other, every running request has its own path and its row
  (`NetSound` in `FilesInv`), and the message whose download is awaited is the last
  one asked for (`VoiceInv`).  The nested event loop of the dialog is why the
  invariant has to speak of the file the dialog is open for.
  `RegistryAlwaysExact`, `AlwaysOneWriter` and `AlwaysAsked` follow.
* `MessageProofs` has two parts.  History, `HistoryInv`, `AloneInv` and `SkipInv`:
  while fetches do not overlap, the answer under way contains every acknowledged
  message that newer ones have not pushed off the page, and the cached page is the
  first page of an earlier moment; an answer whose newest message, in the last place,
  is not newer than the last cached one is then the same page.  `CacheAlwaysSound`,
  `AlwaysLeavesForPage` and `SkipAlwaysSound` follow.  Message list, `ListInv`: what a
  request carries is a page of its conversation (`RequestInv`), at most one older page
  is under way and it is the next (`OlderInv`), the rows are those of the selected
  conversation or are about to be replaced (`CleanInv`), and no row is shown in a state its message has left
  (`RowInv`, `UploadInv`).  `ReadInv` orders the answers shown and under way by the
  moment at which the server read them.  `AlwaysShowsTheSelected`, `PagesAlwaysWhole`,
  `WaitsAlwaysAnswered` and `UploadsAlwaysHonest` follow.  `RefreshIsReset` is about
  the loop of `applyFetchedMessages()` alone: whatever the rows were, its insertions,
  moves and removals end in the list that was asked for.  It is proved by looking
  at the least position at which the two would differ.
* `VoiceProofs` has two parts.  Recording, `VoiceInv`: the draft belongs to the open
  conversation and to the current request, a stopping recorder that keeps its
  recording was asked to send it, and only the final file of a take outlives its
  session.  The flag `m_sendVoiceWhenReady` alone would not be enough: it may be
  left over from a recording that had reported an error.  `AlwaysSentAsMeant` and
  `AlwaysScreenInv` follow.  Calls, `CallsInv`: one permission prompt at most is
  live (`PromptInv`), a started call has a client that is ready (`ReadyInv`), behind
  a closed window the end of its call is the last command or was obeyed
  (`ClosedInv`), the party a call is ended with is that of the call, or of an earlier
  one while its session-initiate has not come (`FlightInv`), and, outside `overlap`, all
  that is in flight between the threads and to the other party belongs to one call
  (`AloneInv`).  `NothingEverAstray`, `AlwaysOnlyInCall`, `AlwaysQuietWhenClosed` and
  `AlwaysDiesByCandidate` follow.
* `ConnectionProofs` has two parts.  Session, `SessionInv`: parameters wait only for
  a disconnection, a reconnection of QXmpp uses those of the last call and never
  meets a timer (`XmppInv`; after a refused call only what may wait for what is known,
  which is enough for the next call to replace it), and there is a user whenever the
  session check may still end in a main page (`GuiInv`).  `LastCallAlwaysWins` and
  `AlwaysOnlineAsShown` follow.  Conversations, `ConversationsInv`: a fetch that runs
  has a request under way or waits once in `m_queue` (`QueueInv`), and no fetch but
  the one that is watched can still bring a result (`WatchInv`).  `ListAlwaysSound`
  and the action property `SupersededAlwaysDropped` follow.
* `MediaDevicesProofs`, `DeviceInv`: outside a reload the list is the system's
  and the system's default is one of its devices (`ManagerInv`); a camera that was
  turned off has a stop in its queue with no start behind it, or wants no frames
  and has no start (`CameraInv`, `Ends`).  `SelectionAlwaysCurrent` and
  `AlwaysOnlyWhileAsked` follow.  `FollowInv` says the same of every queue between
  the selection and a device (`Settles`: the last element that matters says what is
  wanted); a handful of lemmas about `Settles`, for a queue that grows, is handled
  or is cut, serve them all.  `CallAlwaysFollows` follows.

## 7. Only model-checked

Every invariant, every action property and every refinement that a run checks is
also proved.  Liveness is beyond the prover and is checked by TLC only:
`EverythingSettles`, `EveryUploadEnds`, `CancelIsPrompt`,
`BusyEnds`, `EveryRequestEnds`, `ForceTry`, `EveryDownloadEnds`, `PendingServed`.
The three abstract specifications state no fairness, so the refinement theorems
are complete.

## 8. Known disagreements

Here the code does something other than what one of its comments, tests or
documents says, or than what its other parts rely on.  The models take these
steps.  Where a property would be false because of one, a variable marks it
(`alone`, `forgotten`, `overtaken`, `crossed`, `resumed`, `overlap`, `closed`, the
element "early" of `astray`) and the property is stated outside of it.

*Block file.*
* `local_storage.cpp:644`: a record that grows the file is written from its last
  block to its first.  A crash in between leaves a block below the new end that
  does not authenticate; `scan()` throws on it, and the file cannot be opened
  again (the comment at line 536 describes a scan that survives a crash).
* `:427`: a crash after the header of a new file is written and before the file is
  extended leaves a file that no later open accepts.
* `:784`: a record is gone before the directory that names it is saved; after a
  crash in between, the directory names a record that is not there.

*Saved login.*
* `auth_storage.cpp:168`: if the index cannot be read for a moment and cannot be
  written either, the undo of `writeSession()` deletes the snapshot of the active
  login, which a failed save should keep (`test_auth_storage.cpp:103`).  Set
  `UnreadableIndex = TRUE` in `AuthStorage.cfg` to see it.

*Send queue.*
* `send_message_usecase.cpp:134`: the continuation of a finished upload that was
  posted before the cancellation of its batch is heard still sends the message
  (`test_attachment_upload.cpp:117-130` expects none to be sent).

*History.*
* `message_repository_impl.cpp:203`: the late answer of an older fetch replaces a
  newer page and erases the message that page had acknowledged
  (`message_history_cache.hpp:12` says that live messages are kept).  `alone`
  excludes it.
* `message_history_cache.hpp:64`: a record that cannot be read is an empty list
  (`:106`, `message_cache.cpp:200-203`).  `saveMessage()` then writes the new message
  over all live messages that were there, acknowledged or not, which line 12 says are
  kept.  `forgotten` holds these messages.
* `message_repository_impl.cpp:199-201` compares the last messages of two lists.  The
  last one of the answer is whichever the server put there, after `toDomain()` has put
  the attachments of a batch in order (`message_payload_dto.hpp:353-375`); the use
  case sorts (`message_usecase.cpp`) and a test passes newest first
  (`test_message_fetch.cpp:75`).  An answer that does not end with its newest message
  may be skipped although it has something new; `SkipIsSound` is about those that do.

*Voice.*
* `m4a_encoder.cpp:83`: a preview that cannot be encoded does not stop the one of
  the previous pause, which is then shown without the audio recorded since
  (`core/media/README.md:32`, `m4a_encoder.cpp:89`).
* `core/media/README.md:111` says that failed uploads keep the recording for a
  retry; `sendVoice()` releases the composer at once, and nothing in it refers to
  the file any more.
* `voice_message_controller.cpp:390`: closing the playback bar stops what sounds but
  does not cancel the download it waits for, which will play when it is complete
  (`closed`).

*HTTP.*
* `retry_policy.hpp:77`: the doubled delay is cast to `int` before it is capped
  ("Total retries after the first attempt." in line 17, "Maximum allowed retry delay."
  in line 23).  The conversation list asks for 1000 retries
  (`conversations_repository_impl.cpp:70`); from retry number 23 (counted from zero)
  on, the delay no longer fits and the cast is undefined.  On x86 it gives the
  smallest `int`, and a negative delay is a timer that never fires: the fetch never
  ends.  The model takes this step (the state "lost"), and the run `conversations` has
  such a request; `EveryRequestEnds` says that it is the only way not to end.
* An error that the client maps to `UnknownNetworkError` while the monitor
  believes it is online leaves the failed fetch waiting for a retry signal that
  nobody sends.

*Connection and session.*
* `xmpp_manager.cpp:279`: between `disconnected()` and the zero timer, a close finds
  the client disconnected and returns; the timer then connects what was closed.
  The same gap exists before QXmpp's own reconnection.  `overtaken` marks it.
* `login_repository_impl.cpp:84`: the password is that of the newest request, also
  when the answer to an older one arrives; the connection then has the jid of the
  one and the password of the other.
* `xmpp_manager.cpp:103-123`: parameters that are refused leave the connection as it
  is.  After a session check that failed, which connects all the same (next point), a
  login whose JID is refused leaves the account of before online under the main page
  of the new one.  `LastCallWins` speaks of calls that were not refused, and
  `OnlineAsShown` of what was asked for.
* `session_usecase.cpp:24` connects although the session was found invalid.
* A logout whose files cannot be removed leaves the stored login, which the next
  start uses.

*Message list.*
* `messaging_vm.cpp:914`: the server's first page cuts the list while an older
  page, asked for against the cached one, is under way; a page may then be missing.
  If that older page was read before a message was stored and the first page after,
  the message that moved from the first to the older one is in neither (`crossed`).
* `messaging_vm.cpp:718`: older pages are asked for by number
  (`message_repository_impl.cpp:128-129`) and put in front without looking for ids.  A
  message stored while the user scrolls moves the others to later pages, and those
  that reach the next page are shown twice.  `PagesWhole` says that none is skipped.
* `:692`: an older page whose request was superseded does not report
  `olderMessagesLoaded()`.  When the conversation on the screen is selected again,
  nothing else ends the view's waiting, and it asks for no more pages (`resumed`).
* `:457`: the end of an older batch resets `m_attachmentCancellation`, which may
  belong to a newer one, so that this one cannot be canceled as a batch.
* `:778`: a live message is inserted without looking for its id.

*Devices.*
* `webrtc_client.cpp:742-796`: when the audio module has stopped and does not
  take the new device, nothing remembers that it was running; a later device does
  not start it again.
* The same module with no device: when a device is pulled out, put back and pulled
  out again before the list is reloaded, and a call starts in between, the module
  stays on although there is nothing to record or play.
* `qt_camera_capture.cpp:138`: `start()` without a camera forgets the wish, which
  the comment at line 43 says is kept.

*Calls.*
* `jingle_service.cpp:334`: a candidate of the other party that arrives after the
  call ended here and before the other side knows finds `m_webrtc` null, and uses
  it.  `DiesOnlyByCandidate` says that this is the only way.
* `jingle_extension.cpp:157`: what is accepted is the last proposal received, not
  the one shown.  `:297`: hanging up before the call is accepted sends
  `session-terminate` instead of a retraction.  `jingle_service.cpp:439`:
  no step of a call has a timeout.
* `jingle_service.cpp:359`: the end of a started call goes to `m_sessionSender`, which
  accepting a call does not set and ending one does not clear.  A call that was
  accepted and is ended before its session-initiate has come is terminated with the
  party of an earlier call, or with nobody.  `jingle_action.cpp:117`: a termination is
  taken without comparing its session id, so that a later call with that party would
  end.  `astray` calls this stanza "early"; without overlapping calls `NothingAstray`
  excludes every other one.
* The window's `onClosing` assigns `callState.text`, which ends its QML binding.

## 9. What is assumed of libraries, and what is not modelled

Assumed: QXmpp ends every `disconnectFromServer()` with `disconnected()`; a zero
timer fires before a further connection is made and closed; a `QTimer` with a
negative delay does not fire; no caller cancels a future of `NetworkClient`;
closing a hidden window does nothing; WebRTC reports local candidates after the
local description is set; the other parties of a call follow Jingle and their
stanzas arrive in order; the server counts its pages from the newest message and
removes none while they are read, and what is added meanwhile is less than a page;
`QMediaDevices` answers with the present state, and a device is one device, whether
it is matched by its id or its description.

Not modelled: cryptography, beyond the fact that an unwritten block does not
authenticate; JSON and file formats; the bytes of a transfer; the URL rewriting
and headers of interceptors; presence, roster and service discovery; the list of
open files of `MessageCache` and its unused batch interface; dates and sections of
the message list; video frames, statistics and codecs; the composer's gestures;
painting, localization, logging, tray and menus; `tools/string_encryptor`, a build
tool.  `useDefaultAudioInput()` and its siblings and `resetModel()` have no caller.
`setState()` handlers that call back into the recorder exist in tests only.
`Session` ends the other logins together with the page that a login leaves; in the
code the page and its view model go by `deleteLater()`, one turn of the event loop
later.

## 10. Plan

Done: every component of section 1 but the shell and the wrappers; the proofs of
section 6, which cover every property but liveness.

1. A composition of `SendQueue` with `MessageList`, in place of the promise
   between them, and of `Session` with `AuthStorage`.
2. The crash of section 8 at `local_storage.cpp:644` as a property of `Open`, once
   the code writes a growing record so that it can be read again.
3. Liveness of calls, if the code gets timeouts.
