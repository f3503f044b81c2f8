------------------------------ MODULE Downloads ------------------------------
(***************************************************************************)
(* Media that is fetched over HTTP: HttpDownloadService, the registry of   *)
(* MediaRepositoryImpl above it, and its two clients, the file rows of     *)
(* MessagingViewModel and the playback of VoiceMessageController.          *)
(*                                                                         *)
(* Everything runs on the GUI thread, and a signal is handled before the   *)
(* call that emits it returns: a click, the choice in the save dialog or   *)
(* an event of a network reply is one step.  The save dialog runs an event *)
(* loop of its own, so replies are handled while it is open and clicks are *)
(* not.                                                                    *)
(***************************************************************************)
EXTENDS Integers, FiniteSets

CONSTANTS
  FileMsgs, \* messages with a file
  Voices,  \* voice messages
  Urls,    \* what media_url may be
  Sources, \* those that each message may have, from the server or while it is uploaded
  Local,   \* the one of them that is a file on this machine
  Bad,     \* the one that is not an http URL with a host
  Paths,   \* where the user may save a file
  Reqs,    \* requests of the service that may exist at the same time
  None

Msgs == FileMsgs \cup Voices

ASSUME DownloadsAssumption ==
  /\ FileMsgs \cap Voices = {} /\ Local \in Urls /\ Bad \in Urls /\ Local # Bad
  /\ Sources \in [Msgs -> SUBSET Urls] /\ None \notin Msgs \cup Paths \cup Reqs

VARIABLES
  url,      \* media_url of each message
  net,      \* the requests: the service's tasks and the repository's two tables
  dialog,   \* the file whose save dialog is open and the URL that was clicked
  saved,    \* file-location records: where the file of a URL was saved
  cached,   \* voice messages, with their URL, in the media cache
  loading,  \* the entries of m_fileDownloads that are downloading
  pending,  \* m_pendingVoiceMessage
  current,  \* m_voicePlaybackMessageId
  player,   \* the source of m_messagePlayback and whether it plays
  inPlay,   \* m_currentPlay: the playback bar is shown
  wanted,   \* the voice message the user last asked to hear, until told to stop
  closed    \* the one whose playback bar was closed while it was being downloaded

downloadsVars == <<url, net, dialog, saved, cached, loading, pending, current, player, inPlay, wanted, closed>>
files == <<dialog, saved, loading>>
voice == <<cached, pending, current, player, inPlay, wanted, closed>>

Silent == [source |-> None, playing |-> FALSE]

DownloadsInit ==
  /\ url \in [Msgs -> Urls] /\ \A m \in Msgs : url[m] \in Sources[m]
  /\ net = [st |-> [r \in Reqs |-> "free"], path |-> [r \in Reqs |-> None],
            asked |-> [r \in Reqs |-> None], owner |-> [r \in Reqs |-> None],
            message |-> [m \in Msgs |-> None]]
  /\ dialog = None /\ saved = {} /\ cached = {}
  /\ loading = {}
  /\ pending = None /\ current = None /\ player = Silent /\ inPlay = FALSE
  /\ wanted = None /\ closed = None

-----------------------------------------------------------------------------
(* The service and the repository                                          *)

\* A task is being transferred ("active"), could not be written and will be aborted
\* ("broken"), or could not be created and will be reported by a timer ("posted").
Transferring(n, r) == n.st[r] \in {"active", "broken"}

\* takeMessage().
Take(n, r) ==
  [n EXCEPT !.owner[r] = None,
            !.message = [m \in Msgs |-> IF n.owner[r] = m THEN None ELSE @[m]]]

\* cleanupTask(): the requests in rs are over.
Cleanup(n, rs) ==
  LET Reset(g, to) == [r \in Reqs |-> IF r \in rs THEN to ELSE g[r]] IN
  [n EXCEPT !.st = Reset(@, "free"), !.path = Reset(@, None), !.asked = Reset(@, None)]

\* Mutant: the request is forgotten but goes on.
CancelLeavesTask(n, m) ==
  LET r == n.message[m] IN IF r = None THEN n ELSE [n EXCEPT !.message[m] = None]

\* MediaRepositoryImpl::cancelDownload() of each message in ms: abort() finishes a task
\* at once; a failure that is already posted finds no entry when the timer fires.
CancelDownloads(n, ms) ==
  LET rs == {n.message[m] : m \in ms} \cap Reqs
      k == [n EXCEPT !.message = [m \in Msgs |-> IF m \in ms THEN None ELSE @[m]],
                     !.owner = [r \in Reqs |-> IF r \in rs THEN None ELSE @[r]]] IN
  Cleanup(k, {r \in rs : Transferring(n, r)})
CancelDownload(n, m) == CancelDownloads(n, {m})

\* HttpDownloadService::download() and the two insertions after it.
Download(n, m, u, p) ==
  {[n EXCEPT !.st[r] = s, !.path[r] = p, !.asked[r] = u, !.owner[r] = m, !.message[m] = r] :
     r \in {CHOOSE q \in Reqs : n.st[q] = "free"}, s \in {"active", "posted"}}

HasRoom(n) == \E r \in Reqs : n.st[r] = "free"

\* Mutant: any destination is accepted.
FreeAny(n) == Paths

\* No two downloads to one destination.
FreePaths(n) == {p \in Paths : \A r \in Reqs : n.owner[r] # None => n.path[r] # p}

\* localFilePath(): whether the file is found where this URL was saved; the user may
\* have moved it.
Stored(f) == {FALSE, \E p \in Paths : <<url[f], p>> \in saved}

\* exists(): a cached entry that cannot be read is a miss.
Exists(v) == {FALSE, <<v, url[v]>> \in cached}

\* saveFile(): the entry is built beside its place and renamed.
SaveFile(v, u) == cached' = cached \cup {<<v, u>>}

\* downloadFile() up to the save dialog, and all of it for a voice message: what is
\* left of the requests and the signal that is emitted.
Request(n, m) ==
  IF url[m] = Bad THEN {<<n, "failed">>}
  ELSE IF n.message[m] # None /\ n.asked[n.message[m]] = url[m] THEN {<<n, "none">>}
  ELSE LET k == CancelDownload(n, m) IN
       IF m \in FileMsgs THEN {<<k, IF found THEN "completed" ELSE "dialog">> : found \in Stored(m)}
       ELSE {<<k, "completed">> : hit \in Exists(m) \cap {TRUE}} \cup {<<k, "failed">>} \cup
            (IF HasRoom(k) THEN {<<b, "started">> : b \in Download(k, m, url[m], None)} ELSE {})

-----------------------------------------------------------------------------
(* File rows of the message list                                           *)

Click == dialog = None

\* MessagingViewModel::downloadFile(); a local file needs no download.
DownloadFile(f) ==
  /\ Click /\ f \notin loading /\ url[f] # Local
  /\ \E o \in Request(net, f) :
       net' = o[1] /\ dialog' = IF o[2] = "dialog" THEN [file |-> f, url |-> url[f]] ELSE None
  /\ UNCHANGED <<url, saved, loading, voice>>

\* The save dialog is closed: canceled, the directory cannot be made or another
\* download has the destination, or the download of the URL that was clicked starts.
ChooseFile ==
  /\ dialog # None /\ dialog' = None
  /\ \/ UNCHANGED <<net, loading>>
     \/ /\ HasRoom(net) /\ \E p \in FreePaths(net) : net' \in Download(net, dialog.file, dialog.url, p)
        /\ loading' = loading \cup {dialog.file}
  /\ UNCHANGED <<url, saved, voice>>

\* cancelFileDownload().
CancelFileDownload(f) ==
  /\ Click /\ f \in loading
  /\ loading' = loading \ {f} /\ net' = CancelDownload(net, f)
  /\ UNCHANGED <<url, dialog, saved, voice>>

\* The view model is destroyed and made again: files are canceled, a voice message is
\* not.
Recreate ==
  /\ Click /\ net' = CancelDownloads(net, loading)
  /\ loading' = {} /\ pending' = None /\ current' = None
  /\ player' = Silent /\ inPlay' = FALSE /\ wanted' = None /\ closed' = None
  /\ UNCHANGED <<url, dialog, saved, cached>>

\* A page of the server, or the end of an upload, brings another URL.
MessageUpdated(m, u) ==
  /\ url[m] # u /\ u \in Sources[m] \ {Local, Bad} /\ url' = [url EXCEPT ![m] = u]
  /\ UNCHANGED <<net, files, voice>>

-----------------------------------------------------------------------------
(* Playback of voice messages                                              *)

\* Mutant: the download of the voice message that was stopped is left running.
StopKeepsPending == pending' = pending /\ UNCHANGED net

\* The download half of stopCurrentAudio().
StopPending ==
  /\ pending' = None
  /\ net' = IF pending = None THEN net ELSE CancelDownload(net, pending)

Quiet == [player EXCEPT !.playing = FALSE]

\* playVoice() of the message that is loaded: the button pauses and resumes.
TogglePlayback(v) ==
  /\ Click /\ v = current /\ pending = None /\ player.source # None
  /\ player' = [player EXCEPT !.playing = ~@] /\ inPlay' = TRUE
  /\ wanted' = v /\ closed' = None /\ UNCHANGED <<url, net, files, cached, pending, current>>

\* playVoice() of another message, or of one that has nothing to play: whatever sounds
\* or loads is stopped, then the file is played, found in the cache, or downloaded.
PlayVoice(v) ==
  /\ Click /\ ~(v = current /\ (pending # None \/ player.source # None))
  /\ current' = v /\ wanted' = v /\ closed' = None /\ inPlay' = TRUE
  /\ LET n == IF pending = None THEN net ELSE CancelDownload(net, pending) IN
     \/ /\ url[v] = Local /\ net' = n /\ pending' = None
        /\ player' = [source |-> v, playing |-> TRUE]
     \/ /\ url[v] # Local /\ \E o \in Request(n, v) :
             /\ net' = o[1] /\ pending' = IF o[2] \in {"started", "none"} THEN v ELSE None
             /\ player' = IF o[2] = "completed" THEN [source |-> v, playing |-> TRUE] ELSE Silent
  /\ UNCHANGED <<url, files, cached>>

\* pauseVoice() and resumeVoice(), the buttons of the playback bar.
PauseVoice == /\ Click /\ player.playing /\ player' = Quiet
              /\ UNCHANGED <<url, net, files, cached, pending, current, inPlay, wanted, closed>>
ResumeVoice == /\ Click /\ inPlay /\ player.source # None /\ ~player.playing
               /\ player' = [player EXCEPT !.playing = TRUE] /\ wanted' = player.source
               /\ closed' = None /\ UNCHANGED <<url, net, files, cached, pending, current, inPlay>>

\* stopVoicePlayback(): a recording starts, or a preview is played.
StopVoicePlayback ==
  /\ Click /\ StopPending /\ player' = Quiet /\ inPlay' = FALSE
  /\ wanted' = None /\ closed' = None /\ UNCHANGED <<url, files, cached, current>>

\* reset(), for MessagingViewModel::resetModel().
ResetPlayback ==
  /\ Click /\ StopPending /\ player' = Silent /\ inPlay' = FALSE
  /\ wanted' = None /\ closed' = None /\ current' = None /\ UNCHANGED <<url, files, cached>>

\* cancelVoicePlayback(): the playback bar is closed.  A download is not canceled, and
\* will play.
ClosePlayback ==
  /\ Click /\ inPlay /\ player' = Quiet /\ inPlay' = FALSE
  /\ wanted' = None /\ closed' = pending
  /\ UNCHANGED <<url, net, files, cached, pending, current>>

\* The media ends, or cannot be decoded and will be loaded anew.
PlayerStopped ==
  /\ player.playing /\ player' \in {Quiet, Silent} /\ inPlay' = FALSE
  /\ UNCHANGED <<url, net, files, cached, pending, current, wanted, closed>>

\* mediaStatusChanged(): the bar follows the player, for a message that was closed too.
MediaStatusChanged ==
  /\ player.source # None /\ inPlay # player.playing /\ inPlay' = player.playing
  /\ UNCHANGED <<url, net, files, cached, pending, current, player, wanted, closed>>

-----------------------------------------------------------------------------
(* Events of the network replies                                           *)

\* handleReadyRead(): the disk is full; the reply is aborted by a queued call.
WriteFails(r) ==
  /\ net.st[r] = "active" /\ net' = [net EXCEPT !.st[r] = "broken"]
  /\ UNCHANGED <<url, files, voice>>

\* What the two clients do when message m fails.
Failed(m) ==
  /\ loading' = loading \ {m} /\ pending' = IF pending = m THEN None ELSE pending
  /\ UNCHANGED <<saved, cached, player>>

\* What they do when it is complete: a file is recorded at its place, which may fail, a
\* voice message put into the cache and played.
Completed(m, p, u) ==
  /\ loading' = loading \ {m} /\ pending' = IF pending = m THEN None ELSE pending
  /\ IF m \in FileMsgs
     THEN saved' \in {saved, {s \in saved : s[1] # u} \cup {<<u, p>>}} /\ UNCHANGED cached
     ELSE SaveFile(m, u) /\ UNCHANGED saved
  /\ player' = IF pending = m THEN [source |-> m, playing |-> TRUE] ELSE player

\* Mutant: only a transfer that was going on is reported.
FailsOnlyActive(r) ==
  /\ net.st[r] = "active"
  /\ net' = Cleanup(Take(net, r), {r}) /\ Failed(net.owner[r])
  /\ UNCHANGED <<url, dialog, current, inPlay, wanted, closed>>

\* handleFinished() of a transfer that failed, the timer of one that could not start,
\* or a voice message that could not be put into the cache.
FinishFailed(r) ==
  /\ Transferring(net, r) \/ net.st[r] = "posted"
  /\ net' = Cleanup(Take(net, r), {r}) /\ Failed(net.owner[r])
  /\ UNCHANGED <<url, dialog, current, inPlay, wanted, closed>>

\* handleFinished() of a transfer that succeeded.
FinishCompleted(r) ==
  /\ net.st[r] = "active"
  /\ net' = Cleanup(Take(net, r), {r}) /\ Completed(net.owner[r], net.path[r], net.asked[r])
  /\ UNCHANGED <<url, dialog, current, inPlay, wanted, closed>>

TransferEnds(r) == FinishFailed(r) \/ FinishCompleted(r)

DownloadsNext ==
  \/ \E f \in FileMsgs : DownloadFile(f) \/ CancelFileDownload(f)
  \/ \E v \in Voices : PlayVoice(v) \/ TogglePlayback(v)
  \/ \E m \in Msgs, u \in Urls : MessageUpdated(m, u)
  \/ \E r \in Reqs : WriteFails(r) \/ TransferEnds(r)
  \/ ChooseFile \/ Recreate \/ PauseVoice \/ ResumeVoice \/ StopVoicePlayback
  \/ ResetPlayback \/ ClosePlayback \/ PlayerStopped \/ MediaStatusChanged

\* A transfer ends: without a byte for 60 seconds it fails.
DownloadsSpec == DownloadsInit /\ [][DownloadsNext]_downloadsVars /\ \A r \in Reqs : WF_downloadsVars(TransferEnds(r))

-----------------------------------------------------------------------------
(* Properties                                                              *)

\* The types of the variables.
DownloadsTypeOK ==
  /\ url \in [Msgs -> Urls] /\ dialog \in [file : FileMsgs, url : Urls] \cup {None}
  /\ net.st \in [Reqs -> {"free", "active", "broken", "posted"}]
  /\ net.path \in [Reqs -> Paths \cup {None}] /\ net.asked \in [Reqs -> Urls \cup {None}]
  /\ net.owner \in [Reqs -> Msgs \cup {None}] /\ net.message \in [Msgs -> Reqs \cup {None}]
  /\ saved \subseteq Urls \X Paths /\ cached \subseteq Voices \X Urls
  /\ loading \subseteq FileMsgs
  /\ {pending, current, wanted, closed} \subseteq Voices \cup {None}
  /\ player \in [source : Voices \cup {None}, playing : BOOLEAN] /\ inPlay \in BOOLEAN

\* MediaRepositoryImpl keeps two tables, by request and by message.  They mirror each
\* other and every entry has a request under way that will remove it: an entry that
\* stayed would make downloadFile() of that message return for ever.  A row of the list
\* shows a download exactly while the repository has one for it.
RegistryExact ==
  /\ DownloadsTypeOK
  /\ loading = {f \in FileMsgs : net.message[f] # None}
  /\ \A r \in Reqs : net.owner[r] # None => net.message[net.owner[r]] = r /\ net.st[r] # "free"
  /\ \A m \in Msgs : net.message[m] # None => net.owner[net.message[m]] = m
  /\ \A r \in Reqs : Transferring(net, r) => net.owner[r] # None

\* "Do not let concurrent downloads replace the same destination"
\* (media_repository_impl.cpp), though the check is made after a dialog during which
\* other downloads go on.
OneWriter ==
  \A r, q \in Reqs : r # q /\ Transferring(net, r) /\ Transferring(net, q) /\ net.path[r] # None
                       => net.path[r] # net.path[q]

\* What sounds is the voice message the user asked for last and has not stopped: the end
\* of an older download never starts playback.  Closing the bar stops what sounds but not
\* what is being downloaded (cancelVoicePlayback() keeps m_pendingVoiceMessage): that
\* message, and no other, may still sound after it.
NeverPlaysUnasked ==
  /\ player.playing => player.source # None /\ player.source \in {wanted, closed}
  /\ pending # None => pending = current /\ ~player.playing

\* Every download that is shown ends, and so does every wait for a voice message.
EveryDownloadEnds ==
  /\ \A f \in FileMsgs : []<>(f \notin loading)
  /\ \A v \in Voices : []<>(pending # v)
=============================================================================
