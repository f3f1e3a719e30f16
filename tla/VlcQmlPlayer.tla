---------------------------- MODULE VlcQmlPlayer -----------------------------
(***************************************************************************)
(* VlcQmlPlayer (src/vlcqt/qml/QmlPlayer.cpp) with its VlcMedia, its       *)
(* VlcMediaPlayer, the FileMediaStream of the file that is played, and the *)
(* VlcQmlVideoOutput items that show it.                                   *)
(*                                                                         *)
(* Objects are made and deleted by the GUI thread, some at once and some   *)
(* by the event loop later; VLC's input thread calls into the stream of    *)
(* the media it was given, through a raw pointer (Media.cpp:75-104).       *)
(* stop() waits for that thread to end.                                    *)
(*                                                                         *)
(* A VlcMedia is named by the order in which it was made; 0 is the null    *)
(* pointer.  The variables of FileMediaStream are those of the stream that *)
(* was made last; only one is ever open.                                   *)
(*                                                                         *)
(* Left out: tracks and their models, volume, position and what else is    *)
(* handed on to libvlc.                                                    *)
(***************************************************************************)
EXTENDS FileMediaStream, FiniteSets

CONSTANTS Files, Locations,  \* URLs of local files, and others
          Outputs,           \* VlcQmlVideoOutput items
          FilesOnly,         \* whether setUrlFile() is given local files only
          MaxMedia           \* bound on the media that are made

ASSUME UrlsAssumption == Files \cap Locations = {} /\ "" \notin Files \cup Locations
ASSUME ChoicesAssumption == FilesOnly \in BOOLEAN /\ MaxMedia \in Nat

VARIABLES
  urls,       \* the URL of each VlcMedia that was made
  alive,      \* those that are not destroyed
  deletions,  \* those that the event loop is going to destroy
  _media,     \* VlcQmlPlayer::_media
  streamOf,   \* the media that the stream made last belongs to
  native,     \* the media libvlc's player was given
  input,      \* VLC's input thread: "none", "starting", "running" or "ended"
  autoplay,   \* _autoplay
  destroyed,  \* the player is destroyed
  source,     \* the outputs whose _source is the player
  attached,   \* _attachedOutputs of its stream
  items       \* the outputs that are not destroyed

stream == <<isOpen, filePos, buff, currentBufferPos, totalBytesBuffer, bytes, closed>>
objects == <<urls, alive, deletions, _media, streamOf>>
player == <<native, input>>
outputs == <<source, attached, items>>
playerVars == <<stream, objects, player, autoplay, destroyed, outputs>>

IsFile(m) == urls[m] \in Files

-----------------------------------------------------------------------------
(***************************************************************************)
(* VLC's input thread, from play() to the end of the file or to stop().    *)
(***************************************************************************)
HasStream == native # 0 /\ IsFile(native)

VlcOpens ==
  /\ input = "starting"
  /\ IF HasStream
     THEN \/ Open /\ input' = "running"
          \/ MayFail /\ input' = "ended" /\ UNCHANGED stream
     ELSE input' \in {"running", "ended"} /\ UNCHANGED stream
  /\ UNCHANGED <<objects, native, autoplay, destroyed, outputs>>

VlcReads ==
  /\ input = "running" /\ HasStream
  /\ \/ \E len \in ReadLens : Read(len)
     \/ \E offset \in SeekTargets : Seek(offset)
  /\ UNCHANGED <<objects, player, autoplay, destroyed, outputs>>

\* vlc_mem_close(), if the stream is open
CloseStream == IF isOpen THEN Close ELSE UNCHANGED stream

VlcEnds ==
  /\ input = "running" /\ input' = "ended"
  /\ CloseStream
  /\ UNCHANGED <<objects, native, autoplay, destroyed, outputs>>

-----------------------------------------------------------------------------
(***************************************************************************)
(* The GUI thread.                                                         *)
(***************************************************************************)

\* Mutant of Stopped: stop() does not wait for the input thread.
StoppedSoon(starts) ==
  input' = (IF starts THEN "starting" ELSE input) /\ UNCHANGED <<isOpen, closed>>

\* VlcMediaPlayer::stop(), and then play() if it `starts`: whatever the input
\* thread was doing, it has closed the stream when stop() returns.
Stopped(starts) ==
  /\ input' = IF starts THEN "starting" ELSE "none"
  /\ isOpen' = FALSE /\ closed' = (closed \/ isOpen)

\* play() makes an input thread if there is none; one that has ended is kept.
play ==
  /\ ~ destroyed /\ native # 0 /\ input = "none"
  /\ (closed /\ native = streamOf) => Reopens
  /\ input' = "starting"
  /\ UNCHANGED <<stream, objects, native, autoplay, destroyed, outputs>>

stop ==
  /\ ~ destroyed /\ input # "none"
  /\ Stopped(FALSE)
  /\ UNCHANGED <<filePos, buffer, bytes, objects, native, autoplay, destroyed, outputs>>

setAutoplay(value) ==
  /\ ~ destroyed /\ value # autoplay /\ autoplay' = value
  /\ UNCHANGED <<stream, objects, player, destroyed, outputs>>

\* Mutant of DeleteLater: what is there already is not deleted.
DeleteNothing == deletions

\* _media->deleteLater()
DeleteLater == deletions \cup ({_media} \ {0})

\* url(): the location the media was made with, which a stream does not have
url == IF _media = 0 \/ IsFile(_media) THEN "" ELSE urls[_media]

\* new VlcMedia: for a local file with a new FileMediaStream, closed and empty
MakeMedia(u) ==
  LET m == Len(urls) + 1 IN
  /\ m <= MaxMedia
  /\ urls' = Append(urls, u) /\ alive' = alive \cup {m}
  /\ _media' = m /\ native' = m
  /\ IF u \in Files
     THEN /\ isOpen' = FALSE /\ filePos' = 0 /\ buff' = <<>> /\ closed' = FALSE
          /\ currentBufferPos' = 0 /\ totalBytesBuffer' = 0 /\ bytes' = <<>>
          /\ input' = IF autoplay THEN "starting" ELSE "none"
          /\ streamOf' = m
     ELSE Stopped(autoplay) /\ UNCHANGED <<filePos, buffer, bytes, streamOf>>

\* setUrl(), with openInternal(): open() or openOnly()
setUrl(u) ==
  /\ ~ destroyed /\ u # url
  /\ deletions' = DeleteLater
  /\ MakeMedia(u)
  /\ UNCHANGED <<autoplay, destroyed, outputs>>

\* setUrlFile(): of a URL that is not local nothing is made, and _media is kept.
setUrlFile(u) ==
  /\ ~ destroyed /\ (FilesOnly => u \in Files)
  /\ deletions' = DeleteLater
  /\ IF u \in Files THEN MakeMedia(u)
     ELSE Stopped(FALSE) /\ UNCHANGED <<filePos, buffer, bytes, urls, alive, _media, streamOf, native>>
  /\ UNCHANGED <<autoplay, destroyed, outputs>>

\* The event loop: ~VlcMedia() deletes the stream with it.
DeferredDelete(m) ==
  /\ m \in deletions
  /\ deletions' = deletions \ {m} /\ alive' = alive \ {m}
  /\ UNCHANGED <<stream, urls, _media, streamOf, player, autoplay, destroyed, outputs>>

\* ~VlcQmlPlayer(): stop, then delete everything; the instance deletes the media
\* that wait for the event loop, which are its children.  Its outputs are not told.
Destroy ==
  /\ ~ destroyed
  /\ destroyed' = TRUE
  /\ Stopped(FALSE)
  /\ alive' = {} /\ deletions' = {} /\ native' = 0 /\ attached' = {}
  /\ UNCHANGED <<filePos, buffer, bytes, urls, _media, streamOf, autoplay, source, items>>

\* setSource(): the player becomes, or no longer is, the source of the output.
setSource(o) ==
  /\ o \in items
  /\ IF o \in source
     THEN ~ destroyed /\ source' = source \ {o} /\ attached' = attached \ {o}
     ELSE ~ destroyed /\ source' = source \cup {o} /\ attached' = attached \cup {o}
  /\ UNCHANGED <<stream, objects, player, autoplay, destroyed, items>>

\* ~VlcQmlVideoOutput(): setSource(0), which calls into the source if there is one
DestroyOutput(o) ==
  /\ o \in items /\ items' = items \ {o} /\ source' = source \ {o}
  /\ attached' = attached \ {o}
  /\ UNCHANGED <<stream, objects, player, autoplay, destroyed>>

-----------------------------------------------------------------------------
PlayerInit ==
  /\ Init
  /\ urls = <<>> /\ alive = {} /\ deletions = {} /\ _media = 0 /\ streamOf = 0
  /\ native = 0 /\ input = "none" /\ autoplay = TRUE /\ destroyed = FALSE
  /\ source = {} /\ attached = {} /\ items = Outputs

VlcThread == VlcOpens \/ VlcReads \/ VlcEnds

PlayerNext ==
  \/ VlcThread \/ play \/ stop \/ (\E value \in BOOLEAN : setAutoplay(value))
  \/ \E u \in Files \cup Locations : setUrl(u) \/ setUrlFile(u)
  \/ (\E m \in deletions : DeferredDelete(m)) \/ Destroy
  \/ \E o \in Outputs : setSource(o) \/ DestroyOutput(o)

PlayerSpec == PlayerInit /\ [][PlayerNext]_playerVars

-----------------------------------------------------------------------------
(***************************************************************************)
(* Properties.                                                             *)
(***************************************************************************)
Made == 1 .. Len(urls)

\* The type invariant; the stream's is part of it.
PlayerTypeOK ==
  /\ TypeOK
  /\ urls \in Seq(Files \cup Locations) /\ alive \subseteq Made /\ deletions \subseteq Made
  /\ _media \in 0 .. Len(urls) /\ streamOf \in 0 .. Len(urls) /\ native \in 0 .. Len(urls)
  /\ input \in {"none", "starting", "running", "ended"}
  /\ autoplay \in BOOLEAN /\ destroyed \in BOOLEAN
  /\ items \subseteq Outputs /\ source \subseteq items /\ attached \subseteq Outputs

\* The stream that VLC's thread calls into belongs to a media that is not
\* destroyed, whatever is opened, stopped and deleted meanwhile.
StreamAlive ==
  input \in {"starting", "running"} => native \in alive

\* Every media but the one that _media points to is on its way to be deleted, and
\* that one is not: nothing is left behind, deleted twice or used after.
MediaOwned ==
  ~ destroyed => alive \ deletions = {_media} \ {0} /\ _media \notin deletions

\* No output has a player as its source that is destroyed: setSource(0) would call
\* into it.  It does not hold, as nothing makes outputs go first.
SourceAlive == destroyed => source = {}
=============================================================================
