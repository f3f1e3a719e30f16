---------------------------- MODULE TorrentHandle ----------------------------
(***************************************************************************)
(* One BitTorrent::TorrentHandle (src/bittorrent/torrenthandle.cpp) beside *)
(* the native torrent it stands for.  The handle keeps a copy of the       *)
(* native status (m_nativeStatus) and judges the user's requests by it:    *)
(* the copy is as old as the last alert that brought or fetched a status.  *)
(*                                                                         *)
(* pause(), resume(), auto_managed(), force_recheck() ... of libtorrent    *)
(* post a command to its network thread; status() waits for that thread,   *)
(* hence for every command posted before: a handler that calls             *)
(* updateStatus() needs cmds = <<>>.  Alerts are handled in the order they *)
(* were posted, between calls of the user.                                 *)
(*                                                                         *)
(* Left out: what no source sets (params.restored, m_hasMissingFiles,      *)
(* moves and renames of files, whose callers are commented out), and       *)
(* m_unchecked, which is only read behind a constant that is false.        *)
(***************************************************************************)
EXTENDS Integers, Sequences

CONSTANTS MaxCalls,    \* bound on the user's requests
          MaxAlerts,   \* bound on the alerts that wait, for what libtorrent does by itself
          MaxTurns     \* bound on what stops and starts the torrent by itself: errors
                       \* and the queue

ASSUME BoundsAssumption == MaxCalls \in Nat /\ MaxAlerts \in Nat /\ MaxTurns \in Nat

VARIABLES
  m_nativeStatus,      \* the copy of the native status
  m_startupState,      \* "Starting" or "Started"
  m_hasSeedStatus,     \* the torrent is known to be complete
  m_needsPriority,     \* m_needsToSetFirstLastPiecePriority
  notice,              \* the session's last torrentPaused or torrentResumed for it
  native,              \* libtorrent: the torrent
  cmds,                \* commands posted to the network thread
  alerts,              \* alerts it posted
  calls, turns,        \* counted against the bounds
  want, judged,        \* history: the last request, and whether its status was up to date
  wantPriority, crossed, \* history: the last priority asked for; asked for while
                       \* the metadata had come and its alert waited
  calm,                \* history: no recheck was asked for while another was not over
  report               \* history: how the torrent was known to be complete since a check
                       \* found data missing: "none", "found" by a check, "late" (the check
                       \* was handled after the torrent had completed), or torrentFinished
                       \* was sent "once" or "twice"

handle == <<m_nativeStatus, m_startupState, m_hasSeedStatus, m_needsPriority, notice>>
requests == <<want, judged, wantPriority, crossed, calm>>
bounds == <<calls, turns>>
vars == <<handle, native, cmds, alerts, bounds, requests, report>>

Phases == {"metadata", "resumeData", "checking", "downloading", "finished"}
Checking == {"resumeData", "checking"}
Status == [paused : BOOLEAN, auto : BOOLEAN, phase : Phases, err : BOOLEAN]
Native == [paused : BOOLEAN, auto : BOOLEAN, phase : Phases, err : BOOLEAN,
           stop : BOOLEAN, upload : BOOLEAN, priority : BOOLEAN]

StatusOf(n) == [paused |-> n.paused, auto |-> n.auto, phase |-> n.phase, err |-> n.err]

Alert(type) == [type |-> type, ok |-> FALSE]
Checked(ok) == [type |-> "checked", ok |-> ok]
Update(n) == [type |-> "update", status |-> StatusOf(n)]

Resume(auto, upload, clear) == [op |-> "resume", auto |-> auto, upload |-> upload, clear |-> clear]
Command(op) == [op |-> op]

\* What the cached status says.
hasMetadata == m_nativeStatus.phase # "metadata"
isPaused == m_nativeStatus.paused /\ ~ m_nativeStatus.auto
isQueued == m_nativeStatus.paused /\ m_nativeStatus.auto
hasError == m_nativeStatus.paused /\ m_nativeStatus.err

-----------------------------------------------------------------------------
(***************************************************************************)
(* The native torrent.  `If(b, a)` posts alert a when b holds.             *)
(***************************************************************************)
If(b, a) == IF b THEN <<a>> ELSE <<>>

Room(k) == Len(alerts) + k <= MaxAlerts

RunPause ==
  /\ cmds # <<>> /\ Head(cmds).op = "pause" /\ cmds' = Tail(cmds)
  /\ native' = [native EXCEPT !.auto = FALSE, !.paused = TRUE]
  /\ alerts' = alerts \o If(~ native.paused, Alert("paused"))
  /\ UNCHANGED <<handle, bounds, requests, report>>

RunResume ==
  /\ cmds # <<>> /\ Head(cmds).op = "resume" /\ cmds' = Tail(cmds)
  /\ native' = [native EXCEPT !.auto = Head(cmds).auto, !.upload = Head(cmds).upload,
                              !.paused = FALSE, !.err = @ /\ ~ Head(cmds).clear]
  /\ alerts' = alerts \o If(native.paused, Alert("resumed"))
  /\ UNCHANGED <<handle, bounds, requests, report>>

RunRecheck ==
  /\ cmds # <<>> /\ Head(cmds).op = "recheck" /\ cmds' = Tail(cmds)
  /\ native' = [native EXCEPT !.phase = "checking"]
  /\ UNCHANGED <<handle, alerts, bounds, requests, report>>

\* stop_when_ready(true): at once, if the torrent is past its check.
RunStopWhenReady ==
  /\ cmds # <<>> /\ Head(cmds).op = "stopWhenReady" /\ cmds' = Tail(cmds)
  /\ LET now == native.phase \notin Checking IN
     /\ native' = [native EXCEPT !.stop = ~ now, !.paused = @ \/ now]
     /\ alerts' = alerts \o If(now /\ ~ native.paused, Alert("paused"))
  /\ UNCHANGED <<handle, bounds, requests, report>>

RunPriority ==
  /\ cmds # <<>> /\ Head(cmds).op \in {"priorityOn", "priorityOff"} /\ cmds' = Tail(cmds)
  /\ native' = [native EXCEPT !.priority = Head(cmds).op = "priorityOn"]
  /\ UNCHANGED <<handle, alerts, bounds, requests, report>>

Metadata ==
  /\ native.phase = "metadata" /\ ~ native.paused /\ Room(1)
  /\ native' = [native EXCEPT !.phase = "resumeData"]
  /\ alerts' = Append(alerts, Alert("metadata"))
  /\ UNCHANGED <<handle, cmds, bounds, requests, report>>

\* There are files that the resume data does not vouch for.
ResumeDataRejected ==
  /\ native.phase = "resumeData"
  /\ native' = [native EXCEPT !.phase = "checking"]
  /\ UNCHANGED <<handle, cmds, alerts, bounds, requests, report>>

\* A check ends; files are not checked while the torrent is stopped.  The alerts
\* of a complete torrent come in either order.
CheckEnds(complete) ==
  /\ native.phase \in Checking /\ (native.phase = "checking" => ~ native.paused) /\ Room(2)
  /\ native' = [native EXCEPT !.phase = IF complete THEN "finished" ELSE "downloading",
                              !.paused = @ \/ native.stop, !.stop = FALSE]
  /\ \E what \in IF complete THEN {<<Checked(TRUE), Alert("finished")>>, <<Alert("finished"), Checked(TRUE)>>}
                 ELSE {<<Checked(FALSE)>>} :
       alerts' = alerts \o what \o If(native.stop /\ ~ native.paused, Alert("paused"))
  /\ UNCHANGED <<handle, cmds, bounds, requests, report>>

Completes ==
  /\ native.phase = "downloading" /\ ~ native.paused /\ ~ native.upload /\ ~ native.err /\ Room(1)
  /\ native' = [native EXCEPT !.phase = "finished"]
  /\ alerts' = Append(alerts, Alert("finished"))
  /\ UNCHANGED <<handle, cmds, bounds, requests, report>>

\* An error stops the torrent, whatever it was told to do.
Fails ==
  /\ turns < MaxTurns /\ turns' = turns + 1
  /\ native.phase # "metadata" /\ ~ native.paused /\ Room(1)
  /\ native' = [native EXCEPT !.err = TRUE, !.paused = TRUE]
  /\ alerts' = Append(alerts, Alert("paused"))
  /\ want' = "none"
  /\ UNCHANGED <<handle, cmds, calls, judged, wantPriority, crossed, calm, report>>

\* The queue of libtorrent stops and starts the torrents it manages.
QueueTurn ==
  /\ turns < MaxTurns /\ turns' = turns + 1
  /\ native.auto /\ Room(1)
  /\ native' = [native EXCEPT !.paused = ~ @]
  /\ alerts' = Append(alerts, Alert(IF native.paused THEN "resumed" ELSE "paused"))
  /\ UNCHANGED <<handle, cmds, calls, requests, report>>

\* The state_update_alert that the refresh timer asks for.
PostUpdate ==
  /\ \A k \in DOMAIN alerts : alerts[k].type # "update"
  /\ m_nativeStatus # StatusOf(native)
  /\ alerts' = Append(alerts, Update(native))
  /\ UNCHANGED <<handle, native, cmds, bounds, requests, report>>

-----------------------------------------------------------------------------
(***************************************************************************)
(* The user's requests.                                                    *)
(***************************************************************************)
Asked == calls < MaxCalls /\ calls' = calls + 1

\* The status a request is judged by holds, and no stop is on its way.
UpToDate == cmds = <<>> /\ m_nativeStatus = StatusOf(native) /\ ~ native.stop

\* Mutant of pause: a torrent that waits in the queue is taken for stopped.
PauseNotQueued ==
  /\ Asked
  /\ want' = "pause" /\ judged' = UpToDate
  /\ cmds' = IF m_nativeStatus.paused THEN cmds ELSE Append(cmds, Command("pause"))
  /\ UNCHANGED <<handle, native, alerts, turns, wantPriority, crossed, calm, report>>

\* pause()
pause ==
  /\ Asked
  /\ want' = "pause" /\ judged' = UpToDate
  /\ cmds' = IF isPaused THEN cmds ELSE Append(cmds, Command("pause"))
  /\ notice' = IF isQueued THEN "paused" ELSE notice
  /\ UNCHANGED <<m_nativeStatus, m_startupState, m_hasSeedStatus, m_needsPriority,
                 native, alerts, turns, wantPriority, crossed, calm, report>>

\* resume_impl(): what it posts
resume_impl(forced, uploadMode) == Resume(~ forced, uploadMode, hasError)

\* resume()
resume(forced) ==
  /\ Asked
  /\ want' = "run" /\ judged' = UpToDate
  /\ cmds' = Append(cmds, resume_impl(forced, FALSE))
  /\ UNCHANGED <<handle, native, alerts, turns, wantPriority, crossed, calm, report>>

\* A check is under way, or its outcome is not known to the handle yet.
CheckPending ==
  \/ native.phase \in Checking
  \/ \E k \in DOMAIN cmds : cmds[k].op = "recheck"
  \/ \E k \in DOMAIN alerts : alerts[k].type \in {"checked", "finished"}

\* forceRecheck()
forceRecheck ==
  /\ Asked /\ hasMetadata
  /\ cmds' = cmds \o <<Command("recheck")>> \o
             (IF isPaused THEN <<Command("stopWhenReady"), resume_impl(TRUE, TRUE)>> ELSE <<>>)
  /\ calm' = (calm /\ ~ CheckPending)
  /\ judged' = (judged /\ UpToDate)
  /\ UNCHANGED <<handle, native, alerts, turns, want, wantPriority, crossed, report>>

PriorityCommand(enabled) == Command(IF enabled THEN "priorityOn" ELSE "priorityOff")

MetadataWaits == \E k \in DOMAIN alerts : alerts[k].type = "metadata"

\* Mutant of setFirstLastPiecePriority: what cannot be done yet is not kept.
PriorityDropped(enabled) ==
  /\ Asked /\ wantPriority' = enabled
  /\ IF hasMetadata THEN cmds = <<>> /\ cmds' = <<PriorityCommand(enabled)>> ELSE UNCHANGED cmds
  /\ crossed' = (crossed \/ MetadataWaits)
  /\ UNCHANGED <<handle, native, alerts, turns, want, judged, calm, report>>

\* setFirstLastPiecePriority(): the priorities of the files and pieces are fetched first
setFirstLastPiecePriority(enabled) ==
  /\ Asked /\ wantPriority' = enabled
  /\ IF hasMetadata
     THEN cmds = <<>> /\ cmds' = <<PriorityCommand(enabled)>> /\ UNCHANGED m_needsPriority
     ELSE m_needsPriority' = enabled /\ UNCHANGED cmds
  /\ crossed' = (crossed \/ MetadataWaits)
  /\ UNCHANGED <<m_nativeStatus, m_startupState, m_hasSeedStatus, notice,
                 native, alerts, turns, want, judged, calm, report>>

-----------------------------------------------------------------------------
(***************************************************************************)
(* Handling of alerts.                                                     *)
(***************************************************************************)
Handle(type) == alerts # <<>> /\ Head(alerts).type = type /\ alerts' = Tail(alerts)

\* updateStatus(): status() waits for the network thread
updateStatus == cmds = <<>> /\ m_nativeStatus' = StatusOf(native)

handleStateUpdate ==
  /\ Handle("update") /\ m_nativeStatus' = Head(alerts).status
  /\ UNCHANGED <<m_startupState, m_hasSeedStatus, m_needsPriority, notice,
                 native, cmds, bounds, requests, report>>

\* progress() == 1 of a status: that of a check under way is its own progress
ProgressIsOne(n) == IF n.phase \in Checking THEN BOOLEAN ELSE {n.phase = "finished"}

\* Mutant of SeedStatusAfterCheck: a check that finds data missing changes nothing.
SeedStatusKept(one) == IF one THEN TRUE ELSE m_hasSeedStatus

\* m_hasSeedStatus after a check (the wanted size is not 0)
SeedStatusAfterCheck(one) ==
  IF one THEN TRUE ELSE IF native.phase # "metadata" THEN FALSE ELSE m_hasSeedStatus

handleTorrentCheckedAlert ==
  /\ Handle("checked") /\ updateStatus
  /\ \E one \in ProgressIsOne(native) :
       /\ m_hasSeedStatus' = SeedStatusAfterCheck(one)
       /\ IF Head(alerts).ok
          THEN report' = IF report \in {"once", "twice"} THEN report ELSE "found"
          ELSE report' = IF one THEN "late" ELSE "none"
  /\ UNCHANGED <<m_startupState, m_needsPriority, notice, native, cmds, bounds, requests>>

handleTorrentFinishedAlert ==
  /\ Handle("finished")
  /\ IF m_hasSeedStatus
     THEN UNCHANGED <<m_nativeStatus, m_hasSeedStatus, report>>
     ELSE /\ updateStatus
          /\ m_hasSeedStatus' = TRUE
          /\ report' = IF report \in {"once", "twice"} THEN "twice" ELSE "once"
  /\ UNCHANGED <<m_startupState, m_needsPriority, notice,
                 native, cmds, bounds, requests>>

\* Mutant of handleTorrentPausedAlert: not only when the torrent has started.
PausedAnyway ==
  /\ Handle("paused")
  /\ updateStatus /\ notice' = "paused"
  /\ UNCHANGED <<m_startupState, m_hasSeedStatus, m_needsPriority,
                 native, cmds, bounds, requests, report>>

handleTorrentPausedAlert ==
  /\ Handle("paused")
  /\ IF m_startupState = "Started"
     THEN updateStatus /\ notice' = "paused"
     ELSE UNCHANGED <<m_nativeStatus, notice>>
  /\ UNCHANGED <<m_startupState, m_hasSeedStatus, m_needsPriority,
                 native, cmds, bounds, requests, report>>

\* Mutant of handleTorrentResumedAlert: the start is never over.
ResumedNeverStarts ==
  /\ Handle("resumed")
  /\ notice' = IF m_startupState = "Started" THEN "resumed" ELSE notice
  /\ UNCHANGED <<m_nativeStatus, m_startupState, m_hasSeedStatus, m_needsPriority,
                 native, cmds, bounds, requests, report>>

handleTorrentResumedAlert ==
  /\ Handle("resumed")
  /\ IF m_startupState = "Started"
     THEN notice' = "resumed" /\ UNCHANGED m_startupState
     ELSE m_startupState' = "Started" /\ UNCHANGED notice
  /\ UNCHANGED <<m_nativeStatus, m_hasSeedStatus, m_needsPriority,
                 native, cmds, bounds, requests, report>>

handleMetadataReceivedAlert ==
  /\ Handle("metadata") /\ updateStatus
  /\ notice' = IF native.paused /\ ~ native.auto THEN "paused" ELSE notice
  /\ cmds' = IF m_needsPriority THEN <<PriorityCommand(TRUE)>> ELSE <<>>
  /\ m_needsPriority' = FALSE
  /\ UNCHANGED <<m_startupState, m_hasSeedStatus, native, bounds, requests, report>>

-----------------------------------------------------------------------------
(***************************************************************************)
(* The constructor, run when libtorrent has added the torrent: a torrent   *)
(* file is added stopped and is checked; the magnet of a torrent that was  *)
(* loading its metadata is stopped first, and its metadata may have come.  *)
(***************************************************************************)
AddedFile(n, a) == n.phase = "resumeData" /\ a = <<>>

PreloadedMagnet(n, a) ==
  \/ n.phase = "metadata" /\ a = <<Alert("paused")>>
  \/ n.phase = "resumeData" /\ a = <<Alert("metadata"), Alert("paused")>>

\* Mutant of Constructed: a torrent that is to run is left "NotStarted".
ConstructedNotStarting(paused, forced, skipChecking, firstLast) ==
  /\ m_nativeStatus = StatusOf(native)
  /\ m_startupState = IF paused THEN "Started" ELSE "NotStarted"
  /\ m_hasSeedStatus = skipChecking
  /\ m_needsPriority = (firstLast /\ ~ hasMetadata)
  /\ notice = IF paused THEN "paused" ELSE "resumed"
  /\ cmds = (IF hasMetadata THEN <<PriorityCommand(firstLast)>> ELSE <<>>) \o
            (IF paused THEN <<>> ELSE <<resume_impl(forced, FALSE)>>)
  /\ want = IF paused THEN "pause" ELSE "run"
  /\ wantPriority = firstLast
  /\ report = IF skipChecking THEN "found" ELSE "none"

Constructed(paused, forced, skipChecking, firstLast) ==
  /\ m_nativeStatus = StatusOf(native)
  /\ m_startupState = IF paused THEN "Started" ELSE "Starting"
  /\ m_hasSeedStatus = skipChecking
  /\ m_needsPriority = (firstLast /\ ~ hasMetadata)
  /\ notice = IF paused THEN "paused" ELSE "resumed"
  /\ cmds = (IF hasMetadata THEN <<PriorityCommand(firstLast)>> ELSE <<>>) \o
            (IF paused THEN <<>> ELSE <<resume_impl(forced, FALSE)>>)
  /\ want = IF paused THEN "pause" ELSE "run"
  /\ wantPriority = firstLast
  /\ report = IF skipChecking THEN "found" ELSE "none"

Init ==
  /\ native \in [paused : {TRUE}, auto : {FALSE}, phase : {"metadata", "resumeData"}, err : {FALSE},
                 stop : {FALSE}, upload : {FALSE}, priority : {FALSE}]
  /\ alerts \in {<<>>, <<Alert("paused")>>, <<Alert("metadata"), Alert("paused")>>}
  /\ AddedFile(native, alerts) \/ PreloadedMagnet(native, alerts)
  /\ \E paused, forced, skipChecking, firstLast \in BOOLEAN :
       Constructed(paused, forced, skipChecking, firstLast)
  /\ calls = 0 /\ turns = 0
  /\ judged = TRUE /\ crossed = FALSE /\ calm = TRUE

RunCommand == RunPause \/ RunResume \/ RunRecheck \/ RunStopWhenReady \/ RunPriority

Network ==
  \/ RunCommand \/ Metadata \/ ResumeDataRejected \/ (\E complete \in BOOLEAN : CheckEnds(complete))
  \/ Completes \/ Fails \/ QueueTurn \/ PostUpdate

Request ==
  \/ pause \/ (\E forced \in BOOLEAN : resume(forced)) \/ forceRecheck
  \/ \E enabled \in BOOLEAN : setFirstLastPiecePriority(enabled)

HandleAlert ==
  \/ handleStateUpdate \/ handleTorrentCheckedAlert \/ handleTorrentFinishedAlert
  \/ handleTorrentPausedAlert \/ handleTorrentResumedAlert \/ handleMetadataReceivedAlert

Next == Network \/ Request \/ HandleAlert

\* The network thread takes its commands, and the refresh timer and the event
\* loop of the Session go on handling alerts.
Fairness == WF_vars(RunCommand) /\ WF_vars(HandleAlert) /\ WF_vars(PostUpdate)

Spec == Init /\ [][Next]_vars
LiveSpec == Spec /\ Fairness

-----------------------------------------------------------------------------
(***************************************************************************)
(* Properties.                                                             *)
(***************************************************************************)
Alerts == [type : {"paused", "resumed", "finished", "metadata"}, ok : {FALSE}]
            \cup [type : {"checked"}, ok : BOOLEAN] \cup [type : {"update"}, status : Status]

Commands == [op : {"pause", "recheck", "stopWhenReady", "priorityOn", "priorityOff"}]
              \cup [op : {"resume"}, auto : BOOLEAN, upload : BOOLEAN, clear : BOOLEAN]

\* Every variable keeps to its values: in particular a torrent is in one of the
\* start-up states the constructor leaves it in.
TypeOK ==
  /\ m_nativeStatus \in Status /\ m_startupState \in {"Starting", "Started"}
  /\ m_hasSeedStatus \in BOOLEAN /\ m_needsPriority \in BOOLEAN /\ notice \in {"paused", "resumed"}
  /\ native \in Native /\ cmds \in Seq(Commands) /\ alerts \in Seq(Alerts)
  /\ calls \in 0 .. MaxCalls /\ turns \in 0 .. MaxTurns
  /\ want \in {"pause", "run", "none"} /\ judged \in BOOLEAN
  /\ wantPriority \in BOOLEAN /\ crossed \in BOOLEAN /\ calm \in BOOLEAN
  /\ report \in {"none", "found", "late", "once", "twice"}

Rest == cmds = <<>> /\ alerts = <<>>

\* When nothing is on its way, what the session last said of the torrent is so:
\* torrentPaused after it stopped, torrentResumed after it started, although
\* pause() speaks before the torrent has stopped and the alerts of the start-up
\* are swallowed.
NoticeAgrees == Rest => (notice = "paused") = native.paused

\* When nothing is on its way, a request that was judged by an up-to-date status
\* has been carried out: the torrent is stopped and out of the queue, or it runs
\* (or waits in the queue) with downloads allowed.
RequestKept ==
  Rest /\ ~ native.stop /\ judged =>
    /\ want = "pause" => native.paused /\ ~ native.auto
    /\ want = "run" => (~ native.paused \/ native.auto) /\ ~ native.upload

\* torrentFinished is not sent twice unless a check found data missing in between;
\* and when nothing is on its way, a complete torrent has been reported as finished,
\* unless a check found it complete, in time or late.
FinishedReported ==
  /\ calm => report # "twice"
  /\ Rest /\ native.phase = "finished" => m_hasSeedStatus /\ report # "none"

\* When nothing is on its way, the priority of the first and last pieces is the
\* one asked for last, even when it was asked for before the metadata came.
PriorityKept ==
  Rest /\ native.phase # "metadata" => crossed \/ native.priority = wantPriority

\* A torrent that was added to run gets out of its start-up.
Starts == m_startupState = "Starting" ~> m_startupState = "Started"
=============================================================================
