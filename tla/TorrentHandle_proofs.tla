------------------------ MODULE TorrentHandle_proofs ------------------------
(***************************************************************************)
(* Safety of TorrentHandle, for any bounds: its types, that the last       *)
(* notice agrees with the torrent, that the priority of the first and last *)
(* pieces is kept, that requests judged by an up-to-date status are        *)
(* carried out, and that a completion is reported once.                    *)
(***************************************************************************)
EXTENDS TorrentHandle, SequenceTheorems, TLAPS

-----------------------------------------------------------------------------
(***************************************************************************)
(* Types.                                                                  *)
(***************************************************************************)
LEMMA AlertTypes ==
  /\ \A type \in {"paused", "resumed", "finished", "metadata"} : Alert(type) \in Alerts
  /\ \A ok \in BOOLEAN : Checked(ok) \in Alerts
  /\ \A n \in Native : StatusOf(n) \in Status /\ Update(n) \in Alerts
BY DEF Alerts, Alert, Checked, Update, StatusOf, Native, Status

LEMMA CommandTypes ==
  /\ \A op \in {"pause", "recheck", "stopWhenReady", "priorityOn", "priorityOff"} : Command(op) \in Commands
  /\ \A auto, upload, clear \in BOOLEAN : Resume(auto, upload, clear) \in Commands
  /\ \A enabled \in BOOLEAN : PriorityCommand(enabled) \in Commands
BY DEF Commands, Command, Resume, PriorityCommand

\* Short sequences are sequences.
LEMMA Tuples ==
  ASSUME NEW S
  PROVE  <<>> \in Seq(S) /\ \A a, b \in S : <<a>> \in Seq(S) /\ <<a, b>> \in Seq(S)
<1>1. <<>> \in Seq(S)
  BY EmptySeq
<1>2. \A a \in S : <<a>> \in Seq(S)
  OBVIOUS
<1>3. \A a, b \in S : <<a, b>> \in Seq(S)
  OBVIOUS
<1> QED BY <1>1, <1>2, <1>3

\* A sequence with an alert more, or as it was.
LEMMA AppendIf ==
  ASSUME NEW S, NEW q \in Seq(S), NEW a \in S, NEW b
  PROVE  q \o If(b, a) = IF b THEN Append(q, a) ELSE q
BY AppendIsConcat, ConcatEmptySeq DEF If

LEMMA ResumeType == TypeOK => \A forced, upload \in BOOLEAN : resume_impl(forced, upload) \in Commands
<1> SUFFICES ASSUME TypeOK, NEW forced \in BOOLEAN, NEW upload \in BOOLEAN
             PROVE  resume_impl(forced, upload) \in Commands
  OBVIOUS
<1>1. (~ forced) \in BOOLEAN /\ hasError \in BOOLEAN
  BY DEF hasError
<1> QED BY <1>1, CommandTypes DEF resume_impl

LEMMA NativeChanges ==
  ASSUME native \in Native
  PROVE  /\ \A b \in BOOLEAN : [native EXCEPT !.paused = b] \in Native
         /\ \A p \in Phases : [native EXCEPT !.phase = p] \in Native
         /\ \A b \in BOOLEAN : [native EXCEPT !.priority = b] \in Native
BY DEF Native

LEMMA RunTyped == TypeOK /\ RunCommand => TypeOK'
<1> SUFFICES ASSUME TypeOK, RunCommand PROVE TypeOK'
  OBVIOUS
<1>1. cmds # <<>> /\ cmds' = Tail(cmds) /\ cmds' \in Seq(Commands) /\ Head(cmds) \in Commands
  <2>1. cmds # <<>> /\ cmds' = Tail(cmds)
    BY DEF RunCommand, RunPause, RunResume, RunRecheck, RunStopWhenReady, RunPriority
  <2>2. cmds \in Seq(Commands)
    BY DEF TypeOK
  <2> QED BY <2>1, <2>2, HeadTailProperties
<1>2. UNCHANGED <<handle, bounds, requests, report>>
  BY DEF RunCommand, RunPause, RunResume, RunRecheck, RunStopWhenReady, RunPriority
<1>3. alerts \in Seq(Alerts) /\ native \in Native
  BY DEF TypeOK
<1>4. ASSUME NEW b, NEW type \in {"paused", "resumed"}, alerts' = alerts \o If(b, Alert(type))
      PROVE  alerts' \in Seq(Alerts)
  <2>1. Alert(type) \in Alerts
    BY AlertTypes
  <2>2. alerts' = IF b THEN Append(alerts, Alert(type)) ELSE alerts
    BY <1>3, <1>4, <2>1, AppendIf
  <2>3. Append(alerts, Alert(type)) \in Seq(Alerts)
    BY <1>3, <2>1, AppendProperties
  <2> QED BY <1>3, <2>2, <2>3
<1>5. alerts' \in Seq(Alerts)
  BY <1>3, <1>4 DEF RunCommand, RunPause, RunResume, RunRecheck, RunStopWhenReady, RunPriority
<1>6. native' \in Native
  <2>1. CASE RunPause
    BY <1>3, <2>1 DEF RunPause, Native
  <2>2. CASE RunResume
    <3>1. Head(cmds).auto \in BOOLEAN /\ Head(cmds).upload \in BOOLEAN
      BY <1>1, <2>2 DEF RunResume, Commands
    <3> QED BY <1>3, <2>2, <3>1 DEF RunResume, Native
  <2>3. CASE RunRecheck
    BY <1>3, <2>3 DEF RunRecheck, Native, Phases
  <2>4. CASE RunStopWhenReady
    BY <1>3, <2>4 DEF RunStopWhenReady, Native
  <2>5. CASE RunPriority
    BY <1>3, <2>5 DEF RunPriority, Native
  <2> QED BY <2>1, <2>2, <2>3, <2>4, <2>5 DEF RunCommand
<1> QED BY <1>1, <1>2, <1>5, <1>6 DEF TypeOK, handle, bounds, requests

LEMMA AlertsType ==
  ASSUME TypeOK
  PROVE  /\ \A a \in Alerts : Append(alerts, a) \in Seq(Alerts)
         /\ alerts # <<>> => Head(alerts) \in Alerts /\ Tail(alerts) \in Seq(Alerts)
<1>1. alerts \in Seq(Alerts)
  BY DEF TypeOK
<1> QED BY <1>1, AppendProperties, HeadTailProperties

\* What a check that ends posts, one alert after the other.
LEMMA CheckPosts ==
  ASSUME TypeOK, NEW complete \in BOOLEAN, CheckEnds(complete)
  PROVE  \E a \in Alerts, b \in Alerts, q \in Seq(Alerts) :
           /\ a.type \in {"checked", "finished"} /\ b.type \in {"checked", "finished"}
           /\ q \in {Append(alerts, a), Append(Append(alerts, a), b)}
           /\ \/ q = Append(alerts, a) /\ a.type = "checked" /\ ~ a.ok
              \/ /\ complete /\ q = Append(Append(alerts, a), b)
                 /\ a.type = "checked" \/ b.type = "checked"
           /\ alerts' = IF native.stop /\ ~ native.paused THEN Append(q, Alert("paused")) ELSE q
<1> DEFINE last == Alert("paused")
           stops == native.stop /\ ~ native.paused
<1>1. alerts \in Seq(Alerts) /\ last \in Alerts
  BY AlertTypes DEF TypeOK
<1>2. \A q \in Seq(Alerts) : q \o If(stops, last) = IF stops THEN Append(q, last) ELSE q
  BY <1>1, AppendIf
<1>3. \A q \in Seq(Alerts), a \in Alerts : q \o <<a>> = Append(q, a) /\ Append(q, a) \in Seq(Alerts)
  BY AppendIsConcat, AppendProperties
<1>4. \A q \in Seq(Alerts), a \in Alerts, b \in Alerts : q \o <<a, b>> = Append(Append(q, a), b)
  <2> SUFFICES ASSUME NEW q \in Seq(Alerts), NEW a \in Alerts, NEW b \in Alerts
               PROVE  q \o <<a, b>> = Append(Append(q, a), b)
    OBVIOUS
  <2> QED OBVIOUS
<1>5. /\ Checked(TRUE) \in Alerts /\ Checked(FALSE) \in Alerts /\ Alert("finished") \in Alerts
      /\ Checked(TRUE).type = "checked" /\ Checked(FALSE).type = "checked" /\ Alert("finished").type = "finished"
      /\ ~ Checked(FALSE).ok
  BY AlertTypes DEF Checked, Alert
<1>6. PICK what \in {<<Checked(TRUE), Alert("finished")>>, <<Alert("finished"), Checked(TRUE)>>, <<Checked(FALSE)>>} :
        /\ alerts' = alerts \o what \o If(stops, last)
        /\ complete \/ what = <<Checked(FALSE)>>
  BY DEF CheckEnds
<1> HIDE DEF last, stops
<1>7. CASE what = <<Checked(FALSE)>>
  <2> DEFINE q == Append(alerts, Checked(FALSE))
  <2>1. q \in Seq(Alerts) /\ alerts \o what = q
    BY <1>1, <1>3, <1>5, <1>7
  <2>2. alerts' = IF stops THEN Append(q, last) ELSE q
    BY <1>2, <1>6, <2>1
  <2> QED BY <1>5, <2>1, <2>2 DEF last, stops
<1>8. ASSUME NEW a \in Alerts, NEW b \in Alerts, what = <<a, b>>
      PROVE  LET q == Append(Append(alerts, a), b) IN
             q \in Seq(Alerts) /\ alerts' = IF stops THEN Append(q, last) ELSE q
  <2> DEFINE q == Append(Append(alerts, a), b)
  <2>1. q \in Seq(Alerts) /\ alerts \o what = q
    BY <1>1, <1>3, <1>4, <1>8
  <2> HIDE DEF q
  <2>2. alerts' = IF stops THEN Append(q, last) ELSE q
    BY <1>2, <1>6, <2>1
  <2> QED BY <2>1, <2>2 DEF q
<1>9. ASSUME NEW a \in Alerts, NEW b \in Alerts, what = <<a, b>>,
             a.type \in {"checked", "finished"}, b.type \in {"checked", "finished"},
             a.type = "checked" \/ b.type = "checked"
      PROVE  \E q \in Seq(Alerts) :
               /\ complete /\ q = Append(Append(alerts, a), b)
               /\ alerts' = IF stops THEN Append(q, last) ELSE q
  <2>1. what # <<Checked(FALSE)>>
    <3>1. Len(<<a, b>>) = 2 /\ Len(<<Checked(FALSE)>>) = 1
      OBVIOUS
    <3> QED BY <1>9, <3>1
  <2> QED BY <1>6, <1>8, <1>9, <2>1
<1>10. CASE what = <<Checked(TRUE), Alert("finished")>>
  BY <1>5, <1>9, <1>10 DEF last, stops
<1>11. CASE what = <<Alert("finished"), Checked(TRUE)>>
  BY <1>5, <1>9, <1>11 DEF last, stops
<1> QED BY <1>6, <1>7, <1>10, <1>11

LEMMA NetworkTyped == TypeOK /\ Network => TypeOK'
<1> SUFFICES ASSUME TypeOK, Network PROVE TypeOK'
  OBVIOUS
<1>1. alerts \in Seq(Alerts) /\ native \in Native
  BY DEF TypeOK
<1>2. \A type \in {"paused", "resumed", "finished", "metadata"} : Append(alerts, Alert(type)) \in Seq(Alerts)
  BY AlertTypes, AlertsType
<1>3. CASE RunCommand
  BY <1>3, RunTyped
<1>4. CASE Metadata
  <2>1. native' \in Native
    BY <1>1, <1>4 DEF Metadata, Native, Phases
  <2> QED BY <1>2, <1>4, <2>1 DEF Metadata, TypeOK, handle, bounds, requests
<1>5. CASE ResumeDataRejected
  <2>1. native' \in Native
    BY <1>1, <1>5 DEF ResumeDataRejected, Native, Phases
  <2> QED BY <1>5, <2>1 DEF ResumeDataRejected, TypeOK, handle, bounds, requests
<1>6. ASSUME NEW complete \in BOOLEAN, CheckEnds(complete) PROVE TypeOK'
  <2>1. native' \in Native
    BY <1>1, <1>6 DEF CheckEnds, Native, Phases
  <2>2. alerts' \in Seq(Alerts)
    <3>1. \A q \in Seq(Alerts) : Append(q, Alert("paused")) \in Seq(Alerts)
      BY AlertTypes, AppendProperties
    <3> QED BY <1>6, <3>1, CheckPosts
  <2> QED BY <1>6, <2>1, <2>2 DEF CheckEnds, TypeOK, handle, bounds, requests
<1>7. CASE Completes
  <2>1. native' \in Native
    BY <1>1, <1>7 DEF Completes, Native, Phases
  <2> QED BY <1>2, <1>7, <2>1 DEF Completes, TypeOK, handle, bounds, requests
<1>8. CASE Fails
  <2>1. native' \in Native
    BY <1>1, <1>8 DEF Fails, Native
  <2>2. turns' \in 0 .. MaxTurns
    BY <1>8, BoundsAssumption DEF Fails, TypeOK
  <2> QED BY <1>2, <1>8, <2>1, <2>2 DEF Fails, TypeOK, handle
<1>9. CASE QueueTurn
  <2>1. native' \in Native
    BY <1>1, <1>9 DEF QueueTurn, Native
  <2>2. turns' \in 0 .. MaxTurns
    BY <1>9, BoundsAssumption DEF QueueTurn, TypeOK
  <2> QED BY <1>2, <1>9, <2>1, <2>2 DEF QueueTurn, TypeOK, handle, requests
<1>10. CASE PostUpdate
  <2>1. alerts' \in Seq(Alerts)
    BY <1>1, <1>10, AlertTypes, AlertsType DEF PostUpdate
  <2> QED BY <1>10, <2>1 DEF PostUpdate, TypeOK, handle, bounds, requests
<1> QED BY <1>3, <1>4, <1>5, <1>6, <1>7, <1>8, <1>9, <1>10 DEF Network

LEMMA RequestTyped == TypeOK /\ Request => TypeOK'
<1> SUFFICES ASSUME TypeOK, Request PROVE TypeOK'
  OBVIOUS
<1>1. cmds \in Seq(Commands)
  BY DEF TypeOK
<1>2. \A c \in Commands : Append(cmds, c) \in Seq(Commands)
  BY <1>1, AppendProperties
<1>3. calls' \in 0 .. MaxCalls
  <2>1. Asked
    BY DEF Request, pause, resume, forceRecheck, setFirstLastPiecePriority
  <2> QED BY <2>1, BoundsAssumption DEF Asked, TypeOK
<1>4. CASE pause
  <2>1. cmds' \in Seq(Commands)
    BY <1>1, <1>2, <1>4, CommandTypes DEF pause
  <2>2. judged' \in BOOLEAN
    BY <1>4 DEF pause, UpToDate
  <2> QED BY <1>3, <1>4, <2>1, <2>2 DEF pause, TypeOK
<1>5. ASSUME NEW forced \in BOOLEAN, resume(forced) PROVE TypeOK'
  <2>1. cmds' \in Seq(Commands)
    BY <1>2, <1>5, ResumeType DEF resume
  <2>2. judged' \in BOOLEAN
    BY <1>5 DEF resume, UpToDate
  <2> QED BY <1>3, <1>5, <2>1, <2>2 DEF resume, TypeOK, handle
<1>6. CASE forceRecheck
  <2>1. cmds' \in Seq(Commands)
    <3>1. Command("recheck") \in Commands /\ Command("stopWhenReady") \in Commands /\ resume_impl(TRUE, TRUE) \in Commands
      BY CommandTypes, ResumeType
    <3>2. PICK q \in {<<>>, <<Command("stopWhenReady"), resume_impl(TRUE, TRUE)>>} :
            cmds' = cmds \o <<Command("recheck")>> \o q
      BY <1>6 DEF forceRecheck
    <3>3. <<Command("recheck")>> \in Seq(Commands) /\ q \in Seq(Commands)
      BY <3>1, Tuples
    <3> QED BY <1>1, <3>2, <3>3, ConcatProperties
  <2>2. judged' \in BOOLEAN /\ calm' \in BOOLEAN
    BY <1>6 DEF forceRecheck, UpToDate, CheckPending, TypeOK
  <2> QED BY <1>3, <1>6, <2>1, <2>2 DEF forceRecheck, TypeOK, handle
<1>7. ASSUME NEW enabled \in BOOLEAN, setFirstLastPiecePriority(enabled) PROVE TypeOK'
  <2>1. cmds' \in Seq(Commands)
    <3>1. cmds' \in {cmds, <<PriorityCommand(enabled)>>}
      BY <1>7 DEF setFirstLastPiecePriority
    <3> QED BY <1>1, <3>1, CommandTypes, Tuples
  <2>2. crossed' \in BOOLEAN /\ m_needsPriority' \in BOOLEAN
    BY <1>7 DEF setFirstLastPiecePriority, MetadataWaits, TypeOK
  <2> QED BY <1>3, <1>7, <2>1, <2>2 DEF setFirstLastPiecePriority, TypeOK
<1> QED BY <1>4, <1>5, <1>6, <1>7 DEF Request

LEMMA HandleTyped == TypeOK /\ HandleAlert => TypeOK'
<1> SUFFICES ASSUME TypeOK, HandleAlert PROVE TypeOK'
  OBVIOUS
<1>1. alerts # <<>> /\ alerts' = Tail(alerts)
  BY DEF HandleAlert, handleStateUpdate, handleTorrentCheckedAlert, handleTorrentFinishedAlert,
         handleTorrentPausedAlert, handleTorrentResumedAlert, handleMetadataReceivedAlert, Handle
<1>2. alerts' \in Seq(Alerts) /\ Head(alerts) \in Alerts
  BY <1>1, AlertsType
<1>3. StatusOf(native) \in Status
  BY AlertTypes DEF TypeOK
<1>4. CASE handleStateUpdate
  <2>1. Head(alerts).status \in Status
    BY <1>2, <1>4 DEF handleStateUpdate, Handle, Alerts
  <2> QED BY <1>2, <1>4, <2>1 DEF handleStateUpdate, TypeOK, bounds, requests
<1>5. CASE handleTorrentCheckedAlert
  <2>1. m_hasSeedStatus' \in BOOLEAN /\ report' \in {"none", "found", "late", "once", "twice"}
    BY <1>5 DEF handleTorrentCheckedAlert, SeedStatusAfterCheck, TypeOK
  <2> QED BY <1>2, <1>3, <1>5, <2>1 DEF handleTorrentCheckedAlert, updateStatus, TypeOK, bounds, requests
<1>6. CASE handleTorrentFinishedAlert
  <2>1. /\ m_nativeStatus' \in Status /\ m_hasSeedStatus' \in BOOLEAN
        /\ report' \in {"none", "found", "late", "once", "twice"}
    <3>1. CASE m_hasSeedStatus
      BY <1>6, <3>1 DEF handleTorrentFinishedAlert, TypeOK
    <3>2. CASE ~ m_hasSeedStatus
      BY <1>3, <1>6, <3>2 DEF handleTorrentFinishedAlert, updateStatus
    <3> QED BY <3>1, <3>2
  <2> QED BY <1>2, <1>6, <2>1 DEF handleTorrentFinishedAlert, TypeOK, bounds, requests
<1>7. CASE handleTorrentPausedAlert
  BY <1>2, <1>3, <1>7 DEF handleTorrentPausedAlert, updateStatus, TypeOK, bounds, requests
<1>8. CASE handleTorrentResumedAlert
  BY <1>2, <1>8 DEF handleTorrentResumedAlert, TypeOK, bounds, requests
<1>9. CASE handleMetadataReceivedAlert
  <2>1. cmds' \in Seq(Commands)
    <3>1. cmds' \in {<<>>, <<PriorityCommand(TRUE)>>}
      BY <1>9 DEF handleMetadataReceivedAlert
    <3> QED BY <3>1, CommandTypes, Tuples
  <2> QED BY <1>2, <1>3, <1>9, <2>1 DEF handleMetadataReceivedAlert, updateStatus, TypeOK, bounds, requests
<1> QED BY <1>4, <1>5, <1>6, <1>7, <1>8, <1>9 DEF HandleAlert

LEMMA InitTyped == Init => TypeOK
<1> SUFFICES ASSUME Init PROVE TypeOK
  OBVIOUS
<1>1. native \in Native
  BY DEF Init, Native, Phases
<1>2. alerts \in Seq(Alerts)
  <2>1. Alert("paused") \in Alerts /\ Alert("metadata") \in Alerts
    BY AlertTypes
  <2>2. alerts \in {<<>>, <<Alert("paused")>>, <<Alert("metadata"), Alert("paused")>>}
    BY DEF Init
  <2> QED BY <2>1, <2>2, Tuples
<1>3. PICK paused \in BOOLEAN, forced \in BOOLEAN, skipChecking \in BOOLEAN, firstLast \in BOOLEAN :
        Constructed(paused, forced, skipChecking, firstLast)
  BY DEF Init
<1>4. m_nativeStatus \in Status
  BY <1>1, <1>3, AlertTypes DEF Constructed
<1>5. cmds \in Seq(Commands)
  <2>1. (~ forced) \in BOOLEAN /\ hasError \in BOOLEAN
    BY DEF hasError
  <2>2. resume_impl(forced, FALSE) \in Commands /\ PriorityCommand(firstLast) \in Commands
    BY <2>1, CommandTypes DEF resume_impl
  <2>3. PICK p \in {<<>>, <<PriorityCommand(firstLast)>>}, r \in {<<>>, <<resume_impl(forced, FALSE)>>} : cmds = p \o r
    BY <1>3 DEF Constructed
  <2>4. p \in Seq(Commands) /\ r \in Seq(Commands)
    BY <2>2, Tuples
  <2> QED BY <2>3, <2>4, ConcatProperties
<1>6. m_needsPriority \in BOOLEAN /\ m_hasSeedStatus \in BOOLEAN /\ m_startupState \in {"Starting", "Started"}
  BY <1>3 DEF Constructed, hasMetadata
<1>7. /\ notice \in {"paused", "resumed"} /\ want \in {"pause", "run", "none"} /\ wantPriority \in BOOLEAN
      /\ report \in {"none", "found", "late", "once", "twice"}
  BY <1>3 DEF Constructed
<1>8. calls \in 0 .. MaxCalls /\ turns \in 0 .. MaxTurns
  <2>1. calls = 0 /\ turns = 0
    BY DEF Init
  <2> QED BY <2>1, BoundsAssumption
<1>9. judged \in BOOLEAN /\ crossed \in BOOLEAN /\ calm \in BOOLEAN
  BY DEF Init
<1> QED BY <1>1, <1>2, <1>4, <1>5, <1>6, <1>7, <1>8, <1>9 DEF TypeOK

LEMMA NextTyped == TypeOK /\ [Next]_vars => TypeOK'
<1>1. TypeOK /\ UNCHANGED vars => TypeOK'
  BY DEF TypeOK, vars, handle, bounds, requests
<1> QED BY <1>1, NetworkTyped, RequestTyped, HandleTyped DEF Next

\* Every variable keeps to its values; in particular the start-up state is one of two.
THEOREM TypeCorrect == Spec => []TypeOK
BY InitTyped, NextTyped, PTL DEF Spec

-----------------------------------------------------------------------------
(***************************************************************************)
(* What a queue of alerts, or of commands, holds.                          *)
(***************************************************************************)
Has(q, type) == \E k \in DOMAIN q : q[k].type = type
HasOp(q, op) == \E k \in DOMAIN q : q[k].op = op

\* The last notice in the queue is that of a torrent that is stopped, or is not.
Followed(q, stopped) ==
  \A k \in DOMAIN q :
    /\ q[k].type = "resumed" /\ stopped => \E j \in DOMAIN q : j > k /\ q[j].type = "paused"
    /\ q[k].type = "paused" /\ ~ stopped => \E j \in DOMAIN q : j > k /\ q[j].type = "resumed"

\* A stop is noticed after a start.
StartThenStop(q) == \E i, j \in DOMAIN q : i < j /\ q[i].type = "resumed" /\ q[j].type = "paused"

\* A status in the queue is that of a managed torrent.
Managed(q) == \E k \in DOMAIN q : q[k].type = "update" /\ q[k].status.auto

LEMMA AppendIndex ==
  ASSUME NEW S, NEW q \in Seq(S), NEW a \in S
  PROVE  /\ Len(q) \in Nat /\ DOMAIN q = 1 .. Len(q) /\ DOMAIN Append(q, a) = 1 .. (Len(q) + 1)
         /\ \A k \in 1 .. Len(q) : Append(q, a)[k] = q[k]
         /\ Append(q, a)[Len(q) + 1] = a
<1>1. Append(q, a) \in Seq(S) /\ Len(Append(q, a)) = Len(q) + 1
  BY AppendProperties
<1> QED BY <1>1, LenProperties, AppendProperties

LEMMA TailIndex ==
  ASSUME NEW S, NEW q \in Seq(S), q # <<>>
  PROVE  /\ Len(q) \in Nat /\ DOMAIN q = 1 .. Len(q) /\ DOMAIN Tail(q) = 1 .. (Len(q) - 1) /\ Len(q) > 0
         /\ \A k \in 1 .. (Len(q) - 1) : Tail(q)[k] = q[k + 1]
         /\ Head(q) = q[1]
<1>1. Tail(q) \in Seq(S) /\ Len(Tail(q)) = Len(q) - 1
  BY HeadTailProperties
<1> QED BY <1>1, LenProperties, HeadTailProperties, EmptySeq

\* Posting an alert that is no notice.
LEMMA PostOther ==
  ASSUME NEW q \in Seq(Alerts), NEW a \in Alerts, a.type \notin {"paused", "resumed"}
  PROVE  /\ \A type \in {"paused", "resumed"} : Has(Append(q, a), type) <=> Has(q, type)
         /\ \A stopped : Followed(q, stopped) => Followed(Append(q, a), stopped)
         /\ StartThenStop(q) => StartThenStop(Append(q, a))
         /\ Managed(Append(q, a)) => Managed(q) \/ (a.type = "update" /\ a.status.auto)
<1> DEFINE r == Append(q, a)
           n == Len(q)
<1>1. /\ n \in Nat /\ DOMAIN q = 1 .. n /\ DOMAIN r = 1 .. (n + 1)
      /\ \A k \in 1 .. n : r[k] = q[k]
      /\ r[n + 1] = a
  BY AppendIndex
<1> HIDE DEF r, n
<1>2. \A type \in {"paused", "resumed"} : Has(r, type) <=> Has(q, type)
  BY <1>1 DEF Has
<1>3. \A stopped : Followed(q, stopped) => Followed(r, stopped)
  <2> SUFFICES ASSUME NEW stopped, Followed(q, stopped), NEW k \in DOMAIN r
               PROVE  /\ r[k].type = "resumed" /\ stopped => \E j \in DOMAIN r : j > k /\ r[j].type = "paused"
                      /\ r[k].type = "paused" /\ ~ stopped => \E j \in DOMAIN r : j > k /\ r[j].type = "resumed"
    BY DEF Followed
  <2>1. CASE k = n + 1
    BY <1>1, <2>1
  <2>2. CASE k \in DOMAIN q
    BY <1>1, <2>2 DEF Followed
  <2> QED BY <1>1, <2>1, <2>2
<1>4. StartThenStop(q) => StartThenStop(r)
  BY <1>1 DEF StartThenStop
<1>5. Managed(r) => Managed(q) \/ (a.type = "update" /\ a.status.auto)
  BY <1>1 DEF Managed
<1> QED BY <1>2, <1>3, <1>4, <1>5 DEF r

\* Posting a notice that the torrent has stopped.
LEMMA PostPaused ==
  ASSUME NEW q \in Seq(Alerts)
  PROVE  LET r == Append(q, Alert("paused")) IN
         /\ Followed(r, TRUE) /\ Has(r, "paused") /\ (Has(r, "resumed") <=> Has(q, "resumed"))
         /\ StartThenStop(r) <=> Has(q, "resumed")
         /\ Managed(r) => Managed(q)
<1> DEFINE r == Append(q, Alert("paused"))
           n == Len(q)
<1>1. /\ n \in Nat /\ DOMAIN q = 1 .. n /\ DOMAIN r = 1 .. (n + 1)
      /\ \A k \in 1 .. n : r[k] = q[k]
      /\ r[n + 1].type = "paused"
  BY AppendIndex, AlertTypes DEF Alert
<1> HIDE DEF r, n
<1>2. Has(r, "paused") /\ (Has(r, "resumed") <=> Has(q, "resumed"))
  BY <1>1 DEF Has
<1>3. Followed(r, TRUE)
  <2> SUFFICES ASSUME NEW k \in DOMAIN r, r[k].type = "resumed"
               PROVE  \E j \in DOMAIN r : j > k /\ r[j].type = "paused"
    BY DEF Followed
  <2>1. n + 1 \in DOMAIN r /\ k # n + 1
    BY <1>1
  <2>2. n + 1 > k
    BY <1>1, <2>1
  <2> QED BY <1>1, <2>1, <2>2
<1>4. StartThenStop(r) => Has(q, "resumed")
  BY <1>1 DEF StartThenStop, Has
<1>5. ASSUME Has(q, "resumed") PROVE StartThenStop(r)
  <2>1. PICK i \in 1 .. n : q[i].type = "resumed"
    BY <1>1, <1>5 DEF Has
  <2>2. i \in DOMAIN r /\ n + 1 \in DOMAIN r /\ i < n + 1 /\ r[i].type = "resumed"
    BY <1>1, <2>1
  <2> QED BY <1>1, <2>2 DEF StartThenStop
<1>6. Managed(r) => Managed(q)
  BY <1>1 DEF Managed
<1> QED BY <1>2, <1>3, <1>4, <1>5, <1>6 DEF r

\* Posting a notice that the torrent runs again.
LEMMA PostResumed ==
  ASSUME NEW q \in Seq(Alerts)
  PROVE  LET r == Append(q, Alert("resumed")) IN
         /\ Followed(r, FALSE) /\ Has(r, "resumed")
         /\ StartThenStop(q) => StartThenStop(r)
<1> DEFINE r == Append(q, Alert("resumed"))
           n == Len(q)
<1>1. /\ n \in Nat /\ DOMAIN q = 1 .. n /\ DOMAIN r = 1 .. (n + 1)
      /\ \A k \in 1 .. n : r[k] = q[k]
      /\ r[n + 1].type = "resumed"
  BY AppendIndex, AlertTypes DEF Alert
<1> HIDE DEF r, n
<1>2. Has(r, "resumed")
  BY <1>1 DEF Has
<1>3. Followed(r, FALSE)
  <2> SUFFICES ASSUME NEW k \in DOMAIN r, r[k].type = "paused"
               PROVE  \E j \in DOMAIN r : j > k /\ r[j].type = "resumed"
    BY DEF Followed
  <2>1. n + 1 \in DOMAIN r /\ k # n + 1
    BY <1>1
  <2>2. n + 1 > k
    BY <1>1, <2>1
  <2> QED BY <1>1, <2>1, <2>2
<1>4. StartThenStop(q) => StartThenStop(r)
  BY <1>1 DEF StartThenStop
<1> QED BY <1>2, <1>3, <1>4 DEF r

\* Taking the first alert.
LEMMA TakeFirst ==
  ASSUME NEW q \in Seq(Alerts), q # <<>>
  PROVE  LET r == Tail(q) IN
         /\ \A stopped : Followed(q, stopped) => Followed(r, stopped)
         /\ \A type : Has(q, type) <=> Head(q).type = type \/ Has(r, type)
         /\ StartThenStop(q) <=> StartThenStop(r) \/ (Head(q).type = "resumed" /\ Has(r, "paused"))
         /\ Managed(q) <=> Managed(r) \/ (Head(q).type = "update" /\ Head(q).status.auto)
         /\ \A stopped : Followed(q, stopped) /\ Head(q).type = "resumed" /\ stopped => Has(r, "paused")
         /\ \A stopped : Followed(q, stopped) /\ Head(q).type = "paused" /\ ~ stopped => Has(r, "resumed")
<1> DEFINE r == Tail(q)
           n == Len(q)
<1>1. /\ n \in Nat /\ n > 0 /\ DOMAIN q = 1 .. n /\ DOMAIN r = 1 .. (n - 1)
      /\ \A k \in 1 .. (n - 1) : r[k] = q[k + 1]
      /\ Head(q) = q[1]
  BY TailIndex
<1> HIDE DEF r, n
<1>2. \A k \in DOMAIN q : k # 1 => k - 1 \in DOMAIN r /\ r[k - 1] = q[k]
  BY <1>1
<1>3. \A k \in DOMAIN r : k + 1 \in DOMAIN q /\ k + 1 > 1 /\ r[k] = q[k + 1]
  BY <1>1
<1>4. 1 \in DOMAIN q /\ \A k \in DOMAIN q : k # 1 => k > 1
  BY <1>1
<1>5. \A stopped : Followed(q, stopped) => Followed(r, stopped)
  <2> SUFFICES ASSUME NEW stopped, Followed(q, stopped), NEW k \in DOMAIN r
               PROVE  /\ r[k].type = "resumed" /\ stopped => \E j \in DOMAIN r : j > k /\ r[j].type = "paused"
                      /\ r[k].type = "paused" /\ ~ stopped => \E j \in DOMAIN r : j > k /\ r[j].type = "resumed"
    BY DEF Followed
  <2>1. \A j \in DOMAIN q : j > k + 1 => j - 1 \in DOMAIN r /\ j - 1 > k /\ r[j - 1] = q[j]
    BY <1>1
  <2> QED BY <1>3, <2>1 DEF Followed
<1>6. \A type : Has(q, type) <=> Head(q).type = type \/ Has(r, type)
  BY <1>1, <1>2, <1>3, <1>4 DEF Has
<1>7. ASSUME StartThenStop(q) PROVE StartThenStop(r) \/ (Head(q).type = "resumed" /\ Has(r, "paused"))
  <2>1. PICK i \in DOMAIN q, j \in DOMAIN q : i < j /\ q[i].type = "resumed" /\ q[j].type = "paused"
    BY <1>7 DEF StartThenStop
  <2>2. j - 1 \in DOMAIN r /\ r[j - 1].type = "paused"
    BY <1>1, <2>1
  <2>3. CASE i = 1
    BY <1>1, <2>1, <2>2, <2>3 DEF Has
  <2>4. CASE i # 1
    <3>1. i - 1 \in DOMAIN r /\ r[i - 1].type = "resumed" /\ i - 1 < j - 1
      BY <1>1, <2>1, <2>4
    <3> QED BY <2>2, <3>1 DEF StartThenStop
  <2> QED BY <2>3, <2>4
<1>8. ASSUME StartThenStop(r) \/ (Head(q).type = "resumed" /\ Has(r, "paused")) PROVE StartThenStop(q)
  <2>1. CASE StartThenStop(r)
    <3>1. PICK i \in DOMAIN r, j \in DOMAIN r : i < j /\ r[i].type = "resumed" /\ r[j].type = "paused"
      BY <2>1 DEF StartThenStop
    <3>2. i + 1 \in DOMAIN q /\ j + 1 \in DOMAIN q /\ i + 1 < j + 1
      BY <1>1, <3>1
    <3>3. q[i + 1].type = "resumed" /\ q[j + 1].type = "paused"
      BY <1>3, <3>1
    <3> QED BY <3>2, <3>3 DEF StartThenStop
  <2>2. CASE Head(q).type = "resumed" /\ Has(r, "paused")
    BY <1>1, <1>3, <1>4, <2>2 DEF StartThenStop, Has
  <2> QED BY <1>8, <2>1, <2>2
<1>9. Managed(q) <=> Managed(r) \/ (Head(q).type = "update" /\ Head(q).status.auto)
  <2>1. ASSUME Managed(q) PROVE Managed(r) \/ (Head(q).type = "update" /\ Head(q).status.auto)
    <3>1. PICK k \in DOMAIN q : q[k].type = "update" /\ q[k].status.auto
      BY <2>1 DEF Managed
    <3>2. CASE k = 1
      BY <1>1, <3>1, <3>2
    <3>3. CASE k # 1
      BY <1>2, <3>1, <3>3 DEF Managed
    <3> QED BY <3>2, <3>3
  <2>2. Managed(r) => Managed(q)
    BY <1>3 DEF Managed
  <2>3. Head(q).type = "update" /\ Head(q).status.auto => Managed(q)
    BY <1>1, <1>4 DEF Managed
  <2> QED BY <2>1, <2>2, <2>3
<1>10. ASSUME NEW stopped, Followed(q, stopped), Head(q).type = "resumed", stopped PROVE Has(r, "paused")
  BY <1>1, <1>2, <1>4, <1>10 DEF Followed, Has
<1>11. ASSUME NEW stopped, Followed(q, stopped), Head(q).type = "paused", ~ stopped PROVE Has(r, "resumed")
  BY <1>1, <1>2, <1>4, <1>11 DEF Followed, Has
<1> QED BY <1>5, <1>6, <1>7, <1>8, <1>9, <1>10, <1>11 DEF r

LEMMA TuplesHave ==
  /\ \A op : ~ HasOp(<<>>, op)
  /\ \A c, op : HasOp(<<c>>, op) <=> c.op = op
  /\ \A c, d, op : HasOp(<<c, d>>, op) <=> c.op = op \/ d.op = op
<1>1. \A op : ~ HasOp(<<>>, op)
  BY DEF HasOp
<1>2. \A c, op : HasOp(<<c>>, op) <=> c.op = op
  BY DEF HasOp
<1>3. ASSUME NEW c, NEW d, NEW op PROVE HasOp(<<c, d>>, op) <=> c.op = op \/ d.op = op
  <2>1. DOMAIN <<c, d>> = {1, 2} /\ <<c, d>>[1] = c /\ <<c, d>>[2] = d
    OBVIOUS
  <2> QED BY <2>1 DEF HasOp
<1> QED BY <1>1, <1>2, <1>3

\* Commands: taken from the front, posted at the end.
LEMMA CommandsHave ==
  ASSUME NEW q \in Seq(Commands)
  PROVE  /\ q # <<>> => \A op : HasOp(q, op) <=> Head(q).op = op \/ HasOp(Tail(q), op)
         /\ \A op : \A c \in Commands : HasOp(Append(q, c), op) <=> HasOp(q, op) \/ c.op = op
         /\ \A op : \A r \in Seq(Commands) : HasOp(q \o r, op) <=> HasOp(q, op) \/ HasOp(r, op)
         /\ \A op : ~ HasOp(<<>>, op)
<1>1. ASSUME q # <<>>, NEW op PROVE HasOp(q, op) <=> Head(q).op = op \/ HasOp(Tail(q), op)
  <2> DEFINE r == Tail(q)
             n == Len(q)
  <2>1. /\ n \in Nat /\ n > 0 /\ DOMAIN q = 1 .. n /\ DOMAIN r = 1 .. (n - 1)
        /\ \A k \in 1 .. (n - 1) : r[k] = q[k + 1]
        /\ Head(q) = q[1]
    BY <1>1, TailIndex
  <2> HIDE DEF r, n
  <2>2. \A k \in DOMAIN q : k # 1 => k - 1 \in DOMAIN r /\ r[k - 1] = q[k]
    BY <2>1
  <2>3. 1 \in DOMAIN q /\ \A k \in DOMAIN r : k + 1 \in DOMAIN q /\ r[k] = q[k + 1]
    BY <2>1
  <2>4. HasOp(q, op) <=> Head(q).op = op \/ HasOp(r, op)
    BY <2>1, <2>2, <2>3 DEF HasOp
  <2> QED BY <2>4 DEF r
<1>2. ASSUME NEW c \in Commands, NEW op PROVE HasOp(Append(q, c), op) <=> HasOp(q, op) \/ c.op = op
  <2> DEFINE r == Append(q, c)
             n == Len(q)
  <2>1. /\ n \in Nat /\ DOMAIN q = 1 .. n /\ DOMAIN r = 1 .. (n + 1)
        /\ \A k \in 1 .. n : r[k] = q[k]
        /\ r[n + 1] = c
    BY AppendIndex
  <2> HIDE DEF r, n
  <2>2. HasOp(r, op) <=> HasOp(q, op) \/ c.op = op
    BY <2>1 DEF HasOp
  <2> QED BY <2>2 DEF r
<1>3. ASSUME NEW r \in Seq(Commands), NEW op PROVE HasOp(q \o r, op) <=> HasOp(q, op) \/ HasOp(r, op)
  <2> DEFINE c == q \o r
             m == Len(q)
             n == Len(r)
  <2>1. /\ m \in Nat /\ n \in Nat /\ DOMAIN q = 1 .. m /\ DOMAIN r = 1 .. n /\ DOMAIN c = 1 .. (m + n)
        /\ \A k \in 1 .. (m + n) : c[k] = IF k <= m THEN q[k] ELSE r[k - m]
    BY ConcatProperties, LenProperties
  <2> HIDE DEF c, m, n
  <2>2. \A k \in DOMAIN q : k \in DOMAIN c /\ c[k] = q[k]
    BY <2>1
  <2>3. \A k \in DOMAIN r : m + k \in DOMAIN c /\ c[m + k] = r[k]
    BY <2>1
  <2>4. \A k \in DOMAIN c : (k \in DOMAIN q /\ c[k] = q[k]) \/ (k - m \in DOMAIN r /\ c[k] = r[k - m])
    BY <2>1
  <2>5. HasOp(c, op) <=> HasOp(q, op) \/ HasOp(r, op)
    BY <2>2, <2>3, <2>4 DEF HasOp
  <2> QED BY <2>5 DEF c
<1>4. \A op : ~ HasOp(<<>>, op)
  BY DEF HasOp
<1> QED BY <1>1, <1>2, <1>3, <1>4

-----------------------------------------------------------------------------
(***************************************************************************)
(* The last notice.  The queue of alerts ends with what the torrent is; a  *)
(* torrent whose start has not been noticed is stopped, unmanaged and has  *)
(* a resume on its way; and without a notice in the queue the last one     *)
(* that was sent is right, or runs ahead of a pause on its way.            *)
(***************************************************************************)
Idle ==
  /\ native.paused /\ ~ native.auto /\ ~ m_nativeStatus.auto /\ ~ Managed(alerts)
  /\ HasOp(cmds, "resume") /\ notice = "resumed"

NotYetIdle == m_startupState = "Starting" /\ ~ Has(alerts, "resumed") => Idle

StartupNotice ==
  m_startupState = "Starting" /\ notice = "paused" => HasOp(cmds, "pause") \/ StartThenStop(alerts)

LastNotice ==
  m_startupState = "Started" /\ ~ Has(alerts, "paused") /\ ~ Has(alerts, "resumed") =>
    /\ notice = "paused" => native.paused \/ HasOp(cmds, "pause")
    /\ native.paused => notice = "paused"

NoticeInv == Followed(alerts, native.paused) /\ NotYetIdle /\ StartupNotice /\ LastNotice

\* Alerts that are no notices were posted or taken.
SameNotices(q, r) ==
  /\ \A type \in {"paused", "resumed"} : Has(r, type) <=> Has(q, type)
  /\ \A stopped : Followed(q, stopped) => Followed(r, stopped)
  /\ StartThenStop(q) => StartThenStop(r)
  /\ Managed(r) => Managed(q) \/ native.auto

LEMMA NoticeKept ==
  ASSUME TypeOK, NoticeInv, SameNotices(alerts, alerts'),
         m_startupState' = m_startupState, notice' = notice, native'.paused = native.paused,
         native'.auto => native.auto,
         m_nativeStatus'.auto => m_nativeStatus.auto \/ native.auto \/ Managed(alerts),
         HasOp(cmds, "pause") => HasOp(cmds', "pause"), HasOp(cmds, "resume") => HasOp(cmds', "resume")
  PROVE  NoticeInv'
<1>1. Followed(alerts', native'.paused)
  BY DEF NoticeInv, SameNotices
<1>2. NotYetIdle'
  BY DEF NoticeInv, SameNotices, NotYetIdle, Idle
<1>3. StartupNotice'
  BY DEF NoticeInv, SameNotices, StartupNotice
<1>4. LastNotice'
  BY DEF NoticeInv, SameNotices, LastNotice
<1> QED BY <1>1, <1>2, <1>3, <1>4 DEF NoticeInv

\* The torrent stops, which is noticed.
LEMMA NoticeOfStop ==
  ASSUME TypeOK, NoticeInv, NEW q \in Seq(Alerts), SameNotices(alerts, q), alerts' = Append(q, Alert("paused")),
         ~ native.paused, native'.paused = TRUE, m_startupState' = m_startupState
  PROVE  NoticeInv'
<1>1. Followed(alerts', native'.paused)
  BY PostPaused
<1>2. /\ Has(alerts', "paused") /\ (Has(alerts', "resumed") <=> Has(alerts, "resumed"))
      /\ Has(alerts, "resumed") => StartThenStop(alerts')
  BY PostPaused DEF SameNotices
<1>3. m_startupState = "Starting" => Has(alerts, "resumed")
  BY DEF NoticeInv, NotYetIdle, Idle
<1>4. NotYetIdle' /\ StartupNotice' /\ LastNotice'
  BY <1>2, <1>3 DEF NotYetIdle, StartupNotice, LastNotice
<1> QED BY <1>1, <1>4 DEF NoticeInv

\* The torrent starts, which is noticed.
LEMMA NoticeOfStart ==
  ASSUME TypeOK, NoticeInv, alerts' = Append(alerts, Alert("resumed")), native'.paused = FALSE,
         m_startupState' = m_startupState, notice' = notice, HasOp(cmds, "pause") => HasOp(cmds', "pause")
  PROVE  NoticeInv'
<1>1. alerts \in Seq(Alerts)
  BY DEF TypeOK
<1>2. Followed(alerts', native'.paused) /\ Has(alerts', "resumed") /\ (StartThenStop(alerts) => StartThenStop(alerts'))
  BY <1>1, PostResumed
<1>3. NotYetIdle' /\ StartupNotice' /\ LastNotice'
  BY <1>2 DEF NoticeInv, NotYetIdle, StartupNotice, LastNotice
<1> QED BY <1>2, <1>3 DEF NoticeInv

LEMMA StopFollows == \A q : Followed(q, TRUE) /\ Has(q, "resumed") => StartThenStop(q)
BY DEF Followed, Has, StartThenStop

LEMMA SameNoticesOnce ==
  /\ \A q : SameNotices(q, q)
  /\ \A q \in Seq(Alerts), a \in Alerts :
       a.type \notin {"paused", "resumed"} /\ (a.type = "update" => a.status.auto = native.auto)
         => SameNotices(q, Append(q, a))
  /\ \A q, r, u : SameNotices(q, r) /\ SameNotices(r, u) => SameNotices(q, u)
<1>1. \A q : SameNotices(q, q)
  BY DEF SameNotices
<1>2. ASSUME NEW q \in Seq(Alerts), NEW a \in Alerts, a.type \notin {"paused", "resumed"},
             a.type = "update" => a.status.auto = native.auto
      PROVE  SameNotices(q, Append(q, a))
  BY <1>2, PostOther DEF SameNotices
<1>3. \A q, r, u : SameNotices(q, r) /\ SameNotices(r, u) => SameNotices(q, u)
  BY DEF SameNotices
<1> QED BY <1>1, <1>2, <1>3

LEMMA RunNotice == TypeOK /\ NoticeInv /\ RunCommand => NoticeInv'
<1> SUFFICES ASSUME TypeOK, NoticeInv, RunCommand PROVE NoticeInv'
  OBVIOUS
<1>1. /\ cmds # <<>> /\ cmds \in Seq(Commands) /\ cmds' = Tail(cmds)
      /\ UNCHANGED <<m_nativeStatus, m_startupState, notice>>
  BY DEF RunCommand, RunPause, RunResume, RunRecheck, RunStopWhenReady, RunPriority, TypeOK, handle
<1>2. \A op : Head(cmds).op # op /\ HasOp(cmds, op) => HasOp(cmds', op)
  BY <1>1, CommandsHave
<1>3. /\ alerts \in Seq(Alerts) /\ native \in Native /\ SameNotices(alerts, alerts)
      /\ native.paused \in BOOLEAN /\ native.stop \in BOOLEAN
  BY SameNoticesOnce DEF TypeOK, Native
<1>4. ASSUME NEW b, NEW type \in {"paused", "resumed"}, alerts' = alerts \o If(b, Alert(type))
      PROVE  alerts' = IF b THEN Append(alerts, Alert(type)) ELSE alerts
  BY <1>3, <1>4, AlertTypes, AppendIf
<1>5. CASE RunPause
  <2>1. native'.paused = TRUE /\ native'.auto = FALSE /\ Head(cmds).op = "pause"
    BY <1>3, <1>5 DEF RunPause, Native
  <2>2. alerts' = IF ~ native.paused THEN Append(alerts, Alert("paused")) ELSE alerts
    BY <1>4, <1>5 DEF RunPause
  <2>3. CASE ~ native.paused
    BY <1>1, <1>3, <2>1, <2>2, <2>3, NoticeOfStop
  <2>4. CASE native.paused
    <3>1. native.paused = TRUE /\ alerts' = alerts
      BY <1>3, <2>2, <2>4
    <3>2. HasOp(cmds, "resume") => HasOp(cmds', "resume")
      BY <1>2, <2>1
    <3>3. Followed(alerts', native'.paused)
      BY <2>1, <3>1 DEF NoticeInv
    <3>4. NotYetIdle'
      BY <1>1, <2>1, <3>1, <3>2 DEF NoticeInv, NotYetIdle, Idle
    <3>5. StartupNotice'
      <4>1. m_startupState = "Starting" /\ notice = "paused" => Has(alerts, "resumed")
        BY DEF NoticeInv, NotYetIdle, Idle
      <4>2. Followed(alerts, TRUE)
        BY <3>1 DEF NoticeInv
      <4> QED BY <1>1, <3>1, <4>1, <4>2, StopFollows DEF StartupNotice
    <3>6. LastNotice'
      BY <1>1, <2>1, <2>4, <3>1 DEF NoticeInv, LastNotice
    <3> QED BY <3>3, <3>4, <3>5, <3>6 DEF NoticeInv
  <2> QED BY <2>3, <2>4
<1>6. CASE RunResume
  <2>1. native'.paused = FALSE /\ Head(cmds).op = "resume"
    BY <1>3, <1>6 DEF RunResume, Native
  <2>2. alerts' = IF native.paused THEN Append(alerts, Alert("resumed")) ELSE alerts
    <3>1. alerts' = alerts \o If(native.paused, Alert("resumed"))
      BY <1>6 DEF RunResume
    <3> QED BY <1>4, <3>1
  <2>3. HasOp(cmds, "pause") => HasOp(cmds', "pause")
    BY <1>2, <2>1
  <2>4. CASE native.paused
    BY <1>1, <2>1, <2>2, <2>3, <2>4, NoticeOfStart
  <2>5. CASE ~ native.paused
    <3>1. native.paused = FALSE /\ alerts' = alerts
      BY <1>3, <2>2, <2>5
    <3>2. Followed(alerts', native'.paused)
      BY <2>1, <3>1 DEF NoticeInv
    <3>3. NotYetIdle' /\ StartupNotice'
      BY <1>1, <2>3, <2>5, <3>1 DEF NoticeInv, NotYetIdle, Idle, StartupNotice
    <3>4. LastNotice'
      BY <1>1, <2>1, <2>3, <2>5, <3>1 DEF NoticeInv, LastNotice
    <3> QED BY <3>2, <3>3, <3>4 DEF NoticeInv
  <2> QED BY <2>4, <2>5
<1>7. CASE RunRecheck \/ RunPriority
  <2>1. /\ native'.paused = native.paused /\ native'.auto = native.auto /\ alerts' = alerts
        /\ Head(cmds).op \notin {"pause", "resume"}
    BY <1>3, <1>7 DEF RunRecheck, RunPriority, Native
  <2> QED BY <1>1, <1>2, <1>3, <2>1, NoticeKept
<1>8. CASE RunStopWhenReady
  <2> DEFINE now == native.phase \notin Checking
  <2>1. /\ native'.paused = (native.paused \/ now) /\ native'.auto = native.auto
        /\ Head(cmds).op \notin {"pause", "resume"}
    BY <1>3, <1>8 DEF RunStopWhenReady, Native
  <2>2. alerts' = IF now /\ ~ native.paused THEN Append(alerts, Alert("paused")) ELSE alerts
    BY <1>4, <1>8 DEF RunStopWhenReady
  <2> HIDE DEF now
  <2>3. CASE now /\ ~ native.paused
    BY <1>1, <1>3, <2>1, <2>2, <2>3, NoticeOfStop
  <2>4. CASE ~ (now /\ ~ native.paused)
    <3>1. native'.paused = native.paused /\ alerts' = alerts
      BY <1>3, <2>1, <2>2, <2>4
    <3> QED BY <1>1, <1>2, <1>3, <2>1, <3>1, NoticeKept
  <2> QED BY <2>3, <2>4
<1> QED BY <1>5, <1>6, <1>7, <1>8 DEF RunCommand

LEMMA NetworkNotice == TypeOK /\ NoticeInv /\ Network => NoticeInv'
<1> SUFFICES ASSUME TypeOK, NoticeInv, Network PROVE NoticeInv'
  OBVIOUS
<1>1. CASE RunCommand
  BY <1>1, RunNotice
<1> SUFFICES ASSUME ~ RunCommand PROVE NoticeInv'
  BY <1>1
<1>2. UNCHANGED <<m_nativeStatus, m_startupState, notice, cmds>>
  BY DEF Network, Metadata, ResumeDataRejected, CheckEnds, Completes, Fails, QueueTurn, PostUpdate, handle
<1>3. /\ alerts \in Seq(Alerts) /\ native \in Native /\ SameNotices(alerts, alerts)
      /\ native.paused \in BOOLEAN /\ native.auto \in BOOLEAN /\ native.stop \in BOOLEAN
  BY SameNoticesOnce DEF TypeOK, Native
<1>4. ASSUME SameNotices(alerts, alerts'), native'.paused = native.paused, native'.auto = native.auto
      PROVE  NoticeInv'
  BY <1>2, <1>4, NoticeKept
<1>5. \A type \in {"finished", "metadata"} : SameNotices(alerts, Append(alerts, Alert(type)))
  <2>1. \A type \in {"finished", "metadata"} :
          Alert(type) \in Alerts /\ Alert(type).type \notin {"paused", "resumed"} /\ Alert(type).type # "update"
    BY AlertTypes DEF Alert
  <2> QED BY <1>3, <2>1, SameNoticesOnce
<1>6. CASE Metadata
  BY <1>3, <1>4, <1>5, <1>6 DEF Metadata, Native
<1>7. CASE ResumeDataRejected
  BY <1>3, <1>4, <1>7 DEF ResumeDataRejected, Native
<1>8. CASE Completes
  BY <1>3, <1>4, <1>5, <1>8 DEF Completes, Native
<1>9. ASSUME NEW complete \in BOOLEAN, CheckEnds(complete) PROVE NoticeInv'
  <2>1. native'.paused = (native.paused \/ native.stop) /\ native'.auto = native.auto
    BY <1>3, <1>9 DEF CheckEnds, Native
  <2>2. PICK a \in Alerts, b \in Alerts, q \in Seq(Alerts) :
          /\ a.type \in {"checked", "finished"} /\ b.type \in {"checked", "finished"}
          /\ q \in {Append(alerts, a), Append(Append(alerts, a), b)}
          /\ alerts' = IF native.stop /\ ~ native.paused THEN Append(q, Alert("paused")) ELSE q
    BY <1>9, CheckPosts
  <2>3. SameNotices(alerts, q)
    <3>1. Append(alerts, a) \in Seq(Alerts) /\ SameNotices(alerts, Append(alerts, a))
      BY <1>3, <2>2, SameNoticesOnce, AppendProperties
    <3>2. SameNotices(Append(alerts, a), Append(Append(alerts, a), b))
      BY <2>2, <3>1, SameNoticesOnce
    <3>3. SameNotices(alerts, Append(Append(alerts, a), b))
      BY <3>1, <3>2, SameNoticesOnce
    <3> QED BY <2>2, <3>1, <3>3
  <2>4. CASE native.stop /\ ~ native.paused
    <3>1. native'.paused = TRUE
      BY <2>1, <2>4
    <3> QED BY <1>2, <2>2, <2>3, <2>4, <3>1, NoticeOfStop
  <2>5. CASE ~ (native.stop /\ ~ native.paused)
    <3>1. native'.paused = native.paused
      BY <1>3, <2>1, <2>5
    <3> QED BY <1>4, <2>1, <2>2, <2>3, <2>5, <3>1
  <2> QED BY <2>4, <2>5
<1>10. CASE Fails
  <2>1. native'.paused = TRUE /\ ~ native.paused /\ alerts' = Append(alerts, Alert("paused"))
    BY <1>3, <1>10 DEF Fails, Native
  <2> QED BY <1>2, <1>3, <2>1, NoticeOfStop
<1>11. CASE QueueTurn
  <2>1. CASE native.paused
    <3>1. native'.paused = FALSE /\ alerts' = Append(alerts, Alert("resumed"))
      BY <1>3, <1>11, <2>1 DEF QueueTurn, Native
    <3> QED BY <1>2, <3>1, NoticeOfStart
  <2>2. CASE ~ native.paused
    <3>1. native'.paused = TRUE /\ alerts' = Append(alerts, Alert("paused"))
      BY <1>3, <1>11, <2>2 DEF QueueTurn, Native
    <3> QED BY <1>2, <1>3, <2>2, <3>1, NoticeOfStop
  <2> QED BY <2>1, <2>2
<1>12. CASE PostUpdate
  <2>1. /\ Update(native) \in Alerts /\ Update(native).type = "update"
        /\ Update(native).status.auto = native.auto
    BY <1>3, AlertTypes DEF Update, StatusOf
  <2> QED BY <1>3, <1>4, <1>12, <2>1, SameNoticesOnce DEF PostUpdate
<1> QED BY <1>6, <1>7, <1>8, <1>9, <1>10, <1>11, <1>12 DEF Network

LEMMA RequestNotice == TypeOK /\ NoticeInv /\ Request => NoticeInv'
<1> SUFFICES ASSUME TypeOK, NoticeInv, Request PROVE NoticeInv'
  OBVIOUS
<1>1. UNCHANGED <<m_nativeStatus, m_startupState, native, alerts>>
  BY DEF Request, pause, resume, forceRecheck, setFirstLastPiecePriority, handle
<1>2. cmds \in Seq(Commands) /\ SameNotices(alerts, alerts)
  BY SameNoticesOnce DEF TypeOK
<1>3. ASSUME notice' = notice, \A op \in {"pause", "resume"} : HasOp(cmds, op) => HasOp(cmds', op)
      PROVE  NoticeInv'
  BY <1>1, <1>2, <1>3, NoticeKept
<1>4. \A op : \A c \in Commands : HasOp(Append(cmds, c), op) <=> HasOp(cmds, op) \/ c.op = op
  BY <1>2, CommandsHave
<1>5. CASE pause
  <2>1. CASE isQueued
    <3>1. Command("pause") \in Commands /\ Command("pause").op = "pause"
      BY CommandTypes DEF Command
    <3>2. cmds' = Append(cmds, Command("pause")) /\ notice' = "paused" /\ m_nativeStatus.auto
      BY <1>5, <2>1 DEF pause, isPaused, isQueued
    <3>3. HasOp(cmds', "pause")
      BY <1>4, <3>1, <3>2
    <3>4. NotYetIdle'
      BY <1>1, <3>2 DEF NoticeInv, NotYetIdle, Idle
    <3>5. Followed(alerts', native'.paused) /\ StartupNotice' /\ LastNotice'
      BY <1>1, <3>2, <3>3 DEF NoticeInv, StartupNotice, LastNotice
    <3> QED BY <3>4, <3>5 DEF NoticeInv
  <2>2. CASE ~ isQueued
    BY <1>3, <1>4, <1>5, <2>2, CommandTypes DEF pause
  <2> QED BY <2>1, <2>2
<1>6. ASSUME NEW forced \in BOOLEAN, resume(forced) PROVE NoticeInv'
  BY <1>3, <1>4, <1>6, ResumeType DEF resume, handle
<1>7. CASE forceRecheck
  <2>1. Command("recheck") \in Commands /\ Command("stopWhenReady") \in Commands /\ resume_impl(TRUE, TRUE) \in Commands
    BY CommandTypes, ResumeType
  <2>2. PICK q \in {<<>>, <<Command("stopWhenReady"), resume_impl(TRUE, TRUE)>>} :
          cmds' = cmds \o <<Command("recheck")>> \o q
    BY <1>7 DEF forceRecheck
  <2>3. <<Command("recheck")>> \in Seq(Commands) /\ q \in Seq(Commands)
    BY <2>1, Tuples
  <2> DEFINE r == cmds \o <<Command("recheck")>>
  <2>4. r \in Seq(Commands) /\ \A op : HasOp(cmds, op) => HasOp(r, op)
    BY <1>2, <2>3, CommandsHave, ConcatProperties
  <2>5. cmds' = r \o q
    BY <2>2
  <2> HIDE DEF r
  <2>6. \A op : HasOp(r, op) => HasOp(cmds', op)
    BY <2>3, <2>4, <2>5, CommandsHave
  <2>7. notice' = notice
    BY <1>7 DEF forceRecheck, handle
  <2> QED BY <1>3, <2>4, <2>6, <2>7
<1>8. ASSUME NEW enabled \in BOOLEAN, setFirstLastPiecePriority(enabled) PROVE NoticeInv'
  <2>1. \A op : HasOp(cmds, op) => HasOp(cmds', op)
    <3>1. \A op : ~ HasOp(<<>>, op)
      BY <1>2, CommandsHave
    <3> QED BY <1>8, <3>1 DEF setFirstLastPiecePriority
  <2> QED BY <1>3, <1>8, <2>1 DEF setFirstLastPiecePriority
<1> QED BY <1>5, <1>6, <1>7, <1>8 DEF Request

LEMMA HandleNotice == TypeOK /\ NoticeInv /\ HandleAlert => NoticeInv'
<1> SUFFICES ASSUME TypeOK, NoticeInv, HandleAlert PROVE NoticeInv'
  OBVIOUS
<1>1. alerts # <<>> /\ alerts' = Tail(alerts) /\ native' = native
  BY DEF HandleAlert, handleStateUpdate, handleTorrentCheckedAlert, handleTorrentFinishedAlert,
         handleTorrentPausedAlert, handleTorrentResumedAlert, handleMetadataReceivedAlert, Handle
<1> DEFINE type == Head(alerts).type
<1>2. /\ alerts \in Seq(Alerts) /\ cmds \in Seq(Commands) /\ native.paused \in BOOLEAN
      /\ m_startupState \in {"Starting", "Started"}
  BY DEF TypeOK, Native
<1>3. /\ \A stopped : Followed(alerts, stopped) => Followed(alerts', stopped)
      /\ \A t : Has(alerts, t) <=> type = t \/ Has(alerts', t)
      /\ StartThenStop(alerts) <=> StartThenStop(alerts') \/ (type = "resumed" /\ Has(alerts', "paused"))
      /\ Managed(alerts) <=> Managed(alerts') \/ (type = "update" /\ Head(alerts).status.auto)
  BY <1>1, <1>2, TakeFirst
<1>4. /\ type = "resumed" /\ native.paused => Has(alerts', "paused")
      /\ type = "paused" /\ ~ native.paused => Has(alerts', "resumed")
  BY <1>1, <1>2, TakeFirst DEF NoticeInv
<1>5. Followed(alerts', native'.paused)
  BY <1>1, <1>3 DEF NoticeInv
<1>6. cmds = <<>> => \A op : ~ HasOp(cmds, op)
  BY <1>2, CommandsHave
<1>7. updateStatus => m_nativeStatus'.auto = native.auto
  BY DEF updateStatus, StatusOf
<1>8. ASSUME type \notin {"paused", "resumed"}, m_startupState' = m_startupState, notice' = notice,
             m_nativeStatus'.auto => m_nativeStatus.auto \/ native.auto \/ Managed(alerts),
             HasOp(cmds, "pause") => HasOp(cmds', "pause"), HasOp(cmds, "resume") => HasOp(cmds', "resume")
      PROVE  NoticeInv'
  <2>1. SameNotices(alerts, alerts')
    BY <1>3, <1>8 DEF SameNotices
  <2> QED BY <1>1, <1>8, <2>1, NoticeKept
<1>9. CASE handleStateUpdate
  <2>1. m_nativeStatus'.auto => Managed(alerts)
    BY <1>3, <1>9 DEF handleStateUpdate, Handle
  <2> QED BY <1>8, <1>9, <2>1 DEF handleStateUpdate, Handle
<1>10. CASE handleTorrentCheckedAlert
  BY <1>7, <1>8, <1>10 DEF handleTorrentCheckedAlert, Handle
<1>11. CASE handleTorrentFinishedAlert
  BY <1>7, <1>8, <1>11 DEF handleTorrentFinishedAlert, Handle
<1>12. CASE handleTorrentPausedAlert
  <2>1. type = "paused" /\ m_startupState' = m_startupState /\ cmds' = cmds
    BY <1>12 DEF handleTorrentPausedAlert, Handle
  <2>2. CASE m_startupState = "Started"
    <3>1. notice' = "paused"
      BY <1>12, <2>2 DEF handleTorrentPausedAlert
    <3>2. ~ Has(alerts', "resumed") => native'.paused
      BY <1>1, <1>4, <2>1
    <3> QED BY <1>5, <2>1, <2>2, <3>1, <3>2 DEF NoticeInv, NotYetIdle, StartupNotice, LastNotice
  <2>3. CASE m_startupState = "Starting"
    <3>1. notice' = notice /\ m_nativeStatus' = m_nativeStatus
      BY <1>12, <2>3 DEF handleTorrentPausedAlert
    <3>2. NotYetIdle'
      BY <1>1, <1>3, <2>1, <3>1 DEF NoticeInv, NotYetIdle, Idle
    <3>3. StartupNotice' /\ LastNotice'
      BY <1>3, <2>1, <2>3, <3>1 DEF NoticeInv, StartupNotice, LastNotice
    <3> QED BY <1>5, <3>2, <3>3 DEF NoticeInv
  <2> QED BY <1>2, <2>2, <2>3
<1>13. CASE handleTorrentResumedAlert
  <2>1. type = "resumed" /\ m_startupState' = "Started" /\ cmds' = cmds
    BY <1>2, <1>13 DEF handleTorrentResumedAlert, Handle
  <2>2. ~ Has(alerts', "paused") => ~ native'.paused
    BY <1>1, <1>4, <2>1
  <2>3. CASE m_startupState = "Started"
    <3>1. notice' = "resumed"
      BY <1>13, <2>3 DEF handleTorrentResumedAlert
    <3> QED BY <1>5, <2>1, <2>2, <3>1 DEF NoticeInv, NotYetIdle, StartupNotice, LastNotice
  <2>4. CASE m_startupState = "Starting"
    <3>1. notice' = notice
      BY <1>13, <2>4 DEF handleTorrentResumedAlert
    <3>2. StartThenStop(alerts) => Has(alerts', "paused")
      BY <1>3 DEF StartThenStop, Has
    <3>3. notice' = "paused" => HasOp(cmds', "pause") \/ Has(alerts', "paused")
      BY <2>1, <2>4, <3>1, <3>2 DEF NoticeInv, StartupNotice
    <3> QED BY <1>5, <2>1, <2>2, <3>3 DEF NoticeInv, NotYetIdle, StartupNotice, LastNotice
  <2> QED BY <1>2, <2>3, <2>4
<1>14. CASE handleMetadataReceivedAlert
  <2>1. type = "metadata" /\ m_startupState' = m_startupState /\ cmds = <<>> /\ updateStatus
    BY <1>14 DEF handleMetadataReceivedAlert, Handle, updateStatus
  <2>2. CASE ~ (native.paused /\ ~ native.auto)
    <3>1. notice' = notice
      BY <1>14, <2>2 DEF handleMetadataReceivedAlert
    <3> QED BY <1>6, <1>7, <1>8, <2>1, <3>1
  <2>3. CASE native.paused /\ ~ native.auto
    <3>1. notice' = "paused"
      BY <1>14, <2>3 DEF handleMetadataReceivedAlert
    <3>2. m_startupState = "Starting" => Has(alerts, "resumed")
      BY <1>6, <2>1 DEF NoticeInv, NotYetIdle, Idle
    <3>3. m_startupState = "Starting" => Has(alerts', "resumed")
      BY <1>3, <2>1, <3>2
    <3>4. Followed(alerts', TRUE)
      <4>1. native'.paused = TRUE
        BY <1>1, <1>2, <2>3
      <4> QED BY <1>5, <4>1
    <3>5. NotYetIdle' /\ StartupNotice'
      BY <2>1, <3>3, <3>4, StopFollows DEF NotYetIdle, StartupNotice
    <3>6. LastNotice'
      BY <1>1, <2>3, <3>1 DEF LastNotice
    <3> QED BY <1>5, <3>5, <3>6 DEF NoticeInv
  <2> QED BY <2>2, <2>3
<1> QED BY <1>9, <1>10, <1>11, <1>12, <1>13, <1>14 DEF HandleAlert

LEMMA InitNotice == Init => NoticeInv
<1> SUFFICES ASSUME Init PROVE NoticeInv
  OBVIOUS
<1>1. native.paused = TRUE /\ ~ native.auto /\ native.auto \in BOOLEAN
  BY DEF Init
<1>2. alerts \in {<<>>, <<Alert("paused")>>, <<Alert("metadata"), Alert("paused")>>}
  BY DEF Init
<1>3. ~ Has(alerts, "resumed") /\ ~ Managed(alerts)
  BY <1>2 DEF Has, Managed, Alert
<1>4. Followed(alerts, native.paused)
  BY <1>1, <1>3 DEF Followed, Has
<1>5. PICK paused \in BOOLEAN, forced \in BOOLEAN, skipChecking \in BOOLEAN, firstLast \in BOOLEAN :
        Constructed(paused, forced, skipChecking, firstLast)
  BY DEF Init
<1>6. ~ m_nativeStatus.auto
  BY <1>1, <1>5 DEF Constructed, StatusOf
<1>7. CASE paused
  BY <1>1, <1>4, <1>5, <1>7 DEF Constructed, NoticeInv, NotYetIdle, StartupNotice, LastNotice
<1>8. CASE ~ paused
  <2>1. m_startupState = "Starting" /\ notice = "resumed"
    BY <1>5, <1>8 DEF Constructed
  <2>2. HasOp(cmds, "resume")
    <3>1. resume_impl(forced, FALSE) \in Commands /\ resume_impl(forced, FALSE).op = "resume"
      BY InitTyped, ResumeType DEF resume_impl, Resume
    <3>2. PICK p \in {<<>>, <<PriorityCommand(firstLast)>>} : cmds = p \o <<resume_impl(forced, FALSE)>>
      BY <1>5, <1>8 DEF Constructed
    <3>3. p \in Seq(Commands)
      <4>1. PriorityCommand(firstLast) \in Commands
        BY CommandTypes
      <4>2. <<>> \in Seq(Commands) /\ <<PriorityCommand(firstLast)>> \in Seq(Commands)
        BY <4>1, Tuples
      <4> QED BY <4>2
    <3>4. cmds = Append(p, resume_impl(forced, FALSE))
      BY <3>1, <3>2, <3>3, AppendIsConcat
    <3> QED BY <3>1, <3>3, <3>4, CommandsHave
  <2> QED BY <1>1, <1>3, <1>4, <1>6, <2>1, <2>2 DEF NoticeInv, NotYetIdle, Idle, StartupNotice, LastNotice
<1> QED BY <1>7, <1>8

LEMMA NextNotice == TypeOK /\ NoticeInv /\ [Next]_vars => NoticeInv'
<1>1. ASSUME NoticeInv, UNCHANGED vars PROVE NoticeInv'
  BY <1>1 DEF vars, handle, NoticeInv, NotYetIdle, Idle, StartupNotice, LastNotice
<1> QED BY <1>1, NetworkNotice, RequestNotice, HandleNotice DEF Next

\* When nothing is on its way, the last notice of the session agrees with the torrent.
THEOREM NoticeIsRight == Spec => []NoticeAgrees
<1>1. TypeOK /\ NoticeInv => NoticeAgrees
  <2> SUFFICES ASSUME TypeOK, NoticeInv, cmds = <<>>, alerts = <<>> PROVE (notice = "paused") = native.paused
    BY DEF NoticeAgrees, Rest
  <2>1. /\ ~ HasOp(cmds, "pause") /\ ~ HasOp(cmds, "resume")
        /\ ~ Has(alerts, "paused") /\ ~ Has(alerts, "resumed")
    BY DEF HasOp, Has
  <2>2. m_startupState = "Started"
    BY <2>1 DEF TypeOK, NoticeInv, NotYetIdle, Idle
  <2>3. (notice = "paused" => native.paused) /\ (native.paused => notice = "paused")
    BY <2>1, <2>2 DEF NoticeInv, LastNotice
  <2>4. native.paused \in BOOLEAN
    BY DEF TypeOK, Native
  <2> QED BY <2>3, <2>4
<1> QED BY <1>1, InitTyped, InitNotice, NextTyped, NextNotice, PTL DEF Spec

\* A handle that was added to run and is still starting (m_startupState, of which
\* nothing but the alert of its start makes an end: torrenthandle.cpp:1474) has that
\* alert, or the resume that will bring it, on its way, whatever was asked for since.
THEOREM StartUnderWay ==
  Spec => [](m_startupState = "Starting" => HasOp(cmds, "resume") \/ Has(alerts, "resumed"))
<1>1. NoticeInv => (m_startupState = "Starting" => HasOp(cmds, "resume") \/ Has(alerts, "resumed"))
  BY DEF NoticeInv, NotYetIdle, Idle
<1> QED BY <1>1, InitTyped, InitNotice, NextTyped, NextNotice, PTL DEF Spec

-----------------------------------------------------------------------------
(***************************************************************************)
(* The metadata.  What the handle knows of it follows the torrent in the   *)
(* order of the alerts: a status without metadata is never behind the      *)
(* alert that brings it.                                                   *)
(***************************************************************************)
Blank(a) == a.type = "update" /\ a.status.phase = "metadata"
Filled(a) == a.type = "update" /\ a.status.phase # "metadata"
HasBlank(q) == \E k \in DOMAIN q : Blank(q[k])
HasFilled(q) == \E k \in DOMAIN q : Filled(q[k])

Ordered(q) ==
  \A k, j \in DOMAIN q : q[k].type = "metadata" /\ j > k => q[j].type # "metadata" /\ ~ Blank(q[j])

MetadataInv ==
  /\ Ordered(alerts)
  /\ native.phase = "metadata" =>
       /\ m_nativeStatus.phase = "metadata" /\ ~ HasOp(cmds, "recheck")
       /\ ~ Has(alerts, "metadata") /\ ~ HasFilled(alerts)
  /\ native.phase # "metadata" /\ ~ Has(alerts, "metadata") =>
       m_nativeStatus.phase # "metadata" /\ ~ HasBlank(alerts)

\* There is no metadata yet, or its alert waits.
MetadataPending == native.phase = "metadata" \/ Has(alerts, "metadata")

LEMMA PostOrdered ==
  ASSUME NEW q \in Seq(Alerts), NEW a \in Alerts
  PROVE  LET r == Append(q, a) IN
         /\ Has(r, "metadata") <=> Has(q, "metadata") \/ a.type = "metadata"
         /\ HasBlank(r) => HasBlank(q) \/ Blank(a)
         /\ HasFilled(r) => HasFilled(q) \/ Filled(a)
         /\ Ordered(q) /\ (Has(q, "metadata") => a.type # "metadata" /\ ~ Blank(a)) => Ordered(r)
<1> DEFINE r == Append(q, a)
           n == Len(q)
<1>1. /\ n \in Nat /\ DOMAIN q = 1 .. n /\ DOMAIN r = 1 .. (n + 1)
      /\ \A k \in 1 .. n : r[k] = q[k]
      /\ r[n + 1] = a
  BY AppendIndex
<1> HIDE DEF r, n
<1>2. Has(r, "metadata") <=> Has(q, "metadata") \/ a.type = "metadata"
  BY <1>1 DEF Has
<1>3. (HasBlank(r) => HasBlank(q) \/ Blank(a)) /\ (HasFilled(r) => HasFilled(q) \/ Filled(a))
  BY <1>1 DEF HasBlank, HasFilled
<1>4. ASSUME Ordered(q), Has(q, "metadata") => a.type # "metadata" /\ ~ Blank(a) PROVE Ordered(r)
  <2> SUFFICES ASSUME NEW k \in DOMAIN r, NEW j \in DOMAIN r, r[k].type = "metadata", j > k
               PROVE  r[j].type # "metadata" /\ ~ Blank(r[j])
    BY DEF Ordered
  <2>1. k \in DOMAIN q /\ r[k] = q[k]
    BY <1>1
  <2>2. CASE j = n + 1
    BY <1>1, <1>4, <2>1, <2>2 DEF Has
  <2>3. CASE j # n + 1
    <3>1. j \in DOMAIN q /\ r[j] = q[j]
      BY <1>1, <2>3
    <3> QED BY <1>4, <2>1, <3>1 DEF Ordered
  <2> QED BY <2>2, <2>3
<1> QED BY <1>2, <1>3, <1>4 DEF r

LEMMA TakeOrdered ==
  ASSUME NEW q \in Seq(Alerts), q # <<>>
  PROVE  LET r == Tail(q) IN
         /\ Has(q, "metadata") <=> Head(q).type = "metadata" \/ Has(r, "metadata")
         /\ HasBlank(r) \/ Blank(Head(q)) => HasBlank(q)
         /\ HasFilled(r) \/ Filled(Head(q)) => HasFilled(q)
         /\ Ordered(q) => Ordered(r)
         /\ Ordered(q) /\ Head(q).type = "metadata" => ~ Has(r, "metadata") /\ ~ HasBlank(r)
<1> DEFINE r == Tail(q)
           n == Len(q)
<1>1. /\ n \in Nat /\ n > 0 /\ DOMAIN q = 1 .. n /\ DOMAIN r = 1 .. (n - 1)
      /\ \A k \in 1 .. (n - 1) : r[k] = q[k + 1]
      /\ Head(q) = q[1]
  BY TailIndex
<1>2. Has(q, "metadata") <=> Head(q).type = "metadata" \/ Has(r, "metadata")
  BY TakeFirst
<1> HIDE DEF r, n
<1>3. \A k \in DOMAIN r : k + 1 \in DOMAIN q /\ k + 1 > 1 /\ r[k] = q[k + 1]
  BY <1>1
<1>4. 1 \in DOMAIN q
  BY <1>1
<1>5. /\ HasBlank(r) \/ Blank(Head(q)) => HasBlank(q)
      /\ HasFilled(r) \/ Filled(Head(q)) => HasFilled(q)
  BY <1>1, <1>3, <1>4 DEF HasBlank, HasFilled
<1>6. ASSUME Ordered(q) PROVE Ordered(r)
  <2> SUFFICES ASSUME NEW k \in DOMAIN r, NEW j \in DOMAIN r, r[k].type = "metadata", j > k
               PROVE  r[j].type # "metadata" /\ ~ Blank(r[j])
    BY DEF Ordered
  <2>1. k + 1 \in DOMAIN q /\ j + 1 \in DOMAIN q /\ j + 1 > k + 1 /\ r[k] = q[k + 1] /\ r[j] = q[j + 1]
    BY <1>1
  <2> QED BY <1>6, <2>1 DEF Ordered
<1>7. ASSUME Ordered(q), Head(q).type = "metadata" PROVE ~ Has(r, "metadata") /\ ~ HasBlank(r)
  BY <1>1, <1>3, <1>4, <1>7 DEF Ordered, Has, HasBlank
<1> QED BY <1>2, <1>5, <1>6, <1>7 DEF r

\* Alerts that say nothing of the metadata were posted.
SameMetadata(q, r) ==
  /\ Has(r, "metadata") <=> Has(q, "metadata")
  /\ HasBlank(r) => HasBlank(q)
  /\ HasFilled(r) => HasFilled(q)
  /\ Ordered(q) => Ordered(r)

LEMMA SameMetadataOnce ==
  /\ \A q : SameMetadata(q, q)
  /\ \A q \in Seq(Alerts), a \in Alerts : a.type \notin {"metadata", "update"} => SameMetadata(q, Append(q, a))
  /\ \A q, r, u : SameMetadata(q, r) /\ SameMetadata(r, u) => SameMetadata(q, u)
<1>1. \A q : SameMetadata(q, q)
  BY DEF SameMetadata
<1>2. ASSUME NEW q \in Seq(Alerts), NEW a \in Alerts, a.type \notin {"metadata", "update"}
      PROVE  SameMetadata(q, Append(q, a))
  BY <1>2, PostOrdered DEF SameMetadata, Blank, Filled
<1>3. \A q, r, u : SameMetadata(q, r) /\ SameMetadata(r, u) => SameMetadata(q, u)
  BY DEF SameMetadata
<1> QED BY <1>1, <1>2, <1>3

LEMMA MetadataKept ==
  ASSUME MetadataInv, SameMetadata(alerts, alerts'), m_nativeStatus' = m_nativeStatus,
         native'.phase = "metadata" <=> native.phase = "metadata",
         native.phase = "metadata" /\ HasOp(cmds', "recheck") => HasOp(cmds, "recheck")
  PROVE  MetadataInv'
BY DEF MetadataInv, SameMetadata

LEMMA RunMetadata ==
  ASSUME TypeOK, MetadataInv, RunCommand
  PROVE  /\ SameMetadata(alerts, alerts') /\ (native'.phase = "metadata" <=> native.phase = "metadata")
         /\ MetadataInv'
<1>1. /\ cmds # <<>> /\ cmds \in Seq(Commands) /\ cmds' = Tail(cmds)
      /\ m_nativeStatus' = m_nativeStatus
  BY DEF RunCommand, RunPause, RunResume, RunRecheck, RunStopWhenReady, RunPriority, TypeOK, handle
<1>2. \A op : HasOp(cmds, op) <=> Head(cmds).op = op \/ HasOp(cmds', op)
  BY <1>1, CommandsHave
<1>3. alerts \in Seq(Alerts) /\ native \in Native
  BY DEF TypeOK
<1>4. ASSUME NEW b, NEW type \in {"paused", "resumed"}, alerts' = alerts \o If(b, Alert(type))
      PROVE  SameMetadata(alerts, alerts')
  <2>1. Alert(type) \in Alerts /\ Alert(type).type \notin {"metadata", "update"}
    BY AlertTypes DEF Alert
  <2>2. alerts' = IF b THEN Append(alerts, Alert(type)) ELSE alerts
    BY <1>3, <1>4, <2>1, AppendIf
  <2> QED BY <1>3, <2>1, <2>2, SameMetadataOnce
<1>5. SameMetadata(alerts, alerts')
  <2>1. CASE RunPause
    BY <1>4, <2>1 DEF RunPause
  <2>2. CASE RunResume
    <3>1. alerts' = alerts \o If(native.paused, Alert("resumed"))
      BY <2>2 DEF RunResume
    <3> QED BY <1>4, <3>1
  <2>3. CASE RunStopWhenReady
    BY <1>4, <2>3 DEF RunStopWhenReady
  <2>4. CASE RunRecheck \/ RunPriority
    BY <2>4, SameMetadataOnce DEF RunRecheck, RunPriority
  <2> QED BY <2>1, <2>2, <2>3, <2>4 DEF RunCommand
<1>6. native'.phase = "metadata" <=> native.phase = "metadata"
  <2>1. CASE RunRecheck
    <3>1. HasOp(cmds, "recheck")
      BY <1>2, <2>1 DEF RunRecheck
    <3>2. native'.phase = "checking"
      BY <1>3, <2>1 DEF RunRecheck, Native
    <3> QED BY <3>1, <3>2 DEF MetadataInv
  <2>2. CASE RunPause \/ RunResume \/ RunStopWhenReady \/ RunPriority
    BY <1>3, <2>2 DEF RunPause, RunResume, RunStopWhenReady, RunPriority, Native
  <2> QED BY <2>1, <2>2 DEF RunCommand
<1> QED BY <1>1, <1>2, <1>5, <1>6, MetadataKept

LEMMA NetworkMetadata ==
  ASSUME TypeOK, MetadataInv, Network
  PROVE  MetadataInv' /\ (MetadataPending => MetadataPending')
<1> DEFINE Kept == MetadataInv' /\ (MetadataPending => MetadataPending')
<1>1. CASE RunCommand
  BY <1>1, RunMetadata DEF SameMetadata, MetadataPending
<1> SUFFICES ASSUME ~ RunCommand PROVE Kept
  BY <1>1
<1>2. UNCHANGED <<m_nativeStatus, cmds>>
  BY DEF Network, Metadata, ResumeDataRejected, CheckEnds, Completes, Fails, QueueTurn, PostUpdate, handle
<1>3. alerts \in Seq(Alerts) /\ native \in Native
  BY DEF TypeOK
<1>4. ASSUME SameMetadata(alerts, alerts'), native'.phase = "metadata" <=> native.phase = "metadata"
      PROVE  Kept
  BY <1>2, <1>4, MetadataKept DEF SameMetadata, MetadataPending
<1>5. \A q \in Seq(Alerts), type \in {"paused", "resumed", "finished"} :
        SameMetadata(q, Append(q, Alert(type))) /\ Append(q, Alert(type)) \in Seq(Alerts)
  <2>1. \A type \in {"paused", "resumed", "finished"} :
          Alert(type) \in Alerts /\ Alert(type).type \notin {"metadata", "update"}
    BY AlertTypes DEF Alert
  <2> QED BY <2>1, SameMetadataOnce, AppendProperties
<1>6. CASE Metadata
  <2>1. Alert("metadata") \in Alerts /\ Alert("metadata").type = "metadata" /\ alerts' = Append(alerts, Alert("metadata"))
    BY <1>6, AlertTypes DEF Metadata, Alert
  <2>2. native'.phase # "metadata" /\ ~ Has(alerts, "metadata")
    BY <1>3, <1>6 DEF Metadata, MetadataInv, Native
  <2>3. Ordered(alerts') /\ Has(alerts', "metadata")
    BY <1>3, <2>1, <2>2, PostOrdered DEF MetadataInv
  <2> QED BY <2>2, <2>3 DEF MetadataInv, MetadataPending
<1>7. CASE ResumeDataRejected
  BY <1>3, <1>4, <1>7, SameMetadataOnce DEF ResumeDataRejected, Native
<1>8. CASE Completes
  <2>1. native.phase # "metadata" /\ native'.phase # "metadata"
    BY <1>3, <1>8 DEF Completes, Native
  <2> QED BY <1>3, <1>4, <1>5, <1>8, <2>1 DEF Completes
<1>9. ASSUME NEW complete \in BOOLEAN, CheckEnds(complete) PROVE Kept
  <2>1. native.phase # "metadata" /\ native'.phase # "metadata"
    BY <1>3, <1>9 DEF CheckEnds, Native, Checking
  <2>2. PICK a \in Alerts, b \in Alerts, q \in Seq(Alerts) :
          /\ a.type \in {"checked", "finished"} /\ b.type \in {"checked", "finished"}
          /\ q \in {Append(alerts, a), Append(Append(alerts, a), b)}
          /\ alerts' = IF native.stop /\ ~ native.paused THEN Append(q, Alert("paused")) ELSE q
    BY <1>9, CheckPosts
  <2>3. SameMetadata(alerts, q)
    <3>1. Append(alerts, a) \in Seq(Alerts) /\ SameMetadata(alerts, Append(alerts, a))
      BY <1>3, <2>2, SameMetadataOnce, AppendProperties
    <3>2. SameMetadata(Append(alerts, a), Append(Append(alerts, a), b))
      BY <2>2, <3>1, SameMetadataOnce
    <3>3. SameMetadata(alerts, Append(Append(alerts, a), b))
      BY <3>1, <3>2, SameMetadataOnce
    <3> QED BY <2>2, <3>1, <3>3
  <2>4. SameMetadata(q, alerts')
    BY <1>5, <2>2, SameMetadataOnce
  <2>5. SameMetadata(alerts, alerts')
    BY <2>3, <2>4, SameMetadataOnce
  <2> QED BY <1>4, <2>1, <2>5
<1>10. CASE Fails
  <2>1. native'.phase = native.phase
    BY <1>3, <1>10 DEF Fails, Native
  <2> QED BY <1>3, <1>4, <1>5, <1>10, <2>1 DEF Fails
<1>11. CASE QueueTurn
  <2>1. native'.phase = native.phase
    BY <1>3, <1>11 DEF QueueTurn, Native
  <2> QED BY <1>3, <1>4, <1>5, <1>11, <2>1 DEF QueueTurn
<1>12. CASE PostUpdate
  <2> DEFINE a == Update(native)
  <2>1. a \in Alerts /\ a.type = "update" /\ a.status.phase = native.phase
    BY <1>3, AlertTypes DEF Update, StatusOf
  <2>2. (Blank(a) <=> native.phase = "metadata") /\ (Filled(a) <=> native.phase # "metadata")
    BY <2>1 DEF Blank, Filled
  <2>3. alerts' = Append(alerts, a) /\ native' = native
    BY <1>12 DEF PostUpdate
  <2> HIDE DEF a
  <2>4. /\ Has(alerts', "metadata") <=> Has(alerts, "metadata")
        /\ HasBlank(alerts') => HasBlank(alerts) \/ Blank(a)
        /\ HasFilled(alerts') => HasFilled(alerts) \/ Filled(a)
        /\ Ordered(alerts')
    BY <1>3, <2>1, <2>2, <2>3, PostOrdered DEF MetadataInv
  <2> QED BY <1>2, <2>2, <2>3, <2>4 DEF MetadataInv, MetadataPending
<1> QED BY <1>6, <1>7, <1>8, <1>9, <1>10, <1>11, <1>12 DEF Network

\* What a request posts.
LEMMA RequestPosts ==
  ASSUME TypeOK, Request
  PROVE  /\ UNCHANGED <<m_nativeStatus, native, alerts>>
         /\ HasOp(cmds', "recheck") => HasOp(cmds, "recheck") \/ hasMetadata
         /\ ~ (\E enabled \in BOOLEAN : setFirstLastPiecePriority(enabled)) =>
              /\ \A op \in {"priorityOn", "priorityOff"} : HasOp(cmds', op) <=> HasOp(cmds, op)
              /\ UNCHANGED <<m_needsPriority, wantPriority, crossed>>
<1>1. UNCHANGED <<m_nativeStatus, native, alerts>>
  BY DEF Request, pause, resume, forceRecheck, setFirstLastPiecePriority, handle
<1>2. cmds \in Seq(Commands)
  BY DEF TypeOK
<1>3. \A op : \A c \in Commands : HasOp(Append(cmds, c), op) <=> HasOp(cmds, op) \/ c.op = op
  BY <1>2, CommandsHave
<1>4. CASE pause
  <2>1. Command("pause") \in Commands /\ Command("pause").op = "pause"
    BY CommandTypes DEF Command
  <2> QED BY <1>1, <1>3, <1>4, <2>1 DEF pause
<1>5. ASSUME NEW forced \in BOOLEAN, resume(forced)
      PROVE  /\ HasOp(cmds', "recheck") => HasOp(cmds, "recheck")
             /\ \A op \in {"priorityOn", "priorityOff"} : HasOp(cmds', op) <=> HasOp(cmds, op)
             /\ UNCHANGED <<m_needsPriority, wantPriority, crossed>>
  <2>1. resume_impl(forced, FALSE) \in Commands /\ resume_impl(forced, FALSE).op = "resume"
    BY ResumeType DEF resume_impl, Resume
  <2> QED BY <1>3, <1>5, <2>1 DEF resume, handle
<1>6. ASSUME forceRecheck
      PROVE  /\ hasMetadata
             /\ \A op \in {"priorityOn", "priorityOff"} : HasOp(cmds', op) <=> HasOp(cmds, op)
             /\ UNCHANGED <<m_needsPriority, wantPriority, crossed>>
  <2>1. /\ Command("recheck") \in Commands /\ Command("recheck").op = "recheck"
        /\ Command("stopWhenReady") \in Commands /\ Command("stopWhenReady").op = "stopWhenReady"
        /\ resume_impl(TRUE, TRUE) \in Commands /\ resume_impl(TRUE, TRUE).op = "resume"
    BY CommandTypes, ResumeType DEF Command, resume_impl, Resume
  <2>2. PICK q \in {<<>>, <<Command("stopWhenReady"), resume_impl(TRUE, TRUE)>>} :
          cmds' = cmds \o <<Command("recheck")>> \o q
    BY <1>6 DEF forceRecheck
  <2>3. <<Command("recheck")>> \in Seq(Commands) /\ q \in Seq(Commands)
    BY <2>1, Tuples
  <2>4. \A op \in {"priorityOn", "priorityOff"} : ~ HasOp(q, op) /\ ~ HasOp(<<Command("recheck")>>, op)
    <3>1. \A op \in {"priorityOn", "priorityOff"} :
            ~ HasOp(<<Command("stopWhenReady"), resume_impl(TRUE, TRUE)>>, op)
      BY <2>1, TuplesHave
    <3>2. \A op \in {"priorityOn", "priorityOff"} : ~ HasOp(<<Command("recheck")>>, op) /\ ~ HasOp(<<>>, op)
      BY <2>1, TuplesHave
    <3>3. q = <<>> \/ q = <<Command("stopWhenReady"), resume_impl(TRUE, TRUE)>>
      BY <2>2
    <3> QED BY <3>1, <3>2, <3>3
  <2> DEFINE r == cmds \o <<Command("recheck")>>
  <2>5. r \in Seq(Commands) /\ \A op : HasOp(r, op) <=> HasOp(cmds, op) \/ HasOp(<<Command("recheck")>>, op)
    <3>1. r \in Seq(Commands)
      BY <1>2, <2>3, ConcatProperties
    <3>2. \A op : HasOp(r, op) <=> HasOp(cmds, op) \/ HasOp(<<Command("recheck")>>, op)
      BY <1>2, <2>3, CommandsHave
    <3> QED BY <3>1, <3>2
  <2>6. cmds' = r \o q
    BY <2>2
  <2> HIDE DEF r
  <2>7. \A op : HasOp(cmds', op) <=> HasOp(r, op) \/ HasOp(q, op)
    BY <2>3, <2>5, <2>6, CommandsHave
  <2> QED BY <1>6, <2>4, <2>5, <2>7 DEF forceRecheck, handle
<1>7. ASSUME NEW enabled \in BOOLEAN, setFirstLastPiecePriority(enabled)
      PROVE  HasOp(cmds', "recheck") => HasOp(cmds, "recheck")
  <2>1. PriorityCommand(enabled).op # "recheck"
    BY DEF PriorityCommand, Command
  <2> QED BY <1>7, <2>1 DEF setFirstLastPiecePriority, HasOp
<1>8. CASE \E forced \in BOOLEAN : resume(forced)
  BY <1>1, <1>5, <1>8
<1>9. CASE forceRecheck
  BY <1>1, <1>6, <1>9
<1>10. CASE \E enabled \in BOOLEAN : setFirstLastPiecePriority(enabled)
  BY <1>1, <1>7, <1>10
<1>11. CASE pause
  <2>1. HasOp(cmds', "recheck") => HasOp(cmds, "recheck")
    BY <1>4, <1>11, <1>3, CommandTypes DEF pause, Command
  <2>2. \A op \in {"priorityOn", "priorityOff"} : HasOp(cmds', op) <=> HasOp(cmds, op)
    BY <1>3, <1>11, CommandTypes DEF pause, Command
  <2> QED BY <1>1, <1>11, <2>1, <2>2 DEF pause
<1> QED BY <1>8, <1>9, <1>10, <1>11 DEF Request

LEMMA RequestMetadata == TypeOK /\ MetadataInv /\ Request => MetadataInv'
<1> SUFFICES ASSUME TypeOK, MetadataInv, Request PROVE MetadataInv'
  OBVIOUS
<1>1. UNCHANGED <<m_nativeStatus, native, alerts>> /\ SameMetadata(alerts, alerts)
  BY RequestPosts, SameMetadataOnce
<1>2. native.phase = "metadata" /\ HasOp(cmds', "recheck") => HasOp(cmds, "recheck")
  BY RequestPosts DEF MetadataInv, hasMetadata
<1> QED BY <1>1, <1>2, MetadataKept

\* The metadata alert is handled: the handle knows of the metadata from then on.
LEMMA HandleMetadata == TypeOK /\ MetadataInv /\ HandleAlert => MetadataInv'
<1> SUFFICES ASSUME TypeOK, MetadataInv, HandleAlert PROVE MetadataInv'
  OBVIOUS
<1>1. alerts # <<>> /\ alerts' = Tail(alerts) /\ native' = native
  BY DEF HandleAlert, handleStateUpdate, handleTorrentCheckedAlert, handleTorrentFinishedAlert,
         handleTorrentPausedAlert, handleTorrentResumedAlert, handleMetadataReceivedAlert, Handle
<1>2. alerts \in Seq(Alerts) /\ cmds \in Seq(Commands)
  BY DEF TypeOK
<1>3. /\ Has(alerts, "metadata") <=> Head(alerts).type = "metadata" \/ Has(alerts', "metadata")
      /\ HasBlank(alerts') \/ Blank(Head(alerts)) => HasBlank(alerts)
      /\ HasFilled(alerts') \/ Filled(Head(alerts)) => HasFilled(alerts)
      /\ Ordered(alerts')
      /\ Head(alerts).type = "metadata" => ~ Has(alerts', "metadata") /\ ~ HasBlank(alerts')
  BY <1>1, <1>2, TakeOrdered DEF MetadataInv
<1>4. updateStatus => m_nativeStatus'.phase = native.phase
  BY DEF updateStatus, StatusOf
<1>5. CASE handleMetadataReceivedAlert
  <2>1. Head(alerts).type = "metadata" /\ m_nativeStatus'.phase = native.phase
    BY <1>4, <1>5 DEF handleMetadataReceivedAlert, Handle
  <2>2. native.phase # "metadata"
    BY <1>3, <2>1 DEF MetadataInv
  <2> QED BY <1>1, <1>3, <2>1, <2>2 DEF MetadataInv
<1>6. CASE ~ handleMetadataReceivedAlert
  <2>1. Head(alerts).type # "metadata" /\ cmds' = cmds
    BY <1>6 DEF HandleAlert, handleStateUpdate, handleTorrentCheckedAlert, handleTorrentFinishedAlert,
           handleTorrentPausedAlert, handleTorrentResumedAlert, Handle
  <2>2. CASE m_nativeStatus' = m_nativeStatus \/ m_nativeStatus'.phase = native.phase
    BY <1>1, <1>3, <2>1, <2>2 DEF MetadataInv
  <2>3. CASE handleStateUpdate
    <3>1. Head(alerts).type = "update" /\ m_nativeStatus' = Head(alerts).status
      BY <2>3 DEF handleStateUpdate, Handle
    <3> QED BY <1>1, <1>3, <2>1, <3>1 DEF MetadataInv, Blank, Filled
  <2>4. handleStateUpdate \/ m_nativeStatus' = m_nativeStatus \/ m_nativeStatus'.phase = native.phase
    BY <1>4, <1>6 DEF HandleAlert, handleTorrentCheckedAlert, handleTorrentFinishedAlert,
           handleTorrentPausedAlert, handleTorrentResumedAlert
  <2> QED BY <2>2, <2>3, <2>4
<1> QED BY <1>5, <1>6

LEMMA InitMetadata == Init => MetadataInv
<1> SUFFICES ASSUME Init PROVE MetadataInv
  OBVIOUS
<1>1. alerts \in {<<>>, <<Alert("paused")>>, <<Alert("metadata"), Alert("paused")>>}
  BY DEF Init
<1>2. Ordered(alerts) /\ ~ HasBlank(alerts) /\ ~ HasFilled(alerts)
  BY <1>1 DEF Ordered, HasBlank, HasFilled, Blank, Filled, Alert
<1>3. PICK paused \in BOOLEAN, forced \in BOOLEAN, skipChecking \in BOOLEAN, firstLast \in BOOLEAN :
        Constructed(paused, forced, skipChecking, firstLast)
  BY DEF Init
<1>4. m_nativeStatus.phase = native.phase
  BY <1>3 DEF Constructed, StatusOf
<1>5. native.phase = "metadata" => ~ Has(alerts, "metadata")
  <2>1. AddedFile(native, alerts) \/ PreloadedMagnet(native, alerts)
    BY DEF Init
  <2> QED BY <2>1 DEF AddedFile, PreloadedMagnet, Has, Alert
<1>6. ~ HasOp(cmds, "recheck")
  <2>1. PICK p \in {<<>>, <<PriorityCommand(firstLast)>>}, r \in {<<>>, <<resume_impl(forced, FALSE)>>} : cmds = p \o r
    BY <1>3 DEF Constructed
  <2>2. p \in Seq(Commands) /\ r \in Seq(Commands)
    <3>1. PriorityCommand(firstLast) \in Commands /\ resume_impl(forced, FALSE) \in Commands
      BY CommandTypes, InitTyped, ResumeType
    <3> QED BY <3>1, Tuples
  <2>3. ~ HasOp(p, "recheck") /\ ~ HasOp(r, "recheck")
    BY <2>1 DEF HasOp, PriorityCommand, Command, resume_impl, Resume
  <2> QED BY <2>1, <2>2, <2>3, CommandsHave
<1> QED BY <1>2, <1>4, <1>5, <1>6 DEF MetadataInv

LEMMA NextMetadata == TypeOK /\ MetadataInv /\ [Next]_vars => MetadataInv'
<1>1. ASSUME MetadataInv, UNCHANGED vars PROVE MetadataInv'
  BY <1>1 DEF vars, handle, MetadataInv
<1> QED BY <1>1, NetworkMetadata, RequestMetadata, HandleMetadata DEF Next

-----------------------------------------------------------------------------
(***************************************************************************)
(* The priority of the first and last pieces: it waits with the handle for *)
(* the metadata, or it was given to the torrent and is on its way or set.  *)
(***************************************************************************)
NoPriority == ~ HasOp(cmds, "priorityOn") /\ ~ HasOp(cmds, "priorityOff")

Waiting == m_needsPriority = wantPriority /\ NoPriority /\ ~ native.priority

Given ==
  /\ ~ m_needsPriority
  /\ HasOp(cmds, "priorityOn") => wantPriority
  /\ HasOp(cmds, "priorityOff") => ~ wantPriority
  /\ NoPriority => native.priority = wantPriority

PriorityInv ==
  /\ native.phase = "metadata" => NoPriority /\ ~ native.priority
  /\ ~ crossed => (MetadataPending /\ Waiting) \/ Given

LEMMA PriorityStays ==
  ASSUME PriorityInv, UNCHANGED <<m_needsPriority, wantPriority, crossed>>, native'.priority = native.priority,
         \A op \in {"priorityOn", "priorityOff"} : HasOp(cmds', op) <=> HasOp(cmds, op),
         native'.phase = "metadata" => native.phase = "metadata", MetadataPending => MetadataPending'
  PROVE  PriorityInv'
<1>1. NoPriority' <=> NoPriority
  BY DEF NoPriority
<1> QED BY <1>1 DEF PriorityInv, Waiting, Given

LEMMA RunPriorityKept == TypeOK /\ MetadataInv /\ PriorityInv /\ RunCommand => PriorityInv'
<1> SUFFICES ASSUME TypeOK, MetadataInv, PriorityInv, RunCommand PROVE PriorityInv'
  OBVIOUS
<1>1. /\ cmds # <<>> /\ cmds \in Seq(Commands) /\ cmds' = Tail(cmds)
      /\ UNCHANGED <<m_needsPriority, wantPriority, crossed>>
  BY DEF RunCommand, RunPause, RunResume, RunRecheck, RunStopWhenReady, RunPriority, TypeOK, handle, requests
<1>2. \A op : HasOp(cmds, op) <=> Head(cmds).op = op \/ HasOp(cmds', op)
  BY <1>1, CommandsHave
<1>3. MetadataPending' <=> MetadataPending
  BY RunMetadata DEF MetadataPending, SameMetadata
<1>4. native \in Native
  BY DEF TypeOK
<1>5. CASE RunPriority
  <2>1. Head(cmds).op \in {"priorityOn", "priorityOff"} /\ native'.phase = native.phase
    BY <1>4, <1>5 DEF RunPriority, Native
  <2>2. native'.priority = (Head(cmds).op = "priorityOn")
    BY <1>4, <1>5 DEF RunPriority, Native
  <2>3. ~ NoPriority
    BY <1>2, <2>1 DEF NoPriority
  <2>4. native'.phase # "metadata"
    BY <2>1, <2>3 DEF PriorityInv
  <2>5. CASE ~ crossed
    <3>1. Given /\ wantPriority \in BOOLEAN
      BY <2>3, <2>5 DEF PriorityInv, Waiting, TypeOK
    <3>2. native'.priority = wantPriority
      BY <1>2, <2>1, <2>2, <3>1 DEF Given
    <3>3. Given'
      BY <1>1, <1>2, <3>1, <3>2 DEF Given
    <3> QED BY <2>4, <3>3 DEF PriorityInv
  <2> QED BY <1>1, <2>4, <2>5 DEF PriorityInv
<1>6. CASE RunPause \/ RunResume \/ RunRecheck \/ RunStopWhenReady
  <2>1. Head(cmds).op \notin {"priorityOn", "priorityOff"} /\ native'.priority = native.priority
    BY <1>4, <1>6 DEF RunPause, RunResume, RunRecheck, RunStopWhenReady, Native
  <2> QED BY <1>1, <1>2, <1>3, <2>1, RunMetadata, PriorityStays
<1> QED BY <1>5, <1>6 DEF RunCommand

LEMMA NetworkPriorityKept == TypeOK /\ MetadataInv /\ PriorityInv /\ Network => PriorityInv'
<1> SUFFICES ASSUME TypeOK, MetadataInv, PriorityInv, Network, ~ RunCommand PROVE PriorityInv'
  BY RunPriorityKept
<1>1. UNCHANGED <<m_needsPriority, wantPriority, crossed, cmds>>
  BY DEF Network, Metadata, ResumeDataRejected, CheckEnds, Completes, Fails, QueueTurn, PostUpdate, handle, requests
<1>2. native \in Native /\ alerts \in Seq(Alerts)
  BY DEF TypeOK
<1>3. native'.priority = native.priority /\ (native'.phase = "metadata" => native.phase = "metadata")
  BY <1>2 DEF Network, Metadata, ResumeDataRejected, CheckEnds, Completes, Fails, QueueTurn, PostUpdate, Native
<1> QED BY <1>1, <1>3, NetworkMetadata, PriorityStays

LEMMA RequestPriorityKept == TypeOK /\ MetadataInv /\ PriorityInv /\ Request => PriorityInv'
<1> SUFFICES ASSUME TypeOK, MetadataInv, PriorityInv, Request PROVE PriorityInv'
  OBVIOUS
<1>1. UNCHANGED <<m_nativeStatus, native, alerts>> /\ (MetadataPending' <=> MetadataPending)
  BY RequestPosts DEF MetadataPending
<1>2. CASE ~ (\E enabled \in BOOLEAN : setFirstLastPiecePriority(enabled))
  BY <1>1, <1>2, RequestPosts, PriorityStays
<1>3. ASSUME NEW enabled \in BOOLEAN, setFirstLastPiecePriority(enabled) PROVE PriorityInv'
  <2>1. wantPriority' = enabled /\ crossed' = (crossed \/ MetadataWaits)
    BY <1>3 DEF setFirstLastPiecePriority
  <2>2. MetadataWaits <=> Has(alerts, "metadata")
    BY DEF MetadataWaits, Has
  <2>3. CASE hasMetadata
    <3>1. cmds' = <<PriorityCommand(enabled)>> /\ m_needsPriority' = m_needsPriority /\ native.phase # "metadata"
      BY <1>3, <2>3 DEF setFirstLastPiecePriority, MetadataInv, hasMetadata
    <3>2. (HasOp(cmds', "priorityOn") <=> enabled) /\ (HasOp(cmds', "priorityOff") <=> ~ enabled)
      BY <3>1 DEF HasOp, PriorityCommand, Command
    <3>3. ASSUME ~ crossed' PROVE Given'
      <4>1. ~ crossed /\ ~ MetadataPending
        BY <2>1, <2>2, <3>1, <3>3 DEF MetadataPending
      <4>2. Given
        BY <4>1 DEF PriorityInv
      <4> QED BY <2>1, <3>1, <3>2, <4>2 DEF Given, NoPriority
    <3> QED BY <1>1, <3>1, <3>3 DEF PriorityInv
  <2>4. CASE ~ hasMetadata
    <3>1. m_needsPriority' = enabled /\ cmds' = cmds
      BY <1>3, <2>4 DEF setFirstLastPiecePriority
    <3>2. MetadataPending
      BY <2>4 DEF MetadataPending, MetadataInv, hasMetadata
    <3>3. ASSUME ~ crossed' PROVE MetadataPending' /\ Waiting'
      <4>1. native.phase = "metadata"
        BY <2>1, <2>2, <3>2, <3>3 DEF MetadataPending
      <4> QED BY <1>1, <2>1, <3>1, <3>2, <4>1 DEF PriorityInv, Waiting, NoPriority
    <3> QED BY <1>1, <3>1, <3>3 DEF PriorityInv, NoPriority
  <2> QED BY <2>3, <2>4
<1> QED BY <1>2, <1>3

LEMMA HandlePriorityKept == TypeOK /\ MetadataInv /\ PriorityInv /\ HandleAlert => PriorityInv'
<1> SUFFICES ASSUME TypeOK, MetadataInv, PriorityInv, HandleAlert PROVE PriorityInv'
  OBVIOUS
<1>1. alerts # <<>> /\ alerts' = Tail(alerts) /\ native' = native /\ UNCHANGED <<wantPriority, crossed>>
  BY DEF HandleAlert, handleStateUpdate, handleTorrentCheckedAlert, handleTorrentFinishedAlert,
         handleTorrentPausedAlert, handleTorrentResumedAlert, handleMetadataReceivedAlert, Handle, requests
<1>2. alerts \in Seq(Alerts)
  BY DEF TypeOK
<1>3. Has(alerts, "metadata") <=> Head(alerts).type = "metadata" \/ Has(alerts', "metadata")
  BY <1>1, <1>2, TakeOrdered
<1>4. CASE handleMetadataReceivedAlert
  <2>1. Head(alerts).type = "metadata" /\ cmds = <<>> /\ m_needsPriority' = FALSE
    BY <1>4 DEF handleMetadataReceivedAlert, Handle, updateStatus
  <2>2. native.phase # "metadata"
    BY <1>3, <2>1 DEF MetadataInv
  <2>3. NoPriority
    BY <2>1 DEF NoPriority, HasOp
  <2>4. ASSUME ~ crossed PROVE Given'
    <3>1. native.priority \in BOOLEAN /\ wantPriority \in BOOLEAN /\ m_needsPriority \in BOOLEAN
      BY DEF TypeOK, Native
    <3>2. CASE m_needsPriority
      <4>1. wantPriority = TRUE
        BY <2>4, <3>1, <3>2 DEF PriorityInv, Waiting, Given
      <4>2. cmds' = <<PriorityCommand(TRUE)>>
        BY <1>4, <3>2 DEF handleMetadataReceivedAlert
      <4>3. HasOp(cmds', "priorityOn") /\ ~ HasOp(cmds', "priorityOff")
        BY <4>2 DEF HasOp, PriorityCommand, Command
      <4> QED BY <1>1, <2>1, <4>1, <4>3 DEF Given, NoPriority
    <3>3. CASE ~ m_needsPriority
      <4>1. native.priority = wantPriority
        BY <2>3, <2>4, <3>1, <3>3 DEF PriorityInv, Waiting, Given
      <4>2. cmds' = <<>>
        BY <1>4, <3>3 DEF handleMetadataReceivedAlert
      <4>3. ~ HasOp(cmds', "priorityOn") /\ ~ HasOp(cmds', "priorityOff")
        BY <4>2 DEF HasOp
      <4> QED BY <1>1, <2>1, <4>1, <4>3 DEF Given, NoPriority
    <3> QED BY <3>2, <3>3
  <2> QED BY <1>1, <2>2, <2>4 DEF PriorityInv
<1>5. CASE ~ handleMetadataReceivedAlert
  <2>1. Head(alerts).type # "metadata" /\ UNCHANGED <<cmds, m_needsPriority>>
    BY <1>5 DEF HandleAlert, handleStateUpdate, handleTorrentCheckedAlert, handleTorrentFinishedAlert,
           handleTorrentPausedAlert, handleTorrentResumedAlert, Handle
  <2>2. MetadataPending => MetadataPending'
    BY <1>1, <1>3, <2>1 DEF MetadataPending
  <2> QED BY <1>1, <2>1, <2>2, PriorityStays
<1> QED BY <1>4, <1>5

LEMMA InitPriority == Init => PriorityInv
<1> SUFFICES ASSUME Init PROVE PriorityInv
  OBVIOUS
<1>1. PICK paused \in BOOLEAN, forced \in BOOLEAN, skipChecking \in BOOLEAN, firstLast \in BOOLEAN :
        Constructed(paused, forced, skipChecking, firstLast)
  BY DEF Init
<1>2. ~ native.priority
  BY DEF Init
<1>3. (hasMetadata <=> native.phase # "metadata") /\ m_needsPriority = (firstLast /\ ~ hasMetadata)
      /\ wantPriority = firstLast
  BY <1>1 DEF Constructed, hasMetadata, StatusOf
<1>4. PICK r \in {<<>>, <<resume_impl(forced, FALSE)>>} :
        cmds = (IF hasMetadata THEN <<PriorityCommand(firstLast)>> ELSE <<>>) \o r
  BY <1>1 DEF Constructed
<1>5. r \in Seq(Commands) /\ ~ HasOp(r, "priorityOn") /\ ~ HasOp(r, "priorityOff")
  <2>1. resume_impl(forced, FALSE) \in Commands /\ resume_impl(forced, FALSE).op = "resume"
    BY InitTyped, ResumeType DEF resume_impl, Resume
  <2>2. r \in Seq(Commands)
    BY <2>1, Tuples
  <2>3. \A op \in {"priorityOn", "priorityOff"} : ~ HasOp(<<resume_impl(forced, FALSE)>>, op)
    BY <2>1, TuplesHave
  <2> QED BY <2>2, <2>3, TuplesHave
<1>6. <<>> \in Seq(Commands) /\ <<PriorityCommand(firstLast)>> \in Seq(Commands)
  BY CommandTypes, Tuples
<1>7. CASE hasMetadata
  <2>1. /\ HasOp(<<PriorityCommand(firstLast)>>, "priorityOn") <=> firstLast
        /\ HasOp(<<PriorityCommand(firstLast)>>, "priorityOff") <=> ~ firstLast
    BY DEF HasOp, PriorityCommand, Command
  <2>2. cmds = <<PriorityCommand(firstLast)>> \o r
    BY <1>4, <1>7
  <2>3. (HasOp(cmds, "priorityOn") <=> firstLast) /\ (HasOp(cmds, "priorityOff") <=> ~ firstLast)
    BY <1>5, <1>6, <2>1, <2>2, CommandsHave
  <2> QED BY <1>3, <1>7, <2>3 DEF PriorityInv, Given, NoPriority
<1>8. CASE ~ hasMetadata
  <2>1. cmds = <<>> \o r
    BY <1>4, <1>8
  <2>2. NoPriority
    <3>1. ~ HasOp(<<>>, "priorityOn") /\ ~ HasOp(<<>>, "priorityOff")
      BY DEF HasOp
    <3> QED BY <1>5, <1>6, <2>1, <3>1, CommandsHave DEF NoPriority
  <2> QED BY <1>2, <1>3, <1>8, <2>2 DEF PriorityInv, MetadataPending, Waiting
<1> QED BY <1>7, <1>8

LEMMA NextPriority == TypeOK /\ MetadataInv /\ PriorityInv /\ [Next]_vars => PriorityInv'
<1>1. ASSUME PriorityInv, UNCHANGED vars PROVE PriorityInv'
  BY <1>1 DEF vars, handle, requests, PriorityInv, MetadataPending, Waiting, Given, NoPriority
<1> QED BY <1>1, NetworkPriorityKept, RequestPriorityKept, HandlePriorityKept DEF Next

\* When nothing is on its way, the priority of the first and last pieces is the one
\* that was asked for last.
THEOREM PriorityIsKept == Spec => []PriorityKept
<1>1. TypeOK /\ MetadataInv /\ PriorityInv => PriorityKept
  <2> SUFFICES ASSUME TypeOK, MetadataInv, PriorityInv, cmds = <<>>, alerts = <<>>, native.phase # "metadata",
                      ~ crossed
               PROVE  native.priority = wantPriority
    BY DEF PriorityKept, Rest
  <2>1. NoPriority /\ ~ MetadataPending
    BY DEF NoPriority, HasOp, MetadataPending, Has
  <2> QED BY <2>1 DEF PriorityInv, Given
<1> QED BY <1>1, InitTyped, InitMetadata, InitPriority, NextTyped, NextMetadata, NextPriority, PTL DEF Spec

-----------------------------------------------------------------------------
(***************************************************************************)
(* The last request.  Judged by an up-to-date status, it posts one of a    *)
(* few sequences of commands, and nothing comes between them.              *)
(***************************************************************************)
Quiet == cmds = <<>> \/ \E enabled \in BOOLEAN : cmds = <<PriorityCommand(enabled)>>

Held == native.paused /\ ~ native.auto

Again(clear) == Resume(FALSE, TRUE, clear)

\* A stopped torrent, a pause on its way, and the steps of a check of a stopped
\* torrent, which runs until the check ends.
Paused == Held /\ ~ native.stop /\ Quiet
Pausing == ~ native.stop /\ cmds = <<Command("pause")>>
ToRecheck == Held /\ ~ native.stop /\
  \E clear \in BOOLEAN : cmds = <<Command("recheck"), Command("stopWhenReady"), Again(clear)>>
ToStopWhenReady == Held /\ ~ native.stop /\ native.phase = "checking" /\
  \E clear \in BOOLEAN : cmds = <<Command("stopWhenReady"), Again(clear)>>
ToResume == Held /\ native.stop /\ native.phase = "checking" /\ \E clear \in BOOLEAN : cmds = <<Again(clear)>>
Rechecking == ~ native.paused /\ ~ native.auto /\ native.stop /\ native.phase = "checking" /\ Quiet

PauseInv == Paused \/ Pausing \/ ToRecheck \/ ToStopWhenReady \/ ToResume \/ Rechecking

Running == (~ native.paused \/ native.auto) /\ ~ native.upload /\ (Quiet \/ cmds = <<Command("recheck")>>)
Resuming == \E auto, clear \in BOOLEAN : cmds = <<Resume(auto, FALSE, clear)>>
Starting == \E enabled, auto, clear \in BOOLEAN : cmds = <<PriorityCommand(enabled), Resume(auto, FALSE, clear)>>

RunInv == ~ native.stop /\ (Running \/ Resuming \/ Starting)

RequestInv == judged => (want = "pause" => PauseInv) /\ (want = "run" => RunInv)

\* The first command, and what is left.
LEMMA HeadOf ==
  /\ \A c : <<c>> # <<>> /\ Head(<<c>>) = c /\ Tail(<<c>>) = <<>>
  /\ \A c, d : <<c, d>> # <<>> /\ Head(<<c, d>>) = c /\ Tail(<<c, d>>) = <<d>>
  /\ \A c, d, e : <<c, d, e>> # <<>> /\ Head(<<c, d, e>>) = c /\ Tail(<<c, d, e>>) = <<d, e>>
OBVIOUS

LEMMA Ops ==
  /\ \A op : Command(op).op = op
  /\ \A enabled \in BOOLEAN : PriorityCommand(enabled).op \in {"priorityOn", "priorityOff"}
  /\ \A auto, upload, clear \in BOOLEAN :
       /\ Resume(auto, upload, clear).op = "resume" /\ Resume(auto, upload, clear).auto = auto
       /\ Resume(auto, upload, clear).upload = upload
BY DEF Command, PriorityCommand, Resume

\* What each command makes of the torrent.
LEMMA RunEffect ==
  ASSUME TypeOK, RunCommand
  PROVE  /\ cmds # <<>> /\ cmds' = Tail(cmds) /\ UNCHANGED <<judged, want>>
         /\ Head(cmds).op = "pause" =>
              native'.paused = TRUE /\ native'.auto = FALSE /\ native'.stop = native.stop
         /\ Head(cmds).op = "resume" =>
              /\ native'.paused = FALSE /\ native'.auto = Head(cmds).auto /\ native'.stop = native.stop
              /\ native'.upload = Head(cmds).upload /\ native'.phase = native.phase
         /\ Head(cmds).op = "recheck" =>
              /\ native'.paused = native.paused /\ native'.auto = native.auto /\ native'.stop = native.stop
              /\ native'.upload = native.upload /\ native'.phase = "checking"
         /\ Head(cmds).op = "stopWhenReady" /\ native.phase = "checking" =>
              /\ native'.paused = native.paused /\ native'.auto = native.auto /\ native'.stop = TRUE
              /\ native'.phase = "checking"
         /\ Head(cmds).op \in {"priorityOn", "priorityOff"} =>
              /\ native'.paused = native.paused /\ native'.auto = native.auto /\ native'.stop = native.stop
              /\ native'.upload = native.upload /\ native'.phase = native.phase
<1>1. native \in Native
  BY DEF TypeOK
<1>2. CASE RunPause
  BY <1>1, <1>2 DEF RunPause, Native, requests
<1>3. CASE RunResume
  BY <1>1, <1>3 DEF RunResume, Native, requests
<1>4. CASE RunRecheck
  BY <1>1, <1>4 DEF RunRecheck, Native, requests
<1>5. CASE RunStopWhenReady
  <2>1. "checking" \in Checking
    BY DEF Checking
  <2> QED BY <1>1, <1>5, <2>1 DEF RunStopWhenReady, Native, requests
<1>6. CASE RunPriority
  BY <1>1, <1>6 DEF RunPriority, Native, requests
<1> QED BY <1>2, <1>3, <1>4, <1>5, <1>6 DEF RunCommand

\* A command before others, and short sequences of commands put together.
LEMMA OneBefore ==
  ASSUME NEW S, NEW c \in S, NEW t \in Seq(S)
  PROVE  /\ <<c>> \o t \in Seq(S) /\ Len(<<c>> \o t) = Len(t) + 1
         /\ (<<c>> \o t)[1] = c /\ \A i \in 1 .. Len(t) : (<<c>> \o t)[i + 1] = t[i]
<1> DEFINE s == <<c>>
<1>1. s \in Seq(S) /\ Len(s) = 1 /\ s[1] = c /\ Len(t) \in Nat
  OBVIOUS
<1> HIDE DEF s
<1>2. s \o t \in Seq(S) /\ Len(s \o t) = Len(t) + 1
  <2>1. s \o t \in Seq(S) /\ Len(s \o t) = Len(s) + Len(t)
    BY <1>1, ConcatProperties
  <2> QED BY <1>1, <2>1
<1>3. \A i \in 1 .. Len(s) + Len(t) : (s \o t)[i] = IF i <= Len(s) THEN s[i] ELSE t[i - Len(s)]
  BY <1>1, ConcatProperties
<1>4. (s \o t)[1] = c
  <2>1. 1 \in 1 .. Len(s) + Len(t) /\ 1 <= Len(s)
    BY <1>1
  <2> QED BY <1>1, <1>3, <2>1
<1>5. ASSUME NEW i \in 1 .. Len(t) PROVE (s \o t)[i + 1] = t[i]
  <2>1. i + 1 \in 1 .. Len(s) + Len(t) /\ ~ (i + 1 <= Len(s)) /\ (i + 1) - Len(s) = i
    BY <1>1
  <2> QED BY <1>3, <2>1
<1> QED BY <1>2, <1>4, <1>5 DEF s

LEMMA PostTo ==
  ASSUME NEW S, NEW c \in S, NEW d \in S, NEW e \in S
  PROVE  <<c>> \o <<d>> = <<c, d>> /\ <<c>> \o <<d, e>> = <<c, d, e>>
<1>1. <<d>> \in Seq(S) /\ Len(<<d>>) = 1 /\ <<d>>[1] = d
  OBVIOUS
<1>2. <<d, e>> \in Seq(S) /\ Len(<<d, e>>) = 2 /\ <<d, e>>[1] = d /\ <<d, e>>[2] = e
  OBVIOUS
<1>3. <<c>> \o <<d>> = <<c, d>>
  <2> DEFINE t == <<d>> q == <<c>> \o t r == <<c, d>>
  <2>1. r \in Seq(S) /\ Len(r) = 2 /\ r[1] = c /\ r[2] = d
    OBVIOUS
  <2>2. q \in Seq(S) /\ Len(q) = 2 /\ q[1] = c
    BY <1>1, OneBefore
  <2>3. q[1 + 1] = d
    BY <1>1, OneBefore
  <2>4. q[2] = d
    BY <2>3
  <2> HIDE DEF q, r, t
  <2>5. \A i \in 1 .. Len(q) : q[i] = r[i]
    BY <2>1, <2>2, <2>4
  <2>6. q = r
    BY <2>1, <2>2, <2>5, SeqEqual
  <2> QED BY <2>6 DEF q, r, t
<1>4. <<c>> \o <<d, e>> = <<c, d, e>>
  <2> DEFINE t == <<d, e>> q == <<c>> \o t r == <<c, d, e>>
  <2>1. r \in Seq(S) /\ Len(r) = 3 /\ r[1] = c /\ r[2] = d /\ r[3] = e
    OBVIOUS
  <2>2. q \in Seq(S) /\ Len(q) = 3 /\ q[1] = c
    BY <1>2, OneBefore
  <2>3. q[1 + 1] = d /\ q[2 + 1] = e
    BY <1>2, OneBefore
  <2>4. q[2] = d /\ q[3] = e
    BY <2>3
  <2> HIDE DEF q, r, t
  <2>5. \A i \in 1 .. Len(q) : q[i] = r[i]
    BY <2>1, <2>2, <2>4
  <2>6. q = r
    BY <2>1, <2>2, <2>5, SeqEqual
  <2> QED BY <2>6 DEF q, r, t
<1> QED BY <1>3, <1>4

\* What resume_impl() posts.
LEMMA ResumePosts ==
  \A forced, upload \in BOOLEAN :
    \E auto, clear \in BOOLEAN : auto = (~ forced) /\ resume_impl(forced, upload) = Resume(auto, upload, clear)
<1>1. hasError \in BOOLEAN
  BY DEF hasError
<1> TAKE forced, upload \in BOOLEAN
<1>2. resume_impl(forced, upload) = Resume(~ forced, upload, hasError)
  BY Zenon DEF resume_impl
<1>3. (~ forced) \in BOOLEAN
  OBVIOUS
<1> QED BY <1>1, <1>2, <1>3, Zenon

LEMMA RunRequestKept == TypeOK /\ RequestInv /\ RunCommand => RequestInv'
<1> SUFFICES ASSUME TypeOK, RequestInv, RunCommand, judged PROVE (want = "pause" => PauseInv') /\ (want = "run" => RunInv')
  BY RunEffect DEF RequestInv
<1>1. ASSUME want = "pause" PROVE PauseInv'
  <2>1. CASE Paused \/ Rechecking
    <3>1. PICK enabled \in BOOLEAN : cmds = <<PriorityCommand(enabled)>>
      BY <2>1, RunEffect DEF Paused, Rechecking, Quiet
    <3>2. Head(cmds) = PriorityCommand(enabled) /\ cmds' = <<>>
      BY <3>1, HeadOf, RunEffect
    <3>3. Head(cmds).op \in {"priorityOn", "priorityOff"}
      BY <3>2, Ops
    <3> HIDE <3>1
    <3>4. Paused => Paused'
      BY <3>2, <3>3, RunEffect DEF Paused, Held, Quiet
    <3>5. Rechecking => Rechecking'
      BY <3>2, <3>3, RunEffect DEF Rechecking, Quiet
    <3> QED BY <2>1, <3>4, <3>5 DEF PauseInv
  <2>2. CASE Pausing
    <3>1. Head(cmds).op = "pause" /\ cmds' = <<>>
      BY <2>2, HeadOf, Ops, RunEffect DEF Pausing
    <3>2. Paused'
      BY <2>2, <3>1, RunEffect DEF Pausing, Paused, Held, Quiet
    <3> QED BY <3>2 DEF PauseInv
  <2>3. CASE ToRecheck
    <3>1. PICK clear \in BOOLEAN : cmds = <<Command("recheck"), Command("stopWhenReady"), Again(clear)>>
      BY <2>3 DEF ToRecheck
    <3>2. Head(cmds) = Command("recheck") /\ cmds' = <<Command("stopWhenReady"), Again(clear)>>
      BY <3>1, HeadOf, RunEffect
    <3>3. Head(cmds).op = "recheck"
      BY <3>2, Ops
    <3>4. native'.phase = "checking" /\ native'.paused /\ ~ native'.auto /\ ~ native'.stop
      BY <2>3, <3>3, RunEffect DEF ToRecheck, Held
    <3>5. ToStopWhenReady'
      BY <3>2, <3>4 DEF ToStopWhenReady, Held
    <3> QED BY <3>5 DEF PauseInv
  <2>4. CASE ToStopWhenReady
    <3>1. PICK clear \in BOOLEAN : cmds = <<Command("stopWhenReady"), Again(clear)>>
      BY <2>4 DEF ToStopWhenReady
    <3>2. Head(cmds) = Command("stopWhenReady") /\ cmds' = <<Again(clear)>>
      BY <3>1, HeadOf, RunEffect
    <3>3. Head(cmds).op = "stopWhenReady"
      BY <3>2, Ops
    <3>4. native'.phase = "checking" /\ native'.paused /\ ~ native'.auto /\ native'.stop
      BY <2>4, <3>3, RunEffect DEF ToStopWhenReady, Held
    <3>5. ToResume'
      BY <3>2, <3>4 DEF ToResume, Held
    <3> QED BY <3>5 DEF PauseInv
  <2>5. CASE ToResume
    <3>1. PICK clear \in BOOLEAN : cmds = <<Again(clear)>>
      BY <2>5 DEF ToResume
    <3>2. Again(clear).op = "resume" /\ Again(clear).auto = FALSE
      BY Ops DEF Again
    <3> QED BY <2>5, <3>1, <3>2, HeadOf, RunEffect DEF PauseInv, ToResume, Rechecking, Quiet
  <2> QED BY <1>1, <2>1, <2>2, <2>3, <2>4, <2>5 DEF RequestInv, PauseInv
<1>2. ASSUME want = "run" PROVE RunInv'
  <2>1. CASE Running /\ ~ native.stop
    <3>1. cmds = <<Command("recheck")>> \/ \E enabled \in BOOLEAN : cmds = <<PriorityCommand(enabled)>>
      BY <2>1, RunEffect DEF Running, Quiet
    <3>2. cmds' = <<>> /\ Head(cmds).op \in {"recheck", "priorityOn", "priorityOff"}
      BY <3>1, HeadOf, Ops, RunEffect
    <3> QED BY <2>1, <3>2, RunEffect DEF RunInv, Running, Quiet
  <2>2. CASE Resuming /\ ~ native.stop
    <3>1. PICK auto \in BOOLEAN, clear \in BOOLEAN : cmds = <<Resume(auto, FALSE, clear)>>
      BY <2>2 DEF Resuming
    <3>2. cmds' = <<>> /\ Head(cmds).op = "resume" /\ Head(cmds).upload = FALSE
      <4>1. cmds' = <<>> /\ Head(cmds) = Resume(auto, FALSE, clear)
        BY <3>1, HeadOf, RunEffect
      <4>2. Resume(auto, FALSE, clear).op = "resume" /\ Resume(auto, FALSE, clear).upload = FALSE
        BY Ops
      <4> QED BY <4>1, <4>2
    <3> QED BY <2>2, <3>2, RunEffect DEF RunInv, Running, Quiet
  <2>3. CASE Starting /\ ~ native.stop
    <3>1. PICK enabled \in BOOLEAN, auto \in BOOLEAN, clear \in BOOLEAN :
            cmds = <<PriorityCommand(enabled), Resume(auto, FALSE, clear)>>
      BY <2>3 DEF Starting
    <3>2. cmds' = <<Resume(auto, FALSE, clear)>> /\ Head(cmds).op \in {"priorityOn", "priorityOff"}
      <4>1. cmds' = <<Resume(auto, FALSE, clear)>> /\ Head(cmds) = PriorityCommand(enabled)
        BY <3>1, HeadOf, RunEffect
      <4> QED BY <4>1, Ops
    <3> QED BY <2>3, <3>2, RunEffect DEF RunInv, Resuming
  <2> QED BY <1>2, <2>1, <2>2, <2>3 DEF RequestInv, RunInv
<1> QED BY <1>1, <1>2

\* What libtorrent does by itself: an end of a check stops the torrent that was to
\* stop, and the queue stops only what it manages.
LEMMA NetworkRequestKept == TypeOK /\ RequestInv /\ Network => RequestInv'
<1> SUFFICES ASSUME TypeOK, RequestInv, Network, ~ RunCommand PROVE RequestInv'
  BY RunRequestKept
<1>1. native \in Native /\ cmds' = cmds /\ judged' = judged
  BY DEF TypeOK, Network, Metadata, ResumeDataRejected, CheckEnds, Completes, Fails, QueueTurn, PostUpdate, requests
<1>2. CASE Fails
  <2>1. want' = "none"
    BY <1>2 DEF Fails
  <2> QED BY <2>1 DEF RequestInv
<1> SUFFICES ASSUME ~ Fails PROVE RequestInv'
  BY <1>2
<1>3. want' = want
  BY DEF Network, Metadata, ResumeDataRejected, CheckEnds, Completes, QueueTurn, PostUpdate, requests
<1>4. ASSUME native'.paused = native.paused, native'.auto = native.auto, native'.stop = native.stop,
             native'.upload = native.upload, native.phase # "checking" \/ native'.phase = "checking"
      PROVE  RequestInv'
  <2>1. PauseInv => PauseInv'
    BY <1>1, <1>4 DEF PauseInv, Paused, Pausing, ToRecheck, ToStopWhenReady, ToResume, Rechecking, Held, Quiet
  <2>2. RunInv => RunInv'
    BY <1>1, <1>4 DEF RunInv, Running, Resuming, Starting, Quiet
  <2> QED BY <1>1, <1>3, <2>1, <2>2 DEF RequestInv
<1>5. CASE Metadata \/ ResumeDataRejected \/ Completes \/ PostUpdate
  BY <1>1, <1>4, <1>5 DEF Metadata, ResumeDataRejected, Completes, PostUpdate, Native
<1>6. ASSUME NEW complete \in BOOLEAN, CheckEnds(complete) PROVE RequestInv'
  <2>1. /\ native'.paused = (native.paused \/ native.stop) /\ native'.auto = native.auto
        /\ native'.stop = FALSE /\ native'.upload = native.upload
        /\ native.phase = "checking" => ~ native.paused
    BY <1>1, <1>6 DEF CheckEnds, Native
  <2>2. PauseInv => PauseInv'
    <3>1. Paused \/ Rechecking => Paused'
      BY <1>1, <2>1 DEF Paused, Rechecking, Held, Quiet
    <3>2. (Pausing => Pausing') /\ (ToRecheck => ToRecheck')
      BY <1>1, <2>1 DEF Pausing, ToRecheck, Held
    <3>3. ~ ToStopWhenReady /\ ~ ToResume
      BY <2>1 DEF ToStopWhenReady, ToResume, Held
    <3> QED BY <3>1, <3>2, <3>3 DEF PauseInv
  <2>3. RunInv => RunInv'
    BY <1>1, <2>1 DEF RunInv, Running, Resuming, Starting, Quiet
  <2> QED BY <1>1, <1>3, <2>2, <2>3 DEF RequestInv
<1>7. CASE QueueTurn
  <2>1. /\ native'.paused = (~ native.paused) /\ native.auto /\ native'.auto = native.auto
        /\ native'.stop = native.stop /\ native'.upload = native.upload
    BY <1>1, <1>7 DEF QueueTurn, Native
  <2>2. PauseInv => PauseInv'
    BY <1>1, <2>1 DEF PauseInv, Paused, Pausing, ToRecheck, ToStopWhenReady, ToResume, Rechecking, Held
  <2>3. RunInv => RunInv'
    BY <1>1, <2>1 DEF RunInv, Running, Resuming, Starting, Quiet
  <2> QED BY <1>1, <1>3, <2>2, <2>3 DEF RequestInv
<1> QED BY <1>5, <1>6, <1>7 DEF Network

\* A priority command is posted only when none waits.
LEMMA PostedOne ==
  ASSUME RequestInv, native' = native, UNCHANGED <<judged, want>>, cmds' = cmds \/ (cmds = <<>> /\ Quiet')
  PROVE  RequestInv'
<1>1. CASE cmds' = cmds
  BY <1>1 DEF RequestInv, PauseInv, Paused, Pausing, ToRecheck, ToStopWhenReady, ToResume, Rechecking, Held,
              RunInv, Running, Resuming, Starting, Quiet
<1>2. CASE cmds = <<>> /\ Quiet'
  <2>1. PauseInv => PauseInv'
    BY <1>2, HeadOf DEF PauseInv, Paused, Pausing, ToRecheck, ToStopWhenReady, ToResume, Rechecking, Held
  <2>2. RunInv => RunInv'
    BY <1>2, HeadOf DEF RunInv, Running, Resuming, Starting
  <2> QED BY <1>2, <2>1, <2>2 DEF RequestInv
<1> QED BY <1>1, <1>2

LEMMA HandleRequestKept == TypeOK /\ RequestInv /\ HandleAlert => RequestInv'
<1> SUFFICES ASSUME TypeOK, RequestInv, HandleAlert PROVE RequestInv'
  OBVIOUS
<1>1. native' = native /\ UNCHANGED <<judged, want>>
  BY DEF HandleAlert, handleStateUpdate, handleTorrentCheckedAlert, handleTorrentFinishedAlert,
         handleTorrentPausedAlert, handleTorrentResumedAlert, handleMetadataReceivedAlert, requests
<1>2. cmds' = cmds \/ (cmds = <<>> /\ Quiet')
  BY DEF HandleAlert, handleStateUpdate, handleTorrentCheckedAlert, handleTorrentFinishedAlert,
         handleTorrentPausedAlert, handleTorrentResumedAlert, handleMetadataReceivedAlert, updateStatus, Quiet
<1> QED BY <1>1, <1>2, PostedOne

\* What a request posts when its status was up to date: each command meets a
\* torrent on which none waits.
LEMMA RequestRequestKept == TypeOK /\ RequestInv /\ Request => RequestInv'
<1> SUFFICES ASSUME TypeOK, RequestInv, Request PROVE RequestInv'
  OBVIOUS
<1>1. native' = native
  BY DEF Request, pause, resume, forceRecheck, setFirstLastPiecePriority
<1>2. UpToDate => /\ cmds = <<>> /\ ~ native.stop
                  /\ isPaused = Held /\ (hasMetadata => native.phase # "metadata")
  BY DEF UpToDate, StatusOf, isPaused, Held, hasMetadata
<1>3. CASE pause
  <2> SUFFICES ASSUME judged' PROVE PauseInv'
    BY <1>3 DEF pause, RequestInv
  <2>1. UpToDate
    BY <1>3 DEF pause
  <2>2. CASE isPaused
    <3>1. cmds' = <<>> /\ Held
      BY <1>2, <1>3, <2>1, <2>2 DEF pause
    <3> QED BY <1>1, <1>2, <2>1, <3>1 DEF PauseInv, Paused, Held, Quiet
  <2>3. CASE ~ isPaused
    <3>1. cmds' = <<Command("pause")>>
      BY <1>2, <1>3, <2>1, <2>3 DEF pause
    <3> QED BY <1>1, <1>2, <2>1, <3>1 DEF PauseInv, Pausing
  <2> QED BY <2>2, <2>3
<1>4. ASSUME NEW forced \in BOOLEAN, resume(forced) PROVE RequestInv'
  <2> SUFFICES ASSUME judged' PROVE RunInv'
    BY <1>4 DEF resume, RequestInv
  <2>1. UpToDate
    BY <1>4 DEF resume
  <2>2. cmds' = <<resume_impl(forced, FALSE)>>
    <3>1. cmds' = Append(cmds, resume_impl(forced, FALSE))
      BY <1>4, Zenon DEF resume
    <3>2. cmds' = Append(<<>>, resume_impl(forced, FALSE))
      BY <1>2, <2>1, <3>1
    <3> QED BY <3>2
  <2>3. PICK auto, clear \in BOOLEAN : resume_impl(forced, FALSE) = Resume(auto, FALSE, clear)
    BY ResumePosts
  <2>4. Resuming'
    BY <2>2, <2>3 DEF Resuming
  <2> QED BY <1>1, <1>2, <2>1, <2>4 DEF RunInv
<1>5. CASE forceRecheck
  <2> SUFFICES ASSUME judged' PROVE (want = "pause" => PauseInv') /\ (want = "run" => RunInv')
    BY <1>5 DEF forceRecheck, RequestInv
  <2>1. UpToDate /\ judged
    BY <1>5 DEF forceRecheck
  <2>2. ASSUME want = "pause" PROVE PauseInv'
    <3>1. Paused
      BY <1>2, <2>1, <2>2 DEF RequestInv, PauseInv, Pausing, ToRecheck, ToStopWhenReady, ToResume, Rechecking
    <3>2. isPaused
      BY <1>2, <2>1, <3>1 DEF Paused
    <3>3. cmds' = <<Command("recheck"), Command("stopWhenReady"), resume_impl(TRUE, TRUE)>>
      <4>1. cmds' = <<>> \o <<Command("recheck")>> \o <<Command("stopWhenReady"), resume_impl(TRUE, TRUE)>>
        BY <1>2, <1>5, <2>1, <3>2 DEF forceRecheck
      <4>2. <<>> \o <<Command("recheck")>> = <<Command("recheck")>>
        OBVIOUS
      <4> DEFINE S == {Command("recheck"), Command("stopWhenReady"), resume_impl(TRUE, TRUE)}
      <4>3. <<Command("recheck")>> \o <<Command("stopWhenReady"), resume_impl(TRUE, TRUE)>>
              = <<Command("recheck"), Command("stopWhenReady"), resume_impl(TRUE, TRUE)>>
        <5>1. Command("recheck") \in S /\ Command("stopWhenReady") \in S /\ resume_impl(TRUE, TRUE) \in S
          OBVIOUS
        <5> HIDE DEF S
        <5> QED BY <5>1, PostTo
      <4> QED BY <4>1, <4>2, <4>3
    <3>4. PICK clear \in BOOLEAN : resume_impl(TRUE, TRUE) = Resume(FALSE, TRUE, clear)
      BY ResumePosts
    <3> QED BY <1>1, <3>1, <3>3, <3>4 DEF PauseInv, Paused, ToRecheck, Again, Held
  <2>3. ASSUME want = "run" PROVE RunInv'
    <3>1. Running
      <4>1. ~ Resuming
        BY <1>2, <2>1, HeadOf DEF Resuming
      <4>2. ~ Starting
        BY <1>2, <2>1, HeadOf DEF Starting
      <4> QED BY <2>1, <2>3, <4>1, <4>2 DEF RequestInv, RunInv
    <3>2. ~ isPaused
      BY <1>2, <2>1, <3>1 DEF Running, Held
    <3>3. cmds' = <<Command("recheck")>>
      BY <1>2, <1>5, <2>1, <3>2 DEF forceRecheck
    <3> QED BY <1>1, <1>2, <2>1, <3>1, <3>3 DEF RunInv, Running
  <2> QED BY <2>2, <2>3
<1>6. ASSUME NEW enabled \in BOOLEAN, setFirstLastPiecePriority(enabled) PROVE RequestInv'
  <2>1. UNCHANGED <<judged, want>> /\ (cmds' = cmds \/ (cmds = <<>> /\ cmds' = <<PriorityCommand(enabled)>>))
    BY <1>6 DEF setFirstLastPiecePriority
  <2>2. cmds' = cmds \/ (cmds = <<>> /\ Quiet')
    BY <2>1 DEF Quiet
  <2> QED BY <1>1, <2>1, <2>2, PostedOne
<1> QED BY <1>3, <1>4, <1>5, <1>6 DEF Request

\* The constructor posts the start of a torrent that is to run.
LEMMA InitRequest == Init => RequestInv
<1> SUFFICES ASSUME Init PROVE RequestInv
  OBVIOUS
<1>1. native.paused = TRUE /\ native.auto = FALSE /\ native.stop = FALSE
  BY DEF Init
<1>2. PICK paused, forced, skipChecking, firstLast \in BOOLEAN :
        Constructed(paused, forced, skipChecking, firstLast)
  BY DEF Init
<1>3. PICK auto, clear \in BOOLEAN : resume_impl(forced, FALSE) = Resume(auto, FALSE, clear)
  BY ResumePosts
<1>4. CASE paused
  <2>1. want = "pause" /\ (cmds = <<>> \/ cmds = <<PriorityCommand(firstLast)>>)
    BY <1>2, <1>4 DEF Constructed
  <2>2. Quiet
    BY <2>1 DEF Quiet
  <2> QED BY <1>1, <2>1, <2>2 DEF RequestInv, PauseInv, Paused, Held
<1>5. CASE ~ paused
  <2>1. want = "run" /\ \/ cmds = <<>> \o <<resume_impl(forced, FALSE)>>
                        \/ cmds = <<PriorityCommand(firstLast)>> \o <<resume_impl(forced, FALSE)>>
    BY <1>2, <1>5 DEF Constructed
  <2> DEFINE first == PriorityCommand(firstLast)
             r == resume_impl(forced, FALSE)
  <2>2. <<>> \o <<r>> = <<r>>
    OBVIOUS
  <2>3. <<first>> \o <<r>> = <<first, r>>
    <3> DEFINE S == {first, r}
    <3>1. first \in S /\ r \in S
      OBVIOUS
    <3> HIDE DEF S
    <3> QED BY <3>1, PostTo
  <2>4. cmds = <<r>> \/ cmds = <<first, r>>
    BY <2>1, <2>2, <2>3
  <2>5. Resuming \/ Starting
    BY <1>3, <2>4 DEF Resuming, Starting
  <2> QED BY <1>1, <2>1, <2>5 DEF RequestInv, RunInv
<1> QED BY <1>4, <1>5

LEMMA NextRequest == TypeOK /\ RequestInv /\ [Next]_vars => RequestInv'
<1> SUFFICES ASSUME TypeOK, RequestInv, [Next]_vars PROVE RequestInv'
  OBVIOUS
<1>1. CASE UNCHANGED vars
  <2>1. UNCHANGED <<judged, want, native, cmds>>
    BY <1>1 DEF vars, requests
  <2> QED BY <2>1, PostedOne
<1> QED BY <1>1, NetworkRequestKept, RequestRequestKept, HandleRequestKept DEF Next

\* A request judged by an up-to-date status is carried out, whatever libtorrent's
\* queue and checks do in between.
THEOREM RequestIsKept == Spec => []RequestKept
<1>1. TypeOK /\ RequestInv => RequestKept
  <2> SUFFICES ASSUME TypeOK, RequestInv, cmds = <<>>, ~ native.stop, judged
      PROVE  /\ want = "pause" => native.paused /\ ~ native.auto
             /\ want = "run" => (~ native.paused \/ native.auto) /\ ~ native.upload
    BY DEF RequestKept, Rest
  <2>1. PauseInv => native.paused /\ ~ native.auto
    BY DEF PauseInv, Paused, Pausing, ToRecheck, ToStopWhenReady, ToResume, Rechecking, Held
  <2>2. RunInv => (~ native.paused \/ native.auto) /\ ~ native.upload
    BY DEF RunInv, Running, Resuming, Starting
  <2> QED BY <2>1, <2>2 DEF RequestInv
<1> QED BY <1>1, InitTyped, InitRequest, NextTyped, NextRequest, PTL DEF Spec

-----------------------------------------------------------------------------
(***************************************************************************)
(* The completion that is reported.  A torrent that is complete has been   *)
(* reported or has a check or a completion in the queue.  As long as no    *)
(* recheck is asked for while another is not over, the handle knows the    *)
(* torrent to be complete exactly when it has said so or a check has found *)
(* it, at most one recheck waits, and none while the outcome of a check    *)
(* waits: such an outcome is then still true when it is handled.           *)
(***************************************************************************)
FoundComplete(q) == \E k \in DOMAIN q : q[k].type = "checked" /\ q[k].ok
OneRecheck(q) == \A i, j \in DOMAIN q : q[i].op = "recheck" /\ q[j].op = "recheck" => i = j

CalmInv ==
  /\ report # "twice" /\ (report # "none" => m_hasSeedStatus)
  /\ OneRecheck(cmds)
  /\ Has(alerts, "checked") \/ native.phase \in Checking => ~ HasOp(cmds, "recheck")
  /\ Has(alerts, "checked") => native.phase \notin Checking
  /\ FoundComplete(alerts) => native.phase = "finished"

FinishedInv ==
  /\ native.phase = "finished" =>
       m_hasSeedStatus \/ Has(alerts, "checked") \/ Has(alerts, "finished")
  /\ m_hasSeedStatus => report # "none"
  /\ Has(alerts, "checked") => native.phase # "metadata"
  /\ calm => CalmInv

\* Posting an alert, and taking the first.
LEMMA PostCheck ==
  ASSUME NEW q \in Seq(Alerts), NEW a \in Alerts
  PROVE  /\ \A type : Has(Append(q, a), type) <=> Has(q, type) \/ a.type = type
         /\ FoundComplete(Append(q, a)) <=> FoundComplete(q) \/ (a.type = "checked" /\ a.ok)
<1> DEFINE r == Append(q, a)
           n == Len(q)
<1>1. /\ n \in Nat /\ DOMAIN q = 1 .. n /\ DOMAIN r = 1 .. (n + 1)
      /\ \A k \in 1 .. n : r[k] = q[k]
      /\ r[n + 1] = a
  BY AppendIndex
<1> HIDE DEF r, n
<1>2. /\ \A k \in DOMAIN q : k \in DOMAIN r /\ r[k] = q[k]
      /\ n + 1 \in DOMAIN r
      /\ \A k \in DOMAIN r : k = n + 1 \/ k \in DOMAIN q
  BY <1>1
<1>3. \A type : Has(r, type) <=> Has(q, type) \/ a.type = type
  BY <1>1, <1>2 DEF Has
<1>4. FoundComplete(r) <=> FoundComplete(q) \/ (a.type = "checked" /\ a.ok)
  BY <1>1, <1>2 DEF FoundComplete
<1> QED BY <1>3, <1>4 DEF r

LEMMA TakeCheck ==
  ASSUME NEW q \in Seq(Alerts), q # <<>>
  PROVE  /\ \A type : Has(q, type) <=> Head(q).type = type \/ Has(Tail(q), type)
         /\ FoundComplete(q) <=> FoundComplete(Tail(q)) \/ (Head(q).type = "checked" /\ Head(q).ok)
<1> DEFINE r == Tail(q)
           n == Len(q)
<1>1. /\ n \in Nat /\ n > 0 /\ DOMAIN q = 1 .. n /\ DOMAIN r = 1 .. (n - 1)
      /\ \A k \in 1 .. (n - 1) : r[k] = q[k + 1]
      /\ Head(q) = q[1]
  BY TailIndex
<1> HIDE DEF r, n
<1>2. \A k \in DOMAIN q : k # 1 => k - 1 \in DOMAIN r /\ r[k - 1] = q[k]
  BY <1>1
<1>3. 1 \in DOMAIN q /\ \A k \in DOMAIN r : k + 1 \in DOMAIN q /\ r[k] = q[k + 1]
  BY <1>1
<1>4. ASSUME NEW type PROVE Has(q, type) <=> Head(q).type = type \/ Has(r, type)
  <2>1. ASSUME NEW k \in DOMAIN q, q[k].type = type PROVE Head(q).type = type \/ Has(r, type)
    <3>1. CASE k = 1
      BY <1>1, <2>1, <3>1
    <3>2. CASE k # 1
      BY <1>2, <2>1, <3>2 DEF Has
    <3> QED BY <3>1, <3>2
  <2>2. Head(q).type = type => Has(q, type)
    BY <1>1, <1>3 DEF Has
  <2>3. Has(r, type) => Has(q, type)
    BY <1>3 DEF Has
  <2> QED BY <2>1, <2>2, <2>3 DEF Has
<1>5. FoundComplete(q) <=> FoundComplete(r) \/ (Head(q).type = "checked" /\ Head(q).ok)
  BY <1>1, <1>2, <1>3 DEF FoundComplete
<1> QED BY <1>4, <1>5 DEF r

LEMMA RechecksHave ==
  ASSUME NEW q \in Seq(Commands)
  PROVE  /\ ~ HasOp(q, "recheck") => OneRecheck(q)
         /\ q # <<>> /\ OneRecheck(q) =>
              OneRecheck(Tail(q)) /\ (Head(q).op = "recheck" => ~ HasOp(Tail(q), "recheck"))
         /\ \A c \in Commands :
              OneRecheck(q) /\ (c.op = "recheck" => ~ HasOp(q, "recheck")) => OneRecheck(Append(q, c))
<1>1. ~ HasOp(q, "recheck") => OneRecheck(q)
  BY DEF HasOp, OneRecheck
<1>2. ASSUME q # <<>>, OneRecheck(q)
      PROVE  OneRecheck(Tail(q)) /\ (Head(q).op = "recheck" => ~ HasOp(Tail(q), "recheck"))
  <2> DEFINE r == Tail(q)
             n == Len(q)
  <2>1. /\ n \in Nat /\ n > 0 /\ DOMAIN q = 1 .. n /\ DOMAIN r = 1 .. (n - 1)
        /\ \A k \in 1 .. (n - 1) : r[k] = q[k + 1]
        /\ Head(q) = q[1]
    BY <1>2, TailIndex
  <2> HIDE DEF r, n
  <2>2. 1 \in DOMAIN q /\ \A k \in DOMAIN r : k + 1 \in DOMAIN q /\ k + 1 # 1 /\ r[k] = q[k + 1]
    BY <2>1
  <2>3. \A i, j \in DOMAIN r : i + 1 = j + 1 => i = j
    BY <2>1
  <2>4. OneRecheck(r)
    BY <1>2, <2>2, <2>3 DEF OneRecheck
  <2>5. Head(q).op = "recheck" => ~ HasOp(r, "recheck")
    BY <1>2, <2>1, <2>2 DEF OneRecheck, HasOp
  <2> QED BY <2>4, <2>5 DEF r
<1>3. ASSUME NEW c \in Commands, OneRecheck(q), c.op = "recheck" => ~ HasOp(q, "recheck")
      PROVE  OneRecheck(Append(q, c))
  <2> DEFINE r == Append(q, c)
             n == Len(q)
  <2>1. /\ n \in Nat /\ DOMAIN q = 1 .. n /\ DOMAIN r = 1 .. (n + 1)
        /\ \A k \in 1 .. n : r[k] = q[k]
        /\ r[n + 1] = c
    BY AppendIndex
  <2> HIDE DEF r, n
  <2>2. \A k \in DOMAIN r : k = n + 1 \/ (k \in DOMAIN q /\ r[k] = q[k])
    BY <2>1
  <2>3. OneRecheck(r)
    BY <1>3, <2>1, <2>2 DEF OneRecheck, HasOp
  <2> QED BY <2>3 DEF r
<1> QED BY <1>1, <1>2, <1>3

\* Neither a check nor a completion was posted or taken.
SameChecks(q, r) ==
  /\ \A type \in {"checked", "finished"} : Has(r, type) <=> Has(q, type)
  /\ FoundComplete(r) <=> FoundComplete(q)

LEMMA SameChecksOnce ==
  /\ \A q : SameChecks(q, q)
  /\ \A q \in Seq(Alerts), a \in Alerts : a.type \notin {"checked", "finished"} => SameChecks(q, Append(q, a))
  /\ \A q \in Seq(Alerts) : q # <<>> /\ Head(q).type \notin {"checked", "finished"} => SameChecks(q, Tail(q))
<1>1. \A q : SameChecks(q, q)
  BY DEF SameChecks
<1>2. \A q \in Seq(Alerts), a \in Alerts : a.type \notin {"checked", "finished"} => SameChecks(q, Append(q, a))
  BY PostCheck DEF SameChecks
<1>3. \A q \in Seq(Alerts) : q # <<>> /\ Head(q).type \notin {"checked", "finished"} => SameChecks(q, Tail(q))
  BY TakeCheck DEF SameChecks
<1> QED BY <1>1, <1>2, <1>3

LEMMA FinishedKept ==
  ASSUME FinishedInv, SameChecks(alerts, alerts'), native'.phase = native.phase,
         m_hasSeedStatus' = m_hasSeedStatus, report' = report, calm' = calm,
         OneRecheck(cmds) => OneRecheck(cmds'),
         HasOp(cmds', "recheck") => HasOp(cmds, "recheck")
  PROVE  FinishedInv'
<1>1. (Has(alerts, "checked") <=> Has(alerts', "checked")) /\ (Has(alerts, "finished") <=> Has(alerts', "finished"))
        /\ (FoundComplete(alerts) <=> FoundComplete(alerts'))
  BY DEF SameChecks
<1> QED BY <1>1 DEF FinishedInv, CalmInv

LEMMA RunFinished == TypeOK /\ MetadataInv /\ FinishedInv /\ RunCommand => FinishedInv'
<1> SUFFICES ASSUME TypeOK, MetadataInv, FinishedInv, RunCommand PROVE FinishedInv'
  OBVIOUS
<1>1. /\ cmds # <<>> /\ cmds \in Seq(Commands) /\ cmds' = Tail(cmds)
      /\ UNCHANGED <<m_hasSeedStatus, report, calm>>
  BY DEF RunCommand, RunPause, RunResume, RunRecheck, RunStopWhenReady, RunPriority, TypeOK, handle, requests
<1>2. /\ HasOp(cmds, "recheck") <=> Head(cmds).op = "recheck" \/ HasOp(cmds', "recheck")
      /\ OneRecheck(cmds) => OneRecheck(cmds') /\ (Head(cmds).op = "recheck" => ~ HasOp(cmds', "recheck"))
  BY <1>1, CommandsHave, RechecksHave
<1>3. alerts \in Seq(Alerts) /\ native \in Native
  BY DEF TypeOK
<1>4. ASSUME NEW b, NEW type \in {"paused", "resumed"}, alerts' = alerts \o If(b, Alert(type))
      PROVE  SameChecks(alerts, alerts')
  <2>1. Alert(type) \in Alerts /\ Alert(type).type \notin {"checked", "finished"}
    BY AlertTypes DEF Alert
  <2>2. alerts' = IF b THEN Append(alerts, Alert(type)) ELSE alerts
    BY <1>3, <1>4, <2>1, AppendIf
  <2> QED BY <1>3, <2>1, <2>2, SameChecksOnce
<1>5. ASSUME ~ RunRecheck
      PROVE  SameChecks(alerts, alerts') /\ native'.phase = native.phase
  <2>1. CASE RunPause
    BY <1>3, <1>4, <2>1 DEF RunPause, Native
  <2>2. CASE RunResume
    <3>1. alerts' = alerts \o If(native.paused, Alert("resumed"))
      BY <2>2 DEF RunResume
    <3>2. native'.phase = native.phase
      BY <1>3, <2>2 DEF RunResume, Native
    <3> QED BY <1>4, <3>1, <3>2
  <2>3. CASE RunStopWhenReady
    BY <1>3, <1>4, <2>3 DEF RunStopWhenReady, Native
  <2>4. CASE RunPriority
    BY <1>3, <2>4, SameChecksOnce DEF RunPriority, Native
  <2> QED BY <1>5, <2>1, <2>2, <2>3, <2>4 DEF RunCommand
<1>6. CASE RunRecheck
  <2>1. Head(cmds).op = "recheck" /\ alerts' = alerts /\ HasOp(cmds, "recheck")
    BY <1>2, <1>6 DEF RunRecheck
  <2>2. native'.phase = "checking" /\ "checking" \in Checking
    BY <1>3, <1>6 DEF RunRecheck, Native, Checking
  <2>3. calm => /\ ~ HasOp(cmds', "recheck") /\ OneRecheck(cmds')
                /\ ~ Has(alerts, "checked") /\ report # "twice" /\ (report # "none" => m_hasSeedStatus)
    BY <1>2, <2>1 DEF FinishedInv, CalmInv
  <2>4. FoundComplete(alerts) => Has(alerts, "checked")
    BY DEF FoundComplete, Has
  <2>5. calm => CalmInv'
    BY <1>1, <2>1, <2>2, <2>3, <2>4 DEF CalmInv
  <2> QED BY <1>1, <2>1, <2>2, <2>5 DEF FinishedInv
<1> QED BY <1>1, <1>2, <1>5, <1>6, FinishedKept

\* The outcome of a check is posted; a completion only with a check that found it.
LEMMA CheckOutcome ==
  ASSUME TypeOK, NEW complete \in BOOLEAN, CheckEnds(complete)
  PROVE  /\ Has(alerts', "checked")
         /\ Has(alerts, "finished") => Has(alerts', "finished")
         /\ FoundComplete(alerts') => FoundComplete(alerts) \/ complete
<1>1. PICK a \in Alerts, b \in Alerts, q \in Seq(Alerts) :
        /\ a.type \in {"checked", "finished"} /\ b.type \in {"checked", "finished"}
        /\ \/ q = Append(alerts, a) /\ a.type = "checked" /\ ~ a.ok
           \/ /\ complete /\ q = Append(Append(alerts, a), b)
              /\ a.type = "checked" \/ b.type = "checked"
        /\ alerts' = IF native.stop /\ ~ native.paused THEN Append(q, Alert("paused")) ELSE q
  BY CheckPosts
<1>2. alerts \in Seq(Alerts)
  BY DEF TypeOK
<1>3. /\ Has(q, "checked") /\ (Has(alerts, "finished") => Has(q, "finished"))
      /\ FoundComplete(q) => FoundComplete(alerts) \/ complete
  <2>1. CASE q = Append(alerts, a) /\ a.type = "checked" /\ ~ a.ok
    BY <1>2, <2>1, PostCheck
  <2>2. CASE complete /\ q = Append(Append(alerts, a), b) /\ (a.type = "checked" \/ b.type = "checked")
    <3>1. Append(alerts, a) \in Seq(Alerts)
      BY <1>2, AppendProperties
    <3>2. \A type : Has(Append(alerts, a), type) <=> Has(alerts, type) \/ a.type = type
      BY <1>2, PostCheck
    <3>3. \A type : Has(q, type) <=> Has(Append(alerts, a), type) \/ b.type = type
      BY <2>2, <3>1, PostCheck
    <3> QED BY <2>2, <3>2, <3>3
  <2> QED BY <1>1, <2>1, <2>2
<1>4. Alert("paused") \in Alerts /\ Alert("paused").type = "paused"
  BY AlertTypes DEF Alert
<1>5. /\ Has(alerts', "checked") <=> Has(q, "checked")
      /\ Has(alerts', "finished") <=> Has(q, "finished")
      /\ FoundComplete(alerts') <=> FoundComplete(q)
  BY <1>1, <1>4, SameChecksOnce DEF SameChecks
<1> QED BY <1>3, <1>5

LEMMA NetworkFinished == TypeOK /\ MetadataInv /\ FinishedInv /\ Network => FinishedInv'
<1> SUFFICES ASSUME TypeOK, MetadataInv, FinishedInv, Network, ~ RunCommand PROVE FinishedInv'
  BY RunFinished
<1>1. UNCHANGED <<m_hasSeedStatus, cmds, report, calm>>
  BY DEF Network, Metadata, ResumeDataRejected, CheckEnds, Completes, Fails, QueueTurn, PostUpdate,
         handle, requests
<1>2. alerts \in Seq(Alerts) /\ native \in Native
  BY DEF TypeOK
<1>3. ASSUME SameChecks(alerts, alerts'), native'.phase = native.phase
      PROVE  FinishedInv'
  BY <1>1, <1>3, FinishedKept
<1>4. \A q \in Seq(Alerts), type \in {"paused", "resumed", "metadata"} : SameChecks(q, Append(q, Alert(type)))
  <2>1. \A type \in {"paused", "resumed", "metadata"} :
          Alert(type) \in Alerts /\ Alert(type).type \notin {"checked", "finished"}
    BY AlertTypes DEF Alert
  <2> QED BY <2>1, SameChecksOnce
<1>5. FoundComplete(alerts) => Has(alerts, "checked")
  BY DEF FoundComplete, Has
<1>6. CASE Metadata
  <2>1. native.phase = "metadata" /\ native'.phase = "resumeData" /\ SameChecks(alerts, alerts')
    BY <1>2, <1>4, <1>6 DEF Metadata, Native
  <2>2. ~ HasOp(cmds, "recheck") /\ ~ Has(alerts, "checked") /\ ~ Has(alerts', "checked")
    BY <2>1 DEF MetadataInv, FinishedInv, SameChecks
  <2>3. ~ FoundComplete(alerts')
    BY <1>5, <2>1, <2>2 DEF SameChecks
  <2>4. calm => CalmInv'
    BY <1>1, <2>2, <2>3 DEF FinishedInv, CalmInv
  <2> QED BY <1>1, <2>1, <2>2, <2>4 DEF FinishedInv
<1>7. CASE ResumeDataRejected
  <2>1. /\ native.phase = "resumeData" /\ native'.phase = "checking" /\ alerts' = alerts
        /\ "resumeData" \in Checking /\ "checking" \in Checking
    BY <1>2, <1>7 DEF ResumeDataRejected, Native, Checking
  <2>2. calm => ~ HasOp(cmds, "recheck") /\ ~ Has(alerts, "checked")
    BY <2>1 DEF FinishedInv, CalmInv
  <2>3. calm => CalmInv'
    BY <1>1, <1>5, <2>1, <2>2 DEF FinishedInv, CalmInv
  <2> QED BY <1>1, <2>1, <2>3 DEF FinishedInv
<1>8. ASSUME NEW complete \in BOOLEAN, CheckEnds(complete) PROVE FinishedInv'
  <2>1. native.phase \in Checking /\ native'.phase = IF complete THEN "finished" ELSE "downloading"
    BY <1>2, <1>8 DEF CheckEnds, Native
  <2>2. native'.phase \notin Checking /\ native'.phase # "metadata"
    BY <2>1 DEF Checking
  <2>3. Has(alerts', "checked") /\ (FoundComplete(alerts') => FoundComplete(alerts) \/ complete)
    BY <1>8, CheckOutcome
  <2>4. calm => ~ HasOp(cmds, "recheck") /\ ~ FoundComplete(alerts)
    BY <1>5, <2>1 DEF FinishedInv, CalmInv
  <2>5. calm => CalmInv'
    BY <1>1, <2>1, <2>2, <2>3, <2>4 DEF FinishedInv, CalmInv
  <2> QED BY <1>1, <2>2, <2>3, <2>5 DEF FinishedInv
<1>9. CASE Completes
  <2>1. native.phase = "downloading" /\ native'.phase = "finished" /\ "finished" \notin Checking
    BY <1>2, <1>9 DEF Completes, Native, Checking
  <2>2. Alert("finished") \in Alerts /\ Alert("finished").type = "finished"
          /\ alerts' = Append(alerts, Alert("finished"))
    BY <1>9, AlertTypes DEF Completes, Alert
  <2>3. Has(alerts', "finished") /\ (Has(alerts', "checked") <=> Has(alerts, "checked"))
    BY <1>2, <2>2, PostCheck
  <2>4. calm => CalmInv'
    BY <1>1, <2>1, <2>3 DEF FinishedInv, CalmInv
  <2> QED BY <1>1, <2>1, <2>3, <2>4 DEF FinishedInv
<1>10. CASE Fails
  BY <1>2, <1>3, <1>4, <1>10 DEF Fails, Native
<1>11. CASE QueueTurn
  BY <1>2, <1>3, <1>4, <1>11 DEF QueueTurn, Native
<1>12. CASE PostUpdate
  <2>1. Update(native) \in Alerts /\ Update(native).type = "update"
    BY <1>2, AlertTypes DEF Update
  <2>2. alerts' = Append(alerts, Update(native)) /\ native' = native
    BY <1>12 DEF PostUpdate
  <2> QED BY <1>2, <1>3, <2>1, <2>2, SameChecksOnce
<1> QED BY <1>6, <1>7, <1>8, <1>9, <1>10, <1>11, <1>12 DEF Network

\* What a request does to the rechecks that wait.
LEMMA RequestFinished == TypeOK /\ FinishedInv /\ Request => FinishedInv'
<1> SUFFICES ASSUME TypeOK, FinishedInv, Request PROVE FinishedInv'
  OBVIOUS
<1>1. UNCHANGED <<native, alerts, m_hasSeedStatus, report>> /\ SameChecks(alerts, alerts)
  BY SameChecksOnce DEF Request, pause, resume, forceRecheck, setFirstLastPiecePriority, handle
<1>2. cmds \in Seq(Commands)
  BY DEF TypeOK
<1>3. ASSUME calm' = calm, OneRecheck(cmds) => OneRecheck(cmds'),
             HasOp(cmds', "recheck") => HasOp(cmds, "recheck")
      PROVE  FinishedInv'
  BY <1>1, <1>3, FinishedKept
<1>4. ASSUME NEW q \in Seq(Commands), NEW c \in Commands, c.op # "recheck"
      PROVE  /\ OneRecheck(q) => OneRecheck(Append(q, c))
             /\ HasOp(Append(q, c), "recheck") => HasOp(q, "recheck")
  BY <1>4, CommandsHave, RechecksHave
<1>5. CASE pause
  <2>1. Command("pause") \in Commands /\ Command("pause").op # "recheck"
    BY CommandTypes DEF Command
  <2>2. calm' = calm /\ (cmds' = cmds \/ cmds' = Append(cmds, Command("pause")))
    BY <1>5 DEF pause
  <2> QED BY <1>2, <1>3, <1>4, <2>1, <2>2
<1>6. ASSUME NEW forced \in BOOLEAN, resume(forced) PROVE FinishedInv'
  <2>1. resume_impl(forced, FALSE) \in Commands /\ resume_impl(forced, FALSE).op # "recheck"
    BY ResumeType DEF resume_impl, Resume
  <2>2. calm' = calm /\ cmds' = Append(cmds, resume_impl(forced, FALSE))
    BY <1>6, Zenon DEF resume
  <2> QED BY <1>2, <1>3, <1>4, <2>1, <2>2
<1>7. ASSUME NEW enabled \in BOOLEAN, setFirstLastPiecePriority(enabled) PROVE FinishedInv'
  <2>1. PriorityCommand(enabled).op # "recheck" /\ PriorityCommand(enabled) \in Commands
    BY CommandTypes DEF PriorityCommand, Command
  <2>2. <<PriorityCommand(enabled)>> \in Seq(Commands) /\ ~ HasOp(<<PriorityCommand(enabled)>>, "recheck")
    BY <2>1, Tuples, TuplesHave
  <2>3. calm' = calm /\ (cmds' = cmds \/ cmds' = <<PriorityCommand(enabled)>>)
    BY <1>7 DEF setFirstLastPiecePriority
  <2> QED BY <1>3, <2>2, <2>3, RechecksHave
<1>8. CASE forceRecheck
  <2> DEFINE c == Command("recheck")
             d == Command("stopWhenReady")
             e == resume_impl(TRUE, TRUE)
             r == Append(cmds, c)
  <2>1. /\ c \in Commands /\ c.op = "recheck" /\ d \in Commands /\ d.op # "recheck"
        /\ e \in Commands /\ e.op # "recheck"
    BY CommandTypes, ResumeType DEF Command, resume_impl, Resume
  <2>2. cmds' = (cmds \o <<c>>) \o <<>> \/ cmds' = (cmds \o <<c>>) \o <<d, e>>
    BY <1>8 DEF forceRecheck
  <2> HIDE DEF c, d, e
  <2>3. r \in Seq(Commands) /\ cmds \o <<c>> = r
    BY <1>2, <2>1, AppendIsConcat, AppendProperties
  <2> HIDE DEF r
  <2>4. r \o <<>> = r
    BY <2>3, ConcatEmptySeq
  <2>5. r \o <<d, e>> = Append(Append(r, d), e) /\ Append(r, d) \in Seq(Commands)
    <3>1. Append(r, d) \in Seq(Commands)
      BY <2>1, <2>3, AppendProperties
    <3>2. \A q \in Seq(Commands), a \in Commands, b \in Commands : q \o <<a, b>> = Append(Append(q, a), b)
      <4> SUFFICES ASSUME NEW q \in Seq(Commands), NEW a \in Commands, NEW b \in Commands
                   PROVE  q \o <<a, b>> = Append(Append(q, a), b)
        OBVIOUS
      <4> QED OBVIOUS
    <3> QED BY <2>1, <2>3, <3>1, <3>2
  <2>6. OneRecheck(r) => OneRecheck(cmds')
    BY <1>4, <2>1, <2>2, <2>3, <2>4, <2>5
  <2>7. calm' => calm /\ ~ CheckPending
    BY <1>8 DEF forceRecheck
  <2>8. CheckPending <=> \/ native.phase \in Checking \/ HasOp(cmds, "recheck")
                         \/ Has(alerts, "checked") \/ Has(alerts, "finished")
    BY DEF CheckPending, HasOp, Has
  <2>9. ASSUME calm' PROVE CalmInv'
    <3>1. /\ native.phase \notin Checking /\ ~ HasOp(cmds, "recheck") /\ ~ Has(alerts, "checked")
          /\ CalmInv
      BY <2>7, <2>8, <2>9 DEF FinishedInv
    <3>2. OneRecheck(cmds')
      BY <1>2, <2>1, <2>6, <3>1, RechecksHave DEF r
    <3> QED BY <1>1, <3>1, <3>2 DEF CalmInv
  <2> QED BY <1>1, <2>9 DEF FinishedInv
<1> QED BY <1>5, <1>6, <1>7, <1>8 DEF Request

LEMMA HandleFinished == TypeOK /\ FinishedInv /\ HandleAlert => FinishedInv'
<1> SUFFICES ASSUME TypeOK, FinishedInv, HandleAlert PROVE FinishedInv'
  OBVIOUS
<1>1. alerts # <<>> /\ alerts' = Tail(alerts) /\ native' = native /\ calm' = calm
  BY DEF HandleAlert, handleStateUpdate, handleTorrentCheckedAlert, handleTorrentFinishedAlert,
         handleTorrentPausedAlert, handleTorrentResumedAlert, handleMetadataReceivedAlert, Handle, requests
<1>2. alerts \in Seq(Alerts) /\ cmds \in Seq(Commands)
  BY DEF TypeOK
<1>3. /\ \A type : Has(alerts, type) <=> Head(alerts).type = type \/ Has(alerts', type)
      /\ FoundComplete(alerts) <=> FoundComplete(alerts') \/ (Head(alerts).type = "checked" /\ Head(alerts).ok)
  BY <1>1, <1>2, TakeCheck
<1>4. CASE handleTorrentCheckedAlert
  <2>1. /\ Head(alerts).type = "checked" /\ Has(alerts, "checked") /\ cmds' = cmds
        /\ native.phase # "metadata"
    BY <1>3, <1>4 DEF handleTorrentCheckedAlert, Handle, FinishedInv
  <2>2. PICK one \in ProgressIsOne(native) :
          /\ m_hasSeedStatus' = SeedStatusAfterCheck(one)
          /\ IF Head(alerts).ok
             THEN report' = IF report \in {"once", "twice"} THEN report ELSE "found"
             ELSE report' = IF one THEN "late" ELSE "none"
    BY <1>4, Zenon DEF handleTorrentCheckedAlert
  <2>3. one \in BOOLEAN /\ (native.phase = "finished" => one)
    <3>1. "finished" \notin Checking
      BY DEF Checking
    <3> QED BY <2>2, <3>1 DEF ProgressIsOne
  <2>4. m_hasSeedStatus' <=> one
    BY <2>1, <2>2, <2>3, Zenon DEF SeedStatusAfterCheck
  <2>5. m_hasSeedStatus' => report' # "none"
    BY <2>2, <2>3, <2>4
  <2>6. Has(alerts', "checked") => Has(alerts, "checked")
    BY <1>3
  <2>7. ASSUME calm PROVE CalmInv'
    <3>1. CalmInv
      BY <2>7 DEF FinishedInv
    <3>2. report' # "twice"
      BY <2>2, <3>1 DEF CalmInv
    <3>3. ASSUME report' # "none" PROVE m_hasSeedStatus'
      <4>1. CASE Head(alerts).ok
        <5>1. native.phase = "finished"
          BY <1>3, <2>1, <3>1, <4>1 DEF CalmInv
        <5> QED BY <2>3, <2>4, <5>1
      <4>2. CASE ~ Head(alerts).ok
        BY <2>2, <2>4, <3>3, <4>2
      <4> QED BY <4>1, <4>2
    <3> QED BY <1>1, <1>3, <2>1, <2>6, <3>1, <3>2, <3>3 DEF CalmInv
  <2> QED BY <1>1, <2>1, <2>3, <2>4, <2>5, <2>7 DEF FinishedInv
<1>5. CASE handleTorrentFinishedAlert
  <2>1. Head(alerts).type = "finished" /\ cmds' = cmds
    BY <1>5 DEF handleTorrentFinishedAlert, Handle
  <2>2. /\ Has(alerts', "checked") <=> Has(alerts, "checked")
        /\ FoundComplete(alerts') <=> FoundComplete(alerts)
    BY <1>3, <2>1
  <2>3. m_hasSeedStatus' /\ report' # "none" /\ (calm => report' # "twice")
    <3>1. CASE m_hasSeedStatus
      <4>1. m_hasSeedStatus' = m_hasSeedStatus /\ report' = report
        BY <1>5, <3>1 DEF handleTorrentFinishedAlert
      <4> QED BY <3>1, <4>1 DEF FinishedInv, CalmInv
    <3>2. CASE ~ m_hasSeedStatus
      <4>1. m_hasSeedStatus' = TRUE /\ report' = IF report \in {"once", "twice"} THEN "twice" ELSE "once"
        BY <1>5, <3>2, Zenon DEF handleTorrentFinishedAlert
      <4>2. calm => report = "none"
        BY <3>2 DEF FinishedInv, CalmInv
      <4> QED BY <4>1, <4>2
    <3> QED BY <3>1, <3>2
  <2> QED BY <1>1, <2>1, <2>2, <2>3 DEF FinishedInv, CalmInv
<1>6. CASE ~ handleTorrentCheckedAlert /\ ~ handleTorrentFinishedAlert
  <2>1. Head(alerts).type \notin {"checked", "finished"} /\ UNCHANGED <<m_hasSeedStatus, report>>
    BY <1>6 DEF HandleAlert, handleStateUpdate, handleTorrentPausedAlert, handleTorrentResumedAlert,
           handleMetadataReceivedAlert, Handle
  <2>2. SameChecks(alerts, alerts')
    BY <1>1, <1>2, <2>1, SameChecksOnce
  <2>3. cmds' = cmds \/ cmds' = <<>> \/ cmds' = <<PriorityCommand(TRUE)>>
    BY <1>6 DEF HandleAlert, handleStateUpdate, handleTorrentPausedAlert, handleTorrentResumedAlert,
           handleMetadataReceivedAlert
  <2>4. /\ ~ HasOp(<<>>, "recheck") /\ ~ HasOp(<<PriorityCommand(TRUE)>>, "recheck")
        /\ <<>> \in Seq(Commands) /\ <<PriorityCommand(TRUE)>> \in Seq(Commands)
    <3>1. PriorityCommand(TRUE).op # "recheck" /\ PriorityCommand(TRUE) \in Commands
      BY CommandTypes DEF PriorityCommand, Command
    <3> QED BY <3>1, Tuples, TuplesHave
  <2>5. /\ OneRecheck(cmds) => OneRecheck(cmds')
        /\ HasOp(cmds', "recheck") => HasOp(cmds, "recheck")
    BY <2>3, <2>4, RechecksHave
  <2> QED BY <1>1, <2>1, <2>2, <2>5, FinishedKept
<1> QED BY <1>4, <1>5, <1>6

LEMMA InitFinished == Init => FinishedInv
<1> SUFFICES ASSUME Init PROVE FinishedInv
  OBVIOUS
<1>1. ~ Has(alerts, "checked") /\ ~ FoundComplete(alerts)
  <2>1. alerts \in {<<>>, <<Alert("paused")>>, <<Alert("metadata"), Alert("paused")>>}
    BY DEF Init
  <2> QED BY <2>1 DEF Has, FoundComplete, Alert
<1>2. native.phase # "finished"
  BY DEF Init
<1>3. ~ HasOp(cmds, "recheck") /\ cmds \in Seq(Commands)
  <2>1. PICK paused \in BOOLEAN, forced \in BOOLEAN, skipChecking \in BOOLEAN, firstLast \in BOOLEAN :
          Constructed(paused, forced, skipChecking, firstLast)
    BY DEF Init
  <2>2. PICK p \in {<<>>, <<PriorityCommand(firstLast)>>}, r \in {<<>>, <<resume_impl(forced, FALSE)>>} : cmds = p \o r
    BY <2>1 DEF Constructed
  <2>3. p \in Seq(Commands) /\ r \in Seq(Commands)
    <3>1. PriorityCommand(firstLast) \in Commands /\ resume_impl(forced, FALSE) \in Commands
      BY CommandTypes, InitTyped, ResumeType
    <3> QED BY <3>1, Tuples
  <2>4. ~ HasOp(p, "recheck") /\ ~ HasOp(r, "recheck")
    BY <2>2 DEF HasOp, PriorityCommand, Command, resume_impl, Resume
  <2> QED BY <2>2, <2>3, <2>4, CommandsHave, ConcatProperties
<1>4. report \in {"none", "found"} /\ (m_hasSeedStatus <=> report = "found")
  <2>1. PICK skipChecking \in BOOLEAN : m_hasSeedStatus = skipChecking /\ report = IF skipChecking THEN "found" ELSE "none"
    BY DEF Init, Constructed
  <2> QED BY <2>1
<1>5. OneRecheck(cmds)
  BY <1>3, RechecksHave
<1> QED BY <1>1, <1>2, <1>3, <1>4, <1>5 DEF FinishedInv, CalmInv

LEMMA NextFinished == TypeOK /\ MetadataInv /\ FinishedInv /\ [Next]_vars => FinishedInv'
<1>1. ASSUME FinishedInv, UNCHANGED vars PROVE FinishedInv'
  BY <1>1, SameChecksOnce, FinishedKept DEF vars, handle, requests
<1> QED BY <1>1, NetworkFinished, RequestFinished, HandleFinished DEF Next

\* torrentFinished is not sent twice for one completion, unless a recheck is asked
\* for while another is not over; and no completion is lost.
THEOREM FinishedIsReported == Spec => []FinishedReported
<1>1. FinishedInv => FinishedReported
  <2>1. ~ Has(<<>>, "checked") /\ ~ Has(<<>>, "finished")
    BY DEF Has
  <2> QED BY <2>1 DEF FinishedInv, CalmInv, FinishedReported, Rest
<1> QED BY <1>1, InitTyped, InitMetadata, InitFinished, NextTyped, NextMetadata, NextFinished, PTL DEF Spec
=============================================================================
