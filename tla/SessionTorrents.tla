--------------------------- MODULE SessionTorrents ---------------------------
(***************************************************************************)
(* How BitTorrent::Session (src/bittorrent/session.cpp) keeps track of     *)
(* torrents: m_addingTorrents, m_loadedMetadata (magnets added in hidden   *)
(* mode to load their metadata), m_torrents and m_extraLimit, against the  *)
(* native libtorrent session, which runs in a thread of its own.           *)
(*                                                                         *)
(* The Session's thread calls libtorrent.  async_add_torrent and           *)
(* remove_torrent only post a job; find_torrent, add_torrent and           *)
(* torrent_file wait for the network thread, hence for every job posted    *)
(* before: actions that use them need jobs = <<>>.  What happened comes    *)
(* back as alerts, which readAlerts() handles in the order they were       *)
(* posted, between calls of the user.                                      *)
(*                                                                         *)
(* A torrent that is added natively gets a new instance number; a native   *)
(* handle is valid, and has an info hash, as long as its instance is in    *)
(* the native session.  No action stands for calls that change nothing:    *)
(* those refused with false, those that merge trackers, and those that     *)
(* addTorrent_impl() leaves by an exception (lines 1784, 1793): a magnet   *)
(* that was not preloaded, a torrent file of less than 3809 pieces.        *)
(***************************************************************************)
EXTENDS Integers, Sequences, FiniteSets

CONSTANTS Hashes,        \* info hashes of torrents
          Calls,         \* what the user calls
          Patient,       \* whether the user leaves a preloaded torrent alone
                         \* once its metadata has come
          AddMayFail,    \* whether libtorrent may refuse an asynchronous addition
          MaxInstances,  \* bound on the torrents added natively
          MaxAlerts      \* bound on the alerts that wait when a magnet is loaded

ASSUME CallsAssumption == Calls \subseteq {"addFile", "addMagnet", "load", "cancel", "delete"}
ASSUME FlagsAssumption == Patient \in BOOLEAN /\ AddMayFail \in BOOLEAN
ASSUME MaxInstancesAssumption == MaxInstances \in Nat
ASSUME MaxAlertsAssumption == MaxAlerts \in Nat

VARIABLES adding,       \* m_addingTorrents
          loaded,       \* m_loadedMetadata: "absent", "waiting" or "info"
          torrents,     \* m_torrents: the instance of each handle, or None
          extraLimit,   \* m_extraLimit
          announced,    \* what metadataLoaded last carried for a hash
          crossed,      \* history: hashes whose torrent file was added while the
                        \* removal of a magnet of that hash was under way
          native,       \* libtorrent: the instance that has a hash, or None
          hasMeta,      \* libtorrent: instances whose metadata is known
          instances,    \* libtorrent: how many instances there were
          jobs,         \* calls posted to the network thread
          alerts        \* alerts it posted

user == <<adding, loaded, torrents, extraLimit, announced, crossed>>
net == <<native, hasMeta, instances>>
vars == <<user, net, jobs, alerts>>

None == 0
Instances == 1 .. MaxInstances

AddJob(h) == [op |-> "add", hash |-> h, inst |-> None]
RemoveJob(h, i) == [op |-> "remove", hash |-> h, inst |-> i]
Alert(type, h, i) == [type |-> type, hash |-> h, inst |-> i]

\* handle.is_valid(), and handle.info_hash() is h
Valid(h, i) == i # None /\ native[h] = i

Init ==
  /\ adding = {} /\ loaded = [h \in Hashes |-> "absent"]
  /\ torrents = [h \in Hashes |-> None] /\ extraLimit = 0
  /\ announced = [h \in Hashes |-> "none"] /\ crossed = {}
  /\ native = [h \in Hashes |-> None] /\ hasMeta = {} /\ instances = 0
  /\ jobs = <<>> /\ alerts = <<>>

-----------------------------------------------------------------------------
(***************************************************************************)
(* The native session.  A torrent that is there already is found again     *)
(* (duplicates are no error).                                              *)
(***************************************************************************)

\* The instance that adding h yields, and what becomes of the session.
NativeAdd(h, withMeta, i) ==
  IF native[h] # None
  THEN i = native[h] /\ UNCHANGED net
  ELSE /\ i = instances + 1 /\ i \in Instances
       /\ native' = [native EXCEPT ![h] = i]
       /\ hasMeta' = IF withMeta THEN hasMeta \cup {i} ELSE hasMeta
       /\ instances' = i

RunAdd(h) ==
  /\ jobs # <<>> /\ Head(jobs) = AddJob(h)
  /\ jobs' = Tail(jobs)
  /\ \/ \E i \in Instances : NativeAdd(h, TRUE, i) /\ alerts' = Append(alerts, Alert("added", h, i))
     \/ AddMayFail /\ alerts' = Append(alerts, Alert("addFailed", h, None)) /\ UNCHANGED net
  /\ UNCHANGED user

RunRemove(h) ==
  /\ jobs # <<>> /\ Head(jobs).op = "remove" /\ Head(jobs).hash = h
  /\ jobs' = Tail(jobs)
  /\ IF Valid(h, Head(jobs).inst)
     THEN /\ native' = [native EXCEPT ![h] = None]
          /\ alerts' = Append(alerts, Alert("removed", h, Head(jobs).inst))
     ELSE UNCHANGED <<native, alerts>>
  /\ UNCHANGED <<user, hasMeta, instances>>

MetadataArrives(h) ==
  /\ native[h] # None /\ native[h] \notin hasMeta
  /\ hasMeta' = hasMeta \cup {native[h]}
  /\ alerts' = Append(alerts, Alert("metadata", h, native[h]))
  /\ UNCHANGED <<user, native, instances, jobs>>

-----------------------------------------------------------------------------
(***************************************************************************)
(* The user's calls.                                                       *)
(***************************************************************************)

\* Mutant of Known: m_addingTorrents is not asked.
KnownButAdding(h) == loaded[h] # "absent" \/ torrents[h] # None

\* isKnownTorrent()
Known(h) == h \in adding \/ loaded[h] # "absent" \/ torrents[h] # None

\* Mutant: the handle is made but not put into m_torrents.
CreateNotInserted(h, i, pending) ==
  /\ adding' = IF Valid(h, i) THEN pending \ {h} ELSE pending
  /\ UNCHANGED torrents

\* createTorrentHandle() for instance i and adding set `pending`.
CreateTorrentHandle(h, i, pending) ==
  IF Valid(h, i) /\ h \in pending
  THEN adding' = pending \ {h} /\ torrents' = [torrents EXCEPT ![h] = i]
  ELSE adding' = pending /\ UNCHANGED torrents

\* The bound on what is added: every job that adds can still run.
Room == instances + Cardinality({k \in DOMAIN jobs : jobs[k].op = "add"}) < MaxInstances

\* A job that removes a torrent of hash h is under way.
Removing(h) == \E k \in DOMAIN jobs : jobs[k].op = "remove" /\ jobs[k].hash = h

\* addTorrent() of a torrent file: addTorrent_impl() goes through to the end.
AddFile(h) ==
  /\ "addFile" \in Calls /\ Room
  /\ ~ Known(h)
  /\ adding' = adding \cup {h}
  /\ jobs' = Append(jobs, AddJob(h))
  /\ crossed' = IF Removing(h) THEN crossed \cup {h} ELSE crossed
  /\ UNCHANGED <<loaded, torrents, extraLimit, announced, net, alerts>>

\* addTorrent() of a magnet whose metadata is or was being loaded.
AddPreloaded(h) ==
  /\ "addMagnet" \in Calls
  /\ loaded[h] # "absent" /\ (Patient => loaded[h] = "waiting")
  /\ jobs = <<>>
  /\ loaded' = [loaded EXCEPT ![h] = "absent"]
  /\ extraLimit' = extraLimit - 1
  /\ CreateTorrentHandle(h, native[h], adding \cup {h})
  /\ UNCHANGED <<announced, crossed, net, jobs, alerts>>

\* The native call tells of its addition by an alert, too; one that fails
\* (line 1891) by an alert that changes nothing.
LoadMetadata(h) ==
  /\ "load" \in Calls /\ Room /\ Len(alerts) < MaxAlerts
  /\ ~ Known(h)
  /\ jobs = <<>>
  /\ \E i \in Instances :
       NativeAdd(h, FALSE, i) /\ alerts' = Append(alerts, Alert("added", h, i))
  /\ loaded' = [loaded EXCEPT ![h] = "waiting"]
  /\ extraLimit' = extraLimit + 1
  /\ announced' = [announced EXCEPT ![h] = "none"]
  /\ UNCHANGED <<adding, torrents, crossed, jobs>>

\* Mutant: the validity of what find_torrent() returns is not tested.
RemoveFoundAnyway(h) == <<RemoveJob(h, native[h])>>

\* What cancelLoadMetadata() posts for the torrent that find_torrent() returns.
RemoveFound(h) == IF native[h] # None THEN <<RemoveJob(h, native[h])>> ELSE <<>>

CancelLoadMetadata(h) ==
  /\ "cancel" \in Calls
  /\ loaded[h] # "absent"
  /\ jobs = <<>>
  /\ loaded' = [loaded EXCEPT ![h] = "absent"]
  /\ jobs' = RemoveFound(h)
  /\ UNCHANGED <<adding, torrents, extraLimit, announced, crossed, net, alerts>>

\* The native torrent is not removed.
DeleteTorrent(h) ==
  /\ "delete" \in Calls
  /\ torrents[h] # None
  /\ torrents' = [torrents EXCEPT ![h] = None]
  /\ UNCHANGED <<adding, loaded, extraLimit, announced, crossed, net, jobs, alerts>>

-----------------------------------------------------------------------------
(***************************************************************************)
(* readAlerts(): one action for each alert, at the head of the queue.      *)
(***************************************************************************)

AlertIs(type, h) == alerts # <<>> /\ Head(alerts).type = type /\ Head(alerts).hash = h

HandleAddTorrentAlert(h) ==
  /\ \/ AlertIs("added", h) /\ CreateTorrentHandle(h, Head(alerts).inst, adding)
     \/ AlertIs("addFailed", h) /\ UNCHANGED <<adding, torrents>>
  /\ alerts' = Tail(alerts)
  /\ UNCHANGED <<loaded, extraLimit, announced, crossed, net, jobs>>

\* Mutant: every torrent whose metadata arrives is taken for a preloaded one.
AnyIsPreloaded(h) == Valid(h, Head(alerts).inst)

\* Whether the metadata that has come is that of a preloaded magnet.
IsPreloaded(h) == Valid(h, Head(alerts).inst) /\ loaded[h] # "absent"

\* Mutants of TakeMetadata: the limit, the metadata or the removal is forgotten.
TakeKeepingLimit(h) ==
  /\ loaded' = [loaded EXCEPT ![h] = "info"]
  /\ jobs' = <<RemoveJob(h, Head(alerts).inst)>>
  /\ UNCHANGED extraLimit

TakeNothing(h) ==
  /\ extraLimit' = extraLimit - 1
  /\ jobs' = <<RemoveJob(h, Head(alerts).inst)>>
  /\ UNCHANGED loaded

TakeWithoutRemoving(h) ==
  /\ extraLimit' = extraLimit - 1
  /\ loaded' = [loaded EXCEPT ![h] = "info"]
  /\ UNCHANGED jobs

TakeMetadata(h) ==
  /\ extraLimit' = extraLimit - 1
  /\ loaded' = [loaded EXCEPT ![h] = "info"]
  /\ jobs' = <<RemoveJob(h, Head(alerts).inst)>>

HandleMetadataReceivedAlert(h) ==
  /\ AlertIs("metadata", h)
  /\ IF IsPreloaded(h) THEN jobs = <<>> /\ TakeMetadata(h)
     ELSE UNCHANGED <<extraLimit, loaded, jobs>>
  /\ alerts' = Tail(alerts)
  /\ UNCHANGED <<adding, torrents, announced, crossed, net>>

HandleTorrentRemovedAlert(h) ==
  /\ AlertIs("removed", h)
  /\ IF loaded[h] # "absent"
     THEN /\ announced' = [announced EXCEPT ![h] = IF loaded[h] = "info" THEN "info" ELSE "empty"]
          /\ loaded' = [loaded EXCEPT ![h] = "absent"]
     ELSE UNCHANGED <<announced, loaded>>
  /\ alerts' = Tail(alerts)
  /\ UNCHANGED <<adding, torrents, extraLimit, crossed, net, jobs>>

HandleAlert(h) ==
  \/ HandleAddTorrentAlert(h)
  \/ HandleMetadataReceivedAlert(h)
  \/ HandleTorrentRemovedAlert(h)

RunJob(h) == RunAdd(h) \/ RunRemove(h)

UserCall(h) ==
  \/ AddFile(h) \/ AddPreloaded(h) \/ LoadMetadata(h) \/ CancelLoadMetadata(h)
  \/ DeleteTorrent(h)

Next == \E h \in Hashes : UserCall(h) \/ HandleAlert(h) \/ RunJob(h) \/ MetadataArrives(h)

Spec == Init /\ [][Next]_vars

(***************************************************************************)
(* Fairness: the network thread runs what is posted, Qt's event loop runs  *)
(* the readAlerts() that every alert schedules (line 382), and some peer   *)
(* has the metadata of every magnet.                                       *)
(***************************************************************************)
LiveSpec ==
  /\ Spec
  /\ \A h \in Hashes : WF_vars(RunJob(h)) /\ WF_vars(HandleAlert(h)) /\ WF_vars(MetadataArrives(h))

-----------------------------------------------------------------------------
(***************************************************************************)
(* Properties.                                                             *)
(***************************************************************************)

MaybeInstance == Instances \cup {None}

\* Only valid handles are removed.
Jobs == [op : {"add"}, hash : Hashes, inst : {None}]
          \cup [op : {"remove"}, hash : Hashes, inst : Instances]

Alerts == [type : {"added", "addFailed", "metadata", "removed"}, hash : Hashes,
           inst : MaybeInstance]

\* The type invariant.
TypeOK ==
  /\ adding \subseteq Hashes
  /\ loaded \in [Hashes -> {"absent", "waiting", "info"}]
  /\ torrents \in [Hashes -> MaybeInstance]
  /\ extraLimit \in Int
  /\ announced \in [Hashes -> {"none", "empty", "info"}] /\ crossed \subseteq Hashes
  /\ native \in [Hashes -> MaybeInstance]
  /\ hasMeta \subseteq Instances /\ instances \in 0 .. MaxInstances
  /\ jobs \in Seq(Jobs) /\ alerts \in Seq(Alerts)

(***************************************************************************)
(* A torrent is being added, or loads its metadata, or is in the list of   *)
(* torrents: never two of these (lines 1761, 1763, 1858-1860), in whatever *)
(* order calls are made and alerts arrive.                                 *)
(***************************************************************************)
OneStage ==
  \A h \in Hashes :
    /\ h \in adding => loaded[h] = "absent" /\ torrents[h] = None
    /\ loaded[h] # "absent" => torrents[h] = None

\* The torrent of h's TorrentHandle is in the native session, and no job that
\* would remove it is under way.
Alive(h) ==
  torrents[h] # None =>
    /\ native[h] = torrents[h]
    /\ \A k \in DOMAIN jobs : jobs[k] # RemoveJob(h, torrents[h])

(***************************************************************************)
(* What is removed after its metadata has come (line 3375) or by a cancel  *)
(* (line 1518) is never a torrent the user has meanwhile been given,       *)
(* unless its torrent file was added while the removal was under way.      *)
(***************************************************************************)
HandlesAlive == \A h \in Hashes \ crossed : Alive(h)

(***************************************************************************)
(* "Magnet added for preload its metadata" (line 3271): what the alert of  *)
(* a magnet loaded for its metadata says was added is never made into a    *)
(* TorrentHandle, only what the user adds is, and that nothing removes.    *)
(***************************************************************************)
NeverThePreloaded == \A h \in Hashes : Alive(h)

Waiting == {h \in Hashes : loaded[h] = "waiting"}

(***************************************************************************)
(* The queue limits are raised by one for each magnet that waits for its   *)
(* metadata (lines 1895, 1714, 3372).                                      *)
(***************************************************************************)
ExtraLimitCounts == extraLimit = Cardinality(Waiting)

(***************************************************************************)
(* "Internally increase the queue limits to ensure that the magnet is      *)
(* started" (session.cpp:725): while magnets wait for their metadata the   *)
(* limits are raised by one for each of them at least.                     *)
(***************************************************************************)
LimitRaised == extraLimit >= Cardinality(Waiting)

\* ... and they are not raised any more when no magnet is being loaded.
LimitGivenBack == (\A h \in Hashes : loaded[h] = "absent") => extraLimit <= 0

(***************************************************************************)
(* metadataLoaded is emitted (line 3339) for metadata that was loaded,     *)
(* never for the TorrentInfo() put there while waiting (line 1894).        *)
(***************************************************************************)
MetadataWhole == \A h \in Hashes : announced[h] # "empty"

(***************************************************************************)
(* A torrent in m_addingTorrents is really being added: a job or an alert  *)
(* for it is under way.  Otherwise it would be refused for ever by         *)
(* "We should not add torrent if it already processed or adding to         *)
(* session" (lines 1759, 1856).                                            *)
(***************************************************************************)
AddingPending ==
  \A h \in adding :
    \/ \E k \in DOMAIN jobs : jobs[k] = AddJob(h)
    \/ \E k \in DOMAIN alerts : alerts[k].hash = h /\ alerts[k].type \in {"added", "addFailed"}

(***************************************************************************)
(* "Adding preloaded torrent ... use common 2nd step of torrent addition"  *)
(* (lines 1711, 1724): the call that adds a preloaded torrent puts it into *)
(* m_torrents.                                                             *)
(***************************************************************************)
PreloadedIsAdded == [][\A h \in Hashes : AddPreloaded(h) => torrents'[h] # None]_vars

(***************************************************************************)
(* "Delete a torrent from the session, given its hash" (line 1495): when   *)
(* every job and alert is done with, a torrent the Session does not know   *)
(* is not in the native session.                                           *)
(***************************************************************************)
DeletedIsGone ==
  jobs = <<>> /\ alerts = <<>> => \A h \in Hashes : ~ Known(h) => native[h] = None

(***************************************************************************)
(* The abstract specification: the stages a torrent goes through.          *)
(***************************************************************************)
stage == [h \in Hashes |-> IF torrents[h] # None THEN "added"
                           ELSE IF loaded[h] = "info" THEN "preloaded"
                           ELSE IF loaded[h] = "waiting" THEN "preloading"
                           ELSE IF h \in adding THEN "adding"
                           ELSE "unknown"]

Abstract == INSTANCE TorrentStages

\* Every step of the Session moves each torrent along the stages, and no
\* torrent stays in a stage it only passes through.
ImplementsStages == Abstract!StagesSpec
=============================================================================
