----------------------- MODULE SessionTorrents_proofs ------------------------
(***************************************************************************)
(* What holds of SessionTorrents for every set of torrents, whatever the   *)
(* user calls, in every order of jobs and alerts; and what holds besides   *)
(* when the user is patient, up to the stages that a torrent goes through. *)
(***************************************************************************)
EXTENDS SessionTorrents, FiniteSetTheorems, TLAPS

(***************************************************************************)
(* The calls that post a removal wait until every job before it has run,   *)
(* and take the torrent out of the containers.  So a removal is the first  *)
(* of the jobs, and the torrent it removes is neither being added nor in   *)
(* m_torrents, unless its torrent file was added since.                    *)
(***************************************************************************)
RemovalsAlone ==
  \A k \in DOMAIN jobs : jobs[k].op = "remove" =>
    /\ k = 1
    /\ \/ jobs[k].hash \in crossed
       \/ jobs[k].hash \notin adding /\ torrents[jobs[k].hash] = None

\* A magnet is loaded only when no torrent file waits to be added.
AdditionsAlone == \A k \in DOMAIN jobs : jobs[k].op = "add" => loaded[jobs[k].hash] = "absent"

\* The torrent of a handle is in the native session.
HandlesValid == \A h \in Hashes \ crossed : torrents[h] # None => native[h] = torrents[h]

Inv == TypeOK /\ OneStage /\ HandlesValid /\ RemovalsAlone /\ AdditionsAlone

-----------------------------------------------------------------------------
(***************************************************************************)
(* Queues.                                                                 *)
(***************************************************************************)

LEMMA AppendIs ==
  ASSUME NEW S, NEW s \in Seq(S), NEW e \in S, NEW t, t = Append(s, e)
  PROVE  /\ t \in Seq(S) /\ Len(s) \in Nat
         /\ DOMAIN s = 1 .. Len(s) /\ DOMAIN t = 1 .. Len(s) + 1
         /\ \A k \in DOMAIN s : t[k] = s[k]
         /\ t[Len(s) + 1] = e
  OBVIOUS

LEMMA TailIs ==
  ASSUME NEW S, NEW s \in Seq(S), s # <<>>, NEW t, t = Tail(s)
  PROVE  /\ t \in Seq(S) /\ Len(s) \in Nat \ {0} /\ 1 \in DOMAIN s /\ Head(s) = s[1] /\ s[1] \in S
         /\ DOMAIN s = 1 .. Len(s)
         /\ \A k \in DOMAIN t : k \in Nat \ {0} /\ k + 1 \in DOMAIN s /\ t[k] = s[k + 1]
  OBVIOUS

LEMMA SingleIs ==
  ASSUME NEW S, NEW e \in S, NEW t, t = <<e>>
  PROVE  /\ t \in Seq(S)
         /\ \A k \in DOMAIN t : k = 1 /\ t[k] = e
  OBVIOUS

\* Jobs and alerts are what they were made from.
LEMMA Made ==
  ASSUME NEW h \in Hashes, NEW i \in MaybeInstance,
         NEW type \in {"added", "addFailed", "metadata", "removed"}
  PROVE  /\ AddJob(h) \in Jobs /\ AddJob(h).op = "add" /\ AddJob(h).hash = h
         /\ (i # None => RemoveJob(h, i) \in Jobs) /\ RemoveJob(h, i).op = "remove"
         /\ RemoveJob(h, i).hash = h /\ RemoveJob(h, i).inst = i
         /\ Alert(type, h, i) \in Alerts /\ Alert(type, h, i).type = type
         /\ Alert(type, h, i).hash = h /\ Alert(type, h, i).inst = i
  BY DEF AddJob, RemoveJob, Alert, Jobs, Alerts, MaybeInstance

\* When the job at the head has run, no removal is left.
LEMMA JobTaken ==
  ASSUME Inv, jobs # <<>>, jobs' = Tail(jobs)
  PROVE  /\ jobs' \in Seq(Jobs) /\ 1 \in DOMAIN jobs /\ Head(jobs) = jobs[1] /\ jobs[1] \in Jobs
         /\ \A k \in DOMAIN jobs' : /\ k \in Nat \ {0} /\ k + 1 \in DOMAIN jobs
                                    /\ jobs'[k] = jobs[k + 1] /\ jobs'[k].op # "remove"
<1>1. jobs \in Seq(Jobs) /\ RemovalsAlone
  BY DEF Inv, TypeOK
<1>2. \A k \in Nat \ {0} : k + 1 # 1
  OBVIOUS
<1>3. /\ jobs' \in Seq(Jobs) /\ 1 \in DOMAIN jobs /\ Head(jobs) = jobs[1] /\ jobs[1] \in Jobs
      /\ \A k \in DOMAIN jobs' : k \in Nat \ {0} /\ k + 1 \in DOMAIN jobs /\ jobs'[k] = jobs[k + 1]
  BY <1>1, TailIs
<1> QED
  BY <1>1, <1>2, <1>3 DEF RemovalsAlone

-----------------------------------------------------------------------------
(***************************************************************************)
(* The network thread.                                                     *)
(***************************************************************************)

\* What the network thread does to the torrents when it runs jobs.
LEMMA NativeAddKeeps ==
  ASSUME TypeOK, HandlesValid, NEW h \in Hashes, NEW i \in Instances, NEW m \in BOOLEAN,
         NativeAdd(h, m, i)
  PROVE  /\ native' \in [Hashes -> MaybeInstance]
         /\ hasMeta' \subseteq Instances /\ instances' \in 0 .. MaxInstances
         /\ native'[h] = i
         /\ \A g \in Hashes \ crossed : torrents[g] # None => native'[g] = native[g]
<1>1. CASE native[h] # None
  BY <1>1 DEF NativeAdd, net, TypeOK
<1>2. CASE native[h] = None
  <2>1. /\ native' = [native EXCEPT ![h] = i] /\ instances' = i
        /\ (h \notin crossed => torrents[h] = None)
        /\ hasMeta' \in {hasMeta, hasMeta \cup {i}}
    BY <1>2 DEF NativeAdd, HandlesValid
  <2> QED
    BY <2>1, MaxInstancesAssumption DEF TypeOK, Instances, MaybeInstance
<1> QED
  BY <1>1, <1>2

LEMMA RunAddInv ==
  ASSUME Inv, NEW h \in Hashes, RunAdd(h)
  PROVE  Inv'
<1>1. /\ jobs # <<>> /\ jobs' = Tail(jobs) /\ alerts \in Seq(Alerts)
      /\ UNCHANGED <<adding, loaded, torrents, extraLimit, announced, crossed>>
      /\ TypeOK /\ OneStage /\ HandlesValid /\ AdditionsAlone
  BY DEF RunAdd, user, Inv, TypeOK
<1>2. /\ jobs' \in Seq(Jobs)
      /\ \A k \in DOMAIN jobs' : k + 1 \in DOMAIN jobs /\ jobs'[k] = jobs[k + 1]
                                 /\ jobs'[k].op # "remove"
  BY <1>1, JobTaken
<1>3. PICK a \in Alerts : alerts' = Append(alerts, a)
  <2>1. /\ \A i \in Instances : Alert("added", h, i) \in Alerts
        /\ Alert("addFailed", h, None) \in Alerts
    BY Made DEF MaybeInstance
  <2> QED
    BY <2>1 DEF RunAdd
<1>4. /\ native' \in [Hashes -> MaybeInstance]
      /\ hasMeta' \subseteq Instances /\ instances' \in 0 .. MaxInstances
      /\ \A g \in Hashes \ crossed : torrents[g] # None => native'[g] = native[g]
  <2>1. CASE \E i \in Instances : NativeAdd(h, TRUE, i)
    BY <1>1, <2>1, NativeAddKeeps
  <2>2. CASE UNCHANGED net
    BY <1>1, <2>2 DEF net, TypeOK
  <2> QED
    BY <2>1, <2>2 DEF RunAdd
<1>5. TypeOK' /\ OneStage'
  <2>1. alerts' \in Seq(Alerts)
    BY <1>1, <1>3
  <2> QED
    BY <1>1, <1>2, <1>4, <2>1 DEF TypeOK, OneStage
<1>6. HandlesValid' /\ RemovalsAlone' /\ AdditionsAlone'
  BY <1>1, <1>2, <1>4 DEF HandlesValid, RemovalsAlone, AdditionsAlone
<1> QED
  BY <1>5, <1>6 DEF Inv

LEMMA RunRemoveInv ==
  ASSUME Inv, NEW h \in Hashes, RunRemove(h)
  PROVE  Inv'
<1> DEFINE i == Head(jobs).inst
<1>1. /\ jobs # <<>> /\ Head(jobs).op = "remove" /\ Head(jobs).hash = h
      /\ jobs' = Tail(jobs) /\ alerts \in Seq(Alerts)
      /\ UNCHANGED <<adding, loaded, torrents, extraLimit, announced, crossed, hasMeta, instances>>
      /\ TypeOK /\ OneStage /\ HandlesValid /\ RemovalsAlone /\ AdditionsAlone
  BY DEF RunRemove, user, Inv, TypeOK
<1>2. /\ jobs' \in Seq(Jobs) /\ 1 \in DOMAIN jobs /\ Head(jobs) = jobs[1] /\ jobs[1] \in Jobs
      /\ \A k \in DOMAIN jobs' : k + 1 \in DOMAIN jobs /\ jobs'[k] = jobs[k + 1]
                                 /\ jobs'[k].op # "remove"
  BY <1>1, JobTaken
<1>3. h \in crossed \/ torrents[h] = None
  BY <1>1, <1>2 DEF RemovalsAlone
<1>4. /\ native' \in [Hashes -> MaybeInstance] /\ alerts' \in Seq(Alerts)
      /\ \A g \in Hashes \ crossed : torrents[g] # None => native'[g] = native[g]
  <2>1. CASE UNCHANGED <<native, alerts>>
    BY <1>1, <2>1 DEF TypeOK
  <2>2. CASE /\ native' = [native EXCEPT ![h] = None]
             /\ alerts' = Append(alerts, Alert("removed", h, i))
    <3>1. i \in MaybeInstance
      BY <1>1, <1>2 DEF Jobs, MaybeInstance
    <3>2. Alert("removed", h, i) \in Alerts
      BY <3>1, Made
    <3> QED
      BY <1>1, <1>3, <2>2, <3>2 DEF TypeOK, MaybeInstance
  <2> QED
    BY <2>1, <2>2 DEF RunRemove
<1>5. TypeOK' /\ OneStage'
  BY <1>1, <1>2, <1>4 DEF TypeOK, OneStage
<1>6. HandlesValid' /\ RemovalsAlone' /\ AdditionsAlone'
  BY <1>1, <1>2, <1>4 DEF HandlesValid, RemovalsAlone, AdditionsAlone
<1> QED
  BY <1>5, <1>6 DEF Inv

LEMMA MetadataArrivesInv ==
  ASSUME Inv, NEW h \in Hashes, MetadataArrives(h)
  PROVE  Inv'
<1> DEFINE a == Alert("metadata", h, native[h])
<1>1. /\ native[h] # None /\ hasMeta' = hasMeta \cup {native[h]} /\ alerts' = Append(alerts, a)
      /\ UNCHANGED <<adding, loaded, torrents, extraLimit, announced, crossed, native, instances,
                     jobs>>
      /\ alerts \in Seq(Alerts) /\ native[h] \in MaybeInstance
      /\ TypeOK /\ OneStage /\ HandlesValid /\ RemovalsAlone /\ AdditionsAlone
  BY DEF MetadataArrives, user, Inv, TypeOK
<1>2. alerts' \in Seq(Alerts)
  <2>1. a \in Alerts
    BY <1>1, Made
  <2> QED
    BY <1>1, <2>1
<1>3. native[h] \in Instances
  BY <1>1 DEF MaybeInstance
<1>4. TypeOK' /\ OneStage'
  BY <1>1, <1>2, <1>3 DEF TypeOK, OneStage
<1>5. HandlesValid' /\ RemovalsAlone' /\ AdditionsAlone'
  BY <1>1 DEF HandlesValid, RemovalsAlone, AdditionsAlone
<1> QED
  BY <1>4, <1>5 DEF Inv

-----------------------------------------------------------------------------
(***************************************************************************)
(* The user's calls.                                                       *)
(***************************************************************************)

LEMMA AddFileInv ==
  ASSUME Inv, NEW h \in Hashes, AddFile(h)
  PROVE  Inv'
<1> DEFINE j == AddJob(h)
<1>1. /\ adding' = adding \cup {h} /\ jobs' = Append(jobs, j)
      /\ UNCHANGED <<loaded, torrents, extraLimit, announced, native, hasMeta, instances, alerts>>
      /\ h \notin adding /\ loaded[h] = "absent" /\ torrents[h] = None
      /\ jobs \in Seq(Jobs)
      /\ TypeOK /\ OneStage /\ HandlesValid /\ RemovalsAlone /\ AdditionsAlone
  BY DEF AddFile, Known, net, Inv, TypeOK
<1>2. j \in Jobs /\ j.op = "add" /\ j.hash = h
  BY DEF AddJob, Jobs
<1>3. /\ jobs' \in Seq(Jobs)
      /\ \A k \in DOMAIN jobs' : \/ k \in DOMAIN jobs /\ jobs'[k] = jobs[k]
                                 \/ jobs'[k] = j
  BY <1>1, <1>2, AppendIs
<1>4. /\ crossed' \subseteq Hashes /\ crossed \subseteq crossed'
      /\ (h \notin crossed' => \A k \in DOMAIN jobs : ~ (jobs[k].op = "remove" /\ jobs[k].hash = h))
  BY <1>1 DEF AddFile, Removing, TypeOK
<1>5. TypeOK' /\ OneStage'
  BY <1>1, <1>3, <1>4 DEF TypeOK, OneStage
<1>6. HandlesValid'
  BY <1>1, <1>4 DEF HandlesValid
<1>7. RemovalsAlone'
  <2> SUFFICES ASSUME NEW k \in DOMAIN jobs', jobs'[k].op = "remove", jobs'[k].hash \notin crossed'
               PROVE  jobs'[k].hash \notin adding'
    BY <1>1, <1>2, <1>3, <1>4 DEF RemovalsAlone
  <2>1. k \in DOMAIN jobs /\ jobs'[k] = jobs[k]
    BY <1>2, <1>3
  <2>2. jobs[k].hash \notin adding
    BY <1>1, <1>4, <2>1 DEF RemovalsAlone
  <2> QED
    BY <1>1, <1>4, <2>1, <2>2
<1>8. AdditionsAlone'
  BY <1>1, <1>2, <1>3 DEF AdditionsAlone
<1> QED
  BY <1>5, <1>6, <1>7, <1>8 DEF Inv

\* What createTorrentHandle() does, for a torrent that waits in `pending`.
LEMMA HandleMade ==
  ASSUME TypeOK, NEW h \in Hashes, NEW i \in MaybeInstance, NEW pending,
         CreateTorrentHandle(h, i, pending)
  PROVE  \/ /\ adding' = pending /\ torrents' = torrents
         \/ /\ adding' = pending \ {h} /\ native[h] = i /\ i # None /\ h \in pending
            /\ torrents'[h] = i /\ torrents' \in [Hashes -> MaybeInstance]
            /\ \A g \in Hashes : g # h => torrents'[g] = torrents[g]
  BY DEF CreateTorrentHandle, Valid, TypeOK

LEMMA AddPreloadedInv ==
  ASSUME Inv, NEW h \in Hashes, AddPreloaded(h)
  PROVE  Inv'
<1>1. /\ loaded[h] # "absent" /\ jobs = <<>> /\ loaded' = [loaded EXCEPT ![h] = "absent"]
      /\ extraLimit' = extraLimit - 1 /\ CreateTorrentHandle(h, native[h], adding \cup {h})
      /\ UNCHANGED <<announced, crossed, native, hasMeta, instances, jobs, alerts>>
      /\ native[h] \in MaybeInstance
      /\ TypeOK /\ OneStage /\ HandlesValid
  BY DEF AddPreloaded, net, Inv, TypeOK
<1>2. h \notin adding /\ torrents[h] = None
  BY <1>1 DEF OneStage
<1>3. \/ /\ adding' = adding \cup {h} /\ torrents' = torrents
      \/ /\ adding' = (adding \cup {h}) \ {h} /\ torrents'[h] = native[h]
         /\ torrents' \in [Hashes -> MaybeInstance]
         /\ \A g \in Hashes : g # h => torrents'[g] = torrents[g]
  BY <1>1, HandleMade
<1>4. /\ loaded' \in [Hashes -> {"absent", "waiting", "info"}] /\ loaded'[h] = "absent"
      /\ \A g \in Hashes : g # h => loaded'[g] = loaded[g]
  BY <1>1 DEF TypeOK
<1>5. /\ \A g \in Hashes : g # h => (g \in adding' <=> g \in adding)
      /\ adding' \subseteq Hashes /\ torrents' \in [Hashes -> MaybeInstance]
      /\ (h \in adding' => torrents'[h] = None)
      /\ \A g \in Hashes : g # h => torrents'[g] = torrents[g]
      /\ (torrents'[h] # None => torrents'[h] = native[h])
  BY <1>1, <1>2, <1>3 DEF TypeOK
<1>6. TypeOK'
  <2>1. extraLimit' \in Int
    BY <1>1 DEF TypeOK
  <2> QED
    BY <1>1, <1>4, <1>5, <2>1 DEF TypeOK
<1>7. OneStage'
  BY <1>1, <1>4, <1>5 DEF OneStage
<1>8. HandlesValid' /\ RemovalsAlone' /\ AdditionsAlone'
  BY <1>1, <1>5 DEF HandlesValid, RemovalsAlone, AdditionsAlone
<1> QED
  BY <1>6, <1>7, <1>8 DEF Inv

LEMMA LoadMetadataInv ==
  ASSUME Inv, NEW h \in Hashes, LoadMetadata(h)
  PROVE  Inv'
<1>1. /\ h \notin adding /\ torrents[h] = None /\ loaded' = [loaded EXCEPT ![h] = "waiting"]
      /\ extraLimit' = extraLimit + 1 /\ announced' = [announced EXCEPT ![h] = "none"]
      /\ jobs = <<>> /\ UNCHANGED <<adding, torrents, crossed, jobs>> /\ alerts \in Seq(Alerts)
      /\ TypeOK /\ OneStage /\ HandlesValid
  BY DEF LoadMetadata, Known, Inv, TypeOK
<1>2. PICK i \in Instances : NativeAdd(h, FALSE, i) /\ alerts' = Append(alerts, Alert("added", h, i))
  BY DEF LoadMetadata
<1>3. /\ native' \in [Hashes -> MaybeInstance]
      /\ hasMeta' \subseteq Instances /\ instances' \in 0 .. MaxInstances
      /\ \A g \in Hashes \ crossed : torrents[g] # None => native'[g] = native[g]
  BY <1>1, <1>2, NativeAddKeeps
<1>4. TypeOK'
  <2>1. /\ loaded' \in [Hashes -> {"absent", "waiting", "info"}]
        /\ announced' \in [Hashes -> {"none", "empty", "info"}]
        /\ extraLimit' \in Int
    BY <1>1 DEF TypeOK
  <2>2. alerts' \in Seq(Alerts)
    <3>1. Alert("added", h, i) \in Alerts
      BY Made DEF MaybeInstance
    <3> QED
      BY <1>1, <1>2, <3>1
  <2> QED
    BY <1>1, <1>3, <2>1, <2>2 DEF TypeOK
<1>5. OneStage'
  BY <1>1 DEF OneStage, TypeOK
<1>6. HandlesValid' /\ RemovalsAlone' /\ AdditionsAlone'
  BY <1>1, <1>3 DEF HandlesValid, RemovalsAlone, AdditionsAlone
<1> QED
  BY <1>4, <1>5, <1>6 DEF Inv

\* Of the jobs, one that removes a torrent out of the containers is all there is.
LEMMA RemovalPosted ==
  ASSUME OneStage, NEW h \in Hashes, loaded[h] # "absent", UNCHANGED <<adding, torrents, crossed>>,
         \A k \in DOMAIN jobs' : k = 1 /\ jobs'[k].op = "remove" /\ jobs'[k].hash = h
  PROVE  RemovalsAlone' /\ AdditionsAlone'
<1>1. h \notin adding /\ torrents[h] = None
  BY DEF OneStage
<1> QED
  BY <1>1 DEF RemovalsAlone, AdditionsAlone

LEMMA CancelLoadMetadataInv ==
  ASSUME Inv, NEW h \in Hashes, CancelLoadMetadata(h)
  PROVE  Inv'
<1>1. /\ loaded[h] # "absent" /\ loaded' = [loaded EXCEPT ![h] = "absent"]
      /\ jobs' = RemoveFound(h)
      /\ UNCHANGED <<adding, torrents, extraLimit, announced, crossed, native, hasMeta, instances,
                     alerts>>
      /\ native[h] \in MaybeInstance
      /\ TypeOK /\ OneStage /\ HandlesValid
  BY DEF CancelLoadMetadata, net, Inv, TypeOK
<1>2. /\ jobs' \in Seq(Jobs)
      /\ \A k \in DOMAIN jobs' : k = 1 /\ jobs'[k].op = "remove" /\ jobs'[k].hash = h
  <2>1. CASE native[h] = None
    <3>1. jobs' = <<>>
      BY <1>1, <2>1 DEF RemoveFound
    <3> QED
      BY <3>1
  <2>2. CASE native[h] # None
    <3>1. RemoveJob(h, native[h]) \in Jobs /\ RemoveJob(h, native[h]).op = "remove"
            /\ RemoveJob(h, native[h]).hash = h
      BY <1>1, <2>2, Made
    <3>2. jobs' = <<RemoveJob(h, native[h])>>
      BY <1>1, <2>2 DEF RemoveFound
    <3> QED
      BY <3>1, <3>2, SingleIs
  <2> QED
    BY <2>1, <2>2
<1>3. TypeOK' /\ OneStage' /\ HandlesValid'
  BY <1>1, <1>2 DEF TypeOK, OneStage, HandlesValid
<1>4. RemovalsAlone' /\ AdditionsAlone'
  BY <1>1, <1>2, RemovalPosted
<1> QED
  BY <1>3, <1>4 DEF Inv

LEMMA DeleteTorrentInv ==
  ASSUME Inv, NEW h \in Hashes, DeleteTorrent(h)
  PROVE  Inv'
<1>1. /\ torrents' = [torrents EXCEPT ![h] = None]
      /\ UNCHANGED <<adding, loaded, extraLimit, announced, crossed, native, hasMeta, instances,
                     jobs, alerts>>
      /\ TypeOK /\ OneStage /\ HandlesValid /\ RemovalsAlone /\ AdditionsAlone
  BY DEF DeleteTorrent, net, Inv
<1>2. /\ torrents' \in [Hashes -> MaybeInstance] /\ torrents'[h] = None
      /\ \A g \in Hashes : g # h => torrents'[g] = torrents[g]
  BY <1>1 DEF TypeOK, MaybeInstance
<1>3. TypeOK' /\ OneStage' /\ HandlesValid'
  BY <1>1, <1>2 DEF TypeOK, OneStage, HandlesValid
<1>4. RemovalsAlone' /\ AdditionsAlone'
  <2>1. \A k \in DOMAIN jobs : jobs[k].hash \in Hashes
    <3>1. \A k \in DOMAIN jobs : jobs[k] \in Jobs
      BY <1>1 DEF TypeOK
    <3> QED
      BY <3>1 DEF Jobs
  <2> QED
    BY <1>1, <1>2, <2>1 DEF RemovalsAlone, AdditionsAlone
<1> QED
  BY <1>3, <1>4 DEF Inv

-----------------------------------------------------------------------------
(***************************************************************************)
(* The alerts.                                                             *)
(***************************************************************************)

\* An alert leaves the queue when it is handled.
LEMMA AlertTaken ==
  ASSUME TypeOK, alerts # <<>>, alerts' = Tail(alerts)
  PROVE  /\ alerts' \in Seq(Alerts) /\ 1 \in DOMAIN alerts
         /\ Head(alerts) = alerts[1] /\ alerts[1] \in Alerts
         /\ alerts[1].inst \in MaybeInstance
         /\ \A k \in DOMAIN alerts' :
              k \in Nat \ {0} /\ k + 1 \in DOMAIN alerts /\ alerts'[k] = alerts[k + 1]
<1>1. alerts \in Seq(Alerts)
  BY DEF TypeOK
<1>2. alerts[1] \in Alerts => alerts[1].inst \in MaybeInstance
  BY DEF Alerts
<1> QED
  BY <1>1, <1>2, TailIs

(***************************************************************************)
(* The alert may be that of a magnet that was loaded and cancelled; what   *)
(* waits to be removed is then among the crossed hashes.                   *)
(***************************************************************************)
LEMMA HandleAddTorrentAlertInv ==
  ASSUME Inv, NEW h \in Hashes, HandleAddTorrentAlert(h)
  PROVE  Inv'
<1> DEFINE i == Head(alerts).inst
<1>1. /\ alerts # <<>> /\ alerts' = Tail(alerts)
      /\ UNCHANGED <<loaded, extraLimit, announced, crossed, native, hasMeta, instances, jobs>>
      /\ TypeOK /\ OneStage /\ HandlesValid /\ RemovalsAlone /\ AdditionsAlone
  BY DEF HandleAddTorrentAlert, AlertIs, net, Inv
<1>2. alerts' \in Seq(Alerts) /\ i \in MaybeInstance
  BY <1>1, AlertTaken
<1>3. \/ adding' = adding /\ torrents' = torrents
      \/ /\ adding' = adding \ {h} /\ native[h] = i /\ i # None /\ h \in adding
         /\ torrents'[h] = i /\ torrents' \in [Hashes -> MaybeInstance]
         /\ \A g \in Hashes : g # h => torrents'[g] = torrents[g]
  <2>1. CASE AlertIs("added", h) /\ CreateTorrentHandle(h, i, adding)
    BY <1>1, <1>2, <2>1, HandleMade
  <2>2. CASE UNCHANGED <<adding, torrents>>
    BY <2>2
  <2> QED
    BY <2>1, <2>2 DEF HandleAddTorrentAlert
<1>4. CASE adding' = adding /\ torrents' = torrents
  BY <1>1, <1>2, <1>4 DEF Inv, TypeOK, OneStage, HandlesValid, RemovalsAlone, AdditionsAlone
<1>5. CASE /\ adding' = adding \ {h} /\ native[h] = i /\ i # None /\ h \in adding
           /\ torrents'[h] = i /\ torrents' \in [Hashes -> MaybeInstance]
           /\ \A g \in Hashes : g # h => torrents'[g] = torrents[g]
  <2>1. TypeOK' /\ OneStage' /\ HandlesValid'
    BY <1>1, <1>2, <1>5 DEF TypeOK, OneStage, HandlesValid
  <2>2. RemovalsAlone' /\ AdditionsAlone'
    <3>1. \A k \in DOMAIN jobs : jobs[k].hash \in Hashes
      <4>1. \A k \in DOMAIN jobs : jobs[k] \in Jobs
        BY <1>1 DEF TypeOK
      <4> QED
        BY <4>1 DEF Jobs
    <3> QED
      BY <1>1, <1>5, <3>1 DEF RemovalsAlone, AdditionsAlone
  <2> QED
    BY <2>1, <2>2 DEF Inv
<1> QED
  BY <1>3, <1>4, <1>5

LEMMA HandleMetadataReceivedAlertInv ==
  ASSUME Inv, NEW h \in Hashes, HandleMetadataReceivedAlert(h)
  PROVE  Inv'
<1> DEFINE i == Head(alerts).inst
<1>1. /\ alerts # <<>> /\ alerts' = Tail(alerts)
      /\ UNCHANGED <<adding, torrents, announced, crossed, native, hasMeta, instances>>
      /\ TypeOK /\ OneStage /\ HandlesValid /\ RemovalsAlone /\ AdditionsAlone
  BY DEF HandleMetadataReceivedAlert, AlertIs, net, Inv
<1>2. alerts' \in Seq(Alerts) /\ i \in MaybeInstance
  BY <1>1, AlertTaken
<1>3. CASE IsPreloaded(h)
  <2>1. /\ i # None /\ loaded[h] # "absent" /\ extraLimit' = extraLimit - 1
        /\ loaded' = [loaded EXCEPT ![h] = "info"] /\ jobs' = <<RemoveJob(h, i)>>
    BY <1>3 DEF HandleMetadataReceivedAlert, TakeMetadata, IsPreloaded, Valid
  <2>2. RemoveJob(h, i) \in Jobs /\ RemoveJob(h, i).op = "remove" /\ RemoveJob(h, i).hash = h
    BY <1>2, <2>1, Made
  <2>3. /\ jobs' \in Seq(Jobs)
        /\ \A k \in DOMAIN jobs' : k = 1 /\ jobs'[k].op = "remove" /\ jobs'[k].hash = h
    BY <2>1, <2>2, SingleIs
  <2>4. TypeOK'
    <3>1. extraLimit' \in Int /\ loaded' \in [Hashes -> {"absent", "waiting", "info"}]
      BY <1>1, <2>1 DEF TypeOK
    <3> QED
      BY <1>1, <1>2, <2>3, <3>1 DEF TypeOK
  <2>5. OneStage' /\ HandlesValid'
    BY <1>1, <2>1 DEF OneStage, HandlesValid, TypeOK
  <2>6. RemovalsAlone' /\ AdditionsAlone'
    BY <1>1, <2>1, <2>3, RemovalPosted
  <2> QED
    BY <2>4, <2>5, <2>6 DEF Inv
<1>4. CASE ~ IsPreloaded(h)
  <2>1. UNCHANGED <<extraLimit, loaded, jobs>>
    BY <1>4 DEF HandleMetadataReceivedAlert
  <2> QED
    BY <1>1, <1>2, <2>1 DEF Inv, TypeOK, OneStage, HandlesValid, RemovalsAlone, AdditionsAlone
<1> QED
  BY <1>3, <1>4

LEMMA HandleTorrentRemovedAlertInv ==
  ASSUME Inv, NEW h \in Hashes, HandleTorrentRemovedAlert(h)
  PROVE  Inv'
<1>1. /\ alerts # <<>> /\ alerts' = Tail(alerts)
      /\ UNCHANGED <<adding, torrents, extraLimit, crossed, native, hasMeta, instances, jobs>>
      /\ \/ UNCHANGED <<announced, loaded>>
         \/ /\ loaded' = [loaded EXCEPT ![h] = "absent"]
            /\ \E what \in {"info", "empty"} : announced' = [announced EXCEPT ![h] = what]
      /\ TypeOK /\ OneStage /\ HandlesValid /\ RemovalsAlone /\ AdditionsAlone
  BY DEF HandleTorrentRemovedAlert, AlertIs, net, Inv
<1>2. alerts' \in Seq(Alerts)
  BY <1>1, AlertTaken
<1>3. /\ loaded' \in [Hashes -> {"absent", "waiting", "info"}]
      /\ announced' \in [Hashes -> {"none", "empty", "info"}]
      /\ \A g \in Hashes : loaded'[g] # "absent" => loaded[g] # "absent"
      /\ \A g \in Hashes : loaded[g] = "absent" => loaded'[g] = "absent"
  BY <1>1 DEF TypeOK
<1>4. TypeOK' /\ OneStage' /\ HandlesValid' /\ RemovalsAlone'
  BY <1>1, <1>2, <1>3 DEF TypeOK, OneStage, HandlesValid, RemovalsAlone
<1>5. AdditionsAlone'
  <2>1. \A k \in DOMAIN jobs : jobs[k].hash \in Hashes
    <3>1. \A k \in DOMAIN jobs : jobs[k] \in Jobs
      BY <1>1 DEF TypeOK
    <3> QED
      BY <3>1 DEF Jobs
  <2> QED
    BY <1>1, <1>3, <2>1 DEF AdditionsAlone
<1> QED
  BY <1>4, <1>5 DEF Inv

-----------------------------------------------------------------------------
(***************************************************************************)
(* The invariant, and what follows.                                        *)
(***************************************************************************)

LEMMA InitInv == Init => Inv
<1> SUFFICES ASSUME Init PROVE Inv
  OBVIOUS
<1>1. TypeOK
  BY MaxInstancesAssumption DEF Init, TypeOK, MaybeInstance
<1>2. OneStage /\ HandlesValid /\ RemovalsAlone /\ AdditionsAlone
  BY DEF Init, OneStage, HandlesValid, RemovalsAlone, AdditionsAlone
<1> QED
  BY <1>1, <1>2 DEF Inv

LEMMA NextInv == Inv /\ [Next]_vars => Inv'
<1> SUFFICES ASSUME Inv, [Next]_vars PROVE Inv'
  OBVIOUS
<1>1. CASE UNCHANGED vars
  BY <1>1 DEF vars, user, net, Inv, TypeOK, OneStage, HandlesValid, RemovalsAlone, AdditionsAlone
<1>2. ASSUME NEW h \in Hashes, UserCall(h) PROVE Inv'
  BY <1>2, AddFileInv, AddPreloadedInv, LoadMetadataInv, CancelLoadMetadataInv,
     DeleteTorrentInv DEF UserCall
<1>3. ASSUME NEW h \in Hashes, HandleAlert(h) PROVE Inv'
  BY <1>3, HandleAddTorrentAlertInv, HandleMetadataReceivedAlertInv,
     HandleTorrentRemovedAlertInv DEF HandleAlert
<1>4. ASSUME NEW h \in Hashes, RunJob(h) \/ MetadataArrives(h) PROVE Inv'
  BY <1>4, RunAddInv, RunRemoveInv, MetadataArrivesInv DEF RunJob
<1> QED
  BY <1>1, <1>2, <1>3, <1>4 DEF Next

\* The inductive invariant holds, for any torrents and whatever is called.
THEOREM Invariance == Spec => []Inv
<1> QED
  BY InitInv, NextInv, PTL DEF Spec

\* The containers and the queues hold what they are declared to hold, and
\* no job is ever posted to remove an invalid handle (line 1517).
THEOREM TypeCorrect == Spec => []TypeOK
<1>1. Inv => TypeOK
  BY DEF Inv
<1> QED
  BY <1>1, Invariance, PTL

\* A torrent is in one of m_addingTorrents, m_loadedMetadata and m_torrents.
THEOREM AlwaysOneStage == Spec => []OneStage
<1>1. Inv => OneStage
  BY DEF Inv
<1> QED
  BY <1>1, Invariance, PTL

\* Nothing removes the native torrent of a handle the user has, unless its
\* torrent file was added while a magnet of that hash was being removed.
THEOREM AlwaysHandlesAlive == Spec => []HandlesAlive
<1>1. ASSUME Inv PROVE HandlesAlive
  <2> SUFFICES ASSUME NEW h \in Hashes \ crossed, torrents[h] # None
               PROVE  /\ native[h] = torrents[h]
                      /\ \A k \in DOMAIN jobs : jobs[k] # RemoveJob(h, torrents[h])
    BY DEF HandlesAlive, Alive
  <2>1. RemoveJob(h, torrents[h]).op = "remove" /\ RemoveJob(h, torrents[h]).hash = h
    BY DEF RemoveJob
  <2> QED
    BY <1>1, <2>1 DEF Inv, HandlesValid, RemovalsAlone
<1> QED
  BY <1>1, Invariance, PTL

-----------------------------------------------------------------------------
(***************************************************************************)
(* A patient user: one who does not cancel the loading of metadata, and    *)
(* leaves a magnet alone once its metadata has come.  Then a removal is    *)
(* posted, and told of, only for a magnet whose metadata has been taken,   *)
(* and once only.                                                          *)
(***************************************************************************)

PatientUser == Patient /\ "cancel" \notin Calls

RemovalJobs ==
  \A k \in DOMAIN jobs : jobs[k].op = "remove" =>
    /\ loaded[jobs[k].hash] = "info" /\ Valid(jobs[k].hash, jobs[k].inst)
    /\ \A l \in DOMAIN jobs : jobs[l].op = "remove" /\ jobs[l].hash = jobs[k].hash => l = k
    /\ \A l \in DOMAIN alerts : alerts[l].type = "removed" => alerts[l].hash # jobs[k].hash

RemovalAlerts ==
  \A k \in DOMAIN alerts : alerts[k].type = "removed" =>
    /\ loaded[alerts[k].hash] = "info"
    /\ \A l \in DOMAIN alerts :
         alerts[l].type = "removed" /\ alerts[l].hash = alerts[k].hash => l = k

\* Metadata comes once for an instance, and is not told of again once taken.
MetadataOnce ==
  \A k \in DOMAIN alerts : alerts[k].type = "metadata" =>
    /\ alerts[k].inst \in hasMeta
    /\ ~ (loaded[alerts[k].hash] = "info" /\ Valid(alerts[k].hash, alerts[k].inst))
    /\ \A l \in DOMAIN alerts :
         alerts[l].type = "metadata" /\ alerts[l].inst = alerts[k].inst => l = k

\* What has been taken is what the native session has.
MetadataTaken ==
  \A h \in Hashes : loaded[h] = "info" /\ native[h] # None => native[h] \in hasMeta

\* A magnet that waits for its metadata is in the native session.
WaitingAlive == \A h \in Hashes : loaded[h] = "waiting" => native[h] # None

Counted == IsFiniteSet(Waiting) /\ ExtraLimitCounts

InOrder == RemovalJobs /\ RemovalAlerts /\ MetadataOnce /\ MetadataTaken

Whole == InOrder /\ WaitingAlive /\ Counted /\ MetadataWhole

PatientInv == Inv /\ Whole

\* An alert is posted: the queue is what it was, and the alert.
LEMMA Posted ==
  ASSUME alerts \in Seq(Alerts), NEW a \in Alerts, alerts' = Append(alerts, a)
  PROVE  /\ alerts' \in Seq(Alerts) /\ Len(alerts) + 1 \notin DOMAIN alerts
         /\ \A k \in DOMAIN alerts' :
              \/ k \in DOMAIN alerts /\ k + 0 \in DOMAIN alerts /\ alerts'[k] = alerts[k + 0]
                   /\ alerts'[k] = alerts[k]
              \/ k = Len(alerts) + 1 /\ alerts'[k] = a
<1>1. /\ alerts' \in Seq(Alerts) /\ Len(alerts) \in Nat
      /\ DOMAIN alerts = 1 .. Len(alerts) /\ DOMAIN alerts' = 1 .. Len(alerts) + 1
      /\ \A k \in DOMAIN alerts : alerts'[k] = alerts[k]
      /\ alerts'[Len(alerts) + 1] = a
  BY AppendIs
<1>2. \A k \in 1 .. Len(alerts) + 1 : k + 0 = k /\ (k \in 1 .. Len(alerts) \/ k = Len(alerts) + 1)
  BY <1>1
<1>3. Len(alerts) + 1 \notin 1 .. Len(alerts)
  BY <1>1
<1> QED
  BY <1>1, <1>2, <1>3

(***************************************************************************)
(* Removals and metadata stay in order when jobs and alerts are dropped at *)
(* the head, and none of their kinds is posted.                            *)
(***************************************************************************)
LEMMA InOrderKept ==
  ASSUME InOrder,
         jobs \in Seq(Jobs), alerts \in Seq(Alerts),
         jobs' \in Seq(Jobs), alerts' \in Seq(Alerts),
         NEW d \in {0, 1}, NEW e \in {0, 1},
         \A k \in DOMAIN jobs' : jobs'[k].op = "remove" =>
           k + d \in DOMAIN jobs /\ jobs'[k] = jobs[k + d],
         \A k \in DOMAIN alerts' : alerts'[k].type \in {"removed", "metadata"} =>
           k + e \in DOMAIN alerts /\ alerts'[k] = alerts[k + e],
         hasMeta \subseteq hasMeta',
         \A k \in DOMAIN jobs' : jobs'[k].op = "remove" /\ loaded[jobs'[k].hash] = "info" =>
           loaded'[jobs'[k].hash] = "info" /\ native'[jobs'[k].hash] = native[jobs'[k].hash],
         \A k \in DOMAIN alerts' : alerts'[k].type = "removed" /\ loaded[alerts'[k].hash] = "info" =>
           loaded'[alerts'[k].hash] = "info",
         \A g \in Hashes : loaded'[g] = "info" =>
           loaded[g] = "info" /\ native'[g] = native[g]
  PROVE  InOrder'
<1>1. \A k \in DOMAIN jobs' : k \in Nat
  OBVIOUS
<1>2. \A k \in DOMAIN alerts' : k \in Nat /\ alerts'[k].hash \in Hashes
  <2>1. \A k \in DOMAIN alerts' : k \in Nat /\ alerts'[k] \in Alerts
    OBVIOUS
  <2>2. \A a \in Alerts : a.hash \in Hashes
    BY DEF Alerts
  <2> QED
    BY <2>1, <2>2
<1>3. \A k, l \in Nat : (l + d = k + d => l = k) /\ (l + e = k + e => l = k)
  OBVIOUS
<1>4. ASSUME NEW k \in DOMAIN jobs', jobs'[k].op = "remove"
      PROVE  /\ loaded'[jobs'[k].hash] = "info" /\ Valid(jobs[k].hash, jobs[k].inst)'
             /\ \A l \in DOMAIN jobs' :
                  jobs'[l].op = "remove" /\ jobs'[l].hash = jobs'[k].hash => l = k
             /\ \A l \in DOMAIN alerts' : alerts'[l].type = "removed" => alerts'[l].hash # jobs'[k].hash
  <2>1. /\ loaded[jobs'[k].hash] = "info" /\ Valid(jobs'[k].hash, jobs'[k].inst)
        /\ \A l \in DOMAIN jobs :
             jobs[l].op = "remove" /\ jobs[l].hash = jobs'[k].hash => l = k + d
        /\ \A l \in DOMAIN alerts : alerts[l].type = "removed" => alerts[l].hash # jobs'[k].hash
    BY <1>4 DEF InOrder, RemovalJobs
  <2>2. \A l \in DOMAIN jobs' :
          jobs'[l].op = "remove" /\ jobs'[l].hash = jobs'[k].hash => l + d = k + d
    BY <2>1
  <2>3. \A l \in DOMAIN alerts' : alerts'[l].type = "removed" => alerts'[l].hash # jobs'[k].hash
    BY <2>1
  <2>4. loaded'[jobs'[k].hash] = "info" /\ Valid(jobs[k].hash, jobs[k].inst)'
    BY <1>4, <2>1 DEF Valid
  <2> QED
    BY <2>2, <2>3, <2>4, <1>1, <1>3
<1>5. ASSUME NEW k \in DOMAIN alerts', alerts'[k].type = "removed"
      PROVE  /\ loaded'[alerts'[k].hash] = "info"
             /\ \A l \in DOMAIN alerts' :
                  alerts'[l].type = "removed" /\ alerts'[l].hash = alerts'[k].hash => l = k
  <2>1. /\ loaded[alerts'[k].hash] = "info"
        /\ \A l \in DOMAIN alerts :
             alerts[l].type = "removed" /\ alerts[l].hash = alerts'[k].hash => l = k + e
    BY <1>5 DEF InOrder, RemovalAlerts
  <2>2. \A l \in DOMAIN alerts' :
          alerts'[l].type = "removed" /\ alerts'[l].hash = alerts'[k].hash => l + e = k + e
    BY <2>1
  <2> QED
    BY <1>5, <2>1, <2>2, <1>2, <1>3
<1>6. ASSUME NEW k \in DOMAIN alerts', alerts'[k].type = "metadata"
      PROVE  /\ alerts'[k].inst \in hasMeta'
             /\ ~ (loaded'[alerts'[k].hash] = "info" /\ Valid(alerts[k].hash, alerts[k].inst)')
             /\ \A l \in DOMAIN alerts' :
                  alerts'[l].type = "metadata" /\ alerts'[l].inst = alerts'[k].inst => l = k
  <2>0. k + e \in DOMAIN alerts /\ alerts'[k] = alerts[k + e]
    BY <1>6
  <2>1. /\ alerts'[k].inst \in hasMeta
        /\ ~ (loaded[alerts'[k].hash] = "info" /\ Valid(alerts'[k].hash, alerts'[k].inst))
        /\ \A l \in DOMAIN alerts :
             alerts[l].type = "metadata" /\ alerts[l].inst = alerts'[k].inst => l = k + e
    BY <1>6, <2>0 DEF InOrder, MetadataOnce
  <2>2. \A l \in DOMAIN alerts' :
          alerts'[l].type = "metadata" /\ alerts'[l].inst = alerts'[k].inst => l + e = k + e
    BY <2>1
  <2>3. ~ (loaded'[alerts'[k].hash] = "info" /\ Valid(alerts[k].hash, alerts[k].inst)')
    BY <2>1, <1>2 DEF Valid
  <2> QED
    BY <2>1, <2>2, <2>3, <1>2, <1>3
<1>7. RemovalJobs'
  BY <1>4 DEF RemovalJobs
<1>8. RemovalAlerts' /\ MetadataOnce'
  BY <1>5, <1>6 DEF RemovalAlerts, MetadataOnce
<1>9. MetadataTaken'
  BY DEF InOrder, MetadataTaken
<1> QED
  BY <1>7, <1>8, <1>9 DEF InOrder

\* The magnets that wait are counted.
LEMMA SameCount ==
  ASSUME Counted, Waiting' = Waiting, extraLimit' = extraLimit
  PROVE  Counted'
  BY DEF Counted, ExtraLimitCounts

LEMMA OneMore ==
  ASSUME TypeOK, Counted, NEW h \in Hashes, loaded[h] # "waiting",
         loaded' = [loaded EXCEPT ![h] = "waiting"], extraLimit' = extraLimit + 1
  PROVE  Counted'
<1>1. Waiting' = Waiting \cup {h} /\ h \notin Waiting
  BY DEF TypeOK, Waiting
<1>2. IsFiniteSet(Waiting) /\ extraLimit = Cardinality(Waiting)
  BY DEF Counted, ExtraLimitCounts
<1>3. /\ IsFiniteSet(Waiting \cup {h})
      /\ Cardinality(Waiting \cup {h}) = Cardinality(Waiting) + 1
  BY <1>1, <1>2, FS_AddElement
<1> QED
  BY <1>1, <1>2, <1>3 DEF Counted, ExtraLimitCounts

LEMMA OneLess ==
  ASSUME TypeOK, Counted, NEW h \in Hashes, loaded[h] = "waiting",
         NEW what \in {"absent", "info"}, loaded' = [loaded EXCEPT ![h] = what],
         extraLimit' = extraLimit - 1
  PROVE  Counted'
<1>1. Waiting' = Waiting \ {h} /\ h \in Waiting
  BY DEF TypeOK, Waiting
<1>2. IsFiniteSet(Waiting) /\ extraLimit = Cardinality(Waiting)
  BY DEF Counted, ExtraLimitCounts
<1>3. /\ IsFiniteSet(Waiting \ {h})
      /\ Cardinality(Waiting \ {h}) = Cardinality(Waiting) - 1
  BY <1>1, <1>2, FS_RemoveElement
<1> QED
  BY <1>1, <1>2, <1>3 DEF Counted, ExtraLimitCounts

\* What is found or made by adding h natively, for the other torrents too.
LEMMA NativeAdded ==
  ASSUME TypeOK, NEW h \in Hashes, NEW i \in Instances, NEW m \in BOOLEAN, NativeAdd(h, m, i)
  PROVE  /\ native'[h] # None /\ hasMeta \subseteq hasMeta'
         /\ \A g \in Hashes : g # h => native'[g] = native[g]
<1>1. i # None
  BY MaxInstancesAssumption DEF Instances, None
<1>2. CASE native[h] # None
  BY <1>2 DEF NativeAdd, net
<1>3. CASE native[h] = None
  BY <1>1, <1>3 DEF NativeAdd, TypeOK
<1> QED
  BY <1>2, <1>3

LEMMA RunAddWhole ==
  ASSUME Inv, Whole, Inv', NEW h \in Hashes, RunAdd(h)
  PROVE  Whole'
<1>1. /\ jobs # <<>> /\ Head(jobs) = AddJob(h) /\ jobs' = Tail(jobs) /\ jobs \in Seq(Jobs)
      /\ alerts \in Seq(Alerts) /\ TypeOK /\ AdditionsAlone
      /\ UNCHANGED <<adding, loaded, torrents, extraLimit, announced>>
  BY DEF RunAdd, user, Inv, TypeOK
<1>2. /\ jobs' \in Seq(Jobs) /\ 1 \in DOMAIN jobs /\ jobs[1] = AddJob(h)
      /\ \A k \in DOMAIN jobs' : k \in Nat \ {0} /\ k + 1 \in DOMAIN jobs /\ jobs'[k] = jobs[k + 1]
  BY <1>1, TailIs
<1>3. loaded[h] = "absent"
  <2>1. jobs[1].op = "add" /\ jobs[1].hash = h
    BY <1>2 DEF AddJob
  <2> QED
    BY <1>1, <1>2, <2>1 DEF AdditionsAlone
<1>4. PICK a \in Alerts : alerts' = Append(alerts, a) /\ a.type \in {"added", "addFailed"}
  <2>1. \A i \in Instances : Alert("added", h, i) \in Alerts /\ Alert("added", h, i).type = "added"
    BY Made DEF MaybeInstance
  <2>2. Alert("addFailed", h, None) \in Alerts /\ Alert("addFailed", h, None).type = "addFailed"
    BY Made DEF MaybeInstance
  <2> QED
    BY <2>1, <2>2 DEF RunAdd
<1>5. /\ hasMeta \subseteq hasMeta'
      /\ \A g \in Hashes : g # h => native'[g] = native[g]
  <2>1. CASE \E i \in Instances : NativeAdd(h, TRUE, i)
    BY <1>1, <2>1, NativeAdded
  <2>2. CASE UNCHANGED net
    BY <2>2 DEF net
  <2> QED
    BY <2>1, <2>2 DEF RunAdd
<1>6. /\ alerts' \in Seq(Alerts)
      /\ \A k \in DOMAIN alerts' : alerts'[k].type \in {"removed", "metadata"} =>
           k + 0 \in DOMAIN alerts /\ alerts'[k] = alerts[k + 0]
  BY <1>1, <1>4, Posted
<1>7. \A k \in DOMAIN jobs' : jobs'[k].hash \in Hashes
  <2>1. \A k \in DOMAIN jobs' : jobs'[k] \in Jobs
    BY <1>2
  <2> QED
    BY <2>1 DEF Jobs
<1>8. InOrder'
  BY <1>1, <1>2, <1>3, <1>5, <1>6, <1>7, InOrderKept DEF Whole
<1>9. WaitingAlive' /\ MetadataWhole'
  BY <1>1, <1>3, <1>5 DEF Whole, WaitingAlive, MetadataWhole
<1>10. Counted'
  BY <1>1, SameCount DEF Whole, Waiting
<1> QED
  BY <1>8, <1>9, <1>10 DEF Whole

LEMMA RunRemoveWhole ==
  ASSUME Inv, Whole, NEW h \in Hashes, RunRemove(h)
  PROVE  Whole'
<1> DEFINE i == Head(jobs).inst
           a == Alert("removed", h, i)
<1>1. /\ jobs # <<>> /\ Head(jobs).op = "remove" /\ Head(jobs).hash = h
      /\ jobs' = Tail(jobs) /\ jobs \in Seq(Jobs) /\ alerts \in Seq(Alerts)
      /\ UNCHANGED <<loaded, extraLimit, announced, hasMeta>> /\ TypeOK
      /\ RemovalJobs /\ RemovalAlerts /\ MetadataOnce /\ MetadataTaken /\ WaitingAlive /\ Counted /\ MetadataWhole
  BY DEF RunRemove, user, Inv, TypeOK, Whole, InOrder
<1>2. /\ jobs' \in Seq(Jobs) /\ 1 \in DOMAIN jobs /\ Head(jobs) = jobs[1] /\ jobs[1] \in Jobs
      /\ \A k \in DOMAIN jobs' : k \in Nat \ {0} /\ k + 1 \in DOMAIN jobs /\ jobs'[k] = jobs[k + 1]
  BY <1>1, TailIs
<1>3. /\ loaded[h] = "info" /\ Valid(h, i)
      /\ \A l \in DOMAIN jobs : jobs[l].op = "remove" /\ jobs[l].hash = h => l = 1
      /\ \A l \in DOMAIN alerts : alerts[l].type = "removed" => alerts[l].hash # h
  BY <1>1, <1>2 DEF RemovalJobs
<1>4. native' = [native EXCEPT ![h] = None] /\ alerts' = Append(alerts, a) /\ i \in MaybeInstance
  BY <1>1, <1>2, <1>3 DEF RunRemove, Jobs, MaybeInstance
<1>5. /\ a \in Alerts /\ a.type = "removed" /\ a.hash = h
  BY <1>4, Made
<1>6. /\ alerts' \in Seq(Alerts) /\ Len(alerts) + 1 \notin DOMAIN alerts
      /\ \A k \in DOMAIN alerts' :
           \/ k \in DOMAIN alerts /\ alerts'[k] = alerts[k]
           \/ k = Len(alerts) + 1 /\ alerts'[k] = a
  BY <1>1, <1>4, <1>5, Posted
<1>7. \A k \in DOMAIN jobs' : jobs'[k].op = "remove" => jobs'[k].hash # h
  <2>1. \A k \in Nat \ {0} : k + 1 # 1
    OBVIOUS
  <2> QED
    BY <1>2, <1>3, <2>1
<1>8. native'[h] = None /\ \A g \in Hashes : g # h => native'[g] = native[g]
  BY <1>1, <1>4 DEF TypeOK
<1>9. /\ \A k \in DOMAIN jobs' : k \in Nat /\ jobs'[k].hash \in Hashes
      /\ \A k \in DOMAIN alerts' : alerts'[k].hash \in Hashes
  <2>1. /\ \A k \in DOMAIN jobs' : k \in Nat /\ jobs'[k] \in Jobs
        /\ \A k \in DOMAIN alerts' : alerts'[k] \in Alerts
    BY <1>2, <1>6
  <2> QED
    BY <2>1 DEF Jobs, Alerts
<1>10. RemovalJobs'
  <2> SUFFICES ASSUME NEW k \in DOMAIN jobs', jobs'[k].op = "remove"
               PROVE  /\ loaded'[jobs'[k].hash] = "info" /\ Valid(jobs[k].hash, jobs[k].inst)'
                      /\ \A l \in DOMAIN jobs' :
                           jobs'[l].op = "remove" /\ jobs'[l].hash = jobs'[k].hash => l = k
                      /\ \A l \in DOMAIN alerts' :
                           alerts'[l].type = "removed" => alerts'[l].hash # jobs'[k].hash
    BY DEF RemovalJobs
  <2>1. /\ loaded[jobs'[k].hash] = "info" /\ Valid(jobs'[k].hash, jobs'[k].inst)
        /\ \A l \in DOMAIN jobs :
             jobs[l].op = "remove" /\ jobs[l].hash = jobs'[k].hash => l = k + 1
        /\ \A l \in DOMAIN alerts : alerts[l].type = "removed" => alerts[l].hash # jobs'[k].hash
    BY <1>1, <1>2 DEF RemovalJobs
  <2>2. \A l \in DOMAIN jobs' :
          jobs'[l].op = "remove" /\ jobs'[l].hash = jobs'[k].hash => l + 1 = k + 1
    BY <1>2, <2>1
  <2>3. \A l \in DOMAIN jobs' :
          jobs'[l].op = "remove" /\ jobs'[l].hash = jobs'[k].hash => l = k
    <3>1. \A m, l \in Nat : l + 1 = m + 1 => l = m
      OBVIOUS
    <3> QED
      BY <1>9, <2>2, <3>1
  <2>4. \A l \in DOMAIN alerts' : alerts'[l].type = "removed" => alerts'[l].hash # jobs'[k].hash
    BY <1>5, <1>6, <1>7, <2>1
  <2>5. Valid(jobs[k].hash, jobs[k].inst)'
    BY <1>7, <1>8, <1>9, <2>1 DEF Valid
  <2> QED
    BY <1>1, <2>1, <2>3, <2>4, <2>5
<1>11. RemovalAlerts'
  <2> SUFFICES ASSUME NEW k \in DOMAIN alerts', alerts'[k].type = "removed"
               PROVE  /\ loaded'[alerts'[k].hash] = "info"
                      /\ \A l \in DOMAIN alerts' :
                           alerts'[l].type = "removed" /\ alerts'[l].hash = alerts'[k].hash => l = k
    BY DEF RemovalAlerts
  <2>1. CASE k \in DOMAIN alerts /\ alerts'[k] = alerts[k]
    <3>1. /\ loaded[alerts[k].hash] = "info" /\ alerts[k].hash # h
          /\ \A l \in DOMAIN alerts :
               alerts[l].type = "removed" /\ alerts[l].hash = alerts[k].hash => l = k
      BY <1>1, <1>3, <2>1 DEF RemovalAlerts
    <3> QED
      BY <1>1, <1>5, <1>6, <2>1, <3>1
  <2>2. CASE k = Len(alerts) + 1 /\ alerts'[k] = a
    BY <1>1, <1>3, <1>5, <1>6, <2>2
  <2> QED
    BY <1>6, <2>1, <2>2
<1>12. MetadataOnce'
  <2> SUFFICES ASSUME NEW k \in DOMAIN alerts', alerts'[k].type = "metadata"
               PROVE  /\ alerts'[k].inst \in hasMeta'
                      /\ ~ (loaded'[alerts'[k].hash] = "info" /\ Valid(alerts[k].hash, alerts[k].inst)')
                      /\ \A l \in DOMAIN alerts' :
                           alerts'[l].type = "metadata" /\ alerts'[l].inst = alerts'[k].inst => l = k
    BY DEF MetadataOnce
  <2>1. k \in DOMAIN alerts /\ alerts'[k] = alerts[k]
    BY <1>5, <1>6
  <2>2. /\ alerts[k].inst \in hasMeta
        /\ ~ (loaded[alerts[k].hash] = "info" /\ Valid(alerts[k].hash, alerts[k].inst))
        /\ \A l \in DOMAIN alerts :
             alerts[l].type = "metadata" /\ alerts[l].inst = alerts[k].inst => l = k
    BY <1>1, <2>1 DEF MetadataOnce
  <2>3. ~ (loaded'[alerts'[k].hash] = "info" /\ Valid(alerts[k].hash, alerts[k].inst)')
    <3>1. native'[alerts[k].hash] \in {None, native[alerts[k].hash]}
      BY <1>8, <1>9, <2>1
    <3> QED
      BY <1>1, <2>1, <2>2, <3>1 DEF Valid
  <2> QED
    BY <1>1, <1>5, <1>6, <2>1, <2>2, <2>3
<1>13. WaitingAlive' /\ MetadataWhole' /\ MetadataTaken'
  BY <1>1, <1>3, <1>8 DEF WaitingAlive, MetadataWhole, MetadataTaken
<1>14. Counted'
  BY <1>1, SameCount DEF Waiting
<1> QED
  BY <1>10, <1>11, <1>12, <1>13, <1>14 DEF Whole, InOrder

LEMMA MetadataArrivesWhole ==
  ASSUME Inv, Whole, NEW h \in Hashes, MetadataArrives(h)
  PROVE  Whole'
<1> DEFINE a == Alert("metadata", h, native[h])
<1>1. /\ native[h] # None /\ native[h] \notin hasMeta /\ hasMeta' = hasMeta \cup {native[h]}
      /\ alerts' = Append(alerts, a) /\ native[h] \in MaybeInstance /\ alerts \in Seq(Alerts)
      /\ UNCHANGED <<loaded, extraLimit, announced, native, jobs>>
      /\ RemovalJobs /\ RemovalAlerts /\ MetadataOnce /\ MetadataTaken /\ WaitingAlive /\ Counted /\ MetadataWhole
  BY DEF MetadataArrives, user, Inv, TypeOK, Whole, InOrder
<1>2. a \in Alerts /\ a.type = "metadata" /\ a.hash = h /\ a.inst = native[h]
  BY <1>1, Made
<1>3. /\ alerts' \in Seq(Alerts) /\ Len(alerts) + 1 \notin DOMAIN alerts
      /\ \A k \in DOMAIN alerts' :
           \/ k \in DOMAIN alerts /\ alerts'[k] = alerts[k]
           \/ k = Len(alerts) + 1 /\ alerts'[k] = a
  BY <1>1, <1>2, Posted
<1>4. RemovalJobs'
  <2>1. \A l \in DOMAIN alerts' :
          alerts'[l].type = "removed" => l \in DOMAIN alerts /\ alerts'[l] = alerts[l]
    BY <1>2, <1>3
  <2> QED
    BY <1>1, <2>1 DEF RemovalJobs, Valid
<1>5. RemovalAlerts'
  <2>1. \A l \in DOMAIN alerts' :
          alerts'[l].type = "removed" => l \in DOMAIN alerts /\ alerts'[l] = alerts[l]
    BY <1>2, <1>3
  <2> QED
    BY <1>1, <2>1 DEF RemovalAlerts
<1>6. MetadataOnce'
  <2> SUFFICES ASSUME NEW k \in DOMAIN alerts', alerts'[k].type = "metadata"
               PROVE  /\ alerts'[k].inst \in hasMeta'
                      /\ ~ (loaded'[alerts'[k].hash] = "info" /\ Valid(alerts[k].hash, alerts[k].inst)')
                      /\ \A l \in DOMAIN alerts' :
                           alerts'[l].type = "metadata" /\ alerts'[l].inst = alerts'[k].inst => l = k
    BY DEF MetadataOnce
  <2>1. \A l \in DOMAIN alerts : alerts[l].type = "metadata" => alerts[l].inst # native[h]
    BY <1>1 DEF MetadataOnce
  <2>2. CASE k \in DOMAIN alerts /\ alerts'[k] = alerts[k]
    <3>1. /\ alerts[k].inst \in hasMeta
          /\ ~ (loaded[alerts[k].hash] = "info" /\ Valid(alerts[k].hash, alerts[k].inst))
          /\ \A l \in DOMAIN alerts :
               alerts[l].type = "metadata" /\ alerts[l].inst = alerts[k].inst => l = k
      BY <1>1, <2>2 DEF MetadataOnce
    <3>2. ~ (loaded'[alerts'[k].hash] = "info" /\ Valid(alerts[k].hash, alerts[k].inst)')
      BY <1>1, <2>2, <3>1 DEF Valid
    <3>3. \A l \in DOMAIN alerts' :
            alerts'[l].type = "metadata" /\ alerts'[l].inst = alerts'[k].inst => l = k
      BY <1>2, <1>3, <2>1, <2>2, <3>1
    <3> QED
      BY <1>1, <2>2, <3>1, <3>2, <3>3
  <2>3. CASE k = Len(alerts) + 1 /\ alerts'[k] = a
    <3>1. loaded[h] # "info"
      BY <1>1 DEF MetadataTaken
    <3>2. \A l \in DOMAIN alerts' :
            alerts'[l].type = "metadata" /\ alerts'[l].inst = alerts'[k].inst => l = k
      BY <1>2, <1>3, <2>1, <2>3
    <3> QED
      BY <1>1, <1>2, <2>3, <3>1, <3>2
  <2> QED
    BY <1>3, <2>2, <2>3
<1>7. WaitingAlive' /\ MetadataWhole' /\ MetadataTaken'
  BY <1>1 DEF WaitingAlive, MetadataWhole, MetadataTaken
<1>8. Counted'
  BY <1>1, SameCount DEF Waiting
<1> QED
  BY <1>4, <1>5, <1>6, <1>7, <1>8 DEF Whole, InOrder

\* Calls that post no removal, and leave what has been taken alone.
LEMMA CallKeepsOrder ==
  ASSUME Inv, Inv', InOrder,
         \A k \in DOMAIN alerts' : alerts'[k].type \in {"removed", "metadata"} =>
           k \in DOMAIN alerts /\ alerts'[k] = alerts[k],
         \A k \in DOMAIN jobs' : jobs'[k].op = "remove" =>
           k \in DOMAIN jobs /\ jobs'[k] = jobs[k],
         hasMeta \subseteq hasMeta',
         \A g \in Hashes : loaded[g] = "info" \/ loaded'[g] = "info" =>
           loaded'[g] = loaded[g] /\ native'[g] = native[g]
  PROVE  InOrder'
<1>1. /\ jobs \in Seq(Jobs) /\ alerts \in Seq(Alerts)
      /\ jobs' \in Seq(Jobs) /\ alerts' \in Seq(Alerts)
  BY DEF Inv, TypeOK
<1>2. /\ \A k \in DOMAIN jobs' : k + 0 = k /\ jobs'[k] \in Jobs
      /\ \A k \in DOMAIN alerts' : k + 0 = k /\ alerts'[k] \in Alerts
  BY <1>1
<1>3. /\ \A j \in Jobs : j.hash \in Hashes
      /\ \A a \in Alerts : a.hash \in Hashes
  BY DEF Jobs, Alerts
<1>4. /\ \A k \in DOMAIN jobs' : jobs'[k].op = "remove" => k + 0 \in DOMAIN jobs /\ jobs'[k] = jobs[k + 0]
      /\ \A k \in DOMAIN alerts' : alerts'[k].type \in {"removed", "metadata"} =>
           k + 0 \in DOMAIN alerts /\ alerts'[k] = alerts[k + 0]
  BY <1>2
<1>5. /\ \A k \in DOMAIN jobs' : jobs'[k].op = "remove" /\ loaded[jobs'[k].hash] = "info" =>
           loaded'[jobs'[k].hash] = "info" /\ native'[jobs'[k].hash] = native[jobs'[k].hash]
      /\ \A k \in DOMAIN alerts' : alerts'[k].type = "removed" /\ loaded[alerts'[k].hash] = "info" =>
           loaded'[alerts'[k].hash] = "info"
      /\ \A g \in Hashes : loaded'[g] = "info" => loaded[g] = "info" /\ native'[g] = native[g]
  BY <1>2, <1>3
<1> QED
  BY <1>1, <1>4, <1>5, InOrderKept

LEMMA UserCallWhole ==
  ASSUME PatientUser, Inv, Whole, Inv', NEW h \in Hashes, UserCall(h)
  PROVE  Whole'
<1>1. InOrder /\ WaitingAlive /\ Counted /\ MetadataWhole /\ TypeOK
  BY DEF Whole, Inv
<1>2. CASE AddFile(h)
  <2>1. /\ UNCHANGED <<loaded, extraLimit, announced, native, hasMeta, alerts>>
        /\ jobs' = Append(jobs, AddJob(h)) /\ jobs \in Seq(Jobs)
    BY <1>1, <1>2 DEF AddFile, net, TypeOK
  <2>2. AddJob(h) \in Jobs /\ AddJob(h).op = "add"
    BY DEF AddJob, Jobs
  <2>3. \A k \in DOMAIN jobs' : jobs'[k].op = "remove" => k \in DOMAIN jobs /\ jobs'[k] = jobs[k]
    <3>1. /\ Len(jobs) \in Nat
          /\ DOMAIN jobs = 1 .. Len(jobs) /\ DOMAIN jobs' = 1 .. Len(jobs) + 1
          /\ \A k \in DOMAIN jobs : jobs'[k] = jobs[k]
          /\ jobs'[Len(jobs) + 1] = AddJob(h)
      BY <2>1, <2>2, AppendIs
    <3>2. \A k \in 1 .. Len(jobs) + 1 : k \in 1 .. Len(jobs) \/ k = Len(jobs) + 1
      BY <3>1
    <3> QED
      BY <2>2, <3>1, <3>2
  <2>4. InOrder'
    BY <1>1, <2>1, <2>3, CallKeepsOrder
  <2>5. Counted'
    BY <1>1, <2>1, SameCount DEF Waiting
  <2> QED
    BY <1>1, <2>1, <2>4, <2>5 DEF Whole, WaitingAlive, MetadataWhole
<1>3. CASE AddPreloaded(h)
  <2>1. /\ UNCHANGED <<announced, native, hasMeta, jobs, alerts>>
        /\ loaded[h] = "waiting" /\ loaded' = [loaded EXCEPT ![h] = "absent"]
        /\ extraLimit' = extraLimit - 1
    BY <1>3 DEF AddPreloaded, net, PatientUser
  <2>2. InOrder'
    <3>1. \A g \in Hashes : loaded[g] = "info" \/ loaded'[g] = "info" =>
            loaded'[g] = loaded[g] /\ native'[g] = native[g]
      BY <1>1, <2>1 DEF TypeOK
    <3> QED
      BY <1>1, <2>1, <3>1, CallKeepsOrder
  <2>3. Counted'
    BY <1>1, <2>1, OneLess
  <2>4. WaitingAlive' /\ MetadataWhole'
    BY <1>1, <2>1 DEF WaitingAlive, MetadataWhole, TypeOK
  <2> QED
    BY <2>2, <2>3, <2>4 DEF Whole
<1>4. CASE LoadMetadata(h)
  <2>1. /\ loaded[h] = "absent" /\ loaded' = [loaded EXCEPT ![h] = "waiting"]
        /\ extraLimit' = extraLimit + 1 /\ announced' = [announced EXCEPT ![h] = "none"]
        /\ jobs' = jobs /\ alerts \in Seq(Alerts)
    BY <1>1, <1>4 DEF LoadMetadata, Known, TypeOK
  <2>2. PICK i \in Instances :
          NativeAdd(h, FALSE, i) /\ alerts' = Append(alerts, Alert("added", h, i))
    BY <1>4 DEF LoadMetadata
  <2>3. /\ native'[h] # None /\ hasMeta \subseteq hasMeta'
        /\ \A g \in Hashes : g # h => native'[g] = native[g]
    BY <1>1, <2>2, NativeAdded
  <2>4. InOrder'
    <3>1. \A g \in Hashes : loaded[g] = "info" \/ loaded'[g] = "info" =>
            loaded'[g] = loaded[g] /\ native'[g] = native[g]
      BY <1>1, <2>1, <2>3 DEF TypeOK
    <3>2. Alert("added", h, i) \in Alerts /\ Alert("added", h, i).type = "added"
      BY Made DEF MaybeInstance
    <3>3. \A k \in DOMAIN alerts' : alerts'[k].type \in {"removed", "metadata"} =>
            k \in DOMAIN alerts /\ alerts'[k] = alerts[k]
      BY <2>1, <2>2, <3>2, Posted
    <3> QED
      BY <1>1, <2>1, <2>3, <3>1, <3>3, CallKeepsOrder
  <2>5. Counted'
    BY <1>1, <2>1, OneMore
  <2>6. WaitingAlive' /\ MetadataWhole'
    BY <1>1, <2>1, <2>3 DEF WaitingAlive, MetadataWhole, TypeOK
  <2> QED
    BY <2>4, <2>5, <2>6 DEF Whole
<1>5. ~ CancelLoadMetadata(h)
  BY DEF PatientUser, CancelLoadMetadata
<1>6. CASE DeleteTorrent(h)
  <2>1. UNCHANGED <<loaded, extraLimit, announced, native, hasMeta, jobs, alerts>>
    BY <1>6 DEF DeleteTorrent, net
  <2>2. InOrder'
    BY <1>1, <2>1, CallKeepsOrder
  <2>3. Counted'
    BY <1>1, <2>1, SameCount DEF Waiting
  <2> QED
    BY <1>1, <2>1, <2>2, <2>3 DEF Whole, WaitingAlive, MetadataWhole
<1> QED
  BY <1>2, <1>3, <1>4, <1>5, <1>6 DEF UserCall

LEMMA HandleAddTorrentAlertWhole ==
  ASSUME Inv, Whole, Inv', NEW h \in Hashes, HandleAddTorrentAlert(h)
  PROVE  Whole'
<1>1. /\ alerts # <<>> /\ alerts' = Tail(alerts) /\ TypeOK
      /\ UNCHANGED <<loaded, extraLimit, announced, native, hasMeta, jobs>>
      /\ jobs \in Seq(Jobs) /\ alerts \in Seq(Alerts)
      /\ InOrder /\ WaitingAlive /\ Counted /\ MetadataWhole
  BY DEF HandleAddTorrentAlert, AlertIs, net, Inv, TypeOK, Whole
<1>2. /\ alerts' \in Seq(Alerts)
      /\ \A k \in DOMAIN alerts' :
           k \in Nat \ {0} /\ k + 1 \in DOMAIN alerts /\ alerts'[k] = alerts[k + 1]
  BY <1>1, AlertTaken
<1>3. \A k \in DOMAIN jobs' : k + 0 \in DOMAIN jobs /\ jobs'[k] = jobs[k + 0]
  BY <1>1
<1>4. InOrder'
  BY <1>1, <1>2, <1>3, InOrderKept
<1>5. Counted'
  BY <1>1, SameCount DEF Waiting
<1> QED
  BY <1>1, <1>4, <1>5 DEF Whole, WaitingAlive, MetadataWhole

LEMMA HandleMetadataReceivedAlertWhole ==
  ASSUME Inv, Whole, Inv', NEW h \in Hashes, HandleMetadataReceivedAlert(h)
  PROVE  Whole'
<1> DEFINE i == Head(alerts).inst
<1>1. /\ alerts # <<>> /\ alerts' = Tail(alerts) /\ TypeOK
      /\ Head(alerts).type = "metadata" /\ Head(alerts).hash = h
      /\ UNCHANGED <<announced, native, hasMeta>>
      /\ jobs \in Seq(Jobs) /\ alerts \in Seq(Alerts)
      /\ InOrder /\ WaitingAlive /\ Counted /\ MetadataWhole
      /\ RemovalJobs /\ RemovalAlerts /\ MetadataOnce /\ MetadataTaken
  BY DEF HandleMetadataReceivedAlert, AlertIs, net, Inv, TypeOK, Whole, InOrder
<1>2. /\ alerts' \in Seq(Alerts) /\ 1 \in DOMAIN alerts /\ Head(alerts) = alerts[1]
      /\ i \in MaybeInstance
      /\ \A k \in DOMAIN alerts' :
           k \in Nat \ {0} /\ k + 1 \in DOMAIN alerts /\ alerts'[k] = alerts[k + 1]
  BY <1>1, AlertTaken
<1>3. CASE IsPreloaded(h)
  <2>1. /\ Valid(h, i) /\ loaded[h] # "absent" /\ extraLimit' = extraLimit - 1
        /\ loaded' = [loaded EXCEPT ![h] = "info"] /\ jobs' = <<RemoveJob(h, i)>>
    BY <1>3 DEF HandleMetadataReceivedAlert, TakeMetadata, IsPreloaded
  <2>2. /\ i \in hasMeta /\ ~ (loaded[h] = "info" /\ Valid(h, i))
        /\ \A l \in DOMAIN alerts : alerts[l].type = "metadata" /\ alerts[l].inst = i => l = 1
    BY <1>1, <1>2 DEF MetadataOnce
  <2>3. loaded[h] = "waiting" /\ i # None /\ native[h] = i
    BY <1>1, <2>1, <2>2 DEF TypeOK, Valid
  <2>4. loaded'[h] = "info" /\ \A g \in Hashes : g # h => loaded'[g] = loaded[g]
    BY <1>1, <2>1 DEF TypeOK
  <2>5. RemoveJob(h, i) \in Jobs /\ RemoveJob(h, i).hash = h /\ RemoveJob(h, i).inst = i
    BY <1>2, <2>3, Made
  <2>6. \A k \in DOMAIN jobs' : k = 1 /\ jobs'[k].hash = h /\ jobs'[k].inst = i
    BY <2>1, <2>5, SingleIs
  <2>7. \A k \in DOMAIN alerts : alerts[k].type = "removed" => alerts[k].hash # h
    BY <1>1, <2>3 DEF RemovalAlerts
  <2>8. \A k \in DOMAIN alerts' : alerts'[k].type = "removed" => alerts'[k].hash # h
    BY <1>2, <2>7
  <2>9. \A k \in DOMAIN alerts' : alerts'[k].type = "metadata" => alerts'[k].inst # i
    <3>1. \A k \in Nat \ {0} : k + 1 # 1
      OBVIOUS
    <3> QED
      BY <1>2, <2>2, <3>1
  <2>10. /\ \A k \in DOMAIN alerts' : k \in Nat /\ alerts'[k].hash \in Hashes
         /\ \A k, l \in Nat : l + 1 = k + 1 => l = k
    <3>1. \A k \in DOMAIN alerts' : k \in Nat /\ alerts'[k] \in Alerts
      BY <1>2
    <3> QED
      BY <3>1 DEF Alerts
  <2>11. RemovalJobs'
    <3>1. \A k \in DOMAIN jobs' :
            loaded'[jobs'[k].hash] = "info" /\ Valid(jobs[k].hash, jobs[k].inst)'
      BY <1>1, <2>3, <2>4, <2>6 DEF Valid
    <3> QED
      BY <2>6, <2>8, <3>1 DEF RemovalJobs
  <2>12. RemovalAlerts'
    <3> SUFFICES ASSUME NEW k \in DOMAIN alerts', alerts'[k].type = "removed"
                 PROVE  /\ loaded'[alerts'[k].hash] = "info"
                        /\ \A l \in DOMAIN alerts' :
                             alerts'[l].type = "removed" /\ alerts'[l].hash = alerts'[k].hash => l = k
      BY DEF RemovalAlerts
    <3>1. k + 1 \in DOMAIN alerts /\ alerts'[k] = alerts[k + 1]
      BY <1>2
    <3>2. /\ loaded[alerts'[k].hash] = "info"
          /\ \A l \in DOMAIN alerts :
               alerts[l].type = "removed" /\ alerts[l].hash = alerts'[k].hash => l = k + 1
      BY <1>1, <3>1 DEF RemovalAlerts
    <3>3. \A l \in DOMAIN alerts' :
            alerts'[l].type = "removed" /\ alerts'[l].hash = alerts'[k].hash => l + 1 = k + 1
      BY <1>2, <3>2
    <3> QED
      BY <2>4, <2>8, <2>10, <3>2, <3>3
  <2>13. MetadataOnce'
    <3> SUFFICES ASSUME NEW k \in DOMAIN alerts', alerts'[k].type = "metadata"
                 PROVE  /\ alerts'[k].inst \in hasMeta'
                        /\ ~ (loaded'[alerts'[k].hash] = "info" /\ Valid(alerts[k].hash, alerts[k].inst)')
                        /\ \A l \in DOMAIN alerts' :
                             alerts'[l].type = "metadata" /\ alerts'[l].inst = alerts'[k].inst => l = k
      BY DEF MetadataOnce
    <3>1. k + 1 \in DOMAIN alerts /\ alerts'[k] = alerts[k + 1]
      BY <1>2
    <3>2. /\ alerts'[k].inst \in hasMeta
          /\ ~ (loaded[alerts'[k].hash] = "info" /\ Valid(alerts'[k].hash, alerts'[k].inst))
          /\ \A l \in DOMAIN alerts :
               alerts[l].type = "metadata" /\ alerts[l].inst = alerts'[k].inst => l = k + 1
      BY <1>1, <3>1 DEF MetadataOnce
    <3>3. \A l \in DOMAIN alerts' :
            alerts'[l].type = "metadata" /\ alerts'[l].inst = alerts'[k].inst => l + 1 = k + 1
      BY <1>2, <3>2
    <3>4. ~ (loaded'[alerts'[k].hash] = "info" /\ Valid(alerts[k].hash, alerts[k].inst)')
      BY <1>1, <2>3, <2>4, <2>9, <2>10, <3>2 DEF Valid
    <3> QED
      BY <1>1, <2>10, <3>2, <3>3, <3>4
  <2>14. MetadataTaken' /\ WaitingAlive' /\ MetadataWhole'
    BY <1>1, <2>2, <2>3, <2>4 DEF MetadataTaken, WaitingAlive, MetadataWhole
  <2>15. Counted'
    BY <1>1, <2>1, <2>3, OneLess
  <2> QED
    BY <2>11, <2>12, <2>13, <2>14, <2>15 DEF Whole, InOrder
<1>4. CASE ~ IsPreloaded(h)
  <2>1. UNCHANGED <<extraLimit, loaded, jobs>>
    BY <1>4 DEF HandleMetadataReceivedAlert
  <2>2. \A k \in DOMAIN jobs' : k + 0 \in DOMAIN jobs /\ jobs'[k] = jobs[k + 0]
    BY <1>1, <2>1
  <2>3. InOrder'
    BY <1>1, <1>2, <2>1, <2>2, InOrderKept
  <2>4. Counted'
    BY <1>1, <2>1, SameCount DEF Waiting
  <2> QED
    BY <1>1, <2>1, <2>3, <2>4 DEF Whole, WaitingAlive, MetadataWhole
<1> QED
  BY <1>3, <1>4

LEMMA HandleTorrentRemovedAlertWhole ==
  ASSUME Inv, Whole, NEW h \in Hashes, HandleTorrentRemovedAlert(h)
  PROVE  Whole'
<1>1. /\ alerts # <<>> /\ alerts' = Tail(alerts) /\ TypeOK
      /\ Head(alerts).type = "removed" /\ Head(alerts).hash = h
      /\ UNCHANGED <<extraLimit, native, hasMeta, jobs>>
      /\ jobs \in Seq(Jobs) /\ alerts \in Seq(Alerts)
      /\ InOrder /\ WaitingAlive /\ Counted /\ MetadataWhole
      /\ RemovalJobs /\ RemovalAlerts
  BY DEF HandleTorrentRemovedAlert, AlertIs, net, Inv, TypeOK, Whole, InOrder
<1>2. /\ alerts' \in Seq(Alerts) /\ 1 \in DOMAIN alerts /\ Head(alerts) = alerts[1]
      /\ \A k \in DOMAIN alerts' :
           k \in Nat \ {0} /\ k + 1 \in DOMAIN alerts /\ alerts'[k] = alerts[k + 1]
  BY <1>1, AlertTaken
<1>3. /\ loaded[h] = "info"
      /\ \A l \in DOMAIN alerts : alerts[l].type = "removed" /\ alerts[l].hash = h => l = 1
  BY <1>1, <1>2 DEF RemovalAlerts
<1>4. /\ announced' = [announced EXCEPT ![h] = "info"]
      /\ loaded' = [loaded EXCEPT ![h] = "absent"]
  BY <1>3 DEF HandleTorrentRemovedAlert
<1>5. /\ loaded'[h] = "absent" /\ \A g \in Hashes : g # h => loaded'[g] = loaded[g]
      /\ announced'[h] = "info" /\ \A g \in Hashes : g # h => announced'[g] = announced[g]
  BY <1>1, <1>4 DEF TypeOK
<1>6. \A k \in DOMAIN alerts' : alerts'[k].type = "removed" => alerts'[k].hash # h
  <2>1. \A k \in Nat \ {0} : k + 1 # 1
    OBVIOUS
  <2> QED
    BY <1>2, <1>3, <2>1
<1>7. \A k \in DOMAIN jobs : jobs[k].op = "remove" => jobs[k].hash # h
  BY <1>1, <1>2 DEF RemovalJobs
<1>8. /\ \A k \in DOMAIN jobs : jobs[k].hash \in Hashes
      /\ \A k \in DOMAIN alerts' : alerts'[k].hash \in Hashes
  <2>1. /\ \A k \in DOMAIN jobs : jobs[k] \in Jobs
        /\ \A k \in DOMAIN alerts' : alerts'[k] \in Alerts
    BY <1>1, <1>2
  <2> QED
    BY <2>1 DEF Jobs, Alerts
<1>9. /\ \A k \in DOMAIN jobs' : jobs'[k].op = "remove" /\ loaded[jobs'[k].hash] = "info" =>
           loaded'[jobs'[k].hash] = "info" /\ native'[jobs'[k].hash] = native[jobs'[k].hash]
      /\ \A k \in DOMAIN alerts' : alerts'[k].type = "removed" /\ loaded[alerts'[k].hash] = "info" =>
           loaded'[alerts'[k].hash] = "info"
      /\ \A g \in Hashes : loaded'[g] = "info" => loaded[g] = "info" /\ native'[g] = native[g]
      /\ \A k \in DOMAIN jobs' : k + 0 \in DOMAIN jobs /\ jobs'[k] = jobs[k + 0]
  <2>1. jobs' = jobs /\ \A g \in Hashes : native'[g] = native[g]
    BY <1>1
  <2>2. \A g \in Hashes : g # h => loaded'[g] = loaded[g]
    BY <1>5
  <2>3. \A g \in Hashes : loaded'[g] = "info" => loaded[g] = "info" /\ native'[g] = native[g]
    BY <1>5, <2>1, <2>2
  <2>4. \A k \in DOMAIN jobs : jobs[k].op = "remove" /\ loaded[jobs[k].hash] = "info" =>
          loaded'[jobs[k].hash] = "info" /\ native'[jobs[k].hash] = native[jobs[k].hash]
    BY <1>7, <1>8, <2>1, <2>2
  <2>5. \A k \in DOMAIN alerts' : alerts'[k].type = "removed" /\ loaded[alerts'[k].hash] = "info" =>
          loaded'[alerts'[k].hash] = "info"
    BY <1>6, <1>8, <2>2
  <2>6. \A k \in DOMAIN jobs : k + 0 \in DOMAIN jobs /\ jobs[k] = jobs[k + 0]
    <3>1. \A k \in DOMAIN jobs : k \in Nat
      BY <1>1 DEF Inv, TypeOK
    <3> QED
      BY <3>1
  <2> QED
    BY <2>1, <2>3, <2>4, <2>5, <2>6
<1>10. InOrder'
  BY <1>1, <1>2, <1>9, InOrderKept
<1>11. WaitingAlive' /\ MetadataWhole'
  BY <1>1, <1>5 DEF WaitingAlive, MetadataWhole
<1>12. Counted'
  <2>1. Waiting' = Waiting
    BY <1>3, <1>5 DEF Waiting
  <2> QED
    BY <1>1, <2>1, SameCount
<1> QED
  BY <1>10, <1>11, <1>12 DEF Whole

LEMMA InitWhole == Init => Whole
<1> SUFFICES ASSUME Init PROVE Whole
  OBVIOUS
<1>1. InOrder /\ WaitingAlive /\ MetadataWhole
  BY DEF Init, InOrder, RemovalJobs, RemovalAlerts, MetadataOnce, MetadataTaken, WaitingAlive,
         MetadataWhole
<1>2. Counted
  <2>1. Waiting = {} /\ extraLimit = 0
    BY DEF Init, Waiting
  <2> QED
    BY <2>1, FS_EmptySet DEF Counted, ExtraLimitCounts
<1> QED
  BY <1>1, <1>2 DEF Whole

LEMMA NextWhole ==
  ASSUME PatientUser, PatientInv, [Next]_vars
  PROVE  PatientInv'
<1>1. Inv' /\ Inv /\ Whole
  BY NextInv DEF PatientInv
<1>2. CASE UNCHANGED vars
  <2>1. /\ UNCHANGED <<loaded, extraLimit, announced, native, hasMeta, jobs, alerts>>
        /\ InOrder /\ WaitingAlive /\ Counted /\ MetadataWhole
    BY <1>1, <1>2 DEF vars, user, net, Whole
  <2>2. InOrder'
    BY <1>1, <2>1, CallKeepsOrder
  <2>3. Counted'
    BY <2>1, SameCount DEF Waiting
  <2> QED
    BY <1>1, <2>1, <2>2, <2>3 DEF PatientInv, Whole, WaitingAlive, MetadataWhole
<1>3. ASSUME NEW h \in Hashes, UserCall(h) PROVE Whole'
  BY <1>1, <1>3, UserCallWhole
<1>4. ASSUME NEW h \in Hashes, HandleAlert(h) PROVE Whole'
  BY <1>1, <1>4, HandleAddTorrentAlertWhole, HandleMetadataReceivedAlertWhole,
     HandleTorrentRemovedAlertWhole DEF HandleAlert
<1>5. ASSUME NEW h \in Hashes, RunJob(h) \/ MetadataArrives(h) PROVE Whole'
  BY <1>1, <1>5, RunAddWhole, RunRemoveWhole, MetadataArrivesWhole DEF RunJob
<1> QED
  BY <1>1, <1>2, <1>3, <1>4, <1>5 DEF Next, PatientInv

\* What holds in every state while the user is patient.
THEOREM PatientInvariance ==
  ASSUME PatientUser
  PROVE  Spec => []PatientInv
<1>1. Init => PatientInv
  BY InitInv, InitWhole DEF PatientInv
<1>2. PatientInv /\ [Next]_vars => PatientInv'
  BY NextWhole
<1> QED
  BY <1>1, <1>2, PTL DEF Spec

\* While the user is patient, the queue limits are raised by exactly one for
\* each magnet that waits for its metadata, in every order of jobs and alerts.
THEOREM LimitCounts ==
  ASSUME PatientUser
  PROVE  Spec => []ExtraLimitCounts
<1>1. PatientInv => ExtraLimitCounts
  BY DEF PatientInv, Whole, Counted
<1> QED
  BY <1>1, PatientInvariance, PTL

\* While the user is patient, metadataLoaded is emitted with metadata.
THEOREM AnnouncedWhole ==
  ASSUME PatientUser
  PROVE  Spec => []MetadataWhole
<1>1. PatientInv => MetadataWhole
  BY DEF PatientInv, Whole
<1> QED
  BY <1>1, PatientInvariance, PTL

\* A magnet that is added while its metadata is loading is in m_torrents when the
\* call returns.
THEOREM AddedByTheCall ==
  ASSUME PatientUser
  PROVE  Spec => PreloadedIsAdded
<1>1. ASSUME PatientInv, NEW h \in Hashes, AddPreloaded(h)
      PROVE  torrents'[h] # None
  <2>1. loaded[h] = "waiting" /\ CreateTorrentHandle(h, native[h], adding \cup {h})
    BY <1>1 DEF AddPreloaded, PatientUser
  <2>2. native[h] # None /\ torrents \in [Hashes -> MaybeInstance]
    BY <1>1, <2>1 DEF PatientInv, Whole, WaitingAlive, Inv, TypeOK
  <2>3. torrents' = [torrents EXCEPT ![h] = native[h]]
    BY <2>1, <2>2 DEF CreateTorrentHandle, Valid
  <2> QED
    BY <2>2, <2>3
<1>2. PatientInv => \A h \in Hashes : AddPreloaded(h) => torrents'[h] # None
  BY <1>1
<1>3. PatientInv /\ [Next]_vars => [\A h \in Hashes : AddPreloaded(h) => torrents'[h] # None]_vars
  BY <1>2
<1> QED
  BY <1>3, PatientInvariance, PTL DEF Spec, PreloadedIsAdded

-----------------------------------------------------------------------------
(***************************************************************************)
(* Torrents that are being added, when libtorrent refuses no addition, and *)
(* the user is patient or adds torrent files only.                         *)
(***************************************************************************)

Admitting == ~ AddMayFail /\ (PatientUser \/ "addMagnet" \notin Calls)

(***************************************************************************)
(* The job that adds h is posted, or its addition is told of by an alert   *)
(* whose instance is there, and will be when the alert is read: the alert  *)
(* of a magnet that was loaded and cancelled is none such.                 *)
(***************************************************************************)
OnTheWay(h) ==
  \/ \E k \in DOMAIN jobs : jobs[k] = AddJob(h)
  \/ /\ ~ Removing(h)
     /\ \E k \in DOMAIN alerts : /\ alerts[k].type = "added" /\ alerts[k].hash = h
                                 /\ Valid(h, alerts[k].inst)

PendingInv == \A h \in adding : OnTheWay(h)

\* What is taken from the head of a queue leaves the rest.
LEMMA RestIs ==
  ASSUME NEW S, NEW s \in Seq(S), s # <<>>, NEW k \in DOMAIN s, k # 1
  PROVE  k - 1 \in DOMAIN Tail(s) /\ Tail(s)[k - 1] = s[k]
  OBVIOUS

LEMMA RunAddPending ==
  ASSUME Admitting, Inv, PendingInv, NEW h \in Hashes, RunAdd(h)
  PROVE  PendingInv'
<1>1. /\ jobs # <<>> /\ Head(jobs) = AddJob(h) /\ jobs' = Tail(jobs) /\ jobs \in Seq(Jobs)
      /\ alerts \in Seq(Alerts) /\ adding' = adding /\ TypeOK
  BY DEF RunAdd, user, Inv, TypeOK
<1>2. PICK i \in Instances : NativeAdd(h, TRUE, i) /\ alerts' = Append(alerts, Alert("added", h, i))
  BY DEF RunAdd, Admitting
<1>3. /\ Alert("added", h, i) \in Alerts /\ Alert("added", h, i).type = "added"
      /\ Alert("added", h, i).hash = h /\ Alert("added", h, i).inst = i
  BY Made DEF MaybeInstance
<1>4. /\ Len(alerts) + 1 \in DOMAIN alerts' /\ alerts'[Len(alerts) + 1] = Alert("added", h, i)
      /\ \A k \in DOMAIN alerts : k \in DOMAIN alerts' /\ alerts'[k] = alerts[k]
  BY <1>1, <1>2, <1>3, AppendIs
<1>5. /\ native'[h] = i /\ native'[h] # None
      /\ \A g \in Hashes : g # h => native'[g] = native[g]
  BY <1>1, <1>2, NativeAdded, NativeAddKeeps DEF Inv
<1>6. \A g \in Hashes : ~ Removing(g)'
  BY <1>1, JobTaken DEF Removing
<1>7. 1 \in DOMAIN jobs /\ Head(jobs) = jobs[1]
  BY <1>1, JobTaken
<1>8. ASSUME NEW g \in adding PROVE OnTheWay(g)'
  <2>1. g \in Hashes
    BY <1>1 DEF TypeOK
  <2>2. CASE g = h
    <3>1. /\ alerts'[Len(alerts) + 1].type = "added" /\ alerts'[Len(alerts) + 1].hash = g
          /\ native'[g] = alerts'[Len(alerts) + 1].inst /\ alerts'[Len(alerts) + 1].inst # None
      BY <1>3, <1>4, <1>5, <2>2
    <3> QED
      BY <1>4, <1>6, <2>1, <3>1 DEF OnTheWay, Valid
  <2>3. ASSUME g # h, NEW k \in DOMAIN alerts, alerts[k].type = "added", alerts[k].hash = g,
               Valid(g, alerts[k].inst)
        PROVE  OnTheWay(g)'
    <3>1. k \in DOMAIN alerts' /\ alerts'[k] = alerts[k] /\ native'[g] = native[g]
      BY <1>4, <1>5, <2>1, <2>3
    <3> QED
      BY <1>6, <2>1, <2>3, <3>1 DEF OnTheWay, Valid
  <2>4. ASSUME g # h, NEW k \in DOMAIN jobs, jobs[k] = AddJob(g)
        PROVE  OnTheWay(g)'
    <3>1. k # 1
      BY <1>1, <1>7, <2>4 DEF AddJob
    <3>2. k - 1 \in DOMAIN jobs' /\ jobs'[k - 1] = AddJob(g)
      BY <1>1, <2>4, <3>1, RestIs
    <3> QED
      BY <3>2 DEF OnTheWay, AddJob
  <2> QED
    BY <2>2, <2>3, <2>4 DEF PendingInv, OnTheWay
<1> QED
  BY <1>1, <1>8 DEF PendingInv

LEMMA RunRemovePending ==
  ASSUME Inv, PendingInv, NEW h \in Hashes, RunRemove(h)
  PROVE  PendingInv'
<1>1. /\ jobs # <<>> /\ Head(jobs).op = "remove" /\ Head(jobs).hash = h /\ jobs' = Tail(jobs)
      /\ jobs \in Seq(Jobs) /\ alerts \in Seq(Alerts) /\ adding' = adding /\ TypeOK
  BY DEF RunRemove, user, Inv, TypeOK
<1>2. 1 \in DOMAIN jobs /\ jobs[1] = Head(jobs) /\ Head(jobs) \in Jobs
  BY <1>1, JobTaken
<1>3. Removing(h) /\ \A g \in Hashes : ~ Removing(g)'
  BY <1>1, <1>2, JobTaken DEF Removing
<1>4. \A g \in Hashes : g # h => native'[g] = native[g]
  BY <1>1 DEF RunRemove, TypeOK
<1>5. \A k \in DOMAIN alerts : k \in DOMAIN alerts' /\ alerts'[k] = alerts[k]
  <2>1. Head(jobs).inst \in MaybeInstance
    BY <1>2 DEF Jobs, MaybeInstance
  <2>2. Alert("removed", h, Head(jobs).inst) \in Alerts
    BY <2>1, Made
  <2> QED
    BY <1>1, <2>2, AppendIs DEF RunRemove
<1>6. ASSUME NEW g \in adding PROVE OnTheWay(g)'
  <2>1. g \in Hashes
    BY <1>1 DEF TypeOK
  <2>2. ASSUME NEW k \in DOMAIN jobs, jobs[k] = AddJob(g) PROVE OnTheWay(g)'
    <3>1. k # 1
      BY <1>1, <1>2, <2>2 DEF AddJob
    <3>2. k - 1 \in DOMAIN jobs' /\ jobs'[k - 1] = AddJob(g)
      BY <1>1, <2>2, <3>1, RestIs
    <3> QED
      BY <3>2 DEF OnTheWay, AddJob
  <2>3. ASSUME ~ Removing(g), NEW k \in DOMAIN alerts, alerts[k].type = "added",
               alerts[k].hash = g, Valid(g, alerts[k].inst)
        PROVE  OnTheWay(g)'
    <3>1. k \in DOMAIN alerts' /\ alerts'[k] = alerts[k] /\ native'[g] = native[g]
      BY <1>3, <1>4, <1>5, <2>1, <2>3
    <3> QED
      BY <1>3, <2>1, <2>3, <3>1 DEF OnTheWay, Valid
  <2> QED
    BY <2>2, <2>3 DEF PendingInv, OnTheWay
<1> QED
  BY <1>1, <1>6 DEF PendingInv

(***************************************************************************)
(* A step that runs no job, posts jobs and alerts at the end, and removes  *)
(* no torrent that is being added.                                         *)
(***************************************************************************)
LEMMA PendingKept ==
  ASSUME PendingInv, adding' \subseteq adding,
         \A h \in adding' : native[h] # None => native'[h] = native[h],
         \A h \in adding' : Removing(h)' => Removing(h),
         \A k \in DOMAIN jobs : k \in DOMAIN jobs' /\ jobs'[k] = jobs[k],
         \A k \in DOMAIN alerts : k \in DOMAIN alerts' /\ alerts'[k] = alerts[k]
  PROVE  PendingInv'
<1>1. ASSUME NEW h \in adding' PROVE OnTheWay(h)'
  <2>1. OnTheWay(h)
    BY <1>1 DEF PendingInv
  <2>2. CASE \E k \in DOMAIN jobs : jobs[k] = AddJob(h)
    BY <2>2 DEF OnTheWay, AddJob
  <2>3. ASSUME ~ Removing(h), NEW k \in DOMAIN alerts, alerts[k].type = "added",
               alerts[k].hash = h, Valid(h, alerts[k].inst)
        PROVE  OnTheWay(h)'
    <3>1. native[h] # None /\ native'[h] = native[h] /\ ~ Removing(h)'
      BY <1>1, <2>3 DEF Valid
    <3> QED
      BY <2>3, <3>1 DEF OnTheWay, Valid
  <2> QED
    BY <2>1, <2>2, <2>3 DEF OnTheWay
<1> QED
  BY <1>1 DEF PendingInv

LEMMA MetadataArrivesPending ==
  ASSUME Inv, PendingInv, NEW h \in Hashes, MetadataArrives(h)
  PROVE  PendingInv'
<1>1. /\ alerts' = Append(alerts, Alert("metadata", h, native[h])) /\ alerts \in Seq(Alerts)
      /\ UNCHANGED <<adding, native, jobs>> /\ native[h] \in MaybeInstance
  BY DEF MetadataArrives, user, Inv, TypeOK
<1>2. Alert("metadata", h, native[h]) \in Alerts
  BY <1>1, Made
<1>3. \A k \in DOMAIN alerts : k \in DOMAIN alerts' /\ alerts'[k] = alerts[k]
  BY <1>1, <1>2, AppendIs
<1>4. \A g \in adding' : Removing(g)' => Removing(g)
  BY <1>1 DEF Removing
<1> QED
  BY <1>1, <1>3, <1>4, PendingKept

LEMMA UserCallPending ==
  ASSUME Admitting, Inv, PatientUser => Whole, PendingInv, NEW h \in Hashes, UserCall(h)
  PROVE  PendingInv'
<1>1. /\ TypeOK /\ jobs \in Seq(Jobs) /\ alerts \in Seq(Alerts) /\ OneStage
      /\ adding \subseteq Hashes
  BY DEF Inv, TypeOK
<1>2. CASE AddFile(h)
  <2>1. /\ adding' = adding \cup {h} /\ jobs' = Append(jobs, AddJob(h))
        /\ native' = native /\ alerts' = alerts
    BY <1>2 DEF AddFile, net
  <2>2. AddJob(h) \in Jobs /\ AddJob(h).op = "add"
    BY Made DEF MaybeInstance
  <2>3. /\ \A k \in DOMAIN jobs : k \in DOMAIN jobs' /\ jobs'[k] = jobs[k]
        /\ Len(jobs) + 1 \in DOMAIN jobs' /\ jobs'[Len(jobs) + 1] = AddJob(h)
        /\ \A k \in DOMAIN jobs' : k \in DOMAIN jobs \/ k = Len(jobs) + 1
    BY <1>1, <2>1, <2>2, AppendIs
  <2>4. ASSUME NEW g \in adding PROVE OnTheWay(g)'
    <3>1. Removing(g)' => Removing(g)
      BY <2>2, <2>3 DEF Removing
    <3>2. (\E k \in DOMAIN jobs : jobs[k] = AddJob(g)) => \E k \in DOMAIN jobs' : jobs'[k] = AddJob(g)
      BY <2>3
    <3>3. OnTheWay(g)
      BY <2>4 DEF PendingInv
    <3> QED
      BY <2>1, <3>1, <3>2, <3>3 DEF OnTheWay, AddJob, Valid
  <2>5. OnTheWay(h)'
    BY <2>3 DEF OnTheWay, AddJob
  <2> QED
    BY <2>1, <2>4, <2>5 DEF PendingInv
<1>3. CASE AddPreloaded(h)
  <2>1. /\ PatientUser /\ Whole /\ loaded[h] = "waiting"
        /\ native' = native /\ jobs' = jobs /\ alerts' = alerts
        /\ CreateTorrentHandle(h, native[h], adding \cup {h})
    BY <1>3 DEF AddPreloaded, Admitting, PatientUser, net
  <2>2. native[h] # None
    BY <2>1 DEF Whole, WaitingAlive
  <2>3. adding' \subseteq adding
    BY <2>1, <2>2 DEF CreateTorrentHandle, Valid
  <2>4. \A g \in adding' : Removing(g)' => Removing(g)
    BY <2>1 DEF Removing
  <2> QED
    BY <2>1, <2>3, <2>4, PendingKept
<1>4. CASE LoadMetadata(h)
  <2>1. /\ h \notin adding /\ UNCHANGED <<adding, jobs>>
        /\ \E i \in Instances : /\ NativeAdd(h, FALSE, i)
                                /\ alerts' = Append(alerts, Alert("added", h, i))
    BY <1>4 DEF LoadMetadata, Known
  <2>2. \A g \in Hashes : g # h => native'[g] = native[g]
    BY <1>1, <2>1, NativeAdded
  <2>3. \A k \in DOMAIN alerts : k \in DOMAIN alerts' /\ alerts'[k] = alerts[k]
    <3>1. \A i \in Instances : Alert("added", h, i) \in Alerts
      BY Made DEF MaybeInstance
    <3> QED
      BY <1>1, <2>1, <3>1, AppendIs
  <2>4. \A g \in adding' : Removing(g)' => Removing(g)
    BY <2>1 DEF Removing
  <2> QED
    BY <1>1, <2>1, <2>2, <2>3, <2>4, PendingKept
<1>5. CASE CancelLoadMetadata(h)
  <2>1. /\ UNCHANGED <<adding, native, alerts>> /\ jobs = <<>> /\ jobs' = RemoveFound(h)
        /\ h \notin adding /\ native[h] \in MaybeInstance
    BY <1>1, <1>5 DEF CancelLoadMetadata, net, OneStage, TypeOK
  <2>2. \A k \in DOMAIN jobs' : jobs'[k].hash = h
    BY <2>1 DEF RemoveFound, RemoveJob
  <2>3. \A g \in adding' : Removing(g)' => Removing(g)
    BY <2>1, <2>2 DEF Removing
  <2> QED
    BY <2>1, <2>3, PendingKept
<1>6. CASE DeleteTorrent(h)
  <2>1. UNCHANGED <<adding, native, jobs, alerts>>
    BY <1>6 DEF DeleteTorrent, net
  <2>2. \A g \in adding' : Removing(g)' => Removing(g)
    BY <2>1 DEF Removing
  <2> QED
    BY <2>1, <2>2, PendingKept
<1> QED
  BY <1>2, <1>3, <1>4, <1>5, <1>6 DEF UserCall

\* A torrent whose addition is told of is there, and leaves m_addingTorrents.
LEMMA HandleAlertPending ==
  ASSUME Inv, PendingInv, NEW h \in Hashes, HandleAlert(h)
  PROVE  PendingInv'
<1>1. /\ alerts # <<>> /\ alerts' = Tail(alerts) /\ alerts \in Seq(Alerts) /\ TypeOK
      /\ native' = native /\ Head(alerts).hash = h /\ OneStage
  BY DEF HandleAlert, HandleAddTorrentAlert, HandleMetadataReceivedAlert,
         HandleTorrentRemovedAlert, AlertIs, net, Inv, TypeOK
<1>2. 1 \in DOMAIN alerts /\ Head(alerts) = alerts[1]
  BY <1>1, AlertTaken
<1>3. /\ adding' \subseteq adding
      /\ Head(alerts).type = "added" /\ Valid(h, Head(alerts).inst) => h \notin adding'
  <2>1. CASE HandleAddTorrentAlert(h)
    BY <2>1 DEF HandleAddTorrentAlert, AlertIs, CreateTorrentHandle
  <2>2. CASE HandleMetadataReceivedAlert(h) \/ HandleTorrentRemovedAlert(h)
    BY <2>2 DEF HandleMetadataReceivedAlert, HandleTorrentRemovedAlert, AlertIs
  <2> QED
    BY <2>1, <2>2 DEF HandleAlert
<1>4. /\ jobs = <<>> \/ jobs' = jobs
      /\ \A g \in adding : Removing(g)' => Removing(g)
  <2>1. CASE jobs' = jobs
    BY <2>1 DEF Removing
  <2>2. CASE /\ jobs = <<>> /\ loaded[h] # "absent"
             /\ jobs' = <<RemoveJob(h, Head(alerts).inst)>>
    <3>1. h \notin adding
      BY <1>1, <2>2 DEF OneStage
    <3>2. \A k \in DOMAIN jobs' : jobs'[k].hash = h
      BY <2>2 DEF RemoveJob
    <3> QED
      BY <2>2, <3>1, <3>2 DEF Removing
  <2> QED
    BY <2>1, <2>2 DEF HandleAlert, HandleAddTorrentAlert, HandleMetadataReceivedAlert,
                      HandleTorrentRemovedAlert, IsPreloaded, TakeMetadata
<1>5. ASSUME NEW g \in adding' PROVE OnTheWay(g)'
  <2>1. g \in adding /\ OnTheWay(g)
    BY <1>3, <1>5 DEF PendingInv
  <2>2. CASE \E k \in DOMAIN jobs : jobs[k] = AddJob(g)
    BY <1>4, <2>2 DEF OnTheWay, AddJob
  <2>3. ASSUME ~ Removing(g), NEW k \in DOMAIN alerts, alerts[k].type = "added",
               alerts[k].hash = g, Valid(g, alerts[k].inst)
        PROVE  OnTheWay(g)'
    <3>1. k # 1
      BY <1>1, <1>2, <1>3, <1>5, <2>3
    <3>2. k - 1 \in DOMAIN alerts' /\ alerts'[k - 1] = alerts[k]
      BY <1>1, <3>1, RestIs
    <3> QED
      BY <1>1, <1>4, <2>1, <2>3, <3>2 DEF OnTheWay, Valid
  <2> QED
    BY <2>1, <2>2, <2>3 DEF OnTheWay
<1> QED
  BY <1>5 DEF PendingInv

LEMMA NextPending ==
  ASSUME Admitting, Inv, PatientUser => Whole, PendingInv, [Next]_vars
  PROVE  PendingInv'
<1>1. CASE UNCHANGED vars
  BY <1>1 DEF vars, user, net, PendingInv, OnTheWay, AddJob, Removing, Valid
<1>2. ASSUME NEW h \in Hashes,
             UserCall(h) \/ HandleAlert(h) \/ RunJob(h) \/ MetadataArrives(h)
      PROVE  PendingInv'
  BY <1>2, UserCallPending, HandleAlertPending, RunAddPending, RunRemovePending,
     MetadataArrivesPending DEF RunJob
<1> QED
  BY <1>1, <1>2 DEF Next

\* While libtorrent refuses no addition, and the user is patient or adds torrent
\* files only, a torrent that waits in m_addingTorrents has its job or its alert
\* under way (session.cpp:1841, 3272): its hash is not refused for ever.
THEOREM AddingIsPending ==
  ASSUME Admitting
  PROVE  Spec => []AddingPending
<1>1. Init => PendingInv
  BY DEF Init, PendingInv
<1>2. PendingInv => AddingPending
  BY DEF PendingInv, OnTheWay, AddingPending
<1>3. CASE PatientUser
  <2>1. PatientInv /\ PendingInv /\ [Next]_vars => PendingInv'
    BY <1>3, NextPending DEF PatientInv
  <2>2. Spec => []PatientInv
    BY <1>3, PatientInvariance
  <2> QED
    BY <1>1, <1>2, <2>1, <2>2, PTL DEF Spec
<1>4. CASE ~ PatientUser
  <2>1. Inv /\ PendingInv /\ [Next]_vars => PendingInv'
    BY <1>4, NextPending
  <2> QED
    BY <1>1, <1>2, <2>1, Invariance, PTL DEF Spec
<1> QED
  BY <1>3, <1>4

-----------------------------------------------------------------------------
(***************************************************************************)
(* The stages of TorrentStages.                                            *)
(***************************************************************************)

\* A step that changes what is known of one torrent only, along the stages.
LEMMA OneMoves ==
  ASSUME NEW h \in Hashes,
         \A g \in Hashes : g # h =>
           loaded'[g] = loaded[g] /\ torrents'[g] = torrents[g] /\ (g \in adding' <=> g \in adding),
         stage'[h] = stage[h] \/ <<stage[h], stage'[h]>> \in Abstract!Steps
  PROVE  [\E g \in Hashes : Abstract!Move(g)]_stage
<1> DEFINE to == stage'[h]
<1>1. \A g \in Hashes : g # h => stage'[g] = stage[g]
  BY DEF stage
<1>2. stage = [g \in Hashes |-> stage[g]] /\ stage' = [g \in Hashes |-> stage'[g]]
  BY DEF stage
<1>3. stage' = [stage EXCEPT ![h] = to]
  BY <1>1, <1>2
<1>4. CASE stage'[h] = stage[h]
  BY <1>1, <1>2, <1>4
<1>5. CASE <<stage[h], to>> \in Abstract!Steps
  <2>1. to \in Abstract!Stages
    BY DEF stage, Abstract!Stages
  <2> QED
    BY <1>3, <1>5, <2>1 DEF Abstract!Move
<1> QED
  BY <1>4, <1>5

LEMMA StepMoves ==
  ASSUME PatientUser, PatientInv, [Next]_vars
  PROVE  [\E h \in Hashes : Abstract!Move(h)]_stage
<1>1. TypeOK /\ OneStage /\ WaitingAlive /\ RemovalAlerts /\ InOrder
  BY DEF PatientInv, Inv, Whole, InOrder
<1>2. CASE UNCHANGED <<loaded, torrents, adding>>
  BY <1>2 DEF stage
<1>3. ASSUME NEW h \in Hashes, AddFile(h) PROVE [\E g \in Hashes : Abstract!Move(g)]_stage
  <2>1. /\ adding' = adding \cup {h} /\ UNCHANGED <<loaded, torrents>>
        /\ h \notin adding /\ loaded[h] = "absent" /\ torrents[h] = None
    BY <1>3 DEF AddFile, Known
  <2>2. stage[h] = "unknown" /\ stage'[h] = "adding"
    BY <2>1 DEF stage
  <2> QED
    BY <2>1, <2>2, OneMoves DEF Abstract!Steps
<1>4. ASSUME NEW h \in Hashes, AddPreloaded(h) PROVE [\E g \in Hashes : Abstract!Move(g)]_stage
  <2>1. /\ loaded[h] = "waiting" /\ loaded' = [loaded EXCEPT ![h] = "absent"]
        /\ CreateTorrentHandle(h, native[h], adding \cup {h})
    BY <1>4 DEF AddPreloaded, PatientUser
  <2>2. native[h] # None /\ h \notin adding /\ torrents[h] = None
    BY <1>1, <2>1 DEF WaitingAlive, OneStage
  <2>3. adding' = adding /\ torrents' = [torrents EXCEPT ![h] = native[h]]
    BY <2>1, <2>2 DEF CreateTorrentHandle, Valid
  <2>4. torrents'[h] # None /\ \A g \in Hashes : g # h =>
          loaded'[g] = loaded[g] /\ torrents'[g] = torrents[g]
    BY <1>1, <2>1, <2>2, <2>3 DEF TypeOK
  <2>5. stage[h] = "preloading" /\ stage'[h] = "added"
    BY <2>1, <2>2, <2>4 DEF stage
  <2> QED
    BY <2>3, <2>4, <2>5, OneMoves DEF Abstract!Steps
<1>5. ASSUME NEW h \in Hashes, LoadMetadata(h) PROVE [\E g \in Hashes : Abstract!Move(g)]_stage
  <2>1. /\ loaded' = [loaded EXCEPT ![h] = "waiting"] /\ UNCHANGED <<adding, torrents>>
        /\ h \notin adding /\ loaded[h] = "absent" /\ torrents[h] = None
    BY <1>5 DEF LoadMetadata, Known
  <2>2. loaded'[h] = "waiting" /\ \A g \in Hashes : g # h => loaded'[g] = loaded[g]
    BY <1>1, <2>1 DEF TypeOK
  <2>3. stage[h] = "unknown" /\ stage'[h] = "preloading"
    BY <2>1, <2>2 DEF stage
  <2> QED
    BY <2>1, <2>2, <2>3, OneMoves DEF Abstract!Steps
<1>6. ASSUME NEW h \in Hashes, DeleteTorrent(h) PROVE [\E g \in Hashes : Abstract!Move(g)]_stage
  <2>1. /\ torrents' = [torrents EXCEPT ![h] = None] /\ UNCHANGED <<adding, loaded>>
        /\ torrents[h] # None
    BY <1>6 DEF DeleteTorrent
  <2>2. loaded[h] = "absent" /\ h \notin adding
    BY <1>1, <2>1 DEF OneStage, TypeOK
  <2>3. torrents'[h] = None /\ \A g \in Hashes : g # h => torrents'[g] = torrents[g]
    BY <1>1, <2>1 DEF TypeOK
  <2>4. stage[h] = "added" /\ stage'[h] = "unknown"
    BY <2>1, <2>2, <2>3 DEF stage
  <2> QED
    BY <2>1, <2>3, <2>4, OneMoves DEF Abstract!Steps
<1>7. ASSUME NEW h \in Hashes, HandleAddTorrentAlert(h)
      PROVE  [\E g \in Hashes : Abstract!Move(g)]_stage
  <2>1. CASE UNCHANGED <<adding, torrents>>
    BY <1>2, <1>7, <2>1 DEF HandleAddTorrentAlert
  <2>2. CASE /\ adding' = adding \ {h} /\ h \in adding
             /\ torrents' = [torrents EXCEPT ![h] = Head(alerts).inst] /\ Head(alerts).inst # None
    <3>1. loaded' = loaded /\ loaded[h] = "absent" /\ torrents[h] = None
      BY <1>1, <1>7, <2>2 DEF HandleAddTorrentAlert, OneStage
    <3>2. torrents'[h] # None /\ \A g \in Hashes : g # h => torrents'[g] = torrents[g]
      BY <1>1, <2>2 DEF TypeOK
    <3>3. stage[h] = "adding" /\ stage'[h] = "added"
      BY <2>2, <3>1, <3>2 DEF stage
    <3> QED
      BY <2>2, <3>1, <3>2, <3>3, OneMoves DEF Abstract!Steps
  <2> QED
    BY <1>7, <2>1, <2>2 DEF HandleAddTorrentAlert, CreateTorrentHandle, Valid
<1>8. ASSUME NEW h \in Hashes, HandleMetadataReceivedAlert(h)
      PROVE  [\E g \in Hashes : Abstract!Move(g)]_stage
  <2>1. UNCHANGED <<adding, torrents>>
    BY <1>8 DEF HandleMetadataReceivedAlert
  <2>2. CASE ~ IsPreloaded(h)
    BY <1>2, <1>8, <2>1, <2>2 DEF HandleMetadataReceivedAlert
  <2>3. CASE IsPreloaded(h)
    <3>1. loaded' = [loaded EXCEPT ![h] = "info"] /\ loaded[h] # "absent"
      BY <1>8, <2>3 DEF HandleMetadataReceivedAlert, TakeMetadata, IsPreloaded
    <3>2. torrents[h] = None
      BY <1>1, <3>1 DEF OneStage
    <3>3. loaded[h] \in {"waiting", "info"} /\ loaded'[h] = "info"
            /\ \A g \in Hashes : g # h => loaded'[g] = loaded[g]
      BY <1>1, <3>1 DEF TypeOK
    <3>4. stage[h] \in {"preloading", "preloaded"} /\ stage'[h] = "preloaded"
      BY <2>1, <3>2, <3>3 DEF stage
    <3> QED
      BY <2>1, <3>3, <3>4, OneMoves DEF Abstract!Steps
  <2> QED
    BY <2>2, <2>3
<1>9. ASSUME NEW h \in Hashes, HandleTorrentRemovedAlert(h)
      PROVE  [\E g \in Hashes : Abstract!Move(g)]_stage
  <2>1. UNCHANGED <<adding, torrents>>
    BY <1>9 DEF HandleTorrentRemovedAlert
  <2>2. CASE loaded[h] = "absent"
    BY <1>2, <1>9, <2>1, <2>2 DEF HandleTorrentRemovedAlert
  <2>3. CASE loaded[h] # "absent"
    <3>1. loaded' = [loaded EXCEPT ![h] = "absent"]
      BY <1>9, <2>3 DEF HandleTorrentRemovedAlert
    <3>2. torrents[h] = None /\ h \notin adding
      BY <1>1, <2>3 DEF OneStage
    <3>3. loaded[h] \in {"waiting", "info"} /\ loaded'[h] = "absent"
            /\ \A g \in Hashes : g # h => loaded'[g] = loaded[g]
      BY <1>1, <2>3, <3>1 DEF TypeOK
    <3>4. stage[h] \in {"preloading", "preloaded"} /\ stage'[h] = "unknown"
      BY <2>1, <3>2, <3>3 DEF stage
    <3> QED
      BY <2>1, <3>3, <3>4, OneMoves DEF Abstract!Steps
  <2> QED
    BY <2>2, <2>3
<1>10. ASSUME NEW h \in Hashes, RunJob(h) \/ MetadataArrives(h)
       PROVE  [\E g \in Hashes : Abstract!Move(g)]_stage
  BY <1>2, <1>10 DEF RunJob, RunAdd, RunRemove, MetadataArrives, user
<1>11. \A h \in Hashes : ~ CancelLoadMetadata(h)
  BY DEF PatientUser, CancelLoadMetadata
<1>12. CASE UNCHANGED vars
  BY <1>2, <1>12 DEF vars, user
<1> QED
  BY <1>3, <1>4, <1>5, <1>6, <1>7, <1>8, <1>9, <1>10, <1>11, <1>12 DEF Next, UserCall, HandleAlert

\* While the user is patient, every step of the Session moves one torrent, if
\* any, from its stage to one that may follow it: the safety half of
\* ImplementsStages, for every set of torrents.
THEOREM MovesAlongStages ==
  ASSUME PatientUser
  PROVE  Spec => Abstract!StagesInit /\ [][\E h \in Hashes : Abstract!Move(h)]_stage
<1>1. Init => Abstract!StagesInit
  BY DEF Init, stage, Abstract!StagesInit
<1>2. PatientInv /\ [Next]_vars => [\E h \in Hashes : Abstract!Move(h)]_stage
  BY StepMoves
<1> QED
  BY <1>1, <1>2, PatientInvariance, PTL DEF Spec
=============================================================================
