--------------------------- MODULE SessionSettings ---------------------------
(***************************************************************************)
(* The settings of BitTorrent::Session (src/bittorrent/session.cpp), what  *)
(* libtorrent has been told of them, and the timer of the share limits.    *)
(*                                                                         *)
(* A setter stores its value and asks for configure(), which runs later    *)
(* from the event loop and tells libtorrent everything; a flag keeps two   *)
(* setters from asking twice.  Two things go around it at once: the limits *)
(* of the queue when a magnet is loaded (adjustLimits), and the bandwidth  *)
(* limits when the alternative ones are switched (applyBandwidthLimits).   *)
(* All of this is one thread: what can go wrong is that a change is never  *)
(* told, or is told by the values that were.                               *)
(*                                                                         *)
(* Left out: settings that configure() does not read (the IP filter, the   *)
(* half-open connections, proxy peers) or reads only with a proxy, which   *)
(* is never in use.                                                        *)
(***************************************************************************)
EXTENDS Integers

CONSTANTS Touched,     \* the plain settings that the user changes
          Values,      \* what setters of plain settings are called with
          Limits,      \* speed limits in bytes that setters are called with
          Torrents,    \* torrents that may have share limits
          MaxExtra,    \* bound on m_extraLimit, above and below 0
          MaxCalls     \* bound on the calls

\* setters that compare, store and ask for configure()
DiscoverySettings == {"dht", "lsd"}
NetworkSettings == {"encryption", "chokingAlgorithm", "seedChokingAlgorithm"}
AnnounceSettings == {"announceToAllTrackers", "announceToAllTiers"}
DiskSettings == {"diskCacheSize", "diskCacheTTL", "useOSCache", "guidedReadCache", "coalesceReadWrite",
                 "suggestMode", "sendBufferWatermark", "sendBufferLowWatermark", "sendBufferWatermarkFactor"}
QueueSettings == {"maxActiveDownloads", "maxActiveUploads", "maxActiveTorrents"}
SlowSettings == {"ignoreSlowTorrents", "downloadRateForSlow", "uploadRateForSlow", "slowInactivityTimer"}
TrafficSettings == {"anonymousMode", "outgoingPortsMin", "outgoingPortsMax", "ignoreLimitsOnLAN",
                    "includeOverhead", "announceIP", "superSeeding"}
ConnectionSettings == {"maxConnections", "maxUploads"}
ProtocolSettings == {"btProtocol", "utpRateLimited", "utpMixedMode", "multiConnectionsPerIp", "trackerFiltering"}

Plain == DiscoverySettings \cup NetworkSettings \cup AnnounceSettings \cup DiskSettings \cup QueueSettings \cup SlowSettings
           \cup TrafficSettings \cup ConnectionSettings \cup ProtocolSettings

Copied == Plain \ (QueueSettings \cup SlowSettings)  \* configured as they are
Queued == SlowSettings \cup {"maxActiveUploads"}      \* ... when there is a queue

ASSUME TouchedAssumption == Touched \subseteq Plain
ASSUME ValuesAssumption == Values \subseteq Int /\ Limits \subseteq Int
ASSUME BoundsAssumption == MaxExtra \in Nat /\ MaxCalls \in Nat

VARIABLES
  stored,       \* the members that hold the plain settings
  queueing,     \* m_isQueueingEnabled
  speed,        \* the speed limits in KiB, global and alternative
  altEnabled,   \* m_isAltGlobalSpeedLimitEnabled
  listening,    \* m_port, m_networkInterface, its m_networkInterfaceAddress, m_isIPv6Enabled
  entries,      \* the addresses that the interface has
  randomPort,   \* m_useRandomPort
  listenInterfaceChanged, \* m_listenInterfaceChanged
  extraLimit,   \* m_extraLimit
  scheduled,    \* m_deferredConfigureScheduled
  posted,       \* calls of configure() in the event queue
  pack,         \* libtorrent: what it was told
  globalRatio, globalMinutes, \* m_globalMaxRatio, m_globalMaxSeedingMinutes
  shareLimits,  \* the limits of each torrent there is
  timer,        \* m_seedingLimitTimer is active
  asked,        \* history: the speed limit each setter was last called with
  calls         \* counted against the bound

settings == <<stored, queueing, speed, altEnabled, listening, entries, randomPort, extraLimit, asked>>
native == <<listenInterfaceChanged, scheduled, posted, pack>>
share == <<globalRatio, globalMinutes, shareLimits, timer>>
vars == <<settings, native, share, calls>>

KiB == 1024
Modes == {"global", "alt"}
Ways == {"download", "upload"}
Larger(a, b) == IF a > b THEN a ELSE b
Smaller(a, b) == IF a < b THEN a ELSE b

-----------------------------------------------------------------------------
(***************************************************************************)
(* What libtorrent is told.                                                *)
(***************************************************************************)
\* adjustLimits(settingsPack): one of the two limits
QueueLimit(limit, extra) == IF limit > -1 THEN limit + extra ELSE limit

\* Mutant of adjustLimits: magnets that load are not counted.
AdjustWithoutExtra(p, extra) ==
  [p EXCEPT !["active_downloads"] = stored["maxActiveDownloads"], !["active_limit"] = stored["maxActiveTorrents"]]

\* adjustLimits(settingsPack)
adjustLimits(p, extra) ==
  [p EXCEPT !["active_downloads"] = QueueLimit(stored["maxActiveDownloads"], extra),
            !["active_limit"] = QueueLimit(stored["maxActiveTorrents"], extra)]

\* applyBandwidthLimits(settingsPack)
applyBandwidthLimits(p, alt) ==
  LET mode == IF alt THEN "alt" ELSE "global" IN
  [p EXCEPT !["download_rate_limit"] = speed[mode]["download"] * KiB,
            !["upload_rate_limit"] = speed[mode]["upload"] * KiB]

PortInUse == IF randomPort THEN "random" ELSE listening.port

\* configure(settingsPack): the part for the queue
ConfigureQueue(p) ==
  IF queueing
  THEN LET adjusted == adjustLimits(p, extraLimit) IN
       [s \in DOMAIN p |-> IF s \in Queued THEN stored[s] ELSE adjusted[s]]
  ELSE [p EXCEPT !["active_downloads"] = -1, !["active_limit"] = -1, !["maxActiveUploads"] = -1]

Family(address) == address = "ip6"

\* Mutant of ListeningIP: without a fitting address of the interface, any will do.
ListeningAnywhere(l, have) ==
  IF l.interface = "" THEN IF l.address # "" THEN l.address ELSE "wildcard"
  ELSE LET fit == {a \in have : Family(a) = l.ipv6 /\ l.address \in {"", a}} IN
       IF fit = {} THEN "wildcard" ELSE CHOOSE a \in fit : TRUE

\* getListeningIPs() and the loop of configure() over what it returns: the first
\* address of the wanted family that fits; the local host if there is none.
ListeningIP(l, have) ==
  IF l.address = "invalid" THEN "localhost"
  ELSE IF l.interface = "" THEN IF l.address # "" THEN l.address ELSE "wildcard"
  ELSE LET fit == {a \in have : Family(a) = l.ipv6 /\ l.address \in {"", a}} IN
       IF fit = {} THEN "localhost" ELSE CHOOSE a \in fit : TRUE

\* configure(settingsPack): the part for the interfaces
ConfigureListening(p) ==
  IF listenInterfaceChanged
  THEN [p EXCEPT !["port"] = PortInUse, !["address"] = ListeningIP(listening, entries)] ELSE p

\* configure(settingsPack): what is copied as it is, or converted by a constant
ConfigurePlain(p) ==
  [s \in DOMAIN p |-> IF s \in Copied THEN stored[s] ELSE p[s]]

Configured(p) ==
  ConfigureQueue(ConfigurePlain(applyBandwidthLimits(ConfigureListening(p), altEnabled)))

-----------------------------------------------------------------------------
(***************************************************************************)
(* Setters.                                                                *)
(***************************************************************************)
Called == calls < MaxCalls /\ calls' = calls + 1

\* Mutant of configureDeferred: the flag is not raised.
DeferredUnflagged == posted' = posted + 1 /\ UNCHANGED scheduled

\* configureDeferred()
configureDeferred ==
  /\ scheduled' = TRUE
  /\ posted' = IF scheduled THEN posted ELSE posted + 1

\* What a plain setter makes of its argument.
Kept(s, v) ==
  CASE s \in ConnectionSettings -> IF v > 0 THEN v ELSE -1
    [] s \in QueueSettings -> Larger(v, -1)
    [] s = "diskCacheSize" -> Smaller(v, 4096)
    [] OTHER -> v

Refused(s, v) == s = "btProtocol" /\ v \notin 0 .. 2

Set(s, v) ==
  /\ Called /\ ~ Refused(s, v) /\ Kept(s, v) # stored[s]
  /\ stored' = [stored EXCEPT ![s] = Kept(s, v)]
  /\ configureDeferred
  /\ UNCHANGED <<queueing, speed, altEnabled, listening, entries, randomPort, extraLimit, asked,
                 listenInterfaceChanged, pack, share>>

setQueueingSystemEnabled(enabled) ==
  /\ Called /\ enabled # queueing /\ queueing' = enabled
  /\ configureDeferred
  /\ UNCHANGED <<stored, speed, altEnabled, listening, entries, randomPort, extraLimit, asked,
                 listenInterfaceChanged, pack, share>>

\* limit / 1024, and 0 for what is negative
InKiB(limit) == IF limit < 0 THEN 0 ELSE limit \div KiB

\* setGlobalDownloadSpeedLimit() and the three like it: a limit in KiB is compared
\* with one in bytes.
setSpeedLimit(mode, way, limit) ==
  /\ Called
  /\ asked' = [asked EXCEPT ![mode][way] = InKiB(limit)]
  /\ IF InKiB(limit) = speed[mode][way] * KiB
     THEN UNCHANGED <<speed, scheduled, posted>>
     ELSE /\ speed' = [speed EXCEPT ![mode][way] = InKiB(limit)]
          /\ IF altEnabled = (mode = "alt") THEN configureDeferred ELSE UNCHANGED <<scheduled, posted>>
  /\ UNCHANGED <<stored, queueing, altEnabled, listening, entries, randomPort, extraLimit,
                 listenInterfaceChanged, pack, share>>

\* setDownloadSpeedLimit() and setUploadSpeedLimit(): the limit in use
setCurrentSpeedLimit(way, limit) == setSpeedLimit(IF altEnabled THEN "alt" ELSE "global", way, limit)

setAltGlobalSpeedLimitEnabled(enabled) ==
  /\ Called /\ enabled # altEnabled /\ altEnabled' = enabled
  /\ pack' = applyBandwidthLimits(pack, enabled)
  /\ UNCHANGED <<stored, queueing, speed, listening, entries, randomPort, extraLimit, asked,
                 listenInterfaceChanged, scheduled, posted, share>>

\* configureListeningInterface()
configureListeningInterface == listenInterfaceChanged' = TRUE /\ configureDeferred

setPort(port) ==
  /\ Called /\ port # PortInUse /\ listening' = [listening EXCEPT !.port = port]
  /\ configureListeningInterface
  /\ UNCHANGED <<stored, queueing, speed, altEnabled, entries, randomPort, extraLimit, asked, pack, share>>

ChangeListening(l) ==
  /\ Called /\ l # listening /\ listening' = l
  /\ configureListeningInterface
  /\ UNCHANGED <<stored, queueing, speed, altEnabled, entries, randomPort, extraLimit, asked, pack, share>>

setNetworkInterface(iface) == ChangeListening([listening EXCEPT !.interface = iface])
setNetworkInterfaceAddress(address) == ChangeListening([listening EXCEPT !.address = address])
setIPv6Enabled(enabled) == ChangeListening([listening EXCEPT !.ipv6 = enabled])

\* The interface gets or loses addresses: networkConfigurationChange() is told,
\* and does nothing when no interface is configured.
networkConfigurationChange(have) ==
  /\ Called /\ have # entries /\ entries' = have
  /\ IF listening.interface # "" THEN configureListeningInterface
     ELSE UNCHANGED <<listenInterfaceChanged, scheduled, posted>>
  /\ UNCHANGED <<stored, queueing, speed, altEnabled, listening, randomPort, extraLimit, asked, pack, share>>

\* setUseRandomPort(): nothing is configured anew
setUseRandomPort(value) ==
  /\ Called /\ randomPort # value /\ randomPort' = value
  /\ UNCHANGED <<stored, queueing, speed, altEnabled, listening, entries, extraLimit, asked, native, share>>

\* m_extraLimit changes where magnets are loaded: adjustLimits() follows at once.
\* It falls below 0 when a magnet is taken off twice, as SessionTorrents shows.
ExtraLimitChanges(extra) ==
  /\ extra \in {extraLimit - 1, extraLimit + 1}
  /\ extraLimit' = extra
  /\ pack' = IF queueing THEN adjustLimits(pack, extra) ELSE pack
  /\ UNCHANGED <<stored, queueing, speed, altEnabled, listening, entries, randomPort, asked,
                 listenInterfaceChanged, scheduled, posted, share, calls>>

\* Mutant of configure: the flag stays up.
ConfigureKeepsFlag ==
  /\ posted > 0 /\ posted' = posted - 1
  /\ pack' = Configured(pack)
  /\ listenInterfaceChanged' = FALSE /\ UNCHANGED scheduled
  /\ UNCHANGED <<settings, share, calls>>

\* configure(), from the event queue
configure ==
  /\ posted > 0 /\ posted' = posted - 1
  /\ pack' = Configured(pack)
  /\ listenInterfaceChanged' = FALSE /\ scheduled' = FALSE
  /\ UNCHANGED <<settings, share, calls>>

-----------------------------------------------------------------------------
(***************************************************************************)
(* Share limits: -2 (a torrent's: as the session's), -1 (none) or a limit. *)
(***************************************************************************)
NoTorrent == [ratio |-> -3, minutes |-> -3]
Present(t) == shareLimits[t] # NoTorrent

Limited(ratio, minutes, limits) ==
  ratio # -1 \/ minutes # -1 \/ \E t \in Torrents : limits[t].ratio >= 0 \/ limits[t].minutes >= 0

\* Mutant of updateSeedingLimitTimer: limits of torrents are not looked at.
TimerOfSession(ratio, minutes, limits) == timer' = (ratio # -1 \/ minutes # -1)

\* updateSeedingLimitTimer(), hasPerTorrentRatioLimit(), hasPerTorrentSeedingTimeLimit()
updateSeedingLimitTimer(ratio, minutes, limits) == timer' = Limited(ratio, minutes, limits)

SessionLimit(v) == IF v < 0 THEN -1 ELSE v

setGlobalMaxRatio(v) ==
  /\ Called /\ SessionLimit(v) # globalRatio /\ globalRatio' = SessionLimit(v)
  /\ updateSeedingLimitTimer(globalRatio', globalMinutes, shareLimits)
  /\ UNCHANGED <<settings, native, globalMinutes, shareLimits>>

setGlobalMaxSeedingMinutes(v) ==
  /\ Called /\ SessionLimit(v) # globalMinutes /\ globalMinutes' = SessionLimit(v)
  /\ updateSeedingLimitTimer(globalRatio, globalMinutes', shareLimits)
  /\ UNCHANGED <<settings, native, globalRatio, shareLimits>>

\* createTorrentHandle(): a torrent comes with limits of its own
TorrentComes(t, limits) ==
  /\ ~ Present(t) /\ shareLimits' = [shareLimits EXCEPT ![t] = limits]
  /\ timer' = (timer \/ limits.ratio >= 0 \/ limits.minutes >= 0)
  /\ UNCHANGED <<settings, native, globalRatio, globalMinutes, calls>>

\* deleteTorrent(): the timer is left alone
TorrentGoes(t) ==
  /\ Present(t) /\ shareLimits' = [shareLimits EXCEPT ![t] = NoTorrent]
  /\ UNCHANGED <<settings, native, globalRatio, globalMinutes, timer, calls>>

\* TorrentHandle: what setRatioLimit() and setSeedingTimeLimit() make of a limit
TorrentLimit(v, highest) == IF v < -2 THEN -1 ELSE Smaller(v, highest)

\* setRatioLimit() and setSeedingTimeLimit() of a torrent, handleTorrentShareLimitChanged()
setTorrentLimit(t, which, v) ==
  /\ Called /\ Present(t)
  /\ LET kept == TorrentLimit(v, IF which = "ratio" THEN 9999 ELSE 525600) IN
     /\ kept # shareLimits[t][which]
     /\ shareLimits' = [shareLimits EXCEPT ![t][which] = kept]
  /\ updateSeedingLimitTimer(globalRatio, globalMinutes, shareLimits')
  /\ UNCHANGED <<settings, native, globalRatio, globalMinutes>>

-----------------------------------------------------------------------------
Ports == {"p1", "p2"}
Interfaces == {"", "eth"}
Addresses == {"", "ip4", "ip6", "other4", "invalid"}
Listening == [port : Ports, interface : Interfaces, address : Addresses, ipv6 : BOOLEAN]

PackKeys == Plain \cup {"active_downloads", "active_limit", "download_rate_limit", "upload_rate_limit",
                        "port", "address"}

\* The constructor configures libtorrent before there are torrents.
Init ==
  /\ stored = [s \in Plain |-> 1] /\ queueing = TRUE
  /\ speed = [mode \in Modes |-> [way \in Ways |-> IF mode = "alt" THEN 10 ELSE 0]]
  /\ asked = speed /\ altEnabled = FALSE
  /\ listening = [port |-> "p1", interface |-> "", address |-> "", ipv6 |-> FALSE]
  /\ entries = {"ip4"} /\ randomPort = FALSE /\ extraLimit = 0
  /\ listenInterfaceChanged = FALSE /\ scheduled = FALSE /\ posted = 0
  /\ pack = [k \in PackKeys |-> CASE k = "port" -> "p1" [] k = "address" -> "wildcard"
                                 [] k \in {"download_rate_limit", "upload_rate_limit"} -> 0
                                 [] OTHER -> 1]
  /\ globalRatio = -1 /\ globalMinutes = -1 /\ timer = FALSE
  /\ shareLimits = [t \in Torrents |-> NoTorrent]
  /\ calls = 0

ShareNext ==
  \/ \E v \in Values : setGlobalMaxRatio(v) \/ setGlobalMaxSeedingMinutes(v)
  \/ \E t \in Torrents :
       \/ \E v \in {-2, -1} : TorrentComes(t, [ratio |-> v, minutes |-> v])
       \/ TorrentGoes(t)
       \/ \E v \in Values, which \in {"ratio", "minutes"} : setTorrentLimit(t, which, v)

SettingsNext ==
  \/ \E s \in Touched, v \in Values : Set(s, v)
  \/ \E enabled \in BOOLEAN : setQueueingSystemEnabled(enabled) \/ setAltGlobalSpeedLimitEnabled(enabled)
                               \/ setUseRandomPort(enabled) \/ setIPv6Enabled(enabled)
  \/ \E way \in Ways, limit \in Limits :
       setCurrentSpeedLimit(way, limit) \/ \E mode \in Modes : setSpeedLimit(mode, way, limit)
  \/ \E port \in Ports : setPort(port)
  \/ \E iface \in Interfaces : setNetworkInterface(iface)
  \/ \E address \in Addresses : setNetworkInterfaceAddress(address)
  \/ \E have \in SUBSET {"ip4", "ip6"} : networkConfigurationChange(have)
  \/ \E extra \in - MaxExtra .. MaxExtra : ExtraLimitChanges(extra)
  \/ configure

Next == SettingsNext \/ ShareNext

Spec == Init /\ [][Next]_vars

\* The event loop runs what was posted to it.
LiveSpec == Spec /\ WF_vars(configure)

-----------------------------------------------------------------------------
(***************************************************************************)
(* Properties.                                                             *)
(***************************************************************************)
\* Every variable keeps to its values; at most one call of configure() waits.
TypeOK ==
  /\ stored \in [Plain -> Int] /\ queueing \in BOOLEAN /\ altEnabled \in BOOLEAN
  /\ speed \in [Modes -> [Ways -> Nat]] /\ asked \in [Modes -> [Ways -> Nat]]
  /\ listening \in Listening /\ entries \in SUBSET {"ip4", "ip6"} /\ randomPort \in BOOLEAN
  /\ extraLimit \in - MaxExtra .. MaxExtra /\ calls \in 0 .. MaxCalls
  /\ listenInterfaceChanged \in BOOLEAN /\ scheduled \in BOOLEAN /\ posted \in 0 .. 1
  /\ DOMAIN pack = PackKeys
  /\ globalRatio \in Int /\ globalMinutes \in Int /\ timer \in BOOLEAN
  /\ shareLimits \in [Torrents -> [ratio : Int, minutes : Int]]

\* What libtorrent should have been told of the queue, with magnets on top.
QueueTold ==
  IF queueing
  THEN /\ pack["active_downloads"] = QueueLimit(stored["maxActiveDownloads"], extraLimit)
       /\ pack["active_limit"] = QueueLimit(stored["maxActiveTorrents"], extraLimit)
       /\ \A s \in Queued : pack[s] = stored[s]
  ELSE \A k \in {"active_downloads", "active_limit", "maxActiveUploads"} : pack[k] = -1

\* What it should have been told of the rates: of the mode that is in use.
RatesTold ==
  \A way \in Ways :
    pack[IF way = "download" THEN "download_rate_limit" ELSE "upload_rate_limit"]
      = speed[IF altEnabled THEN "alt" ELSE "global"][way] * KiB

PlainTold == \A s \in Copied : pack[s] = stored[s]

\* Where it should have been told to listen.
AddressTold == pack["address"] = ListeningIP(listening, entries)

\* When no configure() waits, libtorrent has been told the limits of the queue, the
\* rates, the plain settings and the address to listen on as they are now, whatever
\* the order of setters, of switches, of magnets and of changes of the interface.
\* This is not said of the port.
SettingsTold == posted = 0 => QueueTold /\ RatesTold /\ PlainTold /\ AddressTold

\* The same of the port.  It does not hold: setUseRandomPort() changes what port()
\* returns and asks for no configure().
PortTold == posted = 0 => pack["port"] = PortInUse

\* When no configure() waits, a session that is bound to an interface listens on an
\* address that the interface has, or on the local host: never everywhere.
NeverExposed ==
  posted = 0 /\ listening.interface # "" => pack["address"] \in entries \cup {"localhost"}

\* As long as there is a share limit, the timer that looks after it is running.
LimitsWatched == Limited(globalRatio, globalMinutes, shareLimits) => timer

\* A setter's change reaches libtorrent, as far as SettingsTold says it should.
ToldInTheEnd == scheduled ~> SettingsTold /\ ~ scheduled

\* A speed limit that was set is kept, in KiB.
SpeedLimitKept == speed = asked
=============================================================================
