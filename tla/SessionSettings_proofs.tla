------------------------ MODULE SessionSettings_proofs ------------------------
(***************************************************************************)
(* Safety of SessionSettings, for any values, limits and torrents: what    *)
(* libtorrent was told agrees with the settings whenever no configure()    *)
(* waits, but for the port, the session never listens where it was told    *)
(* not to, and share limits are watched.                                   *)
(***************************************************************************)
EXTENDS SessionSettings, TLAPS

-----------------------------------------------------------------------------
(***************************************************************************)
(* The keys of the pack, and what is written under them.                   *)
(***************************************************************************)
LimitKeys == {"active_downloads", "active_limit"}
RateKeys == {"download_rate_limit", "upload_rate_limit"}
ListenKeys == {"port", "address"}

\* The settings that are copied, those of the queue and the computed ones have
\* different keys.
LEMMA KeysApart ==
  /\ PackKeys = Plain \cup LimitKeys \cup RateKeys \cup ListenKeys
  /\ Plain \cap (LimitKeys \cup RateKeys \cup ListenKeys) = {}
  /\ Copied \subseteq Plain /\ Queued \subseteq Plain /\ Copied \cap Queued = {}
  /\ "maxActiveUploads" \in Queued
  /\ {"maxActiveDownloads", "maxActiveTorrents"} \subseteq Plain \ (Copied \cup Queued)
<1>1. PackKeys = Plain \cup LimitKeys \cup RateKeys \cup ListenKeys
  BY DEF PackKeys, LimitKeys, RateKeys, ListenKeys
<1>2. Plain \cap (LimitKeys \cup RateKeys \cup ListenKeys) = {}
  BY DEF Plain, LimitKeys, RateKeys, ListenKeys, DiscoverySettings, NetworkSettings, AnnounceSettings,
         DiskSettings, QueueSettings, SlowSettings, TrafficSettings, ConnectionSettings, ProtocolSettings
<1>3. QueueSettings \cup SlowSettings \subseteq Plain /\ Copied \cap (QueueSettings \cup SlowSettings) = {}
  BY DEF Plain, Copied
<1>4. Queued \subseteq QueueSettings \cup SlowSettings /\ "maxActiveUploads" \in Queued
  BY DEF Queued, QueueSettings, SlowSettings
<1>5. /\ {"maxActiveDownloads", "maxActiveTorrents"} \subseteq QueueSettings
      /\ {"maxActiveDownloads", "maxActiveTorrents"} \cap Queued = {}
  BY DEF QueueSettings, Queued, SlowSettings
<1> QED BY <1>1, <1>2, <1>3, <1>4, <1>5 DEF Copied

\* adjustLimits() writes the two limits and nothing else.
LEMMA AdjustLimitsIs ==
  ASSUME NEW p, DOMAIN p = PackKeys, NEW extra
  PROVE  /\ DOMAIN adjustLimits(p, extra) = PackKeys
         /\ adjustLimits(p, extra)["active_downloads"] = QueueLimit(stored["maxActiveDownloads"], extra)
         /\ adjustLimits(p, extra)["active_limit"] = QueueLimit(stored["maxActiveTorrents"], extra)
         /\ \A k \in PackKeys \ LimitKeys : adjustLimits(p, extra)[k] = p[k]
<1> LimitKeys \subseteq PackKeys
  BY KeysApart
<1> QED BY DEF adjustLimits, LimitKeys

\* The rate of a way in a mode, in bytes.
RateKey(way) == IF way = "download" THEN "download_rate_limit" ELSE "upload_rate_limit"
Rate(alt, way) == speed[IF alt THEN "alt" ELSE "global"][way] * KiB

\* applyBandwidthLimits() writes the two rates and nothing else.
LEMMA BandwidthIs ==
  ASSUME NEW p, DOMAIN p = PackKeys, NEW alt
  PROVE  /\ DOMAIN applyBandwidthLimits(p, alt) = PackKeys
         /\ \A way \in Ways : applyBandwidthLimits(p, alt)[RateKey(way)] = Rate(alt, way)
         /\ \A k \in PackKeys \ RateKeys : applyBandwidthLimits(p, alt)[k] = p[k]
<1> RateKeys \subseteq PackKeys
  BY KeysApart
<1> QED BY DEF applyBandwidthLimits, RateKeys, RateKey, Rate, Ways

LEMMA ListeningIs ==
  ASSUME NEW p, DOMAIN p = PackKeys
  PROVE  /\ DOMAIN ConfigureListening(p) = PackKeys
         /\ listenInterfaceChanged => ConfigureListening(p)["address"] = ListeningIP(listening, entries)
         /\ ~ listenInterfaceChanged => ConfigureListening(p) = p
<1> ListenKeys \subseteq PackKeys
  BY KeysApart
<1> QED BY DEF ConfigureListening, ListenKeys

LEMMA PlainIs ==
  ASSUME NEW p, DOMAIN p = PackKeys
  PROVE  /\ DOMAIN ConfigurePlain(p) = PackKeys
         /\ \A k \in Copied : ConfigurePlain(p)[k] = stored[k]
         /\ \A k \in PackKeys \ Copied : ConfigurePlain(p)[k] = p[k]
BY KeysApart DEF ConfigurePlain

\* What the queue is told, of a pack.
QueueIn(p, extra) ==
  IF queueing
  THEN /\ p["active_downloads"] = QueueLimit(stored["maxActiveDownloads"], extra)
       /\ p["active_limit"] = QueueLimit(stored["maxActiveTorrents"], extra)
       /\ \A s \in Queued : p[s] = stored[s]
  ELSE \A k \in {"active_downloads", "active_limit", "maxActiveUploads"} : p[k] = -1

LEMMA QueueIs ==
  ASSUME NEW p, DOMAIN p = PackKeys
  PROVE  /\ DOMAIN ConfigureQueue(p) = PackKeys
         /\ QueueIn(ConfigureQueue(p), extraLimit)
         /\ \A k \in PackKeys \ (Queued \cup LimitKeys) : ConfigureQueue(p)[k] = p[k]
<1>1. CASE queueing
  <2> DEFINE adjusted == adjustLimits(p, extraLimit)
             q == [s \in DOMAIN p |-> IF s \in Queued THEN stored[s] ELSE adjusted[s]]
  <2>1. ConfigureQueue(p) = q
    BY <1>1 DEF ConfigureQueue
  <2>2. Queued \subseteq PackKeys /\ LimitKeys \subseteq PackKeys \ Queued
    BY KeysApart
  <2>3. \A s \in Queued : q[s] = stored[s]
    BY <2>2
  <2>4. \A k \in PackKeys \ Queued : q[k] = adjusted[k]
    OBVIOUS
  <2>5. /\ q["active_downloads"] = QueueLimit(stored["maxActiveDownloads"], extraLimit)
        /\ q["active_limit"] = QueueLimit(stored["maxActiveTorrents"], extraLimit)
        /\ \A k \in PackKeys \ (Queued \cup LimitKeys) : q[k] = p[k]
    <3> HIDE DEF q
    <3> QED BY <2>2, <2>4, AdjustLimitsIs DEF LimitKeys
  <2>6. DOMAIN q = PackKeys
    OBVIOUS
  <2> HIDE DEF q
  <2> QED BY <1>1, <2>1, <2>3, <2>5, <2>6 DEF QueueIn
<1>2. CASE ~ queueing
  BY <1>2, KeysApart DEF ConfigureQueue, QueueIn, LimitKeys
<1> QED BY <1>1, <1>2

\* configure(settingsPack) writes all of it.
LEMMA ConfiguredIs ==
  ASSUME NEW p, DOMAIN p = PackKeys
  PROVE  /\ DOMAIN Configured(p) = PackKeys
         /\ QueueIn(Configured(p), extraLimit)
         /\ \A way \in Ways : Configured(p)[RateKey(way)] = Rate(altEnabled, way)
         /\ \A k \in Copied : Configured(p)[k] = stored[k]
         /\ Configured(p)["address"] =
              IF listenInterfaceChanged THEN ListeningIP(listening, entries) ELSE p["address"]
<1> DEFINE p1 == ConfigureListening(p)
           p2 == applyBandwidthLimits(p1, altEnabled)
           p3 == ConfigurePlain(p2)
           p4 == ConfigureQueue(p3)
<1>1. /\ DOMAIN p1 = PackKeys
      /\ p1["address"] = IF listenInterfaceChanged THEN ListeningIP(listening, entries) ELSE p["address"]
  BY ListeningIs
<1> HIDE DEF p1
<1>2. /\ DOMAIN p2 = PackKeys
      /\ \A way \in Ways : p2[RateKey(way)] = Rate(altEnabled, way)
      /\ \A k \in PackKeys \ RateKeys : p2[k] = p1[k]
  BY <1>1, BandwidthIs
<1> HIDE DEF p2
<1>3. /\ DOMAIN p3 = PackKeys
      /\ \A k \in Copied : p3[k] = stored[k]
      /\ \A k \in PackKeys \ Copied : p3[k] = p2[k]
  BY <1>2, PlainIs
<1> HIDE DEF p3
<1>4. /\ DOMAIN p4 = PackKeys
      /\ QueueIn(p4, extraLimit)
      /\ \A k \in PackKeys \ (Queued \cup LimitKeys) : p4[k] = p3[k]
  BY <1>3, QueueIs
<1> HIDE DEF p4
<1>5. \A way \in Ways : RateKey(way) \in RateKeys
  BY DEF RateKey, RateKeys, Ways
<1>6. /\ RateKeys \subseteq PackKeys \ (Copied \cup Queued \cup LimitKeys)
      /\ "address" \in PackKeys \ (RateKeys \cup Copied \cup Queued \cup LimitKeys)
      /\ Copied \subseteq PackKeys \ (Queued \cup LimitKeys)
  BY KeysApart DEF LimitKeys, RateKeys, ListenKeys
<1>7. Configured(p) = p4
  BY DEF Configured, p1, p2, p3, p4
<1> QED BY <1>1, <1>2, <1>3, <1>4, <1>5, <1>6, <1>7

-----------------------------------------------------------------------------
(***************************************************************************)
(* The inductive invariant, in two halves that no action changes both of.  *)
(***************************************************************************)
SettingsTyped ==
  /\ stored \in [Plain -> Int] /\ queueing \in BOOLEAN /\ altEnabled \in BOOLEAN
  /\ speed \in [Modes -> [Ways -> Nat]] /\ asked \in [Modes -> [Ways -> Nat]]
  /\ listening \in Listening /\ entries \in SUBSET {"ip4", "ip6"} /\ randomPort \in BOOLEAN
  /\ extraLimit \in - MaxExtra .. MaxExtra
  /\ listenInterfaceChanged \in BOOLEAN /\ scheduled \in BOOLEAN /\ posted \in 0 .. 1
  /\ DOMAIN pack = PackKeys

ShareTyped ==
  /\ globalRatio \in Int /\ globalMinutes \in Int /\ timer \in BOOLEAN
  /\ shareLimits \in [Torrents -> [ratio : Int, minutes : Int]]

\* The flag is up exactly while a configure() waits, and what it will do with the
\* interfaces waits with it.
FlagsAgree == (scheduled <=> posted = 1) /\ (listenInterfaceChanged => posted = 1)

\* The address that was told is the right one until a change is noted.
AddressFits == ~ listenInterfaceChanged => AddressTold

ToldInv == SettingsTyped /\ FlagsAgree /\ AddressFits /\ SettingsTold

ShareInv == ShareTyped /\ LimitsWatched

LEMMA TypeSplits == TypeOK <=> SettingsTyped /\ ShareTyped /\ calls \in 0 .. MaxCalls
BY DEF TypeOK, SettingsTyped, ShareTyped

LEMMA InitTold == Init => ToldInv
<1> SUFFICES ASSUME Init PROVE ToldInv
  OBVIOUS
<1>1. extraLimit = 0
  BY DEF Init
<1>2. posted = 0
  BY DEF Init
<1>3. AddressTold
  <2>1. listening.interface = "" /\ listening.address = ""
    BY DEF Init
  <2>2. pack["address"] = "wildcard"
    BY KeysApart DEF Init, ListenKeys
  <2> QED BY <2>1, <2>2 DEF AddressTold, ListeningIP
<1>4. queueing /\ ~ altEnabled /\ ~ listenInterfaceChanged /\ ~ scheduled
  BY DEF Init
<1>5. SettingsTyped
  <2>1. speed \in [Modes -> [Ways -> Nat]]
    BY DEF Init
  <2>2. extraLimit \in - MaxExtra .. MaxExtra
    BY BoundsAssumption, <1>1
  <2>3. stored \in [Plain -> Int]
    <3>1. stored = [s \in Plain |-> 1]
      BY DEF Init
    <3> QED BY <3>1
  <2>4. listening \in Listening /\ DOMAIN pack = PackKeys
    BY DEF Init, Listening, Ports, Interfaces, Addresses
  <2>5. posted \in 0 .. 1
    BY <1>2
  <2>6. asked = speed /\ entries \in SUBSET {"ip4", "ip6"}
    BY DEF Init
  <2>7. /\ queueing \in BOOLEAN /\ altEnabled \in BOOLEAN /\ randomPort \in BOOLEAN
        /\ listenInterfaceChanged \in BOOLEAN /\ scheduled \in BOOLEAN
    BY DEF Init
  <2> QED BY <2>1, <2>2, <2>3, <2>4, <2>5, <2>6, <2>7 DEF SettingsTyped
<1>6. FlagsAgree /\ AddressFits
  <2>1. FlagsAgree
    BY <1>4, <1>2 DEF FlagsAgree
  <2>2. AddressFits
    BY <1>3 DEF AddressFits, AddressTold
  <2> QED BY <2>1, <2>2
<1>7. QueueTold
  <2>1. stored["maxActiveDownloads"] = 1 /\ stored["maxActiveTorrents"] = 1 /\ \A s \in Queued : stored[s] = 1
    BY KeysApart DEF Init
  <2>2. pack["active_downloads"] = 1 /\ pack["active_limit"] = 1
    BY KeysApart DEF Init, LimitKeys
  <2>3. \A s \in Queued : pack[s] = 1
    BY KeysApart DEF Init, ListenKeys, RateKeys
  <2>4. QueueLimit(stored["maxActiveDownloads"], extraLimit) = 1
        /\ QueueLimit(stored["maxActiveTorrents"], extraLimit) = 1
    BY <1>1, <2>1 DEF QueueLimit
  <2> QED BY <1>4, <2>1, <2>2, <2>3, <2>4 DEF QueueTold
<1>8. RatesTold
  <2>1. pack["download_rate_limit"] = 0 /\ pack["upload_rate_limit"] = 0
    BY KeysApart DEF Init, RateKeys
  <2>2. \A way \in Ways : speed["global"][way] = 0
    BY DEF Init, Modes
  <2> QED BY <1>4, <2>1, <2>2 DEF RatesTold, KiB
<1>9. PlainTold
  BY KeysApart DEF Init, PlainTold, ListenKeys, RateKeys
<1> QED BY <1>3, <1>5, <1>6, <1>7, <1>8, <1>9 DEF ToldInv, SettingsTold

LEMMA InitShare == Init => ShareInv
<1> SUFFICES ASSUME Init PROVE ShareInv
  OBVIOUS
<1>1. globalRatio = -1 /\ globalMinutes = -1 /\ shareLimits = [t \in Torrents |-> NoTorrent]
  BY DEF Init
<1>2. NoTorrent \in [ratio : Int, minutes : Int] /\ NoTorrent.ratio = -3 /\ NoTorrent.minutes = -3
  BY DEF NoTorrent
<1>3. ShareTyped
  <2>1. timer \in BOOLEAN
    BY DEF Init
  <2> QED BY <1>1, <1>2, <2>1 DEF ShareTyped
<1>4. ~ Limited(globalRatio, globalMinutes, shareLimits)
  BY <1>1, <1>2 DEF Limited
<1> QED BY <1>3, <1>4 DEF ShareInv, LimitsWatched

-----------------------------------------------------------------------------
(***************************************************************************)
(* The settings.                                                           *)
(***************************************************************************)
\* Once configureDeferred() has run, a configure() waits.
LEMMA DeferredWaits ==
  ASSUME ToldInv, configureDeferred
  PROVE  scheduled' = TRUE /\ posted' = 1 /\ FlagsAgree' /\ SettingsTold'
BY DEF ToldInv, SettingsTyped, FlagsAgree, configureDeferred, SettingsTold

LEMMA KeptIsInt == \A s \in Plain, v \in Int : Kept(s, v) \in Int
BY DEF Kept, Larger, Smaller

LEMMA SetTold ==
  ASSUME ToldInv, NEW s \in Touched, NEW v \in Values, Set(s, v)
  PROVE  ToldInv'
<1>1. FlagsAgree' /\ SettingsTold' /\ scheduled' = TRUE /\ posted' = 1
  BY DeferredWaits DEF Set
<1>2. stored' \in [Plain -> Int]
  BY KeptIsInt, TouchedAssumption, ValuesAssumption DEF Set, ToldInv, SettingsTyped
<1>3. SettingsTyped'
  BY <1>1, <1>2 DEF Set, ToldInv, SettingsTyped
<1>4. AddressFits'
  BY DEF Set, ToldInv, AddressFits, AddressTold
<1> QED BY <1>1, <1>3, <1>4 DEF ToldInv

LEMMA QueueingTold ==
  ASSUME ToldInv, NEW enabled \in BOOLEAN, setQueueingSystemEnabled(enabled)
  PROVE  ToldInv'
<1>1. FlagsAgree' /\ SettingsTold' /\ scheduled' = TRUE /\ posted' = 1
  BY DeferredWaits DEF setQueueingSystemEnabled
<1>2. SettingsTyped'
  BY <1>1 DEF setQueueingSystemEnabled, ToldInv, SettingsTyped
<1>3. AddressFits'
  BY DEF setQueueingSystemEnabled, ToldInv, AddressFits, AddressTold
<1> QED BY <1>1, <1>2, <1>3 DEF ToldInv

LEMMA InKiBIsNat == \A limit \in Int : InKiB(limit) \in Nat
BY DEF InKiB, KiB

\* A limit that is not in use is not told, and need not be.
LEMMA SpeedTold ==
  ASSUME ToldInv, NEW mode \in Modes, NEW way \in Ways, NEW limit \in Limits,
         setSpeedLimit(mode, way, limit)
  PROVE  ToldInv'
<1> DEFINE k == InKiB(limit)
<1>1. k \in Nat
  BY InKiBIsNat, ValuesAssumption
<1> HIDE DEF k
<1>2. asked' = [asked EXCEPT ![mode][way] = k] /\ asked' \in [Modes -> [Ways -> Nat]]
  BY <1>1 DEF setSpeedLimit, ToldInv, SettingsTyped, k
<1>3. AddressFits'
  BY DEF setSpeedLimit, ToldInv, AddressFits, AddressTold
<1>4. CASE speed' = speed /\ scheduled' = scheduled /\ posted' = posted
  <2>1. SettingsTyped' /\ FlagsAgree'
    BY <1>2, <1>4 DEF setSpeedLimit, ToldInv, SettingsTyped, FlagsAgree
  <2>2. SettingsTold'
    BY <1>4 DEF setSpeedLimit, ToldInv, SettingsTold, QueueTold, RatesTold, PlainTold, AddressTold
  <2> QED BY <1>3, <2>1, <2>2 DEF ToldInv
<1>5. CASE /\ speed' = [speed EXCEPT ![mode][way] = k]
           /\ altEnabled = (mode = "alt") /\ configureDeferred
  <2>1. speed' \in [Modes -> [Ways -> Nat]]
    BY <1>1, <1>5 DEF ToldInv, SettingsTyped
  <2>2. FlagsAgree' /\ SettingsTold' /\ scheduled' = TRUE /\ posted' = 1
    BY <1>5, DeferredWaits
  <2>3. SettingsTyped'
    <3>1. UNCHANGED <<stored, queueing, altEnabled, listening, entries, randomPort, extraLimit,
                      listenInterfaceChanged, pack>>
      BY DEF setSpeedLimit
    <3>2. posted' \in 0 .. 1 /\ scheduled' \in BOOLEAN
      BY <2>2
    <3> HIDE <2>2
    <3> QED BY <1>2, <2>1, <3>1, <3>2 DEF ToldInv, SettingsTyped
  <2> QED BY <1>3, <2>2, <2>3 DEF ToldInv
<1>6. CASE /\ speed' = [speed EXCEPT ![mode][way] = k]
           /\ altEnabled # (mode = "alt") /\ scheduled' = scheduled /\ posted' = posted
  <2> DEFINE used == IF altEnabled THEN "alt" ELSE "global"
  <2>1. used # mode /\ used \in Modes
    BY <1>6 DEF ToldInv, SettingsTyped, Modes
  <2>2. speed' \in [Modes -> [Ways -> Nat]] /\ speed'[used] = speed[used]
    BY <1>1, <1>6, <2>1 DEF ToldInv, SettingsTyped
  <2>3. SettingsTyped' /\ FlagsAgree'
    BY <1>2, <1>6, <2>2 DEF setSpeedLimit, ToldInv, SettingsTyped, FlagsAgree
  <2>4. RatesTold => RatesTold'
    BY <2>2 DEF setSpeedLimit, RatesTold
  <2>5. SettingsTold'
    BY <1>6, <2>4 DEF setSpeedLimit, ToldInv, SettingsTold, QueueTold, PlainTold, AddressTold
  <2> QED BY <1>3, <2>3, <2>5 DEF ToldInv
<1> QED BY <1>4, <1>5, <1>6 DEF setSpeedLimit, k

\* Switching between the limits tells the rates at once.
LEMMA AltTold ==
  ASSUME ToldInv, NEW enabled \in BOOLEAN, setAltGlobalSpeedLimitEnabled(enabled)
  PROVE  ToldInv'
<1> USE DEF setAltGlobalSpeedLimitEnabled
<1>1. /\ DOMAIN pack' = PackKeys
      /\ \A way \in Ways : pack'[RateKey(way)] = Rate(enabled, way)
      /\ \A k \in PackKeys \ RateKeys : pack'[k] = pack[k]
  BY BandwidthIs DEF ToldInv, SettingsTyped
<1>2. /\ "address" \in PackKeys \ RateKeys /\ Plain \subseteq PackKeys \ RateKeys
      /\ LimitKeys \subseteq PackKeys \ RateKeys
  BY KeysApart DEF ListenKeys, RateKeys, LimitKeys
<1>3. SettingsTyped' /\ FlagsAgree'
  BY <1>1 DEF ToldInv, SettingsTyped, FlagsAgree
<1>4. AddressFits' /\ (AddressTold => AddressTold')
  BY <1>1, <1>2 DEF ToldInv, AddressFits, AddressTold
<1>5. RatesTold'
  BY <1>1 DEF RatesTold, RateKey, Rate
<1>6. (QueueTold => QueueTold') /\ (PlainTold => PlainTold')
  BY <1>1, <1>2, KeysApart DEF QueueTold, PlainTold, LimitKeys
<1> QED BY <1>3, <1>4, <1>5, <1>6 DEF ToldInv, SettingsTold

\* A change of the interfaces is noted together with the call it waits for.
LEMMA ListeningWaits ==
  ASSUME ToldInv, configureListeningInterface
  PROVE  FlagsAgree' /\ SettingsTold' /\ AddressFits' /\ scheduled' = TRUE /\ posted' = 1
<1>1. scheduled' = TRUE /\ posted' = 1 /\ FlagsAgree' /\ SettingsTold'
  BY DeferredWaits DEF configureListeningInterface
<1>2. AddressFits'
  BY DEF configureListeningInterface, AddressFits, AddressTold
<1> QED BY <1>1, <1>2

LEMMA SetPortTold ==
  ASSUME ToldInv, NEW port \in Ports, setPort(port)
  PROVE  ToldInv'
<1>1. FlagsAgree' /\ SettingsTold' /\ AddressFits' /\ scheduled' = TRUE /\ posted' = 1
  BY ListeningWaits DEF setPort
<1>2. listening' \in Listening
  BY DEF setPort, ToldInv, SettingsTyped, Listening
<1>3. SettingsTyped'
  BY <1>1, <1>2 DEF setPort, configureListeningInterface, ToldInv, SettingsTyped
<1> QED BY <1>1, <1>3 DEF ToldInv

LEMMA ListeningTold ==
  ASSUME ToldInv, NEW l \in Listening, ChangeListening(l)
  PROVE  ToldInv'
<1>1. FlagsAgree' /\ SettingsTold' /\ AddressFits' /\ scheduled' = TRUE /\ posted' = 1
  BY ListeningWaits DEF ChangeListening
<1>2. SettingsTyped'
  BY <1>1 DEF ChangeListening, configureListeningInterface, ToldInv, SettingsTyped
<1> QED BY <1>1, <1>2 DEF ToldInv

LEMMA NetworkTold ==
  ASSUME ToldInv, NEW have \in SUBSET {"ip4", "ip6"}, networkConfigurationChange(have)
  PROVE  ToldInv'
<1>1. CASE listening.interface # ""
  <2>1. FlagsAgree' /\ SettingsTold' /\ AddressFits' /\ scheduled' = TRUE /\ posted' = 1
    BY <1>1, ListeningWaits DEF networkConfigurationChange
  <2>2. SettingsTyped'
    <3>1. /\ listenInterfaceChanged' = TRUE /\ entries' = have
          /\ UNCHANGED <<stored, queueing, speed, altEnabled, listening, randomPort, extraLimit, asked, pack>>
      BY <1>1 DEF networkConfigurationChange, configureListeningInterface
    <3> QED BY <2>1, <3>1 DEF ToldInv, SettingsTyped
  <2> QED BY <2>1, <2>2 DEF ToldInv
<1>2. CASE listening.interface = ""
  <2>1. ListeningIP(listening, have) = ListeningIP(listening, entries)
    BY <1>2 DEF ListeningIP
  <2>2. /\ entries' = have
        /\ UNCHANGED <<stored, queueing, speed, altEnabled, listening, randomPort, extraLimit, asked, pack,
                       listenInterfaceChanged, scheduled, posted>>
    BY <1>2 DEF networkConfigurationChange
  <2>3. AddressTold => AddressTold'
    BY <2>1, <2>2 DEF AddressTold
  <2>4. SettingsTyped' /\ FlagsAgree' /\ AddressFits'
    BY <2>2, <2>3 DEF ToldInv, SettingsTyped, FlagsAgree, AddressFits
  <2>5. SettingsTold'
    BY <2>2, <2>3 DEF ToldInv, SettingsTold, QueueTold, RatesTold, PlainTold
  <2> QED BY <2>4, <2>5 DEF ToldInv
<1> QED BY <1>1, <1>2

LEMMA RandomPortTold ==
  ASSUME ToldInv, NEW value \in BOOLEAN, setUseRandomPort(value)
  PROVE  ToldInv'
<1>1. SettingsTyped' /\ FlagsAgree' /\ AddressFits'
  BY DEF setUseRandomPort, native, ToldInv, SettingsTyped, FlagsAgree, AddressFits, AddressTold
<1>2. SettingsTold'
  BY DEF setUseRandomPort, native, ToldInv, SettingsTold, QueueTold, RatesTold, PlainTold, AddressTold
<1> QED BY <1>1, <1>2 DEF ToldInv

\* Magnets that load move the limits of the queue, and only with a queue.
LEMMA ExtraTold ==
  ASSUME ToldInv, NEW extra \in - MaxExtra .. MaxExtra, ExtraLimitChanges(extra)
  PROVE  ToldInv'
<1> USE DEF ExtraLimitChanges
<1>1. CASE queueing
  <2>1. /\ DOMAIN pack' = PackKeys
        /\ pack'["active_downloads"] = QueueLimit(stored["maxActiveDownloads"], extra)
        /\ pack'["active_limit"] = QueueLimit(stored["maxActiveTorrents"], extra)
        /\ \A k \in PackKeys \ LimitKeys : pack'[k] = pack[k]
    BY <1>1, AdjustLimitsIs DEF ToldInv, SettingsTyped
  <2>2. /\ "address" \in PackKeys \ LimitKeys /\ Plain \subseteq PackKeys \ LimitKeys
        /\ RateKeys \subseteq PackKeys \ LimitKeys
    BY KeysApart DEF ListenKeys, RateKeys, LimitKeys
  <2>3. SettingsTyped' /\ FlagsAgree'
    BY <2>1 DEF ToldInv, SettingsTyped, FlagsAgree
  <2>4. AddressFits' /\ (AddressTold => AddressTold')
    BY <2>1, <2>2 DEF ToldInv, AddressFits, AddressTold
  <2>5. QueueTold => QueueTold'
    BY <1>1, <2>1, <2>2, KeysApart DEF QueueTold, QueueLimit
  <2>6. (RatesTold => RatesTold') /\ (PlainTold => PlainTold')
    BY <2>1, <2>2, KeysApart DEF RatesTold, PlainTold, RateKeys
  <2> QED BY <2>3, <2>4, <2>5, <2>6 DEF ToldInv, SettingsTold
<1>2. CASE ~ queueing
  <2>1. SettingsTyped' /\ FlagsAgree' /\ AddressFits'
    BY <1>2 DEF ToldInv, SettingsTyped, FlagsAgree, AddressFits, AddressTold
  <2>2. SettingsTold'
    BY <1>2 DEF ToldInv, SettingsTold, QueueTold, RatesTold, PlainTold, AddressTold
  <2> QED BY <2>1, <2>2 DEF ToldInv
<1> QED BY <1>1, <1>2

\* A session that is bound to an interface is told one of its addresses, or the local host.
LEMMA ListeningIPFits ==
  listening.interface # "" => ListeningIP(listening, entries) \in entries \cup {"localhost"}
BY DEF ListeningIP

LEMMA ConfigureTold ==
  ASSUME ToldInv, configure
  PROVE  ToldInv'
<1> USE DEF configure, settings
<1>1. /\ DOMAIN pack' = PackKeys
      /\ QueueIn(pack', extraLimit)
      /\ \A way \in Ways : pack'[RateKey(way)] = Rate(altEnabled, way)
      /\ \A k \in Copied : pack'[k] = stored[k]
      /\ pack'["address"] = IF listenInterfaceChanged THEN ListeningIP(listening, entries) ELSE pack["address"]
  BY ConfiguredIs DEF ToldInv, SettingsTyped
<1>2. posted = 1 /\ posted' = 0
  BY DEF ToldInv, SettingsTyped
<1>3. SettingsTyped' /\ FlagsAgree'
  <2>1. posted' \in 0 .. 1 /\ ~ (posted' = 1)
    BY <1>2
  <2>2. scheduled' \in BOOLEAN /\ ~ scheduled' /\ listenInterfaceChanged' \in BOOLEAN /\ ~ listenInterfaceChanged'
    OBVIOUS
  <2>3. SettingsTyped'
    BY <1>1, <2>1, <2>2 DEF ToldInv, SettingsTyped
  <2> QED BY <2>1, <2>2, <2>3 DEF FlagsAgree
<1>4. AddressFits'
  <2>1. pack'["address"] = ListeningIP(listening, entries)
    BY <1>1 DEF ToldInv, AddressFits, AddressTold
  <2> QED BY <2>1 DEF AddressFits, AddressTold
<1>5. QueueTold'
  BY <1>1 DEF QueueTold, QueueIn
<1>6. RatesTold' /\ PlainTold'
  BY <1>1 DEF RatesTold, PlainTold, RateKey, Rate
<1>7. AddressTold'
  BY <1>4 DEF AddressFits, AddressTold
<1> QED BY <1>3, <1>4, <1>5, <1>6, <1>7 DEF ToldInv, SettingsTold

\* What leaves the settings and libtorrent alone keeps what was told.
LEMMA ToldUnchanged == ToldInv /\ UNCHANGED <<settings, native>> => ToldInv'
<1> SUFFICES ASSUME ToldInv, UNCHANGED <<settings, native>> PROVE ToldInv'
  OBVIOUS
<1> USE DEF settings, native
<1>1. SettingsTyped'
  BY DEF ToldInv, SettingsTyped
<1>2. FlagsAgree' /\ AddressFits'
  BY DEF ToldInv, FlagsAgree, AddressFits, AddressTold
<1>3. SettingsTold'
  BY DEF ToldInv, SettingsTold, QueueTold, RatesTold, PlainTold, AddressTold
<1> QED BY <1>1, <1>2, <1>3 DEF ToldInv

LEMMA ShareUnchanged == ShareInv /\ UNCHANGED share => ShareInv'
BY DEF share, ShareInv, ShareTyped, LimitsWatched, Limited

LEMMA SettingsNextTold == ToldInv /\ SettingsNext => ToldInv'
<1> SUFFICES ASSUME ToldInv, SettingsNext PROVE ToldInv'
  OBVIOUS
<1>1. ASSUME NEW s \in Touched, NEW v \in Values, Set(s, v) PROVE ToldInv'
  BY <1>1, SetTold
<1>2. ASSUME NEW enabled \in BOOLEAN, setQueueingSystemEnabled(enabled) PROVE ToldInv'
  BY <1>2, QueueingTold
<1>3. ASSUME NEW enabled \in BOOLEAN, setAltGlobalSpeedLimitEnabled(enabled) PROVE ToldInv'
  BY <1>3, AltTold
<1>4. ASSUME NEW enabled \in BOOLEAN, setUseRandomPort(enabled) PROVE ToldInv'
  BY <1>4, RandomPortTold
<1>5. ASSUME NEW enabled \in BOOLEAN, setIPv6Enabled(enabled) PROVE ToldInv'
  <2>1. [listening EXCEPT !.ipv6 = enabled] \in Listening
    BY DEF ToldInv, SettingsTyped, Listening
  <2> QED BY <1>5, <2>1, ListeningTold DEF setIPv6Enabled
<1>6. ASSUME NEW way \in Ways, NEW limit \in Limits, setCurrentSpeedLimit(way, limit) PROVE ToldInv'
  BY <1>6, SpeedTold DEF setCurrentSpeedLimit, Modes
<1>7. ASSUME NEW way \in Ways, NEW limit \in Limits, NEW mode \in Modes, setSpeedLimit(mode, way, limit)
      PROVE  ToldInv'
  BY <1>7, SpeedTold
<1>8. ASSUME NEW port \in Ports, setPort(port) PROVE ToldInv'
  BY <1>8, SetPortTold
<1>9. ASSUME NEW iface \in Interfaces, setNetworkInterface(iface) PROVE ToldInv'
  <2>1. [listening EXCEPT !.interface = iface] \in Listening
    BY DEF ToldInv, SettingsTyped, Listening
  <2> QED BY <1>9, <2>1, ListeningTold DEF setNetworkInterface
<1>10. ASSUME NEW address \in Addresses, setNetworkInterfaceAddress(address) PROVE ToldInv'
  <2>1. [listening EXCEPT !.address = address] \in Listening
    BY DEF ToldInv, SettingsTyped, Listening
  <2> QED BY <1>10, <2>1, ListeningTold DEF setNetworkInterfaceAddress
<1>11. ASSUME NEW have \in SUBSET {"ip4", "ip6"}, networkConfigurationChange(have) PROVE ToldInv'
  BY <1>11, NetworkTold
<1>12. ASSUME NEW extra \in - MaxExtra .. MaxExtra, ExtraLimitChanges(extra) PROVE ToldInv'
  BY <1>12, ExtraTold
<1>13. ASSUME configure PROVE ToldInv'
  BY <1>13, ConfigureTold
<1> QED BY <1>1, <1>2, <1>3, <1>4, <1>5, <1>6, <1>7, <1>8, <1>9, <1>10, <1>11, <1>12, <1>13 DEF SettingsNext

LEMMA SettingsNextFrame == SettingsNext => UNCHANGED share /\ (calls' = calls \/ Called)
BY DEF SettingsNext, Set, setQueueingSystemEnabled, setAltGlobalSpeedLimitEnabled, setUseRandomPort,
       setIPv6Enabled, setCurrentSpeedLimit, setSpeedLimit, setPort, setNetworkInterface,
       setNetworkInterfaceAddress, ChangeListening, networkConfigurationChange, ExtraLimitChanges, configure

-----------------------------------------------------------------------------
(***************************************************************************)
(* The share limits.                                                       *)
(***************************************************************************)
ShareLimit == [ratio : Int, minutes : Int]

LEMMA GlobalRatioWatched ==
  ASSUME ShareInv, NEW v \in Values, setGlobalMaxRatio(v)
  PROVE  ShareInv'
<1>1. globalRatio' \in Int
  BY ValuesAssumption DEF setGlobalMaxRatio, SessionLimit
<1> QED BY <1>1 DEF setGlobalMaxRatio, updateSeedingLimitTimer, ShareInv, ShareTyped, LimitsWatched, Limited

LEMMA GlobalMinutesWatched ==
  ASSUME ShareInv, NEW v \in Values, setGlobalMaxSeedingMinutes(v)
  PROVE  ShareInv'
<1>1. globalMinutes' \in Int
  BY ValuesAssumption DEF setGlobalMaxSeedingMinutes, SessionLimit
<1> QED BY <1>1 DEF setGlobalMaxSeedingMinutes, updateSeedingLimitTimer, ShareInv, ShareTyped, LimitsWatched,
                    Limited

LEMMA ComesWatched ==
  ASSUME ShareInv, NEW t \in Torrents, NEW limits \in ShareLimit, TorrentComes(t, limits)
  PROVE  ShareInv'
<1>1. /\ shareLimits' \in [Torrents -> ShareLimit] /\ shareLimits'[t] = limits
      /\ \A u \in Torrents \ {t} : shareLimits'[u] = shareLimits[u]
  BY DEF TorrentComes, ShareInv, ShareTyped, ShareLimit
<1>2. timer' \in BOOLEAN /\ (timer \/ limits.ratio >= 0 \/ limits.minutes >= 0 => timer')
  BY DEF TorrentComes
<1>3. globalRatio' = globalRatio /\ globalMinutes' = globalMinutes
  BY DEF TorrentComes
<1>4. ShareTyped'
  BY <1>1, <1>2, <1>3 DEF ShareInv, ShareTyped, ShareLimit
<1>5. Limited(globalRatio, globalMinutes, shareLimits)'
        => Limited(globalRatio, globalMinutes, shareLimits) \/ limits.ratio >= 0 \/ limits.minutes >= 0
  BY <1>1, <1>3 DEF Limited
<1> QED BY <1>2, <1>4, <1>5 DEF ShareInv, LimitsWatched

\* A torrent that goes takes its limits with it: nothing is limited that was not.
LEMMA GoesWatched ==
  ASSUME ShareInv, NEW t \in Torrents, TorrentGoes(t)
  PROVE  ShareInv'
<1>1. NoTorrent \in ShareLimit /\ ~ (NoTorrent.ratio >= 0) /\ ~ (NoTorrent.minutes >= 0)
  BY DEF NoTorrent, ShareLimit
<1>2. /\ shareLimits' \in [Torrents -> ShareLimit] /\ shareLimits'[t] = NoTorrent
      /\ \A u \in Torrents \ {t} : shareLimits'[u] = shareLimits[u]
  BY <1>1 DEF TorrentGoes, ShareInv, ShareTyped, ShareLimit
<1>3. globalRatio' = globalRatio /\ globalMinutes' = globalMinutes /\ timer' = timer
  BY DEF TorrentGoes
<1>4. ShareTyped'
  BY <1>2, <1>3 DEF ShareInv, ShareTyped, ShareLimit
<1>5. Limited(globalRatio, globalMinutes, shareLimits)' => Limited(globalRatio, globalMinutes, shareLimits)
  BY <1>1, <1>2, <1>3 DEF Limited
<1> QED BY <1>3, <1>4, <1>5 DEF ShareInv, LimitsWatched

LEMMA TorrentLimitWatched ==
  ASSUME ShareInv, NEW t \in Torrents, NEW v \in Values, NEW which \in {"ratio", "minutes"},
         setTorrentLimit(t, which, v)
  PROVE  ShareInv'
<1> DEFINE kept == TorrentLimit(v, IF which = "ratio" THEN 9999 ELSE 525600)
<1>1. kept \in Int
  BY ValuesAssumption DEF TorrentLimit, Smaller
<1> HIDE DEF kept
<1>2. shareLimits' = [shareLimits EXCEPT ![t][which] = kept]
  BY DEF setTorrentLimit, kept
<1>3. shareLimits' \in [Torrents -> [ratio : Int, minutes : Int]]
  <2>1. CASE which = "ratio"
    BY <1>1, <1>2, <2>1 DEF ShareInv, ShareTyped
  <2>2. CASE which = "minutes"
    BY <1>1, <1>2, <2>2 DEF ShareInv, ShareTyped
  <2> QED BY <2>1, <2>2
<1>4. globalRatio' = globalRatio /\ globalMinutes' = globalMinutes
  BY DEF setTorrentLimit
<1>5. timer' = Limited(globalRatio, globalMinutes, shareLimits)'
  BY <1>4 DEF setTorrentLimit, updateSeedingLimitTimer, Limited
<1>6. timer' \in BOOLEAN
  BY <1>5 DEF Limited
<1> QED BY <1>3, <1>4, <1>5, <1>6 DEF ShareInv, ShareTyped, LimitsWatched

LEMMA ShareNextWatched == ShareInv /\ ShareNext => ShareInv'
<1> SUFFICES ASSUME ShareInv, ShareNext PROVE ShareInv'
  OBVIOUS
<1>1. ASSUME NEW v \in Values, setGlobalMaxRatio(v) \/ setGlobalMaxSeedingMinutes(v) PROVE ShareInv'
  BY <1>1, GlobalRatioWatched, GlobalMinutesWatched
<1>2. ASSUME NEW t \in Torrents, NEW v \in {-2, -1}, TorrentComes(t, [ratio |-> v, minutes |-> v])
      PROVE  ShareInv'
  <2>1. [ratio |-> v, minutes |-> v] \in ShareLimit
    BY DEF ShareLimit
  <2> QED BY <1>2, <2>1, ComesWatched
<1>3. ASSUME NEW t \in Torrents, TorrentGoes(t) PROVE ShareInv'
  BY <1>3, GoesWatched
<1>4. ASSUME NEW t \in Torrents, NEW v \in Values, NEW which \in {"ratio", "minutes"}, setTorrentLimit(t, which, v)
      PROVE  ShareInv'
  BY <1>4, TorrentLimitWatched
<1> QED BY <1>1, <1>2, <1>3, <1>4 DEF ShareNext

LEMMA ShareNextFrame == ShareNext => UNCHANGED <<settings, native>> /\ (calls' = calls \/ Called)
BY DEF ShareNext, setGlobalMaxRatio, setGlobalMaxSeedingMinutes, TorrentComes, TorrentGoes, setTorrentLimit

-----------------------------------------------------------------------------
(***************************************************************************)
(* The theorems.                                                           *)
(***************************************************************************)
Inv == ToldInv /\ ShareInv /\ calls \in 0 .. MaxCalls

LEMMA InitInv == Init => Inv
<1>1. Init => calls \in 0 .. MaxCalls
  <2>1. Init => calls = 0
    BY DEF Init
  <2> QED BY <2>1, BoundsAssumption
<1> QED BY <1>1, InitTold, InitShare DEF Inv

LEMMA NextInv == Inv /\ [Next]_vars => Inv'
<1> SUFFICES ASSUME Inv, [Next]_vars PROVE Inv'
  OBVIOUS
<1>1. calls' = calls \/ Called => calls' \in 0 .. MaxCalls
  BY BoundsAssumption DEF Inv, Called
<1>2. CASE SettingsNext
  BY <1>1, <1>2, SettingsNextTold, SettingsNextFrame, ShareUnchanged DEF Inv
<1>3. CASE ShareNext
  BY <1>1, <1>3, ShareNextWatched, ShareNextFrame, ToldUnchanged DEF Inv
<1>4. CASE UNCHANGED vars
  BY <1>1, <1>4, ToldUnchanged, ShareUnchanged DEF Inv, vars
<1> QED BY <1>2, <1>3, <1>4 DEF Next

LEMMA AlwaysInv == Spec => []Inv
BY InitInv, NextInv, PTL DEF Spec

\* Every variable keeps to its values, and never do two calls of configure() wait.
THEOREM TypeCorrect == Spec => []TypeOK
<1>1. Inv => TypeOK
  BY TypeSplits DEF Inv, ToldInv, ShareInv
<1> QED BY <1>1, AlwaysInv, PTL

\* Whenever no configure() waits, libtorrent has been told the queue, the rates, the
\* plain settings and the address as they are; the theorem does not speak of the port.
THEOREM AlwaysTold == Spec => []SettingsTold
<1>1. Inv => SettingsTold
  BY DEF Inv, ToldInv
<1> QED BY <1>1, AlwaysInv, PTL

\* A session that is bound to an interface is never left listening elsewhere.
THEOREM NeverListensElsewhere == Spec => []NeverExposed
<1>1. Inv => NeverExposed
  <2>1. Inv /\ posted = 0 => ~ (posted = 1)
    OBVIOUS
  <2>2. Inv /\ posted = 0 => ~ listenInterfaceChanged
    BY <2>1 DEF Inv, ToldInv, FlagsAgree
  <2> QED BY <2>2, ListeningIPFits DEF Inv, ToldInv, AddressFits, AddressTold, NeverExposed
<1> QED BY <1>1, AlwaysInv, PTL

\* As long as there is a share limit, its timer runs.
THEOREM AlwaysWatched == Spec => []LimitsWatched
<1>1. Inv => LimitsWatched
  BY DEF Inv, ShareInv
<1> QED BY <1>1, AlwaysInv, PTL
=============================================================================
