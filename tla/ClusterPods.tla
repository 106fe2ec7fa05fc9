---------------------------- MODULE ClusterPods ----------------------------
(***************************************************************************)
(* From the spec of a Hazelcast cluster to its pods: the validation, the   *)
(* configuration in the Secret, the StatefulSet with its volume claims,    *)
(* volumes, mounts and ports, and the services of the WAN endpoints.  How  *)
(* the reconciliation is triggered and how its calls fail is in module     *)
(* Hazelcast; here the spec is edited while it runs.                       *)
(***************************************************************************)
EXTENDS Integers, Sequences, Functions

CONSTANTS
    Networks,      \* the lists of WAN endpoints a user may give: each with its
                   \* name, first port and number of ports, which the API
                   \* server accepts by themselves
    MaxEdits,      \* how often the user edits the spec
    MaxFaults      \* how often the old configuration cannot be read

Endpoints == [name: STRING, port: Nat \ {0}, ports: Nat \ {0}]

ASSUME NetworksAssumption == Networks \subseteq Seq(Endpoints) /\ <<>> \in Networks

VARIABLES
    spec,          \* the spec at the API server
    last,          \* the annotation with the last successful spec
    size,          \* the cluster size in the status
    services,      \* the WAN services: the ports of each name
    secret,        \* the configuration in the Secret
    sts,           \* the StatefulSet
    pods,          \* the members: the template and configuration they run with
    rec,           \* the worker: its step, its copy of the object and the
                   \* version it was read as
    early,         \* whether the spec was edited before it was ever applied
    edits, faults  \* how many of each happened so far

count == <<edits, faults>>
vars  == <<spec, last, size, services, secret, sts, pods, rec, early, count>>

----------------------------------------------------------------------------
(* The spec.                                                               *)

Devices    == {"device1", "device2"}
ConfigMaps == {"jars"}
\* Lists, as the order is the one of the claims.
LocalDevices == {<<>>, <<"device1">>, <<"device2">>, <<"device1", "device2">>}

\* pers: persistence, "bad" without access modes; prefix: the name of the
\* volume that a local backup is restored from; cp: the CP subsystem with its
\* own volume or in the one of persistence; native: the allocator; name stands
\* for what forces a restart besides properties and CP (cluster name, Jet,
\* user code deployment, TLS); jars, jet, sequence: the ConfigMaps with user
\* code and jobs, and the trigger of the former; jarsUrl, jetUrl: whether they
\* also come from a bucket or URL; ucn: user code namespaces; props: the
\* properties by where they come from.
Fields == [ pers     |-> {"no", "bad", "yes"},
            prefix   |-> {"persistence", "hot-restart-persistence"},
            cp       |-> {"no", "own", "shared"},
            devices  |-> LocalDevices,
            native   |-> {"no", "standard", "pooled"},
            wan      |-> Networks,
            size     |-> {0, 3, 4, 5},
            name     |-> {"dev", "prod"},
            jars     |-> SUBSET ConfigMaps,
            jet      |-> SUBSET ConfigMaps,
            sequence |-> {0, 1},
            jarsUrl  |-> BOOLEAN,
            jetUrl   |-> BOOLEAN,
            ucn      |-> BOOLEAN,
            catalog  |-> BOOLEAN,
            lossless |-> BOOLEAN,
            props    |-> SUBSET {"user", "default", "tiered"} ]

Default == [pers |-> "no", prefix |-> "persistence", cp |-> "no",
            devices |-> <<>>, native |-> "no", wan |-> <<>>, size |-> 3,
            name |-> "dev", jars |-> {}, jet |-> {}, sequence |-> 0,
            jarsUrl |-> FALSE, jetUrl |-> FALSE, ucn |-> FALSE, catalog |-> FALSE, lossless |-> FALSE, props |-> {}]

NoSpec == [Default EXCEPT !.pers = "bad"]

Persistent(s) == s.pers # "no"
Tiered(s)     == s.devices # <<>>

----------------------------------------------------------------------------
(* ValidateHazelcastSpec.                                                  *)

ClientPort == 5701
MemberPort == 5702
RestPort   == 8081
WanPort    == 5710

PortsOf(w) == w.port .. w.port + w.ports - 1

\* The order of sort.Slice by the first port, which is stable for a short list.
Before(wan, i, j) == \/ wan[i].port < wan[j].port
                     \/ wan[i].port = wan[j].port /\ i < j

Neighbours(wan, i, j) ==
    /\ Before(wan, i, j)
    /\ \A k \in DOMAIN wan : ~(Before(wan, i, k) /\ Before(wan, k, j))

\* isOverlapWithEachOther: it compares the neighbours in that order.
OverlapWithEachOther(wan) ==
    \E i, j \in DOMAIN wan :
        Neighbours(wan, i, j) /\ wan[i].port + wan[i].ports > wan[j].port

OverlapWithOtherSockets(wan) ==
    \E i \in DOMAIN wan, p \in {MemberPort, ClientPort, RestPort} :
        p >= wan[i].port /\ p < wan[i].port + wan[i].ports

\* Fault: the ranges are compared one port short.
OverlapShort(wan) ==
    \/ \E i, j \in DOMAIN wan :
           Neighbours(wan, i, j) /\ wan[i].port + wan[i].ports - 1 > wan[j].port
    \/ OverlapWithOtherSockets(wan)

WanPortsOverlap(wan) == OverlapWithEachOther(wan) \/ OverlapWithOtherSockets(wan)

ValidPersistence(s) == s.pers # "bad"

ValidCPSubsystem(s) ==
    s.cp = "no" \/ /\ s.size \in {0, 3, 5, 7}
                   /\ s.cp = "own" \/ s.pers = "yes"

ValidJetConfig(s)     == s.lossless => Persistent(s)
ValidNativeMemory(s)  == s.native # "no" /\ Persistent(s) => s.native = "pooled"
ValidSQL(s)           == s.catalog => Persistent(s)
ValidTieredStorage(s) == Tiered(s) => s.native # "no"

ValidSpecCurrent(s) ==
    /\ ValidPersistence(s) /\ ~WanPortsOverlap(s.wan) /\ ValidJetConfig(s)
    /\ ValidNativeMemory(s) /\ ValidSQL(s) /\ ValidTieredStorage(s)
    /\ ValidCPSubsystem(s)

\* validateNotUpdatableHazelcastFields
NotUpdated(s, l) ==
    /\ s.pers = l.pers
    /\ Persistent(s) => s.prefix = l.prefix
    /\ s.cp = l.cp
    /\ l.catalog => s.catalog

IsScaledNotPaused(s, l) == s.size # 0 /\ l.size # 0 /\ s.size # l.size

\* Fault: persistence may be switched on and off.
ValidSpecUpdateAnyPersistence(s, l, reported) ==
    l # NoSpec =>
        /\ s.cp = l.cp /\ (l.catalog => s.catalog)
        /\ s.cp # "no" /\ IsScaledNotPaused(s, l) => s.size = reported

ValidSpecUpdate(s, l, reported) ==
    l # NoSpec =>
        /\ NotUpdated(s, l)
        /\ s.cp # "no" /\ IsScaledNotPaused(s, l) => s.size = reported

ValidateHazelcastSpec(s, l, reported) ==
    ValidSpecCurrent(s) /\ ValidSpecUpdate(s, l, reported)

----------------------------------------------------------------------------
(* The configuration.  A path is the sequence of its parts.                *)

PersistenceMountPath  == <<"data", "persistence">>
BaseDir               == PersistenceMountPath \o <<"base-dir">>
CPBaseDir             == <<"data", "cp-data">>
TieredStorageBaseDir  == <<"data", "tiered-storage">>
HazelcastMountPath    == <<"data", "hazelcast">>
UserCodePath          == <<"opt", "hazelcast", "userCode">>
JetJobJarsPath        == <<"opt", "hazelcast", "jetJobJars">>
UCNBucketPath         == <<"opt", "hazelcast", "ucn", "bucket">>
InitConfigDir         == <<"opt", "data", "config">>
MTLSCertPath          == <<"var", "run", "secrets", "hazelcast">>
TmpDir                == <<"tmp">>
Nowhere               == <<>>

\* mergeProperties, and the property that starts the tiered store.
MergeProperties(s) ==
    s.props \cup {"default"} \cup (IF Tiered(s) THEN {"tiered"} ELSE {})

\* Fault: the volume of persistence is assumed also without it.
CPDirShared(s) == IF s.cp = "no" THEN Nowhere
                  ELSE PersistenceMountPath \o <<"cp-data">>

CPDir(s) == CASE s.cp = "no"                         -> Nowhere
              [] s.cp = "shared" /\ Persistent(s)    -> PersistenceMountPath \o <<"cp-data">>
              [] s.cp = "own" \/ (s.cp = "shared" /\ ~Persistent(s)) -> CPBaseDir

\* hazelcastBasicConfig, as far as it is about directories and restarts.
HazelcastBasicConfig(s) ==
    [ name    |-> s.name,
      props   |-> {},
      cp      |-> IF s.cp = "no" THEN 0 ELSE s.size,
      cpDir   |-> CPDir(s),
      baseDir |-> IF Persistent(s) THEN BaseDir ELSE Nowhere,
      devices |-> {Append(TieredStorageBaseDir, d) : d \in Range(s.devices)},
      wan     |-> IF s.wan = <<>> THEN {WanPort}
                  ELSE UNION {PortsOf(s.wan[i]) : i \in DOMAIN s.wan} ]

NoConfig == [HazelcastBasicConfig(Default) EXCEPT !.wan = {}]

\* Fault: the directory of an old cluster is not kept.
BaseDirNew(s, old) == IF Persistent(s) THEN BaseDir ELSE Nowhere

\* A cluster that an old operator created keeps its directory.
BaseDirOf(s, old) ==
    CASE Persistent(s) /\ old # NoConfig /\ old.baseDir # BaseDir -> PersistenceMountPath
      [] Persistent(s) /\ (old = NoConfig \/ old.baseDir = BaseDir) -> BaseDir
      [] ~Persistent(s)                                           -> Nowhere

HazelcastConfig(s, old) ==
    [HazelcastBasicConfig(s) EXCEPT !.baseDir = BaseDirOf(s, old),
                                    !.props = MergeProperties(s)]

\* configForcingRestart, from which the annotation of the pods is computed:
\* it has the properties of the basic configuration, which are none.
ConfigForcingRestart(c) == [name |-> c.name, props |-> c.props, cp |-> c.cp, cpDir |-> c.cpDir]

\* Fault: the name of the cluster is not part of it.
ChecksumNameless(s) == [ConfigForcingRestart(HazelcastBasicConfig(s)) EXCEPT !.name = "dev"]

Checksum(s) == ConfigForcingRestart(HazelcastBasicConfig(s))

----------------------------------------------------------------------------
(* The StatefulSet.                                                        *)

\* persistentVolumeClaims and localDevicePersistentVolumeClaim, in order.
Claims(s) ==
    (IF Persistent(s) THEN <<s.prefix>> ELSE <<>>)
    \o (IF s.cp = "own" THEN <<"cp-subsystem-persistence">> ELSE <<>>)
    \o s.devices

UserCodeVolume(s, cm) == <<"user-code-cm", cm, s.sequence>>
JetVolume(cm)         == <<"jet-cm", cm, 0>>
Plain(name)           == <<name, "", 0>>

ConfigMapVolumes(s) ==
    {UserCodeVolume(s, cm) : cm \in s.jars} \cup {JetVolume(cm) : cm \in s.jet}

Volumes(s) ==
    {Plain(v) : v \in {"hazelcast-storage", "agent-config-volume", "user-code-bucket",
                       "user-code-url", "jet-job-jars-bucket", "tmp-vol",
                       "hazelcast-agent-cert"}}
    \cup (IF s.ucn THEN {Plain("user-code-namespace")} ELSE {})
    \cup ConfigMapVolumes(s)

Mount(name, path) == <<Plain(name), path>>

WithPersistence(s, pvc) ==
    IF Persistent(s) THEN {Mount(pvc, PersistenceMountPath)} ELSE {}
WithNamespaces(s) ==
    IF s.ucn THEN {Mount("user-code-namespace", UCNBucketPath)} ELSE {}

HzContainerVolumeMounts(s, pvc) ==
    {Mount("hazelcast-storage", HazelcastMountPath),
     Mount("user-code-bucket", Append(UserCodePath, "bucket")),
     Mount("user-code-url", Append(UserCodePath, "urls")),
     Mount("jet-job-jars-bucket", JetJobJarsPath),
     Mount("tmp-vol", TmpDir)}
    \cup WithPersistence(s, pvc) \cup WithNamespaces(s)
    \cup (IF s.cp = "own" THEN {Mount("cp-subsystem-persistence", CPBaseDir)} ELSE {})
    \cup {Mount(d, Append(TieredStorageBaseDir, d)) : d \in Range(s.devices)}
    \cup {<<UserCodeVolume(s, cm), UserCodePath \o <<"cm", cm>>>> : cm \in s.jars}
    \cup {<<JetVolume(cm), Append(JetJobJarsPath, cm)>> : cm \in s.jet}

SidecarVolumeMounts(s, pvc) ==
    {Mount("hazelcast-agent-cert", MTLSCertPath),
     Mount("jet-job-jars-bucket", JetJobJarsPath),
     Mount("user-code-bucket", Append(UserCodePath, "bucket"))}
    \cup WithNamespaces(s) \cup WithPersistence(s, pvc)

InitContainer(s, pvc) ==
    {Mount("agent-config-volume", InitConfigDir)}
    \cup (IF s.jarsUrl THEN {Mount("user-code-bucket", Append(UserCodePath, "bucket"))} ELSE {})
    \cup (IF s.jetUrl THEN {Mount("jet-job-jars-bucket", JetJobJarsPath)} ELSE {})
    \cup WithNamespaces(s) \cup WithPersistence(s, pvc)

\* A port of the container: at is the place of its endpoint in the list, k numbers
\* the ports of an endpoint, from 1 on, and is 0 in a name without prefix and number.
Port(at, name, k, port) == [at |-> at, name |-> <<name, k>>, port |-> port]

WanDefaultPort == {Port(0, "wan-port", 0, WanPort)}

\* Fault: the ports of an endpoint have its name without their number.
WanRepPortsUnnumbered(s) ==
    IF s.wan = <<>> THEN WanDefaultPort
    ELSE UNION {{Port(i, s.wan[i].name, 1, p) : p \in PortsOf(s.wan[i])} : i \in DOMAIN s.wan}

\* hazelcastContainerWanRepPorts
WanRepPorts(s) ==
    IF s.wan = <<>> THEN WanDefaultPort
    ELSE UNION {{Port(i, s.wan[i].name, p - s.wan[i].port + 1, p) : p \in PortsOf(s.wan[i])}
                   : i \in DOMAIN s.wan}

\* hazelcastContainerPorts
ContainerPorts(s) ==
    {Port(0, "hazelcast", 0, ClientPort), Port(0, "member-port", 0, MemberPort),
     Port(0, "rest-port", 0, RestPort)} \cup WanRepPorts(s)

\* What makes the pods start anew when it changes.
Template(s, pvc) ==
    [ volumes  |-> Volumes(s),
      hz       |-> HzContainerVolumeMounts(s, pvc),
      sidecar  |-> SidecarVolumeMounts(s, pvc),
      init     |-> InitContainer(s, pvc),
      ports    |-> ContainerPorts(s),
      checksum |-> Checksum(s) ]

\* The volume of persistence is the first claim that there is.
PvcName(s, claims) == IF claims = <<>> THEN s.prefix ELSE claims[1]

StatefulSet(s, claims) ==
    [claims |-> claims, replicas |-> s.size, template |-> Template(s, PvcName(s, claims))]

NoSts == [claims |-> <<>>, replicas |-> 0, template |-> Template(NoSpec, "none")]

Pods(t, c) == [template |-> t, config |-> c]
NoPods     == Pods(NoSts.template, NoConfig)

\* The API server refuses two ports of a container with one name.
Refused(t) == \E p, q \in t.ports : p # q /\ p.name = q.name

----------------------------------------------------------------------------
(* The reconciliation.                                                     *)

Idle == [pc |-> "idle", h |-> NoSpec, base |-> NoSpec]

To(pc) == [rec EXCEPT !.pc = pc]

NoServices == [n \in {"a", "b"} |-> {}]

Starts == {[Default EXCEPT !.pers = p, !.cp = c, !.native = "pooled"] :
              p \in {"no", "yes"}, c \in {"no", "own", "shared"}}
          \cup {[Default EXCEPT !.devices = <<"device1">>, !.native = "standard"]}

\* The cluster is new, or an old operator created it.
Init ==
    /\ spec \in {s \in Starts : ValidSpecCurrent(s)}
    /\ \/ last = NoSpec /\ size = 0 /\ secret = NoConfig /\ sts = NoSts /\ pods = NoPods
       \/ /\ Persistent(spec)
          /\ last = spec /\ size = spec.size
          /\ secret = [HazelcastConfig(spec, NoConfig) EXCEPT !.baseDir = PersistenceMountPath]
          /\ sts = StatefulSet(spec, Claims(spec))
          /\ pods = Pods(sts.template, secret)
    /\ services = NoServices
    /\ rec = Idle /\ early = FALSE
    /\ edits = 0 /\ faults = 0

\* The user changes one field, of the properties only their own.
Edited(f) == IF f = "props" THEN {spec.props \cup {"user"}, spec.props \ {"user"}}
             ELSE Fields[f]

Edit(f) ==
    /\ edits < MaxEdits /\ edits' = edits + 1
    /\ \E v \in Edited(f) : v # spec[f] /\ spec' = [spec EXCEPT ![f] = v]
    /\ early' = (early \/ last = NoSpec)
    /\ UNCHANGED <<last, size, services, secret, sts, pods, rec, faults>>

Reconcile ==
    /\ rec.pc = "idle"
    /\ ValidateHazelcastSpec(spec, last, size)
    /\ rec' = [pc |-> "services", h |-> spec, base |-> spec]
    /\ UNCHANGED <<spec, last, size, services, secret, sts, pods, early, count>>

\* reconcileWANServices: one service per endpoint, in their order; a service
\* needs a name.
ReconcileWANServices ==
    /\ rec.pc = "services"
    /\ LET wan == rec.h.wan
           named == CHOOSE k \in 0 .. Len(wan) :
                       /\ \A i \in 1 .. k : wan[i].name # ""
                       /\ k = Len(wan) \/ wan[k + 1].name = ""
           latest(n) == CHOOSE i \in 1 .. named :
                           /\ wan[i].name = n
                           /\ \A j \in i + 1 .. named : wan[j].name # n
       IN /\ services' = [n \in DOMAIN services |->
                            IF \E i \in 1 .. named : wan[i].name = n
                            THEN PortsOf(wan[latest(n)]) ELSE services[n]]
          /\ rec' = IF named = Len(wan) THEN To("secret") ELSE Idle
    /\ UNCHANGED <<spec, last, size, secret, sts, pods, early, count>>

\* reconcileSecret: the properties are merged into the worker's copy.  That
\* the old configuration cannot be read is only logged; such a fault counts if
\* it makes a difference.
ReconcileSecret ==
    /\ rec.pc = "secret"
    /\ \/ secret' = HazelcastConfig(rec.h, secret) /\ UNCHANGED faults
       \/ /\ faults < MaxFaults /\ faults' = faults + 1
          /\ secret' = HazelcastConfig(rec.h, NoConfig)
          /\ secret' # HazelcastConfig(rec.h, secret)
    /\ rec' = [To("sts") EXCEPT !.h.props = MergeProperties(rec.h)]
    /\ UNCHANGED <<spec, last, size, services, sts, pods, early, edits>>

\* reconcileStatefulset with CreateOrUpdateForce: the claims are those of the
\* StatefulSet that there is, and one that the API server refuses is deleted
\* in order to be created again.
ReconcileStatefulset ==
    /\ rec.pc = "sts"
    /\ LET new == StatefulSet(rec.h, IF sts = NoSts THEN Claims(rec.h) ELSE sts.claims)
       IN IF Refused(new.template)
          THEN sts' = NoSts /\ pods' = NoPods /\ rec' = Idle
          ELSE sts' = new /\ rec' = To("running") /\ UNCHANGED pods
    /\ UNCHANGED <<spec, last, size, services, secret, early, count>>

\* The volumes that the containers mount and nobody provides.
Dangling(s) ==
    LET t == s.template
    IN {m[1] : m \in t.hz \cup t.sidecar \cup t.init}
       \ (t.volumes \cup {Plain(c) : c \in Range(s.claims)})

\* The StatefulSet controller replaces the pods whose template changed.
RollOut ==
    /\ sts # NoSts /\ pods.template # sts.template
    /\ Dangling(sts) = {}
    /\ pods' = Pods(sts.template, secret)
    /\ UNCHANGED <<spec, last, size, services, secret, sts, rec, early, count>>

\* CheckIfRunning and what follows; otherwise the number of pods that there
\* are is reported: none, as many as before, or all.
CheckIfRunning ==
    /\ rec.pc = "running"
    /\ IF pods.template = sts.template
       THEN rec' = To("last") /\ UNCHANGED size
       ELSE rec' = Idle /\ size' \in IF rec.base = spec THEN {0, size, sts.replicas} ELSE {size}
    /\ UNCHANGED <<spec, last, services, secret, sts, pods, early, count>>

\* updateLastSuccessfulConfiguration writes the copy, with its properties, if
\* the annotation changes; a conflict is only logged.
UpdateLastSuccessfulConfiguration ==
    /\ rec.pc = "last"
    /\ IF rec.base = spec /\ last # rec.h
       THEN spec' = rec.h /\ last' = rec.h /\ rec' = [To("status") EXCEPT !.base = rec.h]
       ELSE UNCHANGED <<spec, last>> /\ rec' = To("status")
    /\ UNCHANGED <<size, services, secret, sts, pods, early, count>>

UpdateStatus ==
    /\ rec.pc = "status"
    /\ size' = IF rec.base = spec THEN sts.replicas ELSE size
    /\ rec' = Idle
    /\ UNCHANGED <<spec, last, services, secret, sts, pods, early, count>>

Worker ==
    \/ Reconcile \/ ReconcileWANServices \/ ReconcileSecret \/ ReconcileStatefulset
    \/ CheckIfRunning \/ UpdateLastSuccessfulConfiguration \/ UpdateStatus

Next == \/ \E f \in DOMAIN Fields : Edit(f)
        \/ RollOut
        \/ Worker

Spec == Init /\ [][Next]_vars

----------------------------------------------------------------------------
(* Properties.                                                             *)

\* Path d is path p or below it.
Within(d, p) == Len(p) <= Len(d) /\ SubSeq(d, 1, Len(p)) = p

Mounted(d, t) == \E m \in t.hz : Within(d, m[2])

SameName(s) == \E i, j \in DOMAIN s.wan : i # j /\ s.wan[i].name = s.wan[j].name

\* The pods can be created: what a container mounts is a volume of the pod or
\* a claim of the StatefulSet, whose claims cannot change (volumes,
\* hzContainerVolumeMounts, persistentVolumeClaims).  Two ways out remain: a
\* local device that is added to a cluster that exists, and a spec that is
\* edited before it was applied, while nothing protects its fields.
MountsHaveVolumes ==
    sts # NoSts /\ ~early => Dangling(sts) \subseteq {Plain(d) : d \in Devices}

\* The members have a read-only file system: every directory that the
\* configuration gives them is in a volume that the hazelcast container
\* mounts (hazelcastBasicConfig, hzContainerVolumeMounts).
DirsAreMounted ==
    rec.pc = "running" =>
        \A d \in {secret.baseDir, secret.cpDir} \cup secret.devices :
            d # Nowhere => Mounted(d, sts.template)

\* The data of the cluster stays where it is: the volume that is mounted as
\* its persistence never changes, and the directory in it only when the old
\* configuration could not be read (PvcName, hazelcastConfig).
DataStays ==
    [][ ~early =>
          /\ sts # NoSts /\ sts' # NoSts =>
               \A m \in sts.template.hz, o \in sts'.template.hz :
                   m[2] = o[2] /\ m[2] = PersistenceMountPath => m[1] = o[1]
          /\ secret.baseDir # Nowhere /\ faults' = faults =>
               secret'.baseDir = secret.baseDir
      ]_vars

\* What passes the validation has no two sockets of the member on one port
\* (validateWANPorts, hazelcastContainerPorts).
PortsAreDistinct ==
    \A p, q \in sts.template.ports : p # q => p.port # q.port

\* The StatefulSet of a cluster, and with it the members, is deleted only
\* for two WAN endpoints with one name, which the validation accepts
\* (CreateOrUpdateForce, validateAdvancedNetwork).
DeletedOnlyForNames ==
    [][sts # NoSts /\ sts' = NoSts => SameName(rec.h)]_vars

WithoutProperties(c) == [ConfigForcingRestart(c) EXCEPT !.props = {}]

\* Once a spec is taken for applied, the members run with what it says of
\* what forces a restart (configForcingRestart).  The properties are left out
\* here, as the annotation of the pods leaves them out; and so are pods that
\* were started between the write of the Secret and that of the StatefulSet:
\* they have the new configuration under the old annotation, and keep it when
\* the edit is taken back.
RestartedForConfig ==
    /\ rec.pc = "last" /\ rec.base = spec
    /\ WithoutProperties(pods.config) = pods.template.checksum
    => WithoutProperties(pods.config) = WithoutProperties(secret)

----------------------------------------------------------------------------
(* The inductive invariant.                                                *)

SpecOK(s) ==
    /\ DOMAIN s = DOMAIN Fields
    /\ \A f \in DOMAIN Fields : s[f] \in Fields[f]

\* The fields that validateNotUpdatableHazelcastFields protects and the claims
\* depend on.
SameKey(s, t) == /\ s.pers = t.pers /\ s.cp = t.cp
                 /\ Persistent(s) => s.prefix = t.prefix

\* The spec that the protected fields are those of: before the first one is
\* applied only the user's, which is then not edited.
Anchor == IF last = NoSpec THEN spec ELSE last

\* The worker has a valid copy, with the protected fields.
CopyInv ==
    rec.pc # "idle" => /\ ValidSpecCurrent(rec.h)
                       /\ ~early => SameKey(rec.h, Anchor)

\* The claims have the volumes of persistence, as the first, and of CP.
ClaimsInv ==
    sts # NoSts /\ ~early =>
        /\ Persistent(Anchor) => 1 \in DOMAIN sts.claims /\ sts.claims[1] = Anchor.prefix
        /\ Anchor.cp = "own" => "cp-subsystem-persistence" \in Range(sts.claims)

\* What is mounted as persistence is the first claim.
DataInv ==
    sts # NoSts /\ ~early =>
        \A m \in sts.template.hz :
            m[2] = PersistenceMountPath => m[1] = Plain(sts.claims[1])

\* A directory is configured only with persistence.
BaseDirInv ==
    secret.baseDir # Nowhere /\ ~early =>
        Persistent(Anchor) /\ secret.baseDir \in {PersistenceMountPath, BaseDir}

\* What the worker has written since it read the spec is what the spec says.
ConfiguredInv ==
    /\ rec.pc \in {"sts", "running", "last"} =>
           /\ WithoutProperties(secret) = Checksum(rec.h)
           /\ secret.devices = {Append(TieredStorageBaseDir, d) : d \in Range(rec.h.devices)}
           /\ secret.baseDir \in IF Persistent(rec.h) THEN {PersistenceMountPath, BaseDir}
                                                      ELSE {Nowhere}
    /\ rec.pc \in {"running", "last"} =>
           sts.template = Template(rec.h, PvcName(rec.h, sts.claims))
    /\ rec.pc = "last" => pods.template = sts.template

\* The worker is a record of its fields, and so is a spec.
PodsInv ==
    /\ rec = [pc |-> rec.pc, h |-> rec.h, base |-> rec.base]
    /\ SpecOK(spec) /\ SpecOK(rec.h)
    /\ CopyInv /\ ClaimsInv /\ DataInv /\ BaseDirInv /\ ConfiguredInv
    /\ MountsHaveVolumes /\ PortsAreDistinct
============================================================================
