------------------------- MODULE ClusterPods_proofs -------------------------
(***************************************************************************)
(* The pods of a Hazelcast cluster fit its spec, for any lists of WAN      *)
(* endpoints and any number of edits and of faults.                        *)
(*                                                                         *)
(* The claims of the StatefulSet are those of the first spec applied, and  *)
(* the volumes and mounts those of the last: they fit because the fields   *)
(* that claims depend on cannot be edited any more once a spec is applied. *)
(* The invariant carries these fields along, from the annotation with the  *)
(* last spec to the worker's copy and the StatefulSet.                     *)
(***************************************************************************)
EXTENDS ClusterPods, WellFoundedInduction, TLAPS

----------------------------------------------------------------------------
(* Specs.                                                                  *)

\* What is known of the fields of a spec.
LEMMA FieldsOf ==
    ASSUME NEW s, SpecOK(s)
    PROVE  /\ s.pers \in {"no", "bad", "yes"}
           /\ s.prefix \in {"persistence", "hot-restart-persistence"}
           /\ s.cp \in {"no", "own", "shared"}
           /\ s.devices \in Seq(Devices)
           /\ s.wan \in Seq(Endpoints)
<1>1. /\ s.pers \in Fields.pers /\ s.prefix \in Fields.prefix /\ s.cp \in Fields.cp
      /\ s.devices \in Fields.devices /\ s.wan \in Fields.wan
  BY DEF SpecOK, Fields
<1>2. /\ s.pers \in {"no", "bad", "yes"} /\ s.cp \in {"no", "own", "shared"}
      /\ s.prefix \in {"persistence", "hot-restart-persistence"}
  BY <1>1 DEF Fields
<1>3. s.wan \in Networks /\ s.devices \in LocalDevices
  BY <1>1 DEF Fields
<1>4. LocalDevices \subseteq Seq(Devices)
  BY DEF LocalDevices, Devices
<1> QED
  BY <1>2, <1>3, <1>4, NetworksAssumption

\* The specs that are written by hand, at first or by an edit, are of the kind.
LEMMA DefaultOK == SpecOK(Default)
<1>1. DOMAIN Default = DOMAIN Fields
  BY DEF Default, Fields
<1>2. DOMAIN Fields = {"pers", "prefix", "cp", "devices", "native", "wan", "size", "name",
                       "jars", "jet", "sequence", "jarsUrl", "jetUrl", "ucn", "catalog",
                       "lossless", "props"}
  BY DEF Fields
<1>3. /\ Default["pers"] \in Fields["pers"] /\ Default["prefix"] \in Fields["prefix"]
      /\ Default["cp"] \in Fields["cp"] /\ Default["native"] \in Fields["native"]
      /\ Default["size"] \in Fields["size"] /\ Default["name"] \in Fields["name"]
      /\ Default["sequence"] \in Fields["sequence"]
  BY DEF Default, Fields
<1>4. /\ Default["devices"] \in Fields["devices"] /\ Default["wan"] \in Fields["wan"]
  BY NetworksAssumption DEF Default, Fields, LocalDevices
<1>5. /\ Default["jars"] \in Fields["jars"] /\ Default["jet"] \in Fields["jet"]
      /\ Default["props"] \in Fields["props"]
  BY DEF Default, Fields
<1>6. /\ Default["jarsUrl"] \in Fields["jarsUrl"] /\ Default["jetUrl"] \in Fields["jetUrl"]
      /\ Default["ucn"] \in Fields["ucn"] /\ Default["catalog"] \in Fields["catalog"]
      /\ Default["lossless"] \in Fields["lossless"]
  BY DEF Default, Fields
<1>7. ASSUME NEW f \in DOMAIN Fields PROVE Default[f] \in Fields[f]
  BY <1>2, <1>3, <1>4, <1>5, <1>6
<1> QED
  BY <1>1, <1>7 DEF SpecOK

\* A spec with another value for one field.
LEMMA ExceptOK ==
    ASSUME NEW s, SpecOK(s), NEW f \in DOMAIN Fields, NEW v \in Fields[f]
    PROVE  SpecOK([s EXCEPT ![f] = v])
BY DEF SpecOK

LEMMA StartsOK == \A s \in Starts : SpecOK(s)
<1> SUFFICES ASSUME NEW s \in Starts PROVE SpecOK(s)
  OBVIOUS
<1>1. ASSUME NEW p \in {"no", "yes"}, NEW c \in {"no", "own", "shared"}
      PROVE  SpecOK([Default EXCEPT !.pers = p, !.cp = c, !.native = "pooled"])
  <2>1. SpecOK([Default EXCEPT !.pers = p])
    BY DefaultOK, ExceptOK DEF Fields
  <2>2. SpecOK([[Default EXCEPT !.pers = p] EXCEPT !.cp = c])
    BY <2>1, ExceptOK DEF Fields
  <2>3. SpecOK([[[Default EXCEPT !.pers = p] EXCEPT !.cp = c] EXCEPT !.native = "pooled"])
    BY <2>2, ExceptOK DEF Fields
  <2> QED
    BY <2>3
<1>2. SpecOK([Default EXCEPT !.devices = <<"device1">>, !.native = "standard"])
  <2>1. SpecOK([Default EXCEPT !.devices = <<"device1">>])
    BY DefaultOK, ExceptOK DEF Fields, LocalDevices
  <2>2. SpecOK([[Default EXCEPT !.devices = <<"device1">>] EXCEPT !.native = "standard"])
    BY <2>1, ExceptOK DEF Fields
  <2> QED
    BY <2>2
<1> QED
  BY <1>1, <1>2 DEF Starts

LEMMA EditOK ==
    ASSUME SpecOK(spec), NEW f \in DOMAIN Fields, Edit(f)
    PROVE  SpecOK(spec')
<1>1. PICK v \in Edited(f) : spec' = [spec EXCEPT ![f] = v]
  BY DEF Edit
<1>2. v \in Fields[f]
  BY DEF Edited, SpecOK, Fields
<1> QED
  BY <1>1, <1>2 DEF SpecOK

LEMMA NoSpecOK == SpecOK(NoSpec)
BY DefaultOK, ExceptOK DEF NoSpec, Fields

\* Agreeing on the protected fields is an equivalence.
LEMMA SameKeys ==
    ASSUME NEW s, NEW t, NEW u
    PROVE  /\ SameKey(s, s)
           /\ SameKey(s, t) => SameKey(t, s)
           /\ SameKey(s, t) /\ SameKey(t, u) => SameKey(s, u)
BY DEF SameKey, Persistent

----------------------------------------------------------------------------
(* Ports.                                                                  *)

\* A set of natural numbers has a least element.
LEMMA Least ==
    ASSUME NEW T, T \subseteq Nat, T # {}
    PROVE  \E x \in T : \A y \in T : x <= y
<1>1. PICK x \in T : \A y \in T : ~(<<y, x>> \in OpToRel(<, Nat))
  BY NatLessThanWellFounded, WFMin
<1>2. OpToRel(<, Nat) = {ss \in Nat \X Nat : ss[1] < ss[2]}
  BY Zenon DEF OpToRel
<1>3. \A y \in T : ~(y < x)
  BY <1>1, <1>2
<1> QED
  BY <1>3

\* That no neighbours overlap is enough: if two endpoints have a port in common,
\* then so have the first of them and the one that follows it.
LEMMA NoOverlap ==
    ASSUME NEW wan \in Seq(Endpoints), ~OverlapWithEachOther(wan),
           NEW i \in DOMAIN wan, NEW j \in DOMAIN wan, Before(wan, i, j)
    PROVE  wan[i].port + wan[i].ports <= wan[j].port
<1>1. \A k \in DOMAIN wan : wan[k].port \in Nat /\ wan[k].ports \in Nat
  <2>1. \A k \in DOMAIN wan : wan[k] \in Endpoints
    OBVIOUS
  <2> QED
    BY <2>1 DEF Endpoints
<1>2. DOMAIN wan \subseteq Nat
  OBVIOUS
<1> DEFINE After == {k \in DOMAIN wan : Before(wan, i, k)}
           Firsts == {wan[k].port : k \in After}
<1>3. PICK p \in Firsts : \A q \in Firsts : p <= q
  BY <1>1, Least
<1> DEFINE Ties == {k \in After : wan[k].port = p}
<1>4. PICK k \in Ties : \A l \in Ties : k <= l
  BY <1>2, <1>3, Least
<1>5. k \in DOMAIN wan /\ Before(wan, i, k) /\ wan[k].port = p
  OBVIOUS
<1>6. ASSUME NEW l \in DOMAIN wan, Before(wan, i, l), Before(wan, l, k)
      PROVE  FALSE
  <2>1. l \in After /\ wan[l].port \in Firsts
    BY <1>6
  <2>2. p <= wan[l].port
    BY <1>3, <2>1
  <2>3. wan[l].port = p /\ l < k
    BY <1>1, <1>5, <1>6, <2>2 DEF Before
  <2> QED
    BY <1>2, <1>4, <2>1, <2>3
<1>7. Neighbours(wan, i, k)
  BY <1>5, <1>6 DEF Neighbours
<1>8. wan[i].port + wan[i].ports <= wan[k].port
  BY <1>1, <1>5, <1>7 DEF OverlapWithEachOther
<1>9. p <= wan[j].port
  BY <1>3
<1> QED
  BY <1>1, <1>5, <1>8, <1>9

\* Equal pairs have equal parts.
LEMMA Pairs ==
    ASSUME NEW a, NEW b, NEW c, NEW d, <<a, b>> = <<c, d>>
    PROVE  a = c /\ b = d
OBVIOUS

\* A WAN port is one of an endpoint, numbered from its first one.
LEMMA PortOf ==
    ASSUME NEW s, SpecOK(s), s.wan # <<>>, NEW p \in WanRepPorts(s)
    PROVE  \E i \in DOMAIN s.wan :
               /\ p.at = i /\ i \in Nat \ {0}
               /\ p.port \in PortsOf(s.wan[i]) /\ p.port \in Nat
               /\ p = Port(i, s.wan[i].name, p.port - s.wan[i].port + 1, p.port)
<1>0. PICK i \in DOMAIN s.wan :
          p \in {Port(i, s.wan[i].name, n - s.wan[i].port + 1, n) : n \in PortsOf(s.wan[i])}
  BY DEF WanRepPorts
<1>1. PICK n \in PortsOf(s.wan[i]) : p = Port(i, s.wan[i].name, n - s.wan[i].port + 1, n)
  BY <1>0
<1>2. s.wan \in Seq(Endpoints)
  BY FieldsOf
<1>3. i \in Nat \ {0} /\ s.wan[i] \in Endpoints
  BY <1>2
<1>4. n \in Nat
  BY <1>3 DEF PortsOf, Endpoints
<1> QED
  BY <1>1, <1>3, <1>4 DEF Port

\* The API server refuses the ports only for two endpoints with one name.
LEMMA RefusedForNames ==
    ASSUME NEW s, SpecOK(s), NEW p \in ContainerPorts(s), NEW q \in ContainerPorts(s),
           p # q, p.name = q.name
    PROVE  SameName(s)
<1> DEFINE Fixed == {Port(0, "hazelcast", 0, ClientPort), Port(0, "member-port", 0, MemberPort),
                     Port(0, "rest-port", 0, RestPort), Port(0, "wan-port", 0, WanPort)}
<1>1. ~(p \in Fixed /\ q \in Fixed)
  BY DEF Port
<1>2. s.wan # <<>> /\ (p \in WanRepPorts(s) \/ q \in WanRepPorts(s))
  BY <1>1 DEF ContainerPorts, WanRepPorts, WanDefaultPort
<1>3. \A r \in WanRepPorts(s) : r.name[2] # 0
  <2> SUFFICES ASSUME NEW r \in WanRepPorts(s) PROVE r.name[2] # 0
    OBVIOUS
  <2>1. PICK i \in DOMAIN s.wan : /\ r.port \in PortsOf(s.wan[i]) /\ r.port \in Nat
                                  /\ r = Port(i, s.wan[i].name, r.port - s.wan[i].port + 1, r.port)
    BY <1>2, PortOf
  <2>2. s.wan[i] \in Endpoints
    BY FieldsOf
  <2>3. r.port - s.wan[i].port + 1 # 0
    BY <2>1, <2>2 DEF PortsOf, Endpoints
  <2>4. r.name = <<s.wan[i].name, r.port - s.wan[i].port + 1>>
    BY <2>1 DEF Port
  <2> QED
    BY <2>3, <2>4
<1>4. \A r \in Fixed : r.name[2] = 0
  BY DEF Port
<1>5. p \in WanRepPorts(s) /\ q \in WanRepPorts(s)
  BY <1>2, <1>3, <1>4 DEF ContainerPorts
<1>6. PICK i \in DOMAIN s.wan : /\ p.port \in Nat
                                /\ p = Port(i, s.wan[i].name, p.port - s.wan[i].port + 1, p.port)
  BY <1>2, <1>5, PortOf
<1>7. PICK j \in DOMAIN s.wan : /\ q.port \in Nat
                                /\ q = Port(j, s.wan[j].name, q.port - s.wan[j].port + 1, q.port)
  BY <1>2, <1>5, PortOf
<1>8. /\ s.wan[i].name = s.wan[j].name
      /\ p.port - s.wan[i].port + 1 = q.port - s.wan[j].port + 1
  <2>1. /\ p.name = <<s.wan[i].name, p.port - s.wan[i].port + 1>>
        /\ q.name = <<s.wan[j].name, q.port - s.wan[j].port + 1>>
    BY <1>6, <1>7 DEF Port
  <2>2. <<s.wan[i].name, p.port - s.wan[i].port + 1>>
        = <<s.wan[j].name, q.port - s.wan[j].port + 1>>
    BY <2>1, Zenon
  <2> QED
    BY <2>2, Pairs, Zenon
<1>9. i # j
  <2> SUFFICES ASSUME i = j PROVE FALSE
    OBVIOUS
  <2>1. s.wan[i] \in Endpoints
    BY FieldsOf
  <2>2. p.port = q.port
    BY <1>6, <1>7, <1>8, <2>1 DEF Endpoints
  <2> QED
    BY <1>6, <1>7, <2>2
<1> QED
  BY <1>8, <1>9 DEF SameName

\* A spec that passes the validation has no two ports with one number.
LEMMA DistinctPorts ==
    ASSUME NEW s, SpecOK(s), ~WanPortsOverlap(s.wan),
           NEW p \in ContainerPorts(s), NEW q \in ContainerPorts(s), p # q
    PROVE  p.port # q.port
<1> DEFINE Fixed == {Port(0, "hazelcast", 0, ClientPort), Port(0, "member-port", 0, MemberPort),
                     Port(0, "rest-port", 0, RestPort)}
<1>1. CASE s.wan = <<>>
  BY <1>1 DEF ContainerPorts, WanRepPorts, WanDefaultPort, Port, ClientPort, MemberPort,
              RestPort, WanPort
<1>2. CASE s.wan # <<>>
  <2>1. s.wan \in Seq(Endpoints) /\ \A i \in DOMAIN s.wan : s.wan[i] \in Endpoints
    BY FieldsOf
  <2>2. \A r \in WanRepPorts(s) : r.port \notin {MemberPort, ClientPort, RestPort}
    <3> SUFFICES ASSUME NEW r \in WanRepPorts(s) PROVE r.port \notin {MemberPort, ClientPort, RestPort}
      OBVIOUS
    <3>1. PICK i \in DOMAIN s.wan : r.port \in PortsOf(s.wan[i])
      BY <1>2, PortOf
    <3>2. s.wan[i] \in Endpoints
      BY <2>1
    <3>3. r.port >= s.wan[i].port /\ r.port < s.wan[i].port + s.wan[i].ports
      BY <3>1, <3>2 DEF PortsOf, Endpoints
    <3> QED
      BY <3>3 DEF WanPortsOverlap, OverlapWithOtherSockets
  <2>3. \A r \in Fixed : r.port \in {MemberPort, ClientPort, RestPort}
    BY DEF Port
  <2>4. CASE p \in Fixed /\ q \in Fixed
    BY <2>4 DEF Port, ClientPort, MemberPort, RestPort
  <2>5. CASE p \in WanRepPorts(s) /\ q \in WanRepPorts(s)
    <3> SUFFICES ASSUME p.port = q.port PROVE FALSE
      OBVIOUS
    <3>1. PICK i \in DOMAIN s.wan :
              /\ i \in Nat /\ p.port \in PortsOf(s.wan[i]) /\ p.port \in Nat
              /\ p = Port(i, s.wan[i].name, p.port - s.wan[i].port + 1, p.port)
      BY <1>2, <2>5, PortOf
    <3>2. PICK j \in DOMAIN s.wan :
              /\ j \in Nat /\ q.port \in PortsOf(s.wan[j])
              /\ q = Port(j, s.wan[j].name, q.port - s.wan[j].port + 1, q.port)
      BY <1>2, <2>5, PortOf
    <3>3. i # j
      BY <3>1, <3>2
    <3>4. s.wan[i] \in Endpoints /\ s.wan[j] \in Endpoints
      BY <2>1
    <3>5. /\ s.wan[i].port <= p.port /\ p.port < s.wan[i].port + s.wan[i].ports
          /\ s.wan[j].port <= p.port /\ p.port < s.wan[j].port + s.wan[j].ports
          /\ s.wan[i].port \in Nat /\ s.wan[j].port \in Nat
          /\ s.wan[i].ports \in Nat /\ s.wan[j].ports \in Nat
      BY <3>1, <3>2, <3>4 DEF PortsOf, Endpoints
    <3>6. Before(s.wan, i, j) \/ Before(s.wan, j, i)
      BY <3>1, <3>2, <3>3, <3>5 DEF Before
    <3>7. \/ s.wan[i].port + s.wan[i].ports <= s.wan[j].port
          \/ s.wan[j].port + s.wan[j].ports <= s.wan[i].port
      BY <2>1, <3>6, NoOverlap DEF WanPortsOverlap
    <3> QED
      BY <3>1, <3>5, <3>7
  <2> QED
    BY <2>2, <2>3, <2>4, <2>5 DEF ContainerPorts
<1> QED
  BY <1>1, <1>2

----------------------------------------------------------------------------
(* Paths.                                                                  *)

\* A directory is within itself, and what is below it within it.
LEMMA WithinItself ==
    ASSUME NEW S, NEW s \in Seq(S)
    PROVE  Within(s, s)
BY DEF Within

LEMMA WithinShorter ==
    ASSUME NEW S, NEW s \in Seq(S), NEW t \in Seq(S)
    PROVE  Within(s \o t, s)
<1>1. /\ Len(s) \in Nat /\ Len(t) \in Nat /\ s \o t \in Seq(S)
      /\ Len(s \o t) = Len(s) + Len(t)
  OBVIOUS
<1>2. Len(s) <= Len(s \o t)
  BY <1>1
<1>3. \A i \in 1 .. Len(s) : (s \o t)[i] = s[i]
  OBVIOUS
<1>4. /\ s = [i \in 1 .. Len(s) |-> s[i]]
      /\ SubSeq(s \o t, 1, Len(s)) = [i \in 1 .. Len(s) |-> (s \o t)[i]]
  BY <1>1
<1>5. SubSeq(s \o t, 1, Len(s)) = s
  BY <1>3, <1>4
<1> QED
  BY <1>2, <1>5, Zenon DEF Within

Names == {"data", "persistence", "base-dir", "cp-data", "tiered-storage"} \cup Devices

\* The directories of the configuration are sequences of names.
LEMMA Paths ==
    /\ PersistenceMountPath \in Seq(Names) /\ CPBaseDir \in Seq(Names)
    /\ TieredStorageBaseDir \in Seq(Names)
    /\ <<"base-dir">> \in Seq(Names) /\ <<"cp-data">> \in Seq(Names)
<1>1. PersistenceMountPath \in Seq(Names)
  BY DEF PersistenceMountPath, Names
<1>2. CPBaseDir \in Seq(Names)
  BY DEF CPBaseDir, Names
<1>3. TieredStorageBaseDir \in Seq(Names)
  BY DEF TieredStorageBaseDir, Names
<1>4. <<"base-dir">> \in Seq(Names) /\ <<"cp-data">> \in Seq(Names)
  BY DEF Names
<1> QED
  BY <1>1, <1>2, <1>3, <1>4

\* Only the volume of persistence is mounted at its path.
LEMMA OnePersistence ==
    ASSUME NEW s, SpecOK(s), NEW v, NEW m \in HzContainerVolumeMounts(s, v),
           m[2] = PersistenceMountPath
    PROVE  Persistent(s) /\ m = Mount(v, PersistenceMountPath)
<1>1. /\ Len(PersistenceMountPath) = 2 /\ PersistenceMountPath[1] = "data"
      /\ PersistenceMountPath[2] = "persistence"
  BY DEF PersistenceMountPath
<1>2. m # Mount("hazelcast-storage", HazelcastMountPath) /\ m # Mount("tmp-vol", TmpDir)
      /\ m # Mount("cp-subsystem-persistence", CPBaseDir)
  BY <1>1 DEF Mount, HazelcastMountPath, TmpDir, CPBaseDir
<1>3. m # Mount("user-code-bucket", Append(UserCodePath, "bucket"))
      /\ m # Mount("user-code-url", Append(UserCodePath, "urls"))
      /\ m # Mount("jet-job-jars-bucket", JetJobJarsPath)
      /\ m # Mount("user-code-namespace", UCNBucketPath)
  BY <1>1 DEF Mount, UserCodePath, JetJobJarsPath, UCNBucketPath
<1>4. \A d : m # Mount(d, Append(TieredStorageBaseDir, d))
  BY <1>1 DEF Mount, TieredStorageBaseDir
<1>5. \A w, cm : m # <<w, UserCodePath \o <<"cm", cm>>>> /\ m # <<w, Append(JetJobJarsPath, cm)>>
  BY <1>1 DEF UserCodePath, JetJobJarsPath
<1> QED
  BY <1>2, <1>3, <1>4, <1>5 DEF HzContainerVolumeMounts, WithPersistence, WithNamespaces

----------------------------------------------------------------------------
(* Claims, volumes and mounts.                                             *)

\* The first of a part is an element of the whole.
LEMMA Sums ==
    \A x, y, z \in Nat :
        /\ x = 1 => 1 \in 1 .. x /\ 1 \in 1 .. x + y /\ 1 \in 1 .. x + y + z
        /\ y = 1 => 1 \in 1 .. y /\ x + 1 \in 1 .. x + y /\ x + 1 \in 1 .. x + y + z
OBVIOUS

\* The claims of a new StatefulSet.
LEMMA ClaimsOf ==
    ASSUME NEW s, SpecOK(s)
    PROVE  /\ Persistent(s) => 1 \in DOMAIN Claims(s) /\ Claims(s)[1] = s.prefix
           /\ s.cp = "own" => "cp-subsystem-persistence" \in Range(Claims(s))
<1> DEFINE S == {s.prefix, "cp-subsystem-persistence"} \cup Devices
           a == IF Persistent(s) THEN <<s.prefix>> ELSE <<>>
           b == IF s.cp = "own" THEN <<"cp-subsystem-persistence">> ELSE <<>>
<1>1. a \in Seq(S) /\ b \in Seq(S) /\ s.devices \in Seq(S)
  <2>1. s.devices \in Seq(Devices) /\ Devices \subseteq S
    BY FieldsOf
  <2>2. s.devices \in Seq(S)
    BY <2>1
  <2>3. <<s.prefix>> \in Seq(S) /\ <<"cp-subsystem-persistence">> \in Seq(S) /\ <<>> \in Seq(S)
    OBVIOUS
  <2> QED
    BY <2>2, <2>3
<1>2. /\ Persistent(s) => Len(a) = 1 /\ a[1] = s.prefix
      /\ s.cp = "own" => Len(b) = 1 /\ b[1] = "cp-subsystem-persistence"
  OBVIOUS
<1> HIDE DEF a, b, S
<1>3. Claims(s) = (a \o b) \o s.devices
  BY DEF Claims, a, b
<1>4. Len(a) \in Nat /\ Len(b) \in Nat /\ Len(s.devices) \in Nat
  BY <1>1
<1>5. a \o b \in Seq(S) /\ Len(a \o b) = Len(a) + Len(b)
  BY <1>1
<1>6. Claims(s) \in Seq(S) /\ Len(Claims(s)) = Len(a) + Len(b) + Len(s.devices)
  BY <1>1, <1>3, <1>4, <1>5
<1>7. DOMAIN Claims(s) = 1 .. Len(a) + Len(b) + Len(s.devices)
  BY <1>6
<1>8. \A i \in 1 .. Len(a) : (a \o b)[i] = a[i]
  BY <1>1
<1>9. \A i \in 1 .. Len(b) : (a \o b)[Len(a) + i] = b[i]
  BY <1>1
<1>10. \A i \in 1 .. Len(a) + Len(b) : Claims(s)[i] = (a \o b)[i]
  BY <1>1, <1>3, <1>4, <1>5
<1>11. ASSUME Persistent(s) PROVE 1 \in DOMAIN Claims(s) /\ Claims(s)[1] = s.prefix
  <2>1. Len(a) = 1 /\ a[1] = s.prefix
    BY <1>2, <1>11
  <2>2. 1 \in 1 .. Len(a) /\ 1 \in 1 .. Len(a) + Len(b)
    BY <1>4, <2>1
  <2>3. Claims(s)[1] = s.prefix
    BY <1>8, <1>10, <2>1, <2>2
  <2>4. 1 \in DOMAIN Claims(s)
    BY <1>4, <1>7, <2>1, Sums, Zenon
  <2> QED
    BY <2>3, <2>4
<1>12. ASSUME s.cp = "own" PROVE "cp-subsystem-persistence" \in Range(Claims(s))
  <2>1. Len(b) = 1 /\ b[1] = "cp-subsystem-persistence"
    BY <1>2, <1>12
  <2>2. /\ 1 \in 1 .. Len(b) /\ Len(a) + 1 \in 1 .. Len(a) + Len(b)
        /\ Len(a) + 1 \in 1 .. Len(a) + Len(b) + Len(s.devices)
    BY <1>4, <2>1, Sums, Zenon
  <2>3. Claims(s)[Len(a) + 1] = "cp-subsystem-persistence"
    BY <1>9, <1>10, <2>1, <2>2
  <2> QED
    BY <1>7, <2>2, <2>3 DEF Range
<1> QED
  BY <1>11, <1>12

\* The claims fit a spec with the protected fields of t.
Fit(claims, t) ==
    /\ Persistent(t) => 1 \in DOMAIN claims /\ claims[1] = t.prefix
    /\ t.cp = "own" => "cp-subsystem-persistence" \in Range(claims)

\* Claims that fit a spec fit every other with the same protected fields.
LEMMA FitSame ==
    ASSUME NEW s, NEW t, SameKey(s, t), NEW claims, Fit(claims, s)
    PROVE  Fit(claims, t)
BY DEF Fit, SameKey, Persistent

\* The parts of a pod template that the properties speak of.
LEMMA TemplateFields ==
    ASSUME NEW s, NEW v
    PROVE  /\ Template(s, v).hz = HzContainerVolumeMounts(s, v)
           /\ Template(s, v).ports = ContainerPorts(s)
           /\ Template(s, v).checksum = Checksum(s)
BY DEF Template

\* What the template mounts is a volume of it, a claim or a local device.
LEMMA MountsFit ==
    ASSUME NEW s, SpecOK(s), NEW claims, Fit(claims, s)
    PROVE  Dangling(StatefulSet(s, claims)) \subseteq {Plain(d) : d \in Devices}
<1> DEFINE v == PvcName(s, claims)
           t == Template(s, v)
           There == t.volumes \cup {Plain(c) : c \in Range(claims)}
                    \cup {Plain(d) : d \in Devices}
<1>1. t.volumes = Volumes(s) /\ t.hz = HzContainerVolumeMounts(s, v)
      /\ t.sidecar = SidecarVolumeMounts(s, v) /\ t.init = InitContainer(s, v)
  BY DEF Template
<1>2. StatefulSet(s, claims).template = t /\ StatefulSet(s, claims).claims = claims
  BY DEF StatefulSet
<1>3. Persistent(s) => v \in Range(claims)
  BY DEF Fit, PvcName, Range
<1>4. s.cp = "own" => "cp-subsystem-persistence" \in Range(claims)
  BY DEF Fit
<1>5. \A d \in Range(s.devices) : d \in Devices
  <2>1. s.devices \in Seq(Devices)
    BY FieldsOf
  <2> QED
    BY <2>1 DEF Range
<1>6. \A m \in WithPersistence(s, v) \cup WithNamespaces(s) : m[1] \in There
  BY <1>1, <1>3 DEF WithPersistence, WithNamespaces, Mount, Volumes
<1>7. \A m \in t.sidecar \cup t.init : m[1] \in There
  BY <1>1, <1>6 DEF SidecarVolumeMounts, InitContainer, Mount, Volumes
<1>8. \A m \in {Mount("hazelcast-storage", HazelcastMountPath),
                Mount("user-code-bucket", Append(UserCodePath, "bucket")),
                Mount("user-code-url", Append(UserCodePath, "urls")),
                Mount("jet-job-jars-bucket", JetJobJarsPath),
                Mount("tmp-vol", TmpDir)} : m[1] \in There
  BY <1>1 DEF Mount, Volumes
<1>9. \A cm : /\ cm \in s.jars => UserCodeVolume(s, cm) \in There
              /\ cm \in s.jet => JetVolume(cm) \in There
  BY <1>1 DEF Volumes, ConfigMapVolumes
<1>10. s.cp = "own" => Plain("cp-subsystem-persistence") \in There
  BY <1>4
<1>11. \A d \in Range(s.devices) : Plain(d) \in There
  BY <1>5
<1> HIDE DEF There, t, v
<1>12. \A m \in t.hz : m[1] \in There
  <2>1. s.cp = "own" => Mount("cp-subsystem-persistence", CPBaseDir)[1] \in There
    BY <1>10 DEF Mount
  <2>2. \A d \in Range(s.devices) : Mount(d, Append(TieredStorageBaseDir, d))[1] \in There
    BY <1>11 DEF Mount
  <2>3. \A cm : /\ cm \in s.jars => <<UserCodeVolume(s, cm), UserCodePath \o <<"cm", cm>>>>[1] \in There
                /\ cm \in s.jet => <<JetVolume(cm), Append(JetJobJarsPath, cm)>>[1] \in There
    BY <1>9
  <2> QED
    BY <1>1, <1>6, <1>8, <2>1, <2>2, <2>3, Zenon DEF HzContainerVolumeMounts
<1>13. Dangling(StatefulSet(s, claims)) \subseteq There
  BY <1>2, <1>7, <1>12 DEF Dangling
<1>14. Dangling(StatefulSet(s, claims)) \cap (t.volumes \cup {Plain(c) : c \in Range(claims)}) = {}
  BY <1>2 DEF Dangling
<1> QED
  BY <1>13, <1>14 DEF There

----------------------------------------------------------------------------
(* The configuration.                                                      *)

\* The base directory: that of the old Secret, or the new one when there is
\* none.
LEMMA BaseDirs ==
    ASSUME NEW s, NEW old
    PROVE  /\ ~Persistent(s) => BaseDirOf(s, old) = Nowhere
           /\ Persistent(s) /\ old # NoConfig /\ old.baseDir # BaseDir
                  => BaseDirOf(s, old) = PersistenceMountPath
           /\ Persistent(s) /\ (old = NoConfig \/ old.baseDir = BaseDir)
                  => BaseDirOf(s, old) = BaseDir
BY DEF BaseDirOf

\* Only its properties are not what the annotation of the pods has.
LEMMA Config ==
    ASSUME NEW s, NEW old, NEW c, c = HazelcastConfig(s, old)
    PROVE  /\ WithoutProperties(c) = Checksum(s)
           /\ c.devices = {Append(TieredStorageBaseDir, d) : d \in Range(s.devices)}
           /\ c.baseDir = BaseDirOf(s, old)
           /\ c.baseDir \in IF Persistent(s) THEN {PersistenceMountPath, BaseDir} ELSE {Nowhere}
<1> DEFINE b == HazelcastBasicConfig(s)
<1>1. /\ c.name = b.name /\ c.cp = b.cp /\ c.cpDir = b.cpDir /\ c.devices = b.devices
      /\ b.props = {} /\ c.baseDir = BaseDirOf(s, old)
      /\ b.devices = {Append(TieredStorageBaseDir, d) : d \in Range(s.devices)}
  BY DEF HazelcastConfig, HazelcastBasicConfig
<1> HIDE DEF b
<1>2. WithoutProperties(c) = [name |-> b.name, props |-> {}, cp |-> b.cp, cpDir |-> b.cpDir]
  <2>1. WithoutProperties(c) = [name |-> c.name, props |-> {}, cp |-> c.cp, cpDir |-> c.cpDir]
    BY DEF WithoutProperties, ConfigForcingRestart
  <2> QED
    BY <1>1, <2>1
<1>3. Checksum(s) = [name |-> b.name, props |-> {}, cp |-> b.cp, cpDir |-> b.cpDir]
  BY <1>1 DEF Checksum, ConfigForcingRestart, b
<1>4. BaseDirOf(s, old) \in IF Persistent(s) THEN {PersistenceMountPath, BaseDir} ELSE {Nowhere}
  BY BaseDirs
<1> QED
  BY <1>1, <1>2, <1>3, <1>4

\* The properties are merged into the copy, which says otherwise the same.
LEMMA Merged ==
    ASSUME NEW s, SpecOK(s), ValidSpecCurrent(s), NEW u,
           u = [s EXCEPT !.props = MergeProperties(s)]
    PROVE  /\ SpecOK(u) /\ ValidSpecCurrent(u) /\ SameKey(u, s)
           /\ Checksum(u) = Checksum(s) /\ u.devices = s.devices
<1>1. MergeProperties(s) \in Fields["props"] /\ "props" \in DOMAIN Fields
  <2>1. s["props"] \in Fields["props"] /\ Fields["props"] = SUBSET {"user", "default", "tiered"}
        /\ "props" \in DOMAIN Fields
    BY DEF SpecOK, Fields
  <2>2. s.props \subseteq {"user", "default", "tiered"}
    BY <2>1
  <2>3. MergeProperties(s) \subseteq {"user", "default", "tiered"}
    BY <2>2 DEF MergeProperties
  <2> QED
    BY <2>1, <2>3
<1>2. SpecOK(u)
  BY <1>1, ExceptOK
<1>3. DOMAIN s = DOMAIN Fields
  BY DEF SpecOK
<1>4. /\ u.pers = s.pers /\ u.prefix = s.prefix /\ u.cp = s.cp /\ u.devices = s.devices
      /\ u.native = s.native /\ u.wan = s.wan /\ u.size = s.size /\ u.name = s.name
      /\ u.catalog = s.catalog /\ u.lossless = s.lossless
  BY <1>3 DEF Fields
<1>5. SameKey(u, s)
  BY <1>4 DEF SameKey, Persistent
<1>6. ValidSpecCurrent(u)
  BY <1>4 DEF ValidSpecCurrent, ValidPersistence, ValidJetConfig, ValidNativeMemory, ValidSQL,
     ValidTieredStorage, ValidCPSubsystem, Persistent, Tiered
<1>7. Checksum(u) = Checksum(s)
  <2>1. CPDir(u) = CPDir(s)
    BY <1>4 DEF CPDir, Persistent
  <2>2. \A x : Checksum(x) = [name |-> x.name, props |-> {}, cp |-> IF x.cp = "no" THEN 0 ELSE x.size,
                              cpDir |-> CPDir(x)]
    BY DEF Checksum, ConfigForcingRestart, HazelcastBasicConfig
  <2> QED
    BY <1>4, <2>1, <2>2
<1> QED
  BY <1>2, <1>4, <1>5, <1>6, <1>7

----------------------------------------------------------------------------
(* The invariant and the steps.                                            *)

\* A worker that goes on keeps its copy.
LEMMA ToFields ==
    ASSUME PodsInv, NEW pc
    PROVE  To(pc) = [pc |-> pc, h |-> rec.h, base |-> rec.base]
BY DEF PodsInv, To

\* What the invariant says of the objects and the worker, and of the cluster.
WorkerInv == /\ rec = [pc |-> rec.pc, h |-> rec.h, base |-> rec.base]
             /\ SpecOK(spec) /\ SpecOK(rec.h) /\ CopyInv /\ ConfiguredInv
ClusterInv == ClaimsInv /\ DataInv /\ BaseDirInv /\ MountsHaveVolumes /\ PortsAreDistinct

\* The invariant, in two parts that different steps disturb.
LEMMA Parts == (PodsInv <=> WorkerInv /\ ClusterInv) /\ (PodsInv' <=> WorkerInv' /\ ClusterInv')
BY DEF PodsInv, WorkerInv, ClusterInv

\* A step that changes neither the cluster nor the protected fields.
LEMMA SameCluster ==
    ASSUME PodsInv, UNCHANGED <<sts, secret>>, early' \/ (~early /\ SameKey(Anchor, Anchor')) 
    PROVE  ClusterInv'
<1>1. /\ ClaimsInv /\ DataInv /\ BaseDirInv /\ MountsHaveVolumes /\ PortsAreDistinct
  BY DEF PodsInv
<1>2. DataInv' /\ MountsHaveVolumes' /\ PortsAreDistinct'
  BY <1>1 DEF DataInv, MountsHaveVolumes, PortsAreDistinct
<1>3. ClaimsInv' /\ BaseDirInv'
  BY <1>1 DEF ClaimsInv, BaseDirInv, SameKey, Persistent
<1> QED
  BY <1>2, <1>3 DEF ClusterInv

\* The worker goes on with its copy, or ends.
LEMMA GoesOn ==
    ASSUME PodsInv, UNCHANGED <<spec, last, early>>, rec.pc # "idle", NEW pc,
           rec' = To(pc) \/ rec' = Idle, ConfiguredInv'
    PROVE  WorkerInv'
<1>1. Anchor' = Anchor
  BY DEF Anchor
<1>2. CASE rec' = Idle
  <2>1. rec'.pc = "idle" /\ rec' = [pc |-> rec'.pc, h |-> rec'.h, base |-> rec'.base]
        /\ rec'.h = NoSpec
    BY <1>2 DEF Idle
  <2> QED
    BY <2>1, NoSpecOK DEF WorkerInv, CopyInv, PodsInv
<1>3. CASE rec' = To(pc)
  <2>1. rec'.pc = pc /\ rec' = [pc |-> rec'.pc, h |-> rec'.h, base |-> rec'.base]
        /\ rec'.h = rec.h
    BY <1>3, ToFields
  <2> QED
    BY <1>1, <2>1 DEF WorkerInv, CopyInv, PodsInv
<1> QED
  BY <1>2, <1>3

\* A StatefulSet that is written for spec s.
LEMMA NewSts ==
    ASSUME NEW s, SpecOK(s), NEW claims, Fit(claims, s), NEW x, x = StatefulSet(s, claims)
    PROVE  /\ Dangling(x) \subseteq {Plain(d) : d \in Devices}
           /\ \A m \in x.template.hz :
                  m[2] = PersistenceMountPath => m[1] = Plain(x.claims[1])
<1>1. /\ x.claims = claims
      /\ x.template.hz = HzContainerVolumeMounts(s, PvcName(s, claims))
  BY DEF StatefulSet, Template
<1>2. Dangling(x) \subseteq {Plain(d) : d \in Devices}
  BY MountsFit
<1>3. ASSUME NEW m \in x.template.hz, m[2] = PersistenceMountPath
      PROVE  m[1] = Plain(x.claims[1])
  <2>1. Persistent(s) /\ m = Mount(PvcName(s, claims), PersistenceMountPath)
    BY <1>1, <1>3, OnePersistence
  <2>2. PvcName(s, claims) = claims[1]
    BY <2>1 DEF PvcName, Fit
  <2> QED
    BY <1>1, <2>1, <2>2 DEF Mount
<1> QED
  BY <1>2, <1>3

\* The ports of a StatefulSet for a valid spec are different.
LEMMA NewPorts ==
    ASSUME NEW s, SpecOK(s), ValidSpecCurrent(s), NEW claims, NEW x, x = StatefulSet(s, claims),
           NEW p \in x.template.ports, NEW q \in x.template.ports, p # q
    PROVE  p.port # q.port
<1>1. x.template.ports = ContainerPorts(s)
  BY DEF StatefulSet, Template
<1> QED
  BY <1>1, DistinctPorts DEF ValidSpecCurrent

LEMMA NoStsPorts ==
    ASSUME NEW p \in NoSts.template.ports, NEW q \in NoSts.template.ports, p # q
    PROVE  p.port # q.port
<1>1. NoSts.template.ports = ContainerPorts(NoSpec)
  BY DEF NoSts, Template
<1>2. ~WanPortsOverlap(NoSpec.wan)
  BY DEF NoSpec, Default, WanPortsOverlap, OverlapWithEachOther, OverlapWithOtherSockets
<1> QED
  BY <1>1, <1>2, NoSpecOK, DistinctPorts

LEMMA InitInv == Init => PodsInv
<1> SUFFICES ASSUME Init PROVE PodsInv
  OBVIOUS
<1>1. SpecOK(spec) /\ SpecOK(rec.h) /\ ValidSpecCurrent(spec) /\ rec.pc = "idle"
      /\ rec = [pc |-> rec.pc, h |-> rec.h, base |-> rec.base]
  BY StartsOK, NoSpecOK DEF Init, Idle
<1>2. CopyInv /\ ConfiguredInv
  BY <1>1 DEF CopyInv, ConfiguredInv
<1>3. CASE last = NoSpec /\ secret = NoConfig /\ sts = NoSts
  <2>1. ClaimsInv /\ DataInv /\ MountsHaveVolumes
    BY <1>3 DEF ClaimsInv, DataInv, MountsHaveVolumes
  <2>2. BaseDirInv
    BY <1>3 DEF BaseDirInv, NoConfig, HazelcastBasicConfig, Default, Persistent
  <2>3. PortsAreDistinct
    BY <1>3, NoStsPorts DEF PortsAreDistinct
  <2> QED
    BY <1>1, <1>2, <2>1, <2>2, <2>3 DEF PodsInv
<1>4. CASE /\ last = spec /\ Persistent(spec)
           /\ secret = [HazelcastConfig(spec, NoConfig) EXCEPT !.baseDir = PersistenceMountPath]
           /\ sts = StatefulSet(spec, Claims(spec))
  <2>1. Anchor = spec
    BY <1>4 DEF Anchor
  <2>2. Fit(Claims(spec), spec)
    BY <1>1, ClaimsOf DEF Fit
  <2>3. sts.claims = Claims(spec)
    BY <1>4 DEF StatefulSet
  <2>4. ClaimsInv
    BY <2>1, <2>2, <2>3 DEF ClaimsInv, Fit
  <2>5. DataInv /\ MountsHaveVolumes
    BY <1>1, <1>4, <2>2, NewSts DEF DataInv, MountsHaveVolumes
  <2>6. PortsAreDistinct
    BY <1>1, <1>4, NewPorts DEF PortsAreDistinct
  <2>7. BaseDirInv
    BY <1>4, <2>1 DEF BaseDirInv, HazelcastConfig, HazelcastBasicConfig
  <2> QED
    BY <1>1, <1>2, <2>4, <2>5, <2>6, <2>7 DEF PodsInv
<1> QED
  BY <1>3, <1>4 DEF Init

\* The user edits the spec: if one was applied before, its fields stay.
LEMMA EditStep == ASSUME PodsInv, NEW f \in DOMAIN Fields, Edit(f) PROVE PodsInv'
<1>1. UNCHANGED <<last, secret, sts, pods, rec>>
  BY DEF Edit
<1>2. early' \/ (~early /\ Anchor' = Anchor)
  BY <1>1 DEF Edit, Anchor
<1>3. SpecOK(spec')
  BY EditOK DEF PodsInv
<1>4. WorkerInv'
  BY <1>1, <1>2, <1>3 DEF PodsInv, WorkerInv, CopyInv, ConfiguredInv
<1>5. ClusterInv'
  BY <1>1, <1>2, SameKeys, SameCluster
<1> QED
  BY <1>4, <1>5, Parts

\* The protected fields of the spec are those of the last one.
LEMMA ReconcileStep == ASSUME PodsInv, Reconcile PROVE PodsInv'
<1>1. UNCHANGED <<spec, last, secret, sts, pods, early>>
      /\ rec' = [pc |-> "services", h |-> spec, base |-> spec]
  BY DEF Reconcile
<1>2. Anchor' = Anchor
  BY <1>1 DEF Anchor
<1>3. SameKey(spec, Anchor)
  BY DEF Reconcile, ValidateHazelcastSpec, ValidSpecUpdate, NotUpdated, Anchor, SameKey, Persistent
<1>4. WorkerInv'
  BY <1>1, <1>2, <1>3 DEF PodsInv, WorkerInv, CopyInv, ConfiguredInv, Reconcile, ValidateHazelcastSpec
<1>5. ClusterInv'
  BY <1>1, <1>2, SameKeys, SameCluster
<1> QED
  BY <1>4, <1>5, Parts

LEMMA ServicesStep == ASSUME PodsInv, ReconcileWANServices PROVE PodsInv'
<1>1. UNCHANGED <<spec, last, secret, sts, pods, early>> /\ rec.pc = "services"
  BY DEF ReconcileWANServices
<1>2. rec' = To("secret") \/ rec' = Idle
  BY DEF ReconcileWANServices
<1>3. Anchor' = Anchor
  BY <1>1 DEF Anchor
<1>4. rec'.pc \in {"secret", "idle"}
  BY <1>2, ToFields DEF Idle
<1>5. WorkerInv'
  BY <1>1, <1>2, <1>4, GoesOn DEF ConfiguredInv
<1>6. ClusterInv'
  BY <1>1, <1>3, SameKeys, SameCluster
<1> QED
  BY <1>5, <1>6, Parts

LEMMA SecretStep == ASSUME PodsInv, ReconcileSecret PROVE PodsInv'
<1> DEFINE u == [rec.h EXCEPT !.props = MergeProperties(rec.h)]
<1>1. UNCHANGED <<spec, last, sts, pods, early>> /\ rec.pc = "secret"
  BY DEF ReconcileSecret
<1>2. PICK old : secret' = HazelcastConfig(rec.h, old)
  BY DEF ReconcileSecret
<1>3. SpecOK(rec.h) /\ ValidSpecCurrent(rec.h) /\ (~early => SameKey(rec.h, Anchor))
  BY <1>1 DEF PodsInv, CopyInv
<1>4. /\ SpecOK(u) /\ ValidSpecCurrent(u) /\ SameKey(u, rec.h)
      /\ Checksum(u) = Checksum(rec.h) /\ u.devices = rec.h.devices
  BY <1>3, Merged
<1>5. rec' = [pc |-> "sts", h |-> u, base |-> rec.base]
  BY ToFields DEF ReconcileSecret
<1> HIDE DEF u
<1>6. Anchor' = Anchor
  BY <1>1 DEF Anchor
<1>7. ~early => SameKey(u, Anchor)
  BY <1>3, <1>4, SameKeys
<1>8. CopyInv'
  BY <1>1, <1>4, <1>5, <1>6, <1>7 DEF CopyInv
<1>9. Persistent(u) <=> Persistent(rec.h)
  BY <1>4 DEF SameKey, Persistent
<1>10. ConfiguredInv'
  <2>1. /\ WithoutProperties(secret') = Checksum(u)
        /\ secret'.devices = {Append(TieredStorageBaseDir, d) : d \in Range(u.devices)}
        /\ secret'.baseDir \in IF Persistent(u) THEN {PersistenceMountPath, BaseDir}
                                                ELSE {Nowhere}
    BY <1>2, <1>4, <1>9, Config
  <2>2. rec'.pc = "sts" /\ rec'.h = u
    BY <1>5
  <2> QED
    BY <2>1, <2>2 DEF ConfiguredInv
<1>11. WorkerInv'
  BY <1>1, <1>4, <1>5, <1>8, <1>10 DEF WorkerInv, PodsInv
<1>12. BaseDirInv'
  <2>1. secret'.baseDir \in IF Persistent(rec.h) THEN {PersistenceMountPath, BaseDir}
                                                 ELSE {Nowhere}
    BY <1>2, Config
  <2>2. ~early => (Persistent(rec.h) <=> Persistent(Anchor))
    BY <1>3 DEF SameKey, Persistent
  <2> QED
    BY <1>1, <1>6, <2>1, <2>2 DEF BaseDirInv
<1>13. ClaimsInv' /\ DataInv' /\ MountsHaveVolumes' /\ PortsAreDistinct'
  BY <1>1, <1>6 DEF PodsInv, ClaimsInv, DataInv, MountsHaveVolumes, PortsAreDistinct
<1> QED
  BY <1>11, <1>12, <1>13, Parts DEF ClusterInv

\* What is written for the copy.
LEMMA StatefulsetStep == ASSUME PodsInv, ReconcileStatefulset PROVE PodsInv'
<1> DEFINE claims == IF sts = NoSts THEN Claims(rec.h) ELSE sts.claims
           new == StatefulSet(rec.h, claims)
<1>1. UNCHANGED <<spec, last, secret, early>> /\ rec.pc = "sts"
  BY DEF ReconcileStatefulset
<1>2. SpecOK(rec.h) /\ ValidSpecCurrent(rec.h) /\ (~early => SameKey(rec.h, Anchor))
  BY <1>1 DEF PodsInv, CopyInv
<1>3. Anchor' = Anchor
  BY <1>1 DEF Anchor
<1>4. BaseDirInv'
  BY <1>1, <1>3 DEF PodsInv, BaseDirInv
<1>5. CASE Refused(new.template)
  <2>1. sts' = NoSts /\ rec' = Idle
    BY <1>5 DEF ReconcileStatefulset
  <2>2. ConfiguredInv'
    BY <2>1 DEF ConfiguredInv, Idle
  <2>3. WorkerInv'
    BY <1>1, <2>1, <2>2, GoesOn
  <2>4. ClaimsInv' /\ DataInv' /\ MountsHaveVolumes'
    BY <2>1 DEF ClaimsInv, DataInv, MountsHaveVolumes
  <2>5. PortsAreDistinct'
    BY <2>1, NoStsPorts DEF PortsAreDistinct
  <2> QED
    BY <1>4, <2>3, <2>4, <2>5, Parts DEF ClusterInv
<1>6. CASE ~Refused(new.template)
  <2>1. sts' = new /\ rec' = To("running")
    BY <1>6 DEF ReconcileStatefulset
  <2>2. new.claims = claims /\ new.template = Template(rec.h, PvcName(rec.h, claims))
    BY DEF StatefulSet
  <2>3. ~early => Fit(claims, rec.h)
    <3>1. CASE sts = NoSts
      BY <1>2, <3>1, ClaimsOf DEF Fit
    <3>2. CASE sts # NoSts /\ ~early
      <4>1. Fit(claims, Anchor)
        BY <3>2 DEF PodsInv, ClaimsInv, Fit
      <4> QED
        BY <1>2, <3>2, <4>1, SameKeys, FitSame
    <3> QED
      BY <3>1, <3>2
  <2> HIDE DEF claims
  <2>4. ClaimsInv'
    <3>1. ~early => Fit(claims, Anchor)
      BY <1>2, <2>3, FitSame
    <3> QED
      BY <1>1, <1>3, <2>1, <2>2, <3>1 DEF ClaimsInv, Fit
  <2>5. DataInv' /\ MountsHaveVolumes'
    BY <1>1, <1>2, <2>1, <2>3, NewSts DEF DataInv, MountsHaveVolumes
  <2>6. PortsAreDistinct'
    BY <1>2, <2>1, NewPorts DEF PortsAreDistinct
  <2>7. ConfiguredInv'
    <3>1. rec'.pc = "running" /\ rec'.h = rec.h
      BY <2>1, ToFields
    <3> QED
      BY <1>1, <2>1, <2>2, <3>1 DEF PodsInv, ConfiguredInv
  <2>8. WorkerInv'
    BY <1>1, <2>1, <2>7, GoesOn
  <2> QED
    BY <1>4, <2>4, <2>5, <2>6, <2>8, Parts DEF ClusterInv
<1> QED
  BY <1>5, <1>6

LEMMA RollOutStep == ASSUME PodsInv, RollOut PROVE PodsInv'
<1>1. UNCHANGED <<spec, last, secret, sts, rec, early>> /\ pods.template # sts.template
  BY DEF RollOut
<1>2. Anchor' = Anchor
  BY <1>1 DEF Anchor
<1>3. rec.pc # "last"
  BY <1>1 DEF PodsInv, ConfiguredInv
<1>4. WorkerInv'
  BY <1>1, <1>2, <1>3 DEF PodsInv, WorkerInv, CopyInv, ConfiguredInv
<1>5. ClusterInv'
  BY <1>1, <1>2, SameKeys, SameCluster
<1> QED
  BY <1>4, <1>5, Parts

LEMMA RunningStep == ASSUME PodsInv, CheckIfRunning PROVE PodsInv'
<1>1. UNCHANGED <<spec, last, secret, sts, pods, early>> /\ rec.pc = "running"
  BY DEF CheckIfRunning
<1>2. rec' = Idle \/ (rec' = To("last") /\ pods.template = sts.template)
  BY DEF CheckIfRunning
<1>3. Anchor' = Anchor
  BY <1>1 DEF Anchor
<1>4. ConfiguredInv'
  <2>1. rec'.pc = "idle" \/ (rec'.pc = "last" /\ rec'.h = rec.h /\ pods.template = sts.template)
    BY <1>2, ToFields DEF Idle
  <2> QED
    BY <1>1, <2>1 DEF PodsInv, ConfiguredInv
<1>5. WorkerInv'
  BY <1>1, <1>2, <1>4, GoesOn
<1>6. ClusterInv'
  BY <1>1, <1>3, SameKeys, SameCluster
<1> QED
  BY <1>5, <1>6, Parts

\* The annotation takes the protected fields over from the copy.
LEMMA LastStep == ASSUME PodsInv, UpdateLastSuccessfulConfiguration PROVE PodsInv'
<1>1. UNCHANGED <<secret, sts, pods, early>> /\ rec.pc = "last"
  BY DEF UpdateLastSuccessfulConfiguration
<1>2. SpecOK(rec.h) /\ ValidSpecCurrent(rec.h) /\ (~early => SameKey(rec.h, Anchor))
  BY <1>1 DEF PodsInv, CopyInv
<1>3. rec'.pc = "status"
  BY ToFields DEF UpdateLastSuccessfulConfiguration
<1>4. ConfiguredInv'
  BY <1>3 DEF ConfiguredInv
<1>5. CASE UNCHANGED <<spec, last>> /\ rec' = To("status")
  <2>1. Anchor' = Anchor
    BY <1>5 DEF Anchor
  <2>2. WorkerInv'
    BY <1>1, <1>4, <1>5, GoesOn
  <2>3. ClusterInv'
    BY <1>1, <2>1, SameKeys, SameCluster
  <2> QED
    BY <2>2, <2>3, Parts
<1>6. CASE spec' = rec.h /\ last' = rec.h /\ rec' = [To("status") EXCEPT !.base = rec.h]
  <2>1. rec' = [pc |-> "status", h |-> rec.h, base |-> rec.h]
    BY <1>6, ToFields
  <2>2. Anchor' = rec.h
    BY <1>6 DEF Anchor
  <2>3. WorkerInv'
    BY <1>2, <1>4, <1>6, <2>1, <2>2, SameKeys DEF WorkerInv, CopyInv
  <2>4. ClusterInv'
    BY <1>1, <1>2, <2>2, SameKeys, SameCluster
  <2> QED
    BY <2>3, <2>4, Parts
<1> QED
  BY <1>5, <1>6 DEF UpdateLastSuccessfulConfiguration

LEMMA StatusStep == ASSUME PodsInv, UpdateStatus PROVE PodsInv'
<1>1. UNCHANGED <<spec, last, secret, sts, pods, early>> /\ rec.pc = "status" /\ rec' = Idle
  BY DEF UpdateStatus
<1>2. Anchor' = Anchor
  BY <1>1 DEF Anchor
<1>3. ConfiguredInv'
  BY <1>1 DEF ConfiguredInv, Idle
<1>4. WorkerInv'
  BY <1>1, <1>3, GoesOn
<1>5. ClusterInv'
  BY <1>1, <1>2, SameKeys, SameCluster
<1> QED
  BY <1>4, <1>5, Parts

LEMMA NextInv == PodsInv /\ [Next]_vars => PodsInv'
<1> SUFFICES ASSUME PodsInv, [Next]_vars PROVE PodsInv'
  OBVIOUS
<1>1. CASE UNCHANGED vars
  <2>1. UNCHANGED <<spec, last, secret, sts, pods, rec, early>>
    BY <1>1 DEF vars
  <2>2. Anchor' = Anchor
    BY <2>1 DEF Anchor
  <2>3. WorkerInv'
    BY <2>1, <2>2 DEF PodsInv, WorkerInv, CopyInv, ConfiguredInv
  <2>4. ClusterInv'
    BY <2>1, <2>2, SameKeys, SameCluster
  <2> QED
    BY <2>3, <2>4, Parts
<1> QED
  BY <1>1, EditStep, RollOutStep, ReconcileStep, ServicesStep, SecretStep, StatefulsetStep,
     RunningStep, LastStep, StatusStep DEF Next, Worker

----------------------------------------------------------------------------
(* The theorems.                                                           *)

\* The invariant holds at all times.
THEOREM Inductive == Spec => []PodsInv
BY InitInv, NextInv, PTL DEF Spec

\* Whatever a user edits once a spec was applied, the containers mount only
\* volumes of the pod, claims of the StatefulSet and local devices.
THEOREM Mounts == Spec => []MountsHaveVolumes
<1>1. PodsInv => MountsHaveVolumes
  BY DEF PodsInv
<1> QED
  BY <1>1, Inductive, PTL

\* No two sockets of a member are on one port: that the validation compares
\* only neighbours in the order of the ports is enough.
THEOREM Ports == Spec => []PortsAreDistinct
<1>1. PodsInv => PortsAreDistinct
  BY DEF PodsInv
<1> QED
  BY <1>1, Inductive, PTL

\* Every directory that the configuration gives the members is in a volume that
\* their container mounts.
THEOREM Dirs == Spec => []DirsAreMounted
<1>1. ASSUME PodsInv, rec.pc = "running",
             NEW d \in {secret.baseDir, secret.cpDir} \cup secret.devices, d # Nowhere
      PROVE  Mounted(d, sts.template)
  <2>1. /\ SpecOK(rec.h) /\ ValidSpecCurrent(rec.h)
        /\ WithoutProperties(secret) = Checksum(rec.h)
        /\ secret.devices = {Append(TieredStorageBaseDir, x) : x \in Range(rec.h.devices)}
        /\ secret.baseDir \in IF Persistent(rec.h) THEN {PersistenceMountPath, BaseDir}
                                                   ELSE {Nowhere}
        /\ sts.template = Template(rec.h, PvcName(rec.h, sts.claims))
    BY <1>1 DEF PodsInv, CopyInv, ConfiguredInv
  <2>2. sts.template.hz = HzContainerVolumeMounts(rec.h, PvcName(rec.h, sts.claims))
    BY <2>1, TemplateFields
  <2>3. ASSUME NEW p, NEW v, <<v, p>> \in sts.template.hz, Within(d, p)
        PROVE  Mounted(d, sts.template)
    BY <2>3 DEF Mounted
  <2>4. Persistent(rec.h) => <<Plain(PvcName(rec.h, sts.claims)), PersistenceMountPath>>
                                 \in sts.template.hz
    BY <2>2 DEF HzContainerVolumeMounts, WithPersistence, Mount
  <2>5. CASE d = secret.baseDir
    <3>1. Persistent(rec.h) /\ d \in {PersistenceMountPath, BaseDir}
      BY <1>1, <2>1, <2>5
    <3>2. Within(d, PersistenceMountPath)
      BY <3>1, Paths, WithinItself, WithinShorter DEF BaseDir
    <3> QED
      BY <2>3, <2>4, <3>1, <3>2
  <2>6. CASE d = secret.cpDir
    <3>1. secret.cpDir = CPDir(rec.h)
      <4>1. WithoutProperties(secret).cpDir = secret.cpDir
        BY DEF WithoutProperties, ConfigForcingRestart
      <4>2. Checksum(rec.h).cpDir = CPDir(rec.h)
        BY DEF Checksum, ConfigForcingRestart, HazelcastBasicConfig
      <4> QED
        BY <2>1, <4>1, <4>2
    <3>2. rec.h.cp \in {"no", "own", "shared"}
      BY <2>1, FieldsOf
    <3>3. rec.h.cp = "no" => CPDir(rec.h) = Nowhere
      BY DEF CPDir
    <3>4. rec.h.cp = "own" => CPDir(rec.h) = CPBaseDir
      BY DEF CPDir
    <3>5. rec.h.cp = "shared" => /\ Persistent(rec.h)
                                 /\ CPDir(rec.h) = PersistenceMountPath \o <<"cp-data">>
      BY <2>1 DEF CPDir, ValidSpecCurrent, ValidCPSubsystem, Persistent
    <3>6. CASE rec.h.cp = "own"
      <4>1. <<Plain("cp-subsystem-persistence"), CPBaseDir>> \in sts.template.hz
        BY <2>2, <3>6 DEF HzContainerVolumeMounts, Mount
      <4>2. Within(d, CPBaseDir)
        BY <2>6, <3>1, <3>4, <3>6, Paths, WithinItself
      <4> QED
        BY <2>3, <4>1, <4>2
    <3>7. CASE rec.h.cp = "shared"
      <4>1. Within(d, PersistenceMountPath)
        BY <2>6, <3>1, <3>5, <3>7, Paths, WithinShorter
      <4> QED
        BY <2>3, <2>4, <3>5, <3>7, <4>1
    <3> QED
      BY <1>1, <2>6, <3>1, <3>2, <3>3, <3>6, <3>7
  <2>7. CASE d \in secret.devices
    <3>1. PICK x \in Range(rec.h.devices) : d = Append(TieredStorageBaseDir, x)
      BY <2>1, <2>7
    <3>2. <<Plain(x), d>> \in sts.template.hz
      BY <2>2, <3>1 DEF HzContainerVolumeMounts, Mount
    <3>3. x \in Names
      <4>1. rec.h.devices \in Seq(Devices)
        BY <2>1, FieldsOf
      <4> QED
        BY <4>1 DEF Range, Names
    <3>4. d \in Seq(Names)
      BY <3>1, <3>3, Paths
    <3>5. Within(d, d)
      BY <3>4, WithinItself
    <3> QED
      BY <2>3, <3>2, <3>5
  <2> QED
    BY <1>1, <2>5, <2>6, <2>7
<1>2. PodsInv => DirsAreMounted
  BY <1>1 DEF DirsAreMounted
<1> QED
  BY <1>2, Inductive, PTL

\* Once a spec is taken for applied, the members that were started with the
\* configuration of their annotation have that of the Secret.
THEOREM Restarted == Spec => []RestartedForConfig
<1>1. PodsInv => RestartedForConfig
  <2> SUFFICES ASSUME PodsInv, rec.pc = "last",
                      WithoutProperties(pods.config) = pods.template.checksum
               PROVE  WithoutProperties(pods.config) = WithoutProperties(secret)
    BY DEF RestartedForConfig
  <2>1. /\ WithoutProperties(secret) = Checksum(rec.h) /\ pods.template = sts.template
        /\ sts.template = Template(rec.h, PvcName(rec.h, sts.claims))
    BY DEF PodsInv, ConfiguredInv
  <2>2. sts.template.checksum = Checksum(rec.h)
    BY <2>1, TemplateFields
  <2> QED
    BY <2>1, <2>2
<1> QED
  BY <1>1, Inductive, PTL

\* Only one step writes the StatefulSet, and only one the Secret.
LEMMA StsChanges ==
    ASSUME [Next]_vars, sts' # sts
    PROVE  ReconcileStatefulset
BY DEF Next, Worker, vars, count, Edit, RollOut, Reconcile, ReconcileWANServices, ReconcileSecret,
       CheckIfRunning, UpdateLastSuccessfulConfiguration, UpdateStatus

LEMMA SecretChanges ==
    ASSUME [Next]_vars, secret' # secret
    PROVE  ReconcileSecret
BY DEF Next, Worker, vars, count, Edit, RollOut, Reconcile, ReconcileWANServices,
       ReconcileStatefulset, CheckIfRunning, UpdateLastSuccessfulConfiguration, UpdateStatus

\* The failed reads are counted.
LEMMA FaultsCount == Spec => [](faults \in Nat)
<1>1. Init => faults \in Nat
  BY DEF Init
<1>2. faults \in Nat /\ [Next]_vars => (faults \in Nat)'
  <2>1. [Next]_vars => UNCHANGED faults \/ ReconcileSecret
    BY DEF Next, Worker, vars, count, Edit, RollOut, Reconcile, ReconcileWANServices,
       ReconcileStatefulset, CheckIfRunning, UpdateLastSuccessfulConfiguration, UpdateStatus
  <2>2. ReconcileSecret => faults' \in {faults, faults + 1}
    BY DEF ReconcileSecret
  <2> QED
    BY <2>1, <2>2
<1> QED
  BY <1>1, <1>2, PTL DEF Spec

\* The data of a cluster stays in its volume, and in its directory unless the
\* old configuration could not be read.
THEOREM Stays == Spec => DataStays
<1>1. ASSUME PodsInv, PodsInv', [Next]_vars, ~early, sts # NoSts, sts' # NoSts,
             NEW m \in sts.template.hz, NEW o \in sts'.template.hz,
             m[2] = o[2], m[2] = PersistenceMountPath
      PROVE  m[1] = o[1]
  <2>1. m[1] = Plain(sts.claims[1])
    BY <1>1 DEF PodsInv, DataInv
  <2>2. CASE sts' = sts
    BY <1>1, <2>1, <2>2 DEF PodsInv, DataInv
  <2>3. CASE sts' # sts
    <3>1. ReconcileStatefulset
      BY <1>1, <2>3, StsChanges
    <3>2. ~early'
      BY <1>1, <3>1 DEF ReconcileStatefulset
    <3>3. sts'.claims = sts.claims
      BY <1>1, <3>1 DEF ReconcileStatefulset, StatefulSet
    <3>4. o[1] = Plain(sts'.claims[1])
      BY <1>1, <3>2 DEF PodsInv, DataInv
    <3> QED
      BY <2>1, <3>3, <3>4
  <2> QED
    BY <2>2, <2>3
<1>2. ASSUME PodsInv, faults \in Nat, [Next]_vars, ~early,
             secret.baseDir # Nowhere, faults' = faults
      PROVE  secret'.baseDir = secret.baseDir
  <2>1. CASE secret' = secret
    BY <2>1
  <2>2. CASE secret' # secret
    <3>1. rec.pc = "secret" /\ secret' = HazelcastConfig(rec.h, secret)
      <4>1. ReconcileSecret
        BY <1>2, <2>2, SecretChanges
      <4> QED
        BY <1>2, <4>1 DEF ReconcileSecret
    <3>2. Persistent(rec.h) /\ secret.baseDir \in {PersistenceMountPath, BaseDir}
      BY <1>2, <3>1 DEF PodsInv, CopyInv, BaseDirInv, SameKey, Persistent
    <3>3. secret # NoConfig
      BY <1>2 DEF NoConfig, HazelcastBasicConfig, Default, Persistent
    <3>4. secret'.baseDir = BaseDirOf(rec.h, secret)
      BY <3>1, Config
    <3> QED
      BY <3>2, <3>3, <3>4, BaseDirs
  <2> QED
    BY <2>1, <2>2
<1> DEFINE Kept == ~early =>
              /\ sts # NoSts /\ sts' # NoSts =>
                   \A m \in sts.template.hz, o \in sts'.template.hz :
                       m[2] = o[2] /\ m[2] = PersistenceMountPath => m[1] = o[1]
              /\ secret.baseDir # Nowhere /\ faults' = faults =>
                   secret'.baseDir = secret.baseDir
<1>3. ASSUME PodsInv, PodsInv', faults \in Nat, [Next]_vars PROVE Kept
  BY <1>1, <1>2, <1>3
<1> HIDE DEF Kept
<1>4. Spec => [][Kept]_vars
  BY <1>3, Inductive, FaultsCount, PTL DEF Spec
<1> QED
  BY <1>4 DEF Kept, DataStays

\* The StatefulSet is deleted only for two WAN endpoints with one name.
THEOREM Deleted == Spec => DeletedOnlyForNames
<1>1. ASSUME PodsInv, [Next]_vars, sts # NoSts, sts' = NoSts
      PROVE  SameName(rec.h)
  <2> DEFINE new == StatefulSet(rec.h, sts.claims)
  <2>1. /\ ReconcileStatefulset /\ SpecOK(rec.h)
    BY <1>1, StsChanges DEF PodsInv
  <2>2. CASE Refused(new.template)
    <3>1. new.template.ports = ContainerPorts(rec.h)
      BY DEF StatefulSet, Template
    <3> QED
      BY <2>1, <2>2, <3>1, RefusedForNames DEF Refused
  <2>3. CASE ~Refused(new.template)
    <3>1. new = NoSts
      BY <1>1, <2>1, <2>3 DEF ReconcileStatefulset
    <3>2. sts.claims = <<>> /\ new.template.hz = NoSts.template.hz
      BY <3>1 DEF NoSts, StatefulSet
    <3>3. Mount("none", PersistenceMountPath) \in NoSts.template.hz
      BY DEF NoSts, Template, HzContainerVolumeMounts, WithPersistence, NoSpec, Default, Persistent
    <3>4. new.template.hz = HzContainerVolumeMounts(rec.h, rec.h.prefix)
      BY <3>2 DEF StatefulSet, Template, PvcName
    <3>5. Mount("none", PersistenceMountPath) = Mount(rec.h.prefix, PersistenceMountPath)
      <4>1. Mount("none", PersistenceMountPath)[2] = PersistenceMountPath
        BY DEF Mount
      <4>2. Mount("none", PersistenceMountPath) \in HzContainerVolumeMounts(rec.h, rec.h.prefix)
        BY <3>2, <3>3, <3>4
      <4> QED
        BY <2>1, <4>1, <4>2, OnePersistence
    <3>6. rec.h.prefix = "none"
      BY <3>5 DEF Mount, Plain
    <3> QED
      BY <2>1, <3>6, FieldsOf
  <2> QED
    BY <2>2, <2>3
<1>2. ASSUME PodsInv, [Next]_vars PROVE sts # NoSts /\ sts' = NoSts => SameName(rec.h)
  BY <1>1, <1>2
<1> QED
  BY <1>2, Inductive, PTL DEF Spec, DeletedOnlyForNames

============================================================================
