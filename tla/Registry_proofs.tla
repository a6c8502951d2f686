-------------------------- MODULE Registry_proofs --------------------------
(***************************************************************************)
(* Registry for any number of printers, threads, services and restarts:    *)
(* what the dicts, the services and the file keep of each other while      *)
(* requests interleave.                                                    *)
(***************************************************************************)
EXTENDS Registry, TLAPS, SequenceTheorems, FiniteSetTheorems

\* A request of a thread, as TypeOK has it.
Call ==
  [pc : Phases, old : 0..Len(svc), new : 0..Len(svc), saves : BOOLEAN,
   list : Seq(1..Len(cfg)), data : Seq(Config)]

\* The objects and the services, once a request that takes capture has cleared it.
OldConfigs(capture) == IF capture THEN ClearedConfigs ELSE cfg
OldServices(capture) == IF capture THEN ClearedServices ELSE svc

\* The service of the k-th registered object.
ServedBy(k) == serving[cfg[configs[k]].serial]

\* The two dicts have the same serials, each serial one object and one service, and
\* the service its object's value of capture.
Agree ==
  \A k \in 1..Len(configs) : ServedBy(k) # 0 /\ svc[ServedBy(k)].capture = cfg[configs[k]].capture

Distinct(list) ==
  \A j, k \in 1..Len(list) : cfg[list[j]].serial = cfg[list[k]].serial => j = k

Registered(s) == \E k \in 1..Len(configs) : cfg[configs[k]].serial = s

SameSerials == \A s \in Serials : Known(s) <=> Registered(s)

OwnService == \A s, u \in Serials : Known(s) /\ serving[s] = serving[u] => s = u

OneCapture ==
  \A j, k \in 1..Len(configs) : cfg[configs[j]].capture /\ cfg[configs[k]].capture => j = k

Dicts == Distinct(configs) /\ SameSerials /\ OwnService /\ OneCapture /\ Agree

\* Some printer is served by service i; a request is going to start it, or to stop it.
Served(i) == \E s \in Serials : serving[s] = i
WillServe(i) == \E s \in Serials : serving'[s] = i
Starter(i) == \E t \in Threads : call[t].pc \in {"stop", "start"} /\ call[t].new = i
Stopper(i) == \E t \in Threads : At(t, "stop") /\ call[t].old = i

\* What a request holds: a service to stop that serves nobody any more, a service to
\* start, the lock of the save.
Calls ==
  \A t \in Threads :
    /\ At(t, "stop") => call[t].old # 0 /\ ~Served(call[t].old)
    /\ At(t, "start") => call[t].new # 0
    /\ At(t, "saving") <=> persistLock = t
    /\ ~At(t, "saving") => call[t].data = <<>>

\* A service in the dict has been told to stop by nobody and is started, now or
\* soon; any other has been told to stop or soon will be.
Services ==
  \A i \in 1..Len(svc) :
    IF Served(i) THEN /\ ~svc[i].stopped
                      /\ svc[i].phase = "new" => Starter(i)
                 ELSE svc[i].stopped \/ Stopper(i)

---------------------------------------------------------------------------
(* The helpers.                                                            *)

LEMMA Made ==
  ASSUME NEW S, NEW n \in Nat, NEW f \in [1..n -> S]
  PROVE  f \in Seq(S) /\ Len(f) = n
  OBVIOUS

LEMMA Types ==
  ASSUME TypeOK
  PROVE  /\ cfg \in Seq(Config) /\ Len(cfg) \in Nat /\ DOMAIN cfg = 1..Len(cfg)
         /\ configs \in Seq(1..Len(cfg)) /\ Len(configs) \in Nat /\ DOMAIN configs = 1..Len(configs)
         /\ \A k \in 1..Len(configs) : configs[k] \in 1..Len(cfg)
         /\ \A o \in 1..Len(cfg) :
              cfg[o] \in Config /\ cfg[o].serial \in Serials /\ cfg[o].capture \in BOOLEAN
         /\ svc \in Seq(Service) /\ Len(svc) \in Nat /\ DOMAIN svc = 1..Len(svc)
         /\ \A i \in 1..Len(svc) : svc[i] \in Service
         /\ serving \in [Serials -> 0..Len(svc)]
         /\ file \in Seq(Config)
         /\ call \in [Threads -> Call]
  <1>1. /\ cfg \in Seq(Config) /\ configs \in Seq(1..Len(cfg)) /\ svc \in Seq(Service)
        /\ serving \in [Serials -> 0..Len(svc)] /\ file \in Seq(Config)
        /\ call \in [Threads -> Call]
    BY DEF TypeOK, Call
  <1>2. \A r \in Config : r.serial \in Serials /\ r.capture \in BOOLEAN
    BY DEF Config
  <1>3. \A o \in 1..Len(cfg) : cfg[o] \in Config
    BY <1>1, ElementOfSeq
  <1>4. \A k \in 1..Len(configs) : configs[k] \in 1..Len(cfg)
    BY <1>1, ElementOfSeq
  <1>5. \A i \in 1..Len(svc) : svc[i] \in Service
    BY <1>1, ElementOfSeq
  <1> QED
    BY <1>1, <1>2, <1>3, <1>4, <1>5, LenProperties

LEMMA ServedAre ==
  ASSUME TypeOK, Agree
  PROVE  \A k \in 1..Len(configs) : ServedBy(k) \in 1..Len(svc)
  <1> SUFFICES ASSUME NEW k \in 1..Len(configs)
               PROVE  ServedBy(k) \in 1..Len(svc)
    OBVIOUS
  <1>1. cfg[configs[k]].serial \in Serials
    <2>1. configs[k] \in 1..Len(cfg)
      BY Types
    <2> QED
      BY <2>1, Types
  <1>2. ServedBy(k) \in 0..Len(svc) /\ Len(svc) \in Nat
    <2>1. serving \in [Serials -> 0..Len(svc)] /\ Len(svc) \in Nat
      BY Types
    <2> QED
      BY <1>1, <2>1 DEF ServedBy
  <1>3. ServedBy(k) # 0
    BY DEF Agree
  <1> QED
    BY <1>2, <1>3

LEMMA UncapturedIs ==
  /\ \A r \in Config : Uncaptured(r) \in Config /\ Uncaptured(r).serial = r.serial
                       /\ ~Uncaptured(r).capture
  /\ \A r \in Service :
       /\ Uncaptured(r) \in Service /\ ~Uncaptured(r).capture
       /\ Uncaptured(r).stopped = r.stopped /\ Uncaptured(r).unlucky = r.unlucky
       /\ Uncaptured(r).phase = r.phase
  BY DEF Uncaptured, Config, Service

\* _clear_capture() keeps every object, and none that is registered has capture.
LEMMA ConfigsCleared ==
  ASSUME TypeOK, NEW capture \in BOOLEAN
  PROVE  LET old == OldConfigs(capture)
         IN /\ old \in Seq(Config) /\ Len(old) = Len(cfg)
            /\ \A o \in 1..Len(cfg) : old[o].serial = cfg[o].serial
            /\ ~capture => old = cfg
            /\ capture => \A k \in 1..Len(configs) : ~old[configs[k]].capture
  <1> DEFINE e(o) == IF o \in ToSet(configs) THEN Uncaptured(cfg[o]) ELSE cfg[o]
             f == [o \in 1..Len(cfg) |-> e(o)]
  <1>1. ClearedConfigs = f
    BY Types DEF ClearedConfigs
  <1>2. \A o \in 1..Len(cfg) : e(o) \in Config /\ e(o).serial = cfg[o].serial
    BY Types, UncapturedIs
  <1>3. \A k \in 1..Len(configs) : ~e(configs[k]).capture
    BY Types, UncapturedIs DEF ToSet
  <1> HIDE DEF e
  <1>4. f \in [1..Len(cfg) -> Config] /\ \A o \in 1..Len(cfg) : f[o] = e(o)
    BY <1>2
  <1> HIDE DEF f
  <1>5. f \in Seq(Config) /\ Len(f) = Len(cfg)
    BY <1>4, Types, Made
  <1>6. CASE capture
    BY <1>1, <1>2, <1>3, <1>4, <1>5, <1>6, Types DEF OldConfigs
  <1>7. CASE ~capture
    BY <1>7, Types DEF OldConfigs
  <1> QED
    BY <1>6, <1>7

\* It keeps every service too, and no service of a registered object has capture.
LEMMA ServicesCleared ==
  ASSUME TypeOK, NEW capture \in BOOLEAN
  PROVE  LET old == OldServices(capture)
         IN /\ old \in Seq(Service) /\ Len(old) = Len(svc)
            /\ \A i \in 1..Len(svc) :
                 /\ old[i].stopped = svc[i].stopped
                 /\ old[i].unlucky = svc[i].unlucky
                 /\ old[i].phase = svc[i].phase
            /\ ~capture => old = svc
            /\ capture /\ Agree => \A k \in 1..Len(configs) : ~old[ServedBy(k)].capture
  <1> DEFINE had(i) == \E o \in ToSet(configs) : cfg[o].capture /\ serving[cfg[o].serial] = i
             e(i) == IF had(i) THEN Uncaptured(svc[i]) ELSE svc[i]
             f == [i \in 1..Len(svc) |-> e(i)]
  <1>1. ClearedServices = f
    BY Types DEF ClearedServices
  <1>2. \A i \in 1..Len(svc) :
          /\ e(i) \in Service
          /\ e(i).stopped = svc[i].stopped /\ e(i).unlucky = svc[i].unlucky
          /\ e(i).phase = svc[i].phase
    BY Types, UncapturedIs
  <1>3. ASSUME Agree, NEW k \in 1..Len(configs)
        PROVE  ServedBy(k) \in 1..Len(svc) /\ ~e(ServedBy(k)).capture
    <2> DEFINE i == ServedBy(k)
    <2>1. i \in 1..Len(svc) /\ svc[i] \in Service
      BY <1>3, Types DEF Agree, ServedBy
    <2>2. cfg[configs[k]].capture => had(i)
      BY Types DEF ToSet, ServedBy
    <2>3. CASE had(i)
      BY <2>1, <2>3, UncapturedIs
    <2>4. CASE ~had(i)
      <3>1. ~cfg[configs[k]].capture
        BY <2>2, <2>4
      <3>2. svc[i].capture = cfg[configs[k]].capture
        BY <1>3 DEF Agree
      <3> HIDE DEF had
      <3> QED
        BY <2>1, <2>4, <3>1, <3>2
    <2> QED
      BY <2>1, <2>3, <2>4
  <1> HIDE DEF e
  <1>4. f \in [1..Len(svc) -> Service] /\ \A i \in 1..Len(svc) : f[i] = e(i)
    BY <1>2
  <1> HIDE DEF f
  <1>5. f \in Seq(Service) /\ Len(f) = Len(svc)
    BY <1>4, Types, Made
  <1>6. CASE capture
    BY <1>1, <1>2, <1>3, <1>4, <1>5, <1>6 DEF OldServices
  <1>7. CASE ~capture
    BY <1>7, Types DEF OldServices
  <1> QED
    BY <1>6, <1>7

LEMMA ObjectIs ==
  ASSUME TypeOK, SameSerials, NEW s \in Serials, Known(s)
  PROVE  /\ Place(s) \in 1..Len(configs)
         /\ Object(s) = configs[Place(s)] /\ Object(s) \in 1..Len(cfg)
         /\ cfg[Object(s)].serial = s
  <1>1. \E k \in DOMAIN configs : cfg[configs[k]].serial = s
    BY Types DEF SameSerials, Registered
  <1>2. Place(s) \in DOMAIN configs /\ cfg[configs[Place(s)]].serial = s
    BY <1>1 DEF Place
  <1> QED
    BY <1>2, Types DEF Object

LEMMA BuiltIs ==
  ASSUME NEW c \in Config
  PROVE  /\ Built(c) \in Service /\ Built(c).capture = c.capture
         /\ ~Built(c).stopped /\ Built(c).phase = "new"
  BY DEF Built, Service, Config

\* The services a step leaves as they are but for capture, and one it builds.
Builds(c) ==
  /\ svc' \in Seq(Service) /\ Len(svc') = Len(svc) + 1
  /\ \A i \in 1..Len(svc) :
       /\ svc'[i].stopped = svc[i].stopped /\ svc'[i].unlucky = svc[i].unlucky
       /\ svc'[i].phase = svc[i].phase
  /\ svc'[Len(svc) + 1] = Built(c)

LEMMA BuildsOne ==
  ASSUME TypeOK, NEW capture \in BOOLEAN, NEW c \in Config,
         svc' = Append(OldServices(capture), Built(c))
  PROVE  /\ Builds(c)
         /\ \A i \in 1..Len(svc) : svc'[i] = OldServices(capture)[i]
  <1> DEFINE old == OldServices(capture)
  <1>1. /\ old \in Seq(Service) /\ Len(old) = Len(svc)
        /\ \A i \in 1..Len(svc) :
             /\ old[i].stopped = svc[i].stopped /\ old[i].unlucky = svc[i].unlucky
             /\ old[i].phase = svc[i].phase
    BY ServicesCleared
  <1> HIDE DEF old
  <1>2. /\ svc' \in Seq(Service) /\ Len(svc') = Len(old) + 1
        /\ \A i \in 1..Len(old) : svc'[i] = old[i]
        /\ svc'[Len(old) + 1] = Built(c)
    BY <1>1, AppendProperties, BuiltIs DEF old
  <1> QED
    BY <1>1, <1>2 DEF Builds, old

\* add(): the new object comes last, and takes capture from the others if it wants it.
Adds(s, capture) ==
  LET c == [serial |-> s, capture |-> capture]
  IN /\ cfg' \in Seq(Config) /\ Len(cfg') = Len(cfg) + 1
     /\ \A o \in 1..Len(cfg) : cfg'[o].serial = cfg[o].serial
     /\ \A k \in 1..Len(configs) :
          cfg'[configs[k]].capture = IF capture THEN FALSE ELSE cfg[configs[k]].capture
     /\ cfg'[Len(cfg) + 1] = c
     /\ configs' \in Seq(1..Len(cfg')) /\ Len(configs') = Len(configs) + 1
     /\ \A k \in 1..Len(configs) : configs'[k] = configs[k]
     /\ configs'[Len(configs) + 1] = Len(cfg) + 1
     /\ Builds(c)
     /\ \A k \in 1..Len(configs) :
          svc'[ServedBy(k)].capture = IF capture THEN FALSE ELSE svc[ServedBy(k)].capture
     /\ serving' = [serving EXCEPT ![s] = Len(svc) + 1]
     /\ ~Known(s)

LEMMA AddIs ==
  ASSUME TypeOK, Agree,
         NEW t \in Threads, NEW s \in Serials, NEW capture \in BOOLEAN, Add(t, s, capture)
  PROVE  Adds(s, capture)
  <1> DEFINE c == [serial |-> s, capture |-> capture]
             old == OldConfigs(capture)
             others == OldServices(capture)
  <1>1. c \in Config /\ c.serial = s /\ c.capture = capture
    BY DEF Config
  <1>2. /\ old \in Seq(Config) /\ Len(old) = Len(cfg)
        /\ \A o \in 1..Len(cfg) : old[o].serial = cfg[o].serial
        /\ ~capture => old = cfg
        /\ capture => \A k \in 1..Len(configs) : ~old[configs[k]].capture
    BY ConfigsCleared
  <1>3. /\ ~capture => others = svc
        /\ capture => \A k \in 1..Len(configs) : ~others[ServedBy(k)].capture
    BY ServicesCleared
  <1>4. /\ cfg' = Append(old, c) /\ configs' = Append(configs, Len(cfg) + 1)
        /\ svc' = Append(others, Built(c))
        /\ serving' = [serving EXCEPT ![s] = Len(svc) + 1] /\ ~Known(s)
    BY DEF Add, OldConfigs, OldServices
  <1> HIDE DEF c, old, others
  <1>5. /\ cfg' \in Seq(Config) /\ Len(cfg') = Len(cfg) + 1
        /\ \A o \in 1..Len(cfg) : cfg'[o] = old[o]
        /\ cfg'[Len(cfg) + 1] = c
    BY <1>1, <1>2, <1>4, AppendProperties
  <1>6. /\ configs' \in Seq(1..Len(cfg')) /\ Len(configs') = Len(configs) + 1
        /\ \A k \in 1..Len(configs) : configs'[k] = configs[k]
        /\ configs'[Len(configs) + 1] = Len(cfg) + 1
    <2>1. configs \in Seq(1..Len(cfg')) /\ Len(cfg) + 1 \in 1..Len(cfg')
      BY <1>5, Types, SeqMonotonic
    <2> QED
      BY <1>4, <2>1, AppendProperties
  <1>7. Builds(c) /\ \A i \in 1..Len(svc) : svc'[i] = others[i]
    <2>1. c \in Config
      BY <1>1
    <2>2. svc' = Append(OldServices(capture), Built(c))
      BY <1>4 DEF others
    <2> QED
      BY <2>1, <2>2, BuildsOne DEF others
  <1>8. \A k \in 1..Len(configs) : ServedBy(k) \in 1..Len(svc)
    BY ServedAre
  <1>9. \A k \in 1..Len(configs) :
          /\ cfg'[configs[k]].capture = IF capture THEN FALSE ELSE cfg[configs[k]].capture
          /\ svc'[ServedBy(k)].capture = IF capture THEN FALSE ELSE svc[ServedBy(k)].capture
    <2> SUFFICES ASSUME NEW k \in 1..Len(configs)
                 PROVE  /\ cfg'[configs[k]].capture = IF capture THEN FALSE ELSE cfg[configs[k]].capture
                        /\ svc'[ServedBy(k)].capture = IF capture THEN FALSE ELSE svc[ServedBy(k)].capture
      OBVIOUS
    <2>1. cfg'[configs[k]] = old[configs[k]] /\ old[configs[k]].capture \in BOOLEAN
      <3>1. configs[k] \in 1..Len(cfg)
        BY Types
      <3>2. old[configs[k]] \in Config
        BY <1>2, <3>1, ElementOfSeq
      <3> QED
        BY <1>5, <3>1, <3>2 DEF Config
    <2>2. svc'[ServedBy(k)] = others[ServedBy(k)] /\ svc'[ServedBy(k)].capture \in BOOLEAN
      <3>1. svc'[ServedBy(k)] \in Service
        BY <1>7, <1>8, Types, ElementOfSeq DEF Builds
      <3> QED
        BY <1>7, <1>8, <3>1 DEF Service
    <2>3. CASE capture
      <3>1. ~old[configs[k]].capture /\ ~others[ServedBy(k)].capture
        BY <1>2, <1>3, <2>3
      <3> QED
        BY <2>1, <2>2, <2>3, <3>1
    <2>4. CASE ~capture
      BY <1>2, <1>3, <2>1, <2>2, <2>4
    <2> QED
      BY <2>3, <2>4
  <1> QED
    BY <1>2, <1>4, <1>5, <1>6, <1>7, <1>9 DEF Adds, c

LEMMA Removed ==
  ASSUME NEW S, NEW l \in Seq(S), NEW p \in 1..Len(l)
  PROVE  /\ RemoveAt(l, p) \in Seq(S) /\ Len(RemoveAt(l, p)) = Len(l) - 1
         /\ \A k \in 1..(Len(l) - 1) : RemoveAt(l, p)[k] = IF k < p THEN l[k] ELSE l[k + 1]
  <1> DEFINE a == SubSeq(l, 1, p - 1)
             b == SubSeq(l, p + 1, Len(l))
  <1>1. \A i \in 1..Len(l) : l[i] \in S
    BY ElementOfSeq
  <1>2. /\ a \in Seq(S) /\ Len(a) = p - 1
        /\ \A i \in 1..(p - 1) : a[i] = l[i]
    <2>1. 1 \in Int /\ p - 1 \in Int /\ \A i \in 1..(p - 1) : l[i] \in S
      BY <1>1
    <2>2. /\ a \in Seq(S) /\ Len(a) = IF 1 <= p - 1 THEN (p - 1) - 1 + 1 ELSE 0
          /\ \A i \in 1..((p - 1) - 1 + 1) : a[i] = l[1 + i - 1]
      BY <2>1, SubSeqProperties
    <2> HIDE DEF a
    <2> QED
      BY <2>2
  <1>3. /\ b \in Seq(S) /\ Len(b) = Len(l) - p
        /\ \A i \in 1..(Len(l) - p) : b[i] = l[p + i]
    <2>1. p + 1 \in Int /\ Len(l) \in Int /\ \A i \in (p + 1)..Len(l) : l[i] \in S
      BY <1>1
    <2>2. /\ b \in Seq(S) /\ Len(b) = IF p + 1 <= Len(l) THEN Len(l) - (p + 1) + 1 ELSE 0
          /\ \A i \in 1..(Len(l) - (p + 1) + 1) : b[i] = l[(p + 1) + i - 1]
      BY <2>1, SubSeqProperties
    <2> HIDE DEF b
    <2> QED
      BY <2>2
  <1>4. RemoveAt(l, p) = a \o b
    BY DEF RemoveAt
  <1> HIDE DEF a, b
  <1>5. /\ a \o b \in Seq(S) /\ Len(a \o b) = Len(a) + Len(b)
        /\ \A i \in 1..(Len(a) + Len(b)) :
             (a \o b)[i] = IF i <= Len(a) THEN a[i] ELSE b[i - Len(a)]
    BY <1>2, <1>3, ConcatProperties
  <1>6. ASSUME NEW k \in 1..(Len(l) - 1)
        PROVE  (a \o b)[k] = IF k < p THEN l[k] ELSE l[k + 1]
    <2>1. CASE k < p
      <3>1. k \in 1..(p - 1) /\ k <= Len(a) /\ k \in 1..(Len(a) + Len(b))
        BY <1>2, <1>3, <2>1
      <3> QED
        BY <1>2, <1>5, <2>1, <3>1
    <2>2. CASE ~(k < p)
      <3>1. /\ k - Len(a) \in 1..(Len(l) - p) /\ ~(k <= Len(a)) /\ k \in 1..(Len(a) + Len(b))
            /\ p + (k - Len(a)) = k + 1
        BY <1>2, <1>3, <2>2
      <3>2. (a \o b)[k] = b[k - Len(a)]
        BY <1>5, <3>1
      <3>3. b[k - Len(a)] = l[p + (k - Len(a))]
        BY <1>3, <3>1
      <3> QED
        BY <2>2, <3>1, <3>2, <3>3
    <2> QED
      BY <2>1, <2>2
  <1>7. Len(a) + Len(b) = Len(l) - 1
    BY <1>2, <1>3
  <1> QED
    BY <1>4, <1>5, <1>6, <1>7

\* update(): the object keeps its place and its serial; a service that is built
\* replaces the old one, and one that is not is told of capture.
Updates(s, rebuild, capture) ==
  LET p == Place(s)
  IN /\ Known(s) /\ p \in 1..Len(configs) /\ cfg[configs[p]].serial = s
     /\ cfg' \in Seq(Config) /\ Len(cfg') = Len(cfg)
     /\ \A o \in 1..Len(cfg) : cfg'[o].serial = cfg[o].serial
     /\ cfg'[configs[p]].capture = capture
     /\ \A k \in 1..Len(configs) : configs[k] # configs[p] =>
          cfg'[configs[k]].capture = IF capture THEN FALSE ELSE cfg[configs[k]].capture
     /\ configs' = configs
     /\ rebuild => /\ Builds([serial |-> s, capture |-> capture])
                   /\ serving' = [serving EXCEPT ![s] = Len(svc) + 1]
     /\ ~rebuild =>
          /\ svc' \in Seq(Service) /\ Len(svc') = Len(svc)
          /\ \A i \in 1..Len(svc) :
               /\ svc'[i].stopped = svc[i].stopped /\ svc'[i].unlucky = svc[i].unlucky
               /\ svc'[i].phase = svc[i].phase
          /\ serving' = serving
          /\ svc'[serving[s]].capture = capture
     /\ \A k \in 1..Len(configs) : ServedBy(k) # serving[s] =>
          svc'[ServedBy(k)].capture = IF capture THEN FALSE ELSE svc[ServedBy(k)].capture

LEMMA UpdateIs ==
  ASSUME TypeOK, SameSerials, OwnService, Agree,
         NEW t \in Threads, NEW s \in Serials, NEW rebuild \in BOOLEAN,
         NEW capture \in BOOLEAN, Update(t, s, rebuild, capture)
  PROVE  Updates(s, rebuild, capture)
  <1> DEFINE c == [serial |-> s, capture |-> capture]
             old == OldConfigs(capture)
             others == OldServices(capture)
             p == Place(s)
             o == configs[p]
  <1>1. c \in Config /\ c.serial = s /\ c.capture = capture
    BY DEF Config
  <1>2. /\ old \in Seq(Config) /\ Len(old) = Len(cfg)
        /\ \A q \in 1..Len(cfg) : old[q].serial = cfg[q].serial
        /\ ~capture => old = cfg
        /\ capture => \A k \in 1..Len(configs) : ~old[configs[k]].capture
    BY ConfigsCleared
  <1>3. /\ others \in Seq(Service) /\ Len(others) = Len(svc)
        /\ \A i \in 1..Len(svc) :
             /\ others[i].stopped = svc[i].stopped /\ others[i].unlucky = svc[i].unlucky
             /\ others[i].phase = svc[i].phase
        /\ ~capture => others = svc
        /\ capture => \A k \in 1..Len(configs) : ~others[ServedBy(k)].capture
    BY ServicesCleared
  <1>4. Known(s)
    BY DEF Update
  <1>5. /\ p \in 1..Len(configs) /\ cfg[o].serial = s
        /\ Object(s) = o /\ o \in 1..Len(cfg)
    BY <1>4, ObjectIs
  <1>6. /\ cfg' = [old EXCEPT ![o] = c] /\ UNCHANGED configs
        /\ rebuild => svc' = Append(others, Built(c)) /\ serving' = [serving EXCEPT ![s] = Len(svc) + 1]
        /\ ~rebuild => svc' = [others EXCEPT ![serving[s]].capture = capture] /\ UNCHANGED serving
    BY <1>5 DEF Update, OldConfigs, OldServices
  <1> HIDE DEF c, old, others, p
  <1>7. /\ cfg' \in Seq(Config) /\ Len(cfg') = Len(cfg)
        /\ \A q \in 1..Len(cfg) : cfg'[q] = IF q = o THEN c ELSE old[q]
    BY <1>1, <1>2, <1>5, <1>6, ExceptSeq
  <1>8. \A k \in 1..Len(configs) : ServedBy(k) \in 1..Len(svc)
    BY ServedAre
  <1>9. serving[s] \in 1..Len(svc)
    BY <1>4, Types DEF Known
  <1>10. /\ svc' \in Seq(Service)
         /\ \A i \in 1..Len(svc) :
              /\ svc'[i].stopped = svc[i].stopped /\ svc'[i].unlucky = svc[i].unlucky
              /\ svc'[i].phase = svc[i].phase
              /\ i # serving[s] => svc'[i] = others[i]
         /\ rebuild => Builds(c)
         /\ ~rebuild => Len(svc') = Len(svc) /\ svc'[serving[s]].capture = capture
    <2>1. CASE rebuild
      <3>1. c \in Config
        BY <1>1
      <3>2. svc' = Append(OldServices(capture), Built(c))
        BY <1>6, <2>1 DEF others
      <3>3. Builds(c) /\ \A i \in 1..Len(svc) : svc'[i] = others[i]
        BY <3>1, <3>2, BuildsOne DEF others
      <3> QED
        BY <2>1, <3>3 DEF Builds
    <2>2. CASE ~rebuild
      <3> DEFINE r == [others[serving[s]] EXCEPT !.capture = capture]
      <3>1. others[serving[s]] \in Service
        BY <1>3, <1>9, ElementOfSeq
      <3>2. /\ r \in Service /\ r.capture = capture
            /\ r.stopped = others[serving[s]].stopped /\ r.unlucky = others[serving[s]].unlucky
            /\ r.phase = others[serving[s]].phase
        BY <3>1 DEF Service
      <3>3. svc' = [others EXCEPT ![serving[s]] = r]
        BY <1>6, <2>2
      <3> HIDE DEF r
      <3>4. /\ svc' \in Seq(Service) /\ Len(svc') = Len(svc)
            /\ \A i \in 1..Len(svc) : svc'[i] = IF i = serving[s] THEN r ELSE others[i]
        BY <1>3, <1>9, <3>2, <3>3, ExceptSeq
      <3> QED
        BY <1>3, <1>9, <2>2, <3>2, <3>4
    <2> QED
      BY <2>1, <2>2
  <1>11. ASSUME NEW k \in 1..Len(configs), configs[k] # o
         PROVE  cfg'[configs[k]].capture = IF capture THEN FALSE ELSE cfg[configs[k]].capture
    <2>1. configs[k] \in 1..Len(cfg)
      BY Types
    <2>2. cfg'[configs[k]] = old[configs[k]] /\ old[configs[k]].capture \in BOOLEAN
      <3>1. old[configs[k]] \in Config
        BY <1>2, <2>1, ElementOfSeq
      <3> QED
        BY <1>7, <1>11, <2>1, <3>1 DEF Config
    <2>3. CASE capture
      BY <1>2, <2>2, <2>3
    <2>4. CASE ~capture
      BY <1>2, <2>2, <2>4
    <2> QED
      BY <2>3, <2>4
  <1>12. ASSUME NEW k \in 1..Len(configs), ServedBy(k) # serving[s]
         PROVE  svc'[ServedBy(k)].capture = IF capture THEN FALSE ELSE svc[ServedBy(k)].capture
    <2>1. svc'[ServedBy(k)] = others[ServedBy(k)] /\ others[ServedBy(k)].capture \in BOOLEAN
      <3>1. others[ServedBy(k)] \in Service
        BY <1>3, <1>8, ElementOfSeq
      <3> QED
        BY <1>8, <1>10, <1>12, <3>1 DEF Service
    <2>2. CASE capture
      BY <1>3, <2>1, <2>2
    <2>3. CASE ~capture
      BY <1>3, <2>1, <2>3
    <2> QED
      BY <2>2, <2>3
  <1>13. /\ \A q \in 1..Len(cfg) : cfg'[q].serial = cfg[q].serial
         /\ cfg'[o].capture = capture
    BY <1>1, <1>2, <1>5, <1>7
  <1>14. rebuild => serving' = [serving EXCEPT ![s] = Len(svc) + 1]
    BY <1>6
  <1>15. ~rebuild => UNCHANGED serving
    BY <1>6
  <1> HIDE DEF o
  <1> QED
    BY <1>4, <1>5, <1>6, <1>7, <1>10, <1>11, <1>12, <1>13, <1>14, <1>15 DEF Updates, c, o, p

---------------------------------------------------------------------------
(* What a request does to everything but the agreement of the dicts.       *)

\* The thread will have saved what is in memory now.
WillSave(t) == At(t, "persist") \/ (call[t].pc \in {"stop", "start"} /\ call[t].saves)

SerialsKept ==
  /\ cfg' \in Seq(Config) /\ Len(cfg') \in Nat /\ Len(cfg) <= Len(cfg')
  /\ \A o \in 1..Len(cfg) : cfg'[o].serial = cfg[o].serial

\* Every service is left as it is but for capture; at most one is built, which its
\* request is going to start.
ServicesKept(t) ==
  /\ svc' \in Seq(Service) /\ Len(svc') \in {Len(svc), Len(svc) + 1}
  /\ \A i \in 1..Len(svc) :
       /\ svc'[i].stopped = svc[i].stopped /\ svc'[i].unlucky = svc[i].unlucky
       /\ svc'[i].phase = svc[i].phase
  /\ Len(svc') = Len(svc) + 1 =>
       /\ ~svc'[Len(svc) + 1].stopped /\ svc'[Len(svc) + 1].phase = "new"
       /\ WillServe(Len(svc) + 1)
       /\ call'[t].pc \in {"stop", "start"} /\ call'[t].new = Len(svc) + 1

\* A service that its printer loses is the one the request is going to stop.
ServingChanges(t) ==
  /\ serving' \in [Serials -> 0..Len(svc')]
  /\ \A u \in Serials : serving'[u] # serving[u] =>
       /\ serving'[u] \in {0, Len(svc) + 1}
       /\ serving[u] # 0 => call'[t].pc = "stop" /\ call'[t].old = serving[u]

Begins(t) ==
  /\ At(t, "idle")
  /\ call' \in [Threads -> Call']
  /\ \A u \in Threads : u # t => call'[u] = call[u]
  /\ call'[t].pc \in {"stop", "start", "persist"} /\ call'[t].data = <<>>
  /\ call'[t].pc = "stop" => call'[t].old \in 1..Len(svc) /\ ~WillServe(call'[t].old)
  /\ call'[t].pc = "start" => call'[t].new # 0

Requested(t) ==
  /\ SerialsKept /\ configs' \in Seq(1..Len(cfg'))
  /\ ServicesKept(t)
  /\ ServingChanges(t)
  /\ Begins(t)
  /\ UNCHANGED storage
  /\ UNCHANGED <<cfg, configs>> \/ WillSave(t)'

LEMMA CallGrows ==
  ASSUME TypeOK, cfg' \in Seq(Config), Len(cfg) <= Len(cfg'),
         svc' \in Seq(Service), Len(svc) <= Len(svc')
  PROVE  Call \subseteq Call'
  <1>1. Len(cfg) \in Nat /\ Len(cfg') \in Nat /\ Len(svc) \in Nat /\ Len(svc') \in Nat
    BY Types
  <1>2. 1..Len(cfg) \subseteq 1..Len(cfg') /\ 0..Len(svc) \subseteq 0..Len(svc')
    BY <1>1
  <1>3. Seq(1..Len(cfg)) \subseteq Seq(1..Len(cfg'))
    BY <1>2, SeqMonotonic
  <1> DEFINE L == Seq(1..Len(cfg))
             M == Seq(1..Len(cfg'))
             D == Seq(Config)
             O == 0..Len(svc)
             N == 0..Len(svc')
  <1>4. /\ Call = [pc : Phases, old : O, new : O, saves : BOOLEAN, list : L, data : D]
        /\ Call' = [pc : Phases, old : N, new : N, saves : BOOLEAN, list : M, data : D]
    BY DEF Call
  <1>5. L \subseteq M /\ O \subseteq N
    BY <1>2, <1>3
  <1> HIDE DEF L, M, D, O, N
  <1> QED
    BY <1>4, <1>5

Begun(t, pc, old, new, saves) ==
  /\ call' \in [Threads -> Call']
  /\ \A u \in Threads : u # t => call'[u] = call[u]
  /\ call'[t].pc = pc /\ call'[t].old = old /\ call'[t].new = new
  /\ call'[t].saves = saves /\ call'[t].data = <<>>

LEMMA BeginIs ==
  ASSUME TypeOK, cfg' \in Seq(Config), Len(cfg) <= Len(cfg'),
         svc' \in Seq(Service), Len(svc) <= Len(svc'),
         NEW t \in Threads, NEW pc \in Phases, NEW old \in 0..Len(svc'),
         NEW new \in 0..Len(svc'), NEW saves \in BOOLEAN, Begin(t, pc, old, new, saves)
  PROVE  Begun(t, pc, old, new, saves)
  <1> DEFINE r == [NoCall EXCEPT !.pc = pc, !.old = old, !.new = new, !.saves = saves]
  <1>1. call' = [call EXCEPT ![t] = r]
    BY DEF Begin
  <1>2. NoCall \in Call' /\ NoCall.data = <<>>
    <2>1. <<>> \in Seq(1..Len(cfg')) /\ <<>> \in Seq(Config)
      BY EmptySeq
    <2>2. Len(svc') \in Nat
      OBVIOUS
    <2> QED
      BY <2>1, <2>2 DEF Call, NoCall, Phases
  <1>3. r \in Call' /\ r.data = NoCall.data
        /\ r.pc = pc /\ r.old = old /\ r.new = new /\ r.saves = saves
    BY <1>2 DEF Call
  <1>4. call \in [Threads -> Call']
    BY Types, CallGrows
  <1> HIDE DEF r
  <1> QED
    BY <1>1, <1>2, <1>3, <1>4 DEF Begun

LEMMA BuiltAlone ==
  ASSUME TypeOK, NEW t \in Threads, NEW s \in Serials, NEW c \in Config, Builds(c),
         serving' = [serving EXCEPT ![s] = Len(svc) + 1],
         call'[t].pc \in {"stop", "start"}, call'[t].new = Len(svc) + 1,
         serving[s] # 0 => call'[t].pc = "stop" /\ call'[t].old = serving[s]
  PROVE  ServicesKept(t) /\ ServingChanges(t)
  <1>1. serving' \in [Serials -> 0..Len(svc')] /\ serving'[s] = Len(svc) + 1
        /\ \A u \in Serials : u # s => serving'[u] = serving[u]
    BY Types DEF Builds
  <1>2. ServingChanges(t)
    BY <1>1 DEF ServingChanges
  <1>3. WillServe(Len(svc) + 1)
    BY <1>1 DEF WillServe
  <1>4. ~svc'[Len(svc) + 1].stopped /\ svc'[Len(svc) + 1].phase = "new"
    BY BuiltIs DEF Builds
  <1> QED
    BY <1>2, <1>3, <1>4, Types DEF ServicesKept, Builds

LEMMA AddRequested ==
  ASSUME TypeOK, Dicts,
         NEW t \in Threads, NEW s \in Serials, NEW capture \in BOOLEAN, Add(t, s, capture)
  PROVE  Requested(t)
  <1> DEFINE c == [serial |-> s, capture |-> capture]
  <1>1. c \in Config
    BY DEF Config
  <1>2. /\ SerialsKept /\ configs' \in Seq(1..Len(cfg')) /\ Builds(c)
        /\ serving' = [serving EXCEPT ![s] = Len(svc) + 1] /\ serving[s] = 0
    <2>1. Adds(s, capture)
      BY AddIs DEF Dicts
    <2> QED
      BY <2>1, Types DEF Adds, SerialsKept, Known
  <1> HIDE DEF c
  <1>3. svc' \in Seq(Service) /\ Len(svc') = Len(svc) + 1
    BY <1>2 DEF Builds
  <1>4. /\ Begin(t, "start", 0, Len(svc) + 1, TRUE) /\ At(t, "idle") /\ UNCHANGED storage
        /\ "start" \in Phases
    BY DEF Add, Phases
  <1>5. /\ call' \in [Threads -> Call']
        /\ \A u \in Threads : u # t => call'[u] = call[u]
        /\ call'[t].pc = "start" /\ call'[t].new = Len(svc) + 1
        /\ call'[t].saves /\ call'[t].data = <<>>
    <2>1. cfg' \in Seq(Config) /\ Len(cfg) <= Len(cfg') /\ Len(svc) <= Len(svc')
      BY <1>2, <1>3, Types DEF SerialsKept
    <2>2. 0 \in 0..Len(svc') /\ Len(svc) + 1 \in 0..Len(svc')
      BY <1>3, Types
    <2>3. Begun(t, "start", 0, Len(svc) + 1, TRUE)
      BY <1>3, <1>4, <2>1, <2>2, BeginIs
    <2> QED
      BY <2>3 DEF Begun
  <1>6. ServicesKept(t) /\ ServingChanges(t)
    BY <1>1, <1>2, <1>5, BuiltAlone
  <1>7. Begins(t) /\ WillSave(t)'
    BY <1>4, <1>5, Types DEF Begins, WillSave, At
  <1> QED
    BY <1>2, <1>4, <1>6, <1>7 DEF Requested

LEMMA UpdateRequested ==
  ASSUME TypeOK, Dicts,
         NEW t \in Threads, NEW s \in Serials, NEW rebuild \in BOOLEAN,
         NEW capture \in BOOLEAN, Update(t, s, rebuild, capture)
  PROVE  Requested(t)
  <1> DEFINE c == [serial |-> s, capture |-> capture]
  <1>1. c \in Config
    BY DEF Config
  <1>2. /\ SerialsKept /\ configs' \in Seq(1..Len(cfg')) /\ serving[s] # 0
        /\ rebuild => Builds(c) /\ serving' = [serving EXCEPT ![s] = Len(svc) + 1]
        /\ ~rebuild =>
             /\ svc' \in Seq(Service) /\ Len(svc') = Len(svc)
             /\ \A i \in 1..Len(svc) :
                  /\ svc'[i].stopped = svc[i].stopped /\ svc'[i].unlucky = svc[i].unlucky
                  /\ svc'[i].phase = svc[i].phase
             /\ UNCHANGED serving
    <2>0. Updates(s, rebuild, capture)
      BY UpdateIs DEF Dicts
    <2>1. SerialsKept /\ Len(cfg') = Len(cfg) /\ UNCHANGED configs /\ serving[s] # 0
      BY <2>0, Types DEF Updates, SerialsKept, Known
    <2>2. configs' \in Seq(1..Len(cfg'))
      BY <2>1, Types
    <2>3. rebuild => Builds(c) /\ serving' = [serving EXCEPT ![s] = Len(svc) + 1]
      BY <2>0 DEF Updates
    <2>4. ~rebuild =>
             /\ svc' \in Seq(Service) /\ Len(svc') = Len(svc)
             /\ \A i \in 1..Len(svc) :
                  /\ svc'[i].stopped = svc[i].stopped /\ svc'[i].unlucky = svc[i].unlucky
                  /\ svc'[i].phase = svc[i].phase
             /\ UNCHANGED serving
      BY <2>0 DEF Updates
    <2> QED
      BY <2>1, <2>2, <2>3, <2>4
  <1> HIDE DEF c
  <1>3. svc' \in Seq(Service) /\ Len(svc) <= Len(svc') /\ (rebuild => Len(svc') = Len(svc) + 1)
    BY <1>2, Types DEF Builds
  <1>4. cfg' \in Seq(Config) /\ Len(cfg) <= Len(cfg')
    BY <1>2 DEF SerialsKept
  <1>5. /\ At(t, "idle") /\ UNCHANGED storage
        /\ rebuild => Begin(t, "stop", serving[s], Len(svc) + 1, TRUE)
        /\ ~rebuild => Begin(t, "persist", 0, 0, FALSE)
        /\ "stop" \in Phases /\ "persist" \in Phases
    BY DEF Update, Phases
  <1>6. serving[s] \in 1..Len(svc)
    BY <1>2, Types
  <1>7. CASE rebuild
    <2>1. /\ call' \in [Threads -> Call']
          /\ \A u \in Threads : u # t => call'[u] = call[u]
          /\ call'[t].pc = "stop" /\ call'[t].old = serving[s] /\ call'[t].new = Len(svc) + 1
          /\ call'[t].saves /\ call'[t].data = <<>>
      <3>1. serving[s] \in 0..Len(svc') /\ Len(svc) + 1 \in 0..Len(svc')
        BY <1>3, <1>6, <1>7, Types
      <3>2. Begun(t, "stop", serving[s], Len(svc) + 1, TRUE)
        BY <1>3, <1>4, <1>5, <1>7, <3>1, BeginIs
      <3> QED
        BY <3>2 DEF Begun
    <2>2. ServicesKept(t) /\ ServingChanges(t)
      BY <1>1, <1>2, <1>7, <2>1, BuiltAlone
    <2>3. ~WillServe(serving[s])
      <3>1. \A u \in Serials : serving'[u] = IF u = s THEN Len(svc) + 1 ELSE serving[u]
        BY <1>2, <1>7, Types
      <3>2. \A u \in Serials : serving'[u] # serving[s]
        BY <1>2, <1>6, <3>1, Types DEF Dicts, OwnService, Known
      <3> QED
        BY <1>2, <1>7, <3>1, <3>2, Types DEF WillServe
    <2>4. Begins(t) /\ WillSave(t)'
      BY <1>5, <1>6, <2>1, <2>3 DEF Begins, WillSave, At
    <2> QED
      BY <1>2, <1>5, <2>2, <2>4 DEF Requested
  <1>8. CASE ~rebuild
    <2>1. /\ call' \in [Threads -> Call']
          /\ \A u \in Threads : u # t => call'[u] = call[u]
          /\ call'[t].pc = "persist" /\ call'[t].data = <<>>
      <3>1. 0 \in 0..Len(svc')
        BY <1>3, Types
      <3>2. Begun(t, "persist", 0, 0, FALSE)
        BY <1>3, <1>4, <1>5, <1>8, <3>1, BeginIs
      <3> QED
        BY <3>2 DEF Begun
    <2>2. ServicesKept(t) /\ ServingChanges(t)
      BY <1>2, <1>8, Types DEF ServicesKept, ServingChanges
    <2>3. Begins(t) /\ WillSave(t)'
      BY <1>5, <2>1 DEF Begins, WillSave, At
    <2> QED
      BY <1>2, <1>5, <2>2, <2>3 DEF Requested
  <1> QED
    BY <1>7, <1>8

\* remove(): the objects behind the one that goes move up by one place.
Removes(s) ==
  LET p == Place(s)
  IN /\ Known(s) /\ p \in 1..Len(configs) /\ cfg[configs[p]].serial = s
     /\ configs' \in Seq(1..Len(cfg)) /\ Len(configs') = Len(configs) - 1
     /\ \A k \in 1..(Len(configs) - 1) :
          configs'[k] = IF k < p THEN configs[k] ELSE configs[k + 1]
     /\ serving' = [serving EXCEPT ![s] = 0]
     /\ cfg' = cfg /\ svc' = svc

LEMMA RemoveIs ==
  ASSUME TypeOK, SameSerials, NEW t \in Threads, NEW s \in Serials, RemovePrinter(t, s)
  PROVE  Removes(s)
  <1>1. /\ Known(s) /\ configs' = RemoveAt(configs, Place(s))
        /\ serving' = [serving EXCEPT ![s] = 0] /\ cfg' = cfg /\ svc' = svc
    BY DEF RemovePrinter
  <1>2. Place(s) \in 1..Len(configs) /\ cfg[configs[Place(s)]].serial = s
    BY <1>1, ObjectIs
  <1>3. configs \in Seq(1..Len(cfg))
    BY Types
  <1>4. /\ configs' \in Seq(1..Len(cfg)) /\ Len(configs') = Len(configs) - 1
        /\ \A k \in 1..(Len(configs) - 1) :
             configs'[k] = IF k < Place(s) THEN configs[k] ELSE configs[k + 1]
    BY <1>1, <1>2, <1>3, Removed
  <1> QED
    BY <1>1, <1>2, <1>4 DEF Removes

LEMMA RemoveRequested ==
  ASSUME TypeOK, Dicts, NEW t \in Threads, NEW s \in Serials, RemovePrinter(t, s)
  PROVE  Requested(t)
  <1>1. Removes(s)
    BY RemoveIs DEF Dicts
  <1>2. /\ serving[s] \in 1..Len(svc) /\ svc' = svc /\ cfg' = cfg
        /\ \A u \in Serials : serving'[u] = IF u = s THEN 0 ELSE serving[u]
    BY <1>1, Types DEF Removes, Known
  <1>3. SerialsKept /\ configs' \in Seq(1..Len(cfg'))
    BY <1>1, Types DEF Removes, SerialsKept
  <1>4. /\ Begin(t, "stop", serving[s], 0, TRUE) /\ At(t, "idle") /\ UNCHANGED storage
        /\ "stop" \in Phases
    BY DEF RemovePrinter, Phases
  <1>5. Begun(t, "stop", serving[s], 0, TRUE)
    <2>1. /\ cfg' \in Seq(Config) /\ Len(cfg) <= Len(cfg')
          /\ svc' \in Seq(Service) /\ Len(svc) <= Len(svc')
          /\ serving[s] \in 0..Len(svc') /\ 0 \in 0..Len(svc')
      BY <1>2, Types
    <2> QED
      BY <1>4, <2>1, BeginIs
  <1>6. ~WillServe(serving[s])
    BY <1>2 DEF WillServe, Dicts, OwnService, Known
  <1>7. Begins(t) /\ WillSave(t)'
    BY <1>2, <1>4, <1>5, <1>6 DEF Begun, Begins, WillSave, At
  <1>8. ServicesKept(t)
    <2>1. svc' \in Seq(Service) /\ Len(svc') = Len(svc) /\ Len(svc') # Len(svc) + 1
      <3>1. svc \in Seq(Service) /\ Len(svc) \in Nat
        BY Types
      <3>2. svc' = svc
        BY <1>2
      <3> QED
        BY <3>1, <3>2
    <2> QED
      BY <1>2, <2>1 DEF ServicesKept
  <1>9. ServingChanges(t)
    <2>1. serving' \in [Serials -> 0..Len(svc')]
      BY <1>1, <1>2, Types DEF Removes
    <2> QED
      BY <1>2, <1>5, <2>1 DEF ServingChanges, Begun
  <1> QED
    BY <1>3, <1>4, <1>7, <1>8, <1>9 DEF Requested

\* reconnect(): a service for the configuration as it is.
Reconnects(s) ==
  LET p == Place(s)
  IN /\ Known(s) /\ p \in 1..Len(configs) /\ cfg[configs[p]].serial = s
     /\ cfg' = cfg /\ configs' = configs
     /\ cfg[configs[p]] \in Config /\ Builds(cfg[configs[p]])
     /\ \A i \in 1..Len(svc) : svc'[i] = svc[i]
     /\ serving' = [serving EXCEPT ![s] = Len(svc) + 1]

LEMMA ReconnectIs ==
  ASSUME TypeOK, SameSerials, NEW t \in Threads, NEW s \in Serials, Reconnect(t, s)
  PROVE  Reconnects(s)
  <1>1. /\ Known(s) /\ cfg' = cfg /\ configs' = configs
        /\ svc' = Append(svc, Built(cfg[Object(s)]))
        /\ serving' = [serving EXCEPT ![s] = Len(svc) + 1]
    BY DEF Reconnect
  <1> DEFINE c == cfg[configs[Place(s)]]
  <1>2. /\ Place(s) \in 1..Len(configs) /\ c.serial = s
        /\ cfg[Object(s)] = c /\ c \in Config
    <2>1. /\ Place(s) \in 1..Len(configs) /\ Object(s) = configs[Place(s)]
          /\ Object(s) \in 1..Len(cfg) /\ cfg[Object(s)].serial = s
      BY <1>1, ObjectIs
    <2> QED
      BY <2>1, Types
  <1> HIDE DEF c
  <1>3. svc' = Append(OldServices(FALSE), Built(c))
    BY <1>1, <1>2 DEF OldServices
  <1>4. Builds(c) /\ \A i \in 1..Len(svc) : svc'[i] = OldServices(FALSE)[i]
    BY <1>2, <1>3, BuildsOne
  <1> QED
    BY <1>1, <1>2, <1>4 DEF OldServices, Reconnects, c

LEMMA ReconnectRequested ==
  ASSUME TypeOK, Dicts, NEW t \in Threads, NEW s \in Serials, Reconnect(t, s)
  PROVE  Requested(t)
  <1> DEFINE c == cfg[configs[Place(s)]]
  <1>1. Reconnects(s)
    BY ReconnectIs DEF Dicts
  <1>2. /\ cfg' = cfg /\ configs' = configs /\ c \in Config /\ Builds(c)
        /\ serving' = [serving EXCEPT ![s] = Len(svc) + 1]
        /\ serving[s] \in 1..Len(svc)
    BY <1>1, Types DEF Reconnects, Known
  <1> HIDE DEF c
  <1>3. svc' \in Seq(Service) /\ Len(svc') = Len(svc) + 1
    BY <1>2 DEF Builds
  <1>4. /\ Begin(t, "stop", serving[s], Len(svc) + 1, FALSE) /\ At(t, "idle")
        /\ UNCHANGED storage /\ "stop" \in Phases
    BY DEF Reconnect, Phases
  <1>5. Begun(t, "stop", serving[s], Len(svc) + 1, FALSE)
    <2>1. /\ cfg' \in Seq(Config) /\ Len(cfg) <= Len(cfg') /\ Len(svc) <= Len(svc')
          /\ serving[s] \in 0..Len(svc') /\ Len(svc) + 1 \in 0..Len(svc')
      BY <1>2, <1>3, Types
    <2> QED
      BY <1>3, <1>4, <2>1, BeginIs
  <1>6. ServicesKept(t) /\ ServingChanges(t)
    BY <1>2, <1>5, BuiltAlone DEF Begun
  <1>7. ~WillServe(serving[s])
    <2>1. \A u \in Serials : serving'[u] = IF u = s THEN Len(svc) + 1 ELSE serving[u]
      BY <1>2, Types
    <2>2. Len(svc) + 1 # serving[s]
      BY <1>2, Types
    <2> QED
      BY <1>2, <2>1, <2>2 DEF WillServe, Dicts, OwnService, Known
  <1>8. Begins(t)
    BY <1>2, <1>4, <1>5, <1>7 DEF Begun, Begins, At
  <1>9. SerialsKept /\ configs' \in Seq(1..Len(cfg'))
    BY <1>2, Types DEF SerialsKept
  <1> QED
    BY <1>2, <1>4, <1>6, <1>8, <1>9 DEF Requested

LEMMA RequestIs ==
  ASSUME TypeOK, Dicts, NEW t \in Threads, Request(t)
  PROVE  Requested(t)
  BY AddRequested, UpdateRequested, RemoveRequested, ReconnectRequested DEF Request

---------------------------------------------------------------------------
(* The saves.                                                              *)

DistinctFile(f) == \A i, k \in 1..Len(f) : f[i].serial = f[k].serial => i = k

\* The save under way has read objects of different serials, and has of each an entry
\* with its serial; the file names no serial twice.
Saves ==
  /\ DistinctFile(file)
  /\ \A t \in Threads : At(t, "saving") =>
       /\ Distinct(call[t].list)
       /\ Len(call[t].data) <= Len(call[t].list)
       /\ \A i \in 1..Len(call[t].data) :
            call[t].data[i].serial = cfg[call[t].list[i]].serial

InMemory == [k \in DOMAIN configs |-> cfg[configs[k]]]

\* When no request will still save, the save under way writes what is in memory; or
\* the file has it already, unless the last save failed.
Current ==
  (\A t \in Threads : ~WillSave(t)) =>
    /\ persistLock = NoThread /\ ~lastFailed => Loaded(file) = InMemory
    /\ persistLock # NoThread =>
         /\ call[persistLock].list = configs
         /\ \A i \in 1..Len(call[persistLock].data) :
              call[persistLock].data[i] = cfg[configs[i]]

Typed == TypeOK /\ Dicts
Kept == Calls /\ Services /\ Saves /\ Current /\ StoppedStaysDown

---------------------------------------------------------------------------
(* A request keeps all of it but, so far, the agreement of the dicts.      *)

LEMMA RequestedTypes ==
  ASSUME TypeOK, NEW t \in Threads, Requested(t)
  PROVE  TypeOK'
  <1>1. /\ cfg' \in Seq(Config) /\ configs' \in Seq(1..Len(cfg')) /\ svc' \in Seq(Service)
        /\ serving' \in [Serials -> 0..Len(svc')]
    BY DEF Requested, SerialsKept, ServicesKept, ServingChanges
  <1>2. call' \in [Threads -> [pc : Phases, old : 0..Len(svc'), new : 0..Len(svc'), saves : BOOLEAN,
                               list : Seq(1..Len(cfg')), data : Seq(Config)]]
    BY DEF Requested, Begins, Call
  <1>3. file' = file /\ persistLock' = persistLock /\ lastFailed' = lastFailed
    BY DEF Requested, storage
  <1> QED
    BY <1>1, <1>2, <1>3 DEF TypeOK

LEMMA ServingIs ==
  ASSUME TypeOK, NEW t \in Threads, Requested(t), NEW i \in 1..Len(svc)
  PROVE  /\ WillServe(i) => Served(i)
         /\ Served(i) /\ ~WillServe(i) => call'[t].pc = "stop" /\ call'[t].old = i
  <1>1. \A u \in Serials : serving'[u] # serving[u] =>
          /\ serving'[u] \in {0, Len(svc) + 1}
          /\ serving[u] # 0 => call'[t].pc = "stop" /\ call'[t].old = serving[u]
    BY DEF Requested, ServingChanges
  <1>2. i # 0 /\ i # Len(svc) + 1
    BY Types
  <1> QED
    BY <1>1, <1>2 DEF Served, WillServe

LEMMA RequestedCalls ==
  ASSUME TypeOK, Calls, NEW t \in Threads, Requested(t)
  PROVE  Calls'
  <1> SUFFICES ASSUME NEW u \in Threads
               PROVE  /\ call'[u].pc = "stop" => call'[u].old # 0 /\ ~WillServe(call'[u].old)
                      /\ call'[u].pc = "start" => call'[u].new # 0
                      /\ call'[u].pc = "saving" <=> persistLock' = u
                      /\ call'[u].pc # "saving" => call'[u].data = <<>>
    BY DEF Calls, At, Served, WillServe
  <1>1. persistLock' = persistLock
    BY DEF Requested, storage
  <1>2. CASE u = t
    <2>1. /\ call'[t].pc \in {"stop", "start", "persist"} /\ call'[t].data = <<>>
          /\ call'[t].pc = "stop" => call'[t].old \in 1..Len(svc) /\ ~WillServe(call'[t].old)
          /\ call'[t].pc = "start" => call'[t].new # 0
      BY DEF Requested, Begins
    <2>2. persistLock # t
      BY DEF Requested, Begins, Calls, At
    <2> QED
      BY <1>1, <1>2, <2>1, <2>2
  <1>3. CASE u # t
    <2>1. call'[u] = call[u]
      BY <1>3 DEF Requested, Begins
    <2>2. call[u].pc = "stop" => call[u].old \in 1..Len(svc) /\ ~Served(call[u].old)
      BY Types DEF Calls, At, Call
    <2>3. call[u].pc = "stop" => ~WillServe(call[u].old)
      BY <2>2, ServingIs
    <2> QED
      BY <1>1, <2>1, <2>2, <2>3 DEF Calls, At
  <1> QED
    BY <1>2, <1>3

LEMMA RequestedServices ==
  ASSUME TypeOK, Services, StoppedStaysDown, NEW t \in Threads, Requested(t)
  PROVE  Services' /\ StoppedStaysDown'
  <1>1. ServicesKept(t)
    BY DEF Requested
  <1>2. \A u \in Threads : u # t => call'[u] = call[u]
    BY DEF Requested, Begins
  <1>3. call[t].pc = "idle"
    BY DEF Requested, Begins, At
  <1> DEFINE Starts(i) == \E u \in Threads : call'[u].pc \in {"stop", "start"} /\ call'[u].new = i
             Stops(i) == \E u \in Threads : call'[u].pc = "stop" /\ call'[u].old = i
  <1>4. \A i : Starter(i) => Starts(i)
    BY <1>2, <1>3 DEF Starter
  <1>5. \A i : Stopper(i) => Stops(i)
    BY <1>2, <1>3 DEF Stopper, At
  <1>6. ASSUME NEW i \in 1..Len(svc')
        PROVE  IF WillServe(i) THEN /\ ~svc'[i].stopped
                                    /\ svc'[i].phase = "new" => Starts(i)
                               ELSE svc'[i].stopped \/ Stops(i)
    <2>1. CASE i \in 1..Len(svc)
      <3>1. svc'[i].stopped = svc[i].stopped /\ svc'[i].phase = svc[i].phase
        BY <1>1, <2>1 DEF ServicesKept
      <3>2. IF Served(i) THEN ~svc[i].stopped /\ (svc[i].phase = "new" => Starter(i))
                         ELSE svc[i].stopped \/ Stopper(i)
        BY <2>1 DEF Services
      <3>3. Served(i) /\ ~WillServe(i) => Stops(i)
        BY <2>1, ServingIs
      <3>4. WillServe(i) => Served(i)
        BY <2>1, ServingIs
      <3> HIDE DEF Starts, Stops
      <3> QED
        BY <1>4, <1>5, <3>1, <3>2, <3>3, <3>4
    <2>2. CASE i \notin 1..Len(svc)
      <3>1. i = Len(svc) + 1 /\ Len(svc') = Len(svc) + 1
        BY <1>1, <2>2, Types DEF ServicesKept
      <3> QED
        BY <1>1, <3>1 DEF ServicesKept
    <2> QED
      BY <2>1, <2>2
  <1>7. Services'
    BY <1>6 DEF Services, Served, WillServe, Starter, Stopper, At
  <1>8. ASSUME NEW i \in 1..Len(svc'), svc'[i].stopped, svc'[i].phase \in {"connecting", "looping"}
        PROVE  svc'[i].unlucky
    <2>1. CASE i \in 1..Len(svc)
      <3>1. /\ svc'[i].stopped = svc[i].stopped /\ svc'[i].phase = svc[i].phase
            /\ svc'[i].unlucky = svc[i].unlucky
        BY <1>1, <2>1 DEF ServicesKept
      <3>2. i \in DOMAIN svc
        BY <2>1, Types
      <3> QED
        BY <1>8, <3>1, <3>2 DEF StoppedStaysDown
    <2>2. CASE i \notin 1..Len(svc)
      <3>1. i = Len(svc) + 1 /\ Len(svc') = Len(svc) + 1
        BY <1>1, <2>2, Types DEF ServicesKept
      <3> QED
        BY <1>1, <1>8, <3>1 DEF ServicesKept
    <2> QED
      BY <2>1, <2>2
  <1>9. DOMAIN svc' = 1..Len(svc')
    BY <1>1 DEF ServicesKept
  <1>10. StoppedStaysDown'
    BY <1>8, <1>9 DEF StoppedStaysDown
  <1> QED
    BY <1>7, <1>10

\* No save under way is the request's, and what the saves have read is of objects
\* whose serials stay.
LEMMA SavesKept ==
  ASSUME TypeOK, Saves, SerialsKept, UNCHANGED file, NEW t \in Threads,
         call'[t].pc # "saving", \A u \in Threads : u # t => call'[u] = call[u]
  PROVE  Saves'
  <1>1. DistinctFile(file)'
    BY DEF Saves, DistinctFile
  <1>2. ASSUME NEW u \in Threads, call'[u].pc = "saving"
        PROVE  /\ Distinct(call[u].list)'
               /\ Len(call'[u].data) <= Len(call'[u].list)
               /\ \A i \in 1..Len(call'[u].data) :
                    call'[u].data[i].serial = cfg'[call'[u].list[i]].serial
    <2>1. call'[u] = call[u] /\ At(u, "saving")
      BY <1>2 DEF At
    <2>2. /\ Distinct(call[u].list)
          /\ Len(call[u].data) <= Len(call[u].list)
          /\ \A i \in 1..Len(call[u].data) :
               call[u].data[i].serial = cfg[call[u].list[i]].serial
      BY <2>1 DEF Saves
    <2>3. call[u].list \in Seq(1..Len(cfg)) /\ call[u].data \in Seq(Config)
      BY Types DEF Call
    <2>4. \A i \in 1..Len(call[u].list) :
            call[u].list[i] \in 1..Len(cfg)
            /\ cfg'[call[u].list[i]].serial = cfg[call[u].list[i]].serial
      BY <2>3, ElementOfSeq DEF SerialsKept
    <2>5. \A i \in 1..Len(call[u].data) : i \in 1..Len(call[u].list)
      BY <2>2, <2>3, LenProperties
    <2>6. Distinct(call[u].list)'
      BY <2>1, <2>2, <2>4 DEF Distinct
    <2> QED
      BY <2>1, <2>2, <2>4, <2>5, <2>6
  <1> QED
    BY <1>1, <1>2 DEF Saves, At

LEMMA RequestedSaves ==
  ASSUME TypeOK, Calls, Saves, Current, NEW t \in Threads, Requested(t)
  PROVE  Saves' /\ Current'
  <1>1. Saves'
    BY SavesKept DEF Requested, Begins, storage
  <1>2. Current'
    <2>1. CASE WillSave(t)'
      BY <2>1 DEF Current
    <2>2. CASE UNCHANGED <<cfg, configs>> /\ ~WillSave(t)'
      <3>1. /\ \A u \in Threads : u # t => call'[u] = call[u]
            /\ UNCHANGED <<persistLock, lastFailed, file>>
            /\ call[t].pc = "idle" /\ call'[t].data = <<>>
        BY DEF Requested, Begins, storage, At
      <3>2. (\A u \in Threads : ~WillSave(u)') => \A u \in Threads : ~WillSave(u)
        BY <3>1 DEF WillSave, At
      <3>3. persistLock # NoThread => call'[persistLock] = call[persistLock]
        BY <3>1 DEF Calls, At, TypeOK
      <3>4. Loaded(file)' = Loaded(file)
        BY <3>1 DEF Loaded
      <3>5. InMemory' = InMemory
        BY <2>2 DEF InMemory
      <3>6. SUFFICES ASSUME \A u \in Threads : ~WillSave(u)
                     PROVE  /\ persistLock' = NoThread /\ ~lastFailed' => Loaded(file)' = InMemory'
                            /\ persistLock' # NoThread =>
                                 /\ call'[persistLock'].list = configs'
                                 /\ \A i \in 1..Len(call'[persistLock'].data) :
                                      call'[persistLock'].data[i] = cfg'[configs'[i]]
        BY <3>2 DEF Current
      <3> QED
        BY <2>2, <3>1, <3>3, <3>4, <3>5, <3>6 DEF Current
    <2> QED
      BY <2>1, <2>2 DEF Requested
  <1> QED
    BY <1>1, <1>2

---------------------------------------------------------------------------
(* A request keeps the agreement of the dicts.                             *)

\* What the dicts promise of the next state, object by object.
LEMMA DictsNext ==
  ASSUME \A j, k \in 1..Len(configs') :
           cfg'[configs'[j]].serial = cfg'[configs'[k]].serial => j = k,
         \A s \in Serials : serving'[s] # 0 <=>
           \E k \in 1..Len(configs') : cfg'[configs'[k]].serial = s,
         \A s, u \in Serials : serving'[s] # 0 /\ serving'[s] = serving'[u] => s = u,
         \A j, k \in 1..Len(configs') :
           cfg'[configs'[j]].capture /\ cfg'[configs'[k]].capture => j = k,
         \A k \in 1..Len(configs') :
           LET i == serving'[cfg'[configs'[k]].serial]
           IN i # 0 /\ svc'[i].capture = cfg'[configs'[k]].capture
  PROVE  Dicts'
  BY DEF Dicts, Distinct, SameSerials, Registered, Known, OwnService, OneCapture, Agree, ServedBy

LEMMA AddDicts ==
  ASSUME TypeOK, Dicts,
         NEW t \in Threads, NEW s \in Serials, NEW capture \in BOOLEAN, Add(t, s, capture)
  PROVE  Dicts'
  <1> DEFINE n == Len(configs)
             S(k) == cfg'[configs'[k]].serial
             C(k) == cfg'[configs'[k]].capture
             c == [serial |-> s, capture |-> capture]
  <1>1. Adds(s, capture)
    BY AddIs DEF Dicts
  <1>2. /\ n \in Nat /\ Len(configs') = n + 1
        /\ \A k \in 1..n : configs'[k] = configs[k] /\ configs[k] \in 1..Len(cfg)
        /\ configs'[n + 1] = Len(cfg) + 1
        /\ serving[s] = 0
    BY <1>1, Types DEF Adds, Known
  <1>3. S(n + 1) = s /\ C(n + 1) = capture
    BY <1>1, <1>2 DEF Adds
  <1>4. ASSUME NEW k \in 1..n
        PROVE  /\ S(k) = cfg[configs[k]].serial /\ S(k) \in Serials /\ S(k) # s
               /\ C(k) = IF capture THEN FALSE ELSE cfg[configs[k]].capture
    <2>1. S(k) = cfg[configs[k]].serial /\ S(k) \in Serials
      BY <1>1, <1>2, Types DEF Adds
    <2>2. S(k) # s
      BY <1>2, <2>1 DEF Dicts, SameSerials, Registered, Known
    <2>3. C(k) = IF capture THEN FALSE ELSE cfg[configs[k]].capture
      BY <1>1, <1>2 DEF Adds
    <2> QED
      BY <2>1, <2>2, <2>3
  <1>5. \A u \in Serials : serving'[u] = IF u = s THEN Len(svc) + 1 ELSE serving[u]
    BY <1>1, Types DEF Adds
  <1>6. \A u \in Serials : serving[u] \in 0..Len(svc)
    BY Types
  <1>7. ASSUME NEW k \in 1..n
        PROVE  LET i == serving'[S(k)]
               IN i = ServedBy(k) /\ i # 0 /\ svc'[i].capture = C(k)
    <2>1. serving'[S(k)] = ServedBy(k)
      BY <1>4, <1>5 DEF ServedBy
    <2>2. ServedBy(k) # 0 /\ svc[ServedBy(k)].capture = cfg[configs[k]].capture
      BY DEF Dicts, Agree
    <2>3. svc'[ServedBy(k)].capture = IF capture THEN FALSE ELSE svc[ServedBy(k)].capture
      BY <1>1 DEF Adds
    <2> HIDE DEF S, C
    <2> QED
      BY <1>4, <2>1, <2>2, <2>3
  <1>8. LET i == serving'[S(n + 1)]
        IN i # 0 /\ svc'[i].capture = C(n + 1)
    <2>1. svc'[Len(svc) + 1] = Built(c)
      BY <1>1 DEF Adds, Builds
    <2>2. Built(c).capture = capture
      BY DEF Built
    <2>3. serving'[s] = Len(svc) + 1 /\ Len(svc) + 1 # 0
      BY <1>5, Types
    <2> QED
      BY <1>3, <2>1, <2>2, <2>3
  <1> HIDE DEF n, S, C
  <1>9. \A k \in 1..Len(configs') : k \in 1..n \/ k = n + 1
    BY <1>2
  <1>10. /\ \A j, k \in 1..n : S(j) = S(k) => j = k
         /\ \A j, k \in 1..n : C(j) /\ C(k) => j = k
         /\ capture => \A k \in 1..n : ~C(k)
    BY <1>4 DEF Dicts, Distinct, OneCapture, n
  <1>11. \A j, k \in 1..Len(configs') : S(j) = S(k) => j = k
    BY <1>3, <1>4, <1>9, <1>10
  <1>12. \A j, k \in 1..Len(configs') : C(j) /\ C(k) => j = k
    BY <1>3, <1>9, <1>10
  <1>13. \A k \in 1..Len(configs') :
           LET i == serving'[S(k)] IN i # 0 /\ svc'[i].capture = C(k)
    BY <1>7, <1>8, <1>9
  <1>14. \A u, v \in Serials : serving'[u] # 0 /\ serving'[u] = serving'[v] => u = v
    BY <1>5, <1>6, Types DEF Dicts, OwnService, Known
  <1>15. \A u \in Serials : serving'[u] # 0 <=> \E k \in 1..Len(configs') : S(k) = u
    <2>1. \A u \in Serials : serving[u] # 0 <=> \E k \in 1..n : S(k) = u
      <3>1. \A k \in 1..n : S(k) = cfg[configs[k]].serial
        BY <1>4
      <3> QED
        BY <3>1 DEF Dicts, SameSerials, Registered, Known, n
    <2>2. n + 1 \in 1..Len(configs') /\ 1..n \subseteq 1..Len(configs')
      BY <1>2
    <2>3. serving'[s] # 0
      BY <1>5, Types
    <2> QED
      BY <1>3, <1>4, <1>5, <1>9, <2>1, <2>2, <2>3
  <1> QED
    BY <1>11, <1>12, <1>13, <1>14, <1>15, DictsNext DEF S, C

\* The objects that are not the edited one have other serials, and other services.
LEMMA UpdateDicts ==
  ASSUME TypeOK, Dicts,
         NEW t \in Threads, NEW s \in Serials, NEW rebuild \in BOOLEAN,
         NEW capture \in BOOLEAN, Update(t, s, rebuild, capture)
  PROVE  Dicts'
  <1> DEFINE n == Len(configs)
             p == Place(s)
             S(k) == cfg'[configs'[k]].serial
             C(k) == cfg'[configs'[k]].capture
             c == [serial |-> s, capture |-> capture]
  <1>1. Updates(s, rebuild, capture)
    BY UpdateIs DEF Dicts
  <1>2. /\ n \in Nat /\ configs' = configs /\ p \in 1..n
        /\ \A k \in 1..n : configs[k] \in 1..Len(cfg)
        /\ cfg[configs[p]].serial = s /\ serving[s] \in 1..Len(svc)
    BY <1>1, Types DEF Updates, Known
  <1>3. \A k \in 1..n : S(k) = cfg[configs[k]].serial /\ S(k) \in Serials
    <2>1. \A o \in 1..Len(cfg) : cfg'[o].serial = cfg[o].serial /\ cfg[o].serial \in Serials
      BY <1>1, Types DEF Updates
    <2> QED
      BY <1>2, <2>1
  <1>4. C(p) = capture
    <2>1. cfg'[configs[p]].capture = capture
      BY <1>1 DEF Updates
    <2> QED
      BY <1>2, <2>1
  <1>5. \A k \in 1..n : k # p => S(k) # s /\ configs[k] # configs[p]
    BY <1>2, <1>3 DEF Dicts, Distinct
  <1>6. \A k \in 1..n : k # p => C(k) = IF capture THEN FALSE ELSE cfg[configs[k]].capture
    <2>1. \A k \in 1..n : configs[k] # configs[p] =>
            cfg'[configs[k]].capture = IF capture THEN FALSE ELSE cfg[configs[k]].capture
      BY <1>1 DEF Updates
    <2>2. \A k \in 1..n : C(k) = cfg'[configs[k]].capture
      BY <1>2
    <2> HIDE DEF C
    <2> QED
      BY <1>5, <2>1, <2>2
  <1>7. \A u \in Serials : u # s => serving'[u] = serving[u]
    BY <1>1, Types DEF Updates
  <1>8. \/ rebuild /\ serving'[s] = Len(svc) + 1
        \/ ~rebuild /\ serving'[s] = serving[s]
    BY <1>1, Types DEF Updates
  <1>9. \A u \in Serials : serving[u] \in 0..Len(svc)
    BY Types
  <1>10. ASSUME NEW k \in 1..n, k # p
         PROVE  LET i == serving'[S(k)] IN i # 0 /\ svc'[i].capture = C(k)
    <2>1. serving'[S(k)] = ServedBy(k) /\ S(k) \in Serials /\ ServedBy(k) = serving[S(k)]
      BY <1>3, <1>5, <1>7, <1>10 DEF ServedBy
    <2>2. ServedBy(k) # 0 /\ svc[ServedBy(k)].capture = cfg[configs[k]].capture
      BY DEF Dicts, Agree
    <2>3. ServedBy(k) # serving[s]
      BY <1>5, <1>10, <2>1, <2>2 DEF Dicts, OwnService, Known
    <2>4. svc'[ServedBy(k)].capture = IF capture THEN FALSE ELSE svc[ServedBy(k)].capture
      BY <1>1, <2>3 DEF Updates
    <2> HIDE DEF S, C
    <2> QED
      BY <1>6, <1>10, <2>1, <2>2, <2>4
  <1>11. LET i == serving'[S(p)] IN i # 0 /\ svc'[i].capture = C(p)
    <2>1. S(p) = s
      BY <1>2, <1>3
    <2>2. CASE rebuild
      <3>1. svc'[Len(svc) + 1] = Built(c)
        BY <1>1, <2>2 DEF Updates, Builds
      <3>2. Built(c).capture = capture
        BY DEF Built
      <3>3. serving'[s] = Len(svc) + 1 /\ Len(svc) + 1 # 0
        BY <1>8, <2>2, Types
      <3> QED
        BY <1>4, <2>1, <3>1, <3>2, <3>3
    <2>3. CASE ~rebuild
      <3>1. svc'[serving[s]].capture = capture
        BY <1>1, <2>3 DEF Updates
      <3>2. serving'[s] = serving[s] /\ serving[s] # 0
        BY <1>2, <1>8, <2>3
      <3> QED
        BY <1>4, <2>1, <3>1, <3>2
    <2> QED
      BY <2>2, <2>3
  <1>12. Len(configs') = n
    BY <1>2
  <1> HIDE DEF n, S, C, p
  <1>13. \A j, k \in 1..Len(configs') : S(j) = S(k) => j = k
    BY <1>3, <1>12 DEF Dicts, Distinct, n
  <1>14. \A j, k \in 1..Len(configs') : C(j) /\ C(k) => j = k
    <2>1. \A j, k \in 1..n : cfg[configs[j]].capture /\ cfg[configs[k]].capture => j = k
      BY DEF Dicts, OneCapture, n
    <2> QED
      BY <1>4, <1>6, <1>12, <2>1
  <1>15. \A k \in 1..Len(configs') :
           LET i == serving'[S(k)] IN i # 0 /\ svc'[i].capture = C(k)
    BY <1>10, <1>11, <1>12
  <1>16. \A u, v \in Serials : serving'[u] # 0 /\ serving'[u] = serving'[v] => u = v
    <2>1. \A u, v \in Serials : serving[u] # 0 /\ serving[u] = serving[v] => u = v
      BY DEF Dicts, OwnService, Known
    <2>2. Len(svc) \in Nat
      BY Types
    <2>3. \A u \in Serials : serving[u] # Len(svc) + 1
      BY <1>9, <2>2
    <2>4. CASE serving'[s] = Len(svc) + 1
      BY <1>7, <2>1, <2>3, <2>4
    <2>5. CASE serving'[s] = serving[s]
      BY <1>7, <2>1, <2>5
    <2> QED
      BY <1>8, <2>4, <2>5
  <1>17. \A u \in Serials : serving'[u] # 0 <=> \E k \in 1..Len(configs') : S(k) = u
    <2>1. \A u \in Serials : serving[u] # 0 <=> \E k \in 1..n : S(k) = u
      BY <1>3 DEF Dicts, SameSerials, Registered, Known, n
    <2>2. serving[s] # 0 /\ serving'[s] # 0
      BY <1>2, <1>8, Types
    <2> QED
      BY <1>7, <1>12, <2>1, <2>2
  <1> QED
    BY <1>13, <1>14, <1>15, <1>16, <1>17, DictsNext DEF S, C

\* The objects that stay are the old ones from other places.
LEMMA RemoveDicts ==
  ASSUME TypeOK, Dicts, NEW t \in Threads, NEW s \in Serials, RemovePrinter(t, s)
  PROVE  Dicts'
  <1> DEFINE n == Len(configs)
             p == Place(s)
             m == Len(configs')
             at(k) == IF k < p THEN k ELSE k + 1
             S(k) == cfg[configs[k]].serial
             C(k) == cfg[configs[k]].capture
  <1>1. Removes(s)
    BY RemoveIs DEF Dicts
  <1>2. n \in Nat /\ p \in 1..n /\ m = n - 1 /\ serving[s] # 0 /\ S(p) = s
    BY <1>1, Types DEF Removes, Known
  <1>3. svc' = svc /\ cfg' = cfg
    BY <1>1 DEF Removes
  <1>4. \A u \in Serials : serving'[u] = IF u = s THEN 0 ELSE serving[u]
    BY <1>1, Types DEF Removes
  <1>5. \A k \in 1..m : at(k) \in 1..n /\ at(k) # p
    BY <1>2
  <1>6. \A j, k \in 1..m : at(j) = at(k) => j = k
    BY <1>2
  <1>7. \A k \in 1..n : k # p => \E j \in 1..m : at(j) = k
    <2> SUFFICES ASSUME NEW k \in 1..n, k # p
                 PROVE  \E j \in 1..m : at(j) = k
      OBVIOUS
    <2>1. CASE k < p
      <3>1. k \in 1..m /\ at(k) = k
        BY <1>2, <2>1
      <3> QED
        BY <3>1
    <2>2. CASE k > p
      <3>1. k - 1 \in 1..m /\ at(k - 1) = k
        BY <1>2, <2>2
      <3> QED
        BY <3>1
    <2> QED
      BY <1>2, <2>1, <2>2
  <1>8. \A k \in 1..m : configs'[k] = configs[at(k)]
    BY <1>1, <1>2 DEF Removes
  <1>9. \A k \in 1..n : S(k) \in Serials /\ (k # p => S(k) # s)
    <2>1. \A k \in 1..n : configs[k] \in 1..Len(cfg)
      BY Types
    <2> QED
      BY <1>2, <2>1, Types DEF Dicts, Distinct
  <1>10. \A k \in 1..m : /\ cfg'[configs'[k]].serial = S(at(k))
                         /\ cfg'[configs'[k]].capture = C(at(k))
    BY <1>3, <1>8
  <1>11. /\ \A j, k \in 1..n : S(j) = S(k) => j = k
         /\ \A j, k \in 1..n : C(j) /\ C(k) => j = k
         /\ \A u \in Serials : serving[u] # 0 <=> \E k \in 1..n : S(k) = u
         /\ \A u, v \in Serials : serving[u] # 0 /\ serving[u] = serving[v] => u = v
         /\ \A k \in 1..n : serving[S(k)] # 0 /\ svc[serving[S(k)]].capture = C(k)
    BY DEF Dicts, Distinct, OneCapture, SameSerials, Registered, Known, OwnService, Agree, ServedBy
  <1> HIDE DEF n, p, m, at, S, C
  <1>12. \A j, k \in 1..m : cfg'[configs'[j]].serial = cfg'[configs'[k]].serial => j = k
    BY <1>5, <1>6, <1>10, <1>11
  <1>13. \A j, k \in 1..m : cfg'[configs'[j]].capture /\ cfg'[configs'[k]].capture => j = k
    BY <1>5, <1>6, <1>10, <1>11
  <1>14. \A u, v \in Serials : serving'[u] # 0 /\ serving'[u] = serving'[v] => u = v
    BY <1>4, <1>11
  <1>15. \A k \in 1..m :
           LET i == serving'[cfg'[configs'[k]].serial]
           IN i # 0 /\ svc'[i].capture = cfg'[configs'[k]].capture
    <2> SUFFICES ASSUME NEW k \in 1..m
                 PROVE  LET i == serving'[cfg'[configs'[k]].serial]
                        IN i # 0 /\ svc'[i].capture = cfg'[configs'[k]].capture
      OBVIOUS
    <2>1. at(k) \in 1..n /\ S(at(k)) \in Serials /\ S(at(k)) # s
      BY <1>5, <1>9
    <2>2. serving'[S(at(k))] = serving[S(at(k))]
      BY <1>4, <2>1
    <2>3. serving[S(at(k))] # 0 /\ svc[serving[S(at(k))]].capture = C(at(k))
      BY <1>11, <2>1
    <2> QED
      BY <1>3, <1>10, <2>2, <2>3
  <1>16. \A u \in Serials : serving'[u] # 0 <=> \E k \in 1..m : cfg'[configs'[k]].serial = u
    <2> SUFFICES ASSUME NEW u \in Serials
                 PROVE  serving'[u] # 0 <=> \E k \in 1..m : S(at(k)) = u
      BY <1>10
    <2>1. CASE u = s
      BY <1>4, <1>5, <1>9, <2>1
    <2>2. CASE u # s
      <3>1. serving'[u] # 0 <=> \E k \in 1..n : S(k) = u
        BY <1>4, <1>11, <2>2
      <3>2. (\E k \in 1..n : S(k) = u) => \E k \in 1..m : S(at(k)) = u
        BY <1>2, <1>7, <2>2
      <3>3. (\E k \in 1..m : S(at(k)) = u) => \E k \in 1..n : S(k) = u
        BY <1>5
      <3> QED
        BY <3>1, <3>2, <3>3
    <2> QED
      BY <2>1, <2>2
  <1> QED
    BY <1>12, <1>13, <1>14, <1>15, <1>16, DictsNext DEF m

LEMMA ReconnectDicts ==
  ASSUME TypeOK, Dicts, NEW t \in Threads, NEW s \in Serials, Reconnect(t, s)
  PROVE  Dicts'
  <1> DEFINE n == Len(configs)
             p == Place(s)
             S(k) == cfg[configs[k]].serial
             C(k) == cfg[configs[k]].capture
  <1>1. Reconnects(s)
    BY ReconnectIs DEF Dicts
  <1>2. /\ cfg' = cfg /\ configs' = configs /\ p \in 1..n /\ S(p) = s
        /\ serving[s] # 0 /\ \A i \in 1..Len(svc) : svc'[i] = svc[i]
    BY <1>1 DEF Reconnects, Known
  <1>3. \A u \in Serials : /\ serving'[u] = IF u = s THEN Len(svc) + 1 ELSE serving[u]
                           /\ serving[u] \in 0..Len(svc)
    BY <1>1, Types DEF Reconnects
  <1>4. svc'[Len(svc) + 1].capture = C(p) /\ Len(svc) + 1 # 0
    <2>1. svc'[Len(svc) + 1] = Built(cfg[configs[p]])
      BY <1>1 DEF Reconnects, Builds
    <2>2. Built(cfg[configs[p]]).capture = C(p)
      BY DEF Built
    <2> QED
      BY <2>1, <2>2, Types
  <1>5. \A k \in 1..n : S(k) \in Serials
    BY Types
  <1>6. /\ \A j, k \in 1..n : S(j) = S(k) => j = k
        /\ \A j, k \in 1..n : C(j) /\ C(k) => j = k
        /\ \A u \in Serials : serving[u] # 0 <=> \E k \in 1..n : S(k) = u
        /\ \A u, v \in Serials : serving[u] # 0 /\ serving[u] = serving[v] => u = v
        /\ \A k \in 1..n : serving[S(k)] # 0 /\ svc[serving[S(k)]].capture = C(k)
    BY DEF Dicts, Distinct, OneCapture, SameSerials, Registered, Known, OwnService, Agree, ServedBy
  <1>7. /\ Len(configs') = n
        /\ \A k \in 1..n : /\ cfg'[configs'[k]].serial = S(k)
                           /\ cfg'[configs'[k]].capture = C(k)
    BY <1>2
  <1> HIDE DEF n, p, S, C
  <1>8. \A u, v \in Serials : serving'[u] # 0 /\ serving'[u] = serving'[v] => u = v
    <2>1. Len(svc) \in Nat
      BY Types
    <2>2. \A u \in Serials : serving[u] # Len(svc) + 1
      BY <1>3, <2>1
    <2> QED
      BY <1>3, <1>6, <2>2
  <1>9. \A u \in Serials : serving'[u] # 0 <=> \E k \in 1..n : S(k) = u
    BY <1>2, <1>3, <1>4, <1>6
  <1>10. ASSUME NEW k \in 1..n
         PROVE  LET i == serving'[S(k)] IN i # 0 /\ svc'[i].capture = C(k)
    <2>1. CASE k = p
      BY <1>2, <1>3, <1>4, <1>5, <2>1
    <2>2. CASE k # p
      <3>1. S(k) \in Serials /\ S(k) # s
        BY <1>2, <1>5, <1>6, <2>2
      <3>2. serving'[S(k)] = serving[S(k)] /\ serving[S(k)] \in 1..Len(svc)
        BY <1>3, <1>6, <3>1, Types
      <3> QED
        BY <1>2, <1>6, <3>2
    <2> QED
      BY <2>1, <2>2
  <1>11. \A j, k \in 1..Len(configs') :
           cfg'[configs'[j]].serial = cfg'[configs'[k]].serial => j = k
    BY <1>6, <1>7
  <1>12. \A j, k \in 1..Len(configs') :
           cfg'[configs'[j]].capture /\ cfg'[configs'[k]].capture => j = k
    BY <1>6, <1>7
  <1>13. \A k \in 1..Len(configs') :
           LET i == serving'[cfg'[configs'[k]].serial]
           IN i # 0 /\ svc'[i].capture = cfg'[configs'[k]].capture
    BY <1>7, <1>10
  <1>14. \A u \in Serials :
           serving'[u] # 0 <=> \E k \in 1..Len(configs') : cfg'[configs'[k]].serial = u
    BY <1>7, <1>9
  <1> QED
    BY <1>8, <1>11, <1>12, <1>13, <1>14, DictsNext

LEMMA RequestKeeps ==
  ASSUME Typed, Kept, NEW t \in Threads, Request(t)
  PROVE  Typed' /\ Kept'
  <1>1. TypeOK /\ Dicts
    BY DEF Typed
  <1>2. Requested(t)
    BY <1>1, RequestIs
  <1>3. TypeOK'
    BY <1>1, <1>2, RequestedTypes
  <1>4. Dicts'
    BY <1>1, AddDicts, UpdateDicts, RemoveDicts, ReconnectDicts DEF Request
  <1>5. Calls'
    BY <1>1, <1>2, RequestedCalls DEF Kept
  <1>6. Services' /\ StoppedStaysDown'
    BY <1>1, <1>2, RequestedServices DEF Kept
  <1>7. Saves' /\ Current'
    BY <1>1, <1>2, RequestedSaves DEF Kept
  <1> QED
    BY <1>3, <1>4, <1>5, <1>6, <1>7 DEF Typed, Kept

---------------------------------------------------------------------------
(* The services, outside the lock.                                         *)

LEMMA TendedDicts ==
  ASSUME TypeOK, Dicts, UNCHANGED dicts, svc' \in Seq(Service), Len(svc') = Len(svc),
         \A i \in 1..Len(svc) : svc'[i].capture = svc[i].capture
  PROVE  Dicts'
  <1>1. cfg' = cfg /\ configs' = configs /\ serving' = serving
    BY DEF dicts
  <1>2. \A k \in 1..Len(configs) : ServedBy(k) \in 0..Len(svc)
    BY Types DEF ServedBy
  <1>3. \A k \in 1..Len(configs) :
          /\ serving[cfg[configs[k]].serial] # 0
          /\ svc'[serving[cfg[configs[k]].serial]].capture = cfg[configs[k]].capture
    <2> SUFFICES ASSUME NEW k \in 1..Len(configs)
                 PROVE  ServedBy(k) # 0 /\ svc'[ServedBy(k)].capture = cfg[configs[k]].capture
      BY DEF ServedBy
    <2>1. ServedBy(k) # 0 /\ svc[ServedBy(k)].capture = cfg[configs[k]].capture
      BY DEF Dicts, Agree
    <2>2. ServedBy(k) \in 1..Len(svc)
      BY <1>2, <2>1, Types
    <2> QED
      BY <2>1, <2>2
  <1>4. /\ \A j, k \in 1..Len(configs) : cfg[configs[j]].serial = cfg[configs[k]].serial => j = k
        /\ \A j, k \in 1..Len(configs) : cfg[configs[j]].capture /\ cfg[configs[k]].capture => j = k
        /\ \A u \in Serials : serving[u] # 0 <=> \E k \in 1..Len(configs) : cfg[configs[k]].serial = u
        /\ \A u, v \in Serials : serving[u] # 0 /\ serving[u] = serving[v] => u = v
    BY DEF Dicts, Distinct, OneCapture, SameSerials, Registered, Known, OwnService
  <1> QED
    BY <1>1, <1>3, <1>4, DictsNext

LEMMA SameDicts ==
  ASSUME TypeOK, Dicts, UNCHANGED <<dicts, svc>>
  PROVE  Dicts'
  BY Types, TendedDicts

\* One service is changed, and not its capture.
Tended(i, r) ==
  /\ svc' \in Seq(Service) /\ Len(svc') = Len(svc)
  /\ \A j \in 1..Len(svc) : svc'[j] = IF j = i THEN r ELSE svc[j]

LEMMA OneTended ==
  ASSUME TypeOK, Dicts, UNCHANGED dicts,
         NEW i \in 1..Len(svc), NEW r \in Service, r.capture = svc[i].capture,
         svc' = [svc EXCEPT ![i] = r]
  PROVE  Tended(i, r) /\ Dicts'
  <1>1. Tended(i, r)
    BY Types, ExceptSeq DEF Tended
  <1>2. \A j \in 1..Len(svc) : svc'[j].capture = svc[j].capture
    BY <1>1 DEF Tended
  <1> QED
    BY <1>1, <1>2, TendedDicts DEF Tended

\* The step leaves every other request as it is, gives no lock away and takes none.
Proceeds(t) ==
  /\ UNCHANGED <<dicts, storage>>
  /\ call' \in [Threads -> Call]
  /\ \A u \in Threads : u # t => call'[u] = call[u]
  /\ call[t].pc # "saving"
  /\ call'[t].pc \in {"start", "persist", "idle"} /\ call'[t].data = <<>>
  /\ call'[t].pc = "start" => call'[t].new # 0
  /\ WillSave(t) => WillSave(t)'

LEMMA ProceedsKeeps ==
  ASSUME TypeOK, Calls, Saves, Current, NEW t \in Threads, Proceeds(t),
         svc' \in Seq(Service), Len(svc') = Len(svc)
  PROVE  TypeOK' /\ Calls' /\ Saves' /\ Current'
  <1>1. /\ cfg' = cfg /\ configs' = configs /\ serving' = serving
        /\ file' = file /\ persistLock' = persistLock /\ lastFailed' = lastFailed
        /\ \A u \in Threads : u # t => call'[u] = call[u]
        /\ call[t].pc # "saving" /\ call'[t].data = <<>>
        /\ call'[t].pc \in {"start", "persist", "idle"}
        /\ call'[t].pc = "start" => call'[t].new # 0
    BY DEF Proceeds, dicts, storage
  <1>2. TypeOK'
    <2>1. call' \in [Threads -> [pc : Phases, old : 0..Len(svc'), new : 0..Len(svc'),
                                 saves : BOOLEAN, list : Seq(1..Len(cfg')), data : Seq(Config)]]
      BY <1>1 DEF Proceeds, Call
    <2> QED
      BY <1>1, <2>1 DEF TypeOK
  <1>3. Calls'
    <2> SUFFICES ASSUME NEW u \in Threads
                 PROVE  /\ call'[u].pc = "stop" => call'[u].old # 0 /\ ~WillServe(call'[u].old)
                        /\ call'[u].pc = "start" => call'[u].new # 0
                        /\ call'[u].pc = "saving" <=> persistLock' = u
                        /\ call'[u].pc # "saving" => call'[u].data = <<>>
      BY DEF Calls, At, Served, WillServe
    <2>1. \A i : WillServe(i) <=> Served(i)
      BY <1>1 DEF WillServe, Served
    <2>2. CASE u = t
      BY <1>1, <2>2 DEF Calls, At
    <2>3. CASE u # t
      BY <1>1, <2>1, <2>3 DEF Calls, At
    <2> QED
      BY <2>2, <2>3
  <1>4. Saves'
    <2>1. SerialsKept
      BY <1>1, Types DEF SerialsKept
    <2> QED
      BY <1>1, <2>1, SavesKept
  <1>5. Current'
    <2>1. (\A u \in Threads : ~WillSave(u)') => \A u \in Threads : ~WillSave(u)
      BY <1>1 DEF WillSave, At, Proceeds
    <2>2. persistLock # NoThread => call'[persistLock] = call[persistLock]
      BY <1>1 DEF Calls, At, TypeOK
    <2>3. Loaded(file)' = Loaded(file) /\ InMemory' = InMemory
      BY <1>1 DEF Loaded, InMemory
    <2>4. SUFFICES ASSUME \A u \in Threads : ~WillSave(u)
                   PROVE  /\ persistLock' = NoThread /\ ~lastFailed' => Loaded(file)' = InMemory'
                          /\ persistLock' # NoThread =>
                               /\ call'[persistLock'].list = configs'
                               /\ \A i \in 1..Len(call'[persistLock'].data) :
                                    call'[persistLock'].data[i] = cfg'[configs'[i]]
      BY <2>1 DEF Current
    <2> QED
      BY <1>1, <2>2, <2>3, <2>4 DEF Current
  <1> QED
    BY <1>2, <1>3, <1>4, <1>5

LEMMA ToSaveIs ==
  ASSUME TypeOK
  PROVE  /\ ToSave \in Call /\ ToSave.pc = "persist" /\ ToSave.data = <<>>
         /\ NoCall \in Call /\ NoCall.pc = "idle" /\ NoCall.data = <<>>
  <1>1. <<>> \in Seq(1..Len(cfg)) /\ <<>> \in Seq(Config)
    BY EmptySeq
  <1>2. NoCall \in Call /\ NoCall.pc = "idle" /\ NoCall.data = <<>>
    BY <1>1, Types DEF Call, NoCall, Phases
  <1>3. "persist" \in Phases
    BY DEF Phases
  <1>4. ToSave \in Call /\ ToSave.pc = "persist" /\ ToSave.data = NoCall.data
    BY <1>2, <1>3 DEF Call, ToSave
  <1> QED
    BY <1>2, <1>4

\* Becoming part of Services and StoppedStaysDown, service by service.
LEMMA ServicesNext ==
  ASSUME TypeOK, UNCHANGED serving, svc' \in Seq(Service), Len(svc') = Len(svc),
         \A i \in 1..Len(svc) :
           /\ IF Served(i)
                THEN /\ ~svc'[i].stopped
                     /\ svc'[i].phase = "new" =>
                          \E u \in Threads : call'[u].pc \in {"stop", "start"} /\ call'[u].new = i
                ELSE svc'[i].stopped
                     \/ \E u \in Threads : call'[u].pc = "stop" /\ call'[u].old = i
           /\ svc'[i].stopped /\ svc'[i].phase \in {"connecting", "looping"} => svc'[i].unlucky
  PROVE  Services' /\ StoppedStaysDown'
  <1>1. Services'
    BY DEF Services, Served, Starter, Stopper, At
  <1>2. StoppedStaysDown'
    BY DEF StoppedStaysDown
  <1> QED
    BY <1>1, <1>2

LEMMA StopOldKeeps ==
  ASSUME Typed, Kept, NEW t \in Threads, StopOld(t)
  PROVE  Typed' /\ Kept'
  <1> DEFINE i == call[t].old
             r == Stopped(svc[i])
             q == IF call[t].new # 0 THEN [call[t] EXCEPT !.pc = "start", !.old = 0] ELSE ToSave
  <1>1. TypeOK /\ Dicts /\ Calls /\ Services /\ Saves /\ Current /\ StoppedStaysDown
    BY DEF Typed, Kept
  <1>2. call[t].pc = "stop" /\ UNCHANGED dicts /\ UNCHANGED storage
    BY DEF StopOld, At
  <1>3. call[t] \in Call
    BY <1>1, Types
  <1>4. i \in 1..Len(svc) /\ ~Served(i)
    BY <1>1, <1>2, <1>3, Types DEF Calls, At, Call
  <1>5. svc' = [svc EXCEPT ![i] = r] /\ call' = [call EXCEPT ![t] = q]
    BY DEF StopOld
  <1>6. /\ r \in Service /\ r.capture = svc[i].capture /\ r.stopped
        /\ r.phase \in {"connecting", "looping"} => r.unlucky
    <2>1. svc[i] \in Service
      BY <1>1, <1>4, Types
    <2> QED
      BY <2>1 DEF Stopped, Service
  <1> HIDE DEF r
  <1>7. Tended(i, r) /\ Dicts'
    BY <1>1, <1>2, <1>4, <1>5, <1>6, OneTended
  <1>8. /\ q \in Call /\ q.data = <<>> /\ q.pc \in {"start", "persist"}
        /\ q.pc = "start" => q.new # 0
        /\ call[t].new # 0 => q.pc = "start" /\ q.new = call[t].new /\ q.saves = call[t].saves
        /\ call[t].new = 0 => q.pc = "persist"
    <2>1. call[t].data = <<>>
      BY <1>1, <1>2 DEF Calls, At
    <2>2. CASE call[t].new # 0
      <3>1. "start" \in Phases /\ 0 \in 0..Len(svc)
        BY <1>1, Types DEF Phases
      <3> QED
        BY <1>3, <2>1, <2>2, <3>1 DEF Call
    <2>3. CASE call[t].new = 0
      BY <1>1, <2>3, ToSaveIs
    <2> QED
      BY <2>2, <2>3
  <1> HIDE DEF q
  <1>9. /\ call' \in [Threads -> Call] /\ call'[t] = q
        /\ \A u \in Threads : u # t => call'[u] = call[u]
    BY <1>1, <1>5, <1>8, Types
  <1>10. WillSave(t) => WillSave(t)'
    BY <1>2, <1>8, <1>9 DEF WillSave, At
  <1>11. Proceeds(t)
    BY <1>2, <1>8, <1>9, <1>10 DEF Proceeds
  <1>12. TypeOK' /\ Calls' /\ Saves' /\ Current'
    BY <1>1, <1>7, <1>11, ProceedsKeeps DEF Tended
  <1>13. Services' /\ StoppedStaysDown'
    <2>1. ASSUME NEW j \in 1..Len(svc)
          PROVE  /\ IF Served(j)
                      THEN /\ ~svc'[j].stopped
                           /\ svc'[j].phase = "new" =>
                                \E u \in Threads : call'[u].pc \in {"stop", "start"} /\ call'[u].new = j
                      ELSE svc'[j].stopped
                           \/ \E u \in Threads : call'[u].pc = "stop" /\ call'[u].old = j
                 /\ svc'[j].stopped /\ svc'[j].phase \in {"connecting", "looping"} => svc'[j].unlucky
      <3>1. CASE j = i
        BY <1>4, <1>6, <1>7, <3>1 DEF Tended
      <3>2. CASE j # i
        <4>1. svc'[j] = svc[j]
          BY <1>7, <3>2 DEF Tended
        <4>2. Starter(j) => \E u \in Threads : call'[u].pc \in {"stop", "start"} /\ call'[u].new = j
          BY <1>8, <1>9, <1>1, Types DEF Starter
        <4>3. Stopper(j) => \E u \in Threads : call'[u].pc = "stop" /\ call'[u].old = j
          BY <1>9, <3>2 DEF Stopper, At
        <4>4. svc[j].stopped /\ svc[j].phase \in {"connecting", "looping"} => svc[j].unlucky
          BY <1>1, Types DEF StoppedStaysDown
        <4>5. IF Served(j) THEN ~svc[j].stopped /\ (svc[j].phase = "new" => Starter(j))
                           ELSE svc[j].stopped \/ Stopper(j)
          BY <1>1 DEF Services
        <4> QED
          BY <4>1, <4>2, <4>3, <4>4, <4>5
      <3> QED
        BY <3>1, <3>2
    <2>2. UNCHANGED serving
      BY <1>2 DEF dicts
    <2> QED
      BY <1>1, <1>7, <2>1, <2>2, ServicesNext DEF Tended
  <1> QED
    BY <1>7, <1>12, <1>13 DEF Typed, Kept

LEMMA StartNewKeeps ==
  ASSUME Typed, Kept, NEW t \in Threads, StartNew(t)
  PROVE  Typed' /\ Kept'
  <1> DEFINE i == call[t].new
             r == [svc[i] EXCEPT !.phase = "check"]
             q == IF call[t].saves THEN ToSave ELSE NoCall
  <1>1. TypeOK /\ Dicts /\ Calls /\ Services /\ Saves /\ Current /\ StoppedStaysDown
    BY DEF Typed, Kept
  <1>2. call[t].pc = "start" /\ UNCHANGED dicts /\ UNCHANGED storage
    BY DEF StartNew, At
  <1>3. call[t] \in Call
    BY <1>1, Types
  <1>4. i \in 1..Len(svc)
    BY <1>1, <1>2, <1>3, Types DEF Calls, At, Call
  <1>5. svc' = [svc EXCEPT ![i] = r] /\ call' = [call EXCEPT ![t] = q]
    BY DEF StartNew
  <1>6. /\ r \in Service /\ r.capture = svc[i].capture /\ r.stopped = svc[i].stopped
        /\ r.phase = "check"
    <2>1. svc[i] \in Service
      BY <1>1, <1>4, Types
    <2> QED
      BY <2>1 DEF Service
  <1> HIDE DEF r
  <1>7. Tended(i, r) /\ Dicts'
    BY <1>1, <1>2, <1>4, <1>5, <1>6, OneTended
  <1>8. /\ q \in Call /\ q.data = <<>> /\ q.pc \in {"persist", "idle"}
        /\ call[t].saves => q.pc = "persist"
    BY <1>1, ToSaveIs
  <1> HIDE DEF q
  <1>9. /\ call' \in [Threads -> Call] /\ call'[t] = q
        /\ \A u \in Threads : u # t => call'[u] = call[u]
    BY <1>1, <1>5, <1>8, Types
  <1>10. WillSave(t) => WillSave(t)'
    BY <1>2, <1>8, <1>9 DEF WillSave, At
  <1>11. Proceeds(t)
    BY <1>2, <1>8, <1>9, <1>10 DEF Proceeds
  <1>12. TypeOK' /\ Calls' /\ Saves' /\ Current'
    BY <1>1, <1>7, <1>11, ProceedsKeeps DEF Tended
  <1>13. Services' /\ StoppedStaysDown'
    <2>1. ASSUME NEW j \in 1..Len(svc)
          PROVE  /\ IF Served(j)
                      THEN /\ ~svc'[j].stopped
                           /\ svc'[j].phase = "new" =>
                                \E u \in Threads : call'[u].pc \in {"stop", "start"} /\ call'[u].new = j
                      ELSE svc'[j].stopped
                           \/ \E u \in Threads : call'[u].pc = "stop" /\ call'[u].old = j
                 /\ svc'[j].stopped /\ svc'[j].phase \in {"connecting", "looping"} => svc'[j].unlucky
      <3>1. Stopper(j) => \E u \in Threads : call'[u].pc = "stop" /\ call'[u].old = j
        BY <1>2, <1>9 DEF Stopper, At
      <3>2. IF Served(j) THEN ~svc[j].stopped /\ (svc[j].phase = "new" => Starter(j))
                         ELSE svc[j].stopped \/ Stopper(j)
        BY <1>1 DEF Services
      <3>3. CASE j = i
        <4>1. svc'[j].stopped = svc[j].stopped /\ svc'[j].phase = "check"
          BY <1>6, <1>7, <3>3 DEF Tended
        <4> QED
          BY <3>1, <3>2, <4>1
      <3>4. CASE j # i
        <4>1. svc'[j] = svc[j]
          BY <1>7, <3>4 DEF Tended
        <4>2. Starter(j) => \E u \in Threads : call'[u].pc \in {"stop", "start"} /\ call'[u].new = j
          BY <1>9, <3>4 DEF Starter
        <4>3. svc[j].stopped /\ svc[j].phase \in {"connecting", "looping"} => svc[j].unlucky
          BY <1>1, Types DEF StoppedStaysDown
        <4> QED
          BY <3>1, <3>2, <4>1, <4>2, <4>3
      <3> QED
        BY <3>3, <3>4
    <2>2. UNCHANGED serving
      BY <1>2 DEF dicts
    <2> QED
      BY <1>1, <1>7, <2>1, <2>2, ServicesNext DEF Tended
  <1> QED
    BY <1>7, <1>12, <1>13 DEF Typed, Kept

LEMMA SameCalls ==
  ASSUME TypeOK, Calls, Saves, Current, UNCHANGED <<dicts, storage, call>>,
         svc' \in Seq(Service), Len(svc') = Len(svc)
  PROVE  TypeOK' /\ Calls' /\ Saves' /\ Current'
  <1>1. /\ cfg' = cfg /\ configs' = configs /\ serving' = serving /\ call' = call
        /\ file' = file /\ persistLock' = persistLock /\ lastFailed' = lastFailed
    BY DEF dicts, storage
  <1>2. TypeOK'
    BY <1>1 DEF TypeOK
  <1>3. Calls'
    BY <1>1 DEF Calls, At, Served
  <1>4. Saves'
    BY <1>1 DEF Saves, At, Distinct, DistinctFile
  <1>5. Current'
    BY <1>1 DEF Current, WillSave, At, Loaded, InMemory
  <1> QED
    BY <1>2, <1>3, <1>4, <1>5

\* The connect thread goes on from a phase to another, the flag as it was.
LEMMA BecomesKeeps ==
  ASSUME Typed, Kept, NEW i \in 1..Len(svc),
         NEW phase \in {"check", "connecting", "looping", "over"}, Becomes(i, phase),
         phase \in {"connecting", "looping"} => (svc[i].stopped => svc[i].unlucky)
  PROVE  Typed' /\ Kept'
  <1> DEFINE r == [svc[i] EXCEPT !.phase = phase]
  <1>1. TypeOK /\ Dicts /\ Calls /\ Services /\ Saves /\ Current /\ StoppedStaysDown
    BY DEF Typed, Kept
  <1>2. svc' = [svc EXCEPT ![i] = r] /\ UNCHANGED dicts /\ UNCHANGED storage /\ UNCHANGED call
    BY DEF Becomes
  <1>3. /\ r \in Service /\ r.capture = svc[i].capture /\ r.stopped = svc[i].stopped
        /\ r.unlucky = svc[i].unlucky /\ r.phase = phase
    <2>1. svc[i] \in Service
      BY <1>1, Types
    <2> QED
      BY <2>1 DEF Service
  <1> HIDE DEF r
  <1>4. Tended(i, r) /\ Dicts'
    BY <1>1, <1>2, <1>3, OneTended
  <1>5. TypeOK' /\ Calls' /\ Saves' /\ Current'
    BY <1>1, <1>2, <1>4, SameCalls DEF Tended
  <1>6. Services' /\ StoppedStaysDown'
    <2>1. ASSUME NEW j \in 1..Len(svc)
          PROVE  /\ IF Served(j)
                      THEN /\ ~svc'[j].stopped
                           /\ svc'[j].phase = "new" =>
                                \E u \in Threads : call'[u].pc \in {"stop", "start"} /\ call'[u].new = j
                      ELSE svc'[j].stopped
                           \/ \E u \in Threads : call'[u].pc = "stop" /\ call'[u].old = j
                 /\ svc'[j].stopped /\ svc'[j].phase \in {"connecting", "looping"} => svc'[j].unlucky
      <3>1. svc'[j] = IF j = i THEN r ELSE svc[j]
        BY <1>4 DEF Tended
      <3>2. /\ Stopper(j) => \E u \in Threads : call'[u].pc = "stop" /\ call'[u].old = j
            /\ Starter(j) => \E u \in Threads : call'[u].pc \in {"stop", "start"} /\ call'[u].new = j
        BY <1>2 DEF Stopper, Starter, At
      <3>3. IF Served(j) THEN ~svc[j].stopped /\ (svc[j].phase = "new" => Starter(j))
                         ELSE svc[j].stopped \/ Stopper(j)
        BY <1>1 DEF Services
      <3>4. svc[j].stopped /\ svc[j].phase \in {"connecting", "looping"} => svc[j].unlucky
        BY <1>1, Types DEF StoppedStaysDown
      <3> QED
        BY <1>3, <3>1, <3>2, <3>3, <3>4
    <2>2. UNCHANGED serving
      BY <1>2 DEF dicts
    <2> QED
      BY <1>1, <1>4, <2>1, <2>2, ServicesNext DEF Tended
  <1> QED
    BY <1>4, <1>5, <1>6 DEF Typed, Kept

LEMMA ConnectLoopKeeps ==
  ASSUME Typed, Kept, NEW i \in 1..MaxServices, ConnectLoop(i)
  PROVE  Typed' /\ Kept'
  <1>1. TypeOK /\ StoppedStaysDown
    BY DEF Typed, Kept
  <1>2. i \in 1..Len(svc)
    <2>1. i <= Len(svc)
      BY DEF ConnectLoop, CheckStop, ConnectFails, SocketUp, InPhase
    <2> QED
      BY <1>1, <2>1, Types, RegistryAssumption
  <1>3. CASE CheckStop(i)
    <2>1. CASE svc[i].stopped
      BY <1>2, <1>3, <2>1, BecomesKeeps DEF CheckStop
    <2>2. CASE ~svc[i].stopped
      BY <1>2, <1>3, <2>2, BecomesKeeps DEF CheckStop
    <2> QED
      BY <2>1, <2>2
  <1>4. CASE ConnectFails(i)
    BY <1>2, <1>4, BecomesKeeps DEF ConnectFails
  <1>5. CASE SocketUp(i)
    <2>1. svc[i].phase = "connecting"
      BY <1>5 DEF SocketUp, InPhase
    <2>2. svc[i].stopped => svc[i].unlucky
      BY <1>1, <1>2, <2>1, Types DEF StoppedStaysDown
    <2> QED
      BY <1>2, <1>5, <2>2, BecomesKeeps DEF SocketUp
  <1> QED
    BY <1>3, <1>4, <1>5 DEF ConnectLoop

---------------------------------------------------------------------------
(* The saves.                                                              *)

LEMMA SavingKeeps ==
  ASSUME TypeOK, Dicts, Services, StoppedStaysDown, UNCHANGED <<dicts, svc>>,
         NEW t \in Threads, call[t].pc \notin {"stop", "start"},
         \A u \in Threads : u # t => call'[u] = call[u]
  PROVE  Dicts' /\ Services' /\ StoppedStaysDown'
  <1>1. ASSUME NEW j \in 1..Len(svc)
        PROVE  /\ IF Served(j)
                    THEN /\ ~svc'[j].stopped
                         /\ svc'[j].phase = "new" =>
                              \E u \in Threads : call'[u].pc \in {"stop", "start"} /\ call'[u].new = j
                    ELSE svc'[j].stopped
                         \/ \E u \in Threads : call'[u].pc = "stop" /\ call'[u].old = j
               /\ svc'[j].stopped /\ svc'[j].phase \in {"connecting", "looping"} => svc'[j].unlucky
    <2>1. /\ Stopper(j) => \E u \in Threads : call'[u].pc = "stop" /\ call'[u].old = j
          /\ Starter(j) => \E u \in Threads : call'[u].pc \in {"stop", "start"} /\ call'[u].new = j
      BY DEF Stopper, Starter, At
    <2>2. IF Served(j) THEN ~svc[j].stopped /\ (svc[j].phase = "new" => Starter(j))
                       ELSE svc[j].stopped \/ Stopper(j)
      BY DEF Services
    <2>3. svc[j].stopped /\ svc[j].phase \in {"connecting", "looping"} => svc[j].unlucky
      BY Types DEF StoppedStaysDown
    <2>4. svc' = svc
      OBVIOUS
    <2> QED
      BY <2>1, <2>2, <2>3, <2>4
  <1>2. UNCHANGED serving /\ svc' \in Seq(Service) /\ Len(svc') = Len(svc)
    BY Types DEF dicts
  <1>3. Services' /\ StoppedStaysDown'
    BY <1>1, <1>2, ServicesNext
  <1>4. Dicts'
    BY SameDicts
  <1> QED
    BY <1>3, <1>4

\* What the next state's saves and requests have to satisfy, when the dicts stay.
LEMMA SavesNext ==
  ASSUME TypeOK, UNCHANGED <<dicts, svc>>, call' \in [Threads -> Call],
         file' \in Seq(Config), persistLock' \in Threads \cup {NoThread}, lastFailed' \in BOOLEAN,
         DistinctFile(file'),
         \A t \in Threads :
           /\ call'[t].pc = "stop" => call'[t].old # 0 /\ ~Served(call'[t].old)
           /\ call'[t].pc = "start" => call'[t].new # 0
           /\ call'[t].pc = "saving" <=> persistLock' = t
           /\ call'[t].pc # "saving" => call'[t].data = <<>>
           /\ call'[t].pc = "saving" =>
                /\ Distinct(call'[t].list)
                /\ Len(call'[t].data) <= Len(call'[t].list)
                /\ \A i \in 1..Len(call'[t].data) :
                     call'[t].data[i].serial = cfg[call'[t].list[i]].serial
  PROVE  TypeOK' /\ Calls' /\ Saves'
  <1>1. cfg' = cfg /\ configs' = configs /\ serving' = serving /\ svc' = svc
    BY DEF dicts
  <1>2. TypeOK'
    BY <1>1 DEF TypeOK, Call
  <1>3. Calls'
    BY <1>1 DEF Calls, At, Served
  <1>4. Saves'
    BY <1>1 DEF Saves, At, Distinct, DistinctFile
  <1> QED
    BY <1>2, <1>3, <1>4

LEMMA TakeConfigsKeeps ==
  ASSUME Typed, Kept, NEW t \in Threads, TakeConfigs(t)
  PROVE  Typed' /\ Kept'
  <1> DEFINE r == [call[t] EXCEPT !.pc = "saving", !.list = configs]
  <1>1. TypeOK /\ Dicts /\ Calls /\ Services /\ Saves /\ Current /\ StoppedStaysDown
    BY DEF Typed, Kept
  <1>2. /\ call[t].pc = "persist" /\ persistLock = NoThread /\ persistLock' = t
        /\ UNCHANGED <<dicts, svc, file, lastFailed>>
    BY DEF TakeConfigs, At
  <1>3. /\ call \in [Threads -> Call] /\ call[t] \in Call /\ configs \in Seq(1..Len(cfg))
        /\ "saving" \in Phases
    BY <1>1, Types DEF Phases
  <1>4. call' = [call EXCEPT ![t] = r]
    BY <1>3 DEF TakeConfigs
  <1>5. r \in Call /\ r.pc = "saving" /\ r.list = configs /\ r.data = <<>>
    <2>1. call[t].data = <<>>
      BY <1>1, <1>2 DEF Calls, At
    <2> QED
      BY <1>3, <2>1 DEF Call
  <1> HIDE DEF r
  <1>6. /\ call' \in [Threads -> Call] /\ call'[t] = r
        /\ \A u \in Threads : u # t => call'[u] = call[u]
    BY <1>3, <1>4, <1>5
  <1>7. Dicts' /\ Services' /\ StoppedStaysDown'
    BY <1>1, <1>2, <1>6, SavingKeeps
  <1>8. TypeOK' /\ Calls' /\ Saves'
    <2>1. ASSUME NEW u \in Threads
          PROVE  /\ call'[u].pc = "stop" => call'[u].old # 0 /\ ~Served(call'[u].old)
                 /\ call'[u].pc = "start" => call'[u].new # 0
                 /\ call'[u].pc = "saving" <=> persistLock' = u
                 /\ call'[u].pc # "saving" => call'[u].data = <<>>
                 /\ call'[u].pc = "saving" =>
                      /\ Distinct(call'[u].list)
                      /\ Len(call'[u].data) <= Len(call'[u].list)
                      /\ \A i \in 1..Len(call'[u].data) :
                           call'[u].data[i].serial = cfg[call'[u].list[i]].serial
      <3>1. CASE u = t
        <4>1. Distinct(configs)
          BY <1>1 DEF Dicts
        <4>2. Len(r.data) = 0 /\ Len(configs) \in Nat
          BY <1>1, <1>5, Types
        <4> QED
          BY <1>2, <1>5, <1>6, <3>1, <4>1, <4>2
      <3>2. CASE u # t
        <4>1. call[u].pc # "saving"
          BY <1>1, <1>2, RegistryAssumption DEF Calls, At
        <4> QED
          BY <1>1, <1>2, <1>6, <3>2, <4>1 DEF Calls, At
      <3> QED
        BY <3>1, <3>2
    <2>2. /\ file' = file /\ lastFailed' = lastFailed /\ DistinctFile(file)
          /\ file \in Seq(Config) /\ lastFailed \in BOOLEAN
      BY <1>1, <1>2 DEF Saves, TypeOK
    <2> QED
      BY <1>1, <1>2, <1>6, <2>1, <2>2, SavesNext
  <1>9. Current'
    <2>1. persistLock' # NoThread
      BY <1>2, RegistryAssumption
    <2>2. call'[persistLock'].list = configs' /\ Len(call'[persistLock'].data) = 0
      BY <1>2, <1>5, <1>6 DEF dicts
    <2> QED
      BY <2>1, <2>2 DEF Current
  <1> QED
    BY <1>7, <1>8, <1>9 DEF Typed, Kept

LEMMA SerializeKeeps ==
  ASSUME Typed, Kept, NEW t \in Threads, Serialize(t)
  PROVE  Typed' /\ Kept'
  <1> DEFINE n == Len(call[t].data)
             e == cfg[call[t].list[n + 1]]
             d == Append(call[t].data, e)
             r == [call[t] EXCEPT !.data = d]
  <1>1. TypeOK /\ Dicts /\ Calls /\ Services /\ Saves /\ Current /\ StoppedStaysDown
    BY DEF Typed, Kept
  <1>2. /\ call[t].pc = "saving" /\ n < Len(call[t].list)
        /\ UNCHANGED <<dicts, svc>> /\ UNCHANGED storage
    BY DEF Serialize, Serialized, At
  <1>3. /\ call \in [Threads -> Call] /\ call[t] \in Call
        /\ call[t].list \in Seq(1..Len(cfg)) /\ call[t].data \in Seq(Config)
    BY <1>1, Types DEF Call
  <1>4. n \in Nat /\ n + 1 \in 1..Len(call[t].list)
    BY <1>2, <1>3, LenProperties
  <1>5. e \in Config
    <2>1. call[t].list[n + 1] \in 1..Len(cfg)
      BY <1>3, <1>4, ElementOfSeq
    <2> QED
      BY <1>1, <2>1, Types
  <1>6. call' = [call EXCEPT ![t] = r]
    BY DEF Serialize, Serialized
  <1> HIDE DEF e
  <1>7. /\ d \in Seq(Config) /\ Len(d) = n + 1
        /\ \A i \in 1..n : d[i] = call[t].data[i]
        /\ d[n + 1] = e
    BY <1>3, <1>5, AppendProperties
  <1> HIDE DEF d
  <1>8. r \in Call /\ r.pc = call[t].pc /\ r.list = call[t].list /\ r.data = d
    BY <1>3, <1>7 DEF Call
  <1> HIDE DEF r, n
  <1>9. /\ call' \in [Threads -> Call] /\ call'[t] = r
        /\ \A u \in Threads : u # t => call'[u] = call[u]
    BY <1>3, <1>6, <1>8
  <1>10. Dicts' /\ Services' /\ StoppedStaysDown'
    BY <1>1, <1>2, <1>9, SavingKeeps
  <1>11. persistLock' = persistLock /\ persistLock = t /\ file' = file /\ lastFailed' = lastFailed
    BY <1>1, <1>2 DEF storage, Calls, At
  <1>12. TypeOK' /\ Calls' /\ Saves'
    <2>1. ASSUME NEW u \in Threads
          PROVE  /\ call'[u].pc = "stop" => call'[u].old # 0 /\ ~Served(call'[u].old)
                 /\ call'[u].pc = "start" => call'[u].new # 0
                 /\ call'[u].pc = "saving" <=> persistLock' = u
                 /\ call'[u].pc # "saving" => call'[u].data = <<>>
                 /\ call'[u].pc = "saving" =>
                      /\ Distinct(call'[u].list)
                      /\ Len(call'[u].data) <= Len(call'[u].list)
                      /\ \A i \in 1..Len(call'[u].data) :
                           call'[u].data[i].serial = cfg[call'[u].list[i]].serial
      <3>1. CASE u = t
        <4>1. /\ Distinct(call[t].list)
              /\ \A i \in 1..n : call[t].data[i].serial = cfg[call[t].list[i]].serial
          BY <1>1, <1>2 DEF Saves, At, n
        <4>2. \A i \in 1..(n + 1) : d[i].serial = cfg[call[t].list[i]].serial
          BY <1>4, <1>7, <4>1 DEF e
        <4>3. Len(d) <= Len(call[t].list)
          BY <1>4, <1>7
        <4> QED
          BY <1>2, <1>7, <1>8, <1>9, <1>11, <3>1, <4>1, <4>2, <4>3
      <3>2. CASE u # t
        <4>1. call[u].pc # "saving"
          BY <1>1, <1>11, <3>2 DEF Calls, At
        <4> QED
          BY <1>1, <1>9, <1>11, <3>2, <4>1 DEF Calls, At
      <3> QED
        BY <3>1, <3>2
    <2>2. DistinctFile(file) /\ file \in Seq(Config) /\ lastFailed \in BOOLEAN
      BY <1>1 DEF Saves, TypeOK
    <2> QED
      BY <1>1, <1>2, <1>9, <1>11, <2>1, <2>2, SavesNext
  <1>13. Current'
    <2>1. (\A u \in Threads : ~WillSave(u)') => \A u \in Threads : ~WillSave(u)
      BY <1>2, <1>9 DEF WillSave, At
    <2>2. t # NoThread
      BY RegistryAssumption
    <2>3. SUFFICES ASSUME \A u \in Threads : ~WillSave(u)
                   PROVE  /\ call'[t].list = configs'
                          /\ \A i \in 1..Len(call'[t].data) : call'[t].data[i] = cfg'[configs'[i]]
      BY <1>11, <2>1, <2>2 DEF Current
    <2>4. call[t].list = configs /\ \A i \in 1..n : call[t].data[i] = cfg[configs[i]]
      BY <1>11, <2>2, <2>3 DEF Kept, Current, n
    <2>5. \A i \in 1..(n + 1) : d[i] = cfg[configs[i]]
      BY <1>4, <1>7, <2>4 DEF e
    <2>6. cfg' = cfg /\ configs' = configs
      BY <1>2 DEF dicts
    <2> QED
      BY <1>7, <1>8, <1>9, <2>4, <2>5, <2>6
  <1> QED
    BY <1>10, <1>12, <1>13 DEF Typed, Kept

\* A file in which one entry has capture, at most, is loaded as it is.
LEMMA LoadedOnce ==
  ASSUME TypeOK, OneCapture, NEW d \in Seq(Config), Len(d) = Len(configs),
         \A k \in 1..Len(d) : d[k] = cfg[configs[k]]
  PROVE  Loaded(d) = InMemory
  <1> DEFINE e(i) == IF \E k \in DOMAIN d : k > i /\ d[k].capture THEN Uncaptured(d[i]) ELSE d[i]
  <1>1. DOMAIN d = 1..Len(configs) /\ DOMAIN configs = 1..Len(configs)
    BY Types, LenProperties
  <1>2. \A r \in Config : ~r.capture => Uncaptured(r) = r
    BY DEF Uncaptured, Config
  <1>3. ASSUME NEW i \in 1..Len(configs)
        PROVE  e(i) = cfg[configs[i]]
    <2>1. d[i] \in Config /\ d[i] = cfg[configs[i]]
      BY ElementOfSeq
    <2>2. CASE \E k \in DOMAIN d : k > i /\ d[k].capture
      <3>1. ~d[i].capture
        BY <1>1, <2>2 DEF OneCapture
      <3> QED
        BY <1>2, <2>1, <2>2, <3>1
    <2>3. CASE ~(\E k \in DOMAIN d : k > i /\ d[k].capture)
      BY <2>1, <2>3
    <2> QED
      BY <2>2, <2>3
  <1>4. Loaded(d) = [i \in DOMAIN d |-> e(i)]
    BY DEF Loaded
  <1> HIDE DEF e
  <1>5. [i \in DOMAIN d |-> e(i)] = [k \in DOMAIN configs |-> cfg[configs[k]]]
    BY <1>1, <1>3
  <1> QED
    BY <1>4, <1>5 DEF InMemory

LEMMA ReplaceKeeps ==
  ASSUME Typed, Kept, NEW t \in Threads, Replace(t)
  PROVE  Typed' /\ Kept'
  <1> DEFINE d == call[t].data
             l == call[t].list
  <1>1. TypeOK /\ Dicts /\ Calls /\ Services /\ Saves /\ Current /\ StoppedStaysDown
    BY DEF Typed, Kept
  <1>2. /\ call[t].pc = "saving" /\ Len(d) = Len(l)
        /\ UNCHANGED <<dicts, svc>> /\ persistLock' = NoThread
        /\ call' = [call EXCEPT ![t] = NoCall]
        /\ \/ file' = d /\ lastFailed' = FALSE
           \/ file' = file /\ lastFailed' = TRUE
    BY DEF Replace, Serialized, At
  <1>3. call \in [Threads -> Call] /\ l \in Seq(1..Len(cfg)) /\ d \in Seq(Config)
    BY <1>1, Types DEF Call
  <1>4. /\ call' \in [Threads -> Call] /\ call'[t] = NoCall
        /\ \A u \in Threads : u # t => call'[u] = call[u]
    BY <1>1, <1>2, <1>3, ToSaveIs
  <1>5. NoCall.pc = "idle" /\ NoCall.data = <<>>
    BY <1>1, ToSaveIs
  <1>6. Dicts' /\ Services' /\ StoppedStaysDown'
    BY <1>1, <1>2, <1>4, SavingKeeps
  <1>7. persistLock = t
    BY <1>1, <1>2 DEF Calls, At
  <1>8. TypeOK' /\ Calls' /\ Saves'
    <2>1. ASSUME NEW u \in Threads
          PROVE  /\ call'[u].pc = "stop" => call'[u].old # 0 /\ ~Served(call'[u].old)
                 /\ call'[u].pc = "start" => call'[u].new # 0
                 /\ call'[u].pc = "saving" <=> persistLock' = u
                 /\ call'[u].pc # "saving" => call'[u].data = <<>>
                 /\ call'[u].pc = "saving" =>
                      /\ Distinct(call'[u].list)
                      /\ Len(call'[u].data) <= Len(call'[u].list)
                      /\ \A i \in 1..Len(call'[u].data) :
                           call'[u].data[i].serial = cfg[call'[u].list[i]].serial
      <3>1. persistLock' # u
        BY <1>2, RegistryAssumption
      <3>2. CASE u = t
        BY <1>4, <1>5, <3>1, <3>2
      <3>3. CASE u # t
        <4>1. call[u].pc # "saving"
          BY <1>1, <1>7, <3>3 DEF Calls, At
        <4> QED
          BY <1>1, <1>4, <3>1, <3>3, <4>1 DEF Calls, At
      <3> QED
        BY <3>2, <3>3
    <2>2. DistinctFile(d)
      <3>1. Distinct(l) /\ \A i \in 1..Len(d) : d[i].serial = cfg[l[i]].serial
        BY <1>1, <1>2 DEF Saves, At
      <3> HIDE DEF d, l
      <3> QED
        BY <1>2, <3>1 DEF Distinct, DistinctFile
    <2>3. /\ DistinctFile(file') /\ file' \in Seq(Config) /\ lastFailed' \in BOOLEAN
          /\ persistLock' \in Threads \cup {NoThread}
      <3>1. DistinctFile(file) /\ file \in Seq(Config)
        BY <1>1 DEF Saves, TypeOK
      <3> HIDE DEF d
      <3> QED
        BY <1>2, <1>3, <2>2, <3>1
    <2> QED
      BY <1>1, <1>2, <1>4, <2>1, <2>3, SavesNext
  <1>9. Current'
    <2>1. (\A u \in Threads : ~WillSave(u)') => \A u \in Threads : ~WillSave(u)
      BY <1>2, <1>4 DEF WillSave, At
    <2>2. SUFFICES ASSUME \A u \in Threads : ~WillSave(u), ~lastFailed'
                   PROVE  Loaded(file)' = InMemory'
      BY <1>2, <2>1 DEF Current
    <2>3. l = configs /\ \A i \in 1..Len(d) : d[i] = cfg[configs[i]]
      BY <1>1, <1>7, <2>2, RegistryAssumption DEF Current
    <2>4. Loaded(d) = InMemory
      BY <1>1, <1>2, <1>3, <2>3, LoadedOnce DEF Dicts
    <2>5. file' = d
      BY <1>2, <2>2
    <2>6. Loaded(file)' = Loaded(d)
      BY <2>5 DEF Loaded
    <2>7. InMemory' = InMemory
      BY <1>2 DEF InMemory, dicts
    <2> QED
      BY <2>4, <2>6, <2>7
  <1> QED
    BY <1>6, <1>8, <1>9 DEF Typed, Kept

---------------------------------------------------------------------------
(* A restart, and the theorems.                                            *)

\* load() keeps the serials of the file, and capture of one entry at most.
LEMMA LoadedIs ==
  ASSUME NEW f \in Seq(Config)
  PROVE  /\ Loaded(f) \in Seq(Config) /\ Len(Loaded(f)) = Len(f)
         /\ \A i \in 1..Len(f) : Loaded(f)[i].serial = f[i].serial
         /\ \A i, k \in 1..Len(f) : Loaded(f)[i].capture /\ Loaded(f)[k].capture => i = k
  <1> DEFINE e(i) == IF \E k \in DOMAIN f : k > i /\ f[k].capture THEN Uncaptured(f[i]) ELSE f[i]
             g == [i \in 1..Len(f) |-> e(i)]
  <1>1. Len(f) \in Nat /\ DOMAIN f = 1..Len(f) /\ \A i \in 1..Len(f) : f[i] \in Config
    BY LenProperties, ElementOfSeq
  <1>2. \A i \in 1..Len(f) :
          /\ e(i) \in Config /\ e(i).serial = f[i].serial
          /\ e(i).capture => f[i].capture /\ ~(\E k \in DOMAIN f : k > i /\ f[k].capture)
    BY <1>1, UncapturedIs
  <1>3. \A i, k \in 1..Len(f) : e(i).capture /\ e(k).capture => i = k
    <2> SUFFICES ASSUME NEW i \in 1..Len(f), NEW k \in 1..Len(f), e(i).capture, e(k).capture
                 PROVE  i = k
      OBVIOUS
    <2>1. f[i].capture /\ f[k].capture /\ ~(k > i) /\ ~(i > k)
      BY <1>1, <1>2
    <2> QED
      BY <2>1
  <1>4. Loaded(f) = g
    BY <1>1 DEF Loaded
  <1> HIDE DEF e
  <1>5. g \in [1..Len(f) -> Config] /\ \A i \in 1..Len(f) : g[i] = e(i)
    BY <1>2
  <1> HIDE DEF g
  <1>6. g \in Seq(Config) /\ Len(g) = Len(f)
    BY <1>1, <1>5, Made
  <1> QED
    BY <1>2, <1>3, <1>4, <1>5, <1>6

LEMMA RestartKeeps ==
  ASSUME Typed, Kept, Restart
  PROVE  Typed' /\ Kept'
  <1> DEFINE n == Len(file)
             S(i) == file[i].serial
  <1>1. file \in Seq(Config) /\ DistinctFile(file)
    BY DEF Typed, TypeOK, Kept, Saves
  <1>2. /\ n \in Nat /\ DOMAIN file = 1..n
        /\ \A i \in 1..n : S(i) \in Serials
    <2>1. n \in Nat /\ DOMAIN file = 1..n /\ \A i \in 1..n : file[i] \in Config
      BY <1>1, LenProperties, ElementOfSeq
    <2> QED
      BY <2>1 DEF Config
  <1>3. /\ cfg' \in Seq(Config) /\ Len(cfg') = n
        /\ \A i \in 1..n : cfg'[i].serial = S(i)
        /\ \A i, k \in 1..n : cfg'[i].capture /\ cfg'[k].capture => i = k
    BY <1>1, LoadedIs DEF Restart
  <1>4. /\ configs' \in Seq(1..n) /\ Len(configs') = n
        /\ \A k \in 1..n : configs'[k] = k
    <2> DEFINE id == [i \in 1..n |-> i]
    <2>1. configs' = id
      BY <1>2 DEF Restart
    <2>2. id \in [1..n -> 1..n] /\ \A k \in 1..n : id[k] = k
      OBVIOUS
    <2> HIDE DEF id
    <2> QED
      BY <1>2, <2>1, <2>2, Made
  <1>5. /\ svc' \in Seq(Service) /\ Len(svc') = n
        /\ \A i \in 1..n : /\ ~svc'[i].stopped /\ svc'[i].phase = "check"
                           /\ svc'[i].capture = cfg'[i].capture
    <2> DEFINE r(i) == [Built(cfg'[i]) EXCEPT !.phase = "check"]
               f == [i \in 1..n |-> r(i)]
    <2>1. svc' = f
      BY <1>2 DEF Restart
    <2>2. \A i \in 1..n : /\ r(i) \in Service /\ ~r(i).stopped /\ r(i).phase = "check"
                          /\ r(i).capture = cfg'[i].capture
      <3> SUFFICES ASSUME NEW i \in 1..n
                   PROVE  /\ r(i) \in Service /\ ~r(i).stopped /\ r(i).phase = "check"
                          /\ r(i).capture = cfg'[i].capture
        OBVIOUS
      <3> DEFINE b == Built(cfg'[i])
      <3>1. b \in Service /\ b.capture = cfg'[i].capture /\ ~b.stopped
        BY <1>3, ElementOfSeq, BuiltIs
      <3> HIDE DEF b
      <3>2. /\ [b EXCEPT !.phase = "check"] \in Service
            /\ [b EXCEPT !.phase = "check"].stopped = b.stopped
            /\ [b EXCEPT !.phase = "check"].phase = "check"
            /\ [b EXCEPT !.phase = "check"].capture = b.capture
        BY <3>1 DEF Service
      <3> QED
        BY <3>1, <3>2 DEF b
    <2> HIDE DEF r
    <2>3. f \in [1..n -> Service] /\ \A i \in 1..n : f[i] = r(i)
      BY <2>2
    <2> HIDE DEF f
    <2> QED
      BY <1>2, <2>1, <2>2, <2>3, Made
  <1>6. /\ serving' \in [Serials -> 0..n]
        /\ \A i \in 1..n : serving'[S(i)] = i
        /\ \A s \in Serials : serving'[s] # 0 => serving'[s] \in 1..n /\ S(serving'[s]) = s
    <2> DEFINE e(s) == IF \E i \in 1..n : S(i) = s THEN CHOOSE i \in 1..n : S(i) = s ELSE 0
    <2>1. serving' = [s \in Serials |-> e(s)]
      BY <1>2 DEF Restart
    <2>2. \A s \in Serials : IF \E i \in 1..n : S(i) = s THEN e(s) \in 1..n /\ S(e(s)) = s
                                                         ELSE e(s) = 0
      OBVIOUS
    <2> HIDE DEF e
    <2>3. \A i \in 1..n : e(S(i)) = i
      BY <1>1, <1>2, <2>2 DEF DistinctFile
    <2>4. \A s \in Serials : e(s) \in 0..n /\ (e(s) # 0 => e(s) \in 1..n /\ S(e(s)) = s)
      BY <1>2, <2>2
    <2> QED
      BY <1>2, <2>1, <2>3, <2>4
  <1>7. /\ call' = [t \in Threads |-> NoCall] /\ persistLock' = NoThread
        /\ lastFailed' = FALSE /\ file' = file
    BY DEF Restart
  <1>8. \A t \in Threads : call'[t] = NoCall /\ call'[t].pc = "idle" /\ call'[t].data = <<>>
    BY <1>7 DEF NoCall
  <1>9. TypeOK'
    <2>1. NoCall \in [pc : Phases, old : 0..Len(svc'), new : 0..Len(svc'), saves : BOOLEAN,
                      list : Seq(1..Len(cfg')), data : Seq(Config)]
      <3>1. <<>> \in Seq(1..Len(cfg')) /\ <<>> \in Seq(Config)
        BY EmptySeq
      <3> QED
        BY <1>2, <1>5, <3>1 DEF NoCall, Phases
    <2> HIDE DEF n
    <2> QED
      BY <1>1, <1>3, <1>4, <1>5, <1>6, <1>7, <2>1 DEF TypeOK
  <1> HIDE DEF n
  <1>10. Dicts'
    <2>1. \A j, k \in 1..Len(configs') :
            cfg'[configs'[j]].serial = cfg'[configs'[k]].serial => j = k
      BY <1>1, <1>3, <1>4 DEF DistinctFile, n
    <2>2. \A s \in Serials : serving'[s] # 0 <=>
            \E k \in 1..Len(configs') : cfg'[configs'[k]].serial = s
      BY <1>2, <1>3, <1>4, <1>6
    <2>3. \A s, u \in Serials : serving'[s] # 0 /\ serving'[s] = serving'[u] => s = u
      BY <1>6
    <2>4. \A j, k \in 1..Len(configs') :
            cfg'[configs'[j]].capture /\ cfg'[configs'[k]].capture => j = k
      BY <1>3, <1>4
    <2>5. \A k \in 1..Len(configs') :
            LET i == serving'[cfg'[configs'[k]].serial]
            IN i # 0 /\ svc'[i].capture = cfg'[configs'[k]].capture
      BY <1>2, <1>3, <1>4, <1>5, <1>6
    <2> QED
      BY <2>1, <2>2, <2>3, <2>4, <2>5, DictsNext
  <1>11. Calls'
    BY <1>7, <1>8, RegistryAssumption DEF Calls, At
  <1>12. Services' /\ StoppedStaysDown'
    <2>1. \A i \in 1..n : WillServe(i) /\ ~svc'[i].stopped /\ svc'[i].phase = "check"
      BY <1>2, <1>5, <1>6 DEF WillServe
    <2>2. DOMAIN svc' = 1..n
      BY <1>5, LenProperties
    <2>3. Services'
      BY <1>5, <2>1 DEF Services, Served, WillServe
    <2>4. StoppedStaysDown'
      BY <2>1, <2>2 DEF StoppedStaysDown
    <2> QED
      BY <2>3, <2>4
  <1>13. Saves'
    BY <1>1, <1>7, <1>8 DEF Saves, At, DistinctFile
  <1>14. Current'
    <2>1. Loaded(file)' = cfg'
      BY <1>7 DEF Restart, Loaded
    <2>2. InMemory' = cfg'
      <3>1. DOMAIN configs' = 1..n /\ DOMAIN cfg' = 1..n
        BY <1>3, <1>4, LenProperties
      <3>2. cfg' = [k \in 1..n |-> cfg'[k]]
        BY <1>3, <3>1
      <3> QED
        BY <1>4, <3>1, <3>2 DEF InMemory
    <2> QED
      BY <1>7, <2>1, <2>2 DEF Current
  <1> QED
    BY <1>9, <1>10, <1>11, <1>12, <1>13, <1>14 DEF Typed, Kept

IInv == Typed /\ Kept

LEMMA Inductive ==
  /\ Init => IInv
  /\ IInv /\ [Next]_vars => IInv'
  <1>1. Init => IInv
    <2> SUFFICES ASSUME Init PROVE IInv
      OBVIOUS
    <2>1. /\ cfg = <<>> /\ configs = <<>> /\ svc = <<>> /\ file = <<>>
          /\ serving = [s \in Serials |-> 0] /\ persistLock = NoThread
          /\ call = [t \in Threads |-> NoCall] /\ lastFailed = FALSE
      BY DEF Init
    <2>2. /\ Len(cfg) = 0 /\ Len(configs) = 0 /\ Len(svc) = 0 /\ Len(file) = 0
          /\ DOMAIN svc = {} /\ DOMAIN file = {} /\ DOMAIN configs = {}
      BY <2>1
    <2>3. TypeOK
      <3>1. /\ cfg \in Seq(Config) /\ configs \in Seq(1..Len(cfg)) /\ svc \in Seq(Service)
            /\ file \in Seq(Config)
        BY <2>1, EmptySeq
      <3>2. call \in [Threads -> [pc : Phases, old : 0..Len(svc), new : 0..Len(svc), saves : BOOLEAN,
                                  list : Seq(1..Len(cfg)), data : Seq(Config)]]
        <4>1. <<>> \in Seq(1..Len(cfg)) /\ <<>> \in Seq(Config)
          BY EmptySeq
        <4>2. NoCall \in [pc : Phases, old : 0..Len(svc), new : 0..Len(svc), saves : BOOLEAN,
                          list : Seq(1..Len(cfg)), data : Seq(Config)]
          BY <2>2, <4>1 DEF NoCall, Phases
        <4> QED
          BY <2>1, <4>2
      <3>3. serving \in [Serials -> 0..Len(svc)]
        BY <2>1, <2>2
      <3>4. persistLock \in Threads \cup {NoThread} /\ lastFailed \in BOOLEAN
        BY <2>1
      <3> QED
        BY <3>1, <3>2, <3>3, <3>4 DEF TypeOK
    <2>4. \A t \in Threads : call[t].pc = "idle" /\ call[t].data = <<>>
      BY <2>1 DEF NoCall
    <2>5. Dicts
      BY <2>1, <2>2 DEF Dicts, Distinct, SameSerials, Registered, Known, OwnService, OneCapture, Agree
    <2>6. Calls
      BY <2>1, <2>4, RegistryAssumption DEF Calls, At
    <2>7. Services /\ StoppedStaysDown /\ Saves
      BY <2>2, <2>4 DEF Services, StoppedStaysDown, Saves, DistinctFile, At
    <2>8. Loaded(file) = InMemory
      BY <2>2 DEF Loaded, InMemory
    <2> QED
      BY <2>1, <2>3, <2>5, <2>6, <2>7, <2>8 DEF IInv, Typed, Kept, Current
  <1>2. ASSUME IInv, Next PROVE IInv'
    <2>1. ASSUME NEW t \in Threads, Proceed(t) PROVE IInv'
      BY <1>2, <2>1, StopOldKeeps, StartNewKeeps, TakeConfigsKeeps, SerializeKeeps, ReplaceKeeps
      DEF IInv, Proceed
    <2>2. ASSUME NEW t \in Threads, Request(t) PROVE IInv'
      BY <1>2, <2>2, RequestKeeps DEF IInv
    <2>3. ASSUME NEW i \in 1..MaxServices, ConnectLoop(i) PROVE IInv'
      BY <1>2, <2>3, ConnectLoopKeeps DEF IInv
    <2>4. CASE Restart
      BY <1>2, <2>4, RestartKeeps DEF IInv
    <2> QED
      BY <1>2, <2>1, <2>2, <2>3, <2>4 DEF Next
  <1>3. ASSUME IInv, UNCHANGED vars PROVE IInv'
    <2>1. /\ TypeOK /\ Dicts /\ Calls /\ Services /\ Saves /\ Current /\ StoppedStaysDown
      BY <1>3 DEF IInv, Typed, Kept
    <2>2. UNCHANGED <<dicts, storage, call, svc>>
      BY <1>3 DEF vars
    <2>3. TypeOK' /\ Calls' /\ Saves' /\ Current'
      BY <2>1, <2>2, Types, SameCalls
    <2>4. Dicts'
      BY <2>1, <2>2, SameDicts
    <2>5. Services' /\ StoppedStaysDown'
      BY <2>1, <2>2 DEF Services, StoppedStaysDown, Served, Starter, Stopper, At, dicts
    <2> QED
      BY <2>3, <2>4, <2>5 DEF IInv, Typed, Kept
  <1> QED
    BY <1>1, <1>2, <1>3

\* What the dicts, the services, the requests and the saves know of each other, in
\* every reachable state.
THEOREM Inductively == Spec => []IInv
  BY Inductive, PTL DEF Spec

\* Every variable has its type.
THEOREM Typing == Spec => []TypeOK
  <1>1. IInv => TypeOK
    BY DEF IInv, Typed
  <1> QED
    BY <1>1, Inductively, PTL

\* At most one registered printer has capture, and the service shown for a printer
\* has its configuration's value, whatever requests interleave.
THEOREM CaptureAgrees == Spec => []ServicesMatch
  <1>1. IInv => ServicesMatch
    <2> SUFFICES ASSUME IInv PROVE ServicesMatch
      OBVIOUS
    <2>1. TypeOK /\ Dicts
      BY DEF IInv, Typed
    <2>2. \A o \in ToSet(configs) : \E k \in 1..Len(configs) : o = configs[k]
      BY <2>1, Types DEF ToSet
    <2>3. \A o \in ToSet(configs) :
            LET i == serving[cfg[o].serial]
            IN i # 0 /\ svc[i].capture = cfg[o].capture
      BY <2>1, <2>2 DEF Dicts, Agree, ServedBy
    <2> DEFINE C == {o \in ToSet(configs) : cfg[o].capture}
    <2>4. \A o, q \in C : o = q
      BY <2>1, <2>2 DEF Dicts, OneCapture
    <2>5. Cardinality(C) <= 1
      <3>1. CASE C = {}
        <4>1. Cardinality(C) = 0
          BY <3>1, FS_EmptySet
        <4> QED
          BY <4>1
      <3>2. CASE C # {}
        <4>1. PICK o : o \in C
          BY <3>2
        <4>2. C = {o}
          BY <2>4, <4>1
        <4>3. Cardinality(C) = 1
          BY <4>2, FS_Singleton
        <4> QED
          BY <4>3
      <3> QED
        BY <3>1, <3>2
    <2> QED
      BY <2>3, <2>5 DEF ServicesMatch
  <1> QED
    BY <1>1, Inductively, PTL

\* Between requests the services in the dict have been started and told to stop by
\* nobody, and every other service has been told to stop.
THEOREM ServicesWanted == Spec => []ServicesSettle
  <1>1. IInv => ServicesSettle
    <2> SUFFICES ASSUME IInv, Quiet, NEW i \in DOMAIN svc
                 PROVE  IF \E s \in Serials : serving[s] = i
                          THEN ~svc[i].stopped /\ svc[i].phase # "new"
                          ELSE svc[i].stopped
      BY DEF ServicesSettle
    <2>1. Services /\ i \in 1..Len(svc)
      BY Types DEF IInv, Typed, Kept
    <2>2. ~Starter(i) /\ ~Stopper(i)
      BY DEF Quiet, Starter, Stopper, At
    <2> QED
      BY <2>1, <2>2 DEF Services, Served
  <1> QED
    BY <1>1, Inductively, PTL

\* A service that was told to stop opens no connection, but for one that was inside
\* connect() at that moment.
THEOREM StoppedForGood == Spec => []StoppedStaysDown
  <1>1. IInv => StoppedStaysDown
    BY DEF IInv, Kept
  <1> QED
    BY <1>1, Inductively, PTL

\* With no request in progress the file has what is in memory, unless the last save
\* failed: however saves and edits interleave, and whatever a save read of objects
\* that were being edited.
THEOREM Converges == Spec => []FileConverges
  <1>1. IInv => FileConverges
    <2> SUFFICES ASSUME IInv, Quiet, ~lastFailed
                 PROVE  Loaded(file) = InMemory
      BY DEF FileConverges, InMemory
    <2>1. \A t \in Threads : ~WillSave(t) /\ ~At(t, "saving")
      BY DEF Quiet, WillSave, At
    <2>2. persistLock = NoThread
      BY <2>1 DEF IInv, Typed, TypeOK, Kept, Calls
    <2> QED
      BY <2>1, <2>2 DEF IInv, Kept, Current
  <1> QED
    BY <1>1, Inductively, PTL

=============================================================================
