--------------------------- MODULE DevicesProofs ---------------------------
(***************************************************************************)
(* Proofs about module Devices, for any actors, platforms and bounds.       *)
(***************************************************************************)
EXTENDS Devices, DataInduction, FiniteSetTheorems, TLAPS

(***************************************************************************)
(* The inductive invariant behind TypeOK, ObjectsOwned and                  *)
(* TriggersAnswered: for a node n, and the serialised actors f in storage   *)
(* or at the other runtime.                                                 *)
(***************************************************************************)
Partial(D, R) == UNION {[d -> R] : d \in SUBSET D}

Caps == {"io.button", "io.light", "io.soilmoisture", "io.temperature", "io.accelerometer", "io.gyroscope",
         "io.resource", "sys.timer.once", "sys.attribute.indexed"}
Opens(t) == Range(TypeOf[t].opens)

Owed == {"no", "yes", "lost"}
Refs == Partial(Caps, Ids)
Objs == Partial(Ids, [cap : Caps, st : State])
ActorType ==
  [type : DOMAIN TypeOf, arg : Arg, refs : Refs, enabled : BOOLEAN, away : BOOLEAN,
   in : Seq(Tokens), out : 0 .. QueueSize, owed : Owed, first : {<<>>} \cup {<<o>> : o \in Objs}]
ObjectType == [cap : Caps, actor : Actors, st : State]
NodeType ==
  [up : BOOLEAN, actors : Partial(Actors, ActorType), objects : Partial(Ids, ObjectType), fds : 0 .. MaxFds]
SerialType ==
  [type : DOMAIN TypeOf, arg : {"none", "set", "zero", "other", "malformed"}, refs : Refs, objs : Objs,
   in : Seq(Tokens), out : 0 .. QueueSize, enabled : BOOLEAN, owed : Owed]

\* The objects are those of the references, each of its capability.
Covers(objs, refs) ==
  /\ DOMAIN objs = {refs[c] : c \in DOMAIN refs}
  /\ \A c \in DOMAIN refs : objs[refs[c]].cap = c

\* What is written of an actor is all it needs to find its objects again.
SerialSound(s) ==
  /\ s \in SerialType /\ Len(s.in) <= QueueSize
  /\ DOMAIN s.refs = Opens(s.type) /\ Covers(s.objs, s.refs)
AllSerialSound(f) == f \in Partial(Actors, SerialType) /\ \A a \in DOMAIN f : SerialSound(f[a])

\* An actor has the objects its type opens, and what was written of it the last
\* time is about these objects.  A thermometer has what is owed.
ActorSound(n, a) ==
  LET x == n.actors[a] IN
  /\ Len(x.in) <= QueueSize /\ DOMAIN x.refs = Opens(x.type)
  /\ \A c \in DOMAIN x.refs :
       Known(n, a, c) /\ Object(n, a, c).cap = c /\ Object(n, a, c).actor = a
  /\ x.first # <<>> => Covers(x.first[1], x.refs)
  /\ x.type = "TriggeredTemperature" => (x.owed = "yes" <=> Object(n, a, "io.temperature").st.ready)

\* An object is referred to by its actor and has a device; a thermometer does
\* nothing by itself.
ObjectSound(n, i) ==
  LET o == n.objects[i] IN
  /\ o.actor \in DOMAIN n.actors /\ o.cap \in DOMAIN n.actors[o.actor].refs
  /\ n.actors[o.actor].refs[o.cap] = i /\ Device(o.cap) # "none"
  /\ o.cap = "io.temperature" => ~o.st.armed

CoapObjects(n) == {i \in DOMAIN n.objects : Device(n.objects[i].cap) = "coap"}

NodeSound(n) ==
  /\ n \in NodeType /\ n.fds = Cardinality(CoapObjects(n))
  /\ \A a \in DOMAIN n.actors : ActorSound(n, a)
  /\ \A i \in DOMAIN n.objects : ObjectSound(n, i)

\* No id stands for objects of two actors, here, in storage or at the peer.
WrittenIds(f, a) == IF a \in DOMAIN f THEN DOMAIN f[a].objs ELSE {}
Apart(f, g) == \A a, b \in Actors : a # b => WrittenIds(f, a) \cap WrittenIds(g, b) = {}
ApartFrom(n, f) ==
  \A i \in DOMAIN n.objects : \A a \in Actors : i \in WrittenIds(f, a) => n.objects[i].actor = a

DevicesInv ==
  /\ host \in Hosts /\ moves \in 0 .. MaxMoves /\ NodeSound(node)
  /\ AllSerialSound(stored) /\ AllSerialSound(peer)
  /\ Apart(stored, stored) /\ Apart(peer, peer) /\ Apart(stored, peer)
  /\ ApartFrom(node, stored) /\ ApartFrom(node, peer)
  /\ ~node.up => DOMAIN node.actors = {} /\ DOMAIN node.objects = {}
  /\ \A a \in DOMAIN node.actors : node.actors[a].away => a \in DOMAIN peer

(***************************************************************************)
(* Functions on a part of a set.                                            *)
(***************************************************************************)
\* What it is to be such a function.
LEMMA PartialFacts ==
  ASSUME NEW D, NEW R, NEW f
  PROVE  f \in Partial(D, R) <=> /\ DOMAIN f \subseteq D /\ f = [x \in DOMAIN f |-> f[x]]
                                 /\ \A x \in DOMAIN f : f[x] \in R
<1>1. ASSUME f \in Partial(D, R)
      PROVE  /\ DOMAIN f \subseteq D /\ f = [x \in DOMAIN f |-> f[x]]
             /\ \A x \in DOMAIN f : f[x] \in R
  <2>1. PICK d \in SUBSET D : f \in [d -> R]
    BY <1>1 DEF Partial
  <2> QED
    BY <2>1
<1>2. ASSUME DOMAIN f \subseteq D, f = [x \in DOMAIN f |-> f[x]], \A x \in DOMAIN f : f[x] \in R
      PROVE  f \in Partial(D, R)
  <2>1. f \in [DOMAIN f -> R] /\ DOMAIN f \in SUBSET D
    BY <1>2
  <2> QED
    BY <2>1 DEF Partial
<1> QED
  BY <1>1, <1>2

\* A value is put in.
LEMMA PutFacts ==
  ASSUME NEW D, NEW R, NEW f \in Partial(D, R), NEW k \in D, NEW v \in R, NEW g, g = Put(f, k, v)
  PROVE  /\ g \in Partial(D, R) /\ DOMAIN g = DOMAIN f \cup {k} /\ g[k] = v
         /\ \A x \in DOMAIN f \ {k} : g[x] = f[x]
<1>1. DOMAIN f \subseteq D /\ \A x \in DOMAIN f : f[x] \in R
  BY PartialFacts
<1>2. /\ DOMAIN g = DOMAIN f \cup {k} /\ g[k] = v /\ g = [x \in DOMAIN g |-> g[x]]
      /\ \A x \in DOMAIN f \ {k} : g[x] = f[x]
  BY DEF Put
<1>3. \A x \in DOMAIN g : g[x] \in R
  BY <1>1, <1>2
<1>4. DOMAIN g \subseteq D
  BY <1>1, <1>2
<1> QED
  BY <1>2, <1>3, <1>4, PartialFacts

\* Values are taken out.
LEMMA WithoutFacts ==
  ASSUME NEW D, NEW R, NEW f \in Partial(D, R), NEW S, NEW g, g = Without(f, S)
  PROVE  /\ g \in Partial(D, R) /\ DOMAIN g = DOMAIN f \ S
         /\ \A x \in DOMAIN g : g[x] = f[x]
<1>1. DOMAIN f \subseteq D /\ \A x \in DOMAIN f : f[x] \in R
  BY PartialFacts
<1>2. /\ DOMAIN g = DOMAIN f \ S /\ g = [x \in DOMAIN g |-> g[x]]
      /\ \A x \in DOMAIN g : g[x] = f[x]
  BY DEF Without
<1>3. DOMAIN g \subseteq D /\ \A x \in DOMAIN g : g[x] \in R
  BY <1>1, <1>2
<1> QED
  BY <1>2, <1>3, PartialFacts

\* A value is replaced.
LEMMA ExceptFacts ==
  ASSUME NEW D, NEW R, NEW f \in Partial(D, R), NEW k \in DOMAIN f, NEW v \in R,
         NEW g, g = [f EXCEPT ![k] = v]
  PROVE  /\ g \in Partial(D, R) /\ DOMAIN g = DOMAIN f /\ g[k] = v
         /\ \A x \in DOMAIN f \ {k} : g[x] = f[x]
<1>1. DOMAIN f \subseteq D /\ \A x \in DOMAIN f : f[x] \in R
  BY PartialFacts
<1>2. /\ DOMAIN g = DOMAIN f /\ g[k] = v /\ g = [x \in DOMAIN g |-> g[x]]
      /\ \A x \in DOMAIN f \ {k} : g[x] = f[x]
  OBVIOUS
<1>3. DOMAIN g \subseteq D /\ \A x \in DOMAIN g : g[x] \in R
  BY <1>1, <1>2
<1> QED
  BY <1>2, <1>3, PartialFacts

\* The empty one.
LEMMA EmptyFacts ==
  ASSUME NEW D, NEW R
  PROVE  NoActors \in Partial(D, R) /\ DOMAIN NoActors = {}
<1>1. DOMAIN NoActors = {} /\ NoActors = [x \in DOMAIN NoActors |-> NoActors[x]]
  BY DEF NoActors
<1> QED
  BY <1>1, PartialFacts

\* Two of them are the same if they agree.
LEMMA SamePartial ==
  ASSUME NEW D, NEW R, NEW f \in Partial(D, R), NEW g \in Partial(D, R),
         DOMAIN f = DOMAIN g, \A x \in DOMAIN f : f[x] = g[x]
  PROVE  f = g
<1>1. f = [x \in DOMAIN f |-> f[x]] /\ g = [x \in DOMAIN g |-> g[x]]
  BY PartialFacts
<1> QED
  BY <1>1

(***************************************************************************)
(* Finite sets.                                                             *)
(***************************************************************************)
\* A list of the elements of a set, each of them once.
LEMMA SetToSeqFacts ==
  ASSUME NEW S, IsFiniteSet(S), NEW s, s = SetToSeq(S)
  PROVE  /\ s \in Seq(S) /\ DOMAIN s = 1 .. Len(s) /\ Len(s) \in Nat
         /\ \A x \in S : \E k \in DOMAIN s : s[k] = x
         /\ \A j, k \in DOMAIN s : s[j] = s[k] => j = k
<1> DEFINE n == Cardinality(S)
<1>1. n \in Nat /\ ExistsBijection(1 .. n, S)
  BY FS_CardinalityType
<1>2. PICK f \in [1 .. n -> S] : IsInjective(f)
  BY <1>1 DEF ExistsBijection, Bijection, Injection
<1>3. s \in [1 .. n -> S] /\ IsInjective(s)
  BY <1>2 DEF SetToSeq
<1>4. s \in Seq(S) /\ Len(s) = n /\ DOMAIN s = 1 .. n
  BY <1>1, <1>3
<1>5. \A j, k \in DOMAIN s : s[j] = s[k] => j = k
  BY <1>3, <1>4 DEF IsInjective
<1>6. ASSUME NEW x \in S PROVE \E k \in DOMAIN s : s[k] = x
  <2> SUFFICES ASSUME \A k \in 1 .. n : s[k] # x PROVE FALSE
    BY <1>4
  <2>1. IsFiniteSet(S \ {x}) /\ Cardinality(S \ {x}) = n - 1
    BY FS_RemoveElement
  <2>2. IsFiniteSet(1 .. n) /\ Cardinality(1 .. n) = n
    BY <1>1, FS_Interval
  <2>3. s \in Injection(1 .. n, S \ {x})
    BY <1>3 DEF Injection
  <2> HIDE DEF n
  <2>4. Cardinality(1 .. n) <= Cardinality(S \ {x})
    BY <2>1, <2>3, FS_Injection
  <2> QED
    BY <1>1, <2>1, <2>2, <2>4
<1> QED
  BY <1>1, <1>4, <1>5, <1>6

\* Below its size plus one there is a number that is not in a finite set.
LEMMA FreshExists ==
  ASSUME NEW S, IsFiniteSet(S)
  PROVE  /\ Cardinality(S) \in Nat
         /\ \E i \in 1 .. Cardinality(S) + 1 : i \notin S
<1>1. Cardinality(S) \in Nat
  BY FS_CardinalityType
<1> DEFINE n == Cardinality(S)
<1> SUFFICES ASSUME \A i \in 1 .. n + 1 : i \in S PROVE FALSE
  BY <1>1
<1>2. 1 .. n + 1 \in SUBSET S
  OBVIOUS
<1>3. Cardinality(1 .. n + 1) = n + 1
  BY <1>1, FS_Interval
<1>4. Cardinality(1 .. n + 1) <= n
  BY <1>2, FS_Subset
<1> QED
  BY <1>1, <1>3, <1>4

\* The first n numbers.
LEMMA CountTo ==
  ASSUME NEW n \in Nat
  PROVE  IsFiniteSet(1 .. n) /\ Cardinality(1 .. n) = n
BY FS_Interval

\* A set whose elements can be told apart by pairs has no more elements than
\* there are pairs.
LEMMA CountPairs ==
  ASSUME NEW S, NEW A, IsFiniteSet(A), NEW f \in [S -> A \X (1 .. 2)], IsInjective(f)
  PROVE  IsFiniteSet(S) /\ Cardinality(S) <= 2 * Cardinality(A)
<1>1. IsFiniteSet(1 .. 2) /\ Cardinality(1 .. 2) = 2
  BY CountTo
<1>2. IsFiniteSet(A \X (1 .. 2)) /\ Cardinality(A \X (1 .. 2)) = Cardinality(A) * 2
  BY <1>1, FS_Product
<1>3. f \in Injection(S, A \X (1 .. 2))
  BY DEF Injection
<1>4. IsFiniteSet(S) /\ Cardinality(S) <= Cardinality(A \X (1 .. 2))
  BY <1>2, <1>3, FS_Injection
<1>5. Cardinality(A) \in Nat
  BY FS_CardinalityType
<1> QED
  BY <1>2, <1>4, <1>5

(***************************************************************************)
(* Devices.                                                                 *)
(***************************************************************************)
Thermometers == {"test_temperature", "ds18b20"}

\* Which devices stand behind the capability to measure a temperature.
LEMMA DeviceFacts ==
  ASSUME host \in Hosts
  PROVE  Device("io.temperature") \in Thermometers \cup {"none"}
<1>1. host \in AllHosts
  BY DevicesAssumption
<1> DEFINE t == "io.temperature"
<1>2. CASE host = "x86"
  BY <1>2 DEF Device, cc_calvinsys_add_capabilities, cc_calvinsys_create_capability, Thermometers
<1>3. CASE host = "esp8266"
  BY <1>3 DEF Device, cc_calvinsys_add_capabilities, cc_calvinsys_create_capability, Thermometers
<1>4. CASE host = "android"
  BY <1>4 DEF Device, cc_calvinsys_add_capabilities, cc_calvinsys_create_capability, Thermometers
<1>5. CASE host = "x86_coap"
  BY <1>5 DEF Device, cc_calvinsys_add_capabilities, cc_calvinsys_create_capability, Thermometers
<1> QED
  BY <1>1, <1>2, <1>3, <1>4, <1>5 DEF AllHosts

\* Which open is called.
LEMMA OpenedIs ==
  ASSUME NEW n, NEW d, NEW arg, NEW st \in Opened(n, d, arg)
  PROVE  \/ d = "test_temperature" /\ st \in cc_test_temperature_open
         \/ d = "test_gpio" /\ st \in cc_test_gpio_open
         \/ d = "ds18b20" /\ st \in cc_calvinsys_ds18b20_open
         \/ d = "gpio" /\ st \in cc_calvinsys_gpio_open
         \/ d = "yl69" /\ st \in cc_calvinsys_yl69_open
         \/ d = "timer" /\ st \in cc_calvinsys_timer_open(arg)
         \/ d = "attribute" /\ st \in cc_calvinsys_attribute_open
         \/ d = "accelerometer" /\ st \in cc_accelerometer_open(arg)
         \/ d = "gyroscope" /\ st \in cc_gyroscope_open(arg)
         \/ d = "coap" /\ st \in cc_calvinsys_coap_open(n)
BY DEF Opened

\* What open leaves.
LEMMA OpenedFacts ==
  ASSUME NEW n, NEW d, NEW arg, NEW st \in Opened(n, d, arg)
  PROVE  /\ st \in State /\ d # "none"
         /\ d \in Thermometers => st = Idle
         /\ d = "coap" => n.fds < MaxFds
<1>1. Idle \in State /\ Armed \in State /\ [Idle EXCEPT !.ready = TRUE] \in State
  <2>1. 0 \in 0 .. MaxReadings
    BY DevicesAssumption
  <2>2. Idle \in State
    BY <2>1 DEF Idle, State
  <2> QED
    BY <2>2 DEF State, Armed
<1>2. CASE d \in Thermometers
  <2>1. st = Idle
    BY <1>2, OpenedIs DEF Thermometers, cc_test_temperature_open, cc_calvinsys_ds18b20_open
  <2> QED
    BY <1>1, <1>2, <2>1 DEF Thermometers
<1>3. CASE d \in {"test_gpio", "gpio", "yl69", "attribute"}
  BY <1>1, <1>3, OpenedIs
     DEF Thermometers, cc_test_gpio_open, cc_calvinsys_gpio_open, cc_calvinsys_yl69_open,
         cc_calvinsys_attribute_open
<1>4. CASE d = "timer"
  BY <1>1, <1>4, OpenedIs DEF cc_calvinsys_timer_open, Thermometers
<1>5. CASE d \in {"accelerometer", "gyroscope"}
  BY <1>1, <1>5, OpenedIs DEF cc_accelerometer_open, cc_gyroscope_open, Thermometers
<1>6. CASE d = "coap"
  BY <1>1, <1>6, OpenedIs DEF cc_calvinsys_coap_open, Thermometers
<1>7. d \in Thermometers \cup {"test_gpio", "gpio", "yl69", "attribute", "timer", "accelerometer", "gyroscope", "coap"}
  BY OpenedIs DEF Thermometers
<1> QED
  BY <1>2, <1>3, <1>4, <1>5, <1>6, <1>7

\* What deserialize leaves.
LEMMA RestoredFacts ==
  ASSUME NEW n, NEW d, Restores(d), NEW old \in State, NEW st \in deserialize(n, d, old)
  PROVE  /\ st \in State /\ d # "none"
         /\ d \in Thermometers => st = Idle
         /\ d = "coap" => n.fds < MaxFds
<1>1. CASE d = "timer"
  BY <1>1 DEF deserialize, cc_calvinsys_timer_deserialize, State, Thermometers
<1>2. CASE d = "attribute"
  BY <1>2 DEF deserialize, cc_calvinsys_attribute_deserialize, Thermometers
<1>3. CASE d \notin {"timer", "attribute"}
  <2>1. st \in Opened(n, d, "set")
    BY <1>3 DEF deserialize
  <2> QED
    BY <2>1, OpenedFacts
<1> QED
  BY <1>1, <1>2, <1>3

\* Which write is called.
LEMMA WriteIs ==
  ASSUME NEW d, NEW st, NEW data, NEW w \in write(d, st, data)
  PROVE  \/ d = "test_temperature" /\ w \in cc_temperature_write(st)
         \/ d = "ds18b20" /\ w \in cc_calvinsys_ds18b20_write(st)
         \/ d \in {"test_gpio", "gpio"} /\ w \in cc_gpio_write(st, data)
         \/ d = "timer" /\ w \in cc_calvinsys_timer_write(st, data)
         \/ d = "attribute" /\ w \in cc_calvinsys_attribute_write(st)
         \/ d = "coap" /\ w \in cc_coap_write(st)
         \/ d \notin Thermometers /\ w = [ok |-> FALSE, st |-> st]
BY DEF write, Thermometers

\* What write leaves: a thermometer has a reading, whether or not it succeeded.
LEMMA WriteFacts ==
  ASSUME NEW d, NEW st \in State, NEW data, NEW w \in write(d, st, data)
  PROVE  /\ w.st \in State
         /\ d \in Thermometers => w.st = [st EXCEPT !.ready = TRUE]
<1>1. CASE d \in Thermometers
  <2>1. w \in cc_temperature_write(st) \/ w \in cc_calvinsys_ds18b20_write(st)
    BY <1>1, WriteIs DEF Thermometers
  <2>2. PICK u : u = [st EXCEPT !.ready = TRUE]
    OBVIOUS
  <2>3. \E b \in BOOLEAN : w = [ok |-> b, st |-> u]
    BY <2>1, <2>2 DEF cc_temperature_write, cc_calvinsys_ds18b20_write
  <2>4. w.st = [st EXCEPT !.ready = TRUE]
    BY <2>2, <2>3
  <2> QED
    BY <2>4 DEF State
<1>2. CASE d \notin Thermometers
  <2>1. CASE w \in cc_gpio_write(st, data)
    <3>1. w.st = st
      BY <2>1 DEF cc_gpio_write
    <3> QED
      BY <1>2, <3>1
  <2>2. CASE w \in cc_calvinsys_timer_write(st, data)
    <3>1. PICK u : u = [st EXCEPT !.armed = TRUE]
      OBVIOUS
    <3>2. w = [ok |-> TRUE, st |-> u] \/ w = [ok |-> FALSE, st |-> st]
      BY <2>2, <3>1 DEF cc_calvinsys_timer_write
    <3>3. w.st = st \/ w.st = u
      BY <3>2
    <3> QED
      BY <1>2, <3>1, <3>3 DEF State
  <2>3. CASE w \in cc_calvinsys_attribute_write(st)
    <3>1. \E b \in BOOLEAN : w.st = [st EXCEPT !.ready = b]
      BY <2>3 DEF cc_calvinsys_attribute_write
    <3> QED
      BY <1>2, <3>1 DEF State
  <2>4. CASE w \in cc_coap_write(st)
    <3>1. w.st = st \/ \E b \in BOOLEAN : w.st = [st EXCEPT !.armed = st.armed \/ b]
      BY <2>4 DEF cc_coap_write
    <3> QED
      BY <1>2, <3>1 DEF State
  <2>5. CASE w = [ok |-> FALSE, st |-> st]
    <3>1. w.st = st
      BY <2>5
    <3> QED
      BY <1>2, <3>1
  <2> QED
    BY <1>2, <2>1, <2>2, <2>3, <2>4, <2>5, WriteIs DEF Thermometers
<1> QED
  BY <1>1, <1>2

\* What read leaves.
LEMMA ReadFacts ==
  ASSUME NEW d, NEW st \in State, can_read(d, st)
  PROVE  /\ read(d, st) \in State
         /\ d \in Thermometers => st.ready /\ read(d, st) = [st EXCEPT !.ready = FALSE]
<1>1. CASE d = "test_gpio"
  <2>1. st.reads + 1 \in 0 .. MaxReadings
    BY <1>1, DevicesAssumption DEF can_read, cc_gpio_can_read, State
  <2> QED
    BY <1>1, <2>1 DEF read, cc_gpio_read, State, Thermometers
<1>2. CASE d \in {"attribute", "yl69"}
  BY <1>2 DEF read, cc_calvinsys_attribute_read, Thermometers
<1>3. CASE d \notin {"test_gpio", "attribute", "yl69"}
  BY <1>3 DEF read, cc_temperature_read, State, can_read
<1> QED
  BY <1>1, <1>2, <1>3

\* What is written down of an object.
LEMMA SerializeFacts ==
  ASSUME NEW d, NEW st \in State
  PROVE  serialize(d, st) \in State
BY DevicesAssumption DEF serialize, cc_calvinsys_timer_serialize, State, Idle

(***************************************************************************)
(* The parts of a node.                                                     *)
(***************************************************************************)
\* The fields of a node and what is in them.
LEMMA NodeFields ==
  ASSUME NEW n \in NodeType
  PROVE  /\ n.up \in BOOLEAN /\ n.fds \in 0 .. MaxFds
         /\ n.actors \in Partial(Actors, ActorType) /\ n.objects \in Partial(Ids, ObjectType)
         /\ DOMAIN n.actors \subseteq Actors /\ \A a \in DOMAIN n.actors : n.actors[a] \in ActorType
         /\ DOMAIN n.objects \subseteq Ids /\ \A i \in DOMAIN n.objects : n.objects[i] \in ObjectType
<1>1. /\ n.up \in BOOLEAN /\ n.fds \in 0 .. MaxFds
      /\ n.actors \in Partial(Actors, ActorType) /\ n.objects \in Partial(Ids, ObjectType)
  BY DEF NodeType
<1> QED
  BY <1>1, PartialFacts

\* The fields of an actor.
LEMMA ActorFields ==
  ASSUME NEW x \in ActorType
  PROVE  /\ x.type \in DOMAIN TypeOf /\ x.arg \in Arg /\ x.refs \in Refs /\ x.enabled \in BOOLEAN
         /\ x.away \in BOOLEAN /\ x.in \in Seq(Tokens) /\ x.out \in 0 .. QueueSize /\ x.owed \in Owed
         /\ x.first \in {<<>>} \cup {<<o>> : o \in Objs}
BY DEF ActorType

\* The fields of an object.
LEMMA ObjectFields ==
  ASSUME NEW o \in ObjectType
  PROVE  o.cap \in Caps /\ o.actor \in Actors /\ o.st \in State
BY DEF ObjectType

\* k has the actors and objects of n, in other states.
SameShape(n, k) ==
  /\ k \in NodeType /\ k.fds = n.fds
  /\ DOMAIN k.actors = DOMAIN n.actors /\ DOMAIN k.objects = DOMAIN n.objects
  /\ \A a \in DOMAIN n.actors :
       /\ k.actors[a].type = n.actors[a].type /\ k.actors[a].refs = n.actors[a].refs
       /\ Len(k.actors[a].in) <= QueueSize
       /\ \/ k.actors[a].first = n.actors[a].first
          \/ Covers(k.actors[a].first[1], k.actors[a].refs)
       /\ k.actors[a].type = "TriggeredTemperature"
            => (k.actors[a].owed = "yes" <=> Object(k, a, "io.temperature").st.ready)
  /\ \A i \in DOMAIN n.objects :
       /\ k.objects[i].cap = n.objects[i].cap /\ k.objects[i].actor = n.objects[i].actor
       /\ k.objects[i].cap = "io.temperature" => ~k.objects[i].st.armed

\* A node of the same shape is sound.
LEMMA ShapeSound ==
  ASSUME NEW n, NodeSound(n), NEW k, SameShape(n, k)
  PROVE  NodeSound(k)
<1>1. /\ n.fds = Cardinality(CoapObjects(n))
      /\ \A a \in DOMAIN n.actors : ActorSound(n, a)
      /\ \A i \in DOMAIN n.objects : ObjectSound(n, i)
  BY DEF NodeSound
<1>2. /\ k \in NodeType /\ k.fds = n.fds
      /\ DOMAIN k.actors = DOMAIN n.actors /\ DOMAIN k.objects = DOMAIN n.objects
  BY DEF SameShape
<1>3. CoapObjects(k) = CoapObjects(n)
  BY <1>2 DEF SameShape, CoapObjects
<1>4. ASSUME NEW a \in DOMAIN k.actors PROVE ActorSound(k, a)
  <2>1. ActorSound(n, a)
    BY <1>1, <1>2, <1>4
  <2>2. \A c \in DOMAIN k.actors[a].refs :
          Known(k, a, c) /\ Object(k, a, c).cap = c /\ Object(k, a, c).actor = a
    BY <1>2, <2>1 DEF SameShape, ActorSound, Known, Object
  <2>3. k.actors[a].first # <<>> => Covers(k.actors[a].first[1], k.actors[a].refs)
    BY <1>2, <2>1 DEF SameShape, ActorSound
  <2>4. DOMAIN k.actors[a].refs = Opens(k.actors[a].type)
    BY <1>2, <2>1 DEF SameShape, ActorSound
  <2> QED
    BY <1>2, <2>2, <2>3, <2>4 DEF SameShape, ActorSound
<1>5. ASSUME NEW i \in DOMAIN k.objects PROVE ObjectSound(k, i)
  <2>1. ObjectSound(n, i)
    BY <1>1, <1>2, <1>5
  <2>2. k.objects[i].cap = n.objects[i].cap /\ k.objects[i].actor = n.objects[i].actor
    BY <1>2 DEF SameShape
  <2> QED
    BY <1>2, <2>1, <2>2 DEF SameShape, ObjectSound
<1> QED
  BY <1>1, <1>2, <1>3, <1>4, <1>5 DEF NodeSound

\* What the calls need of an actor of a sound node and its objects.
LEMMA SoundFacts ==
  ASSUME NEW n, NodeSound(n)
  PROVE  /\ n \in NodeType /\ n.fds = Cardinality(CoapObjects(n))
         /\ \A a \in DOMAIN n.actors :
              /\ a \in Actors /\ n.actors[a] \in ActorType /\ Len(n.actors[a].in) <= QueueSize
              /\ DOMAIN n.actors[a].refs = Opens(n.actors[a].type)
              /\ \A c \in DOMAIN n.actors[a].refs :
                   /\ n.actors[a].refs[c] \in DOMAIN n.objects
                   /\ Object(n, a, c) \in ObjectType
                   /\ Object(n, a, c).cap = c /\ Object(n, a, c).actor = a
         /\ \A i \in DOMAIN n.objects :
              /\ i \in Ids /\ n.objects[i] \in ObjectType /\ n.objects[i].actor \in DOMAIN n.actors
              /\ n.objects[i].cap \in DOMAIN n.actors[n.objects[i].actor].refs
              /\ n.actors[n.objects[i].actor].refs[n.objects[i].cap] = i
<1>1. n \in NodeType
  BY DEF NodeSound
<1> QED
  BY <1>1, NodeFields DEF NodeSound, ActorSound, ObjectSound, Known, Object

(***************************************************************************)
(* Changing an actor or an object.                                          *)
(***************************************************************************)
WithActor(n, a, x) == [n EXCEPT !.actors[a] = x]
WithState(n, i, st) == [n EXCEPT !.objects[i].st = st]

\* What a new state of an actor changes.
LEMMA WithActorFacts ==
  ASSUME NEW n \in NodeType, NEW a \in DOMAIN n.actors, NEW x \in ActorType, NEW k, k = WithActor(n, a, x)
  PROVE  /\ k \in NodeType /\ k.up = n.up /\ k.fds = n.fds /\ k.objects = n.objects
         /\ DOMAIN k.actors = DOMAIN n.actors /\ k.actors[a] = x
         /\ \A b \in DOMAIN n.actors \ {a} : k.actors[b] = n.actors[b]
<1>1. PICK f : f = [n.actors EXCEPT ![a] = x]
  OBVIOUS
<1>2. k = [n EXCEPT !.actors = f]
  BY <1>1 DEF WithActor
<1>3. /\ f \in Partial(Actors, ActorType) /\ DOMAIN f = DOMAIN n.actors /\ f[a] = x
      /\ \A b \in DOMAIN n.actors \ {a} : f[b] = n.actors[b]
  BY <1>1, NodeFields, ExceptFacts
<1>4. k \in NodeType /\ k.actors = f /\ k.up = n.up /\ k.fds = n.fds /\ k.objects = n.objects
  BY <1>2, <1>3 DEF NodeType
<1> QED
  BY <1>3, <1>4

\* What a new state of an object changes.
LEMMA WithStateFacts ==
  ASSUME NEW n \in NodeType, NEW i \in DOMAIN n.objects, NEW st \in State, NEW k, k = WithState(n, i, st)
  PROVE  /\ k \in NodeType /\ k.up = n.up /\ k.fds = n.fds /\ k.actors = n.actors
         /\ DOMAIN k.objects = DOMAIN n.objects
         /\ k.objects[i].st = st /\ k.objects[i].cap = n.objects[i].cap
         /\ k.objects[i].actor = n.objects[i].actor
         /\ \A j \in DOMAIN n.objects \ {i} : k.objects[j] = n.objects[j]
<1>1. PICK o : o = [n.objects[i] EXCEPT !.st = st]
  OBVIOUS
<1>2. PICK f : f = [n.objects EXCEPT ![i] = o]
  OBVIOUS
<1>3. k = [n EXCEPT !.objects = f]
  BY <1>1, <1>2 DEF WithState
<1>4. n.objects[i] \in ObjectType
  BY NodeFields
<1>5. o \in ObjectType /\ o.st = st /\ o.cap = n.objects[i].cap /\ o.actor = n.objects[i].actor
  BY <1>1, <1>4 DEF ObjectType
<1>6. /\ f \in Partial(Ids, ObjectType) /\ DOMAIN f = DOMAIN n.objects /\ f[i] = o
      /\ \A j \in DOMAIN n.objects \ {i} : f[j] = n.objects[j]
  BY <1>2, <1>5, NodeFields, ExceptFacts
<1>7. k \in NodeType /\ k.objects = f /\ k.up = n.up /\ k.fds = n.fds /\ k.actors = n.actors
  BY <1>3, <1>6 DEF NodeType
<1> QED
  BY <1>5, <1>6, <1>7

\* x is another state of the actor y, that has the same objects.
SameObjects(x, y) ==
  /\ x.type = y.type /\ x.refs = y.refs /\ Len(x.in) <= QueueSize
  /\ x.first = y.first \/ Covers(x.first[1], x.refs)

\* A new state of an actor leaves the node sound.
LEMMA ActorUpdate ==
  ASSUME NEW n, NodeSound(n), NEW a \in DOMAIN n.actors, NEW x \in ActorType,
         SameObjects(x, n.actors[a]), x.owed = n.actors[a].owed, NEW k, k = WithActor(n, a, x)
  PROVE  NodeSound(k)
<1>1. n \in NodeType
  BY SoundFacts
<1>2. /\ k \in NodeType /\ k.up = n.up /\ k.fds = n.fds /\ k.objects = n.objects
      /\ DOMAIN k.actors = DOMAIN n.actors /\ k.actors[a] = x
      /\ \A b \in DOMAIN n.actors \ {a} : k.actors[b] = n.actors[b]
  BY <1>1, WithActorFacts
<1>3. ASSUME NEW b \in DOMAIN n.actors
      PROVE  /\ SameObjects(k.actors[b], n.actors[b]) /\ k.actors[b].owed = n.actors[b].owed
             /\ ActorSound(n, b)
  <2>1. ActorSound(n, b)
    BY DEF NodeSound
  <2> QED
    BY <1>2, <2>1 DEF SameObjects, ActorSound
<1>4. ASSUME NEW b \in DOMAIN n.actors
      PROVE  k.actors[b].type = "TriggeredTemperature"
               => (k.actors[b].owed = "yes" <=> Object(k, b, "io.temperature").st.ready)
  BY <1>2, <1>3 DEF SameObjects, ActorSound, Object
<1>5. ASSUME NEW i \in DOMAIN n.objects
      PROVE  n.objects[i].cap = "io.temperature" => ~n.objects[i].st.armed
  BY DEF NodeSound, ObjectSound
<1>6. SameShape(n, k)
  BY <1>2, <1>3, <1>4, <1>5 DEF SameShape, SameObjects
<1> QED
  BY <1>6, ShapeSound

(***************************************************************************)
(* What an actor does when it is fired.                                     *)
(***************************************************************************)
\* Between n and k only the actor a and its objects changed.
Local(n, k, a) ==
  /\ k \in NodeType /\ k.up = n.up /\ k.fds = n.fds
  /\ DOMAIN k.actors = DOMAIN n.actors /\ DOMAIN k.objects = DOMAIN n.objects
  /\ \A b \in DOMAIN n.actors \ {a} : k.actors[b] = n.actors[b]
  /\ SameObjects(k.actors[a], n.actors[a]) /\ k.actors[a].away = n.actors[a].away
  /\ \A i \in DOMAIN n.objects :
       /\ k.objects[i].cap = n.objects[i].cap /\ k.objects[i].actor = n.objects[i].actor
       /\ n.objects[i].actor # a => k.objects[i] = n.objects[i]
       /\ k.objects[i].cap = "io.temperature" => ~k.objects[i].st.armed

\* Nothing changed.
LEMMA LocalSame ==
  ASSUME NEW n, NodeSound(n), NEW a \in DOMAIN n.actors
  PROVE  Local(n, n, a)
<1>1. n \in NodeType /\ Len(n.actors[a].in) <= QueueSize
  BY SoundFacts
<1>2. \A i \in DOMAIN n.objects : n.objects[i].cap = "io.temperature" => ~n.objects[i].st.armed
  BY DEF NodeSound, ObjectSound
<1> QED
  BY <1>1, <1>2 DEF Local, SameObjects

\* The objects of the actor, before and after.
LEMMA LocalFacts ==
  ASSUME NEW n, NodeSound(n), NEW a \in DOMAIN n.actors, NEW m, Local(n, m, a)
  PROVE  /\ m \in NodeType /\ a \in DOMAIN m.actors /\ m.actors[a] \in ActorType /\ a \in Actors
         /\ m.actors[a].type = n.actors[a].type /\ m.actors[a].refs = n.actors[a].refs
         /\ DOMAIN m.actors[a].refs = Opens(m.actors[a].type)
         /\ Len(m.actors[a].in) <= QueueSize
         /\ \A c \in Opens(m.actors[a].type) :
              /\ m.actors[a].refs[c] \in DOMAIN m.objects /\ Known(m, a, c)
              /\ Object(m, a, c).st \in State /\ Object(m, a, c).cap = c /\ Object(m, a, c).actor = a
              /\ c = "io.temperature" => ~Object(m, a, c).st.armed
<1>1. m \in NodeType /\ a \in DOMAIN m.actors /\ DOMAIN m.objects = DOMAIN n.objects
  BY DEF Local
<1>2. m.actors[a].type = n.actors[a].type /\ m.actors[a].refs = n.actors[a].refs /\ Len(m.actors[a].in) <= QueueSize
  BY DEF Local, SameObjects
<1>3. m.actors[a] \in ActorType /\ a \in Actors
  BY <1>1, NodeFields
<1>4. DOMAIN m.actors[a].refs = Opens(m.actors[a].type)
  BY <1>2, SoundFacts
<1>5. ASSUME NEW c \in Opens(m.actors[a].type)
      PROVE  /\ m.actors[a].refs[c] \in DOMAIN m.objects /\ Known(m, a, c)
             /\ Object(m, a, c).st \in State /\ Object(m, a, c).cap = c /\ Object(m, a, c).actor = a
             /\ c = "io.temperature" => ~Object(m, a, c).st.armed
  <2>1. PICK i : i = n.actors[a].refs[c]
    OBVIOUS
  <2>2. i \in DOMAIN n.objects /\ n.objects[i].cap = c /\ n.objects[i].actor = a
    BY <1>2, <1>4, <2>1, SoundFacts DEF Object
  <2>3. i = m.actors[a].refs[c] /\ i \in DOMAIN m.objects
    BY <1>1, <1>2, <2>1, <2>2
  <2>4. /\ m.objects[i].cap = c /\ m.objects[i].actor = a
        /\ c = "io.temperature" => ~m.objects[i].st.armed
    BY <2>2 DEF Local
  <2>5. m.objects[i].st \in State
    BY <1>1, <2>3, NodeFields, ObjectFields
  <2> QED
    BY <2>3, <2>4, <2>5 DEF Known, Object
<1> QED
  BY <1>1, <1>2, <1>3, <1>4, <1>5

\* The actor gets another state.
LEMMA LocalActor ==
  ASSUME NEW n, NodeSound(n), NEW a \in DOMAIN n.actors, NEW m, Local(n, m, a),
         NEW x \in ActorType, SameObjects(x, m.actors[a]), x.away = m.actors[a].away,
         NEW k, k = WithActor(m, a, x)
  PROVE  Local(n, k, a) /\ k.actors[a] = x /\ k.objects = m.objects
<1>1. m \in NodeType /\ a \in DOMAIN m.actors
  BY LocalFacts
<1>2. /\ k \in NodeType /\ k.up = m.up /\ k.fds = m.fds /\ k.objects = m.objects
      /\ DOMAIN k.actors = DOMAIN m.actors /\ k.actors[a] = x
      /\ \A b \in DOMAIN m.actors \ {a} : k.actors[b] = m.actors[b]
  BY <1>1, WithActorFacts
<1> SUFFICES Local(n, k, a)
  BY <1>2
<1>3. SameObjects(k.actors[a], n.actors[a]) /\ k.actors[a].away = n.actors[a].away
  BY <1>2 DEF Local, SameObjects
<1> QED
  BY <1>2, <1>3 DEF Local

\* One of its objects gets another state.
LEMMA LocalState ==
  ASSUME NEW n, NodeSound(n), NEW a \in DOMAIN n.actors, NEW m, Local(n, m, a),
         NEW cap \in Opens(m.actors[a].type), NEW st \in State, cap = "io.temperature" => ~st.armed,
         NEW k, k = WithState(m, m.actors[a].refs[cap], st)
  PROVE  /\ Local(n, k, a) /\ k.actors = m.actors /\ Object(k, a, cap).st = st
         /\ \A j \in DOMAIN m.objects \ {m.actors[a].refs[cap]} : k.objects[j] = m.objects[j]
<1>1. PICK i : i = m.actors[a].refs[cap]
  OBVIOUS
<1>2. m \in NodeType /\ i \in DOMAIN m.objects /\ m.objects[i].cap = cap /\ m.objects[i].actor = a
  BY <1>1, LocalFacts DEF Object
<1>3. k = WithState(m, i, st)
  BY <1>1
<1>4. /\ k \in NodeType /\ k.up = m.up /\ k.fds = m.fds /\ k.actors = m.actors
      /\ DOMAIN k.objects = DOMAIN m.objects
      /\ k.objects[i].st = st /\ k.objects[i].cap = m.objects[i].cap
      /\ k.objects[i].actor = m.objects[i].actor
      /\ \A j \in DOMAIN m.objects \ {i} : k.objects[j] = m.objects[j]
  BY <1>2, <1>3, WithStateFacts
<1>5. Object(k, a, cap).st = st
  BY <1>1, <1>4 DEF Object
<1>6. /\ DOMAIN m.objects = DOMAIN n.objects
      /\ \A j \in DOMAIN n.objects :
           /\ m.objects[j].cap = n.objects[j].cap /\ m.objects[j].actor = n.objects[j].actor
           /\ n.objects[j].actor # a => m.objects[j] = n.objects[j]
           /\ m.objects[j].cap = "io.temperature" => ~m.objects[j].st.armed
  BY DEF Local
<1>7. ASSUME NEW j \in DOMAIN n.objects
      PROVE  /\ k.objects[j].cap = n.objects[j].cap /\ k.objects[j].actor = n.objects[j].actor
             /\ n.objects[j].actor # a => k.objects[j] = n.objects[j]
             /\ k.objects[j].cap = "io.temperature" => ~k.objects[j].st.armed
  <2>1. CASE j = i
    BY <1>2, <1>4, <1>6, <2>1
  <2>2. CASE j # i
    BY <1>4, <1>6, <2>2
  <2> QED
    BY <2>1, <2>2
<1>8. Local(n, k, a)
  BY <1>4, <1>6, <1>7 DEF Local
<1> QED
  BY <1>1, <1>4, <1>5, <1>8

\* The reading that is owed, in what an actor leaves.
Owes(n, a) ==
  n.actors[a].type = "TriggeredTemperature" =>
    (n.actors[a].owed = "yes" <=> Object(n, a, "io.temperature").st.ready)

\* A local change leaves the node sound, if what is owed is there.
LEMMA LocalSound ==
  ASSUME NEW n, NodeSound(n), NEW a \in DOMAIN n.actors, NEW k, Local(n, k, a), Owes(k, a)
  PROVE  NodeSound(k)
<1>1. ASSUME NEW b \in DOMAIN n.actors
      PROVE  SameObjects(k.actors[b], n.actors[b])
  <2>1. Len(n.actors[b].in) <= QueueSize
    BY SoundFacts
  <2> QED
    BY <2>1 DEF Local, SameObjects
<1>2. ASSUME NEW b \in DOMAIN n.actors
      PROVE  Owes(k, b)
  <2>1. CASE b = a
    BY <2>1
  <2>2. CASE b # a /\ n.actors[b].type = "TriggeredTemperature"
    <3>1. PICK j : j = n.actors[b].refs["io.temperature"]
      OBVIOUS
    <3>2. "io.temperature" \in Opens("TriggeredTemperature")
      BY DEF Opens, TypeOf, cc_actor_triggered_temperature_init, Range
    <3>3. j \in DOMAIN n.objects /\ n.objects[j].actor = b
      BY <2>2, <3>1, <3>2, SoundFacts DEF Object
    <3>4. n.actors[b].owed = "yes" <=> n.objects[j].st.ready
      <4>1. ActorSound(n, b)
        BY DEF NodeSound
      <4> QED
        BY <2>2, <3>1, <4>1 DEF ActorSound, Object
    <3>5. k.actors[b] = n.actors[b] /\ k.objects[j] = n.objects[j]
      BY <2>2, <3>3 DEF Local
    <3> QED
      BY <3>1, <3>4, <3>5 DEF Owes, Object
  <2>3. CASE b # a /\ n.actors[b].type # "TriggeredTemperature"
    BY <1>1, <2>3 DEF Owes, SameObjects
  <2> QED
    BY <2>1, <2>2, <2>3
<1>3. SameShape(n, k)
  BY <1>1, <1>2 DEF SameShape, SameObjects, Local, Owes
<1> QED
  BY <1>3, ShapeSound

\* A token is sent.
LEMMA EmitLocal ==
  ASSUME NEW n, NodeSound(n), NEW a \in DOMAIN n.actors, NEW m, Local(n, m, a), Slot(m, a),
         NEW k, k = Emit(m, a)
  PROVE  /\ Local(n, k, a) /\ k.objects = m.objects
         /\ k.actors[a].owed = m.actors[a].owed /\ k.actors[a].out = m.actors[a].out + 1
<1>1. m.actors[a] \in ActorType /\ Len(m.actors[a].in) <= QueueSize
  BY LocalFacts
<1>2. PICK y : y = m.actors[a]
  OBVIOUS
<1>3. PICK x : x = [y EXCEPT !.out = y.out + 1]
  OBVIOUS
<1>4. k = WithActor(m, a, x)
  BY <1>2, <1>3 DEF Emit, WithActor
<1>5. y.out + 1 \in 0 .. QueueSize
  BY <1>1, <1>2, ActorFields, DevicesAssumption DEF Slot
<1>6. x \in ActorType /\ SameObjects(x, y) /\ x.away = y.away /\ x.owed = y.owed /\ x.out = y.out + 1
  BY <1>1, <1>2, <1>3, <1>5 DEF ActorType, SameObjects
<1> QED
  BY <1>2, <1>4, <1>6, LocalActor

\* A token is taken.
LEMMA ConsumeLocal ==
  ASSUME NEW n, NodeSound(n), NEW a \in DOMAIN n.actors, NEW m, Local(n, m, a), HasToken(m, a),
         NEW k, k = Consume(m, a)
  PROVE  /\ Local(n, k, a) /\ k.objects = m.objects
         /\ k.actors[a].owed = m.actors[a].owed /\ k.actors[a].out = m.actors[a].out
<1>1. m.actors[a] \in ActorType /\ Len(m.actors[a].in) <= QueueSize
  BY LocalFacts
<1>2. PICK y : y = m.actors[a]
  OBVIOUS
<1>3. PICK x : x = [y EXCEPT !.in = Tail(y.in)]
  OBVIOUS
<1>4. k = WithActor(m, a, x)
  BY <1>2, <1>3 DEF Consume, WithActor
<1>5. Tail(y.in) \in Seq(Tokens) /\ Len(Tail(y.in)) <= QueueSize
  BY <1>1, <1>2, ActorFields, DevicesAssumption DEF HasToken
<1>6. x \in ActorType /\ SameObjects(x, y) /\ x.away = y.away /\ x.owed = y.owed /\ x.out = y.out
  BY <1>1, <1>2, <1>3, <1>5 DEF ActorType, SameObjects
<1> QED
  BY <1>2, <1>4, <1>6, LocalActor

\* A device is read: the reading of a thermometer is gone then.
LEMMA ReadLocal ==
  ASSUME NEW n, NodeSound(n), NEW a \in DOMAIN n.actors, NEW m, Local(n, m, a), host \in Hosts,
         NEW cap \in Opens(m.actors[a].type), cc_calvinsys_can_read(m, a, cap),
         NEW k, k = cc_calvinsys_read(m, a, cap)
  PROVE  /\ Local(n, k, a) /\ k.actors = m.actors
         /\ Device(cap) \in Thermometers => ~Object(k, a, cap).st.ready
<1>1. PICK s : s = Object(m, a, cap).st
  OBVIOUS
<1>2. s \in State /\ (cap = "io.temperature" => ~s.armed)
  BY <1>1, LocalFacts
<1>3. PICK d : d = Device(cap)
  OBVIOUS
<1>4. can_read(d, s)
  BY <1>1, <1>3 DEF cc_calvinsys_can_read
<1>5. PICK st : st = read(d, s)
  OBVIOUS
<1>6. st \in State /\ (d \in Thermometers => s.ready /\ st = [s EXCEPT !.ready = FALSE])
  BY <1>2, <1>4, <1>5, ReadFacts
<1>7. st.armed = s.armed \/ d \notin Thermometers \cup {"none"}
  <2>1. CASE d \in Thermometers
    BY <1>2, <1>6, <2>1 DEF State
  <2>2. CASE d = "none"
    BY <1>5, <1>2, <2>2 DEF read, cc_temperature_read, State
  <2> QED
    BY <2>1, <2>2
<1>8. cap = "io.temperature" => ~st.armed
  BY <1>2, <1>3, <1>7, DeviceFacts
<1>9. k = WithState(m, m.actors[a].refs[cap], st)
  BY <1>1, <1>3, <1>5 DEF cc_calvinsys_read, WithState, Object
<1>10. Local(n, k, a) /\ k.actors = m.actors /\ Object(k, a, cap).st = st
  BY <1>6, <1>8, <1>9, LocalState
<1>11. d \in Thermometers => ~st.ready
  BY <1>2, <1>6 DEF State
<1> QED
  BY <1>3, <1>10, <1>11

\* A device is written: a thermometer has a reading then.
LEMMA WriteLocal ==
  ASSUME NEW n, NodeSound(n), NEW a \in DOMAIN n.actors, NEW m, Local(n, m, a), host \in Hosts,
         NEW cap \in Opens(m.actors[a].type), NEW data, NEW w \in cc_calvinsys_write(m, a, cap, data)
  PROVE  /\ Local(n, w.n, a) /\ w.n.actors = m.actors
         /\ Device(cap) \in Thermometers => Object(w.n, a, cap).st.ready
         /\ \A j \in DOMAIN m.objects \ {m.actors[a].refs[cap]} : w.n.objects[j] = m.objects[j]
<1>1. PICK s : s = Object(m, a, cap).st
  OBVIOUS
<1>2. s \in State /\ (cap = "io.temperature" => ~s.armed) /\ Known(m, a, cap)
  BY <1>1, LocalFacts
<1>3. PICK d : d = Device(cap)
  OBVIOUS
<1>4. PICK v \in write(d, s, data) : w = [ok |-> v.ok, n |-> WithState(m, m.actors[a].refs[cap], v.st)]
  BY <1>1, <1>2, <1>3 DEF cc_calvinsys_write, WithState
<1>5. PICK st : st = v.st
  OBVIOUS
<1>6. st \in State /\ (d \in Thermometers => st = [s EXCEPT !.ready = TRUE])
  BY <1>2, <1>5, WriteFacts
<1>7. st.armed = s.armed \/ d \notin Thermometers \cup {"none"}
  <2>1. CASE d \in Thermometers
    BY <1>2, <1>6, <2>1 DEF State
  <2>2. CASE d = "none"
    <3>1. v = [ok |-> FALSE, st |-> s]
      BY <2>2, WriteIs
    <3> QED
      BY <1>5, <3>1
  <2> QED
    BY <2>1, <2>2
<1>8. cap = "io.temperature" => ~st.armed
  BY <1>2, <1>3, <1>7, DeviceFacts
<1>9. PICK k : k = w.n
  OBVIOUS
<1>10. k = WithState(m, m.actors[a].refs[cap], st)
  BY <1>4, <1>5, <1>9
<1>11. /\ Local(n, k, a) /\ k.actors = m.actors /\ Object(k, a, cap).st = st
       /\ \A j \in DOMAIN m.objects \ {m.actors[a].refs[cap]} : k.objects[j] = m.objects[j]
  BY <1>6, <1>8, <1>10, LocalState
<1>12. d \in Thermometers => st.ready
  BY <1>2, <1>6 DEF State
<1> QED
  BY <1>3, <1>9, <1>11, <1>12

\* The objects of the types.
LEMMA OpensFacts ==
  /\ Opens("Button") = {"io.button"} /\ Opens("Light") = {"io.light"}
  /\ Opens("Accelerometer") = {"io.accelerometer"} /\ Opens("Gyroscope") = {"io.gyroscope"}
  /\ Opens("Coap") = {"io.resource"} /\ Opens("RegistryAttribute") = {"sys.attribute.indexed"}
  /\ Opens("TriggeredTemperature") = {"io.temperature"}
  /\ Opens("SoilMoisture") = {"io.soilmoisture", "sys.timer.once"}
  /\ Opens("Temperature") = {"io.temperature", "sys.timer.once"}
  /\ Opens("TemperatureTagged") = {"io.temperature", "sys.timer.once"}
  /\ Opens("Identity") = {} /\ Opens("ReplicaIdentity") = {} /\ Opens("Log") = {}
<1>1. Opens("Button") = {"io.button"} /\ Opens("Light") = {"io.light"}
  BY DEF Opens, Range, TypeOf, cc_actor_button_init, cc_actor_light_init
<1>2. Opens("Accelerometer") = {"io.accelerometer"} /\ Opens("Gyroscope") = {"io.gyroscope"}
  BY DEF Opens, Range, TypeOf, cc_actor_accelerometer_init, cc_actor_gyroscope_init
<1>3. Opens("Coap") = {"io.resource"} /\ Opens("RegistryAttribute") = {"sys.attribute.indexed"}
  BY DEF Opens, Range, TypeOf, cc_actor_coap_init, cc_actor_registry_attribute_init
<1>4. Opens("TriggeredTemperature") = {"io.temperature"}
  BY DEF Opens, Range, TypeOf, cc_actor_triggered_temperature_init
<1>5. Opens("SoilMoisture") = {"io.soilmoisture", "sys.timer.once"}
  BY DEF Opens, Range, TypeOf, cc_actor_soil_moisture_init
<1>6. Opens("Temperature") = {"io.temperature", "sys.timer.once"}
  BY DEF Opens, Range, TypeOf, cc_actor_temperature_init
<1>7. Opens("TemperatureTagged") = {"io.temperature", "sys.timer.once"}
  BY DEF Opens, Range, TypeOf, cc_actor_temperature_tagged_init
<1>8. Opens("Identity") = {} /\ Opens("ReplicaIdentity") = {} /\ Opens("Log") = {}
  BY DEF Opens, Range, TypeOf, cc_actor_identity_init, cc_actor_replica_identity_init, cc_actor_log_init
<1> QED
  BY <1>1, <1>2, <1>3, <1>4, <1>5, <1>6, <1>7, <1>8

\* A device is read and the reading sent.
LEMMA ForwardLocal ==
  ASSUME NEW n, NodeSound(n), NEW a \in DOMAIN n.actors, host \in Hosts,
         NEW cap \in Opens(n.actors[a].type), NEW k \in Forward(n, a, cap)
  PROVE  /\ Local(n, k, a)
         /\ k # n => /\ cc_calvinsys_can_read(n, a, cap)
                     /\ Device(cap) \in Thermometers => ~Object(k, a, cap).st.ready
<1>1. Local(n, n, a)
  BY LocalSame
<1>2. CASE k = n
  BY <1>1, <1>2
<1>3. CASE k # n
  <2>1. cc_calvinsys_can_read(n, a, cap) /\ Slot(n, a) /\ k = Emit(cc_calvinsys_read(n, a, cap), a)
    BY <1>3 DEF Forward
  <2>2. PICK m : m = cc_calvinsys_read(n, a, cap)
    OBVIOUS
  <2>3. /\ Local(n, m, a) /\ m.actors = n.actors
        /\ Device(cap) \in Thermometers => ~Object(m, a, cap).st.ready
    BY <1>1, <2>1, <2>2, ReadLocal
  <2>4. Slot(m, a)
    BY <2>1, <2>3 DEF Slot
  <2>5. Local(n, k, a) /\ k.objects = m.objects
    BY <2>1, <2>2, <2>3, <2>4, EmitLocal
  <2>6. Object(k, a, cap) = Object(m, a, cap)
    <3>1. k.actors[a].refs = n.actors[a].refs
      BY <2>5 DEF Local, SameObjects
    <3> QED
      BY <2>3, <2>5, <3>1 DEF Object
  <2> QED
    BY <2>1, <2>3, <2>5, <2>6
<1> QED
  BY <1>2, <1>3

\* A token is taken and one is sent.
LEMMA PassOnLocal ==
  ASSUME NEW n, NodeSound(n), NEW a \in DOMAIN n.actors, HasToken(n, a), Slot(n, a),
         NEW k, k = Emit(Consume(n, a), a)
  PROVE  Local(n, k, a)
<1>1. PICK m : m = Consume(n, a)
  OBVIOUS
<1>2. Local(n, n, a)
  BY LocalSame
<1>3. Local(n, m, a) /\ m.actors[a].out = n.actors[a].out
  BY <1>1, <1>2, ConsumeLocal
<1>4. Slot(m, a)
  BY <1>3 DEF Slot
<1> QED
  BY <1>1, <1>3, <1>4, EmitLocal

\* Light writes the token to the pin, and takes it if the pin did.
LEMMA LightLocal ==
  ASSUME NEW n, NodeSound(n), NEW a \in DOMAIN n.actors, host \in Hosts,
         n.actors[a].type = "Light", NEW k \in cc_actor_light_fire(n, a)
  PROVE  Local(n, k, a)
<1>1. Local(n, n, a)
  BY LocalSame
<1>2. CASE ~HasToken(n, a)
  BY <1>1, <1>2 DEF cc_actor_light_fire
<1>3. CASE HasToken(n, a)
  <2>1. PICK data : data = Head(n.actors[a].in)
    OBVIOUS
  <2>2. PICK w \in cc_calvinsys_write(n, a, "io.light", data) : k = Consume(w.n, a) \/ k = w.n
    BY <1>3, <2>1 DEF cc_actor_light_fire
  <2>3. "io.light" \in Opens(n.actors[a].type)
    BY OpensFacts
  <2>4. PICK m : m = w.n
    OBVIOUS
  <2>5. Local(n, m, a) /\ m.actors = n.actors
    BY <1>1, <2>2, <2>3, <2>4, WriteLocal
  <2>6. HasToken(m, a)
    BY <1>3, <2>5 DEF HasToken
  <2> QED
    BY <2>2, <2>4, <2>5, <2>6, ConsumeLocal
<1> QED
  BY <1>2, <1>3

\* The CoAP actor reads a datagram, and sends it on if it is good.
LEMMA CoapLocal ==
  ASSUME NEW n, NodeSound(n), NEW a \in DOMAIN n.actors, host \in Hosts,
         n.actors[a].type = "Coap", NEW k \in cc_actor_coap_fire(n, a)
  PROVE  Local(n, k, a)
<1>1. Local(n, n, a)
  BY LocalSame
<1>2. CASE k = n
  BY <1>1, <1>2
<1>3. CASE k # n
  <2>1. PICK m : m = cc_calvinsys_read(n, a, "io.resource")
    OBVIOUS
  <2>2. cc_calvinsys_can_read(n, a, "io.resource") /\ Slot(n, a) /\ (k = Emit(m, a) \/ k = m)
    BY <1>3, <2>1 DEF cc_actor_coap_fire
  <2>3. "io.resource" \in Opens(n.actors[a].type)
    BY OpensFacts
  <2>4. Local(n, m, a) /\ m.actors = n.actors
    BY <1>1, <2>1, <2>2, <2>3, ReadLocal
  <2>5. Slot(m, a)
    BY <2>2, <2>4 DEF Slot
  <2> QED
    BY <2>2, <2>4, <2>5, EmitLocal
<1> QED
  BY <1>2, <1>3

\* Another object of the actor was written: this one can still be read.
LEMMA OtherReadable ==
  ASSUME NEW n, NodeSound(n), NEW a \in DOMAIN n.actors, NEW cap \in Opens(n.actors[a].type),
         NEW c \in Opens(n.actors[a].type), c # cap, NEW m, m.actors = n.actors, Local(n, m, a),
         \A j \in DOMAIN n.objects \ {n.actors[a].refs[c]} : m.objects[j] = n.objects[j],
         cc_calvinsys_can_read(n, a, cap)
  PROVE  cc_calvinsys_can_read(m, a, cap)
<1>1. PICK i : i = n.actors[a].refs[cap]
  OBVIOUS
<1>2. PICK j : j = n.actors[a].refs[c]
  OBVIOUS
<1>3. i \in DOMAIN n.objects /\ j \in DOMAIN n.objects /\ n.objects[i].cap = cap /\ n.objects[j].cap = c
  BY <1>1, <1>2, SoundFacts DEF Object
<1>4. i # j
  BY <1>3
<1>5. m.objects[i] = n.objects[i] /\ i \in DOMAIN m.objects
  BY <1>2, <1>3, <1>4 DEF Local
<1> QED
  BY <1>1, <1>5 DEF cc_calvinsys_can_read, Known, Object

\* The timer is written, then the device is read and the reading sent.
LEMMA TimedLocal ==
  ASSUME NEW n, NodeSound(n), NEW a \in DOMAIN n.actors, host \in Hosts,
         NEW cap \in Opens(n.actors[a].type), "sys.timer.once" \in Opens(n.actors[a].type),
         cap # "sys.timer.once", NEW k \in TimedReading(n, a, cap)
  PROVE  Local(n, k, a)
<1>1. Local(n, n, a)
  BY LocalSame
<1>2. CASE k = n
  BY <1>1, <1>2
<1>3. CASE k # n
  <2>1. /\ cc_calvinsys_can_read(n, a, "sys.timer.once") /\ cc_calvinsys_can_read(n, a, cap) /\ Slot(n, a)
        /\ \E w \in cc_calvinsys_write(n, a, "sys.timer.once", "other") :
             k = IF w.ok THEN Emit(cc_calvinsys_read(w.n, a, cap), a) ELSE w.n
    BY <1>3 DEF TimedReading
  <2>2. PICK c : c = "sys.timer.once"
    OBVIOUS
  <2>3. PICK w \in cc_calvinsys_write(n, a, c, "other") : k = Emit(cc_calvinsys_read(w.n, a, cap), a) \/ k = w.n
    BY <2>1, <2>2
  <2>4. PICK m : m = w.n
    OBVIOUS
  <2>5. /\ Local(n, m, a) /\ m.actors = n.actors
        /\ \A j \in DOMAIN n.objects \ {n.actors[a].refs[c]} : m.objects[j] = n.objects[j]
    <3>1. w \in cc_calvinsys_write(n, a, c, "other") /\ c \in Opens(n.actors[a].type)
      BY <2>2
    <3> QED
      BY <1>1, <2>4, <3>1, WriteLocal
  <2>6. cc_calvinsys_can_read(m, a, cap)
    BY <2>1, <2>2, <2>5, OtherReadable
  <2>7. PICK r : r = cc_calvinsys_read(m, a, cap)
    OBVIOUS
  <2>8. Local(n, r, a) /\ r.actors = m.actors
    BY <2>5, <2>6, <2>7, ReadLocal
  <2>9. Slot(r, a)
    BY <2>1, <2>5, <2>8 DEF Slot
  <2> QED
    BY <2>3, <2>4, <2>5, <2>7, <2>8, <2>9, EmitLocal
<1> QED
  BY <1>2, <1>3

\* Temperature starts a measurement.
LEMMA StartLocal ==
  ASSUME NEW n, NodeSound(n), NEW a \in DOMAIN n.actors, host \in Hosts, NEW m, Local(n, m, a),
         m.actors[a].type = "Temperature", NEW k \in cc_actor_temperature_start_measurement(m, a)
  PROVE  Local(n, k, a)
<1>1. PICK c : c = "sys.timer.once"
  OBVIOUS
<1>2. PICK t : t = "io.temperature"
  OBVIOUS
<1>3. c \in Opens(m.actors[a].type) /\ t \in Opens(m.actors[a].type)
  BY <1>1, <1>2, OpensFacts
<1>4. CASE k = m
  BY <1>4
<1>5. CASE k # m
  <2>1. PICK r : r = cc_calvinsys_read(m, a, c)
    OBVIOUS
  <2>2. cc_calvinsys_can_read(m, a, c) /\ \E w \in cc_calvinsys_write(r, a, t, "other") : k = w.n
    BY <1>1, <1>2, <1>5, <2>1 DEF cc_actor_temperature_start_measurement
  <2>3. Local(n, r, a) /\ r.actors = m.actors
    BY <1>3, <2>1, <2>2, ReadLocal
  <2>4. t \in Opens(r.actors[a].type)
    BY <1>3, <2>3
  <2> QED
    BY <2>2, <2>3, <2>4, WriteLocal
<1> QED
  BY <1>4, <1>5

\* Temperature sends a reading and sets the timer; without a period the process ends.
LEMMA MeasuredLocal ==
  ASSUME NEW n, NodeSound(n), NEW a \in DOMAIN n.actors, host \in Hosts,
         n.actors[a].type = "Temperature", NEW k \in cc_actor_temperature_read_measurement(n, a)
  PROVE  Local(n, k, a) \/ k = Dead(n)
<1>1. PICK c : c = "sys.timer.once"
  OBVIOUS
<1>2. PICK t : t = "io.temperature"
  OBVIOUS
<1>3. c \in Opens(n.actors[a].type) /\ t \in Opens(n.actors[a].type)
  BY <1>1, <1>2, OpensFacts
<1>4. Local(n, n, a)
  BY LocalSame
<1>5. CASE k = n \/ k = Dead(n)
  BY <1>4, <1>5
<1>6. CASE k # n /\ k # Dead(n)
  <2>1. PICK r : r = cc_calvinsys_read(n, a, t)
    OBVIOUS
  <2>2. PICK e : e = Emit(r, a)
    OBVIOUS
  <2>3. cc_calvinsys_can_read(n, a, t) /\ Slot(n, a) /\ \E w \in cc_calvinsys_write(e, a, c, "uint") : k = w.n
    BY <1>1, <1>2, <1>6, <2>1, <2>2 DEF cc_actor_temperature_read_measurement
  <2>4. Local(n, r, a) /\ r.actors = n.actors
    BY <1>3, <1>4, <2>1, <2>3, ReadLocal
  <2>5. Slot(r, a)
    BY <2>3, <2>4 DEF Slot
  <2>6. Local(n, e, a)
    BY <2>2, <2>4, <2>5, EmitLocal
  <2>7. c \in Opens(e.actors[a].type)
    BY <1>3, <2>6 DEF Local, SameObjects
  <2> QED
    BY <2>3, <2>6, <2>7, WriteLocal
<1> QED
  BY <1>5, <1>6

\* Temperature fires.
LEMMA TemperatureLocal ==
  ASSUME NEW n, NodeSound(n), NEW a \in DOMAIN n.actors, host \in Hosts,
         n.actors[a].type = "Temperature", NEW k \in cc_actor_temperature_fire(n, a)
  PROVE  Local(n, k, a) \/ k = Dead(n)
<1>1. PICK m \in cc_actor_temperature_read_measurement(n, a) :
        k \in IF m.up THEN cc_actor_temperature_start_measurement(m, a) ELSE {m}
  BY DEF cc_actor_temperature_fire
<1>2. Local(n, m, a) \/ m = Dead(n)
  BY MeasuredLocal
<1>3. n \in NodeType
  BY SoundFacts
<1>4. Dead(n).up = FALSE
  BY <1>3 DEF Dead, NodeType
<1>5. CASE m = Dead(n)
  BY <1>1, <1>4, <1>5
<1>6. CASE Local(n, m, a) /\ k = m
  BY <1>6
<1>7. CASE Local(n, m, a) /\ k # m
  <2>1. k \in cc_actor_temperature_start_measurement(m, a)
    BY <1>1, <1>7
  <2>2. m.actors[a].type = "Temperature"
    BY <1>7 DEF Local, SameObjects
  <2> QED
    BY <1>7, <2>1, <2>2, StartLocal
<1> QED
  BY <1>2, <1>5, <1>6, <1>7

\* An object there is has a device.
LEMMA ThermometerFacts ==
  ASSUME NEW n, NodeSound(n), host \in Hosts, NEW a \in DOMAIN n.actors,
         "io.temperature" \in Opens(n.actors[a].type)
  PROVE  Device("io.temperature") \in Thermometers
<1>1. PICK i : i = n.actors[a].refs["io.temperature"]
  OBVIOUS
<1>2. i \in DOMAIN n.objects /\ n.objects[i].cap = "io.temperature"
  BY <1>1, SoundFacts DEF Object
<1>3. Device("io.temperature") # "none"
  BY <1>2 DEF NodeSound, ObjectSound
<1> QED
  BY <1>3, DeviceFacts

WithOwed(n, a, b) == [n EXCEPT !.actors[a].owed = b]

\* What the actor owes is set.
LEMMA OwedLocal ==
  ASSUME NEW n, NodeSound(n), NEW a \in DOMAIN n.actors, NEW m, Local(n, m, a), NEW b \in Owed,
         NEW k, k = WithOwed(m, a, b),
         b = "yes" <=> Object(m, a, "io.temperature").st.ready
  PROVE  Local(n, k, a) /\ NodeSound(k)
<1>1. PICK y : y = m.actors[a]
  OBVIOUS
<1>2. PICK x : x = [y EXCEPT !.owed = b]
  OBVIOUS
<1>3. k = WithActor(m, a, x)
  BY <1>1, <1>2 DEF WithActor, WithOwed
<1>4. y \in ActorType /\ Len(y.in) <= QueueSize
  BY <1>1, LocalFacts
<1>5. x \in ActorType /\ SameObjects(x, y) /\ x.away = y.away /\ x.owed = b /\ x.refs = y.refs
  BY <1>2, <1>4 DEF ActorType, SameObjects
<1>6. Local(n, k, a) /\ k.actors[a] = x /\ k.objects = m.objects
  <2>1. x \in ActorType /\ SameObjects(x, m.actors[a]) /\ x.away = m.actors[a].away
    BY <1>1, <1>5
  <2> QED
    BY <1>3, <2>1, LocalActor
<1>7. Owes(k, a)
  BY <1>1, <1>5, <1>6 DEF Owes, Object
<1> QED
  BY <1>6, <1>7, LocalSound

\* TriggeredTemperature sends the reading it has, and owes none then.
LEMMA AnsweredSound ==
  ASSUME NEW n, NodeSound(n), NEW a \in DOMAIN n.actors, host \in Hosts,
         n.actors[a].type = "TriggeredTemperature",
         NEW k \in cc_actor_triggered_temperature_read_measurement(n, a)
  PROVE  Local(n, k, a) /\ NodeSound(k)
<1>1. PICK t : t = "io.temperature"
  OBVIOUS
<1>2. t \in Opens(n.actors[a].type) /\ Device(t) \in Thermometers
  BY <1>1, OpensFacts, ThermometerFacts
<1>3. PICK m \in Forward(n, a, t) : k = [m EXCEPT !.actors[a].owed = IF m = n THEN @ ELSE "no"]
  BY <1>1 DEF cc_actor_triggered_temperature_read_measurement
<1>4. Local(n, m, a) /\ (m # n => ~Object(m, a, t).st.ready)
  BY <1>2, ForwardLocal
<1>5. CASE m = n
  <2>1. PICK b : b = n.actors[a].owed
    OBVIOUS
  <2>2. b \in Owed /\ k = WithOwed(n, a, b)
    BY <1>3, <1>5, <2>1, SoundFacts, ActorFields DEF WithOwed
  <2>3. b = "yes" <=> Object(n, a, t).st.ready
    BY <1>1, <2>1 DEF NodeSound, ActorSound
  <2> QED
    BY <1>1, <1>4, <1>5, <2>2, <2>3, OwedLocal
<1>6. CASE m # n
  <2>1. PICK b : b = "no"
    OBVIOUS
  <2>2. b \in Owed /\ k = WithOwed(m, a, b)
    BY <1>3, <1>6, <2>1 DEF WithOwed, Owed
  <2>3. b = "yes" <=> Object(m, a, t).st.ready
    BY <1>4, <1>6, <2>1
  <2> QED
    BY <1>1, <1>4, <2>2, <2>3, OwedLocal
<1> QED
  BY <1>5, <1>6

\* TriggeredTemperature takes a trigger and measures: it owes the reading then.
LEMMA TriggeredSound ==
  ASSUME NEW n, NodeSound(n), NEW a \in DOMAIN n.actors, host \in Hosts,
         n.actors[a].type = "TriggeredTemperature",
         NEW k \in cc_actor_triggered_temperature_trigger_measurement(n, a)
  PROVE  Local(n, k, a) /\ NodeSound(k)
<1>1. PICK t : t = "io.temperature"
  OBVIOUS
<1>2. t \in Opens(n.actors[a].type) /\ Device(t) \in Thermometers
  BY <1>1, OpensFacts, ThermometerFacts
<1>3. Local(n, n, a)
  BY LocalSame
<1>4. CASE k = n
  BY <1>3, <1>4
<1>5. CASE k # n
  <2>1. PICK r : r = Consume(n, a)
    OBVIOUS
  <2>2. HasToken(n, a) /\ \E w \in cc_calvinsys_write(r, a, t, "other") : k = [w.n EXCEPT !.actors[a].owed = "yes"]
    BY <1>1, <1>5, <2>1 DEF cc_actor_triggered_temperature_trigger_measurement
  <2>3. PICK w \in cc_calvinsys_write(r, a, t, "other") : k = [w.n EXCEPT !.actors[a].owed = "yes"]
    BY <2>2
  <2>4. Local(n, r, a)
    BY <1>3, <2>1, <2>2, ConsumeLocal
  <2>5. t \in Opens(r.actors[a].type)
    BY <1>2, <2>4 DEF Local, SameObjects
  <2>6. Local(n, w.n, a) /\ Object(w.n, a, t).st.ready
    BY <1>2, <2>3, <2>4, <2>5, WriteLocal
  <2>7. PICK m : m = w.n
    OBVIOUS
  <2>8. PICK b : b = "yes"
    OBVIOUS
  <2>9. Local(n, m, a) /\ (b = "yes" <=> Object(m, a, t).st.ready)
    BY <2>6, <2>7, <2>8
  <2>10. b \in Owed /\ k = WithOwed(m, a, b)
    BY <2>3, <2>7, <2>8 DEF WithOwed, Owed
  <2> QED
    BY <1>1, <2>9, <2>10, OwedLocal
<1> QED
  BY <1>4, <1>5

\* Between n and k no actor and no object came or went.
Kept(n, k) ==
  /\ k.up = n.up /\ DOMAIN k.actors = DOMAIN n.actors /\ DOMAIN k.objects = DOMAIN n.objects
  /\ \A a \in DOMAIN n.actors : k.actors[a].away = n.actors[a].away
  /\ \A i \in DOMAIN n.objects : k.objects[i].actor = n.objects[i].actor

\* A local change keeps them.
LEMMA LocalKept ==
  ASSUME NEW n, NEW a \in DOMAIN n.actors, NEW k, Local(n, k, a)
  PROVE  Kept(n, k)
BY DEF Local, Kept

\* TriggeredTemperature fires.
LEMMA TriggerSound ==
  ASSUME NEW n, NodeSound(n), NEW a \in DOMAIN n.actors, host \in Hosts,
         n.actors[a].type = "TriggeredTemperature", NEW k \in cc_actor_triggered_temperature_fire(n, a)
  PROVE  Kept(n, k) /\ NodeSound(k)
<1>1. PICK m \in cc_actor_triggered_temperature_read_measurement(n, a) :
        k \in cc_actor_triggered_temperature_trigger_measurement(m, a)
  BY DEF cc_actor_triggered_temperature_fire
<1>2. Local(n, m, a) /\ NodeSound(m)
  BY AnsweredSound
<1>3. a \in DOMAIN m.actors /\ m.actors[a].type = "TriggeredTemperature"
  BY <1>2 DEF Local, SameObjects
<1>4. Local(m, k, a) /\ NodeSound(k)
  BY <1>1, <1>2, <1>3, TriggeredSound
<1>5. Kept(n, m) /\ Kept(m, k)
  BY <1>2, <1>3, <1>4, LocalKept
<1> QED
  BY <1>4, <1>5 DEF Kept

\* Which fire is called.
LEMMA FireIs ==
  ASSUME NEW n, NEW a, NEW t, t = n.actors[a].type, t \in DOMAIN TypeOf, NEW k \in fire(n, a)
  PROVE  \/ t = "Identity" /\ k \in cc_actor_identity_fire(n, a)
         \/ t = "ReplicaIdentity" /\ k \in cc_actor_replica_identity_fire(n, a)
         \/ t = "Log" /\ k \in cc_actor_log_fire(n, a)
         \/ t = "Button" /\ k \in cc_actor_button_fire(n, a)
         \/ t = "Accelerometer" /\ k \in cc_actor_accelerometer_fire(n, a)
         \/ t = "Gyroscope" /\ k \in cc_actor_gyroscope_fire(n, a)
         \/ t = "Light" /\ k \in cc_actor_light_fire(n, a)
         \/ t = "RegistryAttribute" /\ k \in cc_actor_registry_attribute_fire(n, a)
         \/ t = "Coap" /\ k \in cc_actor_coap_fire(n, a)
         \/ t = "SoilMoisture" /\ k \in cc_actor_soil_moisture_fire(n, a)
         \/ t = "TemperatureTagged" /\ k \in cc_actor_temperature_tagged_fire(n, a)
         \/ t = "Temperature" /\ k \in cc_actor_temperature_fire(n, a)
         \/ t = "TriggeredTemperature" /\ k \in cc_actor_triggered_temperature_fire(n, a)
<1>1. t \in {"Identity", "ReplicaIdentity", "Log", "Button", "Accelerometer", "Gyroscope", "Light",
             "RegistryAttribute", "Coap", "SoilMoisture", "TemperatureTagged", "Temperature", "TriggeredTemperature"}
  BY DEF TypeOf
<1> QED
  BY <1>1 DEF fire

\* Whichever actor fires, the node is sound afterwards, or the process ended.
LEMMA FireSound ==
  ASSUME NEW n, NodeSound(n), NEW a \in DOMAIN n.actors, host \in Hosts, NEW k \in fire(n, a)
  PROVE  (Kept(n, k) /\ NodeSound(k)) \/ k = Dead(n)
<1>1. PICK t : t = n.actors[a].type
  OBVIOUS
<1>2. t \in DOMAIN TypeOf
  BY <1>1, SoundFacts, ActorFields
<1>3. Local(n, n, a)
  BY LocalSame
<1>4. CASE t = "TriggeredTemperature"
  <2>1. k \in cc_actor_triggered_temperature_fire(n, a)
    BY <1>1, <1>2, <1>4, FireIs
  <2> QED
    BY <1>1, <1>4, <2>1, TriggerSound
<1>5. CASE t # "TriggeredTemperature"
  <2> SUFFICES Local(n, k, a) \/ k = Dead(n)
    <3>1. ASSUME Local(n, k, a) PROVE Kept(n, k) /\ NodeSound(k)
      <4>1. Owes(k, a)
        BY <1>1, <1>5, <3>1 DEF Owes, Local, SameObjects
      <4> QED
        BY <3>1, <4>1, LocalKept, LocalSound
    <3> QED
      BY <3>1
  <2>1. CASE t = "Identity"
    <3>1. k \in cc_actor_identity_fire(n, a)
      BY <1>1, <1>2, <2>1, FireIs
    <3> QED
      BY <1>3, <3>1, PassOnLocal DEF cc_actor_identity_fire
  <2>2. CASE t = "ReplicaIdentity"
    <3>1. k \in cc_actor_replica_identity_fire(n, a)
      BY <1>1, <1>2, <2>2, FireIs
    <3> QED
      BY <1>3, <3>1, PassOnLocal DEF cc_actor_replica_identity_fire
  <2>3. CASE t = "Log"
    <3>1. k \in cc_actor_log_fire(n, a)
      BY <1>1, <1>2, <2>3, FireIs
    <3>2. k = n \/ (HasToken(n, a) /\ k = Consume(n, a))
      BY <3>1 DEF cc_actor_log_fire
    <3> QED
      BY <1>3, <3>2, ConsumeLocal
  <2>4. CASE t \in {"Button", "Accelerometer", "Gyroscope"}
    <3>1. \E cap \in Opens(t) : k \in Forward(n, a, cap)
      BY <1>1, <1>2, <2>4, FireIs, OpensFacts
         DEF cc_actor_button_fire, cc_actor_accelerometer_fire, cc_actor_gyroscope_fire
    <3> QED
      BY <1>1, <3>1, ForwardLocal
  <2>5. CASE t = "Light"
    <3>1. k \in cc_actor_light_fire(n, a)
      BY <1>1, <1>2, <2>5, FireIs
    <3> QED
      BY <1>1, <2>5, <3>1, LightLocal
  <2>6. CASE t = "RegistryAttribute"
    <3>1. k \in cc_actor_registry_attribute_fire(n, a)
      BY <1>1, <1>2, <2>6, FireIs
    <3>2. k = n \/ (HasToken(n, a) /\ Slot(n, a) /\ k = Emit(Consume(n, a), a))
      BY <3>1 DEF cc_actor_registry_attribute_fire
    <3> QED
      BY <1>3, <3>2, PassOnLocal
  <2>7. CASE t = "Coap"
    <3>1. k \in cc_actor_coap_fire(n, a)
      BY <1>1, <1>2, <2>7, FireIs
    <3> QED
      BY <1>1, <2>7, <3>1, CoapLocal
  <2>8. CASE t \in {"SoilMoisture", "TemperatureTagged"}
    <3>1. "sys.timer.once" \in Opens(t) /\ \E cap \in Opens(t) : cap # "sys.timer.once" /\ k \in TimedReading(n, a, cap)
      BY <1>1, <1>2, <2>8, FireIs, OpensFacts
         DEF cc_actor_soil_moisture_fire, cc_actor_temperature_tagged_fire
    <3> QED
      BY <1>1, <3>1, TimedLocal
  <2>9. CASE t = "Temperature"
    <3>1. k \in cc_actor_temperature_fire(n, a)
      BY <1>1, <1>2, <2>9, FireIs
    <3> QED
      BY <1>1, <2>9, <3>1, TemperatureLocal
  <2> QED
    BY <1>1, <1>2, <1>5, <2>1, <2>2, <2>3, <2>4, <2>5, <2>6, <2>7, <2>8, <2>9, FireIs
<1> QED
  BY <1>4, <1>5

(***************************************************************************)
(* Objects come and go with their actor.                                    *)
(***************************************************************************)
\* There are finitely many objects.
LEMMA CoapFinite ==
  ASSUME NEW n \in NodeType
  PROVE  /\ IsFiniteSet(DOMAIN n.objects) /\ IsFiniteSet(CoapObjects(n))
         /\ Cardinality(CoapObjects(n)) \in Nat
<1>1. PICK N : N = 6 * Cardinality(Actors) + 1
  OBVIOUS
<1>2. N \in Nat
  BY <1>1, FS_CardinalityType, DevicesAssumption
<1>3. IsFiniteSet(Ids)
  BY <1>1, <1>2, CountTo DEF Ids
<1>4. DOMAIN n.objects \subseteq Ids
  BY NodeFields
<1>5. IsFiniteSet(DOMAIN n.objects)
  BY <1>3, <1>4, FS_Subset
<1>6. IsFiniteSet(CoapObjects(n))
  BY <1>5, FS_Subset DEF CoapObjects
<1> QED
  BY <1>5, <1>6, FS_CardinalityType

\* What a new object changes.
LEMMA AddFacts ==
  ASSUME NEW n \in NodeType, n.fds = Cardinality(CoapObjects(n)), NEW id \in Ids \ DOMAIN n.objects,
         NEW cap \in Caps, NEW a \in Actors, NEW st \in State, Device(cap) = "coap" => n.fds < MaxFds,
         NEW k, k = AddObject(n, id, cap, a, st)
  PROVE  /\ k \in NodeType /\ k.up = n.up /\ k.actors = n.actors
         /\ DOMAIN k.objects = DOMAIN n.objects \cup {id}
         /\ k.objects[id].cap = cap /\ k.objects[id].actor = a /\ k.objects[id].st = st
         /\ \A i \in DOMAIN n.objects : k.objects[i] = n.objects[i]
         /\ k.fds = Cardinality(CoapObjects(k))
<1>1. PICK o : o = [cap |-> cap, actor |-> a, st |-> st]
  OBVIOUS
<1>2. o \in ObjectType /\ o.cap = cap /\ o.actor = a /\ o.st = st
  BY <1>1 DEF ObjectType
<1>3. PICK f : f = Put(n.objects, id, o)
  OBVIOUS
<1>4. /\ f \in Partial(Ids, ObjectType) /\ DOMAIN f = DOMAIN n.objects \cup {id} /\ f[id] = o
      /\ \A i \in DOMAIN n.objects \ {id} : f[i] = n.objects[i]
  <2>1. PICK h : h = n.objects
    OBVIOUS
  <2>2. h \in Partial(Ids, ObjectType) /\ id \in Ids /\ o \in ObjectType /\ f = Put(h, id, o)
    BY <1>2, <1>3, <2>1, NodeFields
  <2>3. /\ f \in Partial(Ids, ObjectType) /\ DOMAIN f = DOMAIN h \cup {id} /\ f[id] = o
        /\ \A i \in DOMAIN h \ {id} : f[i] = h[i]
    BY <2>2, PutFacts
  <2> QED
    BY <2>1, <2>3
<1>5. PICK c : c = IF Device(cap) = "coap" THEN n.fds + 1 ELSE n.fds
  OBVIOUS
<1>6. k = [n EXCEPT !.objects = f, !.fds = c]
  BY <1>1, <1>3, <1>5 DEF AddObject
<1>7. c \in 0 .. MaxFds
  BY <1>5, NodeFields, DevicesAssumption
<1>8. k \in NodeType /\ k.up = n.up /\ k.actors = n.actors /\ k.objects = f /\ k.fds = c
  BY <1>4, <1>6, <1>7 DEF NodeType
<1>9. IsFiniteSet(CoapObjects(n)) /\ Cardinality(CoapObjects(n)) \in Nat
  BY CoapFinite
<1>10. id \notin CoapObjects(n)
  BY DEF CoapObjects
<1>11. CASE Device(cap) = "coap"
  <2>1. CoapObjects(k) = CoapObjects(n) \cup {id}
    BY <1>2, <1>4, <1>8, <1>11 DEF CoapObjects
  <2>2. Cardinality(CoapObjects(n) \cup {id}) = Cardinality(CoapObjects(n)) + 1
    BY <1>9, <1>10, FS_AddElement
  <2>3. k.fds = Cardinality(CoapObjects(k))
    BY <1>5, <1>8, <1>11, <2>1, <2>2
  <2> QED
    BY <1>2, <1>4, <1>8, <2>3
<1>12. CASE Device(cap) # "coap"
  <2>1. CoapObjects(k) = CoapObjects(n)
    BY <1>2, <1>4, <1>8, <1>12 DEF CoapObjects
  <2>2. k.fds = Cardinality(CoapObjects(k))
    BY <1>5, <1>8, <1>12, <2>1
  <2> QED
    BY <1>2, <1>4, <1>8, <2>2
<1> QED
  BY <1>11, <1>12

\* What freeing an actor changes.
LEMMA FreeFacts ==
  ASSUME NEW n \in NodeType, n.fds = Cardinality(CoapObjects(n)), NEW a, NEW k, k = cc_actor_free(n, a)
  PROVE  /\ k \in NodeType /\ k.up = n.up
         /\ DOMAIN k.actors = DOMAIN n.actors \ {a}
         /\ \A b \in DOMAIN k.actors : k.actors[b] = n.actors[b]
         /\ DOMAIN k.objects = {i \in DOMAIN n.objects : n.objects[i].actor # a}
         /\ \A i \in DOMAIN k.objects : k.objects[i] = n.objects[i]
         /\ k.fds = Cardinality(CoapObjects(k))
<1>1. PICK ids : ids = {i \in DOMAIN n.objects : n.objects[i].actor = a}
  OBVIOUS
<1>2. PICK f : f = Without(n.actors, {a})
  OBVIOUS
<1>3. /\ f \in Partial(Actors, ActorType) /\ DOMAIN f = DOMAIN n.actors \ {a}
      /\ \A b \in DOMAIN f : f[b] = n.actors[b]
  <2>1. PICK h : h = n.actors
    OBVIOUS
  <2>2. h \in Partial(Actors, ActorType) /\ f = Without(h, {a})
    BY <1>2, <2>1, NodeFields
  <2>3. DOMAIN f = DOMAIN h \ {a} /\ \A b \in DOMAIN f : f[b] = h[b]
    BY <2>2 DEF Without
  <2>4. f \in Partial(Actors, ActorType)
    BY <2>2, WithoutFacts
  <2> QED
    BY <2>1, <2>3, <2>4
<1>4. PICK g : g = Without(n.objects, ids)
  OBVIOUS
<1>5. /\ g \in Partial(Ids, ObjectType) /\ DOMAIN g = DOMAIN n.objects \ ids
      /\ \A i \in DOMAIN g : g[i] = n.objects[i]
  <2>1. PICK h : h = n.objects
    OBVIOUS
  <2>2. h \in Partial(Ids, ObjectType) /\ g = Without(h, ids)
    BY <1>4, <2>1, NodeFields
  <2>3. DOMAIN g = DOMAIN h \ ids /\ \A i \in DOMAIN g : g[i] = h[i]
    BY <2>2 DEF Without
  <2>4. g \in Partial(Ids, ObjectType)
    BY <2>2, WithoutFacts
  <2> QED
    BY <2>1, <2>3, <2>4
<1>6. PICK closed : closed = {i \in ids : Device(n.objects[i].cap) = "coap"}
  OBVIOUS
<1>7. PICK c : c = n.fds - Cardinality(closed)
  OBVIOUS
<1>8. k = [n EXCEPT !.actors = f, !.objects = g, !.fds = c]
  BY <1>1, <1>2, <1>4, <1>6, <1>7 DEF cc_actor_free, cc_calvinsys_close, NodeType
<1>9. IsFiniteSet(CoapObjects(n)) /\ Cardinality(CoapObjects(n)) \in Nat
  BY CoapFinite
<1>10. closed \subseteq CoapObjects(n)
  BY <1>1, <1>6 DEF CoapObjects
<1>11. IsFiniteSet(closed) /\ Cardinality(closed) \in Nat
  BY <1>9, <1>10, FS_Subset, FS_CardinalityType
<1>12. Cardinality(CoapObjects(n) \ closed) = Cardinality(CoapObjects(n)) - Cardinality(closed)
  <2>1. CoapObjects(n) \cap closed = closed
    BY <1>10
  <2> QED
    BY <1>9, <2>1, FS_Difference
<1>13. Cardinality(CoapObjects(n) \ closed) \in Nat
  BY <1>9, FS_Difference, FS_CardinalityType
<1>14. c \in 0 .. MaxFds /\ c = Cardinality(CoapObjects(n) \ closed)
  BY <1>7, <1>9, <1>11, <1>12, <1>13, NodeFields, DevicesAssumption
<1>15. k \in NodeType /\ k.up = n.up /\ k.actors = f /\ k.objects = g /\ k.fds = c
  BY <1>3, <1>5, <1>8, <1>14 DEF NodeType
<1>16. CoapObjects(k) = CoapObjects(n) \ closed
  BY <1>1, <1>5, <1>6, <1>15 DEF CoapObjects
<1> QED
  BY <1>1, <1>3, <1>5, <1>14, <1>15, <1>16

\* A node without one of its actors is sound.
LEMMA FreeSound ==
  ASSUME NEW n, NodeSound(n), NEW a, NEW k, k = cc_actor_free(n, a)
  PROVE  NodeSound(k)
<1>1. n \in NodeType /\ n.fds = Cardinality(CoapObjects(n))
  BY SoundFacts
<1>2. /\ k \in NodeType
      /\ DOMAIN k.actors = DOMAIN n.actors \ {a}
      /\ \A b \in DOMAIN k.actors : k.actors[b] = n.actors[b]
      /\ DOMAIN k.objects = {i \in DOMAIN n.objects : n.objects[i].actor # a}
      /\ \A i \in DOMAIN k.objects : k.objects[i] = n.objects[i]
      /\ k.fds = Cardinality(CoapObjects(k))
  BY <1>1, FreeFacts
<1>3. ASSUME NEW b \in DOMAIN k.actors PROVE ActorSound(k, b)
  <2>1. ActorSound(n, b) /\ k.actors[b] = n.actors[b] /\ b # a
    BY <1>2 DEF NodeSound
  <2>2. ASSUME NEW c \in DOMAIN n.actors[b].refs
        PROVE  Known(k, b, c) /\ Object(k, b, c) = Object(n, b, c)
    <3>1. PICK i : i = n.actors[b].refs[c]
      OBVIOUS
    <3>2. i \in DOMAIN n.objects /\ n.objects[i].actor = b
      BY <2>1, <2>2, <3>1 DEF ActorSound, Known, Object
    <3>3. i \in DOMAIN k.objects /\ k.objects[i] = n.objects[i]
      BY <1>2, <2>1, <3>2
    <3> QED
      BY <2>1, <3>1, <3>3 DEF Known, Object
  <2>3. n.actors[b].type = "TriggeredTemperature" => "io.temperature" \in DOMAIN n.actors[b].refs
    BY <2>1, OpensFacts DEF ActorSound
  <2> QED
    BY <2>1, <2>2, <2>3 DEF ActorSound
<1>4. ASSUME NEW i \in DOMAIN k.objects PROVE ObjectSound(k, i)
  <2>1. ObjectSound(n, i) /\ k.objects[i] = n.objects[i] /\ n.objects[i].actor # a
    BY <1>2 DEF NodeSound
  <2> QED
    BY <1>2, <2>1 DEF ObjectSound
<1> QED
  BY <1>2, <1>3, <1>4 DEF NodeSound

\* n is the node m and the actor a with objects of its own.
Beside(m, n, a) ==
  /\ n \in NodeType /\ n.up = m.up /\ n.fds = Cardinality(CoapObjects(n))
  /\ DOMAIN n.actors = DOMAIN m.actors \cup {a}
  /\ \A b \in DOMAIN m.actors : n.actors[b] = m.actors[b]
  /\ DOMAIN m.objects \subseteq DOMAIN n.objects
  /\ \A i \in DOMAIN m.objects : n.objects[i] = m.objects[i]
  /\ \A i \in DOMAIN n.objects \ DOMAIN m.objects : n.objects[i].actor = a

\* Freeing an actor that is not finished leaves the node exactly as it was.
LEMMA FreeUndoes ==
  ASSUME NEW m, NodeSound(m), NEW a, a \notin DOMAIN m.actors, NEW n, Beside(m, n, a),
         NEW k, k = cc_actor_free(n, a)
  PROVE  k = m
<1>1. m \in NodeType /\ m.fds = Cardinality(CoapObjects(m))
  BY SoundFacts
<1>2. \A i \in DOMAIN m.objects : m.objects[i].actor # a
  BY SoundFacts
<1>3. n \in NodeType /\ n.fds = Cardinality(CoapObjects(n))
  BY DEF Beside
<1>4. /\ k \in NodeType /\ k.up = n.up
      /\ DOMAIN k.actors = DOMAIN n.actors \ {a}
      /\ \A b \in DOMAIN k.actors : k.actors[b] = n.actors[b]
      /\ DOMAIN k.objects = {i \in DOMAIN n.objects : n.objects[i].actor # a}
      /\ \A i \in DOMAIN k.objects : k.objects[i] = n.objects[i]
      /\ k.fds = Cardinality(CoapObjects(k))
  BY <1>3, FreeFacts
<1>5. DOMAIN k.actors = DOMAIN m.actors /\ \A b \in DOMAIN k.actors : k.actors[b] = m.actors[b]
  BY <1>4 DEF Beside
<1>6. DOMAIN k.objects = DOMAIN m.objects /\ \A i \in DOMAIN k.objects : k.objects[i] = m.objects[i]
  BY <1>2, <1>4 DEF Beside
<1>7. k.actors = m.actors
  BY <1>1, <1>4, <1>5, NodeFields, SamePartial
<1>8. k.objects = m.objects
  BY <1>1, <1>4, <1>6, NodeFields, SamePartial
<1>9. CoapObjects(k) = CoapObjects(m)
  BY <1>8 DEF CoapObjects
<1>10. k.fds = m.fds /\ k.up = m.up
  BY <1>1, <1>4, <1>9 DEF Beside
<1> QED
  BY <1>1, <1>4, <1>7, <1>8, <1>10 DEF NodeType

(***************************************************************************)
(* There is always an id left.                                              *)
(***************************************************************************)
\* A set that pairs lead to has no more elements than there are pairs.
LEMMA CountImage ==
  ASSUME NEW S, NEW A, IsFiniteSet(A), NEW g, \A i \in S : \E p \in A \X (1 .. 2) : g[p] = i
  PROVE  IsFiniteSet(S) /\ Cardinality(S) <= 2 * Cardinality(A) /\ Cardinality(S) \in Nat
<1> DEFINE f == [i \in S |-> CHOOSE p \in A \X (1 .. 2) : g[p] = i]
<1>1. ASSUME NEW i \in S PROVE f[i] \in A \X (1 .. 2) /\ g[f[i]] = i
  OBVIOUS
<1>2. f \in [S -> A \X (1 .. 2)]
  BY <1>1
<1>3. \A i, j \in S : f[i] = f[j] => i = j
  BY <1>1
<1>4. IsInjective(f)
  BY <1>2, <1>3 DEF IsInjective
<1> HIDE DEF f
<1> QED
  BY <1>2, <1>4, CountPairs, FS_CardinalityType

\* A union has no more elements than its parts.
LEMMA CountUnion ==
  ASSUME NEW S, NEW T, IsFiniteSet(S), IsFiniteSet(T), NEW m \in Nat, NEW k \in Nat,
         Cardinality(S) <= m, Cardinality(T) <= k
  PROVE  IsFiniteSet(S \cup T) /\ Cardinality(S \cup T) <= m + k
<1>1. /\ IsFiniteSet(S \cup T)
      /\ Cardinality(S \cup T) = Cardinality(S) + Cardinality(T) - Cardinality(S \cap T)
  BY FS_Union
<1>2. IsFiniteSet(S \cap T)
  BY FS_Intersection
<1>3. Cardinality(S) \in Nat /\ Cardinality(T) \in Nat /\ Cardinality(S \cap T) \in Nat
  BY <1>2, FS_CardinalityType
<1> QED
  BY <1>1, <1>3

\* An actor opens at most two objects.
LEMMA TwoOpens ==
  ASSUME NEW t \in DOMAIN TypeOf, NEW c \in Opens(t)
  PROVE  /\ \E j \in 1 .. 2 : TypeOf[t].opens[j] = c
         /\ c \in Caps
<1>1. t \in {"Identity", "ReplicaIdentity", "Log", "Button", "Accelerometer", "Gyroscope", "Light",
             "RegistryAttribute", "Coap", "SoilMoisture", "TemperatureTagged", "Temperature", "TriggeredTemperature"}
  BY DEF TypeOf
<1>2. CASE t \in {"Identity", "ReplicaIdentity", "Log"}
  BY <1>2, OpensFacts
<1>3. CASE t \in {"Button", "Light", "Accelerometer", "Gyroscope"}
  BY <1>3, OpensFacts
     DEF Caps, TypeOf, cc_actor_button_init, cc_actor_light_init, cc_actor_accelerometer_init, cc_actor_gyroscope_init
<1>4. CASE t \in {"Coap", "RegistryAttribute", "TriggeredTemperature"}
  BY <1>4, OpensFacts
     DEF Caps, TypeOf, cc_actor_coap_init, cc_actor_registry_attribute_init, cc_actor_triggered_temperature_init
<1>5. CASE t \in {"SoilMoisture", "TemperatureTagged", "Temperature"}
  BY <1>5, OpensFacts
     DEF Caps, TypeOf, cc_actor_soil_moisture_init, cc_actor_temperature_tagged_init, cc_actor_temperature_init
<1> QED
  BY <1>1, <1>2, <1>3, <1>4, <1>5

\* Every object is one that the type of its actor opens, and its actor knows it.
Numbered(n) ==
  \A i \in DOMAIN n.objects :
    LET o == n.objects[i]
        x == n.actors[o.actor]
    IN o.actor \in Actors /\ x.type \in DOMAIN TypeOf /\ o.cap \in Opens(x.type) /\ x.refs[o.cap] = i

\* Then there are at most two objects for an actor.
LEMMA CountObjects ==
  ASSUME NEW n, Numbered(n)
  PROVE  IsFiniteSet(DOMAIN n.objects) /\ Cardinality(DOMAIN n.objects) <= 2 * Cardinality(Actors)
<1> DEFINE g == [p \in Actors \X (1 .. 2) |-> n.actors[p[1]].refs[TypeOf[n.actors[p[1]].type].opens[p[2]]]]
<1>1. ASSUME NEW i \in DOMAIN n.objects
      PROVE  \E p \in Actors \X (1 .. 2) : g[p] = i
  <2>1. PICK a : a = n.objects[i].actor
    OBVIOUS
  <2>2. PICK c : c = n.objects[i].cap
    OBVIOUS
  <2>3. a \in Actors /\ n.actors[a].type \in DOMAIN TypeOf /\ c \in Opens(n.actors[a].type) /\ n.actors[a].refs[c] = i
    BY <2>1, <2>2 DEF Numbered
  <2>4. PICK j \in 1 .. 2 : TypeOf[n.actors[a].type].opens[j] = c
    BY <2>3, TwoOpens
  <2>5. <<a, j>> \in Actors \X (1 .. 2) /\ g[<<a, j>>] = i
    BY <2>3, <2>4
  <2> QED
    BY <2>5
<1> HIDE DEF g
<1> QED
  BY <1>1, CountImage, DevicesAssumption

\* The ids in serialised actors.
AllIds(f) == UNION {DOMAIN f[a].objs : a \in DOMAIN f}

\* There are at most two for an actor.
LEMMA CountSerial ==
  ASSUME NEW f, AllSerialSound(f)
  PROVE  IsFiniteSet(AllIds(f)) /\ Cardinality(AllIds(f)) <= 2 * Cardinality(Actors)
<1> DEFINE g == [p \in Actors \X (1 .. 2) |-> f[p[1]].refs[TypeOf[f[p[1]].type].opens[p[2]]]]
<1>1. ASSUME NEW i \in AllIds(f)
      PROVE  \E p \in Actors \X (1 .. 2) : g[p] = i
  <2>1. PICK a \in DOMAIN f : i \in DOMAIN f[a].objs
    BY DEF AllIds
  <2>2. a \in Actors /\ SerialSound(f[a])
    BY <2>1, PartialFacts DEF AllSerialSound
  <2>3. PICK c \in Opens(f[a].type) : f[a].refs[c] = i
    BY <2>1, <2>2 DEF SerialSound, Covers
  <2>4. f[a].type \in DOMAIN TypeOf
    BY <2>2 DEF SerialSound, SerialType
  <2>5. PICK j \in 1 .. 2 : TypeOf[f[a].type].opens[j] = c
    BY <2>3, <2>4, TwoOpens
  <2>6. <<a, j>> \in Actors \X (1 .. 2) /\ g[<<a, j>>] = i
    BY <2>2, <2>3, <2>5
  <2> QED
    BY <2>6
<1> HIDE DEF g
<1> QED
  BY <1>1, CountImage, DevicesAssumption

\* The next id is new and within bounds.
LEMMA FreshFacts ==
  ASSUME NEW n, Numbered(n), AllSerialSound(stored), AllSerialSound(peer), NEW i, i = Fresh(n)
  PROVE  /\ i \in Ids /\ i \notin DOMAIN n.objects
         /\ i \notin AllIds(stored) /\ i \notin AllIds(peer)
<1>1. Mentioned(n) = DOMAIN n.objects \cup (AllIds(stored) \cup AllIds(peer))
  BY DEF Mentioned, AllIds
<1>2. PICK c : c = 2 * Cardinality(Actors)
  OBVIOUS
<1>3. c \in Nat /\ Cardinality(Actors) \in Nat
  BY <1>2, FS_CardinalityType, DevicesAssumption
<1>4. IsFiniteSet(AllIds(stored) \cup AllIds(peer)) /\ Cardinality(AllIds(stored) \cup AllIds(peer)) <= c + c
  BY <1>2, <1>3, CountSerial, CountUnion
<1>5. PICK e \in Nat : e = c + c
  BY <1>3
<1>6. IsFiniteSet(Mentioned(n)) /\ Cardinality(Mentioned(n)) <= c + e
  BY <1>1, <1>2, <1>3, <1>4, <1>5, CountObjects, CountUnion
<1>7. Cardinality(Mentioned(n)) \in Nat /\ \E k \in 1 .. Cardinality(Mentioned(n)) + 1 : k \notin Mentioned(n)
  BY <1>6, FreshExists
<1>8. i \in 1 .. Cardinality(Mentioned(n)) + 1 /\ i \notin Mentioned(n)
  BY <1>7 DEF Fresh
<1>9. i \in 1 .. 6 * Cardinality(Actors) + 1
  BY <1>2, <1>3, <1>5, <1>6, <1>7, <1>8
<1> QED
  BY <1>1, <1>8, <1>9 DEF Ids

(***************************************************************************)
(* Making an actor.                                                         *)
(***************************************************************************)
\* The actor a of type t is being made, beside the node m.
New(m, n, a, t) ==
  /\ Beside(m, n, a)
  /\ n.actors[a].type = t /\ n.actors[a].first = <<>> /\ Len(n.actors[a].in) <= QueueSize
  /\ n.actors[a].owed # "yes" /\ n.actors[a].away = FALSE
  /\ \A i \in DOMAIN n.objects \ DOMAIN m.objects :
       /\ n.objects[i].cap \in Opens(t) /\ Device(n.objects[i].cap) # "none"
       /\ n.objects[i].cap = "io.temperature" => n.objects[i].st = Idle

\* Its references, for the capabilities D, are to the new objects.
Linked(m, n, a, D) ==
  /\ DOMAIN n.actors[a].refs = D
  /\ \A c \in D : /\ n.actors[a].refs[c] \in DOMAIN n.objects \ DOMAIN m.objects
                  /\ n.objects[n.actors[a].refs[c]].cap = c
  /\ \A i \in DOMAIN n.objects \ DOMAIN m.objects :
       n.objects[i].cap \in D /\ n.actors[a].refs[n.objects[i].cap] = i

\* An actor with all the references of its type is finished.
LEMMA FinishedSound ==
  ASSUME NEW m, NodeSound(m), NEW a, a \notin DOMAIN m.actors, NEW n, NEW t,
         New(m, n, a, t), Linked(m, n, a, Opens(t))
  PROVE  NodeSound(n)
<1>1. Beside(m, n, a)
  BY DEF New
<1>2. /\ n \in NodeType /\ n.fds = Cardinality(CoapObjects(n))
      /\ DOMAIN n.actors = DOMAIN m.actors \cup {a}
      /\ \A b \in DOMAIN m.actors : n.actors[b] = m.actors[b]
      /\ DOMAIN m.objects \subseteq DOMAIN n.objects
      /\ \A i \in DOMAIN m.objects : n.objects[i] = m.objects[i]
      /\ \A i \in DOMAIN n.objects \ DOMAIN m.objects : n.objects[i].actor = a
  BY <1>1 DEF Beside
<1>3. ASSUME NEW b \in DOMAIN m.actors PROVE ActorSound(n, b)
  <2>1. ActorSound(m, b) /\ n.actors[b] = m.actors[b]
    BY <1>2 DEF NodeSound
  <2>2. ASSUME NEW c \in DOMAIN m.actors[b].refs
        PROVE  Known(n, b, c) /\ Object(n, b, c) = Object(m, b, c)
    <3>1. PICK i : i = m.actors[b].refs[c]
      OBVIOUS
    <3>2. i \in DOMAIN m.objects
      BY <2>1, <2>2, <3>1 DEF ActorSound, Known
    <3>3. i \in DOMAIN n.objects /\ n.objects[i] = m.objects[i]
      BY <1>2, <3>2
    <3> QED
      BY <2>1, <3>1, <3>3 DEF Known, Object
  <2>3. m.actors[b].type = "TriggeredTemperature" => "io.temperature" \in DOMAIN m.actors[b].refs
    BY <2>1, OpensFacts DEF ActorSound
  <2> QED
    BY <2>1, <2>2, <2>3 DEF ActorSound
<1>4. ActorSound(n, a)
  <2>1. \A c \in DOMAIN n.actors[a].refs :
          Known(n, a, c) /\ Object(n, a, c).cap = c /\ Object(n, a, c).actor = a
    BY <1>2 DEF Linked, Known, Object
  <2>2. ASSUME t = "TriggeredTemperature" PROVE ~Object(n, a, "io.temperature").st.ready
    <3>1. "io.temperature" \in Opens(t)
      BY <2>2, OpensFacts
    <3>2. PICK i : i = n.actors[a].refs["io.temperature"]
      OBVIOUS
    <3>3. i \in DOMAIN n.objects \ DOMAIN m.objects /\ n.objects[i].cap = "io.temperature"
      BY <3>1, <3>2 DEF Linked
    <3>4. n.objects[i].st = Idle
      BY <3>3 DEF New
    <3> QED
      BY <3>2, <3>4 DEF Object, Idle
  <2> QED
    BY <2>1, <2>2 DEF ActorSound, New, Linked
<1>5. ASSUME NEW i \in DOMAIN m.objects PROVE ObjectSound(n, i)
  <2>1. ObjectSound(m, i) /\ n.objects[i] = m.objects[i]
    BY <1>2 DEF NodeSound
  <2>2. n.actors[m.objects[i].actor] = m.actors[m.objects[i].actor]
    BY <1>2, <2>1 DEF ObjectSound
  <2> QED
    BY <1>2, <2>1, <2>2 DEF ObjectSound
<1>6. ASSUME NEW i \in DOMAIN n.objects \ DOMAIN m.objects PROVE ObjectSound(n, i)
  <2>1. n.objects[i].actor = a /\ a \in DOMAIN n.actors
    BY <1>2
  <2>2. n.objects[i].cap = "io.temperature" => ~n.objects[i].st.armed
    BY DEF New, Idle
  <2>3. /\ n.objects[i].cap \in DOMAIN n.actors[a].refs /\ n.actors[a].refs[n.objects[i].cap] = i
        /\ Device(n.objects[i].cap) # "none"
    BY DEF New, Linked
  <2> QED
    BY <2>1, <2>2, <2>3 DEF ObjectSound
<1> QED
  BY <1>2, <1>3, <1>4, <1>5, <1>6 DEF NodeSound

\* What the finished actor does to its objects concerns no one else.
LEMMA BesideLocal ==
  ASSUME NEW m, NodeSound(m), NEW a, a \notin DOMAIN m.actors, NEW n, Beside(m, n, a),
         NEW k, Local(n, k, a)
  PROVE  Beside(m, k, a)
<1>1. \A i \in DOMAIN m.objects : m.objects[i].actor # a
  BY SoundFacts
<1>2. CoapObjects(k) = CoapObjects(n)
  BY DEF Local, CoapObjects
<1>3. \A i \in DOMAIN m.objects : k.objects[i] = n.objects[i]
  BY <1>1 DEF Local, Beside
<1>4. \A b \in DOMAIN m.actors : k.actors[b] = n.actors[b]
  BY DEF Local, Beside
<1>5. \A i \in DOMAIN n.objects : k.objects[i].actor = n.objects[i].actor
  BY DEF Local
<1>6. k \in NodeType /\ k.up = n.up /\ k.fds = n.fds /\ DOMAIN k.actors = DOMAIN n.actors /\ DOMAIN k.objects = DOMAIN n.objects
  BY DEF Local
<1> QED
  BY <1>2, <1>3, <1>4, <1>5, <1>6 DEF Beside

\* Objects of a node to which an actor is added are all known to their actors.
LEMMA LinkedNumbered ==
  ASSUME NEW m, NodeSound(m), NEW a \in Actors, a \notin DOMAIN m.actors, NEW n, NEW t \in DOMAIN TypeOf,
         NEW D, D \subseteq Opens(t), New(m, n, a, t), Linked(m, n, a, D)
  PROVE  Numbered(n)
<1>1. Beside(m, n, a)
  BY DEF New
<1>2. ASSUME NEW i \in DOMAIN m.objects
      PROVE  /\ n.objects[i].actor \in Actors /\ n.actors[n.objects[i].actor].type \in DOMAIN TypeOf
             /\ n.objects[i].cap \in Opens(n.actors[n.objects[i].actor].type)
             /\ n.actors[n.objects[i].actor].refs[n.objects[i].cap] = i
  <2>1. PICK b : b = m.objects[i].actor
    OBVIOUS
  <2>2. /\ b \in DOMAIN m.actors /\ b \in Actors /\ m.actors[b] \in ActorType
        /\ m.objects[i].cap \in DOMAIN m.actors[b].refs /\ m.actors[b].refs[m.objects[i].cap] = i
        /\ DOMAIN m.actors[b].refs = Opens(m.actors[b].type)
    BY <2>1, SoundFacts
  <2>3. m.actors[b].type \in DOMAIN TypeOf
    BY <2>2, ActorFields
  <2>4. n.objects[i] = m.objects[i] /\ n.actors[b] = m.actors[b]
    BY <1>1, <2>2 DEF Beside
  <2> QED
    BY <2>1, <2>2, <2>3, <2>4
<1>3. ASSUME NEW i \in DOMAIN n.objects \ DOMAIN m.objects
      PROVE  /\ n.objects[i].actor = a /\ n.actors[a].type = t
             /\ n.objects[i].cap \in Opens(t) /\ n.actors[a].refs[n.objects[i].cap] = i
  BY <1>1 DEF Beside, New, Linked
<1> QED
  BY <1>2, <1>3 DEF Numbered

\* The ids of the new objects are in no serialised actor.
Unused(m, n) ==
  \A i \in DOMAIN n.objects \ DOMAIN m.objects : i \notin AllIds(stored) /\ i \notin AllIds(peer)

Opening(m, n, a, t, D) == New(m, n, a, t) /\ Linked(m, n, a, D) /\ Unused(m, n)

\* The references of an actor with one more.
WithRef(n, a, cap, id) == [n EXCEPT !.actors[a].refs = Put(@, cap, id)]

NoProcess == [up |-> FALSE, actors |-> NoActors, objects |-> NoActors, fds |-> 0]

\* A process that ended is one and the same, whatever it had.
LEMMA DeadSame ==
  ASSUME NEW n \in NodeType
  PROVE  Dead(n) = NoProcess
<1>1. PICK b : b = FALSE
  OBVIOUS
<1>2. PICK e : e = NoActors
  OBVIOUS
<1>3. PICK k : k = [n EXCEPT !.up = b, !.actors = e, !.objects = e, !.fds = 0]
  OBVIOUS
<1>4. DOMAIN k = {"up", "actors", "objects", "fds"} /\ k = [x \in DOMAIN k |-> k[x]]
  BY <1>3 DEF NodeType
<1>5. k.up = b /\ k.actors = e /\ k.objects = e /\ k.fds = 0
  BY <1>3 DEF NodeType
<1>6. k = [up |-> b, actors |-> e, objects |-> e, fds |-> 0]
  BY <1>4, <1>5
<1> QED
  BY <1>1, <1>2, <1>3, <1>6 DEF Dead, NoProcess

\* The results of open.
LEMMA OpenIs ==
  ASSUME NEW n, NEW a, NEW cap, NEW r \in cc_calvinsys_open(n, a, cap)
  PROVE  \/ ~r.ok /\ (r.n = n \/ r.n = Dead(n))
         \/ \E st \in Opened(n, Device(cap), n.actors[a].arg) :
              r.ok /\ r.n = WithRef(AddObject(n, Fresh(n), cap, a, st), a, cap, Fresh(n))
BY DEF cc_calvinsys_open, WithRef, Fails

\* What one more reference changes.
LEMMA RefFacts ==
  ASSUME NEW n \in NodeType, NEW a \in DOMAIN n.actors, NEW cap \in Caps, NEW id \in Ids,
         NEW k, k = WithRef(n, a, cap, id)
  PROVE  /\ k \in NodeType /\ k.up = n.up /\ k.fds = n.fds /\ k.objects = n.objects
         /\ DOMAIN k.actors = DOMAIN n.actors
         /\ \A b \in DOMAIN n.actors \ {a} : k.actors[b] = n.actors[b]
         /\ k.actors[a].type = n.actors[a].type /\ k.actors[a].first = n.actors[a].first
         /\ k.actors[a].in = n.actors[a].in /\ k.actors[a].owed = n.actors[a].owed
         /\ k.actors[a].away = n.actors[a].away
         /\ DOMAIN k.actors[a].refs = DOMAIN n.actors[a].refs \cup {cap} /\ k.actors[a].refs[cap] = id
         /\ \A c \in DOMAIN n.actors[a].refs \ {cap} : k.actors[a].refs[c] = n.actors[a].refs[c]
<1>1. PICK y : y = n.actors[a]
  OBVIOUS
<1>2. PICK f : f = y.refs
  OBVIOUS
<1>3. y \in ActorType /\ f \in Refs
  BY <1>1, <1>2, NodeFields, ActorFields
<1>4. PICK g : g = Put(f, cap, id)
  OBVIOUS
<1>5. f \in Partial(Caps, Ids)
  BY <1>3 DEF Refs
<1>6. g \in Partial(Caps, Ids)
  BY <1>4, <1>5, PutFacts
<1>7. /\ g \in Refs /\ DOMAIN g = DOMAIN f \cup {cap} /\ g[cap] = id
      /\ \A c \in DOMAIN f \ {cap} : g[c] = f[c]
  BY <1>4, <1>6 DEF Refs, Put
<1>8. PICK x : x = [y EXCEPT !.refs = g]
  OBVIOUS
<1>9. /\ x \in ActorType /\ x.refs = g /\ x.type = y.type /\ x.first = y.first
      /\ x.in = y.in /\ x.owed = y.owed /\ x.away = y.away
  BY <1>3, <1>7, <1>8 DEF ActorType
<1>10. k = WithActor(n, a, x)
  BY <1>1, <1>2, <1>4, <1>8 DEF WithRef, WithActor
<1>11. /\ k \in NodeType /\ k.up = n.up /\ k.fds = n.fds /\ k.objects = n.objects
       /\ DOMAIN k.actors = DOMAIN n.actors /\ k.actors[a] = x
       /\ \A b \in DOMAIN n.actors \ {a} : k.actors[b] = n.actors[b]
  BY <1>9, <1>10, WithActorFacts
<1> QED
  BY <1>1, <1>2, <1>7, <1>9, <1>11

\* A new object, beside the node.
LEMMA AddBeside ==
  ASSUME NEW m, NEW a \in Actors, NEW n, NEW t \in DOMAIN TypeOf, New(m, n, a, t), host \in Hosts,
         NEW id \in Ids \ DOMAIN n.objects, NEW cap \in Opens(t), NEW st \in State,
         Device(cap) # "none", Device(cap) \in Thermometers => st = Idle,
         Device(cap) = "coap" => n.fds < MaxFds, NEW k, k = AddObject(n, id, cap, a, st)
  PROVE  /\ New(m, k, a, t) /\ k.actors = n.actors /\ DOMAIN k.objects = DOMAIN n.objects \cup {id}
         /\ k.objects[id].cap = cap /\ id \notin DOMAIN m.objects
         /\ \A i \in DOMAIN n.objects : k.objects[i] = n.objects[i]
<1>1. Beside(m, n, a)
  BY DEF New
<1>2. /\ n \in NodeType /\ n.fds = Cardinality(CoapObjects(n)) /\ cap \in Caps
      /\ DOMAIN m.objects \subseteq DOMAIN n.objects
  BY <1>1, TwoOpens DEF Beside
<1>3. /\ k \in NodeType /\ k.up = n.up /\ k.actors = n.actors
      /\ DOMAIN k.objects = DOMAIN n.objects \cup {id}
      /\ k.objects[id].cap = cap /\ k.objects[id].actor = a /\ k.objects[id].st = st
      /\ \A i \in DOMAIN n.objects : k.objects[i] = n.objects[i]
      /\ k.fds = Cardinality(CoapObjects(k))
  BY <1>2, AddFacts
<1>4. id \notin DOMAIN m.objects
  BY <1>2
<1>5. Beside(m, k, a)
  BY <1>1, <1>3, <1>4 DEF Beside
<1>6. cap = "io.temperature" => st = Idle
  BY DeviceFacts
<1>7. ASSUME NEW i \in DOMAIN k.objects \ DOMAIN m.objects
      PROVE  /\ k.objects[i].cap \in Opens(t) /\ Device(k.objects[i].cap) # "none"
             /\ k.objects[i].cap = "io.temperature" => k.objects[i].st = Idle
  <2>1. CASE i = id
    BY <1>3, <1>6, <2>1
  <2>2. CASE i # id
    BY <1>3, <2>2 DEF New
  <2> QED
    BY <2>1, <2>2
<1>8. New(m, k, a, t)
  BY <1>3, <1>5, <1>7 DEF New
<1> QED
  BY <1>3, <1>4, <1>8

\* cap is the next capability to open after those in D.
NextCap(t, D, cap, E) == D \subseteq Opens(t) /\ cap \in Opens(t) \ D /\ E = D \cup {cap}

\* What is taken for granted when an actor a of type t is made.
Ground(m, a, t) ==
  /\ NodeSound(m) /\ a \in Actors /\ a \notin DOMAIN m.actors /\ t \in DOMAIN TypeOf
  /\ host \in Hosts /\ AllSerialSound(stored) /\ AllSerialSound(peer)

\* One more object is opened, or open failed, which changed nothing or ended the
\* process.
LEMMA OpenSound ==
  ASSUME NEW m, NEW a, NEW t, Ground(m, a, t), NEW D, NEW cap, NEW E, NextCap(t, D, cap, E),
         NEW n, Opening(m, n, a, t, D), NEW r \in cc_calvinsys_open(n, a, cap)
  PROVE  /\ r.ok => Opening(m, r.n, a, t, E)
         /\ ~r.ok => r.n = n \/ r.n = NoProcess
<1>0. /\ NodeSound(m) /\ a \in Actors /\ a \notin DOMAIN m.actors /\ t \in DOMAIN TypeOf
      /\ host \in Hosts /\ AllSerialSound(stored) /\ AllSerialSound(peer)
      /\ D \subseteq Opens(t) /\ cap \in Opens(t) \ D /\ E = D \cup {cap}
  BY DEF Ground, NextCap
<1>1. CASE ~r.ok /\ (r.n = n \/ r.n = Dead(n))
  <2>1. n \in NodeType
    BY DEF Opening, New, Beside
  <2> QED
    BY <1>1, <2>1, DeadSame
<1>2. CASE r.ok
  <2>1. PICK id : id = Fresh(n)
    OBVIOUS
  <2>2. PICK st \in Opened(n, Device(cap), n.actors[a].arg) :
          r.n = WithRef(AddObject(n, id, cap, a, st), a, cap, id)
    BY <1>2, <2>1, OpenIs
  <2>3. New(m, n, a, t) /\ Linked(m, n, a, D) /\ Unused(m, n)
    BY DEF Opening
  <2>4. Numbered(n)
    BY <1>0, <2>3, LinkedNumbered
  <2>5. id \in Ids /\ id \notin DOMAIN n.objects /\ id \notin AllIds(stored) /\ id \notin AllIds(peer)
    BY <2>1, <2>4, <1>0, FreshFacts
  <2>6. /\ st \in State /\ Device(cap) # "none" /\ (Device(cap) \in Thermometers => st = Idle)
        /\ Device(cap) = "coap" => n.fds < MaxFds
    BY OpenedFacts
  <2>7. PICK q : q = AddObject(n, id, cap, a, st)
    OBVIOUS
  <2>8. /\ New(m, q, a, t) /\ q.actors = n.actors /\ DOMAIN q.objects = DOMAIN n.objects \cup {id}
        /\ q.objects[id].cap = cap /\ id \notin DOMAIN m.objects
        /\ \A i \in DOMAIN n.objects : q.objects[i] = n.objects[i]
    BY <2>3, <2>5, <2>6, <2>7, <1>0, AddBeside
  <2>9. PICK k : k = r.n
    OBVIOUS
  <2>10. q \in NodeType /\ a \in DOMAIN q.actors /\ cap \in Caps /\ k = WithRef(q, a, cap, id)
    BY <2>2, <2>7, <2>8, <2>9, <1>0, TwoOpens DEF New, Beside
  <2>11. /\ k \in NodeType /\ k.up = q.up /\ k.fds = q.fds /\ k.objects = q.objects
         /\ DOMAIN k.actors = DOMAIN q.actors
         /\ \A b \in DOMAIN q.actors \ {a} : k.actors[b] = q.actors[b]
         /\ k.actors[a].type = q.actors[a].type /\ k.actors[a].first = q.actors[a].first
         /\ k.actors[a].in = q.actors[a].in /\ k.actors[a].owed = q.actors[a].owed
         /\ k.actors[a].away = q.actors[a].away
         /\ DOMAIN k.actors[a].refs = DOMAIN q.actors[a].refs \cup {cap} /\ k.actors[a].refs[cap] = id
         /\ \A c \in DOMAIN q.actors[a].refs \ {cap} : k.actors[a].refs[c] = q.actors[a].refs[c]
    BY <2>5, <2>10, RefFacts
  <2>12. New(m, k, a, t)
    <3>1. CoapObjects(k) = CoapObjects(q)
      BY <2>11 DEF CoapObjects
    <3>2. Beside(m, q, a)
      BY <2>8 DEF New
    <3>3. \A b \in DOMAIN m.actors : b \in DOMAIN q.actors \ {a}
      BY <1>0, <3>2 DEF Beside
    <3>4. Beside(m, k, a)
      BY <2>11, <3>1, <3>2, <3>3 DEF Beside
    <3> QED
      BY <2>8, <2>11, <3>4 DEF New
  <2>13. Linked(m, k, a, D \cup {cap})
    <3>1. /\ DOMAIN n.actors[a].refs = D
          /\ \A c \in D : /\ n.actors[a].refs[c] \in DOMAIN n.objects \ DOMAIN m.objects
                          /\ n.objects[n.actors[a].refs[c]].cap = c
          /\ \A i \in DOMAIN n.objects \ DOMAIN m.objects :
               n.objects[i].cap \in D /\ n.actors[a].refs[n.objects[i].cap] = i
      BY <2>3 DEF Linked
    <3>2. DOMAIN k.actors[a].refs = D \cup {cap}
      BY <2>8, <2>11, <3>1
    <3>3. ASSUME NEW c \in D
          PROVE  /\ k.actors[a].refs[c] = n.actors[a].refs[c]
                 /\ k.actors[a].refs[c] \in DOMAIN k.objects \ DOMAIN m.objects
                 /\ k.objects[k.actors[a].refs[c]].cap = c
      <4>1. k.actors[a].refs[c] = n.actors[a].refs[c]
        <5>1. c \in DOMAIN q.actors[a].refs \ {cap}
          BY <1>0, <2>8, <3>1
        <5> QED
          BY <2>8, <2>11, <5>1
      <4> QED
        BY <2>8, <2>11, <3>1, <4>1
    <3>4. id \in DOMAIN k.objects \ DOMAIN m.objects /\ k.objects[id].cap = cap /\ k.actors[a].refs[cap] = id
      BY <2>8, <2>11
    <3>5. ASSUME NEW i \in DOMAIN k.objects \ DOMAIN m.objects
          PROVE  k.objects[i].cap \in D \cup {cap} /\ k.actors[a].refs[k.objects[i].cap] = i
      <4>1. CASE i = id
        BY <3>4, <4>1
      <4>2. CASE i # id
        <5>1. i \in DOMAIN n.objects \ DOMAIN m.objects /\ k.objects[i] = n.objects[i]
          BY <2>8, <2>11, <4>2
        <5> QED
          BY <3>1, <3>3, <5>1
      <4> QED
        BY <4>1, <4>2
    <3> QED
      BY <3>2, <3>3, <3>4, <3>5 DEF Linked
  <2>14. Unused(m, k)
    BY <2>3, <2>5, <2>8, <2>11 DEF Unused
  <2>15. Opening(m, k, a, t, D \cup {cap})
    BY <2>12, <2>13, <2>14 DEF Opening
  <2> QED
    BY <1>0, <1>2, <2>9, <2>15
<1> QED
  BY <1>1, <1>2, OpenIs

\* The first k elements of a list.
First(s, k) == {s[j] : j \in 1 .. k}

\* The list of capabilities a type opens, each of them once.
LEMMA OpensList ==
  ASSUME NEW t \in DOMAIN TypeOf, NEW s, s = TypeOf[t].opens
  PROVE  /\ s \in Seq(Caps) /\ Len(s) \in Nat /\ DOMAIN s = 1 .. Len(s)
         /\ \A j, k \in DOMAIN s : s[j] = s[k] => j = k
         /\ Opens(t) = First(s, Len(s))
<1>1. t \in {"Identity", "ReplicaIdentity", "Log", "Button", "Accelerometer", "Gyroscope", "Light",
             "RegistryAttribute", "Coap", "SoilMoisture", "TemperatureTagged", "Temperature", "TriggeredTemperature"}
  BY DEF TypeOf
<1>2. \/ s = <<>> \/ \E c \in Caps : s = <<c>>
      \/ \E c, d \in Caps : c # d /\ s = <<c, d>>
  <2>1. CASE t \in {"Identity", "ReplicaIdentity", "Log"}
    BY <2>1 DEF TypeOf, cc_actor_identity_init, cc_actor_replica_identity_init, cc_actor_log_init
  <2>2. CASE t \in {"Button", "Light", "Accelerometer", "Gyroscope", "Coap", "RegistryAttribute", "TriggeredTemperature"}
    <3>1. \E c \in {"io.button", "io.light", "io.accelerometer", "io.gyroscope", "io.resource",
                    "sys.attribute.indexed", "io.temperature"} : s = <<c>>
      BY <2>2 DEF TypeOf, cc_actor_button_init, cc_actor_light_init, cc_actor_accelerometer_init,
                  cc_actor_gyroscope_init, cc_actor_coap_init, cc_actor_registry_attribute_init,
                  cc_actor_triggered_temperature_init
    <3> QED
      BY <3>1 DEF Caps
  <2>3. CASE t \in {"SoilMoisture", "TemperatureTagged", "Temperature"}
    <3>1. \E c \in {"io.soilmoisture", "io.temperature"} : s = <<c, "sys.timer.once">>
      BY <2>3 DEF TypeOf, cc_actor_soil_moisture_init, cc_actor_temperature_tagged_init, cc_actor_temperature_init
    <3>2. "sys.timer.once" \in Caps /\ {"io.soilmoisture", "io.temperature"} \subseteq Caps
      BY DEF Caps
    <3> QED
      BY <3>1, <3>2
  <2> QED
    BY <1>1, <2>1, <2>2, <2>3
<1>3. /\ s \in Seq(Caps) /\ Len(s) \in Nat /\ DOMAIN s = 1 .. Len(s)
      /\ \A j, k \in DOMAIN s : s[j] = s[k] => j = k
  <2>1. CASE s = <<>>
    BY <2>1
  <2>2. CASE \E c \in Caps : s = <<c>>
    BY <2>2
  <2>3. CASE \E c, d \in Caps : c # d /\ s = <<c, d>>
    BY <2>3
  <2> QED
    BY <1>2, <2>1, <2>2, <2>3
<1>4. Opens(t) = {s[k] : k \in DOMAIN s}
  BY DEF Opens, Range
<1>5. Opens(t) = First(s, Len(s))
  BY <1>3, <1>4 DEF First
<1> QED
  BY <1>3, <1>5

OpenLoop == INSTANCE Folding WITH Op <- OpenNext

\* The loop that opens the objects is a fold of the module Folding.
LEMMA OpenLoopIs ==
  ASSUME NEW b, NEW s
  PROVE  FoldLeft(OpenNext, b, s) = OpenLoop!Fold(b, s)
BY DEF OpenLoop!Fold, OpenLoop!FoldLeft, OpenLoop!MapThenFoldSet, OpenLoop!Max, FoldLeft, MapThenFoldSet, Max

\* The results of opening the first objects of a list.
OpenedSome(m, a, t, D, results) ==
  \A r \in results : /\ r.ok => Opening(m, r.n, a, t, D)
                     /\ ~r.ok => Beside(m, r.n, a) \/ r.n = NoProcess

\* One pass of that loop.
LEMMA OpenNextSound ==
  ASSUME NEW m, NEW a, NEW t, Ground(m, a, t), NEW D, NEW cap, NEW E, NextCap(t, D, cap, E),
         NEW results, OpenedSome(m, a, t, D, results), NEW o, o = [actor |-> a, cap |-> cap]
  PROVE  OpenedSome(m, a, t, E, OpenNext(results, o))
<1> SUFFICES ASSUME NEW r \in OpenNext(results, o)
             PROVE  /\ r.ok => Opening(m, r.n, a, t, E)
                    /\ ~r.ok => Beside(m, r.n, a) \/ r.n = NoProcess
  BY DEF OpenedSome
<1>1. PICK q \in results : r \in IF q.ok THEN cc_calvinsys_open(q.n, a, cap) ELSE {q}
  BY DEF OpenNext
<1>2. CASE ~q.ok
  BY <1>1, <1>2 DEF OpenedSome
<1>3. CASE q.ok
  <2>1. PICK n : n = q.n
    OBVIOUS
  <2>2. Opening(m, n, a, t, D) /\ r \in cc_calvinsys_open(n, a, cap)
    BY <1>1, <1>3, <2>1 DEF OpenedSome
  <2>3. /\ r.ok => Opening(m, r.n, a, t, E)
        /\ ~r.ok => r.n = n \/ r.n = NoProcess
    BY <2>2, OpenSound
  <2>4. Beside(m, n, a)
    BY <2>2 DEF Opening, New
  <2> QED
    BY <2>3, <2>4
<1> QED
  BY <1>2, <1>3

\* The loop opens what the type asks for.
LEMMA OpenAllSound ==
  ASSUME NEW m, NEW a, NEW t, Ground(m, a, t), NEW n, Opening(m, n, a, t, {}),
         NEW l, l = TypeOf[t].opens, NEW s, s = [k \in DOMAIN l |-> [actor |-> a, cap |-> l[k]]]
  PROVE  OpenedSome(m, a, t, Opens(t), FoldLeft(OpenNext, Done(n), s))
<1>1. /\ l \in Seq(Caps) /\ Len(l) \in Nat /\ DOMAIN l = 1 .. Len(l)
      /\ \A j, k \in DOMAIN l : l[j] = l[k] => j = k
      /\ Opens(t) = First(l, Len(l))
  BY OpensList DEF Ground
<1>2. s \in Seq([actor : Actors, cap : Caps]) /\ Len(s) = Len(l)
  BY <1>1 DEF Ground
<1>3. OpenLoop!Steps(Done(n), s)
  BY <1>2, OpenLoop!FoldSteps
<1>4. PICK r : /\ r[0] = Done(n) /\ r[Len(s)] = OpenLoop!Fold(Done(n), s)
               /\ \A k \in 1 .. Len(s) : r[k] = OpenNext(r[k - 1], s[k])
  BY <1>3 DEF OpenLoop!Steps
<1> DEFINE K == {k \in Nat : k <= Len(s) => OpenedSome(m, a, t, First(l, k), r[k])}
<1>5. 0 \in K
  <2>1. First(l, 0) = {}
    BY DEF First
  <2>2. OpenedSome(m, a, t, {}, Done(n))
    BY DEF OpenedSome, Done
  <2> QED
    BY <1>4, <2>1, <2>2
<1>6. ASSUME NEW k \in Nat, k \in K PROVE k + 1 \in K
  <2> SUFFICES ASSUME k + 1 <= Len(s) PROVE OpenedSome(m, a, t, First(l, k + 1), r[k + 1])
    OBVIOUS
  <2>1. k + 1 \in 1 .. Len(s) /\ (k + 1) - 1 = k /\ OpenedSome(m, a, t, First(l, k), r[k])
    BY <1>1, <1>2, <1>6
  <2>2. r[k + 1] = OpenNext(r[k], s[k + 1])
    BY <1>4, <2>1
  <2>3. PICK c : c = l[k + 1]
    OBVIOUS
  <2>4. s[k + 1] = [actor |-> a, cap |-> c]
    BY <1>1, <1>2, <2>1, <2>3
  <2>5. c \in Opens(t) /\ First(l, k) \subseteq Opens(t)
    BY <1>1, <1>2, <2>1, <2>3 DEF First
  <2>6. c \notin First(l, k)
    <3>1. ASSUME NEW j \in 1 .. k PROVE l[j] # c
      <4>1. j \in DOMAIN l /\ k + 1 \in DOMAIN l /\ j # k + 1
        BY <1>1, <1>2, <2>1
      <4> QED
        BY <1>1, <2>3, <4>1
    <3> QED
      BY <3>1 DEF First
  <2>7. First(l, k + 1) = First(l, k) \cup {c}
    BY <2>3 DEF First
  <2>8. PICK E : E = First(l, k)
    OBVIOUS
  <2>9. PICK o : o = s[k + 1]
    OBVIOUS
  <2>10. PICK F : F = First(l, k + 1)
    OBVIOUS
  <2>11. OpenedSome(m, a, t, E, r[k]) /\ o = [actor |-> a, cap |-> c] /\ NextCap(t, E, c, F)
    BY <2>1, <2>4, <2>5, <2>6, <2>7, <2>8, <2>9, <2>10 DEF NextCap
  <2>12. OpenedSome(m, a, t, F, OpenNext(r[k], o))
    BY <2>11, OpenNextSound
  <2> QED
    BY <2>2, <2>9, <2>10, <2>12
<1> HIDE DEF K
<1>7. Len(s) \in K
  BY <1>1, <1>2, <1>5, <1>6, SetInduction
<1>8. OpenedSome(m, a, t, First(l, Len(s)), r[Len(s)])
  BY <1>1, <1>2, <1>7 DEF K
<1>9. First(l, Len(s)) = Opens(t)
  BY <1>1, <1>2
<1>10. OpenedSome(m, a, t, Opens(t), OpenLoop!Fold(Done(n), s))
  BY <1>4, <1>8, <1>9
<1>11. FoldLeft(OpenNext, Done(n), s) = OpenLoop!Fold(Done(n), s)
  BY OpenLoopIs
<1> QED
  BY <1>10, <1>11

\* What an actor can be made from.
Makeable(s) ==
  /\ s.type \in DOMAIN TypeOf /\ s.arg \in Arg /\ s.in \in Seq(Tokens) /\ Len(s.in) <= QueueSize
  /\ s.out \in 0 .. QueueSize /\ s.owed \in Owed

\* The actor is there, and has no objects yet.
LEMMA AllocFacts ==
  ASSUME NEW m, NEW a, NEW s, Ground(m, a, s.type), Makeable(s), NEW n, n = cc_actor_create_from_type(m, a, s)
  PROVE  /\ Opening(m, n, a, s.type, {}) /\ n.actors[a].refs = NoActors
         /\ n.objects = m.objects /\ n \in NodeType /\ m \in NodeType
<1>0. NodeSound(m) /\ a \in Actors /\ a \notin DOMAIN m.actors
  BY DEF Ground
<1>1. m \in NodeType /\ m.fds = Cardinality(CoapObjects(m))
  BY <1>0, SoundFacts
<1>2. PICK x : x = [type |-> s.type, arg |-> s.arg, refs |-> NoActors, enabled |-> FALSE,
                    away |-> FALSE, in |-> s.in, out |-> s.out, owed |-> IF s.owed = "no" THEN "no" ELSE "lost", first |-> <<>>]
  OBVIOUS
<1>3. NoActors \in Refs /\ DOMAIN NoActors = {}
  BY EmptyFacts DEF Refs
<1>4. x \in ActorType
  <2>1. PICK w : w = IF s.owed = "no" THEN "no" ELSE "lost"
    OBVIOUS
  <2>2. w \in Owed
    BY <2>1 DEF Owed
  <2>3. x = [type |-> s.type, arg |-> s.arg, refs |-> NoActors, enabled |-> FALSE,
             away |-> FALSE, in |-> s.in, out |-> s.out, owed |-> w, first |-> <<>>]
    BY <1>2, <2>1
  <2> QED
    BY <1>3, <2>2, <2>3 DEF Makeable, ActorType
<1>5. /\ x.type = s.type /\ x.refs = NoActors /\ x.first = <<>> /\ x.in = s.in
      /\ x.owed # "yes" /\ x.away = FALSE
  BY <1>2
<1>6. PICK h : h = m.actors
  OBVIOUS
<1>7. PICK f : f = Put(h, a, x)
  OBVIOUS
<1>8. h \in Partial(Actors, ActorType)
  BY <1>1, <1>6, NodeFields
<1>9. f \in Partial(Actors, ActorType)
  BY <1>0, <1>4, <1>7, <1>8, PutFacts
<1>10. DOMAIN f = DOMAIN h \cup {a} /\ f[a] = x /\ \A b \in DOMAIN h \ {a} : f[b] = h[b]
  BY <1>7 DEF Put
<1>11. n = [m EXCEPT !.actors = f]
  BY <1>2, <1>6, <1>7 DEF cc_actor_create_from_type
<1>12. n \in NodeType /\ n.up = m.up /\ n.fds = m.fds /\ n.objects = m.objects /\ n.actors = f
  BY <1>1, <1>9, <1>11 DEF NodeType
<1>13. CoapObjects(n) = CoapObjects(m)
  BY <1>12 DEF CoapObjects
<1>14. Beside(m, n, a)
  BY <1>0, <1>1, <1>6, <1>10, <1>12, <1>13 DEF Beside
<1>15. New(m, n, a, s.type)
  BY <1>5, <1>10, <1>12, <1>14 DEF New, Makeable
<1>16. Linked(m, n, a, {}) /\ Unused(m, n)
  BY <1>3, <1>5, <1>10, <1>12 DEF Linked, Unused
<1> QED
  BY <1>1, <1>5, <1>10, <1>12, <1>15, <1>16 DEF Opening

\* The actor a has been made, beside the node m.
Made(m, k, a) == NodeSound(k) /\ Beside(m, k, a) /\ k.actors[a].away = FALSE

\* The objects of the type are all there.
LEMMA FinishedMade ==
  ASSUME NEW m, NEW a, NEW t, Ground(m, a, t), NEW n, New(m, n, a, t), Linked(m, n, a, Opens(t))
  PROVE  Made(m, n, a) /\ n.actors[a].type = t
<1>1. NodeSound(m) /\ a \notin DOMAIN m.actors
  BY DEF Ground
<1>2. NodeSound(n)
  BY <1>1, FinishedSound
<1> QED
  BY <1>2 DEF Made, New

\* The results of a write are records.
LEMMA WriteShape ==
  ASSUME NEW n, NEW a, NEW cap, NEW data, NEW w \in cc_calvinsys_write(n, a, cap, data)
  PROVE  w = [ok |-> w.ok, n |-> w.n]
<1>1. CASE Known(n, a, cap)
  <2>1. PICK v : w = [ok |-> v.ok, n |-> WithState(n, n.actors[a].refs[cap], v.st)]
    BY <1>1 DEF cc_calvinsys_write, WithState
  <2>2. PICK b : b = v.ok
    OBVIOUS
  <2>3. PICK k : k = WithState(n, n.actors[a].refs[cap], v.st)
    OBVIOUS
  <2>4. w = [ok |-> b, n |-> k]
    BY <2>1, <2>2, <2>3
  <2> QED
    BY <2>4
<1>2. CASE ~Known(n, a, cap)
  <2>1. PICK b : b = FALSE
    OBVIOUS
  <2>2. w = [ok |-> b, n |-> n]
    BY <1>2, <2>1 DEF cc_calvinsys_write, Fails
  <2> QED
    BY <2>2
<1> QED
  BY <1>1, <1>2

\* A write is a local change.
LEMMA WriteKeeps ==
  ASSUME NEW n, NodeSound(n), NEW a \in DOMAIN n.actors, host \in Hosts,
         NEW cap \in Opens(n.actors[a].type), NEW data, NEW w \in cc_calvinsys_write(n, a, cap, data),
         NEW k, k = w.n
  PROVE  Local(n, k, a) /\ k.actors = n.actors
<1>1. Local(n, n, a)
  BY LocalSame
<1>2. Local(n, w.n, a) /\ w.n.actors = n.actors
  BY <1>1, WriteLocal
<1> QED
  BY <1>2

\* A new actor writes to one of its objects.
LEMMA WriteMade ==
  ASSUME NEW m, NEW a, NEW t, Ground(m, a, t), t # "TriggeredTemperature", NEW n, Made(m, n, a), n.actors[a].type = t,
         NEW cap \in Opens(t), NEW data, NEW w \in cc_calvinsys_write(n, a, cap, data)
  PROVE  Made(m, w.n, a) /\ DOMAIN w.n.objects = DOMAIN n.objects
<1>1. NodeSound(m) /\ a \notin DOMAIN m.actors /\ host \in Hosts
  BY DEF Ground
<1>2. NodeSound(n) /\ a \in DOMAIN n.actors /\ Beside(m, n, a)
  BY DEF Made, Beside
<1>3. cap \in Opens(n.actors[a].type)
  OBVIOUS
<1>4. PICK k : k = w.n
  OBVIOUS
<1>5. Local(n, k, a) /\ k.actors = n.actors
  BY <1>1, <1>2, <1>3, <1>4, WriteKeeps
<1>6. Owes(k, a)
  BY <1>5 DEF Owes
<1>7. NodeSound(k)
  BY <1>2, <1>5, <1>6, LocalSound
<1>8. Beside(m, k, a)
  BY <1>1, <1>2, <1>5, BesideLocal
<1>9. k.actors[a].away = FALSE
  BY <1>5 DEF Made
<1>10. DOMAIN k.objects = DOMAIN n.objects
  BY <1>5 DEF Local
<1> QED
  BY <1>4, <1>7, <1>8, <1>9, <1>10 DEF Made

\* Objects that are opened for a type.
OpenList(t, a) == [k \in DOMAIN TypeOf[t].opens |-> [actor |-> a, cap |-> TypeOf[t].opens[k]]]

\* Which results init has.
LEMMA InitIs ==
  ASSUME NEW n, NEW a, NEW t, t = n.actors[a].type, NEW opened, opened = FoldLeft(OpenNext, Done(n), OpenList(t, a)),
         NEW r \in init(n, a)
  PROVE  \/ ~r.ok /\ (r.n = n \/ r.n = Dead(n))
         \/ r \in opened /\ (~r.ok \/ t \notin {"RegistryAttribute", "Coap"})
         \/ /\ t = "RegistryAttribute"
            /\ \E q \in opened : q.ok /\ r \in cc_calvinsys_write(q.n, a, "sys.attribute.indexed", "other")
         \/ /\ t = "Coap"
            /\ \E q \in opened : q.ok /\ \E w \in cc_calvinsys_write(q.n, a, "io.resource", "other") : r = [w EXCEPT !.ok = TRUE]
<1>1. CASE n.actors[a].arg = "none" /\ TypeOf[t].arg \in {"required", "assumed"}
  BY <1>1 DEF init, Fails
<1>2. CASE ~(n.actors[a].arg = "none" /\ TypeOf[t].arg \in {"required", "assumed"})
  <2>1. r \in CASE t = "RegistryAttribute" ->
                    UNION {IF q.ok THEN cc_calvinsys_write(q.n, a, "sys.attribute.indexed", "other") ELSE {q} : q \in opened}
                [] t = "Coap" ->
                    UNION {IF q.ok THEN {[w EXCEPT !.ok = TRUE] : w \in cc_calvinsys_write(q.n, a, "io.resource", "other")}
                           ELSE {q} : q \in opened}
                [] OTHER -> opened
    BY <1>2 DEF init, OpenList
  <2>2. CASE t = "RegistryAttribute"
    BY <2>1, <2>2
  <2>3. CASE t = "Coap"
    BY <2>1, <2>3
  <2>4. CASE t \notin {"RegistryAttribute", "Coap"}
    BY <2>1, <2>4
  <2> QED
    BY <2>2, <2>3, <2>4
<1> QED
  BY <1>1, <1>2

\* init makes the actor or fails; it may have ended the process then.
LEMMA InitSound ==
  ASSUME NEW m, NEW a, NEW t, Ground(m, a, t), NEW n, Opening(m, n, a, t, {}), NEW r \in init(n, a)
  PROVE  /\ r.ok => Made(m, r.n, a) /\ Unused(m, r.n)
         /\ ~r.ok => Beside(m, r.n, a) \/ r.n = NoProcess
<1>1. t = n.actors[a].type /\ Beside(m, n, a)
  BY DEF Opening, New
<1>2. PICK opened : opened = FoldLeft(OpenNext, Done(n), OpenList(t, a))
  OBVIOUS
<1>3. OpenedSome(m, a, t, Opens(t), opened)
  BY <1>2, OpenAllSound DEF OpenList
<1>4. ASSUME NEW q \in opened, q.ok
      PROVE  Made(m, q.n, a) /\ q.n.actors[a].type = t /\ Unused(m, q.n)
  <2>1. Opening(m, q.n, a, t, Opens(t))
    BY <1>3, <1>4 DEF OpenedSome
  <2> QED
    BY <2>1, FinishedMade DEF Opening
<1>5. CASE ~r.ok /\ (r.n = n \/ r.n = Dead(n))
  <2>1. n \in NodeType
    BY <1>1 DEF Beside
  <2> QED
    BY <1>1, <1>5, <2>1, DeadSame
<1>6. CASE r \in opened
  <2>1. ~r.ok => Beside(m, r.n, a) \/ r.n = NoProcess
    BY <1>3, <1>6 DEF OpenedSome
  <2> QED
    BY <1>4, <1>6, <2>1
<1>7. ASSUME NEW q \in opened, q.ok, NEW cap \in Opens(t), t # "TriggeredTemperature",
             NEW w \in cc_calvinsys_write(q.n, a, cap, "other")
      PROVE  Made(m, w.n, a) /\ Unused(m, w.n) /\ Beside(m, w.n, a)
  <2>1. PICK k : k = q.n
    OBVIOUS
  <2>2. Made(m, k, a) /\ k.actors[a].type = t /\ Unused(m, k)
    BY <1>4, <1>7, <2>1
  <2>3. Made(m, w.n, a) /\ DOMAIN w.n.objects = DOMAIN k.objects
    BY <1>7, <2>1, <2>2, WriteMade
  <2>4. Unused(m, w.n)
    BY <2>2, <2>3 DEF Unused
  <2> QED
    BY <2>3, <2>4 DEF Made
<1>8. CASE t = "RegistryAttribute" /\ \E q \in opened : q.ok /\ r \in cc_calvinsys_write(q.n, a, "sys.attribute.indexed", "other")
  <2>1. "sys.attribute.indexed" \in Opens(t)
    BY <1>8, OpensFacts
  <2> QED
    BY <1>7, <1>8, <2>1
<1>9. CASE t = "Coap" /\ \E q \in opened : q.ok /\ \E w \in cc_calvinsys_write(q.n, a, "io.resource", "other") : r = [w EXCEPT !.ok = TRUE]
  <2>1. "io.resource" \in Opens(t)
    BY <1>9, OpensFacts
  <2>2. PICK q \in opened : q.ok /\ \E w \in cc_calvinsys_write(q.n, a, "io.resource", "other") : r = [w EXCEPT !.ok = TRUE]
    BY <1>9
  <2>3. PICK w \in cc_calvinsys_write(q.n, a, "io.resource", "other") : r = [w EXCEPT !.ok = TRUE]
    BY <2>2
  <2>4. w = [ok |-> w.ok, n |-> w.n]
    BY <2>3, WriteShape
  <2>5. r.n = w.n
    BY <2>3, <2>4
  <2>6. Made(m, w.n, a) /\ Unused(m, w.n) /\ Beside(m, w.n, a)
    BY <1>7, <1>9, <2>1, <2>2, <2>3
  <2> QED
    BY <2>5, <2>6
<1> QED
  BY <1>1, <1>2, <1>5, <1>6, <1>8, <1>9, InitIs

(***************************************************************************)
(* Restoring an actor.                                                      *)
(***************************************************************************)
\* What a serialised actor holds.
LEMMA SerialFacts ==
  ASSUME NEW s, SerialSound(s)
  PROVE  /\ s.type \in DOMAIN TypeOf /\ s.arg \in {"none", "set", "zero", "other", "malformed"}
         /\ s.refs \in Refs /\ s.objs \in Objs /\ s.in \in Seq(Tokens) /\ Len(s.in) <= QueueSize
         /\ s.out \in 0 .. QueueSize /\ s.owed \in Owed /\ DOMAIN s.refs = Opens(s.type)
         /\ DOMAIN s.objs \subseteq Ids /\ IsFiniteSet(DOMAIN s.objs)
         /\ \A c \in DOMAIN s.refs : s.refs[c] \in DOMAIN s.objs /\ s.objs[s.refs[c]].cap = c
         /\ \A i \in DOMAIN s.objs :
              /\ s.objs[i].st \in State /\ s.objs[i].cap \in Opens(s.type) /\ s.refs[s.objs[i].cap] = i
<1>1. /\ s.type \in DOMAIN TypeOf /\ s.arg \in {"none", "set", "zero", "other", "malformed"}
      /\ s.refs \in Refs /\ s.objs \in Objs /\ s.in \in Seq(Tokens) /\ Len(s.in) <= QueueSize
      /\ s.out \in 0 .. QueueSize /\ s.owed \in Owed /\ DOMAIN s.refs = Opens(s.type)
  BY DEF SerialSound, SerialType
<1>2. PICK f : f = s.objs
  OBVIOUS
<1>3. f \in Partial(Ids, [cap : Caps, st : State])
  BY <1>1, <1>2 DEF Objs
<1>4. DOMAIN f \subseteq Ids /\ \A i \in DOMAIN f : f[i] \in [cap : Caps, st : State]
  <2>1. PICK R : R = [cap : Caps, st : State]
    OBVIOUS
  <2>2. f \in Partial(Ids, R)
    BY <1>3, <2>1
  <2>3. DOMAIN f \subseteq Ids /\ \A i \in DOMAIN f : f[i] \in R
    BY <2>2, PartialFacts
  <2> QED
    BY <2>1, <2>3
<1>5. PICK N : N = 6 * Cardinality(Actors) + 1
  OBVIOUS
<1>6. N \in Nat
  BY <1>5, FS_CardinalityType, DevicesAssumption
<1>7. IsFiniteSet(Ids)
  BY <1>5, <1>6, CountTo DEF Ids
<1>8. IsFiniteSet(DOMAIN f)
  BY <1>4, <1>7, FS_Subset
<1>9. DOMAIN f = {s.refs[c] : c \in DOMAIN s.refs} /\ \A c \in DOMAIN s.refs : f[s.refs[c]].cap = c
  BY <1>2 DEF SerialSound, Covers
<1>10. \A i \in DOMAIN f : f[i].st \in State /\ f[i].cap \in Opens(s.type) /\ s.refs[f[i].cap] = i
  BY <1>1, <1>4, <1>9
<1>11. \A c \in DOMAIN s.refs : s.refs[c] \in DOMAIN f /\ f[s.refs[c]].cap = c
  BY <1>9
<1> QED
  BY <1>1, <1>2, <1>4, <1>8, <1>10, <1>11

\* The objects with ids in I are restored.
Restoring(m, n, a, s, I) ==
  /\ New(m, n, a, s.type) /\ DOMAIN n.objects = DOMAIN m.objects \cup I
  /\ \A i \in I : n.objects[i].cap = s.objs[i].cap

\* id is the next object to restore after those in I.
NextId(s, I, id, J) == I \subseteq DOMAIN s.objs /\ id \in DOMAIN s.objs \ I /\ J = I \cup {id}

\* What is taken for granted: the ids are not in use.
RestoreGround(m, a, s) ==
  Ground(m, a, s.type) /\ SerialSound(s) /\ \A i \in DOMAIN s.objs : i \notin DOMAIN m.objects

\* The results of restoring an object.
LEMMA RestoredIs ==
  ASSUME NEW n, NEW o, NEW r \in Restored(n, o)
  PROVE  \/ ~r.ok /\ r.n = n
         \/ \E st \in deserialize(n, Device(o.cap), o.st) :
              Restores(Device(o.cap)) /\ r.ok /\ r.n = AddObject(n, o.id, o.cap, o.actor, st)
<1>1. CASE Restores(Device(o.cap))
  BY <1>1 DEF Restored, Fails
<1>2. CASE ~Restores(Device(o.cap))
  BY <1>2 DEF Restored, Fails
<1> QED
  BY <1>1, <1>2

\* One more object is restored, or that failed and changed nothing.
LEMMA RestoreSound ==
  ASSUME NEW m, NEW a, NEW s, RestoreGround(m, a, s), NEW I, NEW id, NEW J, NextId(s, I, id, J),
         NEW n, Restoring(m, n, a, s, I),
         NEW o, o = [id |-> id, cap |-> s.objs[id].cap, actor |-> a, st |-> s.objs[id].st],
         NEW r \in Restored(n, o)
  PROVE  /\ r.ok => Restoring(m, r.n, a, s, J)
         /\ ~r.ok => r.n = n
<1>0. /\ a \in Actors /\ host \in Hosts /\ SerialSound(s) /\ id \in DOMAIN s.objs /\ id \notin I
      /\ id \notin DOMAIN m.objects /\ J = I \cup {id}
  BY DEF RestoreGround, Ground, NextId
<1>1. CASE ~r.ok /\ r.n = n
  BY <1>1
<1>2. CASE r.ok
  <2>1. PICK cap : cap = s.objs[id].cap
    OBVIOUS
  <2>2. PICK old : old = s.objs[id].st
    OBVIOUS
  <2>3. PICK t : t = s.type
    OBVIOUS
  <2>4. t \in DOMAIN TypeOf /\ cap \in Opens(t) /\ old \in State /\ id \in Ids
    BY <1>0, <2>1, <2>2, <2>3, SerialFacts
  <2>5. o.id = id /\ o.cap = cap /\ o.actor = a /\ o.st = old
    BY <2>1, <2>2
  <2>6. PICK st \in deserialize(n, Device(cap), old) :
          Restores(Device(cap)) /\ r.n = AddObject(n, id, cap, a, st)
    BY <1>2, <2>5, RestoredIs
  <2>7. /\ st \in State /\ Device(cap) # "none" /\ (Device(cap) \in Thermometers => st = Idle)
        /\ Device(cap) = "coap" => n.fds < MaxFds
    BY <2>4, <2>6, RestoredFacts
  <2>8. PICK k : k = r.n
    OBVIOUS
  <2>9. New(m, n, a, t) /\ id \in Ids \ DOMAIN n.objects /\ k = AddObject(n, id, cap, a, st)
    BY <1>0, <2>3, <2>4, <2>6, <2>8 DEF Restoring
  <2>10. /\ New(m, k, a, t) /\ k.actors = n.actors /\ DOMAIN k.objects = DOMAIN n.objects \cup {id}
         /\ k.objects[id].cap = cap /\ id \notin DOMAIN m.objects
         /\ \A i \in DOMAIN n.objects : k.objects[i] = n.objects[i]
    BY <1>0, <2>4, <2>7, <2>9, AddBeside
  <2>11. Restoring(m, k, a, s, J)
    BY <1>0, <2>1, <2>3, <2>10 DEF Restoring
  <2> QED
    BY <1>2, <2>8, <2>11
<1> QED
  BY <1>1, <1>2, RestoredIs

RestoreLoop == INSTANCE Folding WITH Op <- RestoreNext

\* The loop that restores the objects is a fold of the module Folding.
LEMMA RestoreLoopIs ==
  ASSUME NEW b, NEW s
  PROVE  FoldLeft(RestoreNext, b, s) = RestoreLoop!Fold(b, s)
BY DEF RestoreLoop!Fold, RestoreLoop!FoldLeft, RestoreLoop!MapThenFoldSet, RestoreLoop!Max,
       FoldLeft, MapThenFoldSet, Max

\* The results of restoring the first objects of a list.
RestoredSome(m, a, s, I, results) ==
  \A r \in results : /\ r.ok => Restoring(m, r.n, a, s, I)
                     /\ ~r.ok => Beside(m, r.n, a)

\* One pass of that loop.
LEMMA RestoreNextSound ==
  ASSUME NEW m, NEW a, NEW s, RestoreGround(m, a, s), NEW I, NEW id, NEW J, NextId(s, I, id, J),
         NEW results, RestoredSome(m, a, s, I, results),
         NEW o, o = [id |-> id, cap |-> s.objs[id].cap, actor |-> a, st |-> s.objs[id].st]
  PROVE  RestoredSome(m, a, s, J, RestoreNext(results, o))
<1> SUFFICES ASSUME NEW r \in RestoreNext(results, o)
             PROVE  /\ r.ok => Restoring(m, r.n, a, s, J)
                    /\ ~r.ok => Beside(m, r.n, a)
  BY DEF RestoredSome
<1>1. PICK q \in results : r \in IF q.ok THEN Restored(q.n, o) ELSE {q}
  BY DEF RestoreNext
<1>2. CASE ~q.ok
  BY <1>1, <1>2 DEF RestoredSome
<1>3. CASE q.ok
  <2>1. PICK n : n = q.n
    OBVIOUS
  <2>2. Restoring(m, n, a, s, I) /\ r \in Restored(n, o)
    BY <1>1, <1>3, <2>1 DEF RestoredSome
  <2>3. /\ r.ok => Restoring(m, r.n, a, s, J)
        /\ ~r.ok => r.n = n
    BY <2>2, RestoreSound
  <2>4. Beside(m, n, a)
    BY <2>2 DEF Restoring, New
  <2> QED
    BY <2>3, <2>4
<1> QED
  BY <1>2, <1>3

\* The loop restores what was written.
LEMMA RestoreAllSound ==
  ASSUME NEW m, NEW a, NEW s, RestoreGround(m, a, s), NEW n, Restoring(m, n, a, s, {})
  PROVE  RestoredSome(m, a, s, DOMAIN s.objs, cc_calvinsys_deserialize(n, a, s.objs))
<1>0. IsFiniteSet(DOMAIN s.objs)
  BY SerialFacts DEF RestoreGround
<1>1. PICK S : S = DOMAIN s.objs
  OBVIOUS
<1>2. PICK l : l = SetToSeq(S)
  OBVIOUS
<1>3. /\ l \in Seq(S) /\ DOMAIN l = 1 .. Len(l) /\ Len(l) \in Nat
      /\ \A x \in S : \E k \in DOMAIN l : l[k] = x
      /\ \A j, k \in DOMAIN l : l[j] = l[k] => j = k
  BY <1>0, <1>1, <1>2, SetToSeqFacts
<1>4. PICK z : z = [k \in DOMAIN l |-> [id |-> l[k], cap |-> s.objs[l[k]].cap, actor |-> a, st |-> s.objs[l[k]].st]]
  OBVIOUS
<1>5. cc_calvinsys_deserialize(n, a, s.objs) = FoldLeft(RestoreNext, Done(n), z)
  BY <1>1, <1>2, <1>4 DEF cc_calvinsys_deserialize
<1>6. z \in Seq({z[k] : k \in DOMAIN l}) /\ Len(z) = Len(l)
  BY <1>3, <1>4
<1>7. RestoreLoop!Steps(Done(n), z)
  BY <1>6, RestoreLoop!FoldSteps
<1>8. PICK r : /\ r[0] = Done(n) /\ r[Len(z)] = RestoreLoop!Fold(Done(n), z)
               /\ \A k \in 1 .. Len(z) : r[k] = RestoreNext(r[k - 1], z[k])
  BY <1>7 DEF RestoreLoop!Steps
<1> DEFINE K == {k \in Nat : k <= Len(z) => RestoredSome(m, a, s, First(l, k), r[k])}
<1>9. 0 \in K
  <2>1. First(l, 0) = {}
    BY DEF First
  <2>2. Beside(m, n, a)
    BY DEF Restoring, New
  <2>3. RestoredSome(m, a, s, {}, Done(n))
    BY <2>2 DEF RestoredSome, Done
  <2> QED
    BY <1>8, <2>1, <2>3
<1>10. ASSUME NEW k \in Nat, k \in K PROVE k + 1 \in K
  <2> SUFFICES ASSUME k + 1 <= Len(z) PROVE RestoredSome(m, a, s, First(l, k + 1), r[k + 1])
    OBVIOUS
  <2>1. k + 1 \in 1 .. Len(z) /\ (k + 1) - 1 = k /\ RestoredSome(m, a, s, First(l, k), r[k])
    BY <1>3, <1>6, <1>10
  <2>2. r[k + 1] = RestoreNext(r[k], z[k + 1])
    BY <1>8, <2>1
  <2>3. PICK id : id = l[k + 1]
    OBVIOUS
  <2>4. PICK o : o = z[k + 1]
    OBVIOUS
  <2>5. o = [id |-> id, cap |-> s.objs[id].cap, actor |-> a, st |-> s.objs[id].st]
    BY <1>3, <1>4, <1>6, <2>1, <2>3, <2>4
  <2>6. id \in S /\ First(l, k) \subseteq S
    <3>1. \A j \in 1 .. k + 1 : j \in DOMAIN l
      BY <1>3, <1>6, <2>1
    <3>2. \A j \in DOMAIN l : l[j] \in S
      BY <1>3
    <3> QED
      BY <2>1, <2>3, <3>1, <3>2 DEF First
  <2>7. id \notin First(l, k)
    <3>1. ASSUME NEW j \in 1 .. k PROVE l[j] # id
      <4>1. j \in DOMAIN l /\ k + 1 \in DOMAIN l /\ j # k + 1
        BY <1>3, <1>6, <2>1
      <4> QED
        BY <1>3, <2>3, <4>1
    <3> QED
      BY <3>1 DEF First
  <2>8. First(l, k + 1) = First(l, k) \cup {id}
    BY <2>3 DEF First
  <2>9. PICK I : I = First(l, k)
    OBVIOUS
  <2>10. PICK J : J = First(l, k + 1)
    OBVIOUS
  <2>11. RestoredSome(m, a, s, I, r[k]) /\ NextId(s, I, id, J)
    BY <1>1, <2>1, <2>6, <2>7, <2>8, <2>9, <2>10 DEF NextId
  <2>12. RestoredSome(m, a, s, J, RestoreNext(r[k], o))
    BY <2>5, <2>11, RestoreNextSound
  <2> QED
    BY <2>2, <2>4, <2>10, <2>12
<1> HIDE DEF K
<1>11. Len(z) \in K
  BY <1>3, <1>6, <1>9, <1>10, SetInduction
<1>12. RestoredSome(m, a, s, First(l, Len(z)), r[Len(z)])
  BY <1>3, <1>6, <1>11 DEF K
<1>13. First(l, Len(z)) = DOMAIN s.objs
  BY <1>1, <1>3, <1>6 DEF First
<1>14. RestoredSome(m, a, s, DOMAIN s.objs, RestoreLoop!Fold(Done(n), z))
  BY <1>8, <1>12, <1>13
<1>15. FoldLeft(RestoreNext, Done(n), z) = RestoreLoop!Fold(Done(n), z)
  BY RestoreLoopIs
<1> QED
  BY <1>5, <1>14, <1>15

WithRefs(n, a, f) == [n EXCEPT !.actors[a].refs = f]

\* The actor gets the references it had.
LEMMA RefsFacts ==
  ASSUME NEW n \in NodeType, NEW a \in DOMAIN n.actors, NEW f \in Refs, NEW k, k = WithRefs(n, a, f)
  PROVE  /\ k \in NodeType /\ k.up = n.up /\ k.fds = n.fds /\ k.objects = n.objects
         /\ DOMAIN k.actors = DOMAIN n.actors
         /\ \A b \in DOMAIN n.actors \ {a} : k.actors[b] = n.actors[b]
         /\ k.actors[a].type = n.actors[a].type /\ k.actors[a].first = n.actors[a].first
         /\ k.actors[a].in = n.actors[a].in /\ k.actors[a].owed = n.actors[a].owed
         /\ k.actors[a].away = n.actors[a].away /\ k.actors[a].refs = f
<1>1. PICK y : y = n.actors[a]
  OBVIOUS
<1>2. y \in ActorType
  BY <1>1, NodeFields
<1>3. PICK x : x = [y EXCEPT !.refs = f]
  OBVIOUS
<1>4. /\ x \in ActorType /\ x.refs = f /\ x.type = y.type /\ x.first = y.first
      /\ x.in = y.in /\ x.owed = y.owed /\ x.away = y.away
  BY <1>2, <1>3 DEF ActorType
<1>5. k = WithActor(n, a, x)
  BY <1>1, <1>3 DEF WithRefs, WithActor
<1>6. /\ k \in NodeType /\ k.up = n.up /\ k.fds = n.fds /\ k.objects = n.objects
      /\ DOMAIN k.actors = DOMAIN n.actors /\ k.actors[a] = x
      /\ \A b \in DOMAIN n.actors \ {a} : k.actors[b] = n.actors[b]
  BY <1>4, <1>5, WithActorFacts
<1> QED
  BY <1>1, <1>4, <1>6

\* With its objects restored and its references back the actor is made.
LEMMA RefsMade ==
  ASSUME NEW m, NEW a, NEW s, RestoreGround(m, a, s), NEW n, Restoring(m, n, a, s, DOMAIN s.objs),
         NEW k, k = WithRefs(n, a, s.refs)
  PROVE  /\ Made(m, k, a) /\ k.actors[a].type = s.type
         /\ DOMAIN k.objects = DOMAIN m.objects \cup DOMAIN s.objs
<1>1. Ground(m, a, s.type) /\ a \notin DOMAIN m.actors /\ \A i \in DOMAIN s.objs : i \notin DOMAIN m.objects
  BY DEF RestoreGround, Ground
<1>2. /\ s.refs \in Refs /\ DOMAIN s.refs = Opens(s.type)
      /\ \A c \in DOMAIN s.refs : s.refs[c] \in DOMAIN s.objs /\ s.objs[s.refs[c]].cap = c
      /\ \A i \in DOMAIN s.objs : s.objs[i].cap \in Opens(s.type) /\ s.refs[s.objs[i].cap] = i
  BY SerialFacts DEF RestoreGround
<1>3. Beside(m, n, a) /\ New(m, n, a, s.type)
  BY DEF Restoring, New
<1>4. n \in NodeType /\ a \in DOMAIN n.actors /\ \A b \in DOMAIN m.actors : b \in DOMAIN n.actors \ {a}
  BY <1>1, <1>3 DEF Beside
<1>5. PICK f : f = s.refs
  OBVIOUS
<1>6. /\ k \in NodeType /\ k.up = n.up /\ k.fds = n.fds /\ k.objects = n.objects
      /\ DOMAIN k.actors = DOMAIN n.actors
      /\ \A b \in DOMAIN n.actors \ {a} : k.actors[b] = n.actors[b]
      /\ k.actors[a].type = n.actors[a].type /\ k.actors[a].first = n.actors[a].first
      /\ k.actors[a].in = n.actors[a].in /\ k.actors[a].owed = n.actors[a].owed
      /\ k.actors[a].away = n.actors[a].away /\ k.actors[a].refs = f
  BY <1>2, <1>4, <1>5, RefsFacts
<1>7. CoapObjects(k) = CoapObjects(n)
  BY <1>6 DEF CoapObjects
<1>8. Beside(m, k, a)
  BY <1>3, <1>4, <1>6, <1>7 DEF Beside
<1>9. New(m, k, a, s.type)
  BY <1>3, <1>6, <1>8 DEF New
<1>10. /\ DOMAIN k.objects = DOMAIN m.objects \cup DOMAIN s.objs
       /\ \A i \in DOMAIN s.objs : k.objects[i].cap = s.objs[i].cap
  BY <1>6 DEF Restoring
<1>11. Linked(m, k, a, Opens(s.type))
  <2>1. ASSUME NEW c \in Opens(s.type)
        PROVE  k.actors[a].refs[c] \in DOMAIN k.objects \ DOMAIN m.objects /\ k.objects[k.actors[a].refs[c]].cap = c
    BY <1>1, <1>2, <1>5, <1>6, <1>10
  <2>2. ASSUME NEW i \in DOMAIN k.objects \ DOMAIN m.objects
        PROVE  k.objects[i].cap \in Opens(s.type) /\ k.actors[a].refs[k.objects[i].cap] = i
    BY <1>2, <1>5, <1>6, <1>10
  <2> QED
    BY <1>2, <1>5, <1>6, <2>1, <2>2 DEF Linked
<1> QED
  BY <1>1, <1>9, <1>10, <1>11, FinishedMade

\* set_state makes the actor or fails.
LEMMA SetStateSound ==
  ASSUME NEW m, NEW a, NEW s, RestoreGround(m, a, s), NEW n, Restoring(m, n, a, s, DOMAIN s.objs),
         NEW r \in set_state(n, a, s)
  PROVE  /\ r.ok => Made(m, r.n, a) /\ DOMAIN r.n.objects = DOMAIN m.objects \cup DOMAIN s.objs
         /\ ~r.ok => Beside(m, r.n, a)
<1>1. PICK k : k = WithRefs(n, a, s.refs)
  OBVIOUS
<1>2. /\ Made(m, k, a) /\ k.actors[a].type = s.type
      /\ DOMAIN k.objects = DOMAIN m.objects \cup DOMAIN s.objs
  BY <1>1, RefsMade
<1>3. \/ r \in Fails(n) \/ r \in Done(k)
      \/ s.type = "Coap" /\ r \in cc_calvinsys_write(k, a, "io.resource", "other")
  BY <1>1 DEF set_state, WithRefs
<1>4. CASE r \in Fails(n)
  BY <1>4 DEF Fails, Restoring, New
<1>5. CASE r \in Done(k)
  BY <1>2, <1>5 DEF Done
<1>6. CASE s.type = "Coap" /\ r \in cc_calvinsys_write(k, a, "io.resource", "other")
  <2>1. PICK t : t = s.type
    OBVIOUS
  <2>2. Ground(m, a, t) /\ t # "TriggeredTemperature" /\ k.actors[a].type = t
    BY <1>2, <1>6, <2>1 DEF RestoreGround
  <2>3. "io.resource" \in Opens(t)
    BY <1>6, <2>1, OpensFacts
  <2>4. Made(m, r.n, a) /\ DOMAIN r.n.objects = DOMAIN k.objects
    BY <1>2, <1>6, <2>2, <2>3, WriteMade
  <2> QED
    BY <1>2, <2>4 DEF Made
<1> QED
  BY <1>3, <1>4, <1>5, <1>6

\* What becomes of an actor that is allocated.
MadeFrom(n, a, s, shadow) ==
  IF shadow THEN init(cc_actor_create_from_type(n, a, s), a)
  ELSE UNION {IF r.ok THEN set_state(r.n, a, s) ELSE {r} :
                r \in cc_calvinsys_deserialize(cc_actor_create_from_type(n, a, s), a, s.objs)}

\* Nothing is done, the actor is made, or what was made of it is freed.
CreateResult(n, a, s, made, r) ==
  \/ ~r.ok /\ r.n = n
  \/ cc_actor_get_attributes(s) /\ r.ok /\ r \in made
  \/ /\ cc_actor_get_attributes(s) /\ ~r.ok
     /\ \E q \in made : r.n = IF q.n.up THEN cc_actor_free(q.n, a) ELSE q.n

\* These are the results of cc_actor_create.
LEMMA CreateIs ==
  ASSUME NEW n, NEW a, NEW s, NEW shadow, NEW connected, NEW made, made = MadeFrom(n, a, s, shadow),
         NEW r \in cc_actor_create(n, a, s, shadow, connected)
  PROVE  CreateResult(n, a, s, made, r)
<1> SUFFICES \/ ~r.ok /\ r.n = n
             \/ cc_actor_get_attributes(s) /\ r.ok /\ r \in made
             \/ /\ cc_actor_get_attributes(s) /\ ~r.ok
                /\ \E q \in made : r.n = IF q.n.up THEN cc_actor_free(q.n, a) ELSE q.n
  BY DEF CreateResult
<1>1. CASE s.type \notin cc_actor_store_init \/ ~cc_actor_get_attributes(s)
  BY <1>1 DEF cc_actor_create, Fails
<1>2. CASE ~(s.type \notin cc_actor_store_init \/ ~cc_actor_get_attributes(s))
  <2>1. r \in {q \in made : q.ok} \cup {[ok |-> FALSE, n |-> IF q.n.up THEN cc_actor_free(q.n, a) ELSE q.n] :
                                          q \in {x \in made : ~x.ok \/ connected}}
    BY <1>2 DEF cc_actor_create, MadeFrom
  <2> QED
    BY <1>2, <2>1
<1> QED
  BY <1>1, <1>2

\* Freeing what could not be made leaves the node as it was, unless the process ended.
LEMMA UndoneIs ==
  ASSUME NEW m, NEW a, NEW t, Ground(m, a, t), m.up,
         NEW k, Beside(m, k, a) \/ k = NoProcess,
         NEW z, z = IF k.up THEN cc_actor_free(k, a) ELSE k
  PROVE  z = m \/ z = Dead(m)
<1>1. NodeSound(m) /\ a \notin DOMAIN m.actors
  BY DEF Ground
<1>2. m \in NodeType
  BY <1>1, SoundFacts
<1>3. CASE Beside(m, k, a)
  <2>1. k.up
    BY <1>3 DEF Beside
  <2> QED
    BY <1>1, <1>3, <2>1, FreeUndoes
<1>4. CASE k = NoProcess
  <2>1. k = NoProcess /\ k = Dead(m)
    BY <1>2, <1>4, DeadSame
  <2>2. ~k.up
    BY <2>1 DEF NoProcess
  <2> QED
    BY <2>1, <2>2
<1> QED
  BY <1>3, <1>4

\* A shadow is made, or nothing has changed, or the process ended.
LEMMA ShadowSound ==
  ASSUME NEW m, NEW a, NEW s, Ground(m, a, s.type), Makeable(s), m.up, NEW connected,
         NEW r \in cc_actor_create(m, a, s, TRUE, connected)
  PROVE  \/ ~r.ok /\ (r.n = m \/ r.n = Dead(m))
         \/ r.ok /\ Made(m, r.n, a) /\ Unused(m, r.n)
<1>1. PICK n : n = cc_actor_create_from_type(m, a, s)
  OBVIOUS
<1>2. PICK t : t = s.type
  OBVIOUS
<1>3. Opening(m, n, a, t, {}) /\ n \in NodeType /\ Ground(m, a, t)
  BY <1>1, <1>2, AllocFacts
<1>4. PICK made : made = init(n, a)
  OBVIOUS
<1>5. ASSUME NEW q \in made
      PROVE  /\ q.ok => Made(m, q.n, a) /\ Unused(m, q.n)
             /\ ~q.ok => Beside(m, q.n, a) \/ q.n = NoProcess
  BY <1>3, <1>4, InitSound
<1>6. \/ ~r.ok /\ r.n = m
      \/ r.ok /\ r \in made
      \/ ~r.ok /\ \E q \in made : r.n = IF q.n.up THEN cc_actor_free(q.n, a) ELSE q.n
  <2>1. PICK b : b = TRUE
    OBVIOUS
  <2>2. made = MadeFrom(m, a, s, b) /\ r \in cc_actor_create(m, a, s, b, connected)
    BY <2>1, <1>1, <1>4 DEF MadeFrom
  <2>3. CreateResult(m, a, s, made, r)
    BY <2>2, CreateIs
  <2> QED
    BY <2>3 DEF CreateResult
<1>7. CASE ~r.ok /\ \E q \in made : r.n = IF q.n.up THEN cc_actor_free(q.n, a) ELSE q.n
  <2>1. PICK q \in made : r.n = IF q.n.up THEN cc_actor_free(q.n, a) ELSE q.n
    BY <1>7
  <2>2. PICK k : k = q.n
    OBVIOUS
  <2>3. PICK z : z = r.n
    OBVIOUS
  <2>4. Beside(m, k, a) \/ k = NoProcess
    BY <1>5, <2>2 DEF Made
  <2>5. z = IF k.up THEN cc_actor_free(k, a) ELSE k
    BY <2>1, <2>2, <2>3
  <2>6. z = m \/ z = Dead(m)
    BY <1>3, <2>4, <2>5, UndoneIs
  <2> QED
    BY <1>7, <2>3, <2>6
<1>8. CASE r.ok /\ r \in made
  BY <1>5, <1>8
<1> QED
  BY <1>6, <1>7, <1>8

\* An actor is restored, or nothing has changed.
LEMMA RestoredSound ==
  ASSUME NEW m, NEW a, NEW s, RestoreGround(m, a, s), m.up, NEW connected,
         NEW r \in cc_actor_create(m, a, s, FALSE, connected)
  PROVE  \/ ~r.ok /\ r.n = m
         \/ r.ok /\ Made(m, r.n, a) /\ DOMAIN r.n.objects = DOMAIN m.objects \cup DOMAIN s.objs
<1>1. PICK n : n = cc_actor_create_from_type(m, a, s)
  OBVIOUS
<1>2. PICK all : all = cc_calvinsys_deserialize(n, a, s.objs)
  OBVIOUS
<1>3. PICK made : made = UNION {IF q.ok THEN set_state(q.n, a, s) ELSE {q} : q \in all}
  OBVIOUS
<1>4. \/ ~r.ok /\ r.n = m
      \/ cc_actor_get_attributes(s) /\ r.ok /\ r \in made
      \/ /\ cc_actor_get_attributes(s) /\ ~r.ok
         /\ \E q \in made : r.n = IF q.n.up THEN cc_actor_free(q.n, a) ELSE q.n
  <2>1. PICK b : b = FALSE
    OBVIOUS
  <2>2. made = MadeFrom(m, a, s, b) /\ r \in cc_actor_create(m, a, s, b, connected)
    BY <2>1, <1>1, <1>2, <1>3 DEF MadeFrom
  <2>3. CreateResult(m, a, s, made, r)
    BY <2>2, CreateIs
  <2> QED
    BY <2>3 DEF CreateResult
<1>5. ASSUME cc_actor_get_attributes(s), NEW q \in made
      PROVE  /\ q.ok => Made(m, q.n, a) /\ DOMAIN q.n.objects = DOMAIN m.objects \cup DOMAIN s.objs
             /\ ~q.ok => Beside(m, q.n, a)
  <2>1. Makeable(s) /\ Ground(m, a, s.type)
    BY <1>5, SerialFacts DEF RestoreGround, Makeable, cc_actor_get_attributes, Arg
  <2>2. Opening(m, n, a, s.type, {}) /\ n.objects = m.objects
    BY <1>1, <2>1, AllocFacts
  <2>3. Restoring(m, n, a, s, {})
    BY <2>2 DEF Opening, Restoring
  <2>4. RestoredSome(m, a, s, DOMAIN s.objs, all)
    BY <1>2, <2>3, RestoreAllSound
  <2>5. PICK p \in all : q \in IF p.ok THEN set_state(p.n, a, s) ELSE {p}
    BY <1>3
  <2>6. CASE ~p.ok
    BY <2>4, <2>5, <2>6 DEF RestoredSome
  <2>7. CASE p.ok
    <3>1. PICK k : k = p.n
      OBVIOUS
    <3>2. Restoring(m, k, a, s, DOMAIN s.objs) /\ q \in set_state(k, a, s)
      BY <2>4, <2>5, <2>7, <3>1 DEF RestoredSome
    <3> QED
      BY <3>2, SetStateSound
  <2> QED
    BY <2>6, <2>7
<1>6. CASE cc_actor_get_attributes(s) /\ ~r.ok /\ \E q \in made : r.n = IF q.n.up THEN cc_actor_free(q.n, a) ELSE q.n
  <2>1. PICK q \in made : r.n = IF q.n.up THEN cc_actor_free(q.n, a) ELSE q.n
    BY <1>6
  <2>2. PICK k : k = q.n
    OBVIOUS
  <2>3. Beside(m, k, a)
    BY <1>5, <1>6, <2>2 DEF Made
  <2>4. NodeSound(m) /\ a \notin DOMAIN m.actors
    BY DEF RestoreGround, Ground
  <2>5. k.up
    BY <2>3 DEF Beside
  <2>6. r.n = cc_actor_free(k, a)
    BY <2>1, <2>2, <2>5
  <2>7. r.n = m
    BY <2>3, <2>4, <2>6, FreeUndoes
  <2> QED
    BY <1>6, <2>7
<1>7. CASE cc_actor_get_attributes(s) /\ r.ok /\ r \in made
  BY <1>5, <1>7
<1> QED
  BY <1>4, <1>6, <1>7

(***************************************************************************)
(* The invariant, for a node n, what is stored (f) and what the other       *)
(* runtime has (g).                                                         *)
(***************************************************************************)
AllSound(n, f, g) ==
  /\ NodeSound(n) /\ AllSerialSound(f) /\ AllSerialSound(g)
  /\ Apart(f, f) /\ Apart(g, g) /\ Apart(f, g) /\ ApartFrom(n, f) /\ ApartFrom(n, g)
  /\ ~n.up => DOMAIN n.actors = {} /\ DOMAIN n.objects = {}
  /\ \A a \in DOMAIN n.actors : n.actors[a].away => a \in DOMAIN g

\* A node that is sound stays so while the platform is the same.
LEMMA SoundNext ==
  ASSUME host' = host, NEW k, k = node', NodeSound(k)
  PROVE  NodeSound(node)'
<1>1. CoapObjects(node)' = CoapObjects(k)
  BY DEF CoapObjects, Device, cc_calvinsys_add_capabilities, cc_calvinsys_create_capability
<1>2. ASSUME NEW a \in DOMAIN k.actors PROVE ActorSound(node, a)'
  BY DEF NodeSound, ActorSound, Known, Object
<1>3. ASSUME NEW i \in DOMAIN k.objects PROVE ObjectSound(node, i)'
  <2>1. ObjectSound(k, i)
    BY DEF NodeSound
  <2> QED
    BY <2>1 DEF ObjectSound, Device, cc_calvinsys_add_capabilities, cc_calvinsys_create_capability
<1> QED
  BY <1>1, <1>2, <1>3 DEF NodeSound

\* The invariant after a step.
LEMMA InvNext ==
  ASSUME host \in Hosts, host' = host, moves' \in 0 .. MaxMoves,
         NEW k, k = node', NEW f, f = stored', NEW g, g = peer', AllSound(k, f, g)
  PROVE  DevicesInv'
<1>1. NodeSound(node)'
  BY SoundNext DEF AllSound
<1>2. AllSerialSound(stored)' /\ AllSerialSound(peer)'
  BY DEF AllSound
<1>3. Apart(stored, stored)' /\ Apart(peer, peer)' /\ Apart(stored, peer)'
  BY DEF AllSound
<1>4. ApartFrom(node, stored)' /\ ApartFrom(node, peer)'
  BY DEF AllSound
<1>5. (~node.up => DOMAIN node.actors = {} /\ DOMAIN node.objects = {})'
  BY DEF AllSound
<1>6. (\A a \in DOMAIN node.actors : node.actors[a].away => a \in DOMAIN peer)'
  BY DEF AllSound
<1> QED
  BY <1>1, <1>2, <1>3, <1>4, <1>5, <1>6 DEF DevicesInv

\* A step that keeps which actors and objects there are.
LEMMA KeptAll ==
  ASSUME NEW n, NEW f, NEW g, AllSound(n, f, g), NEW k, NodeSound(k), Kept(n, k)
  PROVE  AllSound(k, f, g)
<1>1. ApartFrom(k, f) /\ ApartFrom(k, g)
  BY DEF AllSound, ApartFrom, Kept
<1> QED
  BY <1>1 DEF AllSound, Kept

\* A process with no actors, whether it runs or not.
Empty(b) == [up |-> b, actors |-> NoActors, objects |-> NoActors, fds |-> 0]

\* Such a process is sound.
LEMMA EmptySound ==
  ASSUME NEW b \in BOOLEAN, NEW n, n = Empty(b)
  PROVE  NodeSound(n) /\ DOMAIN n.actors = {} /\ DOMAIN n.objects = {} /\ n.up = b
<1>1. PICK e : e = NoActors
  OBVIOUS
<1>2. DOMAIN e = {} /\ e \in Partial(Actors, ActorType) /\ e \in Partial(Ids, ObjectType)
  BY <1>1, EmptyFacts
<1>3. n = [up |-> b, actors |-> e, objects |-> e, fds |-> 0]
  BY <1>1 DEF Empty
<1>4. n.actors = e /\ n.objects = e /\ n.fds = 0 /\ n.up = b
  BY <1>3
<1>5. 0 \in 0 .. MaxFds
  BY DevicesAssumption
<1>6. n \in NodeType
  BY <1>2, <1>3, <1>5 DEF NodeType
<1>7. CoapObjects(n) = {}
  BY <1>2, <1>4 DEF CoapObjects
<1>8. n.fds = Cardinality(CoapObjects(n))
  BY <1>4, <1>7, FS_EmptySet
<1>9. NodeSound(n)
  BY <1>2, <1>4, <1>6, <1>8 DEF NodeSound
<1> QED
  BY <1>2, <1>4, <1>9

\* A node with nothing in it is sound, whatever is written.
LEMMA EmptyAll ==
  ASSUME NEW n, NEW f, NEW g, AllSound(n, f, g), NEW b \in BOOLEAN, NEW k, k = Empty(b)
  PROVE  AllSound(k, f, g)
<1>1. NodeSound(k) /\ DOMAIN k.actors = {} /\ DOMAIN k.objects = {}
  BY EmptySound
<1>2. ApartFrom(k, f) /\ ApartFrom(k, g)
  BY <1>1 DEF ApartFrom
<1> QED
  BY <1>1, <1>2 DEF AllSound

\* The process ended.
LEMMA DeadAll ==
  ASSUME NEW n, NEW f, NEW g, AllSound(n, f, g), NEW k, k = Dead(n)
  PROVE  AllSound(k, f, g)
<1>1. k = NoProcess
  BY DeadSame DEF AllSound, NodeSound
<1>2. PICK b : b = FALSE
  OBVIOUS
<1>3. b \in BOOLEAN /\ k = Empty(b)
  BY <1>1, <1>2 DEF NoProcess, Empty
<1> QED
  BY <1>3, EmptyAll

\* An actor is freed with its objects.
LEMMA FreeAll ==
  ASSUME NEW n, NEW f, NEW g, AllSound(n, f, g), NEW a, NEW k, k = cc_actor_free(n, a)
  PROVE  AllSound(k, f, g)
<1>1. NodeSound(k) /\ n \in NodeType /\ n.fds = Cardinality(CoapObjects(n))
  BY FreeSound, SoundFacts DEF AllSound
<1>2. /\ k.up = n.up /\ DOMAIN k.actors = DOMAIN n.actors \ {a}
      /\ \A b \in DOMAIN k.actors : k.actors[b] = n.actors[b]
      /\ DOMAIN k.objects = {i \in DOMAIN n.objects : n.objects[i].actor # a}
      /\ \A i \in DOMAIN k.objects : k.objects[i] = n.objects[i]
  BY <1>1, FreeFacts
<1>3. ApartFrom(k, f) /\ ApartFrom(k, g)
  BY <1>2 DEF AllSound, ApartFrom
<1> QED
  BY <1>1, <1>2, <1>3 DEF AllSound

\* The new objects of a new actor a have ids that were written of no other actor.
LEMMA MadeAll ==
  ASSUME NEW m, NEW f, NEW g, AllSound(m, f, g), m.up, NEW a \in Actors, NEW k, Made(m, k, a),
         \A i \in DOMAIN k.objects \ DOMAIN m.objects : \A b \in Actors :
           i \in WrittenIds(f, b) \/ i \in WrittenIds(g, b) => b = a
  PROVE  AllSound(k, f, g)
<1>1. Beside(m, k, a) /\ NodeSound(k) /\ k.actors[a].away = FALSE
  BY DEF Made
<1>2. ApartFrom(k, f) /\ ApartFrom(k, g)
  BY <1>1 DEF AllSound, ApartFrom, Beside
<1> QED
  BY <1>1, <1>2 DEF AllSound, Beside

\* A new id was written of nobody.
LEMMA UnusedAll ==
  ASSUME NEW m, AllSound(m, stored, peer), m.up, NEW a \in Actors, NEW k, Made(m, k, a), Unused(m, k)
  PROVE  AllSound(k, stored, peer)
<1>1. ASSUME NEW f, NEW i, i \notin AllIds(f), NEW b \in Actors
      PROVE  i \notin WrittenIds(f, b)
  BY <1>1 DEF AllIds, WrittenIds
<1>2. \A i \in DOMAIN k.objects \ DOMAIN m.objects : \A b \in Actors :
           i \in WrittenIds(stored, b) \/ i \in WrittenIds(peer, b) => b = a
  BY <1>1 DEF Unused
<1> QED
  BY <1>2, MadeAll

\* An actor that was written may be restored: its ids are free.
LEMMA WrittenGround ==
  ASSUME NEW m, NEW f, NEW a \in DOMAIN f, NodeSound(m), AllSerialSound(f), ApartFrom(m, f),
         a \notin DOMAIN m.actors, host \in Hosts, AllSerialSound(stored), AllSerialSound(peer)
  PROVE  RestoreGround(m, a, f[a]) /\ a \in Actors
<1>1. a \in Actors /\ SerialSound(f[a])
  BY PartialFacts DEF AllSerialSound
<1>2. f[a].type \in DOMAIN TypeOf
  BY <1>1, SerialFacts
<1>3. ASSUME NEW i \in DOMAIN f[a].objs PROVE i \notin DOMAIN m.objects
  <2>1. i \in WrittenIds(f, a)
    BY DEF WrittenIds
  <2>2. i \in DOMAIN m.objects => m.objects[i].actor = a
    BY <1>1, <2>1 DEF ApartFrom
  <2>3. i \in DOMAIN m.objects => m.objects[i].actor \in DOMAIN m.actors
    BY SoundFacts
  <2> QED
    BY <2>2, <2>3
<1> QED
  BY <1>1, <1>2, <1>3 DEF RestoreGround, Ground

\* What the other runtime no longer has.
LEMMA WithoutAll ==
  ASSUME NEW n, NEW f, NEW g, AllSound(n, f, g), NEW a, a \in DOMAIN n.actors => ~n.actors[a].away,
         NEW h, h = Without(g, {a})
  PROVE  AllSound(n, f, h)
<1>1. g \in Partial(Actors, SerialType) /\ \A b \in DOMAIN g : SerialSound(g[b])
  BY DEF AllSound, AllSerialSound
<1>2. h \in Partial(Actors, SerialType)
  BY <1>1, WithoutFacts
<1>3. DOMAIN h = DOMAIN g \ {a} /\ \A b \in DOMAIN h : h[b] = g[b]
  BY DEF Without
<1>4. AllSerialSound(h)
  BY <1>1, <1>2, <1>3 DEF AllSerialSound
<1>5. \A b \in Actors : WrittenIds(h, b) \subseteq WrittenIds(g, b)
  BY <1>3 DEF WrittenIds
<1>6. Apart(h, h) /\ Apart(f, h) /\ ApartFrom(n, h)
  <2>1. Apart(g, g) /\ Apart(f, g) /\ ApartFrom(n, g)
    BY DEF AllSound
  <2>2. Apart(h, h)
    BY <1>5, <2>1 DEF Apart
  <2>3. Apart(f, h)
    BY <1>5, <2>1 DEF Apart
  <2>4. ApartFrom(n, h)
    BY <1>5, <2>1 DEF ApartFrom
  <2> QED
    BY <2>2, <2>3, <2>4
<1> QED
  BY <1>3, <1>4, <1>6 DEF AllSound

\* An actor that was written, in storage or for the other runtime, is restored or not.
LEMMA RestoredAll ==
  ASSUME NEW m, AllSound(m, stored, peer), m.up, host \in Hosts, NEW f, f = stored \/ f = peer,
         NEW a \in DOMAIN f, a \notin DOMAIN m.actors, NEW connected,
         NEW r \in cc_actor_create(m, a, f[a], FALSE, connected)
  PROVE  \/ ~r.ok /\ r.n = m
         \/ r.ok /\ AllSound(r.n, stored, peer) /\ Made(m, r.n, a)
<1>1. /\ NodeSound(m) /\ AllSerialSound(f) /\ ApartFrom(m, f)
      /\ AllSerialSound(stored) /\ AllSerialSound(peer)
  BY DEF AllSound
<1>2. RestoreGround(m, a, f[a]) /\ a \in Actors
  BY <1>1, WrittenGround
<1>3. PICK s : s = f[a]
  OBVIOUS
<1>4. \/ ~r.ok /\ r.n = m
      \/ r.ok /\ Made(m, r.n, a) /\ DOMAIN r.n.objects = DOMAIN m.objects \cup DOMAIN s.objs
  <2>1. RestoreGround(m, a, s) /\ r \in cc_actor_create(m, a, s, FALSE, connected)
    BY <1>2, <1>3
  <2> QED
    BY <2>1, RestoredSound
<1>5. CASE r.ok /\ Made(m, r.n, a) /\ DOMAIN r.n.objects = DOMAIN m.objects \cup DOMAIN s.objs
  <2>1. PICK k : k = r.n
    OBVIOUS
  <2>2. ASSUME NEW i \in DOMAIN k.objects \ DOMAIN m.objects, NEW b \in Actors,
               i \in WrittenIds(stored, b) \/ i \in WrittenIds(peer, b)
        PROVE  b = a
    <3>1. i \in WrittenIds(f, a)
      BY <1>3, <1>5, <2>1 DEF WrittenIds
    <3>2. Apart(stored, stored) /\ Apart(peer, peer) /\ Apart(stored, peer)
      BY DEF AllSound
    <3> QED
      BY <1>2, <2>2, <3>1, <3>2 DEF Apart
  <2>3. AllSound(k, stored, peer)
    BY <1>2, <1>5, <2>1, <2>2, MadeAll
  <2> QED
    BY <1>5, <2>1, <2>3
<1> QED
  BY <1>4, <1>5

(***************************************************************************)
(* Writing actors down.                                                     *)
(***************************************************************************)
\* What is written of the argument, and what the actor keeps.
LEMMA ManagedFacts ==
  ASSUME NEW t, NEW arg \in Arg, NEW m, m = get_managed_attributes(t, arg)
  PROVE  m.written \in {arg, "malformed"} /\ m.kept \in Arg
BY DEF get_managed_attributes, cc_actor_temperature_get_attributes, cc_actor_accelerometer_get_attributes,
       cc_actor_gyroscope_get_attributes, cc_actor_log_get_attributes, cc_actor_button_get_attributes,
       cc_actor_light_get_attributes, Arg

\* The objects of an actor, as they are written, are those it refers to.
LEMMA AttributesSound ==
  ASSUME NEW n, NodeSound(n), NEW a \in DOMAIN n.actors, NEW f, f = cc_calvinsys_get_attributes(n, a)
  PROVE  f \in Objs /\ Covers(f, n.actors[a].refs)
<1>1. PICK D : D = {j \in DOMAIN n.objects : n.objects[j].actor = a}
  OBVIOUS
<1>2. f = [i \in D |-> [cap |-> n.objects[i].cap, st |-> serialize(Device(n.objects[i].cap), n.objects[i].st)]]
  BY <1>1 DEF cc_calvinsys_get_attributes
<1>3. DOMAIN f = D
  BY <1>2
<1>4. ASSUME NEW i \in D
      PROVE  /\ i \in Ids /\ f[i] \in [cap : Caps, st : State] /\ f[i].cap = n.objects[i].cap
             /\ n.objects[i].cap \in DOMAIN n.actors[a].refs /\ n.actors[a].refs[n.objects[i].cap] = i
  <2>1. i \in Ids /\ n.objects[i] \in ObjectType /\ n.objects[i].actor = a
    BY <1>1, SoundFacts
  <2>2. n.objects[i].cap \in DOMAIN n.actors[a].refs /\ n.actors[a].refs[n.objects[i].cap] = i
    BY <1>1, <2>1, SoundFacts
  <2>3. PICK cap : cap = n.objects[i].cap
    OBVIOUS
  <2>4. PICK st : st = serialize(Device(cap), n.objects[i].st)
    OBVIOUS
  <2>5. cap \in Caps /\ st \in State
    BY <2>1, <2>3, <2>4, ObjectFields, SerializeFacts
  <2>6. f[i] = [cap |-> cap, st |-> st]
    BY <1>2, <2>3, <2>4
  <2> QED
    BY <2>1, <2>2, <2>3, <2>5, <2>6
<1>5. ASSUME NEW c \in DOMAIN n.actors[a].refs
      PROVE  n.actors[a].refs[c] \in D /\ n.objects[n.actors[a].refs[c]].cap = c
  BY <1>1, SoundFacts DEF Object
<1>6. f \in Objs
  <2>1. f = [i \in DOMAIN f |-> f[i]]
    BY <1>2, <1>3
  <2>2. PICK R : R = [cap : Caps, st : State]
    OBVIOUS
  <2>3. DOMAIN f \subseteq Ids /\ \A i \in DOMAIN f : f[i] \in R
    BY <1>3, <1>4, <2>2
  <2>4. f \in Partial(Ids, R)
    BY <2>1, <2>3, PartialFacts
  <2> QED
    BY <2>2, <2>4 DEF Objs
<1>7. DOMAIN f = {n.actors[a].refs[c] : c \in DOMAIN n.actors[a].refs}
  BY <1>3, <1>4, <1>5
<1> QED
  BY <1>3, <1>4, <1>5, <1>6, <1>7 DEF Covers

\* So are those that were written the last time.
LEMMA ObjectsWritten ==
  ASSUME NEW n, NodeSound(n), NEW a \in DOMAIN n.actors, NEW s, s = cc_actor_serialize(n, a)
  PROVE  s.objs \in Objs /\ Covers(s.objs, n.actors[a].refs)
<1>1. PICK x : x = n.actors[a]
  OBVIOUS
<1>2. x.first \in {<<>>} \cup {<<o>> : o \in Objs} /\ (x.first # <<>> => Covers(x.first[1], x.refs))
  BY <1>1, SoundFacts, ActorFields DEF NodeSound, ActorSound
<1>3. s.objs = IF x.first = <<>> THEN cc_calvinsys_get_attributes(n, a) ELSE x.first[1]
  BY <1>1 DEF cc_actor_serialize
<1>4. CASE x.first = <<>>
  BY <1>1, <1>3, <1>4, AttributesSound
<1>5. CASE x.first # <<>>
  <2>1. PICK o \in Objs : x.first = <<o>>
    BY <1>2, <1>5
  <2>2. x.first[1] = o
    BY <2>1
  <2> QED
    BY <1>1, <1>2, <1>3, <1>5, <2>2
<1> QED
  BY <1>4, <1>5

\* What is written of an actor is sound, and about its own objects.
LEMMA SerializeSound ==
  ASSUME NEW n, NodeSound(n), NEW a \in DOMAIN n.actors, Writable(n, a), NEW s, s = cc_actor_serialize(n, a)
  PROVE  /\ SerialSound(s)
         /\ \A i \in DOMAIN s.objs : i \in DOMAIN n.objects /\ n.objects[i].actor = a
<1>1. PICK x : x = n.actors[a]
  OBVIOUS
<1>2. x \in ActorType /\ Len(x.in) <= QueueSize /\ DOMAIN x.refs = Opens(x.type) /\ x.arg # "gone"
  BY <1>1, SoundFacts DEF Writable
<1>3. PICK o : o = s.objs
  OBVIOUS
<1>4. o \in Objs /\ Covers(o, x.refs)
  BY <1>1, <1>3, ObjectsWritten
<1>5. PICK w : w = get_managed_attributes(x.type, x.arg).written
  OBVIOUS
<1>6. w \in {"none", "set", "zero", "other", "malformed"}
  <2>1. x.arg \in {"none", "set", "zero", "other"}
    BY <1>2, ActorFields DEF Arg
  <2>2. w \in {x.arg, "malformed"}
    BY <1>2, <1>5, ActorFields, ManagedFacts
  <2> QED
    BY <2>1, <2>2
<1>7. s = [type |-> x.type, arg |-> w, refs |-> x.refs, objs |-> o, in |-> x.in, out |-> x.out,
           enabled |-> x.enabled, owed |-> x.owed]
  BY <1>1, <1>3, <1>5 DEF cc_actor_serialize
<1>8. s \in SerialType
  <2>1. /\ x.type \in DOMAIN TypeOf /\ x.refs \in Refs /\ x.in \in Seq(Tokens) /\ x.out \in 0 .. QueueSize
        /\ x.enabled \in BOOLEAN /\ x.owed \in Owed
    BY <1>2, ActorFields
  <2> QED
    BY <1>4, <1>6, <1>7, <2>1 DEF SerialType
<1>9. s.type = x.type /\ s.refs = x.refs /\ s.objs = o /\ s.in = x.in
  BY <1>7
<1>10. SerialSound(s)
  BY <1>2, <1>4, <1>8, <1>9 DEF SerialSound
<1>11. ASSUME NEW i \in DOMAIN s.objs PROVE i \in DOMAIN n.objects /\ n.objects[i].actor = a
  <2>1. PICK c \in DOMAIN x.refs : i = x.refs[c]
    BY <1>4, <1>9 DEF Covers
  <2> QED
    BY <1>1, <2>1, SoundFacts DEF Object
<1> QED
  BY <1>10, <1>11

\* Between n and k only the actor a changed, and none of its objects.
Steady(n, k, a) ==
  /\ NodeSound(k) /\ k.up = n.up /\ k.objects = n.objects /\ DOMAIN k.actors = DOMAIN n.actors
  /\ \A b \in DOMAIN n.actors \ {a} : k.actors[b] = n.actors[b]
  /\ SameObjects(k.actors[a], n.actors[a])

\* The actor still owes what it owed.
Alike(x, y) == SameObjects(x, y) /\ x.owed = y.owed

\* Such a change of an actor.
LEMMA SteadyUpdate ==
  ASSUME NEW n, NodeSound(n), NEW a \in DOMAIN n.actors, NEW x \in ActorType,
         Alike(x, n.actors[a]), NEW k, k = WithActor(n, a, x)
  PROVE  Steady(n, k, a) /\ k.actors[a] = x
<1>0. SameObjects(x, n.actors[a]) /\ x.owed = n.actors[a].owed
  BY DEF Alike
<1>1. NodeSound(k) /\ n \in NodeType
  BY <1>0, ActorUpdate, SoundFacts
<1>2. /\ k.up = n.up /\ k.objects = n.objects /\ DOMAIN k.actors = DOMAIN n.actors /\ k.actors[a] = x
      /\ \A b \in DOMAIN n.actors \ {a} : k.actors[b] = n.actors[b]
  BY <1>1, WithActorFacts
<1> QED
  BY <1>0, <1>1, <1>2 DEF Steady

\* One field of an actor.
WithArg(n, a, v) == [n EXCEPT !.actors[a].arg = v]
WithFirst(n, a, v) == [n EXCEPT !.actors[a].first = v]
WithEnabled(n, a, v) == [n EXCEPT !.actors[a].enabled = v]
WithAway(n, a, v) == [n EXCEPT !.actors[a].away = v]

\* Its argument.
LEMMA ArgUpdate ==
  ASSUME NEW n, NodeSound(n), NEW a \in DOMAIN n.actors, NEW v \in Arg,
         NEW k, k = WithArg(n, a, v)
  PROVE  Steady(n, k, a) /\ k.actors[a].refs = n.actors[a].refs
<1>1. PICK y : y = n.actors[a]
  OBVIOUS
<1>2. y \in ActorType /\ Len(y.in) <= QueueSize
  BY <1>1, SoundFacts
<1>3. PICK x : x = [y EXCEPT !.arg = v]
  OBVIOUS
<1>4. x \in ActorType /\ x.type = y.type /\ x.refs = y.refs /\ x.in = y.in /\ x.owed = y.owed /\ x.first = y.first
  BY <1>2, <1>3 DEF ActorType
<1>5. Alike(x, n.actors[a])
  BY <1>1, <1>2, <1>4 DEF Alike, SameObjects
<1>6. k = WithActor(n, a, x)
  BY <1>1, <1>3 DEF WithActor, WithArg
<1>7. Steady(n, k, a) /\ k.actors[a] = x
  BY <1>4, <1>5, <1>6, SteadyUpdate
<1> QED
  BY <1>1, <1>4, <1>7

\* What was written of its objects.
LEMMA FirstUpdate ==
  ASSUME NEW n, NodeSound(n), NEW a \in DOMAIN n.actors, NEW o \in Objs, Covers(o, n.actors[a].refs),
         NEW v, v = <<o>>, NEW k, k = WithFirst(n, a, v)
  PROVE  Steady(n, k, a) /\ k.actors[a].refs = n.actors[a].refs
<1>1. PICK y : y = n.actors[a]
  OBVIOUS
<1>2. y \in ActorType /\ Len(y.in) <= QueueSize
  BY <1>1, SoundFacts
<1>3. PICK x : x = [y EXCEPT !.first = v]
  OBVIOUS
<1>4. v \in {<<>>} \cup {<<p>> : p \in Objs} /\ v[1] = o
  OBVIOUS
<1>5. PICK F : F = {<<>>} \cup {<<p>> : p \in Objs}
  OBVIOUS
<1>6. y \in [type : DOMAIN TypeOf, arg : Arg, refs : Refs, enabled : BOOLEAN, away : BOOLEAN,
             in : Seq(Tokens), out : 0 .. QueueSize, owed : Owed, first : F]
  BY <1>2, <1>5 DEF ActorType
<1>7. x \in [type : DOMAIN TypeOf, arg : Arg, refs : Refs, enabled : BOOLEAN, away : BOOLEAN,
             in : Seq(Tokens), out : 0 .. QueueSize, owed : Owed, first : F]
  BY <1>3, <1>4, <1>5, <1>6
<1>8. x.type = y.type /\ x.refs = y.refs /\ x.in = y.in /\ x.owed = y.owed /\ x.first = v
  BY <1>3, <1>6
<1>9. x \in ActorType
  BY <1>5, <1>7 DEF ActorType
<1>10. Alike(x, n.actors[a])
  BY <1>1, <1>2, <1>4, <1>8 DEF Alike, SameObjects
<1>11. k = WithActor(n, a, x)
  BY <1>1, <1>3 DEF WithActor, WithFirst
<1>12. Steady(n, k, a) /\ k.actors[a] = x
  BY <1>9, <1>10, <1>11, SteadyUpdate
<1> QED
  BY <1>1, <1>8, <1>12

\* Whether it is enabled.
LEMMA EnabledUpdate ==
  ASSUME NEW n, NodeSound(n), NEW a \in DOMAIN n.actors, NEW v \in BOOLEAN,
         NEW k, k = WithEnabled(n, a, v)
  PROVE  Steady(n, k, a) /\ k.actors[a].away = n.actors[a].away
<1>1. PICK y : y = n.actors[a]
  OBVIOUS
<1>2. y \in ActorType /\ Len(y.in) <= QueueSize
  BY <1>1, SoundFacts
<1>3. PICK x : x = [y EXCEPT !.enabled = v]
  OBVIOUS
<1>4. /\ x \in ActorType /\ x.type = y.type /\ x.refs = y.refs /\ x.in = y.in /\ x.owed = y.owed
      /\ x.first = y.first /\ x.away = y.away
  BY <1>2, <1>3 DEF ActorType
<1>5. Alike(x, n.actors[a])
  BY <1>1, <1>2, <1>4 DEF Alike, SameObjects
<1>6. k = WithActor(n, a, x)
  BY <1>1, <1>3 DEF WithActor, WithEnabled
<1>7. Steady(n, k, a) /\ k.actors[a] = x
  BY <1>4, <1>5, <1>6, SteadyUpdate
<1> QED
  BY <1>1, <1>4, <1>7

\* Whether it was sent away.
LEMMA AwayUpdate ==
  ASSUME NEW n, NodeSound(n), NEW a \in DOMAIN n.actors, NEW v \in BOOLEAN,
         NEW k, k = WithAway(n, a, v)
  PROVE  Steady(n, k, a) /\ k.actors[a].away = v
<1>1. PICK y : y = n.actors[a]
  OBVIOUS
<1>2. y \in ActorType /\ Len(y.in) <= QueueSize
  BY <1>1, SoundFacts
<1>3. PICK x : x = [y EXCEPT !.away = v]
  OBVIOUS
<1>4. /\ x \in ActorType /\ x.type = y.type /\ x.refs = y.refs /\ x.in = y.in /\ x.owed = y.owed
      /\ x.first = y.first /\ x.away = v
  BY <1>2, <1>3 DEF ActorType
<1>5. Alike(x, n.actors[a])
  BY <1>1, <1>2, <1>4 DEF Alike, SameObjects
<1>6. k = WithActor(n, a, x)
  BY <1>1, <1>3 DEF WithActor, WithAway
<1>7. Steady(n, k, a) /\ k.actors[a] = x
  BY <1>4, <1>5, <1>6, SteadyUpdate
<1> QED
  BY <1>1, <1>4, <1>7

\* The actor that was written and sent.
Sent(n, a) == [Serialized(n, a) EXCEPT !.actors[a].enabled = FALSE, !.actors[a].away = TRUE]

\* It stays as it was but for its argument.
LEMMA SentSound ==
  ASSUME NEW n, NodeSound(n), NEW a \in DOMAIN n.actors, NEW k, k = Sent(n, a)
  PROVE  /\ NodeSound(k) /\ k.up = n.up /\ k.objects = n.objects
         /\ DOMAIN k.actors = DOMAIN n.actors
         /\ \A b \in DOMAIN n.actors \ {a} : k.actors[b] = n.actors[b]
<1>1. PICK arg : arg = get_managed_attributes(n.actors[a].type, n.actors[a].arg).kept
  OBVIOUS
<1>2. arg \in Arg
  BY <1>1, SoundFacts, ActorFields, ManagedFacts
<1>3. PICK o : o = cc_actor_serialize(n, a).objs
  OBVIOUS
<1>4. o \in Objs /\ Covers(o, n.actors[a].refs)
  BY <1>3, ObjectsWritten
<1>5. PICK v : v = <<o>>
  OBVIOUS
<1>6. PICK b : b = FALSE
  OBVIOUS
<1>7. PICK c : c = TRUE
  OBVIOUS
<1>8. PICK k1 : k1 = WithArg(n, a, arg)
  OBVIOUS
<1>9. PICK k2 : k2 = WithFirst(k1, a, v)
  OBVIOUS
<1>10. PICK k3 : k3 = WithEnabled(k2, a, b)
  OBVIOUS
<1>11. k = WithAway(k3, a, c)
  <2>1. k2 = Serialized(n, a)
    BY <1>1, <1>3, <1>5, <1>8, <1>9 DEF Serialized, WithArg, WithFirst
  <2>2. k = WithAway(WithEnabled(k2, a, FALSE), a, TRUE)
    BY <2>1 DEF Sent, WithEnabled, WithAway
  <2> QED
    BY <1>6, <1>7, <1>10, <2>2
<1>12. Steady(n, k1, a) /\ k1.actors[a].refs = n.actors[a].refs
  BY <1>2, <1>8, ArgUpdate
<1>13. NodeSound(k1) /\ a \in DOMAIN k1.actors /\ Covers(o, k1.actors[a].refs)
  BY <1>4, <1>12 DEF Steady
<1>14. Steady(k1, k2, a)
  BY <1>4, <1>5, <1>9, <1>13, FirstUpdate
<1>15. NodeSound(k2) /\ a \in DOMAIN k2.actors /\ b \in BOOLEAN
  BY <1>6, <1>13, <1>14 DEF Steady
<1>16. Steady(k2, k3, a)
  BY <1>10, <1>15, EnabledUpdate
<1>17. NodeSound(k3) /\ a \in DOMAIN k3.actors /\ c \in BOOLEAN
  BY <1>7, <1>15, <1>16 DEF Steady
<1>18. Steady(k3, k, a)
  BY <1>11, <1>17, AwayUpdate
<1> QED
  BY <1>12, <1>14, <1>16, <1>18 DEF Steady

\* Only an actor changed, and it is not more away than it was.
LEMMA SteadyAll ==
  ASSUME NEW n, NEW f, NEW g, AllSound(n, f, g), NEW a \in DOMAIN n.actors, NEW k, Steady(n, k, a),
         k.actors[a].away => a \in DOMAIN g
  PROVE  AllSound(k, f, g)
<1>1. ApartFrom(k, f) /\ ApartFrom(k, g)
  BY DEF AllSound, ApartFrom, Steady
<1>2. ASSUME NEW b \in DOMAIN k.actors, k.actors[b].away PROVE b \in DOMAIN g
  <2>1. CASE b = a
    BY <1>2, <2>1
  <2>2. CASE b # a
    BY <1>2, <2>2 DEF Steady, AllSound
  <2> QED
    BY <2>1, <2>2
<1>3. ~k.up => DOMAIN k.actors = {} /\ DOMAIN k.objects = {}
  BY DEF AllSound, Steady
<1> QED
  BY <1>1, <1>2, <1>3 DEF AllSound, Steady

\* The other runtime has what was sent to it.
LEMMA SentAll ==
  ASSUME NEW n, NEW f, NEW g, AllSound(n, f, g), NEW a \in DOMAIN n.actors, Writable(n, a),
         NEW k, k = Sent(n, a), NEW h, h = Put(g, a, cc_actor_serialize(n, a))
  PROVE  AllSound(k, f, h)
<1>1. PICK s : s = cc_actor_serialize(n, a)
  OBVIOUS
<1>2. NodeSound(n) /\ a \in Actors
  BY SoundFacts DEF AllSound
<1>3. SerialSound(s) /\ \A i \in DOMAIN s.objs : i \in DOMAIN n.objects /\ n.objects[i].actor = a
  BY <1>1, <1>2, SerializeSound
<1>4. /\ NodeSound(k) /\ k.up = n.up /\ k.objects = n.objects
      /\ DOMAIN k.actors = DOMAIN n.actors
      /\ \A b \in DOMAIN n.actors \ {a} : k.actors[b] = n.actors[b]
  BY <1>2, SentSound
<1>5. /\ h \in Partial(Actors, SerialType) /\ DOMAIN h = DOMAIN g \cup {a} /\ h[a] = s
      /\ \A b \in DOMAIN g \ {a} : h[b] = g[b]
  <2>1. g \in Partial(Actors, SerialType) /\ s \in SerialType /\ h = Put(g, a, s)
    BY <1>1, <1>3 DEF AllSound, AllSerialSound, SerialSound
  <2>2. DOMAIN h = DOMAIN g \cup {a} /\ h[a] = s /\ \A b \in DOMAIN g \ {a} : h[b] = g[b]
    BY <2>1 DEF Put
  <2>3. h = [b \in DOMAIN h |-> h[b]]
    BY <2>1 DEF Put
  <2>4. DOMAIN g \subseteq Actors /\ \A b \in DOMAIN g : g[b] \in SerialType
    BY <2>1, PartialFacts
  <2>5. DOMAIN h \subseteq Actors /\ \A b \in DOMAIN h : h[b] \in SerialType
    BY <1>2, <2>1, <2>2, <2>4
  <2>6. h \in Partial(Actors, SerialType)
    BY <2>3, <2>5, PartialFacts
  <2> QED
    BY <2>2, <2>6
<1>6. AllSerialSound(h)
  BY <1>3, <1>5 DEF AllSound, AllSerialSound
<1>7. WrittenIds(h, a) = DOMAIN s.objs /\ \A b \in Actors \ {a} : WrittenIds(h, b) = WrittenIds(g, b)
  BY <1>5 DEF WrittenIds
<1>8. ApartFrom(n, f) /\ ApartFrom(n, g) /\ Apart(g, g) /\ Apart(f, g)
  BY DEF AllSound
<1>9. ApartFrom(n, h)
  BY <1>2, <1>3, <1>7, <1>8 DEF ApartFrom
<1>10. ASSUME NEW e, ApartFrom(n, e), NEW b \in Actors \ {a} PROVE WrittenIds(e, b) \cap WrittenIds(h, a) = {}
  BY <1>2, <1>3, <1>7, <1>10 DEF ApartFrom
<1>11. Apart(h, h)
  <2>1. ASSUME NEW b \in Actors, NEW c \in Actors, b # c PROVE WrittenIds(h, b) \cap WrittenIds(h, c) = {}
    <3>1. CASE b = a
      <4>1. WrittenIds(h, c) \cap WrittenIds(h, a) = {}
        BY <1>9, <1>10, <2>1, <3>1
      <4> QED
        BY <3>1, <4>1
    <3>2. CASE c = a
      BY <1>9, <1>10, <2>1, <3>2
    <3>3. CASE b # a /\ c # a
      BY <1>7, <1>8, <2>1, <3>3 DEF Apart
    <3> QED
      BY <3>1, <3>2, <3>3
  <2> QED
    BY <2>1 DEF Apart
<1>12. Apart(f, h)
  <2>1. ASSUME NEW b \in Actors, NEW c \in Actors, b # c PROVE WrittenIds(f, b) \cap WrittenIds(h, c) = {}
    <3>1. CASE c = a
      BY <1>8, <1>10, <2>1, <3>1
    <3>2. CASE c # a
      BY <1>7, <1>8, <2>1, <3>2 DEF Apart
    <3> QED
      BY <3>1, <3>2
  <2> QED
    BY <2>1 DEF Apart
<1>13. ApartFrom(k, f) /\ ApartFrom(k, h)
  BY <1>4, <1>8, <1>9 DEF ApartFrom
<1>14. \A b \in DOMAIN k.actors : k.actors[b].away => b \in DOMAIN h
  BY <1>4, <1>5 DEF AllSound
<1> QED
  BY <1>4, <1>6, <1>11, <1>12, <1>13, <1>14 DEF AllSound

\* All actors of a node in storage, and the process ended.
LEMMA StoredAll ==
  ASSUME NEW n, NEW f, NEW g, AllSound(n, f, g), \A a \in DOMAIN n.actors : Writable(n, a),
         NEW h, h = [a \in DOMAIN n.actors |-> cc_actor_serialize(n, a)], NEW k, k = Dead(n)
  PROVE  AllSound(k, h, g)
<1>1. AllSound(k, f, g)
  BY DeadAll
<1>2. NodeSound(n) /\ DOMAIN n.actors \subseteq Actors
  BY SoundFacts DEF AllSound
<1>3. ASSUME NEW a \in DOMAIN n.actors
      PROVE  /\ SerialSound(h[a])
             /\ \A i \in DOMAIN h[a].objs : i \in DOMAIN n.objects /\ n.objects[i].actor = a
  <2>1. PICK s : s = cc_actor_serialize(n, a)
    OBVIOUS
  <2>2. h[a] = s
    BY <2>1
  <2>3. SerialSound(s) /\ \A i \in DOMAIN s.objs : i \in DOMAIN n.objects /\ n.objects[i].actor = a
    BY <1>2, <2>1, SerializeSound
  <2> QED
    BY <2>2, <2>3
<1>4. DOMAIN h = DOMAIN n.actors /\ h = [a \in DOMAIN h |-> h[a]]
  OBVIOUS
<1>5. h \in Partial(Actors, SerialType)
  <2>1. \A a \in DOMAIN h : h[a] \in SerialType
    BY <1>3, <1>4 DEF SerialSound
  <2> QED
    BY <1>2, <1>4, <2>1, PartialFacts
<1>6. AllSerialSound(h)
  BY <1>3, <1>4, <1>5 DEF AllSerialSound
<1>7. \A a \in Actors : \A i \in WrittenIds(h, a) : i \in DOMAIN n.objects /\ n.objects[i].actor = a
  BY <1>3, <1>4 DEF WrittenIds
<1>8. Apart(h, h)
  BY <1>7 DEF Apart
<1>9. Apart(h, g)
  BY <1>7 DEF Apart, AllSound, ApartFrom
<1>10. DOMAIN k.objects = {}
  <2>1. k = NoProcess
    BY DeadSame DEF AllSound, NodeSound
  <2> QED
    BY <2>1, EmptyFacts DEF NoProcess
<1>11. ApartFrom(k, h)
  BY <1>10 DEF ApartFrom
<1> QED
  BY <1>1, <1>6, <1>8, <1>9, <1>11 DEF AllSound

\* Nothing is stored.
LEMMA ForgottenAll ==
  ASSUME NEW n, NEW f, NEW g, AllSound(n, f, g), NEW h, h = NoActors
  PROVE  AllSound(n, h, g)
<1>1. DOMAIN h = {} /\ h \in Partial(Actors, SerialType)
  BY EmptyFacts
<1>2. AllSerialSound(h)
  BY <1>1 DEF AllSerialSound
<1>3. \A a \in Actors : WrittenIds(h, a) = {}
  BY <1>1 DEF WrittenIds
<1>4. Apart(h, h) /\ Apart(h, g) /\ ApartFrom(n, h)
  BY <1>3 DEF Apart, ApartFrom
<1> QED
  BY <1>2, <1>4 DEF AllSound

\* Another token in the queue.
WithToken(n, a, t) == [n EXCEPT !.actors[a].in = Append(@, t)]
\* One token less on its way out.
WithTaken(n, a) == [n EXCEPT !.actors[a].out = @ - 1]

CreateLoop == INSTANCE Folding WITH Op <- CreateNext

\* The loop that restores the actors is a fold of the module Folding.
LEMMA CreateLoopIs ==
  ASSUME NEW b, NEW s
  PROVE  FoldLeft(CreateNext, b, s) = CreateLoop!Fold(b, s)
BY DEF CreateLoop!Fold, CreateLoop!FoldLeft, CreateLoop!MapThenFoldSet, CreateLoop!Max,
       FoldLeft, MapThenFoldSet, Max

\* The results of restoring the actors D.
RestartedSome(D, results) ==
  \A r \in results : /\ AllSound(r.n, stored, peer)
                     /\ r.ok => r.n.up /\ DOMAIN r.n.actors = D

\* The ports of a restored actor are connected, are not, or the attempt ended the
\* process.
LEMMA PortsAll ==
  ASSUME NEW x, NEW n, n = x.n, AllSound(n, stored, peer), n.up, NEW a \in DOMAIN n.actors,
         ~n.actors[a].away, NEW r \in cc_actor_connect_ports(x, a)
  PROVE  /\ AllSound(r.n, stored, peer)
         /\ r.ok => r.n.up /\ DOMAIN r.n.actors = DOMAIN n.actors
<1>1. PICK v : v = TRUE
  OBVIOUS
<1>2. PICK k : k = WithEnabled(n, a, v)
  OBVIOUS
<1>3. (r.ok /\ r.n = k) \/ (r.ok /\ r.n = n) \/ (~r.ok /\ r.n = Dead(n))
  <2>1. PICK d : d = Dead(n)
    OBVIOUS
  <2>2. k = [n EXCEPT !.actors[a].enabled = TRUE]
    BY <1>1, <1>2 DEF WithEnabled
  <2>3. PICK k1 : k1 = [n EXCEPT !.actors[a].enabled = TRUE]
    OBVIOUS
  <2>4. cc_actor_connect_ports(x, a)
          = IF stored[a].enabled THEN Done(k1) ELSE Done(n) \cup Fails(d)
    BY <2>1, <2>3, Zenon DEF cc_actor_connect_ports
  <2>5. k1 = k
    BY <2>2, <2>3
  <2>6. (r.ok /\ r.n = k1) \/ (r.ok /\ r.n = n) \/ (~r.ok /\ r.n = d)
    BY <2>4 DEF Done, Fails
  <2> QED
    BY <2>1, <2>5, <2>6
<1>4. CASE r.ok /\ r.n = k
  <2>1. NodeSound(n) /\ v \in BOOLEAN
    BY <1>1 DEF AllSound
  <2>2. Steady(n, k, a) /\ k.actors[a].away = n.actors[a].away
    BY <1>2, <2>1, EnabledUpdate
  <2>3. AllSound(k, stored, peer)
    BY <2>2, SteadyAll
  <2> QED
    BY <1>4, <2>2, <2>3 DEF Steady
<1>5. CASE ~r.ok /\ r.n = Dead(n)
  <2>1. PICK k0 : k0 = Dead(n)
    OBVIOUS
  <2>2. AllSound(k0, stored, peer)
    BY <2>1, DeadAll
  <2> QED
    BY <1>5, <2>1, <2>2
<1> QED
  BY <1>3, <1>4, <1>5

\* One pass of that loop.
LEMMA CreateNextSound ==
  ASSUME host \in Hosts, NEW D, NEW a \in DOMAIN stored, a \notin D, NEW E, E = D \cup {a},
         NEW results, RestartedSome(D, results)
  PROVE  RestartedSome(E, CreateNext(results, a))
<1> SUFFICES ASSUME NEW r \in CreateNext(results, a)
             PROVE  /\ AllSound(r.n, stored, peer)
                    /\ r.ok => r.n.up /\ DOMAIN r.n.actors = E
  BY DEF RestartedSome
<1>1. PICK q \in results :
        r \in IF q.ok
              THEN UNION {IF x.ok THEN cc_actor_connect_ports(x, a) ELSE {x} :
                            x \in cc_actor_create(q.n, a, stored[a], FALSE, FALSE)}
              ELSE {q}
  BY DEF CreateNext
<1>2. CASE ~q.ok
  BY <1>1, <1>2 DEF RestartedSome
<1>3. CASE q.ok
  <2>1. PICK m : m = q.n
    OBVIOUS
  <2>2. AllSound(m, stored, peer) /\ m.up /\ DOMAIN m.actors = D
    BY <1>3, <2>1 DEF RestartedSome
  <2>3. PICK connected : connected = FALSE
    OBVIOUS
  <2>4. PICK f : f = stored
    OBVIOUS
  <2>5. PICK x \in cc_actor_create(m, a, f[a], FALSE, connected) :
          r \in IF x.ok THEN cc_actor_connect_ports(x, a) ELSE {x}
    BY <1>1, <1>3, <2>1, <2>3, <2>4
  <2>6. a \in DOMAIN f /\ a \notin DOMAIN m.actors /\ (f = stored \/ f = peer)
    BY <2>2, <2>4
  <2>7. \/ ~x.ok /\ x.n = m
        \/ x.ok /\ AllSound(x.n, stored, peer) /\ Made(m, x.n, a)
    BY <2>2, <2>5, <2>6, RestoredAll
  <2>8. CASE ~x.ok
    BY <2>2, <2>5, <2>7, <2>8
  <2>9. CASE x.ok
    <3>1. PICK n : n = x.n
      OBVIOUS
    <3>2. AllSound(n, stored, peer) /\ n.up /\ DOMAIN n.actors = E /\ ~n.actors[a].away
      BY <2>2, <2>7, <2>9, <3>1 DEF Made, Beside
    <3>3. a \in DOMAIN n.actors /\ r \in cc_actor_connect_ports(x, a)
      BY <2>5, <2>9, <3>2
    <3>4. /\ AllSound(r.n, stored, peer)
          /\ r.ok => r.n.up /\ DOMAIN r.n.actors = DOMAIN n.actors
      BY <3>1, <3>2, <3>3, PortsAll
    <3> QED
      BY <3>2, <3>4
  <2> QED
    BY <2>8, <2>9
<1> QED
  BY <1>2, <1>3

\* The node starts with the actors that are stored, or not at all.
LEMMA RestartSound ==
  ASSUME host \in Hosts, NEW n, AllSound(n, stored, peer), n.up, DOMAIN n.actors = {},
         NEW results, results = FoldLeft(CreateNext, Done(n), SetToSeq(DOMAIN stored))
  PROVE  RestartedSome(DOMAIN stored, results)
<1>1. PICK S : S = DOMAIN stored
  OBVIOUS
<1>2. IsFiniteSet(S)
  <2>1. S \subseteq Actors
    BY <1>1, PartialFacts DEF AllSound, AllSerialSound
  <2> QED
    BY <2>1, DevicesAssumption, FS_Subset
<1>3. PICK l : l = SetToSeq(S)
  OBVIOUS
<1>4. /\ l \in Seq(S) /\ DOMAIN l = 1 .. Len(l) /\ Len(l) \in Nat
      /\ \A x \in S : \E k \in DOMAIN l : l[k] = x
      /\ \A j, k \in DOMAIN l : l[j] = l[k] => j = k
  BY <1>2, <1>3, SetToSeqFacts
<1>5. CreateLoop!Steps(Done(n), l)
  BY <1>4, CreateLoop!FoldSteps
<1>6. PICK r : /\ r[0] = Done(n) /\ r[Len(l)] = CreateLoop!Fold(Done(n), l)
               /\ \A k \in 1 .. Len(l) : r[k] = CreateNext(r[k - 1], l[k])
  BY <1>5 DEF CreateLoop!Steps
<1> DEFINE K == {k \in Nat : k <= Len(l) => RestartedSome(First(l, k), r[k])}
<1>7. 0 \in K
  <2>1. First(l, 0) = {}
    BY DEF First
  <2>2. RestartedSome({}, Done(n))
    BY DEF RestartedSome, Done
  <2> QED
    BY <1>6, <2>1, <2>2
<1>8. ASSUME NEW k \in Nat, k \in K PROVE k + 1 \in K
  <2> SUFFICES ASSUME k + 1 <= Len(l) PROVE RestartedSome(First(l, k + 1), r[k + 1])
    OBVIOUS
  <2>1. k + 1 \in 1 .. Len(l) /\ (k + 1) - 1 = k /\ RestartedSome(First(l, k), r[k])
    BY <1>4, <1>8
  <2>2. r[k + 1] = CreateNext(r[k], l[k + 1])
    BY <1>6, <2>1
  <2>3. PICK a : a = l[k + 1]
    OBVIOUS
  <2>4. a \in DOMAIN stored
    BY <1>1, <1>4, <2>1, <2>3
  <2>5. a \notin First(l, k)
    <3>1. ASSUME NEW j \in 1 .. k PROVE l[j] # a
      <4>1. j \in DOMAIN l /\ k + 1 \in DOMAIN l /\ j # k + 1
        BY <1>4, <2>1
      <4> QED
        BY <1>4, <2>3, <4>1
    <3> QED
      BY <3>1 DEF First
  <2>6. First(l, k + 1) = First(l, k) \cup {a}
    BY <2>3 DEF First
  <2>7. PICK D : D = First(l, k)
    OBVIOUS
  <2>8. PICK E : E = First(l, k + 1)
    OBVIOUS
  <2>9. RestartedSome(E, CreateNext(r[k], a))
    BY <2>1, <2>4, <2>5, <2>6, <2>7, <2>8, CreateNextSound
  <2> QED
    BY <2>2, <2>3, <2>8, <2>9
<1> HIDE DEF K
<1>9. Len(l) \in K
  BY <1>4, <1>7, <1>8, SetInduction
<1>10. RestartedSome(First(l, Len(l)), r[Len(l)])
  BY <1>4, <1>9 DEF K
<1>11. First(l, Len(l)) = S
  BY <1>4 DEF First
<1>12. results = CreateLoop!Fold(Done(n), l)
  BY <1>1, <1>3, CreateLoopIs
<1> QED
  BY <1>1, <1>6, <1>10, <1>11, <1>12

\* A token comes in.
LEMMA TokenUpdate ==
  ASSUME NEW n, NodeSound(n), NEW a \in DOMAIN n.actors, Len(n.actors[a].in) < QueueSize, NEW t \in Tokens,
         NEW k, k = WithToken(n, a, t)
  PROVE  Steady(n, k, a) /\ k.actors[a].away = n.actors[a].away
<1>1. PICK y : y = n.actors[a]
  OBVIOUS
<1>2. y \in ActorType
  BY <1>1, SoundFacts
<1>3. PICK q : q = Append(y.in, t)
  OBVIOUS
<1>4. q \in Seq(Tokens) /\ Len(q) <= QueueSize
  <2>1. y.in \in Seq(Tokens) /\ Len(y.in) < QueueSize
    BY <1>1, <1>2, ActorFields
  <2>2. q \in Seq(Tokens) /\ Len(q) = Len(y.in) + 1 /\ Len(y.in) \in Nat
    BY <1>3, <2>1
  <2> QED
    BY <2>1, <2>2, DevicesAssumption
<1>5. PICK x : x = [y EXCEPT !.in = q]
  OBVIOUS
<1>6. /\ x \in ActorType /\ x.type = y.type /\ x.refs = y.refs /\ x.in = q /\ x.owed = y.owed
      /\ x.first = y.first /\ x.away = y.away
  BY <1>2, <1>4, <1>5 DEF ActorType
<1>7. Alike(x, n.actors[a])
  BY <1>1, <1>4, <1>6 DEF Alike, SameObjects
<1>8. k = WithActor(n, a, x)
  BY <1>1, <1>3, <1>5 DEF WithActor, WithToken
<1>9. Steady(n, k, a) /\ k.actors[a] = x
  BY <1>6, <1>7, <1>8, SteadyUpdate
<1> QED
  BY <1>1, <1>6, <1>9

\* A token leaves.
LEMMA TakenUpdate ==
  ASSUME NEW n, NodeSound(n), NEW a \in DOMAIN n.actors, n.actors[a].out > 0, NEW k, k = WithTaken(n, a)
  PROVE  Steady(n, k, a) /\ k.actors[a].away = n.actors[a].away
<1>1. PICK y : y = n.actors[a]
  OBVIOUS
<1>2. y \in ActorType /\ Len(y.in) <= QueueSize
  BY <1>1, SoundFacts
<1>3. PICK q : q = y.out - 1
  OBVIOUS
<1>4. q \in 0 .. QueueSize
  <2>1. y.out \in 0 .. QueueSize /\ y.out > 0
    BY <1>1, <1>2, ActorFields
  <2> QED
    BY <1>3, <2>1, DevicesAssumption
<1>5. PICK x : x = [y EXCEPT !.out = q]
  OBVIOUS
<1>6. /\ x \in ActorType /\ x.type = y.type /\ x.refs = y.refs /\ x.in = y.in /\ x.owed = y.owed
      /\ x.first = y.first /\ x.away = y.away
  BY <1>2, <1>4, <1>5 DEF ActorType
<1>7. Alike(x, n.actors[a])
  BY <1>1, <1>2, <1>6 DEF Alike, SameObjects
<1>8. k = WithActor(n, a, x)
  BY <1>1, <1>3, <1>5 DEF WithActor, WithTaken
<1>9. Steady(n, k, a) /\ k.actors[a] = x
  BY <1>6, <1>7, <1>8, SteadyUpdate
<1> QED
  BY <1>1, <1>6, <1>9

\* An armed object of a node becomes readable; it is no thermometer.
LEMMA HappensSound ==
  ASSUME NEW n, NodeSound(n), NEW i \in DOMAIN n.objects, n.objects[i].st.armed,
         NEW st \in State, NEW k, k = WithState(n, i, st)
  PROVE  NodeSound(k) /\ Kept(n, k)
<1>1. n \in NodeType
  BY SoundFacts
<1>2. /\ k \in NodeType /\ k.up = n.up /\ k.fds = n.fds /\ k.actors = n.actors
      /\ DOMAIN k.objects = DOMAIN n.objects
      /\ k.objects[i].st = st /\ k.objects[i].cap = n.objects[i].cap
      /\ k.objects[i].actor = n.objects[i].actor
      /\ \A j \in DOMAIN n.objects \ {i} : k.objects[j] = n.objects[j]
  BY <1>1, WithStateFacts
<1>3. n.objects[i].cap # "io.temperature"
  BY DEF NodeSound, ObjectSound
<1>4. Kept(n, k)
  BY <1>2 DEF Kept
<1>5. CoapObjects(k) = CoapObjects(n)
  BY <1>2 DEF CoapObjects
<1>6. ASSUME NEW a \in DOMAIN k.actors PROVE ActorSound(k, a)
  <2>1. ActorSound(n, a)
    BY <1>2 DEF NodeSound
  <2>2. PICK x : x = n.actors[a]
    OBVIOUS
  <2>3. /\ Len(x.in) <= QueueSize /\ DOMAIN x.refs = Opens(x.type) /\ k.actors[a] = x
        /\ x.first # <<>> => Covers(x.first[1], x.refs)
    BY <1>2, <2>1, <2>2 DEF ActorSound
  <2>4. ASSUME NEW c \in DOMAIN x.refs
        PROVE  /\ Known(k, a, c) /\ Object(k, a, c).cap = c /\ Object(k, a, c).actor = a
               /\ c = "io.temperature" => Object(k, a, c).st = Object(n, a, c).st
    <3>1. Known(n, a, c) /\ Object(n, a, c).cap = c /\ Object(n, a, c).actor = a
      BY <2>1, <2>2 DEF ActorSound
    <3>2. PICK j : j = x.refs[c]
      OBVIOUS
    <3>3. j \in DOMAIN n.objects /\ n.objects[j].cap = c /\ n.objects[j].actor = a
      BY <2>2, <3>1, <3>2 DEF Known, Object
    <3>4. k.objects[j].cap = c /\ k.objects[j].actor = a /\ (c = "io.temperature" => k.objects[j].st = n.objects[j].st)
      BY <1>2, <1>3, <3>3
    <3> QED
      BY <1>2, <2>2, <3>2, <3>3, <3>4 DEF Known, Object
  <2>5. x.type = "TriggeredTemperature" => (x.owed = "yes" <=> Object(k, a, "io.temperature").st.ready)
    <3>1. x.type = "TriggeredTemperature" => "io.temperature" \in DOMAIN x.refs
      BY <2>3, OpensFacts
    <3>2. x.type = "TriggeredTemperature" => Object(k, a, "io.temperature").st = Object(n, a, "io.temperature").st
      BY <2>4, <3>1
    <3> QED
      BY <2>1, <2>2, <3>2 DEF ActorSound
  <2> QED
    BY <2>3, <2>4, <2>5 DEF ActorSound
<1>7. ASSUME NEW j \in DOMAIN k.objects PROVE ObjectSound(k, j)
  <2>1. ObjectSound(n, j)
    BY <1>2 DEF NodeSound
  <2> QED
    BY <1>2, <1>3, <2>1 DEF ObjectSound
<1> QED
  BY <1>2, <1>4, <1>5, <1>6, <1>7 DEF NodeSound

(***************************************************************************)
(* The steps.                                                               *)
(***************************************************************************)
\* What the invariant says before a step.
LEMMA InvFacts ==
  ASSUME DevicesInv
  PROVE  host \in Hosts /\ moves \in 0 .. MaxMoves /\ AllSound(node, stored, peer)
BY DEF DevicesInv, AllSound

\* A counted step stays within the bound.
LEMMA MoveFacts ==
  ASSUME moves \in 0 .. MaxMoves, Move
  PROVE  moves' \in 0 .. MaxMoves
BY DevicesAssumption DEF Move

\* An actor comes: a new one, or one that was here before.
LEMMA ArriveInv ==
  ASSUME DevicesInv, NEW a \in Actors, cc_proto_parse_actor_new(a)
  PROVE  DevicesInv'
<1>1. host \in Hosts /\ AllSound(node, stored, peer) /\ moves \in 0 .. MaxMoves
  BY InvFacts
<1>2. /\ node.up /\ a \notin DOMAIN node.actors /\ host' = host /\ stored' = stored
      /\ moves' \in 0 .. MaxMoves
  BY <1>1, MoveFacts DEF cc_proto_parse_actor_new
<1>3. PICK m : m = node
  OBVIOUS
<1>4. AllSound(m, stored, peer) /\ m.up /\ a \notin DOMAIN m.actors
  BY <1>1, <1>2, <1>3
<1>5. PICK k : k = node'
  OBVIOUS
<1>6. PICK connected : connected = TRUE
  OBVIOUS
<1>7. ASSUME NEW t \in DOMAIN TypeOf, NEW arg \in Args, peer' = peer,
             \E r \in cc_actor_create(node, a, Shadow(t, arg), TRUE, TRUE) : node' = r.n
      PROVE  AllSound(k, stored, peer)
  <2>1. PICK s : s = Shadow(t, arg)
    OBVIOUS
  <2>2. PICK r \in cc_actor_create(m, a, s, TRUE, connected) : k = r.n
    BY <1>3, <1>5, <1>6, <1>7, <2>1
  <2>3. s.type = t /\ s.arg = arg /\ s.in = <<>> /\ s.out = 0 /\ s.owed = "no"
    BY <2>1 DEF Shadow
  <2>4. Makeable(s)
    BY <2>3, DevicesAssumption DEF Makeable, Arg, Owed
  <2>5. Ground(m, a, s.type)
    BY <1>1, <1>4, <2>3 DEF Ground, AllSound
  <2>6. k = m \/ k = Dead(m) \/ (Made(m, k, a) /\ Unused(m, k))
    BY <1>4, <2>2, <2>4, <2>5, ShadowSound
  <2>7. k = m => AllSound(k, stored, peer)
    BY <1>4
  <2>8. k = Dead(m) => AllSound(k, stored, peer)
    BY <1>4, DeadAll
  <2>9. Made(m, k, a) /\ Unused(m, k) => AllSound(k, stored, peer)
    BY <1>4, UnusedAll
  <2> QED
    BY <2>6, <2>7, <2>8, <2>9
<1>8. ASSUME a \in DOMAIN peer,
             \E r \in cc_actor_create(node, a, peer[a], FALSE, TRUE) :
               node' = r.n /\ peer' = IF r.ok THEN Without(peer, {a}) ELSE peer
      PROVE  AllSound(k, stored, peer')
  <2>1. PICK f : f = peer
    OBVIOUS
  <2>2. PICK r \in cc_actor_create(m, a, f[a], FALSE, connected) :
           k = r.n /\ peer' = IF r.ok THEN Without(peer, {a}) ELSE peer
    BY <1>3, <1>5, <1>6, <1>8, <2>1
  <2>3. (f = stored \/ f = peer) /\ a \in DOMAIN f
    BY <1>8, <2>1
  <2>4. \/ ~r.ok /\ r.n = m
        \/ r.ok /\ AllSound(r.n, stored, peer) /\ Made(m, r.n, a)
    BY <1>1, <1>4, <2>2, <2>3, RestoredAll
  <2>5. CASE ~r.ok /\ r.n = m
    BY <1>4, <2>2, <2>5
  <2>6. CASE r.ok /\ AllSound(r.n, stored, peer) /\ Made(m, r.n, a)
    <3>1. AllSound(k, stored, peer) /\ k.actors[a].away = FALSE
      BY <2>2, <2>6 DEF Made
    <3>2. PICK h : h = Without(peer, {a})
      OBVIOUS
    <3>3. AllSound(k, stored, h)
      BY <3>1, <3>2, WithoutAll
    <3> QED
      BY <2>2, <2>6, <3>2, <3>3
  <2> QED
    BY <2>4, <2>5, <2>6
<1>9. AllSound(k, stored', peer')
  BY <1>2, <1>7, <1>8 DEF cc_proto_parse_actor_new
<1> QED
  BY <1>1, <1>2, <1>5, <1>9, InvNext

\* The ports of an actor are connected, or no longer so.
LEMMA ConnectInv ==
  ASSUME DevicesInv, NEW a, Connect(a) \/ cc_actor_port_disconnected(a)
  PROVE  DevicesInv'
<1>1. host \in Hosts /\ AllSound(node, stored, peer) /\ moves \in 0 .. MaxMoves
  BY InvFacts
<1>2. host' = host /\ stored' = stored /\ peer' = peer /\ moves' \in 0 .. MaxMoves /\ a \in DOMAIN node.actors
  BY <1>1, MoveFacts DEF Connect, cc_actor_port_disconnected
<1>3. PICK v \in BOOLEAN : node' = WithEnabled(node, a, v)
  BY DEF Connect, cc_actor_port_disconnected, WithEnabled
<1>4. PICK n : n = node
  OBVIOUS
<1>5. PICK k : k = node'
  OBVIOUS
<1>6. AllSound(n, stored, peer) /\ a \in DOMAIN n.actors /\ k = WithEnabled(n, a, v)
  BY <1>1, <1>2, <1>3, <1>4, <1>5
<1>7. Steady(n, k, a) /\ k.actors[a].away = n.actors[a].away
  BY <1>6, EnabledUpdate DEF AllSound
<1>8. k.actors[a].away => a \in DOMAIN peer
  BY <1>6, <1>7 DEF AllSound
<1>9. AllSound(k, stored, peer)
  BY <1>6, <1>7, <1>8, SteadyAll
<1> QED
  BY <1>1, <1>2, <1>5, <1>9, InvNext

\* An actor is sent away; one that cannot be written ends the process.
LEMMA MigrateInv ==
  ASSUME DevicesInv, NEW a, cc_actor_migrate(a)
  PROVE  DevicesInv'
<1>1. host \in Hosts /\ AllSound(node, stored, peer) /\ moves \in 0 .. MaxMoves
  BY InvFacts
<1>2. host' = host /\ stored' = stored /\ moves' \in 0 .. MaxMoves /\ a \in DOMAIN node.actors
  BY <1>1, MoveFacts DEF cc_actor_migrate
<1>3. PICK n : n = node
  OBVIOUS
<1>4. PICK k : k = node'
  OBVIOUS
<1>5. PICK h : h = peer'
  OBVIOUS
<1>6. AllSound(n, stored, peer) /\ a \in DOMAIN n.actors
  BY <1>1, <1>2, <1>3
<1>7. CASE Writable(n, a)
  <2>1. k = Sent(n, a) /\ h = Put(peer, a, cc_actor_serialize(n, a))
    BY <1>3, <1>4, <1>5, <1>7 DEF cc_actor_migrate, Sent
  <2>2. AllSound(k, stored, h)
    BY <1>6, <1>7, <2>1, SentAll
  <2> QED
    BY <1>1, <1>2, <1>4, <1>5, <2>2, InvNext
<1>8. CASE ~Writable(n, a)
  <2>1. k = Dead(n) /\ h = peer
    BY <1>3, <1>4, <1>5, <1>8 DEF cc_actor_migrate
  <2>2. AllSound(k, stored, h)
    BY <1>6, <2>1, DeadAll
  <2> QED
    BY <1>1, <1>2, <1>4, <1>5, <2>2, InvNext
<1> QED
  BY <1>7, <1>8

\* The other runtime has the actor, or it stays.
LEMMA ReplyInv ==
  ASSUME DevicesInv, NEW a, cc_actor_migrate_reply_handler(a)
  PROVE  DevicesInv'
<1>1. host \in Hosts /\ AllSound(node, stored, peer) /\ moves \in 0 .. MaxMoves
  BY InvFacts
<1>2. host' = host /\ stored' = stored /\ moves' \in 0 .. MaxMoves /\ a \in DOMAIN node.actors
  BY <1>1 DEF cc_actor_migrate_reply_handler
<1>3. PICK n : n = node
  OBVIOUS
<1>4. PICK k : k = node'
  OBVIOUS
<1>5. PICK h : h = peer'
  OBVIOUS
<1>6. AllSound(n, stored, peer) /\ a \in DOMAIN n.actors
  BY <1>1, <1>2, <1>3
<1>7. PICK v : v = FALSE
  OBVIOUS
<1>8. \/ k = cc_actor_free(n, a) /\ h = peer
      \/ k = WithAway(n, a, v) /\ h = Without(peer, {a})
  BY <1>3, <1>4, <1>5, <1>7 DEF cc_actor_migrate_reply_handler, WithAway
<1>9. CASE k = cc_actor_free(n, a) /\ h = peer
  <2>1. AllSound(k, stored, h)
    BY <1>6, <1>9, FreeAll
  <2> QED
    BY <1>1, <1>2, <1>4, <1>5, <2>1, InvNext
<1>10. CASE k = WithAway(n, a, v) /\ h = Without(peer, {a})
  <2>1. Steady(n, k, a) /\ k.actors[a].away = v
    BY <1>6, <1>7, <1>10, AwayUpdate DEF AllSound
  <2>2. ~k.actors[a].away
    BY <1>7, <2>1
  <2>3. AllSound(k, stored, peer)
    BY <1>6, <2>1, <2>2, SteadyAll
  <2>4. AllSound(k, stored, h)
    BY <1>10, <2>2, <2>3, WithoutAll
  <2> QED
    BY <1>1, <1>2, <1>4, <1>5, <2>4, InvNext
<1> QED
  BY <1>8, <1>9, <1>10

\* An actor is deleted.
LEMMA DeleteInv ==
  ASSUME DevicesInv, NEW a, Delete(a)
  PROVE  DevicesInv'
<1>1. host \in Hosts /\ AllSound(node, stored, peer) /\ moves \in 0 .. MaxMoves
  BY InvFacts
<1>2. /\ host' = host /\ stored' = stored /\ peer' = peer /\ moves' \in 0 .. MaxMoves
      /\ node' = cc_actor_free(node, a)
  BY <1>1, MoveFacts DEF Delete
<1>3. PICK n : n = node
  OBVIOUS
<1>4. PICK k : k = node'
  OBVIOUS
<1>5. AllSound(k, stored, peer)
  BY <1>1, <1>2, <1>3, <1>4, FreeAll
<1> QED
  BY <1>1, <1>2, <1>4, <1>5, InvNext

\* An actor fires.
LEMMA FireInv ==
  ASSUME DevicesInv, NEW a, Fire(a)
  PROVE  DevicesInv'
<1>1. host \in Hosts /\ AllSound(node, stored, peer) /\ moves \in 0 .. MaxMoves
  BY InvFacts
<1>2. /\ host' = host /\ stored' = stored /\ peer' = peer /\ moves' \in 0 .. MaxMoves
      /\ a \in DOMAIN node.actors /\ node' \in fire(node, a)
  BY <1>1 DEF Fire
<1>3. PICK n : n = node
  OBVIOUS
<1>4. PICK k : k = node'
  OBVIOUS
<1>5. AllSound(n, stored, peer) /\ a \in DOMAIN n.actors /\ k \in fire(n, a)
  BY <1>1, <1>2, <1>3, <1>4
<1>6. (Kept(n, k) /\ NodeSound(k)) \/ k = Dead(n)
  BY <1>1, <1>5, FireSound DEF AllSound
<1>7. AllSound(k, stored, peer)
  BY <1>5, <1>6, KeptAll, DeadAll
<1> QED
  BY <1>1, <1>2, <1>4, <1>7, InvNext

\* A token comes or goes.
LEMMA TokenInv ==
  ASSUME DevicesInv, NEW a, TokenIn(a) \/ TokenOut(a)
  PROVE  DevicesInv'
<1>1. host \in Hosts /\ AllSound(node, stored, peer) /\ moves \in 0 .. MaxMoves
  BY InvFacts
<1>2. /\ host' = host /\ stored' = stored /\ peer' = peer /\ moves' \in 0 .. MaxMoves
      /\ a \in DOMAIN node.actors
  BY <1>1 DEF TokenIn, TokenOut
<1>3. PICK n : n = node
  OBVIOUS
<1>4. PICK k : k = node'
  OBVIOUS
<1>5. AllSound(n, stored, peer) /\ a \in DOMAIN n.actors /\ NodeSound(n)
  BY <1>1, <1>2, <1>3 DEF AllSound
<1>6. Steady(n, k, a) /\ k.actors[a].away = n.actors[a].away
  <2>1. CASE TokenIn(a)
    <3>1. PICK t \in Tokens : k = WithToken(n, a, t)
      BY <1>3, <1>4, <2>1 DEF TokenIn, WithToken
    <3>2. Len(n.actors[a].in) < QueueSize
      BY <1>3, <2>1 DEF TokenIn
    <3> QED
      BY <1>5, <3>1, <3>2, TokenUpdate
  <2>2. CASE TokenOut(a)
    <3>1. k = WithTaken(n, a) /\ n.actors[a].out > 0
      BY <1>3, <1>4, <2>2 DEF TokenOut, WithTaken
    <3> QED
      BY <1>5, <3>1, TakenUpdate
  <2> QED
    BY <2>1, <2>2
<1>7. k.actors[a].away => a \in DOMAIN peer
  BY <1>5, <1>6 DEF AllSound
<1>8. AllSound(k, stored, peer)
  BY <1>5, <1>6, <1>7, SteadyAll
<1> QED
  BY <1>1, <1>2, <1>4, <1>8, InvNext

\* A timer is due, a sensor has a reading, a datagram is there.
LEMMA HappensInv ==
  ASSUME DevicesInv, NEW i, Happens(i)
  PROVE  DevicesInv'
<1>1. host \in Hosts /\ AllSound(node, stored, peer) /\ moves \in 0 .. MaxMoves
  BY InvFacts
<1>2. /\ host' = host /\ stored' = stored /\ peer' = peer /\ moves' \in 0 .. MaxMoves
      /\ i \in DOMAIN node.objects /\ node.objects[i].st.armed
  BY <1>1 DEF Happens
<1>3. PICK n : n = node
  OBVIOUS
<1>4. PICK k : k = node'
  OBVIOUS
<1>5. AllSound(n, stored, peer) /\ i \in DOMAIN n.objects /\ NodeSound(n) /\ n.objects[i].st.armed
  BY <1>1, <1>2, <1>3 DEF AllSound
<1>6. PICK old : old = n.objects[i].st
  OBVIOUS
<1>7. old \in State
  BY <1>5, <1>6, SoundFacts, ObjectFields
<1>8. PICK st : st = IF Device(n.objects[i].cap) = "timer" THEN cc_calvinsys_timers_check(old)
                     ELSE cc_accelerometer_looper_callback(old)
  OBVIOUS
<1>9. st \in State
  BY <1>7, <1>8 DEF cc_calvinsys_timers_check, cc_accelerometer_looper_callback, State
<1>10. k = WithState(n, i, st)
  BY <1>3, <1>4, <1>6, <1>8 DEF Happens, WithState
<1>11. NodeSound(k) /\ Kept(n, k)
  BY <1>5, <1>9, <1>10, HappensSound
<1>12. AllSound(k, stored, peer)
  BY <1>5, <1>11, KeptAll
<1> QED
  BY <1>1, <1>2, <1>4, <1>12, InvNext

\* The state is stored and the process ends, or it ends without warning.
LEMMA StopInv ==
  ASSUME DevicesInv, cc_node_set_state \/ Crash
  PROVE  DevicesInv'
<1>1. host \in Hosts /\ AllSound(node, stored, peer) /\ moves \in 0 .. MaxMoves
  BY InvFacts
<1>2. host' = host /\ peer' = peer /\ moves' \in 0 .. MaxMoves /\ node' = Dead(node)
  BY <1>1, MoveFacts DEF cc_node_set_state, Crash
<1>3. PICK n : n = node
  OBVIOUS
<1>4. PICK k : k = node'
  OBVIOUS
<1>5. PICK h : h = stored'
  OBVIOUS
<1>6. AllSound(n, stored, peer) /\ k = Dead(n)
  BY <1>1, <1>2, <1>3, <1>4
<1>7. \/ h = stored
      \/ /\ \A a \in DOMAIN n.actors : Writable(n, a)
         /\ h = [a \in DOMAIN n.actors |-> cc_actor_serialize(n, a)]
  BY <1>3, <1>5 DEF cc_node_set_state, Crash
<1>8. AllSound(k, h, peer)
  BY <1>6, <1>7, DeadAll, StoredAll
<1> QED
  BY <1>1, <1>2, <1>4, <1>5, <1>8, InvNext

\* The process starts with the actors that are stored, or with none.
LEMMA StartInv ==
  ASSUME DevicesInv, cc_node_get_state
  PROVE  DevicesInv'
<1>1. host \in Hosts /\ AllSound(node, stored, peer) /\ moves \in 0 .. MaxMoves
  BY InvFacts
<1>2. host' = host /\ peer' = peer /\ moves' \in 0 .. MaxMoves /\ ~node.up
  BY <1>1 DEF cc_node_get_state
<1>3. PICK n : n = node
  OBVIOUS
<1>4. PICK k : k = node'
  OBVIOUS
<1>5. PICK h : h = stored'
  OBVIOUS
<1>6. PICK c : c = TRUE
  OBVIOUS
<1>7. PICK m : m = [n EXCEPT !.up = c]
  OBVIOUS
<1>8. AllSound(m, stored, peer) /\ m.up /\ DOMAIN m.actors = {}
  <2>1. AllSound(n, stored, peer) /\ DOMAIN n.actors = {} /\ DOMAIN n.objects = {} /\ n \in NodeType
        /\ n.fds = Cardinality(CoapObjects(n))
    BY <1>1, <1>2, <1>3 DEF AllSound, NodeSound
  <2>2. /\ m.up = c /\ m.actors = n.actors /\ m.objects = n.objects /\ m.fds = n.fds
    BY <1>7, <2>1 DEF NodeType
  <2>3. m \in NodeType
    BY <1>6, <1>7, <2>1 DEF NodeType
  <2>4. CoapObjects(m) = CoapObjects(n)
    BY <2>2 DEF CoapObjects
  <2>5. NodeSound(m)
    BY <2>1, <2>2, <2>3, <2>4 DEF NodeSound
  <2>6. ApartFrom(m, stored) /\ ApartFrom(m, peer)
    BY <2>1, <2>2 DEF ApartFrom
  <2> QED
    BY <1>6, <2>1, <2>2, <2>5, <2>6 DEF AllSound
<1>9. PICK results : results = FoldLeft(CreateNext, Done(m), SetToSeq(DOMAIN stored))
  OBVIOUS
<1>10. RestartedSome(DOMAIN stored, results)
  BY <1>1, <1>8, <1>9, RestartSound
<1>11. PICK r \in results : IF r.ok THEN k = r.n /\ h = stored
                           ELSE IF r.n.up /\ r.n.actors = NoActors THEN k = r.n /\ h = NoActors
                           ELSE k = Dead(r.n) /\ h = stored
  BY <1>3, <1>4, <1>5, <1>6, <1>7, <1>9 DEF cc_node_get_state, cc_node_reset
<1>12. PICK q : q = r.n
  OBVIOUS
<1>13. AllSound(q, stored, peer)
  BY <1>10, <1>12 DEF RestartedSome
<1>14. AllSound(k, h, peer)
  <2>1. CASE k = q /\ h = stored
    BY <1>13, <2>1
  <2>2. CASE k = q /\ h = NoActors
    BY <1>13, <2>2, ForgottenAll
  <2>3. CASE k = Dead(q) /\ h = stored
    BY <1>13, <2>3, DeadAll
  <2> QED
    BY <1>11, <1>12, <2>1, <2>2, <2>3
<1> QED
  BY <1>1, <1>2, <1>4, <1>5, <1>14, InvNext

(***************************************************************************)
(* The theorems.                                                            *)
(***************************************************************************)
\* Nothing is there at the start.
LEMMA InitInv ==
  ASSUME Init
  PROVE  DevicesInv
<1>1. host \in Hosts /\ moves \in 0 .. MaxMoves
  BY DevicesAssumption DEF Init
<1>2. PICK c : c = TRUE
  OBVIOUS
<1>3. node = Empty(c) /\ stored = NoActors /\ peer = NoActors
  BY <1>2 DEF Init, Empty
<1>4. PICK e : e = NoActors
  OBVIOUS
<1>5. DOMAIN e = {} /\ e \in Partial(Actors, SerialType)
  BY <1>4, EmptyFacts
<1>6. AllSerialSound(e)
  BY <1>5 DEF AllSerialSound
<1>7. \A a \in Actors : WrittenIds(e, a) = {}
  BY <1>5 DEF WrittenIds
<1>8. Apart(e, e) /\ ApartFrom(node, e)
  BY <1>7 DEF Apart, ApartFrom
<1>9. PICK n : n = node
  OBVIOUS
<1>10. NodeSound(n) /\ DOMAIN n.actors = {} /\ DOMAIN n.objects = {}
  BY <1>2, <1>3, <1>9, EmptySound
<1> QED
  BY <1>1, <1>3, <1>4, <1>6, <1>8, <1>9, <1>10 DEF DevicesInv

\* Every step keeps the invariant.
LEMMA StepInv ==
  ASSUME DevicesInv, [Next]_vars
  PROVE  DevicesInv'
<1>1. host \in Hosts /\ AllSound(node, stored, peer) /\ moves \in 0 .. MaxMoves
  BY InvFacts
<1>2. CASE UNCHANGED vars
  <2>1. PICK n : n = node'
    OBVIOUS
  <2>2. host' = host /\ n = node /\ stored' = stored /\ peer' = peer /\ moves' = moves
    BY <1>2, <2>1 DEF vars
  <2>3. AllSound(n, stored, peer)
    BY <1>1, <2>2
  <2> QED
    BY <1>1, <2>1, <2>2, <2>3, InvNext
<1>3. CASE Next
  <2>1. ActorsOn[host] \subseteq Actors
    BY <1>1, DevicesAssumption
  <2>2. ASSUME NEW a \in ActorsOn[host],
               \/ cc_proto_parse_actor_new(a) \/ Connect(a) \/ cc_actor_port_disconnected(a)
               \/ cc_actor_migrate(a) \/ cc_actor_migrate_reply_handler(a) \/ Delete(a)
               \/ Fire(a) \/ TokenIn(a) \/ TokenOut(a)
        PROVE  DevicesInv'
    BY <2>1, <2>2, ArriveInv, ConnectInv, MigrateInv, ReplyInv, DeleteInv, FireInv, TokenInv
  <2> QED
    BY <1>3, <2>2, HappensInv, StopInv, StartInv DEF Next
<1> QED
  BY <1>2, <1>3

\* The objects of every actor are those its type opens, here and in all that is
\* written of it; no id stands for two; a thermometer has a reading exactly if
\* one is owed.  The steps of cc_calvinsys.c, cc_actor.c and the C actors keep it,
\* those that end the process too: a failed open, a restart that cannot reset.
THEOREM DevicesInvariant == Spec => []DevicesInv
<1>1. Init => DevicesInv
  BY InitInv
<1>2. DevicesInv /\ [Next]_vars => DevicesInv'
  BY StepInv
<1> QED
  BY <1>1, <1>2, PTL DEF Spec

\* Queues, slots, readings and ids stay within their bounds: an id is always
\* free for cc_calvinsys_open among six for every actor and one more.
THEOREM DevicesTypeCorrect == Spec => []TypeOK
<1>1. DevicesInv => TypeOK
  <2> SUFFICES ASSUME DevicesInv PROVE TypeOK
    OBVIOUS
  <2>1. host \in Hosts /\ moves \in 0 .. MaxMoves /\ NodeSound(node)
    BY DEF DevicesInv
  <2>2. PICK n : n = node
    OBVIOUS
  <2>3. /\ n \in NodeType
        /\ \A a \in DOMAIN n.actors : n.actors[a] \in ActorType /\ Len(n.actors[a].in) <= QueueSize
        /\ \A i \in DOMAIN n.objects : n.objects[i] \in ObjectType
    BY <2>1, <2>2, SoundFacts
  <2>4. /\ n.up \in BOOLEAN /\ n.fds \in 0 .. MaxFds
        /\ DOMAIN n.actors \subseteq Actors /\ DOMAIN n.objects \subseteq Ids
    BY <2>3, NodeFields
  <2>5. \A a \in DOMAIN n.actors : n.actors[a].arg \in Arg /\ n.actors[a].out \in 0 .. QueueSize
    BY <2>3, ActorFields
  <2>6. \A i \in DOMAIN n.objects : n.objects[i].st \in State
    BY <2>3, ObjectFields
  <2> QED
    BY <2>1, <2>2, <2>3, <2>4, <2>5, <2>6 DEF TypeOK
<1> QED
  BY <1>1, DevicesInvariant, PTL

\* While the process runs, calvinsys has exactly the objects the actors refer to,
\* and one slot of sys->fds is taken for every CoAP object.  A failed open may end
\* the process, and a start from a file that cannot be restored does if an actor
\* was made before the failure: the theorem is about what runs on.
THEOREM ObjectsAreOwned == Spec => []ObjectsOwned
<1>1. DevicesInv => ObjectsOwned
  <2> SUFFICES ASSUME DevicesInv PROVE ObjectsOwned
    OBVIOUS
  <2>1. NodeSound(node)
    BY DEF DevicesInv
  <2>2. PICK n : n = node
    OBVIOUS
  <2>3. NodeSound(n)
    BY <2>1, <2>2
  <2>4. ASSUME NEW i \in DOMAIN n.objects
        PROVE  n.objects[i].actor \in DOMAIN n.actors /\ n.actors[n.objects[i].actor].refs[n.objects[i].cap] = i
    BY <2>3, SoundFacts
  <2>5. ASSUME NEW a \in DOMAIN n.actors
        PROVE  /\ DOMAIN n.actors[a].refs = Opens(n.actors[a].type)
               /\ \A c \in DOMAIN n.actors[a].refs :
                    n.actors[a].refs[c] \in DOMAIN n.objects /\ Object(n, a, c).actor = a
    BY <2>3, SoundFacts
  <2>6. n.fds = Cardinality(CoapObjects(n))
    BY <2>3, SoundFacts
  <2> QED
    BY <2>2, <2>4, <2>5, <2>6 DEF ObjectsOwned, Opens, CoapObjects
<1> QED
  BY <1>1, DevicesInvariant, PTL

\* TriggeredTemperature owes a reading for a trigger taken since it was made or
\* came back exactly while the thermometer has one: cc_actor_triggered_temperature
\* neither drops that trigger nor reads without one.  What was owed when the actor
\* was written down is lost, and triggers that come while a reading waits share it.
THEOREM OwedReadingWaits == Spec => []TriggersAnswered
<1>1. DevicesInv => TriggersAnswered
  <2> SUFFICES ASSUME DevicesInv, NEW a \in DOMAIN node.actors, node.actors[a].type = "TriggeredTemperature"
               PROVE  node.actors[a].owed = "yes" <=> cc_calvinsys_can_read(node, a, "io.temperature")
    BY DEF TriggersAnswered
  <2>1. PICK n : n = node
    OBVIOUS
  <2>2. NodeSound(n) /\ host \in Hosts /\ a \in DOMAIN n.actors /\ n.actors[a].type = "TriggeredTemperature"
    BY <2>1 DEF DevicesInv
  <2>3. "io.temperature" \in Opens(n.actors[a].type)
    BY <2>2, OpensFacts
  <2>4. Device("io.temperature") \in Thermometers
    BY <2>2, <2>3, ThermometerFacts
  <2>5. Known(n, a, "io.temperature") /\ (n.actors[a].owed = "yes" <=> Object(n, a, "io.temperature").st.ready)
    BY <2>2, <2>3 DEF NodeSound, ActorSound
  <2>6. can_read(Device("io.temperature"), Object(n, a, "io.temperature").st) = Object(n, a, "io.temperature").st.ready
    BY <2>4 DEF can_read, Thermometers
  <2> QED
    BY <2>1, <2>5, <2>6 DEF cc_calvinsys_can_read
<1> QED
  BY <1>1, DevicesInvariant, PTL
=============================================================================
