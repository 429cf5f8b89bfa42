------------------------------ MODULE Devices ------------------------------
(***************************************************************************)
(* Actors and the devices they use: calvinsys (cc_calvinsys.c), its         *)
(* capabilities on four platforms, the actors written in C, and what moves  *)
(* an actor: creating, migrating, storing and restoring it.                 *)
(*                                                                          *)
(* An operator takes the node n to the set of nodes the code may leave      *)
(* behind.  Token values, readings and time are left out: a queue is a      *)
(* number of tokens, and an armed timer may be due at any time (TimerLoop   *)
(* has the times).  A timer, a sensor, a pin and a CoAP resource are all    *)
(* [ready, armed, reads]: something can be read; something will become      *)
(* readable by itself; how often it was read.                               *)
(***************************************************************************)
EXTENDS Integers, Sequences, FiniteSets, SequencesExt

CONSTANTS
  Hosts,       \* the platforms to look at, a subset of AllHosts
  Actors,      \* actor ids
  ActorsOn,    \* the ids that are used on each platform
  Args,        \* arguments of new actors: "none", "set", "zero" for a number, "other" for no number
  Tokens,      \* tokens for in-ports: "uint", and "other" for what is no number
  Replies,     \* whether the other runtime takes an actor, a subset of BOOLEAN
  QueueSize,   \* slots of a port's queue
  MaxFds,      \* CC_CALVINSYS_MAX_FDS: 10 in the code
  MaxReadings, \* readings of a test pin: 5 in the code
  MaxMoves     \* bound: actors created, migrated, disconnected and deleted, and processes stopped

AllHosts == {"x86", "x86_coap", "esp8266", "android"}

ASSUME DevicesAssumption ==
  /\ Hosts \subseteq AllHosts /\ Args \subseteq {"none", "set", "zero", "other"}
  /\ Tokens \subseteq {"uint", "other"} /\ Replies \subseteq BOOLEAN
  /\ IsFiniteSet(Actors) /\ ActorsOn \in [AllHosts -> SUBSET Actors]
  /\ QueueSize \in Nat \ {0} /\ MaxFds \in Nat /\ MaxReadings \in Nat \ {0} /\ MaxMoves \in Nat

VARIABLES
  host,    \* the platform
  node,    \* [up, actors, objects, fds]: the process
  stored,  \* the state in storage: serialised actors
  peer,    \* serialised actors the other runtime has, or was sent
  moves

vars == <<host, node, stored, peer, moves>>

NoActors == [a \in {} |-> 0]
Fails(n) == {[ok |-> FALSE, n |-> n]}
Done(n) == {[ok |-> TRUE, n |-> n]}

\* The process ends, whether by itself or by a bad pointer.
Dead(n) == [n EXCEPT !.up = FALSE, !.actors = NoActors, !.objects = NoActors, !.fds = 0]

(***************************************************************************)
(* The C actors.  What init asks of the argument ("ignores", "optional",    *)
(* "required", or "assumed" to be there), and the objects it opens.         *)
(***************************************************************************)
cc_actor_identity_init == [arg |-> "optional", opens |-> <<>>]
cc_actor_replica_identity_init == [arg |-> "optional", opens |-> <<>>]
cc_actor_log_init == [arg |-> "assumed", opens |-> <<>>]
cc_actor_button_init == [arg |-> "optional", opens |-> <<"io.button">>]
cc_actor_light_init == [arg |-> "ignores", opens |-> <<"io.light">>]
cc_actor_soil_moisture_init == [arg |-> "optional", opens |-> <<"io.soilmoisture", "sys.timer.once">>]
cc_actor_temperature_init == [arg |-> "required", opens |-> <<"io.temperature", "sys.timer.once">>]
cc_actor_triggered_temperature_init == [arg |-> "ignores", opens |-> <<"io.temperature">>]
cc_actor_temperature_tagged_init == [arg |-> "optional", opens |-> <<"io.temperature", "sys.timer.once">>]
cc_actor_registry_attribute_init == [arg |-> "required", opens |-> <<"sys.attribute.indexed">>]
cc_actor_accelerometer_init == [arg |-> "required", opens |-> <<"io.accelerometer">>]
cc_actor_gyroscope_init == [arg |-> "required", opens |-> <<"io.gyroscope">>]
cc_actor_coap_init == [arg |-> "ignores", opens |-> <<"io.resource">>]

TypeOf ==
  [Identity |-> cc_actor_identity_init, ReplicaIdentity |-> cc_actor_replica_identity_init,
   Log |-> cc_actor_log_init, Button |-> cc_actor_button_init, Light |-> cc_actor_light_init,
   SoilMoisture |-> cc_actor_soil_moisture_init, Temperature |-> cc_actor_temperature_init,
   TriggeredTemperature |-> cc_actor_triggered_temperature_init,
   TemperatureTagged |-> cc_actor_temperature_tagged_init,
   RegistryAttribute |-> cc_actor_registry_attribute_init,
   Accelerometer |-> cc_actor_accelerometer_init, Gyroscope |-> cc_actor_gyroscope_init,
   Coap |-> cc_actor_coap_init]

\* CC_C_ACTORS: the types a platform is built with.
x86_actors == {"Identity", "Button", "Light", "SoilMoisture", "Temperature", "TriggeredTemperature",
               "TemperatureTagged", "RegistryAttribute", "Log", "ReplicaIdentity"}
esp8266_actors == {"Identity", "Button", "Light", "SoilMoisture", "Temperature",
                   "TriggeredTemperature", "TemperatureTagged", "RegistryAttribute"}
android_actors == {"Accelerometer", "Gyroscope"}
\* One type for every name in the start argument.
cc_libcoap_create == {"Log", "Coap"}

cc_actor_store_init ==
  CASE host = "x86" -> x86_actors [] host = "esp8266" -> esp8266_actors
    [] host = "android" -> android_actors [] host = "x86_coap" -> cc_libcoap_create

\* CC_CAPABILITIES and cc_platform_create: the device behind a capability.
cc_calvinsys_add_capabilities ==
  CASE host = "x86"      -> [c \in {"io.temperature", "io.light", "io.button"} |->
                               IF c = "io.temperature" THEN "test_temperature" ELSE "test_gpio"]
    [] host = "esp8266"  -> [c \in {"io.temperature", "io.light", "io.soil_moisture"} |->
                               CASE c = "io.temperature" -> "ds18b20" [] c = "io.light" -> "gpio"
                                 [] OTHER -> "yl69"]
    [] host = "android"  -> [c \in {"io.accelerometer", "io.gyroscope"} |->
                               IF c = "io.accelerometer" THEN "accelerometer" ELSE "gyroscope"]
    [] host = "x86_coap" -> [c \in {"io.resource"} |-> "coap"]

\* The capabilities the runtime adds on every platform.
cc_calvinsys_create_capability ==
  [c \in {"sys.timer.once", "sys.attribute.indexed"} |-> IF c = "sys.timer.once" THEN "timer" ELSE "attribute"]

\* "none": no such capability.
Device(cap) ==
  CASE cap \in DOMAIN cc_calvinsys_add_capabilities  -> cc_calvinsys_add_capabilities[cap]
    [] cap \in DOMAIN cc_calvinsys_create_capability -> cc_calvinsys_create_capability[cap]
    [] OTHER -> "none"

(***************************************************************************)
(* The devices: what open leaves (a set, empty if it must fail), and what   *)
(* read and write do.                                                       *)
(***************************************************************************)
Idle == [ready |-> FALSE, armed |-> FALSE, reads |-> 0]
Armed == [Idle EXCEPT !.armed = TRUE]

cc_test_temperature_open == {Idle}
cc_test_gpio_open == {Idle}
cc_calvinsys_ds18b20_open == {Idle}
cc_calvinsys_gpio_open == {Idle}
cc_calvinsys_yl69_open == {[Idle EXCEPT !.ready = TRUE]}
\* Armed at once if there is a period, which has to be a number.
cc_calvinsys_timer_open(arg) == IF arg = "other" THEN {} ELSE {IF arg = "set" THEN Armed ELSE Idle}
cc_calvinsys_attribute_open == {Idle}
\* The sensor produces readings from now on.
cc_accelerometer_open(arg) == IF arg \in {"set", "zero"} THEN {Armed} ELSE {}
cc_gyroscope_open(arg) == IF arg \in {"set", "zero"} THEN {Armed} ELSE {}
\* A slot of sys->fds has to be free.
cc_calvinsys_coap_open(n) == IF n.fds < MaxFds THEN {Idle} ELSE {}

\* Devices that may be out of reach, so that open fails.
MayBeMissing == {"accelerometer", "gyroscope", "coap"}

Opened(n, d, arg) ==
  CASE d = "test_temperature" -> cc_test_temperature_open
    [] d = "test_gpio" -> cc_test_gpio_open
    [] d = "ds18b20"   -> cc_calvinsys_ds18b20_open
    [] d = "gpio"      -> cc_calvinsys_gpio_open
    [] d = "yl69"      -> cc_calvinsys_yl69_open
    [] d = "timer"     -> cc_calvinsys_timer_open(arg)
    [] d = "attribute" -> cc_calvinsys_attribute_open
    [] d = "accelerometer" -> cc_accelerometer_open(arg)
    [] d = "gyroscope" -> cc_gyroscope_open(arg)
    [] d = "coap"      -> cc_calvinsys_coap_open(n)
    [] OTHER           -> {}

\* can_read; the pins of x86 can be read a number of times, outputs too.
cc_gpio_can_read(st) == st.reads < MaxReadings
can_read(d, st) == IF d = "test_gpio" THEN cc_gpio_can_read(st) ELSE st.ready

cc_gpio_read(st) == [st EXCEPT !.reads = @ + 1]
\* The name stays set, and can be read again.
cc_calvinsys_attribute_read(st) == st
\* One reading for one measurement, timer or datagram.
cc_temperature_read(st) == [st EXCEPT !.ready = FALSE]
read(d, st) ==
  CASE d = "test_gpio" -> cc_gpio_read(st)
    [] d \in {"attribute", "yl69"} -> cc_calvinsys_attribute_read(st)
    [] OTHER -> cc_temperature_read(st)

cc_calvinsys_timer_can_write(st) == ~(st.ready \/ st.armed)
can_write(d, st) ==
  CASE d = "timer" -> cc_calvinsys_timer_can_write(st)
    [] d \in {"yl69", "accelerometer", "gyroscope"} -> FALSE
    [] OTHER -> TRUE

\* write: whether it succeeded, and the state after it.
cc_temperature_write(st) == {[ok |-> TRUE, st |-> [st EXCEPT !.ready = TRUE]]}
\* can_read is set before the sensors are looked for, and stays set if there is none.
cc_calvinsys_ds18b20_write(st) == {[ok |-> b, st |-> [st EXCEPT !.ready = TRUE]] : b \in BOOLEAN}
cc_gpio_write(st, data) == {[ok |-> data = "uint", st |-> st]}
cc_calvinsys_timer_write(st, data) ==
  {IF cc_calvinsys_timer_can_write(st) /\ data = "uint" THEN [ok |-> TRUE, st |-> [st EXCEPT !.armed = TRUE]]
   ELSE [ok |-> FALSE, st |-> st]}
\* Whether the runtime has such an attribute.
cc_calvinsys_attribute_write(st) ==
  {[ok |-> b, st |-> [st EXCEPT !.ready = b]] : b \in BOOLEAN}
\* One datagram asks for observation, and may not arrive.
cc_coap_write(st) ==
  {[ok |-> TRUE, st |-> [st EXCEPT !.armed = @ \/ b]] : b \in BOOLEAN} \cup {[ok |-> FALSE, st |-> st]}
write(d, st, data) ==
  CASE d = "test_temperature"       -> cc_temperature_write(st)
    [] d = "ds18b20"                -> cc_calvinsys_ds18b20_write(st)
    [] d \in {"test_gpio", "gpio"}  -> cc_gpio_write(st, data)
    [] d = "timer"                  -> cc_calvinsys_timer_write(st, data)
    [] d = "attribute"              -> cc_calvinsys_attribute_write(st)
    [] d = "coap"                   -> cc_coap_write(st)
    [] OTHER                        -> {[ok |-> FALSE, st |-> st]}

\* serialize: most devices have none, and are as new when they are restored.
cc_calvinsys_timer_serialize(st) == st
serialize(d, st) == IF d \in {"timer", "attribute"} THEN cc_calvinsys_timer_serialize(st) ELSE Idle

MutantKeepUnarmed(st) == {st}

\* A timer that was not armed is written with no time for its next trigger,
\* which is read as zero: every restored timer is armed.
cc_calvinsys_timer_deserialize(st) == {[st EXCEPT !.armed = TRUE]}
\* The name is looked up again, in the attributes of this runtime.
cc_calvinsys_attribute_deserialize(st) == {st}
\* NULL in the tables of esp8266.
Restores(d) == d \notin {"none", "ds18b20", "gpio", "yl69"}
deserialize(n, d, st) ==
  CASE d = "timer"     -> cc_calvinsys_timer_deserialize(st)
    [] d = "attribute" -> cc_calvinsys_attribute_deserialize(st)
    [] OTHER           -> Opened(n, d, "set")

(***************************************************************************)
(* calvinsys.                                                               *)
(***************************************************************************)
Put(f, k, v) == [x \in DOMAIN f \cup {k} |-> IF x = k THEN v ELSE f[x]]
Without(f, S) == [x \in DOMAIN f \ S |-> f[x]]

\* cc_gen_uuid: an id that nothing refers to.
Mentioned(n) ==
  DOMAIN n.objects \cup UNION {DOMAIN s.objs : s \in {stored[a] : a \in DOMAIN stored} \cup {peer[a] : a \in DOMAIN peer}}
Fresh(n) == CHOOSE i \in 1 .. Cardinality(Mentioned(n)) + 1 : i \notin Mentioned(n)

\* The object is in the list; a CoAP object takes a slot of sys->fds.
AddObject(n, id, cap, a, st) ==
  [n EXCEPT !.objects = Put(@, id, [cap |-> cap, actor |-> a, st |-> st]),
            !.fds = IF Device(cap) = "coap" THEN @ + 1 ELSE @]

\* Opens cap for actor a, and keeps the id in the actor's instance state.  If
\* the device cannot be opened, obj is freed and then read for the id to take
\* from the list: with an allocator that leaves freed memory as it was this does
\* what it should, with others the pointer is bad.
cc_calvinsys_open(n, a, cap) ==
  LET d == Device(cap)
      id == Fresh(n)
  IN {[ok |-> TRUE, n |-> [AddObject(n, id, cap, a, st) EXCEPT !.actors[a].refs = Put(@, cap, id)]] :
        st \in Opened(n, d, n.actors[a].arg)}
     \cup (IF d \in MayBeMissing \/ Opened(n, d, n.actors[a].arg) = {}
           THEN Fails(n) \cup (IF d = "none" THEN {} ELSE Fails(Dead(n))) ELSE {})

\* What the calls with an object's id see; an id that is not in the list is refused.
Known(n, a, cap) == n.actors[a].refs[cap] \in DOMAIN n.objects
Object(n, a, cap) == n.objects[n.actors[a].refs[cap]]
cc_calvinsys_can_read(n, a, cap) ==
  Known(n, a, cap) /\ can_read(Device(cap), Object(n, a, cap).st)
cc_calvinsys_can_write(n, a, cap) ==
  Known(n, a, cap) /\ can_write(Device(cap), Object(n, a, cap).st)
cc_calvinsys_read(n, a, cap) ==
  [n EXCEPT !.objects[n.actors[a].refs[cap]].st = read(Device(cap), @)]
cc_calvinsys_write(n, a, cap, data) ==
  IF Known(n, a, cap)
  THEN {[ok |-> w.ok, n |-> [n EXCEPT !.objects[n.actors[a].refs[cap]].st = w.st]] :
          w \in write(Device(cap), Object(n, a, cap).st, data)}
  ELSE Fails(n)

\* cc_coap_close frees the slot.
cc_calvinsys_close(n, ids) ==
  [n EXCEPT !.objects = Without(@, ids),
            !.fds = @ - Cardinality({i \in ids : Device(n.objects[i].cap) = "coap"})]

\* The objects of an actor, as they are written.
cc_calvinsys_get_attributes(n, a) ==
  [i \in {j \in DOMAIN n.objects : n.objects[j].actor = a} |->
     [cap |-> n.objects[i].cap, st |-> serialize(Device(n.objects[i].cap), n.objects[i].st)]]

\* One object o = [id, cap, actor, st] is restored.
Restored(n, o) ==
  LET d == Device(o.cap)
      states == IF Restores(d) THEN deserialize(n, d, o.st) ELSE {}
  IN {[ok |-> TRUE, n |-> AddObject(n, o.id, o.cap, o.actor, st)] : st \in states}
     \cup (IF states = {} \/ d \in MayBeMissing \cup {"attribute"} THEN Fails(n) ELSE {})

\* Objects keep their ids.  The first one that cannot be restored ends it.
RestoreNext(results, o) == UNION {IF r.ok THEN Restored(r.n, o) ELSE {r} : r \in results}
cc_calvinsys_deserialize(n, a, objs) ==
  LET ids == SetToSeq(DOMAIN objs)
  IN FoldLeft(RestoreNext, Done(n),
              [k \in DOMAIN ids |-> [id |-> ids[k], cap |-> objs[ids[k]].cap, actor |-> a, st |-> objs[ids[k]].st]])

(***************************************************************************)
(* What firing an actor does.                                               *)
(***************************************************************************)
MutantSlot(n, a) == n.actors[a].out <= QueueSize

\* cc_fifo_slots_available, cc_fifo_tokens_available.
Slot(n, a) == n.actors[a].out < QueueSize
HasToken(n, a) == n.actors[a].in # <<>>
Emit(n, a) == [n EXCEPT !.actors[a].out = @ + 1]
Consume(n, a) == [n EXCEPT !.actors[a].in = Tail(@)]

\* Reads cap and sends what it read, if there is room for it.
Forward(n, a, cap) ==
  {IF cc_calvinsys_can_read(n, a, cap) /\ Slot(n, a) THEN Emit(cc_calvinsys_read(n, a, cap), a) ELSE n}

cc_actor_identity_fire(n, a) ==
  {IF HasToken(n, a) /\ Slot(n, a) THEN Emit(Consume(n, a), a) ELSE n}
\* Passes on numbers only; another token stays, and stops the actor.
cc_actor_replica_identity_fire(n, a) ==
  {IF HasToken(n, a) /\ Slot(n, a) /\ Head(n.actors[a].in) = "uint" THEN Emit(Consume(n, a), a) ELSE n}
cc_actor_log_fire(n, a) == {IF HasToken(n, a) THEN Consume(n, a) ELSE n}
cc_actor_button_fire(n, a) == Forward(n, a, "io.button")
cc_actor_accelerometer_fire(n, a) == Forward(n, a, "io.accelerometer")
cc_actor_gyroscope_fire(n, a) == Forward(n, a, "io.gyroscope")
\* A token the pin does not take stays in the queue.
cc_actor_light_fire(n, a) ==
  IF HasToken(n, a)
  THEN {IF w.ok THEN Consume(w.n, a) ELSE w.n : w \in cc_calvinsys_write(n, a, "io.light", Head(n.actors[a].in))}
  ELSE {n}
\* The attribute is read for every token.
cc_actor_registry_attribute_fire(n, a) ==
  {IF cc_calvinsys_can_read(n, a, "sys.attribute.indexed") /\ HasToken(n, a) /\ Slot(n, a)
   THEN Emit(Consume(n, a), a) ELSE n}
\* A datagram that is no good is read and dropped.
cc_actor_coap_fire(n, a) ==
  IF cc_calvinsys_can_read(n, a, "io.resource") /\ Slot(n, a)
  THEN {Emit(cc_calvinsys_read(n, a, "io.resource"), a), cc_calvinsys_read(n, a, "io.resource")}
  ELSE {n}
\* Both have to be readable, and then the timer refuses to be set.
TimedReading(n, a, cap) ==
  IF cc_calvinsys_can_read(n, a, "sys.timer.once") /\ cc_calvinsys_can_read(n, a, cap) /\ Slot(n, a)
  THEN {IF w.ok THEN Emit(cc_calvinsys_read(w.n, a, cap), a) ELSE w.n :
          w \in cc_calvinsys_write(n, a, "sys.timer.once", "other")}
  ELSE {n}
cc_actor_soil_moisture_fire(n, a) == TimedReading(n, a, "io.soilmoisture")
cc_actor_temperature_tagged_fire(n, a) == TimedReading(n, a, "io.temperature")

\* The reading goes out and the timer is set to the period; without one the
\* process ends.
cc_actor_temperature_read_measurement(n, a) ==
  IF cc_calvinsys_can_read(n, a, "io.temperature") /\ cc_calvinsys_can_write(n, a, "sys.timer.once") /\ Slot(n, a)
  THEN IF n.actors[a].arg = "gone" THEN {Dead(n)}
       ELSE {w.n : w \in cc_calvinsys_write(Emit(cc_calvinsys_read(n, a, "io.temperature"), a), a, "sys.timer.once", "uint")}
  ELSE {n}
\* The timer's trigger is used up even if the measurement cannot be started.
cc_actor_temperature_start_measurement(n, a) ==
  IF cc_calvinsys_can_read(n, a, "sys.timer.once") /\ cc_calvinsys_can_write(n, a, "io.temperature")
  THEN {w.n : w \in cc_calvinsys_write(cc_calvinsys_read(n, a, "sys.timer.once"), a, "io.temperature", "other")}
  ELSE {n}
cc_actor_temperature_fire(n, a) ==
  UNION {IF m.up THEN cc_actor_temperature_start_measurement(m, a) ELSE {m} :
           m \in cc_actor_temperature_read_measurement(n, a)}

\* A pending reading first, then the next trigger, which is taken even if the
\* reading is still there because there was no room for it.
cc_actor_triggered_temperature_read_measurement(n, a) ==
  {[m EXCEPT !.actors[a].owed = IF m = n THEN @ ELSE "no"] : m \in Forward(n, a, "io.temperature")}

MutantTriggerDropped(n, a) == {IF HasToken(n, a) THEN [Consume(n, a) EXCEPT !.actors[a].owed = "yes"] ELSE n}

cc_actor_triggered_temperature_trigger_measurement(n, a) ==
  IF HasToken(n, a) /\ cc_calvinsys_can_write(n, a, "io.temperature")
  THEN {[w.n EXCEPT !.actors[a].owed = "yes"] : w \in cc_calvinsys_write(Consume(n, a), a, "io.temperature", "other")}
  ELSE {n}
cc_actor_triggered_temperature_fire(n, a) ==
  UNION {cc_actor_triggered_temperature_trigger_measurement(m, a) :
           m \in cc_actor_triggered_temperature_read_measurement(n, a)}

fire(n, a) ==
  LET t == n.actors[a].type
  IN CASE t = "Identity"             -> cc_actor_identity_fire(n, a)
       [] t = "ReplicaIdentity"      -> cc_actor_replica_identity_fire(n, a)
       [] t = "Log"                  -> cc_actor_log_fire(n, a)
       [] t = "Button"               -> cc_actor_button_fire(n, a)
       [] t = "Accelerometer"        -> cc_actor_accelerometer_fire(n, a)
       [] t = "Gyroscope"            -> cc_actor_gyroscope_fire(n, a)
       [] t = "Light"                -> cc_actor_light_fire(n, a)
       [] t = "RegistryAttribute"    -> cc_actor_registry_attribute_fire(n, a)
       [] t = "Coap"                 -> cc_actor_coap_fire(n, a)
       [] t = "SoilMoisture"         -> cc_actor_soil_moisture_fire(n, a)
       [] t = "TemperatureTagged"    -> cc_actor_temperature_tagged_fire(n, a)
       [] t = "Temperature"          -> cc_actor_temperature_fire(n, a)
       [] t = "TriggeredTemperature" -> cc_actor_triggered_temperature_fire(n, a)

(***************************************************************************)
(* Writing an actor down.  get_managed_attributes of some types gives the   *)
(* argument away instead of a copy of it.                                   *)
(***************************************************************************)
\* The pointer becomes NULL and the size stays.
cc_actor_temperature_get_attributes(arg) == [written |-> arg, kept |-> "gone"]
cc_actor_accelerometer_get_attributes(arg) == [written |-> arg, kept |-> "gone"]
cc_actor_gyroscope_get_attributes(arg) == [written |-> arg, kept |-> "gone"]
cc_actor_log_get_attributes(arg) == [written |-> arg, kept |-> "gone"]
\* A text that is not there is written as a key without a value.
cc_actor_button_get_attributes(arg) ==
  [written |-> IF arg = "none" THEN "malformed" ELSE arg, kept |-> "none"]
\* The references only.
cc_actor_light_get_attributes(arg) == [written |-> arg, kept |-> arg]

get_managed_attributes(t, arg) ==
  CASE t = "Temperature"   -> cc_actor_temperature_get_attributes(arg)
    [] t = "Accelerometer" -> cc_actor_accelerometer_get_attributes(arg)
    [] t = "Gyroscope"     -> cc_actor_gyroscope_get_attributes(arg)
    [] t = "Log"           -> cc_actor_log_get_attributes(arg)
    [] t = "Button"        -> cc_actor_button_get_attributes(arg)
    [] OTHER               -> cc_actor_light_get_attributes(arg)

\* Copying an argument that is gone ends the process.
Writable(n, a) == n.actors[a].arg # "gone"

\* A _calvinsys attribute from the last time is still among the private
\* attributes, and is the one that will be found.
cc_actor_serialize(n, a) ==
  LET x == n.actors[a]
      objs == IF x.first = <<>> THEN cc_calvinsys_get_attributes(n, a) ELSE x.first[1]
  IN [type |-> x.type, arg |-> get_managed_attributes(x.type, x.arg).written,
      refs |-> x.refs, objs |-> objs, in |-> x.in, out |-> x.out, enabled |-> x.enabled, owed |-> x.owed]

\* The actor that was written down.
Serialized(n, a) ==
  [n EXCEPT !.actors[a].arg = get_managed_attributes(n.actors[a].type, @).kept,
            !.actors[a].first = <<cc_actor_serialize(n, a).objs>>]

(***************************************************************************)
(* Creating and freeing actors.                                             *)
(***************************************************************************)
MutantCloseAll(n, a) == [cc_calvinsys_close(n, DOMAIN n.objects) EXCEPT !.actors = Without(@, {a})]

\* All objects of the actor are closed.
cc_actor_free(n, a) ==
  [cc_calvinsys_close(n, {i \in DOMAIN n.objects : n.objects[i].actor = a}) EXCEPT !.actors = Without(@, {a})]

\* The next object o = [actor, cap] is opened; the first that cannot be ends it.
OpenNext(results, o) == UNION {IF r.ok THEN cc_calvinsys_open(r.n, o.actor, o.cap) ELSE {r} : r \in results}

\* init of a type.  RegistryAttribute sets the attribute to look for, the CoAP
\* actor asks for observation and takes a failure for success.
init(n, a) ==
  LET t == TypeOf[n.actors[a].type]
      arg == n.actors[a].arg
      opened == FoldLeft(OpenNext, Done(n), [k \in DOMAIN t.opens |-> [actor |-> a, cap |-> t.opens[k]]])
  IN IF arg = "none" /\ t.arg \in {"required", "assumed"}
     THEN Fails(IF t.arg = "required" THEN n ELSE Dead(n))
     ELSE CASE n.actors[a].type = "RegistryAttribute" ->
                 UNION {IF r.ok THEN cc_calvinsys_write(r.n, a, "sys.attribute.indexed", "other") ELSE {r} : r \in opened}
            [] n.actors[a].type = "Coap" ->
                 UNION {IF r.ok THEN {[w EXCEPT !.ok = TRUE] : w \in cc_calvinsys_write(r.n, a, "io.resource", "other")}
                        ELSE {r} : r \in opened}
            [] OTHER -> opened

\* set_state of a type: the references and the argument, which has to be there
\* for the types that have one.
set_state(n, a, s) ==
  LET m == [n EXCEPT !.actors[a].refs = s.refs]
  IN IF s.arg = "none" /\ TypeOf[s.type].arg \in {"required", "assumed"} THEN Fails(n)
     ELSE IF s.type = "Coap" THEN cc_calvinsys_write(m, a, "io.resource", "other")
     ELSE Done(m)

\* Whether the attributes can be decoded.
cc_actor_get_attributes(s) == s.arg # "malformed"

\* The actor is allocated; it is not enabled before its ports are connected.
\* owed is no state of the code but remembers whether TriggeredTemperature took
\* a trigger it has not answered: a reading is not written down, so the answer
\* an actor owed when it was is "lost".
cc_actor_create_from_type(n, a, s) ==
  [n EXCEPT !.actors = Put(@, a, [type |-> s.type, arg |-> s.arg, refs |-> NoActors, enabled |-> FALSE,
     away |-> FALSE, in |-> s.in, out |-> s.out, owed |-> IF s.owed = "no" THEN "no" ELSE "lost", first |-> <<>>])]

\* A shadow is initialised, anything else restored.  The registry is told if
\* there is a connection.  Whatever fails, the actor is freed.
cc_actor_create(n, a, s, shadow, connected) ==
  LET m == cc_actor_create_from_type(n, a, s)
      made == IF shadow THEN init(m, a)
              ELSE UNION {IF r.ok THEN set_state(r.n, a, s) ELSE {r} : r \in cc_calvinsys_deserialize(m, a, s.objs)}
      free(r) == [ok |-> FALSE, n |-> IF r.n.up THEN cc_actor_free(r.n, a) ELSE r.n]
  IN IF s.type \notin cc_actor_store_init \/ ~cc_actor_get_attributes(s) THEN Fails(n)
     ELSE {r \in made : r.ok} \cup {free(r) : r \in {x \in made : ~x.ok \/ connected}}

(***************************************************************************)
(* Steps.                                                                   *)
(***************************************************************************)
Move == moves < MaxMoves /\ moves' = moves + 1

Shadow(t, arg) ==
  [type |-> t, arg |-> arg, refs |-> NoActors, objs |-> NoActors, in |-> <<>>, out |-> 0,
   enabled |-> FALSE, owed |-> "no"]

\* ACTOR_NEW: a new actor, or one that was here before.
cc_proto_parse_actor_new(a) ==
  /\ node.up /\ a \notin DOMAIN node.actors /\ Move
  /\ \/ /\ a \notin DOMAIN peer \cup DOMAIN stored
        /\ \E t \in DOMAIN TypeOf, arg \in Args :
             \E r \in cc_actor_create(node, a, Shadow(t, arg), TRUE, TRUE) : node' = r.n
        /\ UNCHANGED peer
     \/ /\ a \in DOMAIN peer
        /\ \E r \in cc_actor_create(node, a, peer[a], FALSE, TRUE) :
             node' = r.n /\ peer' = IF r.ok THEN Without(peer, {a}) ELSE peer
  /\ UNCHANGED <<host, stored>>

\* The ports of an actor are all connected, or one of them no longer is.
Connect(a) ==
  /\ a \in DOMAIN node.actors /\ ~node.actors[a].enabled /\ ~node.actors[a].away
  /\ node' = [node EXCEPT !.actors[a].enabled = TRUE]
  /\ UNCHANGED <<host, stored, peer, moves>>

cc_actor_port_disconnected(a) ==
  /\ a \in DOMAIN node.actors /\ node.actors[a].enabled /\ Move
  /\ node' = [node EXCEPT !.actors[a].enabled = FALSE]
  /\ UNCHANGED <<host, stored, peer>>

\* The ports are disconnected and the actor is sent away; it stays until the
\* answer is there.
cc_actor_migrate(a) ==
  /\ a \in DOMAIN node.actors /\ ~node.actors[a].away /\ Move
  /\ IF Writable(node, a)
     THEN /\ node' = [Serialized(node, a) EXCEPT !.actors[a].enabled = FALSE, !.actors[a].away = TRUE]
          /\ peer' = Put(peer, a, cc_actor_serialize(node, a))
     ELSE node' = Dead(node) /\ UNCHANGED peer
  /\ UNCHANGED <<host, stored>>

\* Nothing is undone if the other runtime does not take it.
cc_actor_migrate_reply_handler(a) ==
  /\ a \in DOMAIN node.actors /\ node.actors[a].away
  /\ \E taken \in Replies :
       /\ taken => cc_actor_get_attributes(peer[a])
       /\ node' = IF taken THEN cc_actor_free(node, a) ELSE [node EXCEPT !.actors[a].away = FALSE]
       /\ peer' = IF taken THEN peer ELSE Without(peer, {a})
  /\ UNCHANGED <<host, stored, moves>>

Delete(a) ==
  /\ a \in DOMAIN node.actors /\ ~node.actors[a].away /\ Move
  /\ node' = cc_actor_free(node, a)
  /\ UNCHANGED <<host, stored, peer>>

Fire(a) ==
  /\ a \in DOMAIN node.actors /\ node.actors[a].enabled
  /\ node' \in fire(node, a)
  /\ UNCHANGED <<host, stored, peer, moves>>

TokenIn(a) ==
  /\ a \in DOMAIN node.actors /\ node.actors[a].enabled /\ Len(node.actors[a].in) < QueueSize
  /\ \E t \in Tokens : node' = [node EXCEPT !.actors[a].in = Append(@, t)]
  /\ UNCHANGED <<host, stored, peer, moves>>

TokenOut(a) ==
  /\ a \in DOMAIN node.actors /\ node.actors[a].enabled /\ node.actors[a].out > 0
  /\ node' = [node EXCEPT !.actors[a].out = @ - 1]
  /\ UNCHANGED <<host, stored, peer, moves>>

\* The timer is due.
cc_calvinsys_timers_check(st) == [st EXCEPT !.ready = TRUE, !.armed = FALSE]
\* The looper's callback replaces a reading nobody has read; select finds a datagram.
cc_accelerometer_looper_callback(st) == [st EXCEPT !.ready = TRUE]

Happens(i) ==
  /\ i \in DOMAIN node.objects /\ node.objects[i].st.armed
  /\ node' = [node EXCEPT !.objects[i].st =
                IF Device(node.objects[i].cap) = "timer" THEN cc_calvinsys_timers_check(@)
                ELSE cc_accelerometer_looper_callback(@)]
  /\ UNCHANGED <<host, stored, peer, moves>>

\* All actors are written to storage and the process ends.
cc_node_set_state ==
  /\ node.up /\ Move
  /\ stored' = IF \A a \in DOMAIN node.actors : Writable(node, a)
               THEN [a \in DOMAIN node.actors |-> cc_actor_serialize(node, a)] ELSE stored
  /\ node' = Dead(node)
  /\ UNCHANGED <<host, peer>>

\* The process ends without warning.
Crash == node.up /\ Move /\ node' = Dead(node) /\ UNCHANGED <<host, stored, peer>>

\* The ports of a restored actor.  If all were connected, they still are.  A
\* port that was not is connected at once: to a peer elsewhere through the
\* transport client, which there is not yet, so that the process ends.
cc_actor_connect_ports(r, a) ==
  IF stored[a].enabled THEN Done([r.n EXCEPT !.actors[a].enabled = TRUE])
  ELSE Done(r.n) \cup Fails(Dead(r.n))

CreateNext(results, a) ==
  UNION {IF r.ok
         THEN UNION {IF x.ok THEN cc_actor_connect_ports(x, a) ELSE {x} :
                       x \in cc_actor_create(r.n, a, stored[a], FALSE, FALSE)}
         ELSE {r} : r \in results}

\* The actors are freed and an empty state is written.  Freeing one tells the
\* registry, through the transport client too: the process ends, and what is
\* stored stays.
cc_node_reset(n) ==
  IF n.up /\ n.actors = NoActors THEN node' = n /\ stored' = NoActors
  ELSE node' = Dead(n) /\ UNCHANGED stored

\* The process starts from storage.  An actor that cannot be restored resets
\* the node.
cc_node_get_state ==
  /\ ~node.up
  /\ \E r \in FoldLeft(CreateNext, Done([node EXCEPT !.up = TRUE]), SetToSeq(DOMAIN stored)) :
       IF r.ok THEN node' = r.n /\ UNCHANGED stored ELSE cc_node_reset(r.n)
  /\ UNCHANGED <<host, peer, moves>>

Init ==
  /\ host \in Hosts /\ stored = NoActors /\ peer = NoActors /\ moves = 0
  /\ node = [up |-> TRUE, actors |-> NoActors, objects |-> NoActors, fds |-> 0]

Ids == 1 .. 6 * Cardinality(Actors) + 1

Next ==
  \/ \E a \in ActorsOn[host] :
       \/ cc_proto_parse_actor_new(a) \/ Connect(a) \/ cc_actor_port_disconnected(a)
       \/ cc_actor_migrate(a) \/ cc_actor_migrate_reply_handler(a) \/ Delete(a)
       \/ Fire(a) \/ TokenIn(a) \/ TokenOut(a)
  \/ \E i \in Ids : Happens(i)
  \/ cc_node_set_state \/ Crash \/ cc_node_get_state

Spec == Init /\ [][Next]_vars

(***************************************************************************)
(* Properties.                                                              *)
(***************************************************************************)
State == [ready : BOOLEAN, armed : BOOLEAN, reads : 0 .. MaxReadings]
Arg == {"none", "set", "zero", "other", "gone"}

TypeOK ==
  /\ host \in Hosts /\ node.up \in BOOLEAN /\ node.fds \in 0 .. MaxFds /\ moves \in 0 .. MaxMoves
  /\ DOMAIN node.objects \subseteq Ids /\ DOMAIN node.actors \subseteq Actors
  /\ \A i \in DOMAIN node.objects : node.objects[i].st \in State
  /\ \A a \in DOMAIN node.actors :
       /\ node.actors[a].arg \in Arg /\ node.actors[a].out \in 0 .. QueueSize
       /\ Len(node.actors[a].in) <= QueueSize

\* The list of objects is what the actors opened, no more (an actor that could
\* not be made, left or was deleted closed its objects) and no less (an actor
\* that came back finds the ids it kept), with one slot of sys->fds for every
\* CoAP object.
ObjectsOwned ==
  /\ \A i \in DOMAIN node.objects :
       LET o == node.objects[i] IN o.actor \in DOMAIN node.actors /\ node.actors[o.actor].refs[o.cap] = i
  /\ \A a \in DOMAIN node.actors :
       LET x == node.actors[a]
       IN /\ DOMAIN x.refs = Range(TypeOf[x.type].opens)
          /\ \A c \in DOMAIN x.refs : x.refs[c] \in DOMAIN node.objects /\ Object(node, a, c).actor = a
  /\ node.fds = Cardinality({i \in DOMAIN node.objects : Device(node.objects[i].cap) = "coap"})

\* What TriggeredTemperature took and did not answer, and the reading it has for
\* it, agree: a trigger taken since the actor was made or came back has its
\* reading waiting, though there may be no room to send it and the actor be cut
\* off, and no reading comes without a trigger.  Triggers that come while a
\* reading waits share it, and a reading that waits when the actor is written
\* down does not come back: what was owed then is lost.
TriggersAnswered ==
  \A a \in DOMAIN node.actors :
    node.actors[a].type = "TriggeredTemperature" =>
      (node.actors[a].owed = "yes" <=> cc_calvinsys_can_read(node, a, "io.temperature"))

\* Temperature is never left without a measurement or the timer that starts the
\* next one, wherever a restart or a migration came between the two, as long as
\* it has a period (a period of zero never starts it, and one that was given
\* away in a migration that was refused ends the process).
StillMeasures ==
  \A a \in DOMAIN node.actors :
    node.actors[a].type = "Temperature" /\ node.actors[a].arg = "set" =>
      \/ cc_calvinsys_can_read(node, a, "io.temperature")
      \/ Object(node, a, "sys.timer.once").st.ready
      \/ Object(node, a, "sys.timer.once").st.armed
=============================================================================
