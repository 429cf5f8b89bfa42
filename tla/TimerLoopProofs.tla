--------------------------- MODULE TimerLoopProofs ---------------------------
(***************************************************************************)
(* Proofs about module TimerLoop, for any number of actors and any periods. *)
(***************************************************************************)
EXTENDS TimerLoop, DataInduction, FiniteSetTheorems, SequenceTheorems, TLAPS

(***************************************************************************)
(* The list of timers.                                                      *)
(***************************************************************************)
\* The actors of the timers in a list differ.
Distinct(objs) == \A i, j \in DOMAIN objs : objs[i].actor = objs[j].actor => i = j

\* Closing the timer of an actor leaves it none and leaves the others alone.
LEMMA CloseFacts ==
  ASSUME NEW objs \in Seq(Timer), Distinct(objs), NEW a \in Actor,
         NEW new, new = cc_calvinsys_close(objs, a)
  PROVE  /\ new \in Seq(Timer)
         /\ Distinct(new)
         /\ \A i \in DOMAIN new : new[i].actor # a /\ \E j \in DOMAIN objs : new[i] = objs[j]
         /\ \A j \in DOMAIN objs : objs[j].actor # a => \E i \in DOMAIN new : new[i] = objs[j]
<1> DEFINE Own == {i \in DOMAIN objs : objs[i].actor = a}
           k == CHOOSE i \in Own : TRUE
           n == Len(objs)
<1>1. n \in Nat /\ DOMAIN objs = 1 .. n
  BY Indexes
<1>2. CASE Own = {}
  <2>1. new = objs
    BY <1>2 DEF cc_calvinsys_close
  <2> QED
    BY <1>2, <2>1
<1>3. CASE Own # {}
  <2>1. k \in Own /\ new = RemoveAt(objs, k)
    BY <1>3 DEF cc_calvinsys_close
  <2>2. k \in 1 .. n /\ objs[k].actor = a
    BY <1>1, <2>1
  <2> HIDE DEF k, n, Own
  <2>3. /\ new \in Seq(Timer) /\ DOMAIN new = 1 .. n - 1
        /\ \A i \in DOMAIN new : new[i] = IF i < k THEN objs[i] ELSE objs[i + 1]
    <3>1. k \in DOMAIN objs /\ objs \in Seq(Timer)
      BY <1>1, <2>2 DEF n
    <3> QED
      BY <2>1, <3>1, RemoveAtFacts DEF n
  <2>4. \A i \in 1 .. n - 1 : \E j \in 1 .. n :
          j # k /\ new[i] = objs[j] /\ j = (IF i < k THEN i ELSE i + 1)
    BY <1>1, <2>2, <2>3
  <2>5. \A i \in DOMAIN new : new[i].actor # a /\ \E j \in DOMAIN objs : new[i] = objs[j]
    BY <1>1, <2>2, <2>3, <2>4 DEF Distinct
  <2>6. Distinct(new)
    <3> SUFFICES ASSUME NEW i \in 1 .. n - 1, NEW j \in 1 .. n - 1, new[i].actor = new[j].actor
                 PROVE  i = j
      BY <2>3 DEF Distinct
    <3>1. PICK x \in 1 .. n : new[i] = objs[x] /\ x = (IF i < k THEN i ELSE i + 1)
      BY <2>4
    <3>2. PICK y \in 1 .. n : new[j] = objs[y] /\ y = (IF j < k THEN j ELSE j + 1)
      BY <2>4
    <3>3. x = y
      BY <1>1, <3>1, <3>2 DEF Distinct
    <3> QED
      BY <1>1, <2>2, <3>1, <3>2, <3>3
  <2>7. ASSUME NEW j \in DOMAIN objs, objs[j].actor # a
        PROVE  \E i \in DOMAIN new : new[i] = objs[j]
    <3>1. j # k /\ j \in 1 .. n
      BY <1>1, <2>2, <2>7
    <3>2. CASE j < k
      <4>1. j \in 1 .. n - 1 /\ new[j] = objs[j]
        BY <1>1, <2>2, <2>3, <3>1, <3>2
      <4> QED
        BY <2>3, <4>1
    <3>3. CASE j > k
      <4>1. j - 1 \in 1 .. n - 1 /\ new[j - 1] = objs[j]
        BY <1>1, <2>2, <2>3, <3>1, <3>3
      <4> QED
        BY <2>3, <4>1
    <3> QED
      BY <1>1, <2>2, <3>1, <3>2, <3>3
  <2> QED
    BY <2>3, <2>5, <2>6, <2>7
<1> QED
  BY <1>2, <1>3

\* A timer that is opened or set runs for the period of its actor.
LEMMA TimerSetFacts ==
  ASSUME NEW t \in Timer
  PROVE  /\ cc_calvinsys_timer_set(t) \in Timer
         /\ cc_calvinsys_timer_set(t).actor = t.actor
         /\ cc_calvinsys_timer_set(t).repeats = t.repeats
         /\ cc_calvinsys_timer_set(t).triggered = t.triggered
         /\ cc_calvinsys_timer_set(t).armed = TRUE
         /\ cc_calvinsys_timer_set(t).left = Sleep[t.actor]
<1>1. Sleep[t.actor] \in Nat
  BY ActorAssumption DEF Timer
<1> QED
  BY <1>1 DEF Timer, cc_calvinsys_timer_set

\* Opening a timer puts a running one at the end of the list.
LEMMA OpenFacts ==
  ASSUME NEW objs \in Seq(Timer), NEW a \in Actor, NEW r \in BOOLEAN
  PROVE  \E t \in Timer :
           /\ cc_calvinsys_timer_open(objs, a, r) = Append(objs, t)
           /\ t.actor = a /\ t.repeats = r /\ t.armed = TRUE /\ t.triggered = FALSE
           /\ t.left = Sleep[a]
<1> DEFINE t == [actor |-> a, repeats |-> r, armed |-> FALSE, left |-> 0, triggered |-> FALSE]
<1>1. t \in Timer /\ t.actor = a /\ t.repeats = r /\ t.triggered = FALSE
  BY DEF Timer
<1>2. Sleep[a] > 0
  BY ActorAssumption
<1>3. cc_calvinsys_timer_open(objs, a, r) = Append(objs, cc_calvinsys_timer_set(t))
  BY <1>2 DEF cc_calvinsys_timer_open
<1> HIDE DEF t
<1> QED
  BY <1>1, <1>3, TimerSetFacts

\* Reading a timer that has gone off sets it again when it repeats.
LEMMA ReadFacts ==
  ASSUME NEW t \in Timer, NEW u, u = cc_calvinsys_timer_read(t)
  PROVE  /\ u \in Timer /\ u.actor = t.actor /\ u.repeats = t.repeats /\ u.triggered = FALSE
         /\ t.repeats => u.armed /\ u.left = Sleep[t.actor]
         /\ ~t.repeats => u.armed = t.armed /\ u.left = t.left
<1> DEFINE v == [t EXCEPT !.triggered = FALSE]
<1>1. /\ v \in Timer /\ v.actor = t.actor /\ v.repeats = t.repeats /\ v.triggered = FALSE
      /\ v.armed = t.armed /\ v.left = t.left
  BY DEF Timer
<1>2. u = IF t.repeats THEN cc_calvinsys_timer_set(v) ELSE v
  BY DEF cc_calvinsys_timer_read
<1> HIDE DEF v
<1> QED
  BY <1>1, <1>2, TimerSetFacts, ZenonT(30)

\* Writing a timer sets it unless it runs or has gone off.
LEMMA WriteFacts ==
  ASSUME NEW t \in Timer, NEW u, u = cc_calvinsys_timer_write(t)
  PROVE  /\ u \in Timer /\ u.actor = t.actor /\ u.repeats = t.repeats /\ u.triggered = t.triggered
         /\ t.armed \/ t.triggered => u = t
         /\ ~t.armed /\ ~t.triggered => u.armed /\ u.left = Sleep[t.actor]
BY TimerSetFacts DEF cc_calvinsys_timer_write, cc_calvinsys_timer_can_write

\* The check triggers the timers that are due.
LEMMA CheckedFacts ==
  ASSUME NEW objs \in Seq(Timer), NEW new, new = TimersChecked(objs)
  PROVE  /\ new \in Seq(Timer) /\ DOMAIN new = DOMAIN objs
         /\ \A i \in DOMAIN objs :
              /\ new[i] \in Timer
              /\ new[i].actor = objs[i].actor /\ new[i].repeats = objs[i].repeats
              /\ new[i].left = objs[i].left
              /\ Due(objs[i]) => new[i].triggered /\ ~new[i].armed
              /\ ~Due(objs[i]) => new[i] = objs[i]
<1>1. DOMAIN objs = 1 .. Len(objs) /\ Len(objs) \in Nat /\ \A i \in DOMAIN objs : objs[i] \in Timer
  BY Indexes
<1>2. ASSUME NEW t \in Timer, NEW u, u = [t EXCEPT !.triggered = TRUE, !.armed = FALSE]
      PROVE  /\ u \in Timer /\ u.actor = t.actor /\ u.repeats = t.repeats /\ u.left = t.left
             /\ u.triggered /\ ~u.armed
  BY <1>2 DEF Timer
<1>3. /\ DOMAIN new = DOMAIN objs
      /\ \A i \in DOMAIN objs :
           new[i] = IF Due(objs[i]) THEN [objs[i] EXCEPT !.triggered = TRUE, !.armed = FALSE]
                                    ELSE objs[i]
      /\ new = [i \in DOMAIN objs |-> new[i]]
  BY DEF TimersChecked
<1>4. \A i \in DOMAIN objs :
        /\ new[i] \in Timer
        /\ new[i].actor = objs[i].actor /\ new[i].repeats = objs[i].repeats
        /\ new[i].left = objs[i].left
        /\ Due(objs[i]) => new[i].triggered /\ ~new[i].armed
        /\ ~Due(objs[i]) => new[i] = objs[i]
  BY <1>1, <1>2, <1>3, ZenonT(30)
<1> QED
  BY <1>3, <1>4, SameIndexes

(***************************************************************************)
(* One actor fires.                                                         *)
(***************************************************************************)
StateType ==
  [objects : Seq(Timer), count : [Actor -> Start .. Steps], stopped : [Actor -> BOOLEAN],
   queue : [Actor -> 0 .. QueueLen], since : [Actor -> Nat], fired : BOOLEAN]

\* The fields of a state.
LEMMA StateFields ==
  ASSUME NEW st \in StateType
  PROVE  /\ st.objects \in Seq(Timer) /\ st.count \in [Actor -> Start .. Steps]
         /\ st.stopped \in [Actor -> BOOLEAN] /\ st.queue \in [Actor -> 0 .. QueueLen]
         /\ st.since \in [Actor -> Nat] /\ st.fired \in BOOLEAN
         /\ DOMAIN st.objects = 1 .. Len(st.objects) /\ Len(st.objects) \in Nat
         /\ \A i \in DOMAIN st.objects : st.objects[i] \in Timer
BY Indexes DEF StateType

\* A state is made of its fields.
LEMMA StateMake ==
  ASSUME NEW o \in Seq(Timer), NEW c \in [Actor -> Start .. Steps], NEW x \in [Actor -> BOOLEAN],
         NEW q \in [Actor -> 0 .. QueueLen], NEW s \in [Actor -> Nat], NEW f \in BOOLEAN
  PROVE  [objects |-> o, count |-> c, stopped |-> x, queue |-> q, since |-> s, fired |-> f]
           \in StateType
BY DEF StateType

\* The numbers and periods of an actor.
LEMMA ActorFields ==
  ASSUME NEW st \in StateType, NEW a \in Actor
  PROVE  /\ st.count[a] \in Nat /\ Start <= st.count[a] /\ st.count[a] <= Steps
         /\ st.queue[a] \in Nat /\ st.queue[a] <= QueueLen /\ st.since[a] \in Nat
         /\ Start \in Nat /\ Steps \in Nat /\ QueueLen \in Nat
         /\ Sleep[a] \in Nat /\ Sleep[a] > 0
BY StateFields, ActorAssumption, ArgumentAssumption, LimitAssumption

\* What a timer's fields are.
LEMMA TimerFields ==
  ASSUME NEW t \in Timer
  PROVE  /\ t.actor \in Actor /\ t.repeats \in BOOLEAN /\ t.armed \in BOOLEAN
         /\ t.left \in Nat /\ t.triggered \in BOOLEAN
BY DEF Timer

\* A step that only concerns actor a and its timer keeps the invariant if it
\* does for that actor.
LEMMA OwnStep ==
  ASSUME NEW st \in StateType, NEW new \in StateType, NEW a \in Actor, NEW fresh \in BOOLEAN,
         TimersSound(st, fresh),
         \A b \in Actor : b # a => /\ new.count[b] = st.count[b] /\ new.queue[b] = st.queue[b]
                                   /\ new.since[b] = st.since[b],
         Distinct(new.objects),
         \A i \in DOMAIN new.objects : new.objects[i].actor # a =>
           \E j \in DOMAIN st.objects : new.objects[i] = st.objects[j],
         \A j \in DOMAIN st.objects : st.objects[j].actor # a =>
           \E i \in DOMAIN new.objects : new.objects[i] = st.objects[j],
         \A i \in DOMAIN new.objects : new.objects[i].actor = a =>
           TimerSound(new.objects[i], new, fresh),
         new.count[a] < Steps => \E i \in DOMAIN new.objects : new.objects[i].actor = a,
         new.queue[a] <= new.count[a] - Start
  PROVE  TimersSound(new, fresh)
<1>1. \A i \in DOMAIN new.objects : TimerSound(new.objects[i], new, fresh)
  <2> SUFFICES ASSUME NEW i \in DOMAIN new.objects, new.objects[i].actor # a
               PROVE  TimerSound(new.objects[i], new, fresh)
    OBVIOUS
  <2> DEFINE t == new.objects[i]
  <2>1. PICK j \in DOMAIN st.objects : t = st.objects[j]
    OBVIOUS
  <2>2. TimerSound(t, st, fresh)
    BY <2>1 DEF TimersSound
  <2>3. t.actor \in Actor /\ t.actor # a
    BY StateFields, TimerFields
  <2>4. new.count[t.actor] = st.count[t.actor] /\ new.since[t.actor] = st.since[t.actor]
    BY <2>3
  <2> HIDE DEF t
  <2>5. TimerSound(t, new, fresh)
    BY <2>2, <2>4 DEF TimerSound
  <2> QED
    BY <2>5 DEF t
<1>2. ASSUME NEW b \in Actor, new.count[b] < Steps
      PROVE  \E i \in DOMAIN new.objects : new.objects[i].actor = b
  <2>1. CASE b = a
    BY <1>2, <2>1
  <2>2. CASE b # a
    <3>1. PICK j \in DOMAIN st.objects : st.objects[j].actor = b
      BY <1>2, <2>2 DEF TimersSound
    <3>2. PICK i \in DOMAIN new.objects : new.objects[i] = st.objects[j]
      BY <2>2, <3>1
    <3> QED
      BY <3>1, <3>2
  <2> QED
    BY <2>1, <2>2
<1>3. \A b \in Actor : new.queue[b] <= new.count[b] - Start
  BY DEF TimersSound
<1>4. \A i, j \in DOMAIN new.objects : new.objects[i].actor = new.objects[j].actor => i = j
  BY DEF Distinct
<1> QED
  BY <1>1, <1>2, <1>3, <1>4 DEF TimersSound

\* A list in which only the timer of actor a is changed.
SameOthers(objs, new, a) ==
  /\ new \in Seq(Timer) /\ DOMAIN new = DOMAIN objs
  /\ \A i \in DOMAIN objs : /\ new[i].actor = objs[i].actor
                            /\ objs[i].actor # a => new[i] = objs[i]

\* Such a list has the same owners.
LEMMA SameOthersFacts ==
  ASSUME NEW objs \in Seq(Timer), Distinct(objs), NEW a \in Actor,
         NEW new, SameOthers(objs, new, a)
  PROVE  /\ Distinct(new)
         /\ \A i \in DOMAIN new : new[i].actor # a => \E j \in DOMAIN objs : new[i] = objs[j]
         /\ \A j \in DOMAIN objs : objs[j].actor # a => \E i \in DOMAIN new : new[i] = objs[j]
         /\ (\E i \in DOMAIN objs : objs[i].actor = a) => \E i \in DOMAIN new : new[i].actor = a
BY DEF SameOthers, Distinct

\* Reading the timer of an actor.
LEMMA UpdateRead ==
  ASSUME NEW objs \in Seq(Timer), NEW a \in Actor,
         NEW new, new = Update(objs, a, cc_calvinsys_timer_read)
  PROVE  /\ SameOthers(objs, new, a)
         /\ \A i \in DOMAIN objs : objs[i].actor = a => new[i] = cc_calvinsys_timer_read(objs[i])
<1>1. /\ new = [i \in DOMAIN objs |-> new[i]]
      /\ \A i \in DOMAIN objs :
           new[i] = IF objs[i].actor = a THEN cc_calvinsys_timer_read(objs[i]) ELSE objs[i]
  BY DEF Update
<1>2. \A i \in DOMAIN objs : objs[i] \in Timer
  BY Indexes
<1>3. \A i \in DOMAIN objs : new[i] \in Timer /\ new[i].actor = objs[i].actor
  BY <1>1, <1>2, ReadFacts
<1>4. new \in Seq(Timer) /\ DOMAIN new = DOMAIN objs
  BY <1>1, <1>3, SameIndexes
<1> QED
  BY <1>1, <1>3, <1>4 DEF SameOthers

\* Setting the timer of an actor.
LEMMA UpdateWrite ==
  ASSUME NEW objs \in Seq(Timer), NEW a \in Actor,
         NEW new, new = Update(objs, a, cc_calvinsys_timer_write)
  PROVE  /\ SameOthers(objs, new, a)
         /\ \A i \in DOMAIN objs : objs[i].actor = a => new[i] = cc_calvinsys_timer_write(objs[i])
<1>1. /\ new = [i \in DOMAIN objs |-> new[i]]
      /\ \A i \in DOMAIN objs :
           new[i] = IF objs[i].actor = a THEN cc_calvinsys_timer_write(objs[i]) ELSE objs[i]
  BY DEF Update
<1>2. \A i \in DOMAIN objs : objs[i] \in Timer
  BY Indexes
<1>3. \A i \in DOMAIN objs : new[i] \in Timer /\ new[i].actor = objs[i].actor
  BY <1>1, <1>2, WriteFacts
<1>4. new \in Seq(Timer) /\ DOMAIN new = DOMAIN objs
  BY <1>1, <1>3, SameIndexes
<1> QED
  BY <1>1, <1>3, <1>4 DEF SameOthers

\* A number is put on the out-port.
Sent(st, a, objs) == [Send(st, a) EXCEPT !.objects = objs]

\* What changes with it.
LEMMA SendFacts ==
  ASSUME NEW st \in StateType, NEW a \in Actor, Room(st, a), st.count[a] < Steps,
         NEW objs \in Seq(Timer),
         NEW new, new = Sent(st, a, objs)
  PROVE  /\ new \in StateType
         /\ new.objects = objs /\ new.stopped = st.stopped
         /\ new.count[a] = st.count[a] + 1
         /\ new.queue[a] = st.queue[a] + 1
         /\ new.since[a] = 0
         /\ \A b \in Actor : b # a => /\ new.count[b] = st.count[b] /\ new.queue[b] = st.queue[b]
                                      /\ new.since[b] = st.since[b]
<1> DEFINE c == [st.count EXCEPT ![a] = st.count[a] + 1]
           q == [st.queue EXCEPT ![a] = st.queue[a] + 1]
           s == [st.since EXCEPT ![a] = 0]
<1>1. /\ st.count \in [Actor -> Start .. Steps] /\ st.queue \in [Actor -> 0 .. QueueLen]
      /\ st.since \in [Actor -> Nat] /\ st.stopped \in [Actor -> BOOLEAN]
      /\ Start \in Nat /\ Steps \in Nat /\ QueueLen \in Nat
  BY StateFields, ActorFields
<1>2. /\ c \in [Actor -> Start .. Steps] /\ c[a] = st.count[a] + 1
      /\ \A b \in Actor : b # a => c[b] = st.count[b]
  BY <1>1
<1>3. /\ q \in [Actor -> 0 .. QueueLen] /\ q[a] = st.queue[a] + 1
      /\ \A b \in Actor : b # a => q[b] = st.queue[b]
  BY <1>1 DEF Room
<1>4. /\ s \in [Actor -> Nat] /\ s[a] = 0
      /\ \A b \in Actor : b # a => s[b] = st.since[b]
  BY <1>1
<1>5. new = [objects |-> objs, count |-> c, stopped |-> st.stopped, queue |-> q,
             since |-> s, fired |-> TRUE]
  BY DEF Sent, Send, StateType
<1>6. /\ new.objects = objs /\ new.stopped = st.stopped /\ new.count = c /\ new.queue = q
      /\ new.since = s
  BY <1>5
<1> HIDE DEF c, q, s
<1>7. new \in StateType
  <2>1. /\ c \in [Actor -> Start .. Steps] /\ st.stopped \in [Actor -> BOOLEAN]
        /\ q \in [Actor -> 0 .. QueueLen] /\ s \in [Actor -> Nat] /\ TRUE \in BOOLEAN
    BY <1>1, <1>2, <1>3, <1>4
  <2>2. [objects |-> objs, count |-> c, stopped |-> st.stopped, queue |-> q,
         since |-> s, fired |-> TRUE] \in StateType
    BY <2>1, StateMake
  <2> QED
    BY <1>5, <2>2
<1> QED
  BY <1>2, <1>3, <1>4, <1>6, <1>7

\* A step without a number that changes the list of timers.
LEMMA ObjectsFacts ==
  ASSUME NEW st \in StateType, NEW objs \in Seq(Timer), NEW new, new = [st EXCEPT !.objects = objs]
  PROVE  /\ new \in StateType /\ new.objects = objs /\ new.count = st.count
         /\ new.stopped = st.stopped /\ new.queue = st.queue /\ new.since = st.since
BY DEF StateType

\* What the fire methods promise: they keep the invariant and concern only
\* actor a, and until the node has been restarted a number is sent no earlier
\* than Sleep seconds after the one before.
Fires(st, new, a, fresh) ==
  /\ new \in StateType
  /\ TimersSound(new, fresh)
  /\ \A b \in Actor : b # a => new.count[b] = st.count[b]
  /\ new.count[a] >= st.count[a]
  /\ new.count[a] # st.count[a] /\ fresh => st.since[a] >= Sleep[a]
  /\ new.count[a] = st.count[a] => new.since = st.since

\* The single-shot phase, after which the timer has not gone off.
LEMMA NoPeriodicFires ==
  ASSUME NEW st \in StateType, NEW a \in Actor, NEW fresh \in BOOLEAN, TimersSound(st, fresh),
         NEW new, new = cc_actor_counttimer_step_no_periodic(st, a)
  PROVE  /\ Fires(st, new, a, fresh)
         /\ new.count[a] < Start + 3 =>
              new.count[a] >= Steps \/ ~cc_calvinsys_timer_can_read(new.objects, a)
<1> DEFINE idle == \/ st.count[a] >= Start + 3 \/ st.count[a] >= Steps
                   \/ ~cc_calvinsys_timer_can_read(st.objects, a)
           read == Update(st.objects, a, cc_calvinsys_timer_read)
           objs == IF st.count[a] = Start + 2
                   THEN cc_calvinsys_timer_open(cc_calvinsys_close(read, a), a, TRUE)
                   ELSE read
           written == Update(objs, a, cc_calvinsys_timer_write)
<1>1. new = IF idle THEN st
            ELSE IF Room(st, a)
                 THEN [Send(st, a) EXCEPT !.objects = written]
                 ELSE [st EXCEPT !.objects = objs]
  BY DEF cc_actor_counttimer_step_no_periodic
<1>2. CASE idle
  <2>1. new = st
    BY <1>1, <1>2
  <2> QED
    BY <1>2, <2>1, ActorFields DEF Fires
<1>3. CASE ~idle
  <2>1. /\ st.count[a] < Start + 3 /\ st.count[a] < Steps
        /\ cc_calvinsys_timer_can_read(st.objects, a)
    BY <1>3, ActorFields
  <2>2. /\ st.objects \in Seq(Timer) /\ Distinct(st.objects)
        /\ \A i \in DOMAIN st.objects : st.objects[i] \in Timer /\ TimerSound(st.objects[i], st, fresh)
        /\ st.queue[a] <= st.count[a] - Start
    BY StateFields DEF TimersSound, Distinct
  <2>3. PICK k \in DOMAIN st.objects : st.objects[k].actor = a /\ st.objects[k].triggered
    BY <2>1 DEF cc_calvinsys_timer_can_read
  <2>4. fresh => st.since[a] >= Sleep[a]
    BY <2>2, <2>3 DEF TimerSound
  <2> HIDE DEF read
  <2>5. /\ SameOthers(st.objects, read, a)
        /\ \A i \in DOMAIN st.objects : st.objects[i].actor = a =>
             read[i] = cc_calvinsys_timer_read(st.objects[i])
    BY <2>2, UpdateRead DEF read
  <2>6. /\ Distinct(read) /\ read \in Seq(Timer)
        /\ \A i \in DOMAIN read : read[i].actor # a =>
             \E j \in DOMAIN st.objects : read[i] = st.objects[j]
        /\ \A j \in DOMAIN st.objects : st.objects[j].actor # a =>
             \E i \in DOMAIN read : read[i] = st.objects[j]
        /\ \E i \in DOMAIN read : read[i].actor = a
    BY <2>2, <2>3, <2>5, SameOthersFacts, ZenonT(30) DEF SameOthers
  \* The timer after it has been read, and replaced when this is the third number.
  <2>7. /\ objs \in Seq(Timer) /\ Distinct(objs)
        /\ \A i \in DOMAIN objs : objs[i].actor # a =>
             \E j \in DOMAIN st.objects : objs[i] = st.objects[j]
        /\ \A j \in DOMAIN st.objects : st.objects[j].actor # a =>
             \E i \in DOMAIN objs : objs[i] = st.objects[j]
        /\ \E i \in DOMAIN objs : objs[i].actor = a
        /\ \A i \in DOMAIN objs : objs[i].actor = a =>
             /\ objs[i] \in Timer /\ objs[i].triggered = FALSE
             /\ st.count[a] = Start + 2 => objs[i].repeats
             /\ fresh /\ objs[i].armed => objs[i].left = Sleep[a]
    <3>1. CASE st.count[a] = Start + 2
      <4> DEFINE closed == cc_calvinsys_close(read, a)
      <4>1. objs = cc_calvinsys_timer_open(closed, a, TRUE)
        BY <3>1
      <4> HIDE DEF closed
      <4>2. /\ closed \in Seq(Timer) /\ Distinct(closed)
            /\ \A i \in DOMAIN closed : closed[i].actor # a /\ \E j \in DOMAIN read : closed[i] = read[j]
            /\ \A j \in DOMAIN read : read[j].actor # a => \E i \in DOMAIN closed : closed[i] = read[j]
        BY <2>6, CloseFacts DEF closed
      <4>3. PICK t \in Timer :
              /\ cc_calvinsys_timer_open(closed, a, TRUE) = Append(closed, t)
              /\ t.actor = a /\ t.repeats = TRUE /\ t.armed = TRUE /\ t.triggered = FALSE
              /\ t.left = Sleep[a]
        <5>1. closed \in Seq(Timer) /\ TRUE \in BOOLEAN
          BY <4>2
        <5> QED
          BY <5>1, OpenFacts, ZenonT(30)
      <4> DEFINE n == Len(closed)
      <4>4. n \in Nat /\ DOMAIN closed = 1 .. n
        BY <4>2, Indexes
      <4>5. /\ objs \in Seq(Timer) /\ DOMAIN objs = 1 .. n + 1
            /\ \A i \in 1 .. n : objs[i] = closed[i]
            /\ objs[n + 1] = t
        <5>1. closed \in Seq(Timer) /\ objs = Append(closed, t)
          BY <4>1, <4>2, <4>3
        <5> HIDE DEF objs
        <5> QED
          BY <4>4, <5>1
      <4> HIDE DEF objs, n
      <4>6. \A i \in 1 .. n + 1 : i = n + 1 \/ i \in 1 .. n
        BY <4>4
      <4>7. Distinct(objs)
        BY <4>2, <4>3, <4>4, <4>5, <4>6 DEF Distinct
      <4>8. \A i \in DOMAIN objs : objs[i].actor # a =>
              \E j \in DOMAIN st.objects : objs[i] = st.objects[j]
        BY <2>6, <4>2, <4>3, <4>4, <4>5, <4>6
      <4>9. ASSUME NEW j \in DOMAIN st.objects, st.objects[j].actor # a
            PROVE  \E i \in DOMAIN objs : objs[i] = st.objects[j]
        <5>1. PICK x \in DOMAIN read : read[x] = st.objects[j]
          BY <2>6, <4>9
        <5>2. PICK i \in DOMAIN closed : closed[i] = read[x]
          BY <4>2, <4>9, <5>1
        <5>3. i \in DOMAIN objs /\ objs[i] = closed[i]
          BY <4>4, <4>5, <5>2
        <5> QED
          BY <5>1, <5>2, <5>3
      <4>10. n + 1 \in DOMAIN objs
        BY <4>4, <4>5
      <4>11. \A i \in DOMAIN objs : objs[i].actor = a => objs[i] = t
        BY <4>2, <4>4, <4>5, <4>6
      <4> QED
        BY <4>3, <4>5, <4>7, <4>8, <4>9, <4>10, <4>11
    <3>2. CASE st.count[a] # Start + 2
      <4>1. objs = read
        BY <3>2
      <4>2. ASSUME NEW i \in DOMAIN read, read[i].actor = a
            PROVE  /\ read[i] \in Timer /\ read[i].triggered = FALSE
                   /\ fresh /\ read[i].armed => read[i].left = Sleep[a]
        <5>1. i \in DOMAIN st.objects /\ st.objects[i].actor = a
          BY <2>5, <4>2 DEF SameOthers
        <5>2. i = k
          BY <2>2, <2>3, <5>1 DEF Distinct
        <5>3. fresh => ~st.objects[i].armed
          BY <2>2, <2>3, <5>1, <5>2 DEF TimerSound
        <5>4. read[i] = cc_calvinsys_timer_read(st.objects[i]) /\ st.objects[i] \in Timer
          BY <2>2, <2>5, <5>1
        <5> QED
          BY <5>1, <5>3, <5>4, ReadFacts
      <4> QED
        BY <2>6, <3>2, <4>1, <4>2
    <3> QED
      BY <3>1, <3>2
  <2> HIDE DEF objs
  <2>8. CASE Room(st, a)
    <3>1. new = Sent(st, a, written)
      BY <1>1, <1>3, <2>8 DEF Sent
    <3> HIDE DEF written
    <3>2. /\ SameOthers(objs, written, a)
          /\ \A i \in DOMAIN objs : objs[i].actor = a =>
               written[i] = cc_calvinsys_timer_write(objs[i])
      <4>1. objs \in Seq(Timer)
        BY <2>7
      <4> QED
        BY <4>1, UpdateWrite DEF written
    <3>3. /\ Distinct(written) /\ written \in Seq(Timer) /\ DOMAIN written = DOMAIN objs
          /\ \A i \in DOMAIN written : written[i].actor # a =>
               \E j \in DOMAIN objs : written[i] = objs[j]
          /\ \A j \in DOMAIN objs : objs[j].actor # a =>
               \E i \in DOMAIN written : written[i] = objs[j]
          /\ \E i \in DOMAIN written : written[i].actor = a
      <4>1. /\ objs \in Seq(Timer) /\ Distinct(objs) /\ SameOthers(objs, written, a)
            /\ \E i \in DOMAIN objs : objs[i].actor = a
        BY <2>7, <3>2
      <4>2. written \in Seq(Timer) /\ DOMAIN written = DOMAIN objs
        BY <4>1 DEF SameOthers
      <4> QED
        BY <4>1, <4>2, SameOthersFacts
    <3>4. /\ new \in StateType
          /\ new.objects = written
          /\ new.count[a] = st.count[a] + 1
          /\ new.queue[a] = st.queue[a] + 1
          /\ new.since[a] = 0
          /\ \A b \in Actor : b # a => /\ new.count[b] = st.count[b] /\ new.queue[b] = st.queue[b]
                                       /\ new.since[b] = st.since[b]
      <4>1. st.count[a] < Steps /\ written \in Seq(Timer)
        BY <2>1, <3>3
      <4> QED
        BY <2>8, <3>1, <4>1, SendFacts
    <3>5. ASSUME NEW i \in DOMAIN written, written[i].actor = a
          PROVE  ~written[i].triggered /\ TimerSound(written[i], new, fresh)
      <4> DEFINE t == objs[i]
                 u == written[i]
      <4>1. i \in DOMAIN objs /\ t.actor = a
        BY <3>2, <3>3, <3>5 DEF SameOthers
      <4>2. /\ t \in Timer /\ t.triggered = FALSE
            /\ st.count[a] = Start + 2 => t.repeats
            /\ fresh /\ t.armed => t.left = Sleep[a]
        BY <2>7, <4>1
      <4>3. u = cc_calvinsys_timer_write(t) /\ u.actor = a
        BY <3>2, <3>5, <4>1
      <4> HIDE DEF t, u
      <4>4. /\ u.repeats = t.repeats /\ u.triggered = FALSE /\ u.armed
            /\ fresh => u.left = Sleep[a]
        BY <4>1, <4>2, <4>3, WriteFacts
      <4>5. new.count[a] >= Start + 3 => u.repeats
        BY <2>1, <3>4, <4>2, <4>4, ActorFields
      <4>6. Sleep[a] \in Nat /\ new.since[a] = 0
        BY <3>4, ActorFields
      <4>7. TimerSound(u, new, fresh)
        BY <4>3, <4>4, <4>5, <4>6 DEF TimerSound
      <4> QED
        BY <4>4, <4>7 DEF u
    <3>6. new.queue[a] <= new.count[a] - Start
      BY <2>2, <3>4, ActorFields
    <3>7. /\ \A i \in DOMAIN written : written[i].actor # a =>
               \E j \in DOMAIN st.objects : written[i] = st.objects[j]
          /\ \A j \in DOMAIN st.objects : st.objects[j].actor # a =>
               \E i \in DOMAIN written : written[i] = st.objects[j]
      BY <2>7, <3>3
    <3>8. TimersSound(new, fresh)
      BY <3>3, <3>4, <3>5, <3>6, <3>7, OwnStep
    <3>9. ~cc_calvinsys_timer_can_read(written, a)
      BY <3>5 DEF cc_calvinsys_timer_can_read
    <3>10. new.count[a] # st.count[a] /\ new.count[a] >= st.count[a]
      BY <3>4, ActorFields
    <3> QED
      BY <2>4, <3>4, <3>8, <3>9, <3>10 DEF Fires
  <2>9. CASE ~Room(st, a)
    <3>1. new = [st EXCEPT !.objects = objs]
      BY <1>1, <1>3, <2>9
    <3>2. /\ new \in StateType /\ new.objects = objs /\ new.count = st.count
          /\ new.queue = st.queue /\ new.since = st.since
      BY <2>7, <3>1, ObjectsFacts
    <3>3. ~(QueueLen >= 3)
      BY <2>1, <2>2, <2>9, ActorFields DEF Room
    <3>4. ASSUME NEW i \in DOMAIN objs, objs[i].actor = a
          PROVE  TimerSound(objs[i], new, fresh)
      <4> DEFINE t == objs[i]
      <4>1. t \in Timer /\ t.triggered = FALSE /\ (fresh /\ t.armed => t.left = Sleep[a]) /\ t.actor = a
        BY <2>7, <3>4
      <4> HIDE DEF t
      <4>2. ~(new.count[a] >= Start + 3)
        BY <2>1, <3>2, ActorFields
      <4>3. new.since[a] \in Nat /\ Sleep[a] \in Nat
        BY <3>2, ActorFields
      <4>4. TimerSound(t, new, fresh)
        BY <3>3, <4>1, <4>2, <4>3 DEF TimerSound
      <4> QED
        BY <4>4 DEF t
    <3>5. TimersSound(new, fresh)
      BY <2>2, <2>7, <3>2, <3>4, OwnStep
    <3>6. ~cc_calvinsys_timer_can_read(objs, a)
      BY <2>7 DEF cc_calvinsys_timer_can_read
    <3> QED
      BY <3>2, <3>5, <3>6, ActorFields DEF Fires
  <2> QED
    BY <2>8, <2>9
<1> QED
  BY <1>2, <1>3

\* The repeating phase: the timer has been set again when it is read.
LEMMA PeriodicFires ==
  ASSUME NEW st \in StateType, NEW a \in Actor, NEW fresh \in BOOLEAN, TimersSound(st, fresh),
         st.count[a] < Start + 3 =>
           st.count[a] >= Steps \/ ~cc_calvinsys_timer_can_read(st.objects, a),
         NEW new, new = cc_actor_counttimer_step_periodic(st, a)
  PROVE  Fires(st, new, a, fresh)
<1> DEFINE idle == st.count[a] >= Steps \/ ~cc_calvinsys_timer_can_read(st.objects, a)
           objs == Update(st.objects, a, cc_calvinsys_timer_read)
<1>1. new = IF idle THEN st ELSE IF Room(st, a) THEN Sent(st, a, objs) ELSE [st EXCEPT !.objects = objs]
  BY DEF cc_actor_counttimer_step_periodic, Sent
<1>2. CASE idle
  <2>1. new = st
    BY <1>1, <1>2
  <2> QED
    BY <2>1, ActorFields DEF Fires
<1>3. CASE ~idle
  <2>1. /\ st.count[a] < Steps /\ st.count[a] >= Start + 3
        /\ cc_calvinsys_timer_can_read(st.objects, a)
    BY <1>3, ActorFields
  <2>2. /\ st.objects \in Seq(Timer) /\ Distinct(st.objects)
        /\ \A i \in DOMAIN st.objects : st.objects[i] \in Timer /\ TimerSound(st.objects[i], st, fresh)
        /\ st.queue[a] <= st.count[a] - Start
    BY StateFields DEF TimersSound, Distinct
  <2>3. PICK k \in DOMAIN st.objects : st.objects[k].actor = a /\ st.objects[k].triggered
    BY <2>1 DEF cc_calvinsys_timer_can_read
  <2>4. fresh => st.since[a] >= Sleep[a]
    BY <2>2, <2>3 DEF TimerSound
  <2> HIDE DEF objs
  <2>5. /\ SameOthers(st.objects, objs, a)
        /\ \A i \in DOMAIN st.objects : st.objects[i].actor = a =>
             objs[i] = cc_calvinsys_timer_read(st.objects[i])
    BY <2>2, UpdateRead, ZenonT(30) DEF objs
  <2>6. /\ Distinct(objs) /\ objs \in Seq(Timer)
        /\ \A i \in DOMAIN objs : objs[i].actor # a =>
             \E j \in DOMAIN st.objects : objs[i] = st.objects[j]
        /\ \A j \in DOMAIN st.objects : st.objects[j].actor # a =>
             \E i \in DOMAIN objs : objs[i] = st.objects[j]
        /\ \E i \in DOMAIN objs : objs[i].actor = a
    BY <2>2, <2>3, <2>5, SameOthersFacts, ZenonT(30) DEF SameOthers
  <2>7. ASSUME NEW i \in DOMAIN objs, objs[i].actor = a,
               NEW n \in StateType, n.count[a] \in Nat, n.since[a] \in Nat
        PROVE  TimerSound(objs[i], n, fresh)
    <3> DEFINE t == objs[i]
    <3>1. i \in DOMAIN st.objects /\ st.objects[i].actor = a
      BY <2>5, <2>7 DEF SameOthers
    <3>2. t = cc_calvinsys_timer_read(st.objects[i]) /\ st.objects[i] \in Timer
      BY <2>2, <2>5, <3>1
    <3>3. st.objects[i].repeats
      BY <2>1, <2>2, <3>1 DEF TimerSound
    <3>4. t.repeats /\ t.armed /\ t.left = Sleep[a] /\ t.triggered = FALSE
      BY <3>1, <3>2, <3>3, ReadFacts
    <3>5. Sleep[a] \in Nat
      BY ActorFields
    <3> HIDE DEF t
    <3>6. t.actor = a
      BY <2>7 DEF t
    <3>7. TimerSound(t, n, fresh)
      BY <2>7, <3>4, <3>5, <3>6 DEF TimerSound
    <3> QED
      BY <3>7 DEF t
  <2>8. CASE Room(st, a)
    <3>1. new = Sent(st, a, objs) /\ st.count[a] < Steps /\ objs \in Seq(Timer)
      BY <1>1, <1>3, <2>1, <2>6, <2>8
    <3>2. /\ new \in StateType
          /\ new.objects = objs
          /\ new.count[a] = st.count[a] + 1
          /\ new.queue[a] = st.queue[a] + 1
          /\ new.since[a] = 0
          /\ \A b \in Actor : b # a => /\ new.count[b] = st.count[b] /\ new.queue[b] = st.queue[b]
                                       /\ new.since[b] = st.since[b]
      BY <2>8, <3>1, SendFacts
    <3>3. /\ new.queue[a] <= new.count[a] - Start /\ new.count[a] # st.count[a]
          /\ new.count[a] >= st.count[a] /\ new.count[a] \in Nat /\ new.since[a] \in Nat
      BY <2>2, <3>2, ActorFields, SMTT(30)
    <3>4. \A i \in DOMAIN objs : objs[i].actor = a => TimerSound(objs[i], new, fresh)
      BY <2>7, <3>2, <3>3
    <3>5. TimersSound(new, fresh)
      BY <2>6, <3>2, <3>3, <3>4, OwnStep
    <3> QED
      BY <2>4, <3>2, <3>3, <3>5 DEF Fires
  <2>9. CASE ~Room(st, a)
    <3>1. new = [st EXCEPT !.objects = objs]
      BY <1>1, <1>3, <2>9
    <3>2. /\ new \in StateType /\ new.objects = objs /\ new.count = st.count
          /\ new.queue = st.queue /\ new.since = st.since
      BY <2>6, <3>1, ObjectsFacts
    <3>3. \A i \in DOMAIN objs : objs[i].actor = a => TimerSound(objs[i], new, fresh)
      BY <2>7, <3>2, ActorFields
    <3>4. TimersSound(new, fresh)
      BY <2>2, <2>6, <3>2, <3>3, OwnStep
    <3> QED
      BY <3>2, <3>4, ActorFields DEF Fires
  <2> QED
    BY <2>8, <2>9
<1> QED
  BY <1>2, <1>3

\* An actor that has sent all its numbers closes its timer.
LEMMA StopFires ==
  ASSUME NEW st \in StateType, NEW a \in Actor, NEW fresh \in BOOLEAN, TimersSound(st, fresh),
         NEW new, new = cc_actor_counttimer_stop(st, a)
  PROVE  Fires(st, new, a, fresh)
<1> DEFINE idle == st.stopped[a] \/ st.count[a] # Steps
           objs == cc_calvinsys_close(st.objects, a)
           x == [st.stopped EXCEPT ![a] = TRUE]
<1>1. CASE idle
  <2>1. new = st
    BY <1>1 DEF cc_actor_counttimer_stop
  <2> QED
    BY <2>1, ActorFields DEF Fires
<1>2. CASE ~idle
  <2>1. /\ st.objects \in Seq(Timer) /\ Distinct(st.objects)
        /\ st.queue[a] <= st.count[a] - Start
    BY StateFields DEF TimersSound, Distinct
  <2>2. new = [objects |-> objs, count |-> st.count, stopped |-> x, queue |-> st.queue,
               since |-> st.since, fired |-> TRUE]
    BY <1>2 DEF cc_actor_counttimer_stop, StateType
  <2> HIDE DEF objs
  <2>3. /\ objs \in Seq(Timer) /\ Distinct(objs)
        /\ \A i \in DOMAIN objs : objs[i].actor # a /\ \E j \in DOMAIN st.objects : objs[i] = st.objects[j]
        /\ \A j \in DOMAIN st.objects : st.objects[j].actor # a =>
             \E i \in DOMAIN objs : objs[i] = st.objects[j]
    BY <2>1, CloseFacts DEF objs
  <2>4. x \in [Actor -> BOOLEAN]
    BY StateFields
  <2> HIDE DEF x
  <2>5. /\ new.objects = objs /\ new.count = st.count /\ new.queue = st.queue /\ new.since = st.since
    BY <2>2
  <2>6. new \in StateType
    <3>1. /\ objs \in Seq(Timer) /\ st.count \in [Actor -> Start .. Steps]
          /\ st.queue \in [Actor -> 0 .. QueueLen] /\ st.since \in [Actor -> Nat] /\ TRUE \in BOOLEAN
      BY <2>3, StateFields
    <3>2. [objects |-> objs, count |-> st.count, stopped |-> x, queue |-> st.queue,
           since |-> st.since, fired |-> TRUE] \in StateType
      BY <2>4, <3>1, StateMake
    <3> QED
      BY <2>2, <3>2
  <2>7. ~(st.count[a] < Steps)
    BY <1>2, ActorFields
  <2>8. TimersSound(new, fresh)
    BY <2>1, <2>3, <2>5, <2>6, <2>7, OwnStep
  <2> QED
    BY <2>5, <2>6, <2>8, ActorFields DEF Fires
<1> QED
  BY <1>1, <1>2

\* The three fire methods one after the other.
LEMMA CountTimerFires ==
  ASSUME NEW st \in StateType, NEW a \in Actor, NEW fresh \in BOOLEAN, TimersSound(st, fresh),
         NEW new, new = cc_actor_counttimer_fire(st, a)
  PROVE  Fires(st, new, a, fresh)
<1> DEFINE s1 == cc_actor_counttimer_step_no_periodic(st, a)
           s2 == cc_actor_counttimer_step_periodic(s1, a)
<1>1. new = cc_actor_counttimer_stop(s2, a)
  BY DEF cc_actor_counttimer_fire
<1> HIDE DEF s1, s2
<1>2. /\ Fires(st, s1, a, fresh)
      /\ s1.count[a] < Start + 3 =>
           s1.count[a] >= Steps \/ ~cc_calvinsys_timer_can_read(s1.objects, a)
  BY NoPeriodicFires DEF s1
<1>3. s1 \in StateType /\ TimersSound(s1, fresh)
  BY <1>2 DEF Fires
<1>4. Fires(s1, s2, a, fresh)
  BY <1>2, <1>3, PeriodicFires DEF s2
<1>5. s2 \in StateType /\ TimersSound(s2, fresh)
  BY <1>4 DEF Fires
<1>6. Fires(s2, new, a, fresh)
  BY <1>1, <1>5, StopFires
<1>7. new.count[a] = s2.count[a]
  BY <1>1, <1>5 DEF cc_actor_counttimer_stop, StateType
<1>8. st.count[a] \in Nat /\ s1.count[a] \in Nat /\ s2.count[a] \in Nat
  BY <1>3, <1>5, ActorFields
<1>9. CASE s1.count[a] = st.count[a]
  BY <1>2, <1>4, <1>6, <1>7, <1>8, <1>9 DEF Fires
<1>10. CASE s1.count[a] # st.count[a]
  <2>1. new.count[a] > st.count[a]
    BY <1>2, <1>4, <1>7, <1>8, <1>10 DEF Fires
  <2> QED
    BY <1>2, <1>4, <1>6, <1>7, <1>8, <1>10, <2>1 DEF Fires
<1> QED
  BY <1>9, <1>10

(***************************************************************************)
(* The invariant is inductive.                                              *)
(***************************************************************************)
\* The current state has its type.
LEMMA CurrentState ==
  ASSUME TypeOK
  PROVE  /\ State \in StateType
         /\ State.objects = objects /\ State.count = count /\ State.stopped = stopped
         /\ State.queue = queue /\ State.since = since /\ State.fired = fired
<1>1. /\ State.objects = objects /\ State.count = count /\ State.stopped = stopped
      /\ State.queue = queue /\ State.since = since /\ State.fired = fired
  BY DEF State
<1> QED
  BY <1>1, StateMake DEF State, TypeOK

\* The invariant in terms of the variables.
LEMMA SoundFacts ==
  ASSUME TimerInv
  PROVE  /\ TypeOK
         /\ objects \in Seq(Timer) /\ Distinct(objects)
         /\ \A i \in DOMAIN objects : objects[i] \in Timer
         /\ \A a \in Actor : count[a] < Steps => \E i \in DOMAIN objects : objects[i].actor = a
         /\ \A i \in DOMAIN objects : TimerSound(objects[i], State, restores = 0)
         /\ \A a \in Actor : queue[a] <= count[a] - Start
<1>1. TypeOK /\ objects \in Seq(Timer)
  BY DEF TimerInv, TypeOK
<1>2. \A i \in DOMAIN objects : objects[i] \in Timer
  BY <1>1, Indexes
<1>3. State.objects = objects /\ State.count = count /\ State.queue = queue
  BY <1>1, CurrentState
<1> QED
  BY <1>1, <1>2, <1>3 DEF TimerInv, TimersSound, Distinct

\* Initially every actor has just opened its timer.
LEMMA TimerInit == Init => TimerInv
<1> SUFFICES ASSUME Init PROVE TimerInv
  OBVIOUS
<1>1. /\ NActors \in Nat \ {0} /\ Start \in Nat /\ Steps \in Nat /\ Start <= Steps
      /\ QueueLen \in Nat /\ MaxRestores \in Nat /\ \A a \in Actor : Sleep[a] \in Nat
      /\ Actor = 1 .. NActors
  BY ActorAssumption, ArgumentAssumption, LimitAssumption DEF Actor
<1>2. ASSUME NEW a \in Actor
      PROVE  /\ objects[a] \in Timer /\ objects[a].actor = a /\ objects[a].armed = TRUE
             /\ objects[a].triggered = FALSE /\ objects[a].left = Sleep[a]
  <2>1. <<>> \in Seq(Timer) /\ FALSE \in BOOLEAN
    OBVIOUS
  <2>2. PICK t \in Timer :
          /\ cc_calvinsys_timer_open(<<>>, a, FALSE) = Append(<<>>, t)
          /\ t.actor = a /\ t.repeats = FALSE /\ t.armed = TRUE /\ t.triggered = FALSE
          /\ t.left = Sleep[a]
    BY <2>1, OpenFacts, ZenonT(30)
  <2>3. objects[a] = cc_calvinsys_timer_open(<<>>, a, FALSE)[1]
    BY DEF Init
  <2>4. Append(<<>>, t)[1] = t
    OBVIOUS
  <2> QED
    BY <2>2, <2>3, <2>4
<1>3. DOMAIN objects = Actor /\ objects \in [Actor -> Timer]
  BY <1>2 DEF Init
<1>4. objects \in Seq(Timer)
  BY <1>1, <1>3, SeqDef
<1>5. TypeOK
  <2>1. count \in [Actor -> Start .. Steps] /\ queue \in [Actor -> 0 .. QueueLen]
    BY <1>1 DEF Init
  <2>2. stopped \in [Actor -> BOOLEAN] /\ since \in [Actor -> Nat]
    BY DEF Init
  <2>3. turn \in Actor /\ restores \in 0 .. MaxRestores
    BY <1>1 DEF Init
  <2> QED
    BY <1>4, <2>1, <2>2, <2>3 DEF TypeOK, Init
<1>6. State.objects = objects /\ State.count = count /\ State.queue = queue /\ State.since = since
  BY <1>5, CurrentState
<1>7. \A a \in Actor : count[a] = Start /\ queue[a] = 0 /\ since[a] = 0
  BY DEF Init
<1>8. ASSUME NEW a \in Actor PROVE TimerSound(objects[a], State, restores = 0)
  <2>1. /\ objects[a].actor = a /\ objects[a].armed = TRUE
        /\ objects[a].triggered = FALSE /\ objects[a].left = Sleep[a]
    BY <1>2
  <2>2. State.count[a] = Start /\ State.since[a] = 0 /\ Start \in Nat /\ Sleep[a] \in Nat
    BY <1>1, <1>6, <1>7
  <2> QED
    BY <2>1, <2>2 DEF TimerSound
<1>9. \A a \in Actor : objects[a].actor = a
  BY <1>2
<1>10. TimersSound(State, restores = 0)
  <2>1. \A i, j \in DOMAIN objects : objects[i].actor = objects[j].actor => i = j
    BY <1>3, <1>9
  <2>2. \A a \in Actor : \E i \in DOMAIN objects : objects[i].actor = a
    BY <1>3, <1>9
  <2>3. \A a \in Actor : queue[a] <= count[a] - Start
    BY <1>1, <1>7
  <2>4. \A i \in DOMAIN objects : TimerSound(objects[i], State, restores = 0)
    BY <1>3, <1>8
  <2> QED
    BY <1>6, <2>1, <2>2, <2>3, <2>4 DEF TimersSound
<1> QED
  BY <1>5, <1>10 DEF TimerInv

\* A step that leaves the numbers and the out-ports alone and keeps every timer,
\* in the same place, with its actor and kind.
LEMMA TimersStep ==
  ASSUME TimerInv, TypeOK', count' = count, queue' = queue,
         DOMAIN objects' = DOMAIN objects,
         \A i \in DOMAIN objects : /\ objects'[i].actor = objects[i].actor
                                   /\ TimerSound(objects'[i], State', restores' = 0)
  PROVE  TimerInv'
<1>1. /\ Distinct(objects)
      /\ \A a \in Actor : count[a] < Steps => \E i \in DOMAIN objects : objects[i].actor = a
      /\ \A a \in Actor : queue[a] <= count[a] - Start
  BY SoundFacts
<1>2. State'.objects = objects' /\ State'.count = count' /\ State'.queue = queue'
  BY DEF State
<1>3. (TimersSound(State, restores = 0))'
  BY <1>1, <1>2 DEF TimersSound, Distinct
<1> QED
  BY <1>3 DEF TimerInv

\* The check of the timers triggers the ones that are due.
LEMMA CheckStep ==
  ASSUME TimerInv, objects' = TimersChecked(objects),
         UNCHANGED <<count, stopped, queue, since, restores>>,
         loop' \in {"check", "fire", "wait", "waiting"}, turn' \in Actor, fired' \in BOOLEAN,
         wait' \in Nat \cup {Forever}
  PROVE  TimerInv'
<1>1. /\ TypeOK /\ objects \in Seq(Timer) /\ \A i \in DOMAIN objects : objects[i] \in Timer
      /\ \A i \in DOMAIN objects : TimerSound(objects[i], State, restores = 0)
  BY SoundFacts
<1>2. /\ objects' \in Seq(Timer) /\ DOMAIN objects' = DOMAIN objects
      /\ \A i \in DOMAIN objects :
           /\ objects'[i] \in Timer
           /\ objects'[i].actor = objects[i].actor /\ objects'[i].repeats = objects[i].repeats
           /\ objects'[i].left = objects[i].left
           /\ Due(objects[i]) => objects'[i].triggered /\ ~objects'[i].armed
           /\ ~Due(objects[i]) => objects'[i] = objects[i]
  BY <1>1, CheckedFacts
<1>3. TypeOK'
  BY <1>1, <1>2 DEF TypeOK
<1>4. State.count = count /\ State.since = since /\ State'.count = count /\ State'.since = since
  BY DEF State
<1>5. ASSUME NEW i \in DOMAIN objects PROVE TimerSound(objects'[i], State', restores' = 0)
  <2> DEFINE t == objects[i]
             u == objects'[i]
  <2>1. /\ t \in Timer /\ u \in Timer /\ TimerSound(t, State, restores = 0)
        /\ u.actor = t.actor /\ u.repeats = t.repeats /\ u.left = t.left
        /\ Due(t) => u.triggered /\ ~u.armed
        /\ ~Due(t) => u = t
    BY <1>1, <1>2
  <2> HIDE DEF t, u
  <2>2. t.actor \in Actor /\ since[t.actor] \in Nat /\ t.left \in Nat
    BY <1>1, <2>1, TimerFields DEF TypeOK
  <2>3. TimerSound(u, State', restores' = 0)
    <3>1. CASE Due(t)
      BY <1>4, <2>1, <2>2, <3>1 DEF Due, TimerSound
    <3>2. CASE ~Due(t)
      BY <1>4, <2>1, <3>2 DEF TimerSound
    <3> QED
      BY <3>1, <3>2
  <2> QED
    BY <2>3 DEF u
<1> QED
  BY <1>2, <1>3, <1>5, TimersStep

\* The wait that a check computes.
LEMMA CheckedTimeout ==
  ASSUME NEW objs \in Seq(Timer), NEW timeout \in Nat
  PROVE  cc_calvinsys_timers_check(objs, timeout) \in Nat
<1> DEFINE Armed == {i \in DOMAIN objs : objs[i].armed}
           n == Len(objs)
<1>1. n \in Nat /\ DOMAIN objs = 1 .. n /\ \A i \in DOMAIN objs : objs[i] \in Timer
  BY Indexes
<1>2. CASE Armed = {}
  BY <1>2 DEF cc_calvinsys_timers_check
<1>3. CASE Armed # {}
  <2>1. Armed \in SUBSET (1 .. n)
    BY <1>1
  <2> HIDE DEF Armed
  <2>2. PICK i \in Armed : \A j \in Armed : j <= i
    BY <1>1, <1>3, <2>1, LastExists
  <2> DEFINE last == CHOOSE k \in Armed : \A j \in Armed : j <= k
  <2>3. last \in Armed
    BY <2>2
  <2>4. cc_calvinsys_timers_check(objs, timeout) = objs[last].left
    BY <1>3 DEF cc_calvinsys_timers_check, Armed
  <2> HIDE DEF last
  <2>5. objs[last] \in Timer
    BY <1>1, <2>1, <2>3
  <2> QED
    BY <2>4, <2>5, TimerFields
<1> QED
  BY <1>2, <1>3

\* A second passes.
LEMMA TickStep == TimerInv /\ Tick => TimerInv'
<1> SUFFICES ASSUME TimerInv, Tick PROVE TimerInv'
  OBVIOUS
<1>1. /\ TypeOK /\ objects \in Seq(Timer) /\ \A i \in DOMAIN objects : objects[i] \in Timer
      /\ \A i \in DOMAIN objects : TimerSound(objects[i], State, restores = 0)
  BY SoundFacts
<1>2. DOMAIN objects' = DOMAIN objects
  BY DEF Tick
<1>3. ASSUME NEW i \in DOMAIN objects
      PROVE  /\ objects'[i] \in Timer
             /\ objects'[i].actor = objects[i].actor /\ objects'[i].repeats = objects[i].repeats
             /\ objects'[i].armed = objects[i].armed
             /\ objects'[i].triggered = objects[i].triggered
             /\ objects'[i].left = IF objects[i].left > 0 THEN objects[i].left - 1 ELSE 0
  <2>1. objects'[i] = IF objects[i].left > 0 THEN [objects[i] EXCEPT !.left = @ - 1] ELSE objects[i]
    BY DEF Tick
  <2>2. objects[i] \in Timer
    BY <1>1
  <2> QED
    BY <2>1, <2>2 DEF Timer
<1>4. objects' \in Seq(Timer)
  <2>1. objects' = [i \in DOMAIN objects |-> objects'[i]]
    BY DEF Tick
  <2>2. \A i \in DOMAIN objects : objects'[i] \in Timer
    BY <1>3
  <2> QED
    BY <1>1, <2>1, <2>2, SameIndexes
<1>5. \A a \in Actor : since[a] \in Nat /\ Sleep[a] \in Nat
  BY <1>1, ActorAssumption DEF TypeOK
<1>6. /\ since' \in [Actor -> Nat]
      /\ \A a \in Actor : since'[a] = IF since[a] < Sleep[a] THEN since[a] + 1 ELSE since[a]
  BY <1>5 DEF Tick
<1>7. wait' \in Nat \cup {Forever}
  BY <1>1 DEF Tick, TypeOK, Forever
<1>8. TypeOK' /\ count' = count /\ queue' = queue /\ restores' = restores
  BY <1>1, <1>4, <1>6, <1>7 DEF TypeOK, Tick
<1>9. State.count = count /\ State.since = since /\ State'.count = count /\ State'.since = since'
  BY <1>8 DEF State
<1>10. ASSUME NEW i \in DOMAIN objects
       PROVE  TimerSound(objects'[i], State', restores' = 0)
  <2> DEFINE t == objects[i]
             u == objects'[i]
  <2>1. /\ t \in Timer /\ TimerSound(t, State, restores = 0)
        /\ u.actor = t.actor /\ u.repeats = t.repeats /\ u.armed = t.armed
        /\ u.triggered = t.triggered /\ u.left = IF t.left > 0 THEN t.left - 1 ELSE 0
    BY <1>1, <1>3
  <2> HIDE DEF t, u
  <2>2. t.actor \in Actor /\ t.left \in Nat
    BY <2>1, TimerFields
  <2>3. /\ since[t.actor] \in Nat /\ Sleep[t.actor] \in Nat
        /\ since'[t.actor] = IF since[t.actor] < Sleep[t.actor] THEN since[t.actor] + 1 ELSE since[t.actor]
    BY <1>5, <1>6, <2>2
  <2>4. TimerSound(u, State', restores' = 0)
    BY <1>8, <1>9, <2>1, <2>2, <2>3 DEF TimerSound
  <2> QED
    BY <2>4 DEF u
<1> QED
  BY <1>2, <1>3, <1>8, <1>10, TimersStep

\* The node restarts: the timers come back in another order, all of them armed.
LEMMA RestoreStep == TimerInv /\ Restore => TimerInv'
<1> SUFFICES ASSUME TimerInv, Restore PROVE TimerInv'
  OBVIOUS
<1>1. /\ TypeOK /\ objects \in Seq(Timer) /\ Distinct(objects)
      /\ \A i \in DOMAIN objects : objects[i] \in Timer
      /\ \A a \in Actor : count[a] < Steps => \E i \in DOMAIN objects : objects[i].actor = a
      /\ \A i \in DOMAIN objects : TimerSound(objects[i], State, restores = 0)
      /\ \A a \in Actor : queue[a] <= count[a] - Start
  BY SoundFacts
<1> DEFINE D == DOMAIN objects
<1>2. PICK order \in Bijection(D, D) :
        objects' = [i \in D |-> cc_calvinsys_timer_deserialize(objects[order[i]])]
  BY DEF Restore
<1>3. /\ \A i \in D : order[i] \in D
      /\ \A i, j \in D : order[i] = order[j] => i = j
      /\ \A j \in D : \E i \in D : order[i] = j
  BY <1>2 DEF Bijection, Injection, Surjection, IsInjective, Range
<1>4. ASSUME NEW i \in D
      PROVE  /\ objects'[i] \in Timer
             /\ objects'[i].actor = objects[order[i]].actor
             /\ objects'[i].repeats = objects[order[i]].repeats
             /\ objects'[i].armed
  <2> DEFINE t == objects[order[i]]
  <2>1. t \in Timer
    BY <1>1, <1>3
  <2>2. objects'[i] = cc_calvinsys_timer_deserialize(t)
    BY <1>2
  <2> HIDE DEF t
  <2>3. /\ cc_calvinsys_timer_deserialize(t) \in Timer
        /\ cc_calvinsys_timer_deserialize(t).actor = t.actor
        /\ cc_calvinsys_timer_deserialize(t).repeats = t.repeats
        /\ cc_calvinsys_timer_deserialize(t).armed
    BY <2>1 DEF cc_calvinsys_timer_deserialize, Timer
  <2> QED
    BY <2>2, <2>3 DEF t
<1>5. DOMAIN objects' = D
  BY <1>2
<1>6. objects' \in Seq(Timer)
  <2>1. objects' = [i \in DOMAIN objects |-> objects'[i]]
    BY <1>2
  <2>2. \A i \in DOMAIN objects : objects'[i] \in Timer
    BY <1>4
  <2> QED
    BY <1>1, <2>1, <2>2, SameIndexes
<1>7. restores' \in 0 .. MaxRestores /\ restores' # 0
  BY <1>1, LimitAssumption DEF Restore, TypeOK
<1>8. count' = count /\ queue' = queue /\ since' = since
  BY DEF Restore
<1>9. TypeOK'
  <2>1. stopped' \in [Actor -> BOOLEAN]
    BY DEF Restore
  <2> QED
    BY <1>1, <1>6, <1>7, <1>8, <2>1 DEF TypeOK, Restore
<1>10. /\ State.count = count /\ State'.count = count
       /\ State'.objects = objects' /\ State'.queue = queue
  BY <1>8 DEF State
<1>11. ASSUME NEW i \in D, NEW j \in D, objects'[i].actor = objects'[j].actor PROVE i = j
  <2>1. objects[order[i]].actor = objects[order[j]].actor
    BY <1>4, <1>11
  <2>2. order[i] \in D /\ order[j] \in D
    BY <1>3
  <2>3. order[i] = order[j]
    BY <1>1, <2>1, <2>2 DEF Distinct
  <2> QED
    BY <1>3, <2>3
<1>12. ASSUME NEW a \in Actor, count[a] < Steps PROVE \E i \in D : objects'[i].actor = a
  <2>1. PICK j \in D : objects[j].actor = a
    BY <1>1, <1>12
  <2>2. PICK i \in D : order[i] = j
    BY <1>3
  <2>3. objects'[i].actor = a
    BY <1>4, <2>1, <2>2
  <2> QED
    BY <2>3
<1>13. ASSUME NEW i \in D PROVE TimerSound(objects'[i], State', restores' = 0)
  <2>1. TimerSound(objects[order[i]], State, restores = 0)
    BY <1>1, <1>3
  <2> QED
    BY <1>4, <1>7, <1>10, <2>1 DEF TimerSound
<1>14. (TimersSound(State, restores = 0))'
  BY <1>1, <1>5, <1>10, <1>11, <1>12, <1>13 DEF TimersSound
<1> QED
  BY <1>9, <1>14 DEF TimerInv

\* The scheduler fires one actor.
LEMMA FireStep ==
  ASSUME TimerInv, fire_actors
  PROVE  /\ TimerInv'
         /\ Fires(State, State', turn, restores = 0)
         /\ \A a \in Actor : a # turn => count'[a] = count[a]
<1>1. TypeOK /\ TimersSound(State, restores = 0) /\ (restores = 0) \in BOOLEAN
  BY DEF TimerInv
<1>2. State \in StateType /\ turn \in Actor
  BY <1>1, CurrentState DEF TypeOK
<1> DEFINE after == cc_actor_counttimer_fire(State, turn)
<1>3. Fires(State, after, turn, restores = 0)
  BY <1>1, <1>2, CountTimerFires
<1>4. /\ objects' = after.objects /\ count' = after.count /\ stopped' = after.stopped
      /\ queue' = after.queue /\ since' = after.since /\ fired' = after.fired
  BY DEF fire_actors
<1> HIDE DEF after
<1>5. after \in StateType
  BY <1>3 DEF Fires
<1>6. State' = after
  BY <1>4, <1>5 DEF State, StateType
<1>7. /\ restores' = restores
      /\ loop' \in {"check", "fire", "wait", "waiting"} /\ turn' \in Actor
      /\ wait' \in Nat \cup {Forever}
  <2>1. NActors \in Nat /\ Actor = 1 .. NActors
    BY ActorAssumption DEF Actor
  <2>2. turn < NActors => turn + 1 \in Actor
    BY <1>2, <2>1
  <2> QED
    BY <1>1, <1>2, <2>2 DEF fire_actors, TypeOK
<1>8. TypeOK'
  <2>1. /\ after.objects \in Seq(Timer) /\ after.count \in [Actor -> Start .. Steps]
        /\ after.stopped \in [Actor -> BOOLEAN] /\ after.queue \in [Actor -> 0 .. QueueLen]
        /\ after.since \in [Actor -> Nat] /\ after.fired \in BOOLEAN
    BY <1>5, StateFields
  <2> QED
    BY <1>1, <1>4, <1>7, <2>1 DEF TypeOK
<1>9. (TimersSound(State, restores = 0))'
  BY <1>3, <1>6, <1>7 DEF Fires
<1>10. \A a \in Actor : a # turn => count'[a] = count[a]
  BY <1>3, <1>4 DEF Fires, State
<1> QED
  BY <1>3, <1>6, <1>8, <1>9, <1>10 DEF TimerInv

\* No step breaks the invariant.
LEMMA TimerNext == TimerInv /\ [Next]_vars => TimerInv'
<1> SUFFICES ASSUME TimerInv, [Next]_vars PROVE TimerInv'
  OBVIOUS
<1>1. TypeOK
  BY DEF TimerInv
<1>2. CASE CheckTimers
  <2>1. 1 \in Actor
    BY ActorAssumption DEF Actor
  <2>2. /\ objects' = TimersChecked(objects)
        /\ UNCHANGED <<count, stopped, queue, since, restores>>
        /\ loop' \in {"check", "fire", "wait", "waiting"} /\ turn' \in Actor /\ fired' \in BOOLEAN
        /\ wait' \in Nat \cup {Forever}
    BY <1>1, <1>2, <2>1 DEF CheckTimers, TypeOK
  <2> QED
    BY <2>2, CheckStep
<1>3. CASE fire_actors
  BY <1>3, FireStep
<1>4. CASE StartWait
  <2>1. objects \in Seq(Timer) /\ Inactivity \in Nat
    BY <1>1, LimitAssumption DEF TypeOK
  <2>2. cc_calvinsys_timers_check(objects, Inactivity) \in Nat
    BY <2>1, CheckedTimeout
  <2>3. /\ objects' = TimersChecked(objects)
        /\ UNCHANGED <<count, stopped, queue, since, restores>>
        /\ loop' \in {"check", "fire", "wait", "waiting"} /\ turn' \in Actor /\ fired' \in BOOLEAN
        /\ wait' \in Nat \cup {Forever}
    <3> DEFINE timeout == cc_calvinsys_timers_check(objects, Inactivity)
    <3>1. wait' = CASE timeout = 0 -> Forever
                    [] UseSleep /\ timeout > Inactivity -> Inactivity
                    [] OTHER -> timeout
      BY <1>4 DEF StartWait
    <3>2. wait' \in Nat \cup {Forever}
      <4> HIDE DEF timeout
      <4> QED
        BY <2>1, <2>2, <3>1 DEF timeout
    <3> QED
      BY <1>1, <1>4, <3>2 DEF StartWait, TypeOK
  <2> QED
    BY <2>3, CheckStep
<1>5. CASE EndWait
  BY <1>5 DEF EndWait, TimerInv, TypeOK, State
<1>6. CASE Event
  BY <1>6 DEF Event, TimerInv, TypeOK, State
<1>7. CASE Tick
  BY <1>7, TickStep
<1>8. ASSUME NEW a \in Actor, Drain(a) PROVE TimerInv'
  <2>1. /\ queue' \in [Actor -> 0 .. QueueLen]
        /\ \A b \in Actor : queue'[b] <= queue[b] /\ queue[b] \in Nat /\ queue'[b] \in Nat
                            /\ count[b] - Start \in Int
    BY <1>1, <1>8, LimitAssumption, ArgumentAssumption, SMTT(30) DEF Drain, TypeOK
  <2>2. TypeOK'
    BY <1>1, <1>8, <2>1 DEF Drain, TypeOK
  <2>3. UNCHANGED <<objects, count, since, restores>>
    BY <1>8 DEF Drain
  <2>4. (TimersSound(State, restores = 0))'
    BY <2>1, <2>3 DEF TimerInv, TimersSound, TimerSound, State
  <2> QED
    BY <2>2, <2>4 DEF TimerInv
<1>9. CASE Restore
  BY <1>9, RestoreStep
<1>10. CASE UNCHANGED vars
  BY <1>10 DEF vars, TimerInv, TypeOK, State
<1> QED
  BY <1>2, <1>3, <1>4, <1>5, <1>6, <1>7, <1>8, <1>9, <1>10 DEF Next, Loop

\* The inductive invariant holds in every state.
LEMMA TimerAlways == Spec => []TimerInv
BY TimerInit, TimerNext, PTL DEF Spec

(***************************************************************************)
(* The theorems.                                                            *)
(***************************************************************************)
\* The variables of the run loop, the timers and the CountTimer actors have
\* their types, in particular no out-port holds more tokens than it has room
\* for and no actor counts past "steps".
THEOREM LoopTypeCorrect == Spec => []TypeOK
<1>1. TimerInv => TypeOK
  BY DEF TimerInv
<1> QED
  BY <1>1, TimerAlways, PTL

\* cc_actor_counttimer.c neither leaks nor loses a timer, for any number of
\* actors, any order of the list and any number of restarts.
THEOREM OneTimerAlways == Spec => []OneTimer
<1>1. TimerInv => OneTimer
  <2> SUFFICES ASSUME TimerInv, NEW a \in Actor
               PROVE  /\ Cardinality(TimersOf(a)) <= 1
                      /\ count[a] < Steps => TimersOf(a) # {}
    BY DEF OneTimer
  <2>1. /\ Distinct(objects)
        /\ count[a] < Steps => \E i \in DOMAIN objects : objects[i].actor = a
    BY SoundFacts
  <2>2. TimersOf(a) = {} \/ \E i \in DOMAIN objects : TimersOf(a) = {i}
    BY <2>1 DEF TimersOf, Distinct
  <2>3. Cardinality(TimersOf(a)) <= 1
    <3>1. CASE TimersOf(a) = {}
      BY <3>1, FS_EmptySet
    <3>2. ASSUME NEW i, TimersOf(a) = {i} PROVE Cardinality(TimersOf(a)) <= 1
      <4>1. Cardinality({i}) = 1
        BY FS_Singleton
      <4> QED
        BY <3>2, <4>1
    <3> QED
      BY <2>2, <3>1, <3>2
  <2> QED
    BY <2>1, <2>3 DEF TimersOf
<1> QED
  BY <1>1, TimerAlways, PTL

\* The timer of an actor that counts is never left unset, provided the out-port
\* has room for the three numbers that are sent with the single-shot timer
\* (cc_fifo_init gives it four slots, of which three can be used): with less room the trigger is read,
\* nothing is sent and cc_calvinsys_timer_write is not reached.
THEOREM TimerRunsAlways ==
  ASSUME QueueLen >= 3
  PROVE  Spec => []TimerRuns
<1>1. TimerInv => TimerRuns
  <2> SUFFICES ASSUME TimerInv, NEW a \in Actor, count[a] < Steps
               PROVE  \E i \in TimersOf(a) : objects[i].armed \/ objects[i].triggered
    BY DEF TimerRuns
  <2>1. PICK i \in DOMAIN objects : objects[i].actor = a
    BY SoundFacts
  <2>2. TimerSound(objects[i], State, restores = 0) /\ State.count = count
    BY SoundFacts, CurrentState
  <2>3. objects[i].armed \/ objects[i].triggered
    BY <2>1, <2>2 DEF TimerSound
  <2> QED
    BY <2>1, <2>3 DEF TimersOf
<1> QED
  BY <1>1, TimerAlways, PTL

\* Until the node restarts no actor sends a number before its time, whatever the
\* order of the list of timers and however late the loop checks it.
THEOREM NeverEarly == Spec => NotEarly
<1> DEFINE A == restores = 0 => \A a \in Actor : count'[a] # count[a] => since[a] >= Sleep[a]
<1>1. TimerInv /\ [Next]_vars => [A]_vars
  <2> SUFFICES ASSUME TimerInv, Next, restores = 0, NEW a \in Actor, count'[a] # count[a]
               PROVE  since[a] >= Sleep[a]
    OBVIOUS
  <2>1. CASE fire_actors
    <3>1. Fires(State, State', turn, restores = 0) /\ a = turn
      BY <2>1, FireStep
    <3>2. State.count = count /\ State'.count = count' /\ State.since = since
      BY DEF State
    <3> QED
      BY <3>1, <3>2 DEF Fires
  <2>2. CASE ~fire_actors
    BY <2>2 DEF Next, Loop, CheckTimers, StartWait, EndWait, Event, Tick, Drain, Restore
  <2> QED
    BY <2>1, <2>2
<1> QED
  BY <1>1, TimerAlways, PTL DEF Spec, NotEarly
=============================================================================
