------------------------------ MODULE TimerLoop ------------------------------
(***************************************************************************)
(* The run loop of the node (cc_node_run), the calvinsys timers it serves   *)
(* (cc_calvinsys_timer.c) and the actors that live on them: std.CountTimer  *)
(* (cc_actor_counttimer.c), which sends a number every Sleep seconds.       *)
(*                                                                          *)
(* One iteration of the loop checks the timers, fires the actors and, when  *)
(* none fired, checks the timers again to find out how long to block in     *)
(* cc_platform_evt_wait.  Time passes at any point.  Times are kept as the  *)
(* number of seconds left, so that the model needs no bound on time: left   *)
(* is next_time - now, 0 from the moment the timer is due.  The wrap of the *)
(* 32-bit clock is not modelled.                                            *)
(***************************************************************************)
EXTENDS Integers, SequencesExt

CONSTANTS
  NActors,      \* CountTimer actors on the node
  Sleep,        \* Sleep[a]: the actor's argument "sleep", in seconds
  Start, Steps, \* the arguments "start" and "steps"
  QueueLen,     \* tokens that fit into an out-port
  Inactivity,   \* CC_INACTIVITY_TIMEOUT
  UseSleep,     \* CC_USE_SLEEP: TRUE on x86, FALSE by default
  MaxRestores   \* bound: restarts from the saved state

Actor == 1 .. NActors

ASSUME ActorAssumption == NActors \in Nat \ {0} /\ Sleep \in [Actor -> Nat \ {0}]
ASSUME ArgumentAssumption == Start \in Nat /\ Steps \in Nat /\ Start <= Steps
ASSUME LimitAssumption == QueueLen \in Nat /\ Inactivity \in Nat \ {0} /\ MaxRestores \in Nat
ASSUME SleepAssumption == UseSleep \in BOOLEAN

VARIABLES
  objects,   \* calvinsys->objects: the open timers, in the order of the list
  count,     \* count of each actor: the next number to send
  stopped,   \* stopped of each actor
  queue,     \* tokens in the out-port of each actor
  since,     \* seconds since the actor sent a number (no further than Sleep)
  loop,      \* the next step of the run loop
  turn,      \* the actor the scheduler fires next
  fired,     \* an actor has fired in this iteration
  wait,      \* seconds left in cc_platform_evt_wait
  restores   \* restarts so far

vars == <<objects, count, stopped, queue, since, loop, turn, fired, wait, restores>>

\* A wait without a limit.
Forever == -1

Timer == [actor : Actor, repeats : BOOLEAN, armed : BOOLEAN, left : Nat, triggered : BOOLEAN]

TypeOK ==
  /\ objects \in Seq(Timer)
  /\ count \in [Actor -> Start .. Steps]
  /\ stopped \in [Actor -> BOOLEAN]
  /\ queue \in [Actor -> 0 .. QueueLen]
  /\ since \in [Actor -> Nat]
  /\ loop \in {"check", "fire", "wait", "waiting"}
  /\ turn \in Actor
  /\ fired \in BOOLEAN
  /\ wait \in Nat \cup {Forever}
  /\ restores \in 0 .. MaxRestores

(***************************************************************************)
(* Timers.                                                                  *)
(***************************************************************************)
cc_calvinsys_timer_set(t) == [t EXCEPT !.armed = TRUE, !.left = Sleep[t.actor]]

\* A new timer at the end of the list, armed when its period is not zero.
cc_calvinsys_timer_open(objs, a, repeats) ==
  LET t == [actor |-> a, repeats |-> repeats, armed |-> FALSE, left |-> 0, triggered |-> FALSE]
  IN Append(objs, IF Sleep[a] > 0 THEN cc_calvinsys_timer_set(t) ELSE t)

\* Close the timer of actor a; nothing happens when it has none.
cc_calvinsys_close(objs, a) ==
  LET Own == {i \in DOMAIN objs : objs[i].actor = a}
  IN IF Own = {} THEN objs ELSE RemoveAt(objs, CHOOSE i \in Own : TRUE)

\* Replace the timer of actor a; nothing happens when it has none.
Update(objs, a, Op(_)) == [i \in DOMAIN objs |-> IF objs[i].actor = a THEN Op(objs[i]) ELSE objs[i]]

cc_calvinsys_timer_can_read(objs, a) ==
  \E i \in DOMAIN objs : objs[i].actor = a /\ objs[i].triggered

\* Mutant: a repeating timer is not set again.
cc_calvinsys_timer_read_once(t) == [t EXCEPT !.triggered = FALSE]

cc_calvinsys_timer_read(t) ==
  LET u == [t EXCEPT !.triggered = FALSE]
  IN IF t.repeats THEN cc_calvinsys_timer_set(u) ELSE u

cc_calvinsys_timer_can_write(t) == ~(t.triggered \/ t.armed)

cc_calvinsys_timer_write(t) ==
  IF cc_calvinsys_timer_can_write(t) THEN cc_calvinsys_timer_set(t) ELSE t

\* A timer that was not armed is saved without a next time, and set to a next
\* time of 0 when it is restored: it is due at once.
cc_calvinsys_timer_deserialize(t) ==
  [t EXCEPT !.armed = TRUE, !.left = IF t.armed THEN t.left ELSE 0]

Due(t) == t.armed /\ t.left = 0

\* Mutant: a timer that is due stays armed.
TimersChecked_armed(objs) ==
  [i \in DOMAIN objs |-> IF Due(objs[i]) THEN [objs[i] EXCEPT !.triggered = TRUE] ELSE objs[i]]

\* The check triggers the timers that are due ...
TimersChecked(objs) ==
  [i \in DOMAIN objs |->
     IF Due(objs[i]) THEN [objs[i] EXCEPT !.triggered = TRUE, !.armed = FALSE] ELSE objs[i]]

\* ... and overwrites the caller's timeout at every armed timer it passes, so
\* that the last one in the list decides.
cc_calvinsys_timers_check(objs, timeout) ==
  LET Armed == {i \in DOMAIN objs : objs[i].armed}
  IN IF Armed = {} THEN timeout
     ELSE objs[CHOOSE i \in Armed : \A j \in Armed : j <= i].left

(***************************************************************************)
(* The actor.  A state st holds what an actor changes when it fires; State   *)
(* is the current one.                                                      *)
(***************************************************************************)
State == [objects |-> objects, count |-> count, stopped |-> stopped,
          queue |-> queue, since |-> since, fired |-> fired]

\* Mutant: one token too many.
Room_off_by_one(st, a) == st.queue[a] <= QueueLen

\* Put a number on the out-port, if it has room.
Room(st, a) == st.queue[a] < QueueLen
Send(st, a) ==
  [st EXCEPT !.queue[a] = @ + 1, !.count[a] = @ + 1, !.since[a] = 0, !.fired = TRUE]

\* Mutant: the timer the actor replaces is not closed.
cc_actor_counttimer_step_no_periodic_leak(st, a) ==
  IF \/ st.count[a] >= Start + 3 \/ st.count[a] >= Steps
     \/ ~cc_calvinsys_timer_can_read(st.objects, a)
  THEN st
  ELSE LET read == Update(st.objects, a, cc_calvinsys_timer_read)
           objs == IF st.count[a] = Start + 2
                   THEN cc_calvinsys_timer_open(read, a, TRUE)
                   ELSE read
       IN IF Room(st, a)
          THEN [Send(st, a) EXCEPT !.objects = Update(objs, a, cc_calvinsys_timer_write)]
          ELSE [st EXCEPT !.objects = objs]

\* The first three numbers: read the timer, replace it by a repeating one
\* after the third, send, and set the timer again.  Without room the trigger
\* has been read and the timer is not set.
cc_actor_counttimer_step_no_periodic(st, a) ==
  IF \/ st.count[a] >= Start + 3 \/ st.count[a] >= Steps
     \/ ~cc_calvinsys_timer_can_read(st.objects, a)
  THEN st
  ELSE LET read == Update(st.objects, a, cc_calvinsys_timer_read)
           objs == IF st.count[a] = Start + 2
                   THEN cc_calvinsys_timer_open(cc_calvinsys_close(read, a), a, TRUE)
                   ELSE read
       IN IF Room(st, a)
          THEN [Send(st, a) EXCEPT !.objects = Update(objs, a, cc_calvinsys_timer_write)]
          ELSE [st EXCEPT !.objects = objs]

cc_actor_counttimer_step_periodic(st, a) ==
  IF st.count[a] >= Steps \/ ~cc_calvinsys_timer_can_read(st.objects, a)
  THEN st
  ELSE LET objs == Update(st.objects, a, cc_calvinsys_timer_read)
       IN IF Room(st, a)
          THEN [Send(st, a) EXCEPT !.objects = objs]
          ELSE [st EXCEPT !.objects = objs]

cc_actor_counttimer_stop(st, a) ==
  IF st.stopped[a] \/ st.count[a] # Steps
  THEN st
  ELSE [st EXCEPT !.objects = cc_calvinsys_close(@, a),
                  !.stopped[a] = TRUE, !.fired = TRUE]

cc_actor_counttimer_fire(st, a) ==
  cc_actor_counttimer_stop(
    cc_actor_counttimer_step_periodic(cc_actor_counttimer_step_no_periodic(st, a), a), a)

(***************************************************************************)
(* The run loop.                                                            *)
(***************************************************************************)
\* The actors are created one by one, each opens its timer.
Init ==
  /\ objects = [a \in Actor |-> cc_calvinsys_timer_open(<<>>, a, FALSE)[1]]
  /\ count = [a \in Actor |-> Start]
  /\ stopped = [a \in Actor |-> FALSE]
  /\ queue = [a \in Actor |-> 0]
  /\ since = [a \in Actor |-> 0]
  /\ loop = "check"
  /\ turn = 1 /\ fired = FALSE
  /\ wait = 0
  /\ restores = 0

CheckTimers ==
  /\ loop = "check"
  /\ objects' = TimersChecked(objects)
  /\ loop' = "fire" /\ turn' = 1 /\ fired' = FALSE
  /\ UNCHANGED <<count, stopped, queue, since, wait, restores>>

\* The scheduler fires the actors one after the other; when one has fired the
\* loop only looks for platform events, for one second, before it goes on.
fire_actors ==
  /\ loop = "fire"
  /\ LET after == cc_actor_counttimer_fire(State, turn)
     IN /\ objects' = after.objects /\ count' = after.count /\ stopped' = after.stopped
        /\ queue' = after.queue /\ since' = after.since /\ fired' = after.fired
  /\ IF turn < NActors
     THEN turn' = turn + 1 /\ UNCHANGED <<loop, wait>>
     ELSE /\ UNCHANGED turn
          /\ IF fired'
             THEN loop' = "waiting" /\ wait' = 1
             ELSE loop' = "wait" /\ UNCHANGED wait
  /\ UNCHANGED restores

\* A node that may sleep waits no longer than Inactivity.  A timeout of 0
\* makes cc_platform_evt_wait block without a limit.
StartWait ==
  /\ loop = "wait"
  /\ objects' = TimersChecked(objects)
  /\ LET timeout == cc_calvinsys_timers_check(objects, Inactivity)
     IN wait' = CASE timeout = 0 -> Forever
                  [] UseSleep /\ timeout > Inactivity -> Inactivity
                  [] OTHER -> timeout
  /\ loop' = "waiting"
  /\ UNCHANGED <<count, stopped, queue, since, turn, fired, restores>>

\* cc_platform_evt_wait returns: its time is over (and the node goes to sleep,
\* a Restore, or goes on), or a platform event came.
EndWait ==
  /\ loop = "waiting" /\ wait = 0
  /\ loop' = "check"
  /\ UNCHANGED <<objects, count, stopped, queue, since, turn, fired, wait, restores>>

Event ==
  /\ loop = "waiting" /\ wait # 0
  /\ loop' = "check" /\ wait' = 0
  /\ UNCHANGED <<objects, count, stopped, queue, since, turn, fired, restores>>

(***************************************************************************)
(* The environment.                                                         *)
(***************************************************************************)
\* A second passes.
Tick ==
  /\ ~(loop = "waiting" /\ wait = 0)
  /\ objects' = [i \in DOMAIN objects |->
                   IF objects[i].left > 0 THEN [objects[i] EXCEPT !.left = @ - 1] ELSE objects[i]]
  /\ since' = [a \in Actor |-> IF since[a] < Sleep[a] THEN since[a] + 1 ELSE since[a]]
  /\ wait' = IF loop = "waiting" /\ wait # Forever THEN wait - 1 ELSE wait
  /\ UNCHANGED <<count, stopped, queue, loop, turn, fired, restores>>

\* The peer takes a token from the out-port: the scheduler moves it to a port of
\* this node, or another runtime acknowledges it, a message that ends the wait.
Drain(a) ==
  /\ queue[a] > 0
  /\ queue' = [queue EXCEPT ![a] = @ - 1]
  /\ IF loop = "waiting" THEN loop' = "check" /\ wait' = 0 ELSE UNCHANGED <<loop, wait>>
  /\ UNCHANGED <<objects, count, stopped, since, turn, fired, restores>>

\* The node stops between two iterations and is started again from the state
\* it saved: the actors and, with each actor, its timer, which is added to the
\* list when the actor is restored.
Restore ==
  /\ loop = "check" /\ restores < MaxRestores
  /\ restores' = restores + 1
  /\ \E order \in Bijection(DOMAIN objects, DOMAIN objects) :
       /\ \A i, j \in DOMAIN objects : i < j => objects[order[i]].actor <= objects[order[j]].actor
       /\ objects' = [i \in DOMAIN objects |-> cc_calvinsys_timer_deserialize(objects[order[i]])]
  /\ stopped' = [a \in Actor |-> FALSE]
  /\ UNCHANGED <<count, queue, since, loop, turn, fired, wait>>

\* What the loop does by itself.
Loop == CheckTimers \/ fire_actors \/ StartWait \/ EndWait

Next ==
  \/ Loop \/ Event
  \/ Tick \/ (\E a \in Actor : Drain(a)) \/ Restore

Spec == Init /\ [][Next]_vars

\* The loop goes on and time passes; the peers take their tokens.  Nothing is
\* assumed about events from outside: a wait without a limit may last for good.
FairSpec ==
  /\ Spec
  /\ WF_vars(Loop)
  /\ WF_vars(Tick)
  /\ \A a \in Actor : WF_vars(Drain(a))

(***************************************************************************)
(* Properties.                                                              *)
(***************************************************************************)
TimersOf(a) == {i \in DOMAIN objects : objects[i].actor = a}

\* An actor that still counts has exactly one open timer, and one that has
\* finished has at most one: closing the single-shot timer and opening the
\* repeating one leaks none and loses none, also across restarts.
OneTimer ==
  \A a \in Actor : /\ Cardinality(TimersOf(a)) <= 1
                   /\ count[a] < Steps => TimersOf(a) # {}

\* With out-ports of the default length, which hold the first three numbers,
\* the timer of an actor that still counts is running or has gone off:
\* the actor will fire again.
TimerRuns ==
  \A a \in Actor : count[a] < Steps =>
    \E i \in TimersOf(a) : objects[i].armed \/ objects[i].triggered

\* Until the node restarts, no number is sent before Sleep seconds have passed
\* since the one before, whichever of the two timers the actor uses and however
\* late cc_calvinsys_timers_check and the scheduler get to it.
NotEarly ==
  [][restores = 0 => \A a \in Actor : count'[a] # count[a] => since[a] >= Sleep[a]]_vars

\* The loop of cc_node_run is caught: a timer went off in the second check of an
\* iteration, cc_calvinsys_timers_check made the timeout 0, and select waits
\* without a limit for something from outside.
Caught == loop = "waiting" /\ wait = Forever

\* Every actor sends all its numbers, with out-ports of the default length: the
\* wait for the wrong timer, the change of timers, a restart and a full out-port
\* delay the counting and never stop it.  The one thing that does stop it is the
\* wait without a limit, if nothing comes from outside any more.
AllCounted == <>[]Caught \/ \A a \in Actor : <>(count[a] = Steps)

(***************************************************************************)
(* The inductive invariant behind these properties.                         *)
(***************************************************************************)
\* What is true of every open timer in state st.  A timer with which the actor
\* has gone on to the fourth number is a repeating one; with out-ports of the
\* default length the timer of an actor that counts is running or has gone
\* off; and until the node has been restarted (fresh) it goes off no earlier
\* than Sleep seconds after the last number.
TimerSound(t, st, fresh) ==
  /\ st.count[t.actor] >= Start + 3 => t.repeats
  /\ QueueLen >= 3 /\ st.count[t.actor] < Steps => t.armed \/ t.triggered
  /\ fresh /\ t.armed => ~t.triggered /\ st.since[t.actor] + t.left >= Sleep[t.actor]
  /\ fresh /\ t.triggered => st.since[t.actor] >= Sleep[t.actor]

\* No actor has two timers, one that counts has one, and the out-port of an
\* actor holds no more than the numbers it has sent.
TimersSound(st, fresh) ==
  /\ \A i, j \in DOMAIN st.objects : st.objects[i].actor = st.objects[j].actor => i = j
  /\ \A a \in Actor : st.count[a] < Steps => \E i \in DOMAIN st.objects : st.objects[i].actor = a
  /\ \A i \in DOMAIN st.objects : TimerSound(st.objects[i], st, fresh)
  /\ \A a \in Actor : st.queue[a] <= st.count[a] - Start

TimerInv == TypeOK /\ TimersSound(State, restores = 0)
=============================================================================
