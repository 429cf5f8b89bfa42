# A TLA+ model of the Calvin constrained runtime

The repository is a C runtime for Calvin actors on small devices. A node keeps
one connection to a *proxy* runtime, receives actors from it, connects their
ports to ports on other runtimes and moves tokens between them. It is one
thread: an event loop that checks timers, fires actors and handles messages.
What makes it hard is not threads but time: requests are answered later,
several can be under way at once, other runtimes act by themselves, and the
connection can be lost and come back at another proxy in between.

## The system

| part | state | operations | interacts with |
|---|---|---|---|
| token queue (`cc_fifo.c`, `cc_token.c`) | ring of slots; write, read and tentative read positions | write, peek, commit, cancel; the `com_` variants with sequence numbers | ports, actors |
| port (`cc_port.c`) | state, tunnel, peer id, local peer port, retries, queue | connect, disconnect, transmit, handlers of PORT_CONNECT and PORT_DISCONNECT and of three kinds of answers | registry (lookup), tunnels, actor state |
| tunnel (`cc_tunnel.c`), link (`cc_link.c`) | id, state, reference counts | create, share, free, TUNNEL_NEW from both ends | ports, proxy connection, saved state |
| actor (`cc_actor.c`) | state derived from its ports, attributes | create, migrate, delete, serialize | ports, scheduler, calvinsys |
| scheduler (`cc_scheduler.c`) | none | one round: delete, fire, transmit | actors, ports |
| node (`cc_node.c`) | lifecycle state, lists, unanswered requests, saved state | main loop, connect to proxy, sleep, stop, checkpoint | everything |
| protocol (`cc_proto.c`) | none | encode and send, parse and dispatch | node, transport |
| transport (`cc_transport.c`, `src/runtime/south/transport`) | state, socket, partly received message | connect, framing, send, receive, join | node, platform |
| platforms (`src/runtime/south/platform`) | descriptors, state file; on Android the looper and its pipes | wait for an event, write and read the file | node, transport, devices |
| calvinsys (`cc_calvinsys.c`), timers (`cc_calvinsys_timer.c`), devices | objects of the actors; next time, armed, triggered | open, read, write, check, close, save, restore | actors, main loop |
| actors (`src/actors`) | arguments, counters and calvinsys references | init, fire, save, restore | ports, calvinsys |
| application manager, coder, crypto, MicroPython | see `PROJECT.json` | | |

What makes each part correct:

* queue and transfer: tokens arrive once and in order, a token is freed only
  when the receiver has it, every token arrives in the end;
* ports, tunnels, links: nothing is freed in use or kept unused, a port never
  waits for nothing, an enabled port has a peer;
* actor and scheduler: an actor fires only when connected, a doomed one goes;
* timers: none is lost, none early, the loop wakes for the next one;
* node: its connect loop ends, it runs only with its proxy's tunnels and known
  to that proxy, and it stops when it is told to;
* transport: the handler gets the messages that were sent, whole, once and in
  order, and a lost connection is noticed and replaced;
* calvinsys and actors: an object belongs to exactly one actor that is there,
  readings answer triggers, and an actor goes on after a restart.

`PROJECT.json` lists the hazards of the code at their lines, with the
properties that cover them and, where none does yet, why.

## The modules

* **Fifo** – the queue as a record and each function of `cc_fifo.c` as an
  operator on it. Positions are taken modulo `UIntMod` (2^32 in the code).
* **TokenTransfer** – an out-port and an in-port on two runtimes that both run
  this code, and the two message streams between them. Actions: the actors
  fire; `cc_port_transmit`; the handlers of TOKEN and TOKEN_REPLY; connect,
  disconnect and their handlers; a lost connection and the return to the same
  or another proxy. Looking up the peer and opening the tunnel are within
  `cc_port_connect`; Ports models them, as it does refused requests, unknown
  tunnels and the deletion of a port whose attempts are used up, after none of
  which a token moves. The proxies forward in order (external), and messages are lost only with a connection. A send that fails
  is the choice `sent` in `cc_port_transmit`.
* **TokenQueue** – the abstract specification: a bounded queue with the
  actions Put and Get. `TokenTransfer!ImplementsQueue` is the refinement, with
  `put` the number of tokens produced and `got` the tokens consumed.
* **TokenTransferProofs** (with the lemmas about Fifo), **TimerLoopProofs,
  PortsProofs, TransportProofs, NodeProofs, DevicesProofs** – the lemmas and
  theorems about these modules; **DataInduction, Folding** – induction on
  numbers, sequences and loops.
* **TimerLoop** (**MCTimerLoop** for TLC) – CountTimer actors, their timer
  objects and the main loop: first timer check, one round of the scheduler,
  second check, wait. Time passes only in `Tick`; each timer keeps the time it
  has left. `Restore` restarts the node from the state saved before; `Drain`
  is a token leaving an out-port, to which the acknowledgement belongs, a
  message that ends the wait. A timeout of 0 is a wait without a limit, as in
  `select`; a node that may sleep (`UseSleep`) waits no longer than the
  inactivity timeout otherwise.
* **Ports** (**MCPorts** for TLC) – ports, token tunnels, links and actor
  states of one node. A C function is an operator from the state of the node
  to the state after it (`Node`, `Becomes`), so that calls nest as in the code
  and an action is a whole handler. The peer runtimes and the registry are the
  environment: they answer requests in any order (`pending` counts the
  unanswered ones), open tunnels, connect and disconnect ports, send, destroy
  and fetch actors. At most one token tunnel leads to a runtime
  (`cc_tunnel_create` returns the existing one), so a tunnel is named by its
  runtime and carries its current id. `broken` is the time between the loss of
  a connection and the moment the node notices it, when messages still come in
  and sending fails. The scheduler's round is taken one actor at a time, which
  allows more interleavings than the code has. The storage and proxy tunnels
  appear as the two references they hold on the proxy's link. A pointer to a
  freed port is the value `Freed`; writing through it changes nothing else in
  the model.

* **Node** (**MCNode**) – the life of one runtime in `cc_node.c`: start from
  the state file, dial each URI, join, open the storage and the proxy tunnel,
  report itself (CONFIG to a new proxy, WAKEUP to a known one), run, ask to
  sleep, stop. `node.pc` is the call of `cc_platform_evt_wait` the thread is
  in; an action is everything up to the next one (`Receive` runs a handler and
  then what follows the wait). The file is written at checkpoints, before
  sleep and at the end, and a crash may leave it truncated (`Saving`). The
  actors are one port with its token tunnel; a port that cannot use the tunnel
  it has gives it back and asks for another. `pc = "fault"` is the null pointer read by a
  restart with unfinished requests. `past` records what the exceptions in the
  properties speak of.
* **Transport** (**MCTransport**) – the bytes under it, on five hosts: x86,
  ESP8266, Spritzer, Android with a socket, Android with FCM. A byte is the
  message it belongs to and its place in it, so that framing is by position as
  in the code and a message put together from two others is recognised
  (`Garbled`). Each platform's `cc_platform_evt_wait` decides what is polled,
  when a failure is noticed and whether a prefix may arrive in pieces; Java's
  commands come through a pipe.
* **Channel** – the abstract specification Transport implements: on a
  connection, what was sent is handled in order and once.
* **Devices** (**MCDevices**) – calvinsys objects and the built-in actors that
  use them, on four configurations (x86, x86 with CoAP, ESP8266, Android). The
  table `TypeOf` says what each actor's init asks for and opens, the fire
  functions are operators from a node to the nodes they may leave. An object
  is `[ready, armed, reads]`, the argument of an actor is set, zero, of another
  type, missing or given away. Actors are created from a message or from saved
  state, connected, disconnected, migrated, refused, deleted, saved and
  restored, and the process stops or crashes in between. Two error paths are as
  bad as they are in the code. A failed `cc_calvinsys_open` reads the id of the
  object it has freed: it fails cleanly or ends the process, as the build will
  have it. And if an actor cannot be restored, `cc_node_reset` frees those
  restored before it through a transport client that does not exist yet: the
  process ends and what is stored stays; only a failure with the first actor
  makes a new node. The ghost `owed` says whether TriggeredTemperature owes a
  reading for a trigger it took ("yes"), or owed one when it was written down
  and came back without ("lost").

The modules share no variables: each keeps of its neighbours only what decides
its own steps. Node has of Ports whether its port is connected, Transport has
of Node the places it waits at, Devices has of Ports whether an actor is
enabled and how full its queues are; TokenTransfer relies on the in-order
delivery that Transport establishes as long as connections do not end within
a message.

A definition has the name of the C function it models where there is one. The
operators marked "Mutant" are wrong variants of the definition below them: each
property is known to fail for the variant named in `PROJECT.json`.

## The runs

| run | checks | shows |
|---|---|---|
| transfer_one_token | TypeOK, InOrderDelivery, FreedIsStored, ImplementsQueue, AllDelivered | one token under way, two faults: exactly a queue, no token freed that was not stored, and without faults every token arrives |
| transfer_window | QueueWellFormed, FreedOnlyWhenStored, NoNilDelivered, UnreadKept | two tokens under way, a full receiver, one fault: queues intact, the sender's read position never ahead of what the receiver has stored, no emptied slot delivered |
| transfer_sequence | *StoredInSequence fails* | a refused token is overtaken (`cc_fifo.c:236`) |
| timers | TypeOK, OneTimer, TimerRuns, NotEarly, AllCounted | two actors and a restart anywhere: no timer leaked, lost or early, every actor sends all its numbers unless the loop is caught in a wait without a limit |
| ports_pair | TypeOK, RefCounts, EnabledIsConnected | a local pair with a remote port, a lost connection |
| ports_two_runtimes | RefCounts, EnabledIsConnected | two ports, two runtimes, refusals, a change of proxy |
| ports_waiting | WaitingAnswered, WaitingEnds | no port waits for an answer that cannot come, every attempt to connect ends |
| ports_without_peer | *EnabledHasPeer fails* | a late PORT_CONNECT answer enables a port, and a migrating actor, without a tunnel |
| node_life | TypeOK, StartedIsConnected, StartedIsConfigured, StopReleases, SleepKeepsTunnels, Connects, Abolished | two proxies, a lost connection, refusals, a restart, a sleep and a message from the proxy, in every order |
| transport | TypeOK, ImplementsChannel, Rejoins, AllHandled | five hosts, messages in any portions, connections cut between messages: a channel, and a lost one is replaced |
| transport_torn | *CompleteMessages fails* | a connection that ends within a message leaves a part that the next one completes |
| devices | TypeOK, ObjectsOwned, TriggersAnswered, StillMeasures | four configurations, every built-in actor, refused migrations, restarts and crashes: no object leaked or lost, a trigger taken since the last restart has its reading waiting, Temperature always has a measurement or a timer |

The runs in which a property fails show a difference between the code and its
own comments, tests or messages; `PROJECT.json` quotes them under "findings".

Other behaviour of the models that a reader of the code would not expect, met
while the properties were written. The properties name each as an exception
where it touches them:

* `cc_calvinsys_timers_check` returns the time to the last timer of the list
  (`cc_calvinsys_timer.c:257`; the header says "timeout value for next
  timer"). The actors are late for it, but all their numbers come (AllCounted).
* It makes the timeout 0 for a timer that triggers in the second check of an
  iteration (`cc_node.c:1041`), and the platform takes 0 as no limit
  (`cc_platform_x86.c:83`). The loop then waits with the timer triggered until
  something comes from outside; AllCounted names this wait as its exception.
* An actor that cannot be restored after another one was ends the process: the
  node says "Failed to get state, resetting node" (`cc_node.c:505`), but
  `cc_node_reset` sends the removal of the first one (`cc_node.c:267`) with no
  transport client yet (`cc_proto.c:938`, `:712`). The file is unchanged, so
  this happens at every start; the node of Devices is then off with the same
  state stored.
* `cc_actor_connect_ports` makes an actor whose port has used up its attempts
  ("Max connect attempts, deleting", `cc_port.c:593`) pending again; it stays.
* An order to stop is lost when the node waits for the answer to its setup or
  to its request to sleep (`cc_node.c:344`, `:861`), or asks to sleep before it
  looks at its state again. Abolished says that these are the only ways.
* A node that is saved with a tunnel or a port still waiting cannot be started
  again (`cc_proto.c:903`).
* A storage or proxy tunnel whose request was lost with the connection keeps
  `cc_node_connect_to_proxy` waiting for good on the same proxy (Connects), and
  the ones that came out of the state file are not given back (StopReleases).
* `cc_api_reconnect` takes the interface down on Android and nothing takes it
  up (AllHandled).
* An actor whose migration was refused has given its period away
  (`cc_actor_temperature.c:255`); StillMeasures is about actors that have theirs.
* Two triggers of TriggeredTemperature may share a reading when the out-port
  is full. A reading that waits when the actor is saved or migrated does not
  come back, and the trigger it belonged to was taken: that answer is lost.
  TriggersAnswered is about triggers taken since.
* A period of 0 leaves Temperature waiting for a timer that is not armed.

**Bounds.** A queue of n slots holds n-1 tokens. TransferOneToken has two slots
at the sender, so that one token is under way, and enough tokens for both
queues to wrap. TransferWindow has a sender with two tokens and a receiver with
one, the smallest sizes at which a token is refused while a later one follows.
Timers: periods of one and three seconds make the timers
meet in every order; six steps are two more than the actor counts before it
has changed to a periodic timer; the default queue of four slots holds three
tokens, as many as the actor sends with its single-shot timer. With a shorter
queue and a peer that takes nothing the single-shot timer is read, the token
does not fit and the timer is not set again (`cc_actor_counttimer.c:239`):
AllCounted then fails. Ports: two ports share a tunnel or use two; two tunnel ids let an id
change under a waiting port and be used again; one or two attempts instead of
five, since the count only decides when to give up; one loss, because a second
one finds the node in a state the first has left already. A step that would
exceed MaxIds or MaxPending is not taken (`full`).
Node: two proxies and two URIs, the first of which has no client, so that the
list is walked; one lost or refused connection, two starts, one request to
sleep and one message from the proxy meet in every order, and reference counts
keep their eight bits, which matters at 0. Transport: payloads of one and three
bytes against a prefix of four, so that a prefix can swallow a message and a
message can come in pieces; three messages and three faults, with four
descriptors, reach the end of the descriptor table. Devices: two actors on x86
with CoAP, where they contend for a single slot (ten in the code), and on
Android, one on the others; queues of one token, two readings of a test pin
(five in the code), and four moves, the length of create, save, restore,
migrate.

**Fairness.** TokenTransfer and TimerLoop: the loop of `cc_node_run` goes round
as long as the node is not stopped, every round gives every actor and port a
turn, and TCP delivers what was sent on a connection that is not lost.
That a wait without a limit ends is not assumed: AllCounted names it as the
exception. Ports:
`WF_vars(Reply)` (some answer arrives), a turn for each actor, and the main
loop's attempt to connect again. Nothing is assumed about what other runtimes
ask for. AllDelivered speaks of behaviours without faults, WaitingEnds of a
connection that is not lost; a restart may happen in AllCounted.

Node: the thread takes its next step and the proxy handles what it gets;
nothing is assumed about losses, crashes and starts. Transport: the thread
runs, the proxy answers a join, and rounds in which no actor fires come again
and again, without which x86 never looks at the result of its wait. Devices:
safety only, with no fairness, since an enabled actor has no turn to count on
while the loop waits.

Deadlock is checked in the timer and port runs. The others may stop: in the
transfer runs when the bounded number of tokens has been transferred, in the
rest when the node is off or has failed and no start or move is left.

## The proofs

Each theorem holds for every value of the constants that satisfies the named
assumptions of the module: queue sizes are positive, fewer tokens than the wrap
of the positions are produced, periods and bounds are numbers, a list of ports
belongs to one actor, message sizes fit the length prefix, a reference count can
hold more than 0 (eight bits in the code), the actor ids are finitely many,
special values are not data. Where a theorem needs more, its ASSUME says so. TLC
has checked every inductive invariant on the bounds of the runs before it was
proved. The proofs go action by action: a lemma says what a handler does to the
state, a second one that this keeps the invariant.

**Token transfer.** For every queue size, number of tokens, messages and faults:

* `TypeCorrect`, `QueuesWellFormed`: TypeOK and QueueWellFormed are not
  inductive, because a TOKEN_REPLY could carry a sequence number the sender
  has not used. `SafetyInv` adds `SequenceBounds`: every sequence number in a
  message is below the number of tokens produced, which is the sender's write
  position, and the receiver has not stored more than that. The lemmas on
  Fifo say that positions less than the size apart have different slots, and that
  writing or freeing one slot leaves the others.
* `UnreadTokensKept`: no step changes a token that has been written and not
  read, from SafetyInv.
* `FreedNotAhead`, `NoNilConsumed`: with several tokens under way an ACK may
  be for a token that was stored in the place of an earlier one, so "an ACK is
  for a stored position" is not enough. `WindowInv` bounds the sender's read
  position after each answer under way (`Covered`), and says that a message
  made from a freed slot is older than anything the receiver still takes.
  FreedNotAhead compares positions: it does not say that the token freed is the
  one stored there, which is false with several under way.

For a sending queue of one token (`SndSize = 2`):

* `TokensInOrder`: `OneTokenInv` says that each queue holds the token of each
  position, that a TOKEN message has a position the sender has freed or the one
  it still has, with that one's data, and that an ACK is for a stored position.
  A token under way that is already freed is one the receiver drops. With more
  tokens under way in-order delivery is false (transfer_sequence).
* `FreedTokensAreStored`: here the token freed is the token stored. Every
  position the sender has freed is one the receiver has stored (FreedNotAhead),
  and by OneTokenInv a stored or delivered position has its own token.
* `ConnectionIsQueue`: the refinement; consuming is Get, producing is Put, and
  all other steps stutter.

**Timers.** For any actors, periods, number of steps and restarts, from
`TimerInv`:

* `OneTimerAlways`, `LoopTypeCorrect`: the invariant must also hold of the saved
  state, from which the timers come back at a restart.
* `TimerRunsAlways` assumes `QueueLen >= 3`, which `cc_fifo_init` gives (four
  slots). The reason it is needed is in the invariant: a timer with which the
  actor has gone on to the fourth number repeats, and the three before that fit
  into the queue, so a timer that was read is always set again.
* `NeverEarly`: `since[a] + left >= Sleep[a]` for every running timer.

**Ports.** For any actors, ports, runtimes, refusals and losses, from
`PortsInv`. The C functions are operators on the whole node, so the invariant
is a predicate on such a state (`NodeSound`) and there is one lemma per
function: it keeps a sound node sound. In between, a port may wait for
something not yet asked for; the ports in that position are a parameter (`X`).

* `PortsTypeCorrect`, `CountsAreUsers`: the counts of a tunnel and of its link
  are the numbers of the ports and tunnels that use them. The proof needs that
  a port that does not exist holds no tunnel.
* `EnabledAreConnected`: stated of all ports, also those of actors that are
  gone, whose state `cc_actor_free` leaves as "not enabled".
* `WaitingIsAnswered` assumes `Calm`: no lost connection and no refused request,
  as the property itself does. RequestsSound adds what makes it inductive: no
  two open tunnels have the same id, so an answer finds its tunnel, and a
  pending tunnel has its request under way.

**Transport.** For all five hosts, any message sizes, portions and faults:

* `TransportTypeCorrect`: that there is at most one connection more than there
  were faults needs `Budget`, which says when the node is going to connect again
  (`Redials`) and that this was paid for by a fault; `PipeSound` says that over
  FCM the answer to a connect comes once, to a node that waits for it.
* `HandledIsSent`, `OnlyComplete` assume `Whole`: connections end between
  messages, and no socket of x86 or Android returns a part of the length
  prefix. The code drops such a part as an error; the other two hosts then leave
  the connection, these two go on reading it in the middle of a frame.
  `ChannelInv`
  relates four pieces of state: what was handled, what has been read of the
  message in the buffer, the bytes under way and what was sent (`Aligned`);
  over FCM, the messages in the pipe (`PipeInOrder`). Every step is a step of
  Channel or a stutter. transport_torn shows that the assumption is needed:
  without it CompleteMessages is false.

**Node.** For any proxies, lists of URIs, refusals, losses, crashes and
restarts, from `NodeInv`. Its parts are predicates on a node and the two message
streams, because a handler is an operator on all three; a lemma per function
says which parts it keeps.

* `NodeTypeCorrect`: a count stays within its unsigned range. `TunnelsSound` says
  more: as long as the node runs, a tunnel has its one user counted, and none if
  the node holds it since a restart, in which case cc_node_stop takes the count
  from 0 to 255 and does not free the tunnel. It also says that a tunnel is
  asked for once and is pending while an answer is due, so that no late answer
  changes a tunnel that was freed.
* `NodeConnected`: an answer that starts the node may come after other answers,
  so `ReportsSound` says already of the report under way that the node is
  attached to its proxy (`Attached`), and `WaitSound` that no report is sent
  before that.
* `NodeConfigured`: whether CONFIG or WAKEUP is sent depends on the link the node
  has had, also across a restart. `LinkSound` says that the runtime of the link
  knows the node, or refused it a tunnel, or will be sent a CONFIG before the
  node waits elsewhere; `FileSound` says it of the link in the state file.
* `NodeReleases`, `NodeKeepsTunnels`: what cc_node_stop sends and the sleep does
  not, from the counts in `TunnelsSound`.

**Devices.** For all four configurations, any actors, queue sizes, slots and
moves, from `DevicesInv` (in DevicesProofs, as its types are sets of partial
functions that TLC would list; TLC has checked it with the types written out
field by field). It relates three places an actor may be written in: the node,
the storage and the other runtime.

* `DevicesInvariant`: ObjectsOwned alone is not inductive, because an actor comes
  back from storage or from the peer with the ids and objects written of it.
  `SerialSound` says that what is written is all its type opens (`Covers`), also
  what the actor keeps from its first serialisation, which is written again
  instead of the current one. `Apart` and `ApartFrom` say that no id stands for
  objects of two actors in any two of the three places, so restoring one actor
  never takes an object of another; an old copy of the same actor may share its
  ids.
* `ObjectsAreOwned`: an actor whose creation fails after some of its objects were
  opened or restored is freed, and the node is exactly what it was before
  (`FreeUndoes`); so is `sys->fds`, which counts the CoAP objects. If the
  failure ends the process instead, nothing is left (`Dead`), and the next start
  finds the file as it was; the theorem is about the processes that run.
* `DevicesTypeCorrect`: that an id is free for every new object, among six for
  every actor and one more, is counted: at most two objects of an actor in each
  of the three places. A CoAP object is only opened below the limit of slots.
* `OwedReadingWaits`: the thermometer is ready exactly if a reading is owed for a
  trigger taken since the actor was made or came back. The invariant needs that
  a thermometer is never armed, so that nothing but its actor changes it. It
  comes back idle from a restart, and what was owed then is lost, not answered:
  the theorem says nothing of those triggers.

**Loops.** `cc_actor_connect_ports`, opening or restoring the objects of an actor
and restoring the actors are folds over lists. The library's induction theorems
take a predicate, which the provers cannot instantiate; DataInduction states them
for sets instead, and Folding has the step as a constant operator: an instance
of it gives the states each loop runs through, one per step, and says that it
stays in any set its step does not leave.

What proving has changed in the models: two CASE expressions with overlapping
guards, in Transport and in Devices, whose value TLA+ leaves open where TLC
takes the first that is true, are written without overlap, TypeOK of several
modules says more of records and sequences than it did, and the steps of the
loops in Devices are operators of their own.

Only model-checked: liveness (AllDelivered, AllCounted, WaitingEnds, Connects,
Abolished, Rejoins, AllHandled), which TLAPS does not handle, and the invariant
StillMeasures. Every other safety property of a passing run has its theorem.

## Not modelled

Encoding, formatting and logging; scripts, which only build the descriptions
that arrive in messages otherwise; pending implementations and requirement
matching; tokens kept in a saved queue; the wrap of the clock and of queue
positions; provisioning of the ESP8266; `sys.schedule`, which no built-in actor
opens; the camera actor, which is in no configuration. The nRF52 platform and
its lwIP transport are written against an older interface and do not compile
with this tree. Msgpuck, mbedtls and MicroPython are submodules that are not in
the tree, and the code around them is glue. Memory exhaustion is not modelled
anywhere. `PROJECT.json` has the reason for each part.

## Plan

1. *LocalTransfer*: tokens between two ports on the node, with migration and
   deletion of one side (the freed peer port), as another implementation of
   TokenQueue.
2. Both ends of a tunnel in one model, with the comparison of ids
   (`cc_uuid_is_higher`).
3. Queues restored from saved tokens; the wrap of positions with a small
   `UIntMod`.
