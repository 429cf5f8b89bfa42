-------------------------------- MODULE Fifo --------------------------------
(***************************************************************************)
(* The token queue of a port: cc_fifo_t of runtime/north/cc_fifo.c and the  *)
(* cc_token_t slots of cc_token.c, as operators on a record.                *)
(*                                                                          *)
(* The three positions are uint32_t counters that are never reset; a slot   *)
(* is addressed by position % size.  UIntMod is the modulus of the counters *)
(* (2^32 in the build).  An operation that can fail is split into its test   *)
(* and its effect.                                                          *)
(***************************************************************************)
EXTENDS Integers

CONSTANTS
  UIntMod,    \* positions are integers modulo UIntMod
  NoToken,    \* the value of a slot that holds no token (value == NULL)
  NilData     \* the encoded nil value

ASSUME UIntModAssumption == UIntMod \in Nat \ {0}

(***************************************************************************)
(* Unsigned arithmetic on positions.                                        *)
(***************************************************************************)
UInc(a) == IF a + 1 = UIntMod THEN 0 ELSE a + 1
USub(a, b) == IF a >= b THEN a - b ELSE a - b + UIntMod

Position == 0 .. UIntMod - 1

(***************************************************************************)
(* The queues of a given size whose slots hold values of the set Value.     *)
(***************************************************************************)
FifoType(n, Value) ==
  [ size : {n}, write_pos : Position, read_pos : Position,
    tentative_read_pos : Position, tokens : [0 .. n - 1 -> Value \cup {NoToken}] ]

\* The slot a position addresses in a queue of n slots.
Slot(pos, n) == pos % n

\* A queue without previous state: of the size the port's "queue_length"
\* property gives, and of size 4 when there is none.
cc_fifo_init(n) ==
  [ size |-> n, write_pos |-> 0, read_pos |-> 0, tentative_read_pos |-> 0,
    tokens |-> [i \in 0 .. n - 1 |-> NoToken] ]

cc_fifo_init_empty == cc_fifo_init(4)

cc_fifo_cancel(fifo) == [fifo EXCEPT !.tentative_read_pos = fifo.read_pos]

\* The token a read returns, and the queue after the read.
PeekedToken(fifo) == fifo.tokens[Slot(fifo.tentative_read_pos, fifo.size)]
cc_fifo_peek(fifo) == [fifo EXCEPT !.tentative_read_pos = UInc(@)]

\* Whether the token's storage is freed or passed on, the slot is emptied.
cc_token_free(fifo, slot) == [fifo EXCEPT !.tokens = [@ EXCEPT ![slot] = NoToken]]

\* Mutant: the slot that is freed is the one to be read next.
FreeHead_wrong_slot(fifo) ==
  [cc_token_free(fifo, Slot(fifo.tentative_read_pos, fifo.size)) EXCEPT !.read_pos = UInc(@)]

FreeHead(fifo) ==
  [cc_token_free(fifo, Slot(fifo.read_pos, fifo.size)) EXCEPT !.read_pos = UInc(@)]

cc_fifo_commit_read(fifo) ==
  IF fifo.read_pos < fifo.tentative_read_pos THEN FreeHead(fifo) ELSE fifo

cc_fifo_cancel_commit(fifo) == [fifo EXCEPT !.tentative_read_pos = fifo.read_pos]

\* Mutant: the slot that tells a full queue from an empty one is used too.
cc_fifo_slots_available_all(fifo, length) ==
  fifo.size - (USub(fifo.write_pos, fifo.read_pos) % fifo.size) >= length

cc_fifo_slots_available(fifo, length) ==
  fifo.size - (USub(fifo.write_pos, fifo.read_pos) % fifo.size) - 1 >= length

cc_fifo_tokens_available(fifo, length) ==
  USub(fifo.write_pos, fifo.tentative_read_pos) >= length

\* What a token is sent as: a slot without a token is encoded as nil.
cc_token_encode(token) == IF token = NoToken THEN NilData ELSE token

cc_token_set_data(fifo, slot, data) ==
  [fifo EXCEPT !.tokens = [@ EXCEPT ![slot] = data]]

cc_fifo_write(fifo, data) ==
  IF cc_fifo_slots_available(fifo, 1)
  THEN [cc_token_set_data(fifo, Slot(fifo.write_pos, fifo.size), data)
          EXCEPT !.write_pos = UInc(@)]
  ELSE fifo

(***************************************************************************)
(* The operations of a queue whose other end is on another runtime.         *)
(***************************************************************************)
\* The sequence number a remote read is sent with; the read itself is a peek.
PeekedSequenceNbr(fifo) == fifo.tentative_read_pos
cc_fifo_com_peek(fifo) == cc_fifo_peek(fifo)

\* Mutant: a token that was stored before is stored again.
cc_fifo_com_write_unchecked(fifo, data, sequence_nbr) == cc_fifo_write(fifo, data)

\* A token that is older than the queue is dropped; the caller acknowledges
\* it as it does a token that was stored.
cc_fifo_com_write(fifo, data, sequence_nbr) ==
  IF sequence_nbr >= fifo.write_pos THEN cc_fifo_write(fifo, data) ELSE fifo

cc_fifo_com_commit_read(fifo, sequence_nbr) ==
  IF /\ sequence_nbr < fifo.tentative_read_pos
     /\ fifo.read_pos < fifo.tentative_read_pos
     /\ sequence_nbr = fifo.read_pos
  THEN FreeHead(fifo)
  ELSE fifo

\* Mutant: a refused token is not read again.
cc_fifo_com_cancel_read_ignored(fifo, sequence_nbr) == fifo

cc_fifo_com_cancel_read(fifo, sequence_nbr) ==
  IF sequence_nbr >= fifo.tentative_read_pos /\ sequence_nbr < fifo.read_pos
  THEN fifo
  ELSE [fifo EXCEPT !.tentative_read_pos = sequence_nbr]

(***************************************************************************)
(* A queue keeps its unread tokens apart: at most size - 1 positions lie    *)
(* between the read and the write position, and exactly their slots hold a  *)
(* token.                                                                   *)
(***************************************************************************)
Filled(tokens, n, r, w) ==
  /\ \A p \in r .. w - 1 : tokens[Slot(p, n)] # NoToken
  /\ \A p \in w .. r + n - 1 : tokens[Slot(p, n)] = NoToken

WellFormed(fifo) ==
  /\ fifo.read_pos <= fifo.write_pos
  /\ fifo.write_pos - fifo.read_pos <= fifo.size - 1
  /\ fifo.tentative_read_pos <= fifo.write_pos
  /\ Filled(fifo.tokens, fifo.size, fifo.read_pos, fifo.write_pos)
=============================================================================
