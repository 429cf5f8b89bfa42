------------------------- MODULE TokenTransferProofs -------------------------
(***************************************************************************)
(* What the operations of module Fifo do to a well-formed queue, for every  *)
(* queue size, while the positions are below the wrap of the counters; and  *)
(* proofs about module TokenTransfer, for every size of the two queues and  *)
(* every bound.                                                             *)
(***************************************************************************)
EXTENDS TokenTransfer, TLAPS

(***************************************************************************)
(* Slots.                                                                   *)
(***************************************************************************)
\* A multiple of n that lies strictly between 0 and n does not exist.
LEMMA NoSmallMultiple ==
  ASSUME NEW n \in Nat \ {0}, NEW x \in Int, NEW y \in Int,
         0 < n * x - n * y, n * x - n * y < n
  PROVE  FALSE
OBVIOUS

\* Division with remainder.
LEMMA DivMod ==
  ASSUME NEW n \in Nat \ {0}, NEW a \in Nat
  PROVE  /\ a \div n \in Int
         /\ a % n \in 0 .. n - 1
         /\ a = n * (a \div n) + (a % n)
OBVIOUS

\* A position less than the size is its own slot.
LEMMA SmallMod ==
  ASSUME NEW n \in Nat \ {0}, NEW a \in Nat, a < n
  PROVE  a % n = a
OBVIOUS

\* Every position has a slot.
LEMMA SlotRange ==
  ASSUME NEW n \in Nat \ {0}, NEW a \in Nat
  PROVE  Slot(a, n) \in 0 .. n - 1
BY DivMod DEF Slot

\* Fewer than n positions in a row address different slots.
LEMMA SlotsDiffer ==
  ASSUME NEW n \in Nat \ {0}, NEW a \in Nat, NEW b \in Nat, a < b, b - a < n
  PROVE  Slot(a, n) # Slot(b, n)
<1> SUFFICES ASSUME a % n = b % n PROVE FALSE
  BY DEF Slot
<1> DEFINE x == a \div n
           y == b \div n
           r == a % n
<1>1. a = n * x + r /\ x \in Int /\ r \in Int
  BY DivMod
<1>2. b = n * y + r /\ y \in Int
  BY DivMod
<1> HIDE DEF x, y, r
<1>3. n * x \in Int /\ n * y \in Int
  BY <1>1, <1>2
<1>4. 0 < n * y - n * x /\ n * y - n * x < n
  BY <1>1, <1>2, <1>3
<1> QED
  BY <1>1, <1>2, <1>4, NoSmallMultiple

\* A position and the one a whole round later address the same slot.
LEMMA NextRound ==
  ASSUME NEW n \in Nat \ {0}, NEW a \in Nat
  PROVE  Slot(a + n, n) = Slot(a, n)
<1> DEFINE b == a + n
           x == a \div n
           y == b \div n
           r == a % n
           s == b % n
<1>1. a = n * x + r /\ x \in Int /\ r \in 0 .. n - 1
  BY DivMod
<1>2. b \in Nat /\ b = a + n
  OBVIOUS
<1>3. b = n * y + s /\ y \in Int /\ s \in 0 .. n - 1
  <2> HIDE DEF b
  <2> QED
    BY <1>2, DivMod
<1> SUFFICES s = r
  BY DEF Slot
<1> HIDE DEF b, x, y, r, s
<1>4. n * x \in Int /\ n * y \in Int /\ n * (x + 1) = n * x + n
  BY <1>1, <1>3
<1>5. CASE s > r
  <2>1. 0 < n * (x + 1) - n * y /\ n * (x + 1) - n * y < n
    BY <1>1, <1>2, <1>3, <1>4, <1>5
  <2> QED
    BY <1>1, <1>3, <2>1, NoSmallMultiple
<1>6. CASE s < r
  <2>1. 0 < n * y - n * (x + 1) /\ n * y - n * (x + 1) < n
    BY <1>1, <1>2, <1>3, <1>4, <1>6
  <2> QED
    BY <1>1, <1>3, <2>1, NoSmallMultiple
<1> QED
  BY <1>1, <1>3, <1>5, <1>6

(***************************************************************************)
(* Types and tests.                                                         *)
(***************************************************************************)
\* The fields of a queue.
LEMMA FifoFields ==
  ASSUME NEW n \in Nat \ {0}, NEW V, NEW f \in FifoType(n, V)
  PROVE  /\ f.size = n
         /\ f.write_pos \in Nat /\ f.read_pos \in Nat /\ f.tentative_read_pos \in Nat
         /\ f.write_pos < UIntMod /\ f.read_pos < UIntMod /\ f.tentative_read_pos < UIntMod
         /\ f.tokens \in [0 .. n - 1 -> V \cup {NoToken}]
BY UIntModAssumption DEF FifoType, Position

\* A well-formed queue has a slot available when fewer than size - 1 of its
\* tokens are unread: one slot always stays empty.
LEMMA SlotsAvailable ==
  ASSUME NEW n \in Nat \ {0}, NEW V, NEW f \in FifoType(n, V), WellFormed(f)
  PROVE  cc_fifo_slots_available(f, 1) <=> f.write_pos - f.read_pos < n - 1
<1>1. /\ f.size = n /\ f.write_pos \in Nat /\ f.read_pos \in Nat
      /\ f.read_pos <= f.write_pos /\ f.write_pos - f.read_pos <= n - 1
  BY FifoFields DEF WellFormed
<1>2. USub(f.write_pos, f.read_pos) = f.write_pos - f.read_pos
  BY <1>1 DEF USub
<1>3. (f.write_pos - f.read_pos) % n = f.write_pos - f.read_pos
  BY <1>1, SmallMod
<1> QED
  BY <1>1, <1>2, <1>3 DEF cc_fifo_slots_available

\* A token can be read when the tentative read position is behind the write
\* position.
LEMMA TokensAvailable ==
  ASSUME NEW n \in Nat \ {0}, NEW V, NEW f \in FifoType(n, V), WellFormed(f)
  PROVE  cc_fifo_tokens_available(f, 1) <=> f.tentative_read_pos < f.write_pos
BY FifoFields DEF WellFormed, cc_fifo_tokens_available, USub

\* A new queue is empty and well-formed.
LEMMA InitWellFormed ==
  ASSUME NEW n \in Nat \ {0}, NEW V
  PROVE  cc_fifo_init(n) \in FifoType(n, V) /\ WellFormed(cc_fifo_init(n))
<1> DEFINE f == cc_fifo_init(n)
<1>1. f \in FifoType(n, V)
  BY UIntModAssumption DEF cc_fifo_init, FifoType, Position
<1>2. \A p \in 0 .. n - 1 : f.tokens[Slot(p, n)] = NoToken
  <2> SUFFICES ASSUME NEW p \in 0 .. n - 1 PROVE f.tokens[Slot(p, n)] = NoToken
    OBVIOUS
  <2>1. Slot(p, n) \in 0 .. n - 1
    BY SlotRange
  <2> QED
    BY <2>1 DEF cc_fifo_init
<1> QED
  BY <1>1, <1>2 DEF cc_fifo_init, WellFormed, Filled

(***************************************************************************)
(* The slots when a token is added or removed.                              *)
(***************************************************************************)
\* The positions of one round address different slots.
LEMMA RoundSlots ==
  ASSUME NEW n \in Nat \ {0}, NEW r \in Nat,
         NEW p \in r .. r + n - 1, NEW q \in r .. r + n - 1, p # q
  PROVE  Slot(p, n) # Slot(q, n) /\ Slot(p, n) \in 0 .. n - 1
<1>1. p \in Nat /\ q \in Nat
  OBVIOUS
<1>2. CASE p < q
  <2>1. q - p < n
    BY <1>1
  <2> QED
    BY <1>1, <1>2, <2>1, SlotsDiffer, SlotRange
<1>3. CASE q < p
  <2>1. p - q < n
    BY <1>1
  <2> QED
    BY <1>1, <1>3, <2>1, SlotsDiffer, SlotRange
<1> QED
  BY <1>1, <1>2, <1>3

\* A token added at the write position.
LEMMA FilledWrite ==
  ASSUME NEW n \in Nat \ {0}, NEW r \in Nat, NEW w \in Nat, r <= w, w - r < n - 1,
         NEW tokens, Filled(tokens, n, r, w),
         NEW new, new[Slot(w, n)] # NoToken,
         \A i \in 0 .. n - 1 : i # Slot(w, n) => new[i] = tokens[i]
  PROVE  /\ Filled(new, n, r, w + 1)
         /\ \A p \in r .. w - 1 : new[Slot(p, n)] = tokens[Slot(p, n)]
<1>1. w \in r .. r + n - 1
  OBVIOUS
<1>2. \A p \in r .. r + n - 1 : p # w => new[Slot(p, n)] = tokens[Slot(p, n)]
  <2> SUFFICES ASSUME NEW p \in r .. r + n - 1, p # w
               PROVE  new[Slot(p, n)] = tokens[Slot(p, n)]
    OBVIOUS
  <2>1. Slot(p, n) # Slot(w, n) /\ Slot(p, n) \in 0 .. n - 1
    BY <1>1, RoundSlots
  <2> QED
    BY <2>1
<1>4. \A p \in r .. w - 1 : new[Slot(p, n)] = tokens[Slot(p, n)]
  BY <1>2
<1>5. \A p \in r .. (w + 1) - 1 : new[Slot(p, n)] # NoToken
  <2> SUFFICES ASSUME NEW p \in r .. (w + 1) - 1 PROVE new[Slot(p, n)] # NoToken
    OBVIOUS
  <2>1. CASE p = w
    BY <2>1
  <2>2. CASE p # w
    BY <1>4, <2>2 DEF Filled
  <2> QED
    BY <2>1, <2>2
<1>6. \A p \in w + 1 .. r + n - 1 : new[Slot(p, n)] = NoToken
  BY <1>2 DEF Filled
<1> QED
  BY <1>4, <1>5, <1>6 DEF Filled

\* The token at the read position removed.
LEMMA FilledFree ==
  ASSUME NEW n \in Nat \ {0}, NEW r \in Nat, NEW w \in Nat, r < w, w - r <= n - 1,
         NEW tokens, Filled(tokens, n, r, w),
         NEW new, new[Slot(r, n)] = NoToken,
         \A i \in 0 .. n - 1 : i # Slot(r, n) => new[i] = tokens[i]
  PROVE  /\ Filled(new, n, r + 1, w)
         /\ \A p \in r + 1 .. w - 1 : new[Slot(p, n)] = tokens[Slot(p, n)]
<1>1. r \in r .. r + n - 1
  OBVIOUS
<1>2. \A p \in r .. r + n - 1 : p # r => new[Slot(p, n)] = tokens[Slot(p, n)]
  <2> SUFFICES ASSUME NEW p \in r .. r + n - 1, p # r
               PROVE  new[Slot(p, n)] = tokens[Slot(p, n)]
    OBVIOUS
  <2>1. Slot(p, n) # Slot(r, n) /\ Slot(p, n) \in 0 .. n - 1
    BY <1>1, RoundSlots
  <2> QED
    BY <2>1
<1>3. new[Slot(r + n, n)] = NoToken
  BY NextRound
<1>4. \A p \in r + 1 .. w - 1 : new[Slot(p, n)] = tokens[Slot(p, n)]
  BY <1>2
<1>5. \A p \in r + 1 .. w - 1 : new[Slot(p, n)] # NoToken
  BY <1>4 DEF Filled
<1>6. \A p \in w .. (r + 1) + n - 1 : new[Slot(p, n)] = NoToken
  <2> SUFFICES ASSUME NEW p \in w .. (r + 1) + n - 1 PROVE new[Slot(p, n)] = NoToken
    OBVIOUS
  <2>1. CASE p = r + n
    BY <1>3, <2>1
  <2>2. CASE p # r + n
    BY <1>2, <2>2 DEF Filled
  <2> QED
    BY <2>1, <2>2
<1> QED
  BY <1>4, <1>5, <1>6 DEF Filled

(***************************************************************************)
(* Changing the queue.                                                      *)
(***************************************************************************)
\* A write fills the slot of the write position and leaves the unread tokens
\* where they are.
LEMMA WriteFifo ==
  ASSUME NEW n \in Nat \ {0}, NEW V, NEW f \in FifoType(n, V), WellFormed(f),
         NEW d \in V, d # NoToken,
         f.write_pos + 1 < UIntMod, cc_fifo_slots_available(f, 1),
         NEW g, g = cc_fifo_write(f, d)
  PROVE  /\ g \in FifoType(n, V)
         /\ WellFormed(g)
         /\ g.write_pos = f.write_pos + 1
         /\ g.read_pos = f.read_pos
         /\ g.tentative_read_pos = f.tentative_read_pos
         /\ g.tokens[Slot(f.write_pos, n)] = d
         /\ \A p \in f.read_pos .. f.write_pos - 1 : g.tokens[Slot(p, n)] = f.tokens[Slot(p, n)]
<1> DEFINE w == f.write_pos
           r == f.read_pos
           t == f.tentative_read_pos
           tokens == f.tokens
           new == [tokens EXCEPT ![Slot(w, n)] = d]
           h == cc_token_set_data(f, Slot(w, f.size), d)
<1>1. /\ f.size = n /\ w \in Nat /\ r \in Nat /\ t \in Nat
      /\ w < UIntMod /\ r < UIntMod /\ t < UIntMod
      /\ tokens \in [0 .. n - 1 -> V \cup {NoToken}]
  BY FifoFields
<1>2. r <= w /\ w - r < n - 1 /\ t <= w /\ Filled(tokens, n, r, w)
  BY <1>1, SlotsAvailable DEF WellFormed
<1>3. Slot(w, n) \in 0 .. n - 1
  BY <1>1, SlotRange
<1>4. /\ new \in [0 .. n - 1 -> V \cup {NoToken}]
      /\ new[Slot(w, n)] = d
      /\ \A i \in 0 .. n - 1 : i # Slot(w, n) => new[i] = tokens[i]
  <2> HIDE DEF w, tokens
  <2> QED
    BY <1>1, <1>3
<1>5. h = [f EXCEPT !.tokens = new]
  BY <1>1 DEF cc_token_set_data
<1>6. g = [h EXCEPT !.write_pos = UInc(h.write_pos)]
  BY DEF cc_fifo_write
<1>7. w + 1 < UIntMod
  OBVIOUS
<1>8. Filled(new, n, r, w + 1) /\ \A p \in r .. w - 1 : new[Slot(p, n)] = tokens[Slot(p, n)]
  <2> HIDE DEF w, r, t, tokens, new, h
  <2>1. new[Slot(w, n)] # NoToken
    BY <1>4
  <2>2. w \in Nat /\ r \in Nat /\ r <= w /\ w - r < n - 1
    BY <1>1, <1>2
  <2>3. Filled(tokens, n, r, w)
    BY <1>2
  <2>4. \A i \in 0 .. n - 1 : i # Slot(w, n) => new[i] = tokens[i]
    BY <1>4
  <2> QED
    BY <2>1, <2>2, <2>3, <2>4, FilledWrite
<1> HIDE DEF h, new
<1>9. h = [size |-> n, write_pos |-> w, read_pos |-> r, tentative_read_pos |-> t,
           tokens |-> new]
  BY <1>1, <1>5 DEF FifoType
<1>10. UInc(h.write_pos) = w + 1
  BY <1>1, <1>7, <1>9 DEF UInc
<1>11. g = [size |-> n, write_pos |-> w + 1, read_pos |-> r, tentative_read_pos |-> t,
            tokens |-> new]
  BY <1>6, <1>9, <1>10
<1> HIDE DEF w, r, t, tokens
<1>12. g \in FifoType(n, V)
  BY <1>1, <1>4, <1>7, <1>11, UIntModAssumption DEF FifoType, Position
<1>13. WellFormed(g)
  BY <1>1, <1>2, <1>8, <1>11 DEF WellFormed
<1> QED
  BY <1>4, <1>8, <1>11, <1>12, <1>13 DEF w, r, t, tokens

\* Freeing the oldest token empties its slot and no other.
LEMMA FreeFifo ==
  ASSUME NEW n \in Nat \ {0}, NEW V, NEW f \in FifoType(n, V), WellFormed(f),
         f.read_pos < f.write_pos,
         NEW g, g = FreeHead(f)
  PROVE  /\ g \in FifoType(n, V)
         /\ WellFormed(g)
         /\ g.write_pos = f.write_pos
         /\ g.read_pos = f.read_pos + 1
         /\ g.tentative_read_pos = f.tentative_read_pos
         /\ \A p \in f.read_pos + 1 .. f.write_pos - 1 : g.tokens[Slot(p, n)] = f.tokens[Slot(p, n)]
<1> DEFINE w == f.write_pos
           r == f.read_pos
           t == f.tentative_read_pos
           tokens == f.tokens
           new == [tokens EXCEPT ![Slot(r, n)] = NoToken]
           h == cc_token_free(f, Slot(r, f.size))
<1>1. /\ f.size = n /\ w \in Nat /\ r \in Nat /\ t \in Nat
      /\ w < UIntMod /\ r < UIntMod /\ t < UIntMod
      /\ tokens \in [0 .. n - 1 -> V \cup {NoToken}]
  BY FifoFields
<1>2. r < w /\ w - r <= n - 1 /\ t <= w /\ Filled(tokens, n, r, w)
  BY <1>1 DEF WellFormed
<1>3. Slot(r, n) \in 0 .. n - 1
  BY <1>1, SlotRange
<1>4. /\ new \in [0 .. n - 1 -> V \cup {NoToken}]
      /\ new[Slot(r, n)] = NoToken
      /\ \A i \in 0 .. n - 1 : i # Slot(r, n) => new[i] = tokens[i]
  <2> HIDE DEF r, tokens
  <2> QED
    BY <1>1, <1>3
<1>5. h = [f EXCEPT !.tokens = new]
  BY <1>1 DEF cc_token_free
<1>6. g = [h EXCEPT !.read_pos = UInc(h.read_pos)]
  BY DEF FreeHead
<1>7. r + 1 < UIntMod
  BY <1>1, <1>2, UIntModAssumption
<1>8. Filled(new, n, r + 1, w) /\ \A p \in r + 1 .. w - 1 : new[Slot(p, n)] = tokens[Slot(p, n)]
  <2> HIDE DEF w, r, tokens, new
  <2> QED
    BY <1>1, <1>2, <1>4, FilledFree
<1> HIDE DEF h, new
<1>9. h = [size |-> n, write_pos |-> w, read_pos |-> r, tentative_read_pos |-> t,
           tokens |-> new]
  BY <1>1, <1>5 DEF FifoType
<1>10. UInc(h.read_pos) = r + 1
  BY <1>1, <1>7, <1>9 DEF UInc
<1>11. g = [size |-> n, write_pos |-> w, read_pos |-> r + 1, tentative_read_pos |-> t,
            tokens |-> new]
  BY <1>6, <1>9, <1>10
<1> HIDE DEF w, r, t, tokens
<1>12. g \in FifoType(n, V)
  BY <1>1, <1>4, <1>7, <1>11, UIntModAssumption DEF FifoType, Position
<1>13. WellFormed(g)
  BY <1>1, <1>2, <1>8, <1>11 DEF WellFormed
<1> QED
  BY <1>8, <1>11, <1>12, <1>13 DEF w, r, t, tokens

\* Moving the tentative read position, up to the write position, changes
\* nothing else.
LEMMA MoveTentative ==
  ASSUME NEW n \in Nat \ {0}, NEW V, NEW f \in FifoType(n, V), WellFormed(f),
         NEW t \in Nat, t <= f.write_pos,
         NEW g, g = [f EXCEPT !.tentative_read_pos = t]
  PROVE  /\ g \in FifoType(n, V)
         /\ WellFormed(g)
         /\ g.write_pos = f.write_pos
         /\ g.read_pos = f.read_pos
         /\ g.tentative_read_pos = t
         /\ g.tokens = f.tokens
<1>1. /\ f.size = n /\ f.write_pos \in Nat /\ f.read_pos \in Nat
      /\ f.write_pos < UIntMod /\ f.read_pos < UIntMod
      /\ f.tokens \in [0 .. n - 1 -> V \cup {NoToken}]
  BY FifoFields
<1>2. t < UIntMod
  BY <1>1, UIntModAssumption
<1>3. g = [size |-> n, write_pos |-> f.write_pos, read_pos |-> f.read_pos,
           tentative_read_pos |-> t, tokens |-> f.tokens]
  BY <1>1 DEF FifoType
<1>4. g \in FifoType(n, V)
  BY <1>1, <1>2, <1>3, UIntModAssumption DEF FifoType, Position
<1> QED
  BY <1>1, <1>3, <1>4 DEF WellFormed

(***************************************************************************)
(* Channels.                                                                *)
(***************************************************************************)
\* Sending adds one message.
LEMMA AppendMessages ==
  ASSUME NEW M, NEW s \in Seq(M), NEW m \in M
  PROVE  /\ Append(s, m) \in Seq(M)
         /\ \A x \in Messages(Append(s, m)) : x \in Messages(s) \/ x = m
<1>1. Append(s, m) \in Seq(M) /\ Len(Append(s, m)) = Len(s) + 1 /\ Len(s) \in Nat
  OBVIOUS
<1>2. \A i \in 1 .. Len(s) + 1 : Append(s, m)[i] = IF i = Len(s) + 1 THEN m ELSE s[i]
  OBVIOUS
<1>3. ASSUME NEW x \in Messages(Append(s, m)) PROVE x \in Messages(s) \/ x = m
  <2>1. PICK i \in 1 .. Len(s) + 1 : x = Append(s, m)[i]
    BY <1>1 DEF Messages
  <2>2. CASE i = Len(s) + 1
    BY <1>2, <2>1, <2>2
  <2>3. CASE i # Len(s) + 1
    <3>1. i \in 1 .. Len(s) /\ x = s[i]
      BY <1>1, <1>2, <2>1, <2>3
    <3> QED
      BY <3>1 DEF Messages
  <2> QED
    BY <2>2, <2>3
<1> QED
  BY <1>1, <1>3

\* Handling a message removes the first one.
LEMMA TailMessages ==
  ASSUME NEW M, NEW s \in Seq(M), s # <<>>
  PROVE  /\ Tail(s) \in Seq(M)
         /\ Head(s) \in M
         /\ Head(s) \in Messages(s)
         /\ Messages(Tail(s)) \subseteq Messages(s)
<1>1. /\ Tail(s) \in Seq(M) /\ Len(s) \in Nat \ {0} /\ Len(Tail(s)) = Len(s) - 1
      /\ Head(s) = s[1] /\ Head(s) \in M
  OBVIOUS
<1>2. \A i \in 1 .. Len(s) - 1 : Tail(s)[i] = s[i + 1]
  OBVIOUS
<1>3. Head(s) \in Messages(s)
  BY <1>1 DEF Messages
<1>4. ASSUME NEW x \in Messages(Tail(s)) PROVE x \in Messages(s)
  <2>1. PICK i \in 1 .. Len(s) - 1 : x = Tail(s)[i]
    BY <1>1 DEF Messages
  <2>2. i + 1 \in 1 .. Len(s) /\ x = s[i + 1]
    BY <1>1, <1>2, <2>1
  <2> QED
    BY <2>2 DEF Messages
<1> QED
  BY <1>1, <1>3, <1>4

\* A lost connection leaves a first part of the messages.
LEMMA PrefixMessages ==
  ASSUME NEW M, NEW s \in Seq(M), NEW n \in 0 .. Len(s)
  PROVE  /\ SubSeq(s, 1, n) \in Seq(M)
         /\ Messages(SubSeq(s, 1, n)) \subseteq Messages(s)
<1>1. /\ Len(s) \in Nat /\ n \in Nat /\ n <= Len(s)
      /\ Len(SubSeq(s, 1, n)) = n /\ SubSeq(s, 1, n) \in Seq(M)
  OBVIOUS
<1>2. \A i \in 1 .. n : SubSeq(s, 1, n)[i] = s[i]
  BY <1>1
<1>3. ASSUME NEW x \in Messages(SubSeq(s, 1, n)) PROVE x \in Messages(s)
  <2>1. PICK i \in 1 .. n : x = SubSeq(s, 1, n)[i]
    BY <1>1 DEF Messages
  <2>2. i \in 1 .. Len(s) /\ x = s[i]
    BY <1>1, <1>2, <2>1
  <2> QED
    BY <2>2 DEF Messages
<1> QED
  BY <1>1, <1>3

\* An empty channel has no messages.
LEMMA EmptyMessages ==
  ASSUME NEW M
  PROVE  <<>> \in Seq(M) /\ Messages(<<>>) = {}
<1>1. <<>> \in Seq(M) /\ Len(<<>>) = 0
  OBVIOUS
<1>2. 1 .. 0 = {}
  OBVIOUS
<1> QED
  BY <1>1, <1>2 DEF Messages

\* A message in a channel is a message.
LEMMA MessageIn ==
  ASSUME TypeOK, NEW e \in End, NEW m \in Messages(chan[e])
  PROVE  m \in Message
<1>1. chan[e] \in Seq(Message)
  BY DEF TypeOK
<1>2. PICK i \in 1 .. Len(chan[e]) : m = chan[e][i]
  BY DEF Messages
<1> QED
  BY <1>1, <1>2

\* The messages that carry a sequence number.
LEMMA MessageFields ==
  ASSUME NEW m \in Message
  PROVE  /\ m.type = "TOKEN" => m.seq \in Nat /\ m.seq < UIntMod /\ m.data \in Data
         /\ m.type = "TOKEN_REPLY" => m.seq \in Nat /\ m.seq < UIntMod /\ m.ack \in BOOLEAN
BY UIntModAssumption DEF Message, Position

\* The messages the runtimes send.
LEMMA MessageTypes ==
  ASSUME NEW seq \in Nat, seq < UIntMod, NEW data \in Data, NEW ack \in BOOLEAN
  PROVE  /\ [type |-> "TOKEN", seq |-> seq, data |-> data] \in Message
         /\ [type |-> "TOKEN_REPLY", seq |-> seq, ack |-> ack] \in Message
         /\ [type |-> "PORT_CONNECT"] \in Message
         /\ [type |-> "PORT_CONNECT_REPLY"] \in Message
         /\ [type |-> "PORT_DISCONNECT"] \in Message
BY UIntModAssumption DEF Message, Position

(***************************************************************************)
(* Changing one queue, one channel.                                         *)
(***************************************************************************)
\* Every queue has its type and its size.
LEMMA QueueFacts ==
  ASSUME TypeOK, QueueWellFormed, NEW e \in End
  PROVE  /\ Size[e] \in Nat \ {0}
         /\ fifo[e] \in FifoType(Size[e], Data)
         /\ WellFormed(fifo[e])
BY SizeAssumption DEF TypeOK, QueueWellFormed, Size, End

\* A step that replaces the queue of end e by a well-formed one.
LEMMA QueueStep ==
  ASSUME TypeOK, QueueWellFormed, NEW e \in End,
         NEW g, g \in FifoType(Size[e], Data), WellFormed(g),
         fifo' = [fifo EXCEPT ![e] = g]
  PROVE  /\ fifo' \in [End -> FifoType(SndSize, Data) \cup FifoType(RcvSize, Data)]
         /\ \A x \in End : fifo'[x] \in FifoType(Size[x], Data)
         /\ QueueWellFormed'
         /\ fifo'[e] = g
         /\ \A x \in End : x # e => fifo'[x] = fifo[x]
<1>1. fifo \in [End -> FifoType(SndSize, Data) \cup FifoType(RcvSize, Data)]
  BY DEF TypeOK
<1>2. g \in FifoType(SndSize, Data) \cup FifoType(RcvSize, Data)
  BY DEF Size
<1>3. fifo' \in [End -> FifoType(SndSize, Data) \cup FifoType(RcvSize, Data)]
  BY <1>1, <1>2
<1>4. fifo'[e] = g /\ \A x \in End : x # e => fifo'[x] = fifo[x]
  BY <1>1
<1>5. \A x \in End : fifo'[x] \in FifoType(Size[x], Data) /\ WellFormed(fifo'[x])
  BY <1>4, QueueFacts
<1> QED
  BY <1>3, <1>4, <1>5 DEF QueueWellFormed

\* A step that sends a message.
LEMMA SendStep ==
  ASSUME TypeOK, NEW e \in End, NEW m \in Message,
         chan' = [chan EXCEPT ![e] = Append(chan[e], m)]
  PROVE  /\ chan' \in [End -> Seq(Message)]
         /\ \A x \in End : \A y \in Messages(chan'[x]) :
              y \in Messages(chan[x]) \/ (x = e /\ y = m)
<1>1. chan \in [End -> Seq(Message)]
  BY DEF TypeOK
<1>2. /\ Append(chan[e], m) \in Seq(Message)
      /\ \A y \in Messages(Append(chan[e], m)) : y \in Messages(chan[e]) \/ y = m
  BY <1>1, AppendMessages
<1>3. /\ chan' \in [End -> Seq(Message)]
      /\ chan'[e] = Append(chan[e], m)
      /\ \A x \in End : x # e => chan'[x] = chan[x]
  BY <1>1, <1>2
<1> QED
  BY <1>2, <1>3

\* A step that handles a message.
LEMMA HandleStep ==
  ASSUME TypeOK, NEW e \in End, chan[Peer(e)] # <<>>, chan' = Handled(e)
  PROVE  /\ chan' \in [End -> Seq(Message)]
         /\ \A x \in End : Messages(chan'[x]) \subseteq Messages(chan[x])
         /\ Head(chan[Peer(e)]) \in Message
         /\ Head(chan[Peer(e)]) \in Messages(chan[Peer(e)])
<1>1. chan \in [End -> Seq(Message)]
  BY DEF TypeOK
<1> DEFINE q == Peer(e)
<1>2. q \in End
  BY DEF Peer, End
<1>3. chan' = [chan EXCEPT ![q] = Tail(chan[q])]
  BY DEF Handled
<1> HIDE DEF q
<1>4. chan[q] \in Seq(Message) /\ chan[q] # <<>>
  BY <1>1, <1>2 DEF q
<1>5. /\ Tail(chan[q]) \in Seq(Message)
      /\ Messages(Tail(chan[q])) \subseteq Messages(chan[q])
      /\ Head(chan[q]) \in Message
      /\ Head(chan[q]) \in Messages(chan[q])
  BY <1>4, TailMessages
<1>6. /\ chan' \in [End -> Seq(Message)]
      /\ chan'[q] = Tail(chan[q])
      /\ \A x \in End : x # q => chan'[x] = chan[x]
  BY <1>1, <1>2, <1>3, <1>5
<1> QED
  BY <1>5, <1>6 DEF q

\* A step that handles a message and answers it.
LEMMA AnswerStep ==
  ASSUME TypeOK, NEW e \in End, chan[Peer(e)] # <<>>, NEW m \in Message,
         chan' = Answered(e, m)
  PROVE  /\ chan' \in [End -> Seq(Message)]
         /\ \A x \in End : \A y \in Messages(chan'[x]) :
              y \in Messages(chan[x]) \/ (x = e /\ y = m)
<1>1. chan \in [End -> Seq(Message)]
  BY DEF TypeOK
<1> DEFINE q == Peer(e)
<1>2. q \in End /\ q # e
  BY DEF Peer, End
<1>3. chan' = [chan EXCEPT ![q] = Tail(chan[q]), ![e] = Append(chan[e], m)]
  BY <1>1, <1>2 DEF Answered
<1> HIDE DEF q
<1>4. chan[q] \in Seq(Message) /\ chan[q] # <<>> /\ chan[e] \in Seq(Message)
  BY <1>1, <1>2 DEF q
<1>5. /\ Tail(chan[q]) \in Seq(Message)
      /\ Messages(Tail(chan[q])) \subseteq Messages(chan[q])
  BY <1>4, TailMessages
<1>6. /\ Append(chan[e], m) \in Seq(Message)
      /\ \A y \in Messages(Append(chan[e], m)) : y \in Messages(chan[e]) \/ y = m
  BY <1>4, AppendMessages
<1>7. /\ chan' \in [End -> Seq(Message)]
      /\ chan'[q] = Tail(chan[q])
      /\ chan'[e] = Append(chan[e], m)
      /\ \A x \in End : x # q /\ x # e => chan'[x] = chan[x]
  BY <1>1, <1>2, <1>3, <1>5, <1>6
<1> QED
  BY <1>2, <1>5, <1>6, <1>7

\* A step in which a runtime loses its connection.
LEMMA LoseStep ==
  ASSUME TypeOK, NEW e \in End, NEW n \in 0 .. Len(chan[e]),
         chan' = [chan EXCEPT ![e] = SubSeq(chan[e], 1, n), ![Peer(e)] = <<>>]
  PROVE  /\ chan' \in [End -> Seq(Message)]
         /\ \A x \in End : Messages(chan'[x]) \subseteq Messages(chan[x])
<1>1. chan \in [End -> Seq(Message)]
  BY DEF TypeOK
<1> DEFINE q == Peer(e)
<1>2. q \in End /\ q # e
  BY DEF Peer, End
<1>3. chan' = [chan EXCEPT ![e] = SubSeq(chan[e], 1, n), ![q] = <<>>]
  OBVIOUS
<1> HIDE DEF q
<1>4. /\ SubSeq(chan[e], 1, n) \in Seq(Message)
      /\ Messages(SubSeq(chan[e], 1, n)) \subseteq Messages(chan[e])
  BY <1>1, PrefixMessages
<1>5. <<>> \in Seq(Message) /\ Messages(<<>>) = {}
  BY EmptyMessages
<1>6. /\ chan' \in [End -> Seq(Message)]
      /\ chan'[q] = <<>>
      /\ chan'[e] = SubSeq(chan[e], 1, n)
      /\ \A x \in End : x # q /\ x # e => chan'[x] = chan[x]
  BY <1>1, <1>2, <1>3, <1>4, <1>5
<1> QED
  BY <1>2, <1>4, <1>5, <1>6

\* A step that cancels the reads of a queue.
LEMMA CancelStep ==
  ASSUME TypeOK, QueueWellFormed, NEW e \in End,
         fifo' = [fifo EXCEPT ![e] = cc_fifo_cancel(fifo[e])]
  PROVE  /\ fifo' \in [End -> FifoType(SndSize, Data) \cup FifoType(RcvSize, Data)]
         /\ \A x \in End : fifo'[x] \in FifoType(Size[x], Data)
         /\ QueueWellFormed'
         /\ \A x \in End : /\ fifo'[x].write_pos = fifo[x].write_pos
                           /\ fifo'[x].read_pos = fifo[x].read_pos
                           /\ fifo'[x].tokens = fifo[x].tokens
                           /\ fifo'[x].size = fifo[x].size
         /\ fifo'[e].tentative_read_pos = fifo[e].read_pos
         /\ \A x \in End : x # e => fifo'[x] = fifo[x]
<1> DEFINE f == fifo[e]
           g == cc_fifo_cancel(f)
           n == Size[e]
<1>1. n \in Nat \ {0} /\ f \in FifoType(n, Data) /\ WellFormed(f)
  BY QueueFacts
<1>2. f.read_pos \in Nat /\ f.read_pos <= f.write_pos /\ f.size = n
  <2> HIDE DEF f, n
  <2> QED
    BY <1>1, FifoFields DEF WellFormed
<1>3. g = [f EXCEPT !.tentative_read_pos = f.read_pos]
  BY DEF cc_fifo_cancel
<1>4. fifo' = [fifo EXCEPT ![e] = g]
  OBVIOUS
<1> HIDE DEF f, g, n
<1>5. /\ g \in FifoType(n, Data) /\ WellFormed(g)
      /\ g.write_pos = f.write_pos /\ g.read_pos = f.read_pos
      /\ g.tentative_read_pos = f.read_pos /\ g.tokens = f.tokens
  BY <1>1, <1>2, <1>3, MoveTentative
<1>6. g.size = f.size
  BY <1>1, <1>2, <1>5, FifoFields
<1>7. /\ fifo' \in [End -> FifoType(SndSize, Data) \cup FifoType(RcvSize, Data)]
      /\ \A x \in End : fifo'[x] \in FifoType(Size[x], Data)
      /\ QueueWellFormed'
      /\ fifo'[e] = g
      /\ \A x \in End : x # e => fifo'[x] = fifo[x]
  BY <1>4, <1>5, QueueStep DEF n
<1> QED
  BY <1>5, <1>6, <1>7 DEF f

(***************************************************************************)
(* Types, well-formed queues and bounded sequence numbers, for every size.  *)
(***************************************************************************)
\* The invariant holds initially: both queues are new, both channels empty.
LEMMA SafetyInit == Init => SafetyInv
<1> SUFFICES ASSUME Init PROVE SafetyInv
  OBVIOUS
<1>1. \A e \in End : Size[e] \in Nat \ {0} /\ fifo[e] = cc_fifo_init(Size[e])
  BY SizeAssumption DEF Init, Size, End
<1>2. \A e \in End : fifo[e] \in FifoType(Size[e], Data) /\ WellFormed(fifo[e])
  BY <1>1, InitWellFormed
<1>3. fifo \in [End -> FifoType(SndSize, Data) \cup FifoType(RcvSize, Data)]
  <2>1. \A e \in End : fifo[e] \in FifoType(SndSize, Data) \cup FifoType(RcvSize, Data)
    BY <1>2 DEF Size
  <2> QED
    BY <2>1 DEF Init
<1>4. \A e \in End : chan[e] = <<>> /\ Messages(chan[e]) = {}
  BY EmptyMessages DEF Init
<1>5. port \in [End -> Port]
  BY BoundAssumption DEF Init, Port, PortState
<1>6. chan \in [End -> Seq(Message)]
  BY EmptyMessages DEF Init
<1>7. TypeOK
  BY <1>2, <1>3, <1>5, <1>6 DEF TypeOK, Init
<1>8. SequenceBounds
  BY <1>1, <1>4, BoundAssumption DEF SequenceBounds, Init, cc_fifo_init, End
<1> QED
  BY <1>2, <1>7, <1>8 DEF SafetyInv, QueueWellFormed

(***************************************************************************)
(* What each action does to the queues and the channels.                    *)
(***************************************************************************)
\* The part of the invariant that is about the queues alone.
QueuesOK ==
  /\ fifo \in [End -> FifoType(SndSize, Data) \cup FifoType(RcvSize, Data)]
  /\ \A e \in End : fifo[e] \in FifoType(Size[e], Data)
  /\ QueueWellFormed

\* The facts about the two queues that the steps below use.
LEMMA Facts ==
  ASSUME SafetyInv
  PROVE  /\ TypeOK /\ QueueWellFormed /\ SequenceBounds /\ QueuesOK
         /\ "snd" \in End /\ "rcv" \in End
         /\ Size["snd"] = SndSize /\ Size["rcv"] = RcvSize
         /\ SndSize \in Nat \ {0} /\ RcvSize \in Nat \ {0}
         /\ fifo["snd"] \in FifoType(SndSize, Data) /\ WellFormed(fifo["snd"])
         /\ fifo["rcv"] \in FifoType(RcvSize, Data) /\ WellFormed(fifo["rcv"])
         /\ written \in Nat /\ MaxTokens \in Nat /\ UIntMod \in Nat /\ MaxTokens < UIntMod
<1>1. TypeOK /\ QueueWellFormed /\ SequenceBounds /\ QueuesOK
  BY DEF SafetyInv, QueuesOK, TypeOK
<1>2. "snd" \in End /\ "rcv" \in End /\ Size["snd"] = SndSize /\ Size["rcv"] = RcvSize
  BY DEF End, Size
<1> QED
  BY <1>1, <1>2, SizeAssumption, BoundAssumption, NoWrapAssumption, UIntModAssumption
  DEF QueuesOK, QueueWellFormed, TypeOK

\* The positions of the two queues are ordered numbers.
LEMMA Positions ==
  ASSUME SafetyInv, NEW e \in End
  PROVE  /\ fifo[e].read_pos \in Nat /\ fifo[e].write_pos \in Nat
         /\ fifo[e].tentative_read_pos \in Nat
         /\ fifo[e].read_pos <= fifo[e].write_pos
         /\ fifo[e].tentative_read_pos <= fifo[e].write_pos
         /\ fifo[e].write_pos <= written
         /\ fifo[e].size = Size[e]
<1> DEFINE f == fifo[e]
           n == Size[e]
<1>1. n \in Nat \ {0} /\ f \in FifoType(n, Data) /\ WellFormed(f)
  BY Facts, QueueFacts
<1>2. f.write_pos <= written
  <2>1. CASE e = "snd"
    BY <2>1, Facts DEF SequenceBounds
  <2>2. CASE e = "rcv"
    BY <2>2, Facts DEF SequenceBounds
  <2> QED
    BY <2>1, <2>2 DEF End
<1> HIDE DEF f, n
<1>3. f.size = n /\ f.read_pos \in Nat /\ f.write_pos \in Nat /\ f.tentative_read_pos \in Nat
  BY <1>1, FifoFields
<1>4. f.read_pos <= f.write_pos /\ f.tentative_read_pos <= f.write_pos
  BY <1>1 DEF WellFormed
<1> QED
  BY <1>2, <1>3, <1>4 DEF f, n

\* The sending actor fires: one token more in the sending queue.
LEMMA FireEffect ==
  ASSUME SafetyInv, SndFire
  PROVE  /\ QueuesOK'
         /\ written < MaxTokens
         /\ fifo'["snd"].write_pos = written + 1
         /\ fifo'["snd"].read_pos = fifo["snd"].read_pos
         /\ fifo'["snd"].tokens[Slot(written, SndSize)] = written
         /\ \A p \in fifo["snd"].read_pos .. written - 1 :
              fifo'["snd"].tokens[Slot(p, SndSize)] = fifo["snd"].tokens[Slot(p, SndSize)]
         /\ fifo'["rcv"] = fifo["rcv"]
<1> DEFINE f == fifo["snd"]
           g == cc_fifo_write(f, written)
<1>1. /\ f.write_pos = written /\ written < MaxTokens /\ cc_fifo_slots_available(f, 1)
      /\ fifo' = [fifo EXCEPT !["snd"] = g]
  BY Facts DEF SndFire, SequenceBounds
<1>2. f \in FifoType(SndSize, Data) /\ WellFormed(f) /\ SndSize \in Nat \ {0}
  BY Facts
<1>3. written \in Data /\ written # NoToken /\ f.write_pos + 1 < UIntMod
  BY <1>1, Facts, ValueAssumption DEF Data
<1> HIDE DEF f, g
<1>4. /\ g \in FifoType(SndSize, Data)
      /\ WellFormed(g)
      /\ g.write_pos = written + 1
      /\ g.read_pos = f.read_pos
      /\ g.tokens[Slot(written, SndSize)] = written
      /\ \A p \in f.read_pos .. written - 1 :
           g.tokens[Slot(p, SndSize)] = f.tokens[Slot(p, SndSize)]
  BY <1>1, <1>2, <1>3, WriteFifo DEF g
<1>5. /\ QueuesOK'
      /\ fifo'["snd"] = g /\ fifo'["rcv"] = fifo["rcv"]
  BY <1>1, <1>4, Facts, QueueStep DEF QueuesOK
<1> QED
  BY <1>1, <1>4, <1>5 DEF f

\* The scheduler sends a token or keeps it: only the tentative read position
\* of the sending queue moves, and by at most one.
LEMMA TransmitEffect ==
  ASSUME SafetyInv, cc_port_transmit
  PROVE  /\ QueuesOK'
         /\ fifo["snd"].tentative_read_pos < written
         /\ fifo'["snd"].write_pos = fifo["snd"].write_pos
         /\ fifo'["snd"].read_pos = fifo["snd"].read_pos
         /\ fifo'["snd"].tokens = fifo["snd"].tokens
         /\ fifo'["rcv"] = fifo["rcv"]
         /\ chan' \in [End -> Seq(Message)]
         /\ Messages(chan'["rcv"]) = Messages(chan["rcv"])
         /\ \A m \in Messages(chan'["snd"]) :
              \/ m \in Messages(chan["snd"])
              \/ /\ m.type = "TOKEN"
                 /\ m.seq = fifo["snd"].tentative_read_pos
                 /\ m.data = cc_token_encode(fifo["snd"].tokens[Slot(m.seq, SndSize)])
<1> DEFINE f == fifo["snd"]
           t == f.tentative_read_pos
           data == cc_token_encode(PeekedToken(f))
           m == [type |-> "TOKEN", seq |-> t, data |-> data]
           ahead == [f EXCEPT !.tentative_read_pos = t + 1]
           back == [ahead EXCEPT !.tentative_read_pos = t]
<1>1. f \in FifoType(SndSize, Data) /\ WellFormed(f) /\ SndSize \in Nat \ {0}
  BY Facts
<1>2. /\ f.write_pos = written /\ t \in Nat /\ t < f.write_pos
      /\ written < UIntMod /\ f.size = SndSize
  <2>1. f.write_pos = written /\ written <= MaxTokens /\ cc_fifo_tokens_available(f, 1)
    BY Facts DEF cc_port_transmit, SequenceBounds
  <2>2. f.size = SndSize /\ t \in Nat
    BY Positions, Facts
  <2> HIDE DEF f
  <2> QED
    BY <1>1, <2>1, <2>2, Facts, TokensAvailable
<1>3. UInc(t) = t + 1
  BY <1>2, Facts DEF UInc
<1>4. cc_fifo_com_peek(f) = ahead
  BY <1>1, <1>3 DEF cc_fifo_com_peek, cc_fifo_peek, FifoType
<1>5. cc_fifo_com_cancel_read(ahead, t) = back
  <2>1. ahead.tentative_read_pos = t + 1
    BY <1>1 DEF FifoType
  <2> QED
    BY <1>2, <2>1 DEF cc_fifo_com_cancel_read
<1>6. data = cc_token_encode(f.tokens[Slot(t, SndSize)]) /\ data \in Data
  <2>1. f.tokens \in [0 .. SndSize - 1 -> Data \cup {NoToken}]
    BY <1>1, FifoFields
  <2>2. Slot(t, SndSize) \in 0 .. SndSize - 1
    BY <1>1, <1>2, SlotRange
  <2>3. PeekedToken(f) = f.tokens[Slot(t, SndSize)]
    BY <1>2 DEF PeekedToken
  <2> QED
    BY <2>1, <2>2, <2>3 DEF cc_token_encode, Data
<1>7. m \in Message
  <2>1. t \in Nat /\ t < UIntMod /\ data \in Data
    BY <1>2, <1>6, Facts
  <2> HIDE DEF t, data
  <2> QED
    BY <2>1, UIntModAssumption DEF Message, Position
<1>8. \/ /\ fifo' = [fifo EXCEPT !["snd"] = ahead]
         /\ chan' = [chan EXCEPT !["snd"] = Append(chan["snd"], m)]
      \/ fifo' = [fifo EXCEPT !["snd"] = back] /\ chan' = chan
  BY <1>4, <1>5 DEF cc_port_transmit, PeekedSequenceNbr
<1>9. t < written /\ m.type = "TOKEN" /\ m.seq = t /\ m.data = data
  BY <1>2
<1> HIDE DEF f, t, data, m, ahead, back
<1>10. /\ ahead \in FifoType(SndSize, Data) /\ WellFormed(ahead)
       /\ ahead.write_pos = f.write_pos /\ ahead.read_pos = f.read_pos
       /\ ahead.tokens = f.tokens
  <2>1. t + 1 \in Nat /\ t + 1 <= f.write_pos
    BY <1>2, Facts
  <2> QED
    BY <1>1, <2>1, MoveTentative DEF ahead
<1>11. /\ back \in FifoType(SndSize, Data) /\ WellFormed(back)
       /\ back.write_pos = f.write_pos /\ back.read_pos = f.read_pos
       /\ back.tokens = f.tokens
  <2>1. t \in Nat /\ t <= ahead.write_pos
    BY <1>2, <1>10, Facts
  <2> QED
    BY <1>1, <1>10, <2>1, MoveTentative DEF back
<1>12. chan \in [End -> Seq(Message)] /\ "snd" \in End /\ "rcv" \in End /\ "snd" # "rcv"
  BY Facts DEF TypeOK
<1>13. CASE fifo' = [fifo EXCEPT !["snd"] = ahead] /\ chan' = [chan EXCEPT !["snd"] = Append(chan["snd"], m)]
  <2>1. QueuesOK' /\ fifo'["snd"] = ahead /\ fifo'["rcv"] = fifo["rcv"]
    BY <1>10, <1>13, Facts, QueueStep DEF QueuesOK
  <2>2. /\ chan' \in [End -> Seq(Message)]
        /\ \A y \in Messages(chan'["snd"]) : y \in Messages(chan["snd"]) \/ y = m
    BY <1>7, <1>13, Facts, SendStep
  <2>3. chan'["rcv"] = chan["rcv"]
    BY <1>12, <1>13
  <2> QED
    BY <1>6, <1>9, <1>10, <2>1, <2>2, <2>3 DEF f, t
<1>14. CASE fifo' = [fifo EXCEPT !["snd"] = back] /\ chan' = chan
  <2>1. QueuesOK' /\ fifo'["snd"] = back /\ fifo'["rcv"] = fifo["rcv"]
    BY <1>11, <1>14, Facts, QueueStep DEF QueuesOK
  <2> QED
    BY <1>9, <1>11, <1>12, <1>14, <2>1 DEF f, t
<1> QED
  BY <1>8, <1>13, <1>14

\* A token arrives: it is stored or the receiving queue stays as it is, and
\* an acknowledged token is older than the receiving queue after the step.
LEMMA TokenEffect ==
  ASSUME SafetyInv, proto_parse_token
  PROVE  \E m \in Messages(chan["snd"]) :
           /\ m \in Message /\ m.type = "TOKEN"
           /\ QueuesOK'
           /\ fifo'["snd"] = fifo["snd"]
           /\ fifo'["rcv"].read_pos = fifo["rcv"].read_pos
           /\ fifo'["rcv"].tentative_read_pos = fifo["rcv"].tentative_read_pos
           /\ \A p \in fifo["rcv"].read_pos .. fifo["rcv"].write_pos - 1 :
                fifo'["rcv"].tokens[Slot(p, RcvSize)] = fifo["rcv"].tokens[Slot(p, RcvSize)]
           /\ \/ fifo'["rcv"] = fifo["rcv"]
              \/ /\ fifo["rcv"].write_pos <= m.seq
                 /\ fifo'["rcv"].write_pos = fifo["rcv"].write_pos + 1
                 /\ fifo'["rcv"].tokens[Slot(fifo["rcv"].write_pos, RcvSize)] = m.data
           /\ chan' \in [End -> Seq(Message)]
           /\ Messages(chan'["snd"]) \subseteq Messages(chan["snd"])
           /\ \A y \in Messages(chan'["rcv"]) :
                \/ y \in Messages(chan["rcv"])
                \/ /\ y.type = "TOKEN_REPLY" /\ y.seq = m.seq
                   /\ y.ack => fifo'["rcv"].write_pos > m.seq \/ fifo'["rcv"].write_pos = fifo["rcv"].write_pos + 1
<1> DEFINE f == fifo["rcv"]
           m == Head(chan["snd"])
           r == cc_node_handle_token(f, m.data, m.seq)
           reply == [type |-> "TOKEN_REPLY", seq |-> m.seq, ack |-> r.ack]
<1>1. /\ chan["snd"] # <<>> /\ m.type = "TOKEN"
      /\ fifo' = [fifo EXCEPT !["rcv"] = r.fifo]
      /\ chan' = Answered("rcv", reply)
      /\ Peer("rcv") = "snd"
  BY DEF proto_parse_token, Incoming, Peer
<1>2. m \in Message /\ m \in Messages(chan["snd"])
  <2>1. chan["snd"] \in Seq(Message)
    BY Facts DEF TypeOK
  <2> QED
    BY <1>1, <2>1, TailMessages
<1>3. m.seq \in Nat /\ m.seq < UIntMod /\ m.data \in Data /\ m.data # NoToken
  <2>1. m.seq \in Nat /\ m.seq < UIntMod /\ m.data \in Data
    BY <1>1, <1>2, MessageFields
  <2> QED
    BY <2>1, ValueAssumption DEF Data
<1>4. m.seq < written
  BY <1>1, <1>2, Facts DEF SequenceBounds
<1>5. f \in FifoType(RcvSize, Data) /\ WellFormed(f) /\ RcvSize \in Nat \ {0}
  BY Facts
<1>6. /\ f.write_pos \in Nat /\ f.read_pos \in Nat
      /\ f.write_pos <= written /\ written < UIntMod
  BY Positions, Facts DEF SequenceBounds
<1>7. \/ r.ack = FALSE /\ r.fifo = f
      \/ r.ack = TRUE /\ r.fifo = f /\ m.seq < f.write_pos
      \/ /\ r.ack = TRUE /\ r.fifo = cc_fifo_write(f, m.data)
         /\ f.write_pos <= m.seq /\ cc_fifo_slots_available(f, 1)
  BY <1>3, <1>6 DEF cc_node_handle_token, cc_fifo_com_write
<1>8. reply \in Message /\ reply.type = "TOKEN_REPLY" /\ reply.seq = m.seq /\ reply.ack = r.ack
  <2>1. r.ack \in BOOLEAN
    BY <1>7
  <2> QED
    BY <1>3, <2>1, MessageTypes
<1>9. chan \in [End -> Seq(Message)] /\ "snd" \in End /\ "rcv" \in End /\ "snd" # "rcv"
  BY Facts DEF TypeOK
<1> HIDE DEF f, m, r, reply
<1>10. /\ chan' \in [End -> Seq(Message)]
       /\ \A x \in End : \A y \in Messages(chan'[x]) :
            y \in Messages(chan[x]) \/ (x = "rcv" /\ y = reply)
  BY <1>1, <1>8, Facts, AnswerStep
<1>11. CASE r.fifo = f /\ (r.ack => m.seq < f.write_pos)
  <2>1. QueuesOK' /\ fifo'["snd"] = fifo["snd"] /\ fifo'["rcv"] = f
    BY <1>1, <1>5, <1>11, Facts, QueueStep DEF QueuesOK
  <2> QED
    BY <1>1, <1>2, <1>6, <1>8, <1>9, <1>10, <1>11, <2>1, <1>3 DEF f
<1>12. CASE /\ r.ack = TRUE /\ r.fifo = cc_fifo_write(f, m.data)
            /\ f.write_pos <= m.seq /\ cc_fifo_slots_available(f, 1)
  <2> DEFINE g == r.fifo
  <2>1. f.write_pos + 1 < UIntMod
    BY <1>3, <1>4, <1>6, <1>12, Facts
  <2>2. g = cc_fifo_write(f, m.data)
    BY <1>12
  <2> HIDE DEF g
  <2>3. /\ g \in FifoType(RcvSize, Data)
        /\ WellFormed(g)
        /\ g.write_pos = f.write_pos + 1
        /\ g.read_pos = f.read_pos
        /\ g.tentative_read_pos = f.tentative_read_pos
        /\ g.tokens[Slot(f.write_pos, RcvSize)] = m.data
        /\ \A p \in f.read_pos .. f.write_pos - 1 :
             g.tokens[Slot(p, RcvSize)] = f.tokens[Slot(p, RcvSize)]
    BY <1>3, <1>5, <1>12, <2>1, <2>2, WriteFifo
  <2>4. QueuesOK' /\ fifo'["snd"] = fifo["snd"] /\ fifo'["rcv"] = g
    BY <1>1, <2>3, Facts, QueueStep DEF QueuesOK, g
  <2> QED
    BY <1>1, <1>2, <1>8, <1>9, <1>10, <1>12, <2>3, <2>4 DEF f
<1> QED
  BY <1>7, <1>11, <1>12

\* An answer arrives: the oldest token of the sending queue is freed when the
\* answer acknowledges it; otherwise only the tentative position may move.
LEMMA ReplyEffect ==
  ASSUME SafetyInv, proto_parse_token_reply
  PROVE  \E m \in Messages(chan["rcv"]) :
           /\ m \in Message /\ m.type = "TOKEN_REPLY"
           /\ QueuesOK'
           /\ fifo'["rcv"] = fifo["rcv"]
           /\ fifo'["snd"].write_pos = fifo["snd"].write_pos
           /\ \/ /\ m.ack /\ m.seq = fifo["snd"].read_pos
                 /\ fifo'["snd"].read_pos = fifo["snd"].read_pos + 1
                 /\ \A p \in fifo["snd"].read_pos + 1 .. written - 1 :
                      fifo'["snd"].tokens[Slot(p, SndSize)] = fifo["snd"].tokens[Slot(p, SndSize)]
              \/ /\ fifo'["snd"].read_pos = fifo["snd"].read_pos
                 /\ fifo'["snd"].tokens = fifo["snd"].tokens
           /\ chan' \in [End -> Seq(Message)]
           /\ \A x \in End : Messages(chan'[x]) \subseteq Messages(chan[x])
<1> DEFINE f == fifo["snd"]
           m == Head(chan["rcv"])
           g == cc_node_handle_token_reply(f, m.ack, m.seq)
           moved == [f EXCEPT !.tentative_read_pos = m.seq]
<1>1. /\ chan["rcv"] # <<>> /\ m.type = "TOKEN_REPLY"
      /\ fifo' = [fifo EXCEPT !["snd"] = g]
      /\ chan' = Handled("snd")
      /\ Peer("snd") = "rcv"
  BY DEF proto_parse_token_reply, Incoming, Peer
<1>2. /\ m \in Message /\ m \in Messages(chan["rcv"])
      /\ chan' \in [End -> Seq(Message)]
      /\ \A x \in End : Messages(chan'[x]) \subseteq Messages(chan[x])
  <2>1. chan[Peer("snd")] # <<>> /\ TypeOK /\ "snd" \in End
    BY <1>1, Facts
  <2> HIDE DEF m
  <2>2. /\ chan' \in [End -> Seq(Message)]
        /\ \A x \in End : Messages(chan'[x]) \subseteq Messages(chan[x])
        /\ Head(chan[Peer("snd")]) \in Message
        /\ Head(chan[Peer("snd")]) \in Messages(chan[Peer("snd")])
    BY <1>1, <2>1, HandleStep
  <2> QED
    BY <1>1, <2>2 DEF m
<1>3. m.seq \in Nat /\ m.seq < written
  BY <1>1, <1>2, MessageFields, Facts DEF SequenceBounds
<1>4. f \in FifoType(SndSize, Data) /\ WellFormed(f) /\ SndSize \in Nat \ {0} /\ f.write_pos = written
  BY Facts DEF SequenceBounds
<1>5. /\ f.write_pos \in Nat /\ f.read_pos \in Nat /\ f.tentative_read_pos \in Nat
      /\ f.read_pos <= f.write_pos /\ f.tentative_read_pos <= f.write_pos
  BY Positions, Facts
<1>6. \/ g = f
      \/ g = moved
      \/ g = FreeHead(f) /\ m.ack /\ m.seq = f.read_pos /\ f.read_pos < f.tentative_read_pos
  BY DEF cc_node_handle_token_reply, cc_fifo_com_commit_read, cc_fifo_com_cancel_read
<1> HIDE DEF f, m, g, moved
<1>7. ASSUME g \in FifoType(SndSize, Data), WellFormed(g)
      PROVE  QueuesOK' /\ fifo'["snd"] = g /\ fifo'["rcv"] = fifo["rcv"]
  BY <1>1, <1>7, Facts, QueueStep DEF QueuesOK
<1>8. CASE g = f
  <2>1. QueuesOK' /\ fifo'["snd"] = f /\ fifo'["rcv"] = fifo["rcv"]
    BY <1>4, <1>7, <1>8
  <2> QED
    BY <1>1, <1>2, <2>1 DEF f
<1>9. CASE g = moved
  <2>1. m.seq \in Nat /\ m.seq <= f.write_pos
    BY <1>3, <1>4, <1>5
  <2>2. /\ g \in FifoType(SndSize, Data) /\ WellFormed(g)
        /\ g.write_pos = f.write_pos /\ g.read_pos = f.read_pos /\ g.tokens = f.tokens
    BY <1>4, <1>9, <2>1, MoveTentative DEF moved
  <2>3. QueuesOK' /\ fifo'["snd"] = g /\ fifo'["rcv"] = fifo["rcv"]
    BY <1>7, <2>2
  <2> QED
    BY <1>1, <1>2, <2>2, <2>3 DEF f
<1>10. CASE g = FreeHead(f) /\ m.ack /\ m.seq = f.read_pos /\ f.read_pos < f.tentative_read_pos
  <2>1. f.read_pos < f.write_pos
    BY <1>5, <1>10
  <2>2. /\ g \in FifoType(SndSize, Data) /\ WellFormed(g)
        /\ g.write_pos = f.write_pos /\ g.read_pos = f.read_pos + 1
        /\ \A p \in f.read_pos + 1 .. f.write_pos - 1 :
             g.tokens[Slot(p, SndSize)] = f.tokens[Slot(p, SndSize)]
    BY <1>4, <1>10, <2>1, FreeFifo
  <2>3. QueuesOK' /\ fifo'["snd"] = g /\ fifo'["rcv"] = fifo["rcv"]
    BY <1>7, <2>2
  <2> QED
    BY <1>1, <1>2, <1>4, <1>10, <2>2, <2>3 DEF f
<1> QED
  BY <1>6, <1>8, <1>9, <1>10

\* The receiving actor fires: it consumes the oldest token of its queue, and
\* that slot does hold a token.
LEMMA ConsumeEffect ==
  ASSUME SafetyInv, RcvFire
  PROVE  /\ QueuesOK'
         /\ fifo["rcv"].read_pos < fifo["rcv"].write_pos
         /\ fifo'["snd"] = fifo["snd"]
         /\ fifo'["rcv"].write_pos = fifo["rcv"].write_pos
         /\ fifo'["rcv"].read_pos = fifo["rcv"].read_pos + 1
         /\ fifo'["rcv"].tentative_read_pos = fifo["rcv"].read_pos + 1
         /\ \A p \in fifo["rcv"].read_pos + 1 .. fifo["rcv"].write_pos - 1 :
              fifo'["rcv"].tokens[Slot(p, RcvSize)] = fifo["rcv"].tokens[Slot(p, RcvSize)]
         /\ fifo["rcv"].tokens[Slot(fifo["rcv"].read_pos, RcvSize)] \in Data
         /\ delivered' = Append(delivered, fifo["rcv"].tokens[Slot(fifo["rcv"].read_pos, RcvSize)])
<1> DEFINE f == fifo["rcv"]
           r == f.read_pos
           ahead == [f EXCEPT !.tentative_read_pos = r + 1]
           g == FreeHead(ahead)
<1>1. f \in FifoType(RcvSize, Data) /\ WellFormed(f) /\ RcvSize \in Nat \ {0}
  BY Facts
<1>2. /\ f.tentative_read_pos = r /\ r \in Nat /\ f.write_pos \in Nat
      /\ f.write_pos <= written /\ written < UIntMod /\ f.size = RcvSize
  BY Positions, Facts DEF SequenceBounds
<1>3. r < f.write_pos
  <2>1. cc_fifo_tokens_available(f, 1)
    BY DEF RcvFire
  <2> HIDE DEF f
  <2> QED
    BY <1>1, <1>2, <2>1, TokensAvailable
<1>4. UInc(r) = r + 1
  BY <1>2, <1>3, Facts DEF UInc
<1>5. cc_fifo_peek(f) = ahead
  BY <1>1, <1>2, <1>4 DEF cc_fifo_peek, FifoType
<1>6. /\ fifo' = [fifo EXCEPT !["rcv"] = cc_fifo_commit_read(ahead)]
      /\ delivered' = Append(delivered, f.tokens[Slot(r, RcvSize)])
  BY <1>2, <1>5 DEF RcvFire, PeekedToken
<1> HIDE DEF f, r, ahead, g
<1>7. /\ ahead \in FifoType(RcvSize, Data) /\ WellFormed(ahead)
      /\ ahead.write_pos = f.write_pos /\ ahead.read_pos = r
      /\ ahead.tentative_read_pos = r + 1 /\ ahead.tokens = f.tokens
  <2>1. r + 1 \in Nat /\ r + 1 <= f.write_pos
    BY <1>2, <1>3
  <2> QED
    BY <1>1, <2>1, MoveTentative DEF ahead, r
<1>8. cc_fifo_commit_read(ahead) = g
  BY <1>2, <1>7 DEF cc_fifo_commit_read, g
<1>9. /\ g \in FifoType(RcvSize, Data) /\ WellFormed(g)
      /\ g.write_pos = f.write_pos /\ g.read_pos = r + 1 /\ g.tentative_read_pos = r + 1
      /\ \A p \in r + 1 .. f.write_pos - 1 :
           g.tokens[Slot(p, RcvSize)] = f.tokens[Slot(p, RcvSize)]
  BY <1>1, <1>3, <1>7, FreeFifo DEF g
<1>10. QueuesOK' /\ fifo'["rcv"] = g /\ fifo'["snd"] = fifo["snd"]
  BY <1>6, <1>8, <1>9, Facts, QueueStep DEF QueuesOK
<1>11. f.tokens[Slot(r, RcvSize)] \in Data
  <2>1. f.tokens[Slot(r, RcvSize)] \in Data \cup {NoToken}
    <3>1. f.tokens \in [0 .. RcvSize - 1 -> Data \cup {NoToken}]
      BY <1>1, FifoFields
    <3>2. Slot(r, RcvSize) \in 0 .. RcvSize - 1
      BY <1>1, <1>2, SlotRange
    <3> QED
      BY <3>1, <3>2
  <2>2. Filled(f.tokens, RcvSize, r, f.write_pos)
    BY <1>1, <1>2 DEF WellFormed, r
  <2>3. r \in r .. f.write_pos - 1
    BY <1>2, <1>3
  <2> QED
    BY <2>1, <2>2, <2>3 DEF Filled
<1> QED
  BY <1>3, <1>6, <1>9, <1>10, <1>11 DEF f, r

\* Connecting, disconnecting and losing the transport move at most the
\* tentative position, back to the read position, and send no token messages.
LEMMA ControlEffect ==
  ASSUME SafetyInv, NEW e \in End, Control(e)
  PROVE  /\ QueuesOK'
         /\ \A x \in End : /\ fifo'[x].write_pos = fifo[x].write_pos
                           /\ fifo'[x].read_pos = fifo[x].read_pos
                           /\ fifo'[x].tokens = fifo[x].tokens
         /\ fifo'["rcv"].tentative_read_pos = fifo["rcv"].tentative_read_pos
         /\ chan' \in [End -> Seq(Message)]
         /\ \A x \in End : \A m \in Messages(chan'[x]) :
              m \in Messages(chan[x]) \/ (m.type # "TOKEN" /\ m.type # "TOKEN_REPLY")
         /\ written' = written /\ delivered' = delivered
         /\ port' \in [End -> Port] /\ faults' \in Nat
<1>1. /\ TypeOK /\ QueueWellFormed /\ QueuesOK /\ chan \in [End -> Seq(Message)]
      /\ port \in [End -> Port] /\ faults \in Nat
      /\ "rcv" \in End /\ fifo["rcv"].tentative_read_pos = fifo["rcv"].read_pos
  BY Facts DEF TypeOK, SequenceBounds
<1>2. /\ [type |-> "PORT_CONNECT"] \in Message
      /\ [type |-> "PORT_CONNECT_REPLY"] \in Message
      /\ [type |-> "PORT_DISCONNECT"] \in Message
  BY DEF Message
<1>3. ASSUME fifo' = fifo \/ fifo' = [fifo EXCEPT ![e] = cc_fifo_cancel(fifo[e])]
      PROVE  /\ QueuesOK'
             /\ \A x \in End : /\ fifo'[x].write_pos = fifo[x].write_pos
                               /\ fifo'[x].read_pos = fifo[x].read_pos
                               /\ fifo'[x].tokens = fifo[x].tokens
             /\ fifo'["rcv"].tentative_read_pos = fifo["rcv"].tentative_read_pos
  <2>1. CASE fifo' = fifo
    BY <1>1, <2>1 DEF QueuesOK, QueueWellFormed
  <2>2. CASE fifo' = [fifo EXCEPT ![e] = cc_fifo_cancel(fifo[e])]
    <3>1. /\ QueuesOK'
          /\ \A x \in End : /\ fifo'[x].write_pos = fifo[x].write_pos
                            /\ fifo'[x].read_pos = fifo[x].read_pos
                            /\ fifo'[x].tokens = fifo[x].tokens
          /\ fifo'[e].tentative_read_pos = fifo[e].read_pos
          /\ \A x \in End : x # e => fifo'[x] = fifo[x]
      BY <1>1, <2>2, CancelStep DEF QueuesOK
    <3> QED
      BY <1>1, <3>1
  <2> QED
    BY <1>3, <2>1, <2>2
<1>4. ASSUME NEW p \in Port, NEW s \in {"DISCONNECTED", "ENABLED"}
      PROVE  cc_port_set_state(p, s) \in Port
  <2>1. 0 \in 0 .. MaxRetries /\ "ENABLED" \in PortState /\ "DISCONNECTED" \in PortState
    BY BoundAssumption DEF PortState
  <2>2. CASE s = "ENABLED"
    <3>1. cc_port_set_state(p, s) = [p EXCEPT !.state = "ENABLED", !.retries = 0]
      BY <2>2 DEF cc_port_set_state
    <3> QED
      BY <2>1, <3>1 DEF Port
  <2>3. CASE s = "DISCONNECTED"
    <3>1. cc_port_set_state(p, s) = [p EXCEPT !.state = "DISCONNECTED"]
      BY <2>3 DEF cc_port_set_state, Port
    <3> QED
      BY <2>1, <3>1 DEF Port
  <2> QED
    BY <2>2, <2>3
<1>5. ASSUME NEW p \in Port PROVE Unconnected(p) \in Port
  <2>1. cc_port_set_state(p, "DISCONNECTED") \in Port
    BY <1>4
  <2> QED
    BY <2>1 DEF Unconnected, Port
<1>6. CASE cc_port_connect(e)
  <2> DEFINE m == [type |-> "PORT_CONNECT"]
  <2>1. fifo' = fifo /\ written' = written /\ delivered' = delivered /\ faults' = faults
    BY <1>6 DEF cc_port_connect
  <2>2. port' \in [End -> Port]
    BY <1>1, <1>6, BoundAssumption DEF cc_port_connect, Port, PortState
  <2>3. chan' = [chan EXCEPT ![e] = Append(chan[e], m)] /\ m \in Message /\ m.type = "PORT_CONNECT"
    BY <1>2, <1>6 DEF cc_port_connect
  <2> HIDE DEF m
  <2>4. /\ chan' \in [End -> Seq(Message)]
        /\ \A x \in End : \A y \in Messages(chan'[x]) :
             y \in Messages(chan[x]) \/ (x = e /\ y = m)
    BY <1>1, <2>3, SendStep
  <2> QED
    BY <1>1, <1>3, <2>1, <2>2, <2>3, <2>4
<1>7. CASE cc_port_handle_connect(e)
  <2> DEFINE m == [type |-> "PORT_CONNECT_REPLY"]
  <2>1. fifo' = fifo /\ written' = written /\ delivered' = delivered /\ faults' = faults
    BY <1>7 DEF cc_port_handle_connect
  <2>2. port' \in [End -> Port]
    <3>1. cc_port_set_state(port[e], "ENABLED") \in Port
      BY <1>1, <1>4
    <3>2. [cc_port_set_state(port[e], "ENABLED") EXCEPT !.tunnel = TRUE] \in Port
      BY <3>1 DEF Port
    <3> QED
      BY <1>1, <1>7, <3>2 DEF cc_port_handle_connect
  <2>3. /\ chan' = Answered(e, m) /\ m \in Message /\ m.type = "PORT_CONNECT_REPLY"
        /\ chan[Peer(e)] # <<>>
    BY <1>2, <1>7 DEF cc_port_handle_connect, Incoming
  <2> HIDE DEF m
  <2>4. /\ chan' \in [End -> Seq(Message)]
        /\ \A x \in End : \A y \in Messages(chan'[x]) :
             y \in Messages(chan[x]) \/ (x = e /\ y = m)
    BY <1>1, <2>3, AnswerStep
  <2> QED
    BY <1>1, <1>3, <2>1, <2>2, <2>3, <2>4
<1>8. CASE cc_port_connect_reply_handler(e)
  <2>1. fifo' = fifo /\ written' = written /\ delivered' = delivered /\ faults' = faults
    BY <1>8 DEF cc_port_connect_reply_handler
  <2>2. port' \in [End -> Port]
    BY <1>1, <1>4, <1>8 DEF cc_port_connect_reply_handler
  <2>3. chan' = Handled(e) /\ chan[Peer(e)] # <<>>
    BY <1>8 DEF cc_port_connect_reply_handler, Incoming
  <2>4. /\ chan' \in [End -> Seq(Message)]
        /\ \A x \in End : Messages(chan'[x]) \subseteq Messages(chan[x])
    BY <1>1, <2>3, HandleStep
  <2> QED
    BY <1>1, <1>3, <2>1, <2>2, <2>4
<1>9. CASE cc_port_disconnect(e)
  <2> DEFINE m == [type |-> "PORT_DISCONNECT"]
  <2>1. /\ fifo' = [fifo EXCEPT ![e] = cc_fifo_cancel(fifo[e])]
        /\ written' = written /\ delivered' = delivered /\ faults' \in Nat
    BY <1>1, <1>9 DEF cc_port_disconnect
  <2>2. port' \in [End -> Port]
    BY <1>1, <1>5, <1>9 DEF cc_port_disconnect
  <2>3. chan' = chan \/ chan' = [chan EXCEPT ![e] = Append(chan[e], m)]
    BY <1>9 DEF cc_port_disconnect
  <2>4. m \in Message /\ m.type = "PORT_DISCONNECT"
    BY <1>2
  <2> HIDE DEF m
  <2>5. /\ chan' \in [End -> Seq(Message)]
        /\ \A x \in End : \A y \in Messages(chan'[x]) :
             y \in Messages(chan[x]) \/ y = m
    <3>1. CASE chan' = chan
      BY <1>1, <3>1
    <3>2. CASE chan' = [chan EXCEPT ![e] = Append(chan[e], m)]
      BY <1>1, <2>4, <3>2, SendStep
    <3> QED
      BY <2>3, <3>1, <3>2
  <2> QED
    BY <1>3, <2>1, <2>2, <2>4, <2>5
<1>10. CASE cc_port_handle_disconnect(e)
  <2>1. /\ fifo' = [fifo EXCEPT ![e] = cc_fifo_cancel(fifo[e])]
        /\ written' = written /\ delivered' = delivered /\ faults' = faults
    BY <1>10 DEF cc_port_handle_disconnect
  <2>2. port' \in [End -> Port]
    BY <1>1, <1>5, <1>10 DEF cc_port_handle_disconnect
  <2>3. chan' = Handled(e) /\ chan[Peer(e)] # <<>>
    BY <1>10 DEF cc_port_handle_disconnect, Incoming
  <2>4. /\ chan' \in [End -> Seq(Message)]
        /\ \A x \in End : Messages(chan'[x]) \subseteq Messages(chan[x])
    BY <1>1, <2>3, HandleStep
  <2> QED
    BY <1>1, <1>3, <2>1, <2>2, <2>4
<1>11. ASSUME NEW newProxy \in BOOLEAN, cc_node_connect_to_proxy(e, newProxy)
       PROVE  /\ fifo' = fifo \/ fifo' = [fifo EXCEPT ![e] = cc_fifo_cancel(fifo[e])]
              /\ written' = written /\ delivered' = delivered /\ faults' \in Nat
              /\ port' \in [End -> Port]
              /\ chan' \in [End -> Seq(Message)]
              /\ \A x \in End : Messages(chan'[x]) \subseteq Messages(chan[x])
  <2>1. /\ fifo' = fifo \/ fifo' = [fifo EXCEPT ![e] = cc_fifo_cancel(fifo[e])]
        /\ written' = written /\ delivered' = delivered /\ faults' \in Nat
    BY <1>1, <1>11 DEF cc_node_connect_to_proxy
  <2>2. port' = port \/ port' = [port EXCEPT ![e] = Unconnected(port[e])]
    BY <1>11 DEF cc_node_connect_to_proxy
  <2>3. port' \in [End -> Port]
    BY <1>1, <1>5, <2>2
  <2>4. PICK n \in 0 .. Len(chan[e]) :
          chan' = [chan EXCEPT ![e] = SubSeq(chan[e], 1, n), ![Peer(e)] = <<>>]
    BY <1>11 DEF cc_node_connect_to_proxy
  <2>5. /\ chan' \in [End -> Seq(Message)]
        /\ \A x \in End : Messages(chan'[x]) \subseteq Messages(chan[x])
    BY <1>1, <2>4, LoseStep
  <2> QED
    BY <2>1, <2>3, <2>5
<1>12. CASE \E newProxy \in BOOLEAN : cc_node_connect_to_proxy(e, newProxy)
  BY <1>3, <1>11, <1>12
<1> QED
  BY <1>6, <1>7, <1>8, <1>9, <1>10, <1>12 DEF Control

(***************************************************************************)
(* The invariant is inductive.                                              *)
(***************************************************************************)
\* Every step of either runtime keeps the invariant.
LEMMA SafetyNext == SafetyInv /\ [Next]_vars => SafetyInv'
<1> SUFFICES ASSUME SafetyInv, [Next]_vars PROVE SafetyInv'
  OBVIOUS
<1>1. /\ TypeOK /\ SequenceBounds /\ QueuesOK
      /\ written \in Nat /\ MaxTokens \in Nat
      /\ fifo["rcv"].write_pos \in Nat /\ fifo["rcv"].read_pos \in Nat
  BY Facts, Positions
<1>2. /\ port \in [End -> Port] /\ chan \in [End -> Seq(Message)]
      /\ delivered \in Seq(Data) /\ faults \in Nat
  BY <1>1 DEF TypeOK
<1>3. /\ written = fifo["snd"].write_pos /\ written <= MaxTokens
      /\ fifo["rcv"].write_pos <= written
      /\ fifo["rcv"].tentative_read_pos = fifo["rcv"].read_pos
      /\ \A m \in Messages(chan["snd"]) : m.type = "TOKEN" => m.seq < written
      /\ \A m \in Messages(chan["rcv"]) : m.type = "TOKEN_REPLY" => m.seq < written
  BY <1>1 DEF SequenceBounds
<1>4. ASSUME QueuesOK', chan' \in [End -> Seq(Message)], port' \in [End -> Port],
             written' \in Nat, delivered' \in Seq(Data), faults' \in Nat, SequenceBounds'
      PROVE  SafetyInv'
  BY <1>4 DEF SafetyInv, TypeOK, QueuesOK
<1>5. CASE SndFire
  <2>1. /\ port' = port /\ chan' = chan /\ delivered' = delivered /\ faults' = faults
        /\ written' = written + 1
    BY <1>5 DEF SndFire
  <2>2. /\ QueuesOK' /\ written < MaxTokens /\ fifo'["snd"].write_pos = written + 1
        /\ fifo'["rcv"] = fifo["rcv"]
    BY <1>5, FireEffect
  <2>3. \A m \in Messages(chan["snd"]) : m.type = "TOKEN" => m.seq < written + 1
    <3>1. \A m \in Messages(chan["snd"]) : m \in Message
      BY <1>1, MessageIn, Facts
    <3> QED
      BY <1>1, <1>3, <3>1, MessageFields
  <2>4. \A m \in Messages(chan["rcv"]) : m.type = "TOKEN_REPLY" => m.seq < written + 1
    <3>1. \A m \in Messages(chan["rcv"]) : m \in Message
      BY <1>1, MessageIn, Facts
    <3> QED
      BY <1>1, <1>3, <3>1, MessageFields
  <2>5. SequenceBounds'
    BY <1>1, <1>3, <2>1, <2>2, <2>3, <2>4 DEF SequenceBounds
  <2> QED
    BY <1>1, <1>2, <1>4, <2>1, <2>2, <2>5
<1>6. CASE cc_port_transmit
  <2>1. /\ port' = port /\ written' = written /\ delivered' = delivered /\ faults' = faults
    BY <1>6 DEF cc_port_transmit
  <2>2. /\ QueuesOK' /\ chan' \in [End -> Seq(Message)]
        /\ fifo'["snd"].write_pos = fifo["snd"].write_pos /\ fifo'["rcv"] = fifo["rcv"]
        /\ Messages(chan'["rcv"]) = Messages(chan["rcv"])
        /\ fifo["snd"].tentative_read_pos < written
        /\ \A m \in Messages(chan'["snd"]) :
             m \in Messages(chan["snd"]) \/ m.seq = fifo["snd"].tentative_read_pos
    BY <1>6, TransmitEffect
  <2>3. SequenceBounds'
    BY <1>3, <2>1, <2>2 DEF SequenceBounds
  <2> QED
    BY <1>1, <1>2, <1>4, <2>1, <2>2, <2>3
<1>7. CASE proto_parse_token
  <2>1. /\ port' = port /\ written' = written /\ delivered' = delivered /\ faults' = faults
    BY <1>7 DEF proto_parse_token
  <2>2. PICK m \in Messages(chan["snd"]) :
          /\ m \in Message /\ m.type = "TOKEN"
          /\ QueuesOK' /\ chan' \in [End -> Seq(Message)]
          /\ fifo'["snd"] = fifo["snd"]
          /\ fifo'["rcv"].read_pos = fifo["rcv"].read_pos
          /\ fifo'["rcv"].tentative_read_pos = fifo["rcv"].tentative_read_pos
          /\ \/ fifo'["rcv"] = fifo["rcv"]
             \/ /\ fifo["rcv"].write_pos <= m.seq
                /\ fifo'["rcv"].write_pos = fifo["rcv"].write_pos + 1
          /\ Messages(chan'["snd"]) \subseteq Messages(chan["snd"])
          /\ \A y \in Messages(chan'["rcv"]) :
               y \in Messages(chan["rcv"]) \/ y.seq = m.seq
    BY <1>7, TokenEffect
  <2>3. m.seq \in Nat /\ m.seq < written
    BY <1>3, <2>2, MessageFields
  <2>4. fifo'["rcv"].write_pos <= written
    BY <1>1, <1>3, <2>2, <2>3
  <2>5. SequenceBounds'
    BY <1>3, <2>1, <2>2, <2>3, <2>4 DEF SequenceBounds
  <2> QED
    BY <1>1, <1>2, <1>4, <2>1, <2>2, <2>5
<1>8. CASE proto_parse_token_reply
  <2>1. /\ port' = port /\ written' = written /\ delivered' = delivered /\ faults' = faults
    BY <1>8 DEF proto_parse_token_reply
  <2>2. /\ QueuesOK' /\ chan' \in [End -> Seq(Message)]
        /\ fifo'["rcv"] = fifo["rcv"] /\ fifo'["snd"].write_pos = fifo["snd"].write_pos
        /\ \A x \in End : Messages(chan'[x]) \subseteq Messages(chan[x])
    BY <1>8, ReplyEffect
  <2>3. SequenceBounds'
    BY <1>3, <2>1, <2>2, Facts DEF SequenceBounds
  <2> QED
    BY <1>1, <1>2, <1>4, <2>1, <2>2, <2>3
<1>9. CASE RcvFire
  <2>1. /\ port' = port /\ chan' = chan /\ written' = written /\ faults' = faults
    BY <1>9 DEF RcvFire
  <2> DEFINE d == fifo["rcv"].tokens[Slot(fifo["rcv"].read_pos, RcvSize)]
  <2>2. /\ QueuesOK' /\ fifo'["snd"] = fifo["snd"]
        /\ fifo'["rcv"].write_pos = fifo["rcv"].write_pos
        /\ fifo'["rcv"].read_pos = fifo["rcv"].read_pos + 1
        /\ fifo'["rcv"].tentative_read_pos = fifo["rcv"].read_pos + 1
        /\ d \in Data /\ delivered' = Append(delivered, d)
    BY <1>9, ConsumeEffect
  <2> HIDE DEF d
  <2>3. delivered' \in Seq(Data)
    BY <1>2, <2>2
  <2>4. SequenceBounds'
    BY <1>3, <2>1, <2>2 DEF SequenceBounds
  <2> QED
    BY <1>1, <1>2, <1>4, <2>1, <2>2, <2>3, <2>4
<1>10. ASSUME NEW e \in End, Control(e) PROVE SafetyInv'
  <2>1. /\ QueuesOK' /\ chan' \in [End -> Seq(Message)]
        /\ \A x \in End : /\ fifo'[x].write_pos = fifo[x].write_pos
                          /\ fifo'[x].read_pos = fifo[x].read_pos
        /\ fifo'["rcv"].tentative_read_pos = fifo["rcv"].tentative_read_pos
        /\ \A x \in End : \A m \in Messages(chan'[x]) :
             m \in Messages(chan[x]) \/ (m.type # "TOKEN" /\ m.type # "TOKEN_REPLY")
        /\ written' = written /\ delivered' = delivered
        /\ port' \in [End -> Port] /\ faults' \in Nat
    BY <1>10, ControlEffect
  <2>2. SequenceBounds'
    BY <1>3, <2>1, Facts DEF SequenceBounds
  <2> QED
    BY <1>1, <1>2, <1>4, <2>1, <2>2
<1>11. CASE UNCHANGED vars
  BY <1>1, <1>11, Facts
  DEF vars, SafetyInv, TypeOK, QueueWellFormed, SequenceBounds
<1> QED
  BY <1>5, <1>6, <1>7, <1>8, <1>9, <1>10, <1>11 DEF Next

\* Every reachable state satisfies the invariant.
LEMMA SafetyAlways == Spec => []SafetyInv
<1> QED
  BY SafetyInit, SafetyNext, PTL DEF Spec

\* The positions, messages and port states always have their types: no
\* position of a queue overflows below the bound on tokens, whatever the two
\* runtimes do.
THEOREM TypeCorrect == Spec => []TypeOK
<1>1. SafetyInv => TypeOK
  BY DEF SafetyInv
<1> QED
  BY <1>1, SafetyAlways, PTL

\* Both queues stay well-formed for every size, under every interleaving of
\* tokens, answers, disconnects and lost connections.
THEOREM QueuesWellFormed == Spec => []QueueWellFormed
<1>1. SafetyInv => QueueWellFormed
  BY DEF SafetyInv
<1> QED
  BY <1>1, SafetyAlways, PTL

(***************************************************************************)
(* Unread tokens stay in place.                                             *)
(***************************************************************************)
\* No step overwrites, moves or frees an unread token other than the oldest.
LEMMA UnreadKeptNext == SafetyInv /\ [Next]_vars => [UnreadKeptStep]_vars
<1> SUFFICES ASSUME SafetyInv, Next PROVE UnreadKeptStep
  OBVIOUS
<1>1. /\ End = {"snd", "rcv"} /\ written = fifo["snd"].write_pos
      /\ fifo["snd"].size = SndSize /\ fifo["rcv"].size = RcvSize
  BY Facts, Positions DEF SequenceBounds, End
<1>2. SUFFICES /\ \A p \in fifo'["snd"].read_pos .. written - 1 :
                    fifo'["snd"].tokens[Slot(p, SndSize)] = fifo["snd"].tokens[Slot(p, SndSize)]
               /\ \A p \in fifo'["rcv"].read_pos .. fifo["rcv"].write_pos - 1 :
                    fifo'["rcv"].tokens[Slot(p, RcvSize)] = fifo["rcv"].tokens[Slot(p, RcvSize)]
  BY <1>1 DEF UnreadKeptStep
<1>3. CASE SndFire
  BY <1>3, FireEffect
<1>4. CASE cc_port_transmit
  BY <1>4, TransmitEffect
<1>5. CASE proto_parse_token
  BY <1>5, TokenEffect
<1>6. CASE proto_parse_token_reply
  BY <1>6, ReplyEffect
<1>7. CASE RcvFire
  BY <1>7, ConsumeEffect
<1>8. ASSUME NEW e \in End, Control(e)
      PROVE  \A x \in End : fifo'[x].tokens = fifo[x].tokens
  BY <1>8, ControlEffect
<1> QED
  BY <1>1, <1>3, <1>4, <1>5, <1>6, <1>7, <1>8 DEF Next

\* For every size of the queues, a step frees at most the oldest token of a
\* queue and leaves the data of every other unread token alone.
THEOREM UnreadTokensKept == Spec => UnreadKept
<1> QED
  BY SafetyAlways, UnreadKeptNext, PTL DEF Spec, UnreadKept

(***************************************************************************)
(* Any number of tokens under way.                                          *)
(***************************************************************************)
\* What an answer does to the read position.
LEMMA ReadAfterFacts ==
  ASSUME NEW m \in Message, NEW p \in Nat
  PROVE  /\ ReadAfter(m, p) \in Nat /\ p <= ReadAfter(m, p) /\ ReadAfter(m, p) <= p + 1
         /\ \A q \in Nat : q <= p => ReadAfter(m, q) <= ReadAfter(m, p)
         /\ ReadAfter(m, p) # p => m.type = "TOKEN_REPLY" /\ m.ack /\ m.seq = p
BY DEF ReadAfter

\* Without answers the read position stays where it is.
LEMMA CoveredEmpty ==
  ASSUME NEW r \in Nat, NEW w \in Nat, r <= w
  PROVE  Covered(<<>>, r, w)
<1> DEFINE reach == [i \in 1 .. 0 + 1 |-> r]
<1>1. reach \in [1 .. 0 + 1 -> 0 .. w] /\ reach[1] >= r
  OBVIOUS
<1>2. Len(<<>>) = 0 /\ 1 .. 0 = {}
  OBVIOUS
<1> QED
  BY <1>1, <1>2 DEF Covered

\* Answers that are covered free nothing yet.
LEMMA CoveredBound ==
  ASSUME NEW s \in Seq(Message), NEW r \in Nat, NEW w \in Nat, Covered(s, r, w)
  PROVE  r <= w
<1>1. PICK reach \in [1 .. Len(s) + 1 -> 0 .. w] : reach[1] >= r
  BY DEF Covered
<1>2. 1 \in 1 .. Len(s) + 1
  OBVIOUS
<1>3. reach[1] \in 0 .. w
  BY <1>1, <1>2
<1> QED
  BY <1>1, <1>3

\* A new answer acknowledges a token that is older than the receiving queue,
\* or one that has just been stored.
LEMMA CoveredAppend ==
  ASSUME NEW s \in Seq(Message), NEW r \in Nat, NEW w \in Nat, Covered(s, r, w),
         NEW v \in Nat, w <= v, NEW m \in Message,
         m.type = "TOKEN_REPLY" /\ m.ack => m.seq \in Nat /\ (m.seq < v \/ w + 1 <= v)
  PROVE  Covered(Append(s, m), r, v)
<1> DEFINE n == Len(s)
<1>1. PICK reach \in [1 .. n + 1 -> 0 .. w] :
        /\ reach[1] >= r
        /\ \A i \in 1 .. n : reach[i + 1] >= ReadAfter(s[i], reach[i])
  BY DEF Covered
<1>2. n \in Nat /\ Len(Append(s, m)) = n + 1
  OBVIOUS
<1>3. \A i \in 1 .. n + 1 : Append(s, m)[i] = IF i = n + 1 THEN m ELSE s[i]
  OBVIOUS
<1> DEFINE top == ReadAfter(m, reach[n + 1])
           new == [i \in 1 .. (n + 1) + 1 |-> IF i <= n + 1 THEN reach[i] ELSE top]
<1> HIDE DEF n
<1>4. reach[n + 1] \in Nat /\ reach[n + 1] <= w
  <2>1. n + 1 \in 1 .. n + 1
    BY <1>2
  <2> QED
    BY <1>1, <2>1
<1>5. top \in 0 .. v
  <2>1. top \in Nat /\ top <= reach[n + 1] + 1
        /\ (top # reach[n + 1] => m.type = "TOKEN_REPLY" /\ m.ack /\ m.seq = reach[n + 1])
    BY <1>4, ReadAfterFacts
  <2> HIDE DEF top
  <2> QED
    BY <1>4, <2>1
<1> HIDE DEF top
<1>6. new \in [1 .. (n + 1) + 1 -> 0 .. v]
  BY <1>1, <1>2, <1>5
<1>7. new[1] = reach[1] /\ new[(n + 1) + 1] = top
  BY <1>2
<1>8. ASSUME NEW i \in 1 .. n + 1 PROVE new[i + 1] >= ReadAfter(Append(s, m)[i], new[i])
  <2>1. CASE i = n + 1
    <3>1. new[i] = reach[n + 1] /\ Append(s, m)[i] = m
      BY <1>2, <1>3, <2>1
    <3> QED
      BY <1>5, <1>7, <2>1, <3>1 DEF top
  <2>2. CASE i # n + 1
    <3>1. i \in 1 .. n /\ new[i] = reach[i] /\ new[i + 1] = reach[i + 1] /\ Append(s, m)[i] = s[i]
      BY <1>2, <1>3, <2>2
    <3> QED
      BY <1>1, <3>1
  <2> QED
    BY <2>1, <2>2
<1> HIDE DEF new
<1> QED
  BY <1>1, <1>2, <1>6, <1>7, <1>8 DEF Covered

\* The first answer is handled.
LEMMA CoveredTail ==
  ASSUME NEW s \in Seq(Message), s # <<>>, NEW r \in Nat, NEW w \in Nat, Covered(s, r, w),
         NEW q \in Nat, q <= ReadAfter(Head(s), r)
  PROVE  Covered(Tail(s), q, w)
<1> DEFINE n == Len(s) - 1
<1>1. PICK reach \in [1 .. Len(s) + 1 -> 0 .. w] :
        /\ reach[1] >= r
        /\ \A i \in 1 .. Len(s) : reach[i + 1] >= ReadAfter(s[i], reach[i])
  BY DEF Covered
<1>2. n \in Nat /\ Len(s) = n + 1 /\ Len(Tail(s)) = n /\ Head(s) = s[1] /\ Head(s) \in Message
  OBVIOUS
<1>3. \A i \in 1 .. n : Tail(s)[i] = s[i + 1]
  OBVIOUS
<1> DEFINE new == [i \in 1 .. n + 1 |-> reach[i + 1]]
<1> HIDE DEF n
<1>4. \A i \in 1 .. n + 1 : i + 1 \in 1 .. Len(s) + 1 /\ reach[i + 1] \in 0 .. w
  BY <1>1, <1>2
<1>5. new \in [1 .. n + 1 -> 0 .. w]
  BY <1>4
<1>6. new[1] >= q
  <2>1. reach[1] \in Nat /\ r <= reach[1]
    BY <1>1, <1>2
  <2>2. ReadAfter(Head(s), r) \in Nat /\ ReadAfter(Head(s), reach[1]) \in Nat
        /\ ReadAfter(Head(s), r) <= ReadAfter(Head(s), reach[1])
    BY <1>2, <2>1, ReadAfterFacts
  <2>3. 1 \in 1 .. Len(s) /\ reach[1 + 1] >= ReadAfter(Head(s), reach[1])
    BY <1>1, <1>2
  <2>4. reach[1 + 1] \in Nat /\ new[1] = reach[1 + 1]
    BY <1>2, <1>4
  <2> QED
    BY <2>2, <2>3, <2>4
<1>7. ASSUME NEW i \in 1 .. n PROVE new[i + 1] >= ReadAfter(Tail(s)[i], new[i])
  <2>1. i + 1 \in 1 .. Len(s) /\ Tail(s)[i] = s[i + 1]
    BY <1>2, <1>3
  <2>2. reach[(i + 1) + 1] >= ReadAfter(s[i + 1], reach[i + 1])
    BY <1>1, <2>1
  <2>3. new[i] = reach[i + 1] /\ new[i + 1] = reach[(i + 1) + 1]
    BY <1>2
  <2> QED
    BY <2>1, <2>2, <2>3
<1> HIDE DEF new
<1> QED
  BY <1>2, <1>5, <1>6, <1>7 DEF Covered

\* The last answers are lost.
LEMMA CoveredPrefix ==
  ASSUME NEW s \in Seq(Message), NEW r \in Nat, NEW w \in Nat, Covered(s, r, w),
         NEW n \in 0 .. Len(s)
  PROVE  Covered(SubSeq(s, 1, n), r, w)
<1>1. PICK reach \in [1 .. Len(s) + 1 -> 0 .. w] :
        /\ reach[1] >= r
        /\ \A i \in 1 .. Len(s) : reach[i + 1] >= ReadAfter(s[i], reach[i])
  BY DEF Covered
<1>2. n \in Nat /\ Len(s) \in Nat /\ n <= Len(s) /\ Len(SubSeq(s, 1, n)) = n
  OBVIOUS
<1>3. \A i \in 1 .. n : i \in 1 .. Len(s) /\ SubSeq(s, 1, n)[i] = s[i]
  BY <1>2
<1> DEFINE new == [i \in 1 .. n + 1 |-> reach[i]]
<1>4. new \in [1 .. n + 1 -> 0 .. w] /\ new[1] = reach[1]
  BY <1>1, <1>2
<1>5. ASSUME NEW i \in 1 .. n PROVE new[i + 1] >= ReadAfter(SubSeq(s, 1, n)[i], new[i])
  <2>1. new[i + 1] = reach[i + 1] /\ new[i] = reach[i]
    BY <1>2
  <2> QED
    BY <1>1, <1>3, <2>1
<1> HIDE DEF new
<1> QED
  BY <1>1, <1>2, <1>4, <1>5 DEF Covered

\* Control messages and lost connections leave the answers under way covered.
LEMMA ControlAnswers ==
  ASSUME SafetyInv, NEW e \in End, Control(e),
         NEW r \in Nat, NEW w \in Nat, Covered(chan["rcv"], r, w)
  PROVE  Covered(chan'["rcv"], r, w)
<1> DEFINE s == chan["rcv"]
<1>1. chan \in [End -> Seq(Message)] /\ "rcv" \in End /\ "snd" \in End /\ End = {"snd", "rcv"}
  BY Facts DEF TypeOK, End
<1>2. s \in Seq(Message) /\ Covered(s, r, w) /\ r <= w
  BY <1>1, CoveredBound
<1>3. Peer("rcv") = "snd" /\ Peer("snd") = "rcv"
  BY DEF Peer
<1>4. ASSUME NEW m \in Message, m.type # "TOKEN_REPLY" PROVE Covered(Append(s, m), r, w)
  <2> HIDE DEF s
  <2> QED
    BY <1>2, <1>4, CoveredAppend
<1>5. ASSUME s # <<>>, Head(s).type # "TOKEN_REPLY" PROVE Covered(Tail(s), r, w)
  <2>1. ReadAfter(Head(s), r) = r
    BY <1>5 DEF ReadAfter
  <2> HIDE DEF s
  <2> QED
    BY <1>2, <1>5, <2>1, CoveredTail
<1>6. /\ [type |-> "PORT_CONNECT"] \in Message
      /\ [type |-> "PORT_CONNECT_REPLY"] \in Message
      /\ [type |-> "PORT_DISCONNECT"] \in Message
  BY DEF Message
<1>7. CASE cc_port_connect(e)
  <2>1. chan' = [chan EXCEPT ![e] = Append(chan[e], [type |-> "PORT_CONNECT"])]
    BY <1>7 DEF cc_port_connect
  <2>2. chan'["rcv"] = s \/ chan'["rcv"] = Append(s, [type |-> "PORT_CONNECT"])
    BY <1>1, <2>1
  <2> QED
    BY <1>2, <1>4, <1>6, <2>2
<1>8. CASE cc_port_handle_connect(e)
  <2>1. /\ chan' = Answered(e, [type |-> "PORT_CONNECT_REPLY"])
        /\ chan[Peer(e)] # <<>> /\ Head(chan[Peer(e)]).type = "PORT_CONNECT"
    BY <1>8 DEF cc_port_handle_connect, Incoming
  <2>2. CASE e = "rcv"
    <3>1. chan'["rcv"] = Append(s, [type |-> "PORT_CONNECT_REPLY"])
      BY <1>1, <1>3, <2>1, <2>2 DEF Answered
    <3> QED
      BY <1>4, <1>6, <3>1
  <2>3. CASE e = "snd"
    <3>1. chan'["rcv"] = Tail(s)
      BY <1>1, <1>3, <2>1, <2>3 DEF Answered
    <3> QED
      BY <1>3, <1>5, <2>1, <2>3, <3>1
  <2> QED
    BY <1>1, <2>2, <2>3
<1>9. ASSUME chan' = Handled(e), chan[Peer(e)] # <<>>, Head(chan[Peer(e)]).type # "TOKEN_REPLY"
      PROVE  Covered(chan'["rcv"], r, w)
  <2>1. CASE e = "rcv"
    <3>1. chan'["rcv"] = s
      BY <1>1, <1>3, <1>9, <2>1 DEF Handled
    <3> QED
      BY <1>2, <3>1
  <2>2. CASE e = "snd"
    <3>1. chan'["rcv"] = Tail(s)
      BY <1>1, <1>3, <1>9, <2>2 DEF Handled
    <3> QED
      BY <1>3, <1>5, <1>9, <2>2, <3>1
  <2> QED
    BY <1>1, <2>1, <2>2
<1>10. CASE cc_port_connect_reply_handler(e)
  BY <1>9, <1>10 DEF cc_port_connect_reply_handler, Incoming
<1>11. CASE cc_port_handle_disconnect(e)
  BY <1>9, <1>11 DEF cc_port_handle_disconnect, Incoming
<1>12. CASE cc_port_disconnect(e)
  <2>1. chan' = chan \/ chan' = [chan EXCEPT ![e] = Append(chan[e], [type |-> "PORT_DISCONNECT"])]
    BY <1>12 DEF cc_port_disconnect
  <2>2. chan'["rcv"] = s \/ chan'["rcv"] = Append(s, [type |-> "PORT_DISCONNECT"])
    BY <1>1, <2>1
  <2> QED
    BY <1>2, <1>4, <1>6, <2>2
<1>13. CASE \E newProxy \in BOOLEAN : cc_node_connect_to_proxy(e, newProxy)
  <2>1. PICK n \in 0 .. Len(chan[e]) :
          chan' = [chan EXCEPT ![e] = SubSeq(chan[e], 1, n), ![Peer(e)] = <<>>]
    BY <1>13 DEF cc_node_connect_to_proxy
  <2>2. CASE e = "rcv"
    <3>1. n \in 0 .. Len(s) /\ chan'["rcv"] = SubSeq(s, 1, n)
      BY <1>1, <1>3, <2>1, <2>2
    <3> HIDE DEF s
    <3> QED
      BY <1>2, <3>1, CoveredPrefix
  <2>3. CASE e = "snd"
    <3>1. chan'["rcv"] = <<>>
      BY <1>1, <1>3, <2>1, <2>3
    <3> QED
      BY <1>2, <3>1, CoveredEmpty
  <2> QED
    BY <1>1, <2>2, <2>3
<1> QED
  BY <1>7, <1>8, <1>10, <1>11, <1>12, <1>13 DEF Control

\* The answer to a token acknowledges one that the receiving queue has passed,
\* or for which it has just stored one.
LEMMA TokenAnswer ==
  ASSUME SafetyInv, proto_parse_token,
         NEW r \in Nat, Covered(chan["rcv"], r, fifo["rcv"].write_pos)
  PROVE  Covered(chan'["rcv"], r, fifo'["rcv"].write_pos)
<1> DEFINE f == fifo["rcv"]
           s == chan["rcv"]
           m == Head(chan["snd"])
           h == cc_node_handle_token(f, m.data, m.seq)
           a == [type |-> "TOKEN_REPLY", seq |-> m.seq, ack |-> h.ack]
           w == f.write_pos
           v == h.fifo.write_pos
<1>1. chan \in [End -> Seq(Message)] /\ "rcv" \in End /\ "snd" \in End
  BY Facts DEF TypeOK
<1>2. /\ chan["snd"] # <<>> /\ m.type = "TOKEN"
      /\ fifo' = [fifo EXCEPT !["rcv"] = h.fifo]
      /\ chan' = Answered("rcv", a)
      /\ Peer("rcv") = "snd"
  BY DEF proto_parse_token, Incoming, Peer
<1>3. chan'["rcv"] = Append(s, a)
  BY <1>1, <1>2 DEF Answered
<1>4. fifo'["rcv"] = h.fifo
  BY <1>2, Facts DEF TypeOK
<1>5. m \in Message /\ m \in Messages(chan["snd"])
  <2>1. chan["snd"] \in Seq(Message)
    BY <1>1
  <2> QED
    BY <1>2, <2>1, TailMessages
<1>6. m.seq \in Nat /\ m.seq < UIntMod /\ m.data \in Data /\ m.seq < written
  BY <1>2, <1>5, MessageFields, Facts DEF SequenceBounds
<1>7. m.data # NoToken
  BY <1>6, ValueAssumption DEF Data
<1>8. /\ f \in FifoType(RcvSize, Data) /\ WellFormed(f) /\ RcvSize \in Nat \ {0}
      /\ w \in Nat /\ w <= written /\ written \in Nat /\ MaxTokens \in Nat
      /\ written <= MaxTokens /\ MaxTokens < UIntMod /\ UIntMod \in Nat
  BY Facts, Positions DEF SequenceBounds
<1>9. \/ h.ack = FALSE /\ h.fifo = f
      \/ h.ack = TRUE /\ h.fifo = f /\ m.seq < w
      \/ /\ h.ack = TRUE /\ h.fifo = cc_fifo_write(f, m.data)
         /\ w <= m.seq /\ cc_fifo_slots_available(f, 1)
  BY <1>6, <1>8 DEF cc_node_handle_token, cc_fifo_com_write
<1>10. a \in Message /\ a.type = "TOKEN_REPLY" /\ a.seq = m.seq /\ a.ack = h.ack
  <2>1. h.ack \in BOOLEAN
    BY <1>9
  <2> QED
    BY <1>6, <2>1, MessageTypes
<1>11. s \in Seq(Message) /\ Covered(s, r, w)
  BY <1>1
<1> HIDE DEF f, s, m, h, a, w, v
<1>12. v \in Nat /\ w <= v /\ (a.ack => a.seq < v \/ w + 1 <= v)
  <2>1. CASE h.fifo = f
    <3>1. v = w /\ w \in Nat /\ w <= w
      BY <1>8, <2>1 DEF w, v
    <3>2. \/ ~h.ack
          \/ m.seq < w
          \/ h.fifo = cc_fifo_write(f, m.data) /\ w <= m.seq /\ cc_fifo_slots_available(f, 1)
      BY <1>9
    <3>3. CASE ~h.ack \/ m.seq < w
      BY <1>10, <3>1, <3>3
    <3>4. CASE h.fifo = cc_fifo_write(f, m.data) /\ w <= m.seq /\ cc_fifo_slots_available(f, 1)
      <4>1. f.write_pos + 1 < UIntMod
        BY <1>6, <1>8, <3>4 DEF w
      <4>2. h.fifo.write_pos = f.write_pos + 1
        BY <1>6, <1>7, <1>8, <3>4, <4>1, WriteFifo
      <4> QED
        BY <1>8, <2>1, <4>2 DEF w
    <3> QED
      BY <3>2, <3>3, <3>4
  <2>2. CASE /\ h.ack = TRUE /\ h.fifo = cc_fifo_write(f, m.data)
             /\ w <= m.seq /\ cc_fifo_slots_available(f, 1)
    <3>1. f.write_pos + 1 < UIntMod
      BY <1>6, <1>8, <2>2 DEF w
    <3>2. h.fifo.write_pos = f.write_pos + 1
      BY <1>6, <1>7, <1>8, <2>2, <3>1, WriteFifo
    <3> QED
      BY <1>8, <3>2 DEF w, v
  <2> QED
    BY <1>9, <2>1, <2>2
<1>13. Covered(Append(s, a), r, v)
  BY <1>6, <1>8, <1>10, <1>11, <1>12, CoveredAppend
<1> QED
  BY <1>3, <1>4, <1>13 DEF v

\* Handling an answer takes the read position no further than the answers
\* were covered for.
LEMMA ReplyAnswers ==
  ASSUME SafetyInv, proto_parse_token_reply,
         Covered(chan["rcv"], fifo["snd"].read_pos, fifo["rcv"].write_pos)
  PROVE  Covered(chan'["rcv"], fifo'["snd"].read_pos, fifo["rcv"].write_pos)
<1> DEFINE f == fifo["snd"]
           s == chan["rcv"]
           m == Head(s)
           g == cc_node_handle_token_reply(f, m.ack, m.seq)
<1>1. chan \in [End -> Seq(Message)] /\ "rcv" \in End /\ "snd" \in End
  BY Facts DEF TypeOK
<1>2. /\ s # <<>> /\ m.type = "TOKEN_REPLY"
      /\ fifo' = [fifo EXCEPT !["snd"] = g]
      /\ chan' = Handled("snd")
      /\ Peer("snd") = "rcv"
  BY DEF proto_parse_token_reply, Incoming, Peer
<1>3. chan'["rcv"] = Tail(s)
  BY <1>1, <1>2 DEF Handled
<1>4. fifo'["snd"] = g
  BY <1>2, Facts DEF TypeOK
<1>5. /\ f \in FifoType(SndSize, Data) /\ WellFormed(f) /\ SndSize \in Nat \ {0}
      /\ f.read_pos \in Nat /\ f.write_pos \in Nat /\ f.tentative_read_pos \in Nat
      /\ f.tentative_read_pos <= f.write_pos /\ fifo["rcv"].write_pos \in Nat
  BY Facts, Positions
<1>6. s \in Seq(Message) /\ Covered(s, f.read_pos, fifo["rcv"].write_pos)
  BY <1>1
<1>7. \/ g = f
      \/ g = [f EXCEPT !.tentative_read_pos = m.seq]
      \/ g = FreeHead(f) /\ m.ack /\ m.seq = f.read_pos /\ f.read_pos < f.tentative_read_pos
  BY DEF cc_node_handle_token_reply, cc_fifo_com_commit_read, cc_fifo_com_cancel_read
<1> HIDE DEF f, s, m, g
<1>8. g.read_pos \in Nat /\ g.read_pos <= ReadAfter(m, f.read_pos)
  <2>1. CASE g = FreeHead(f) /\ m.ack /\ m.seq = f.read_pos /\ f.read_pos < f.tentative_read_pos
    <3>1. g.read_pos = f.read_pos + 1
      BY <1>5, <2>1, FreeFifo
    <3>2. ReadAfter(m, f.read_pos) = f.read_pos + 1
      BY <1>2, <2>1 DEF ReadAfter
    <3> QED
      BY <1>5, <3>1, <3>2
  <2>2. CASE g = f \/ g = [f EXCEPT !.tentative_read_pos = m.seq]
    <3>1. g.read_pos = f.read_pos
      BY <1>5, <2>2 DEF FifoType
    <3> QED
      BY <1>5, <3>1 DEF ReadAfter
  <2> QED
    BY <1>7, <2>1, <2>2
<1>9. Covered(Tail(s), g.read_pos, fifo["rcv"].write_pos)
  BY <1>2, <1>5, <1>6, <1>8, CoveredTail DEF m
<1> QED
  BY <1>3, <1>4, <1>9

\* Initially nothing is under way.
LEMMA WindowInit == Init => WindowInv
<1> SUFFICES ASSUME Init PROVE WindowInv
  OBVIOUS
<1>1. \A e \in End : fifo[e].read_pos = 0 /\ fifo[e].write_pos = 0
  BY DEF Init, cc_fifo_init, End, Size
<1>2. \A e \in End : chan[e] = <<>> /\ Messages(chan[e]) = {}
  BY EmptyMessages DEF Init
<1>3. "snd" \in End /\ "rcv" \in End
  BY DEF End
<1>4. Covered(chan["rcv"], fifo["snd"].read_pos, fifo["rcv"].write_pos)
  BY <1>1, <1>2, <1>3, CoveredEmpty
<1>5. \A e \in End : fifo[e].read_pos .. fifo[e].write_pos - 1 = {}
  BY <1>1
<1>6. NoNilDelivered
  BY DEF Init, NoNilDelivered
<1>7. Messages(chan["snd"]) = {}
  BY <1>2, <1>3
<1>8. \A e \in End : \A p \in fifo[e].read_pos .. fifo[e].write_pos - 1 :
        fifo[e].tokens[Slot(p, fifo[e].size)] # NilData
  <2> SUFFICES ASSUME NEW e \in End, NEW p \in fifo[e].read_pos .. fifo[e].write_pos - 1
               PROVE  FALSE
    OBVIOUS
  <2> QED
    BY <1>5
<1> QED
  BY <1>4, <1>6, <1>7, <1>8 DEF WindowInv

\* Every step keeps the invariant.
LEMMA WindowNext == SafetyInv /\ WindowInv /\ [Next]_vars => WindowInv'
<1> SUFFICES ASSUME SafetyInv, WindowInv, [Next]_vars PROVE WindowInv'
  OBVIOUS
<1> DEFINE S == fifo["snd"]
           R == fifo["rcv"]
<1>1. /\ S.read_pos \in Nat /\ R.read_pos \in Nat /\ R.write_pos \in Nat /\ written \in Nat
      /\ S.tentative_read_pos \in Nat
      /\ S.read_pos <= written /\ R.read_pos <= R.write_pos
      /\ S.write_pos = written /\ S.size = SndSize /\ R.size = RcvSize
  BY Facts, Positions DEF SequenceBounds
<1>2. chan["rcv"] \in Seq(Message) /\ chan \in [End -> Seq(Message)] /\ "rcv" \in End /\ "snd" \in End
  BY Facts DEF TypeOK
<1>3. Covered(chan["rcv"], S.read_pos, R.write_pos) /\ S.read_pos <= R.write_pos
  <2>1. Covered(chan["rcv"], S.read_pos, R.write_pos)
    BY DEF WindowInv
  <2> HIDE DEF S, R
  <2> QED
    BY <1>1, <1>2, <2>1, CoveredBound
<1>4. /\ \A p \in S.read_pos .. written - 1 : S.tokens[Slot(p, SndSize)] # NilData
      /\ \A p \in R.read_pos .. R.write_pos - 1 : R.tokens[Slot(p, RcvSize)] # NilData
  BY <1>1, <1>2 DEF WindowInv
<1>5. \A m \in Messages(chan["snd"]) : m.type = "TOKEN" =>
        m.seq \in Nat /\ (m.data = NilData => m.seq < R.write_pos)
  <2>1. \A m \in Messages(chan["snd"]) : m \in Message
    BY Facts, MessageIn
  <2> QED
    BY <2>1, MessageFields DEF WindowInv
<1>6. delivered \in Seq(Data) /\ NoNilDelivered
  BY Facts DEF WindowInv, TypeOK
<1> DEFINE
      Answers == Covered(chan["rcv"], S.read_pos, R.write_pos)
      NilTokens == \A m \in Messages(chan["snd"]) : m.type = "TOKEN" /\ m.data = NilData =>
                     m.seq < R.write_pos
      SndData == \A p \in S.read_pos .. S.write_pos - 1 : S.tokens[Slot(p, SndSize)] # NilData
      RcvData == \A p \in R.read_pos .. R.write_pos - 1 : R.tokens[Slot(p, RcvSize)] # NilData
<1>7. ASSUME QueuesOK', Answers', NilTokens', SndData', RcvData', NoNilDelivered'
      PROVE  WindowInv'
  <2>1. (\A e \in End : fifo[e] \in FifoType(Size[e], Data))'
    BY <1>7 DEF QueuesOK
  <2>2. fifo'["snd"].size = SndSize /\ fifo'["rcv"].size = RcvSize
    BY <2>1, Facts, FifoFields
  <2>3. \A p \in fifo'["snd"].read_pos .. fifo'["snd"].write_pos - 1 :
          fifo'["snd"].tokens[Slot(p, fifo'["snd"].size)] # NilData
    BY <1>7, <2>2
  <2>4. \A p \in fifo'["rcv"].read_pos .. fifo'["rcv"].write_pos - 1 :
          fifo'["rcv"].tokens[Slot(p, fifo'["rcv"].size)] # NilData
    BY <1>7, <2>2
  <2> QED
    BY <1>7, <2>3, <2>4 DEF WindowInv, End
<1>8. CASE SndFire
  <2>1. chan' = chan /\ delivered' = delivered
    BY <1>8 DEF SndFire
  <2>2. /\ QueuesOK' /\ fifo'["rcv"] = R
        /\ fifo'["snd"].read_pos = S.read_pos /\ fifo'["snd"].write_pos = written + 1
        /\ fifo'["snd"].tokens[Slot(written, SndSize)] = written
        /\ \A p \in S.read_pos .. written - 1 :
             fifo'["snd"].tokens[Slot(p, SndSize)] = S.tokens[Slot(p, SndSize)]
    BY <1>8, FireEffect
  <2>3. SndData'
    BY <1>1, <1>4, <2>2, ValueAssumption
  <2>4. NilTokens' /\ RcvData'
    BY <1>1, <1>4, <1>5, <2>1, <2>2
  <2>5. NoNilDelivered' /\ Answers'
    BY <1>3, <1>6, <2>1, <2>2 DEF NoNilDelivered
  <2> QED
    BY <1>7, <2>2, <2>3, <2>4, <2>5
<1>9. CASE cc_port_transmit
  <2>1. delivered' = delivered /\ chan'["rcv"] = chan["rcv"]
    BY <1>2, <1>9 DEF cc_port_transmit
  <2>2. /\ QueuesOK' /\ fifo'["rcv"] = R
        /\ S.tentative_read_pos < written
        /\ fifo'["snd"].read_pos = S.read_pos /\ fifo'["snd"].write_pos = S.write_pos
        /\ fifo'["snd"].tokens = S.tokens
        /\ \A m \in Messages(chan'["snd"]) :
              \/ m \in Messages(chan["snd"])
              \/ /\ m.seq = S.tentative_read_pos
                 /\ m.data = cc_token_encode(S.tokens[Slot(m.seq, SndSize)])
    BY <1>9, TransmitEffect
  <2>3. ASSUME S.read_pos <= S.tentative_read_pos
        PROVE  cc_token_encode(S.tokens[Slot(S.tentative_read_pos, SndSize)]) # NilData
    <3>1. S.tentative_read_pos \in S.read_pos .. written - 1
      BY <1>1, <2>2, <2>3
    <3>2. S.tokens[Slot(S.tentative_read_pos, SndSize)] # NilData
      BY <1>4, <3>1
    <3>3. S.tokens[Slot(S.tentative_read_pos, SndSize)] # NoToken
      <4>1. Filled(S.tokens, SndSize, S.read_pos, written)
        BY <1>1, Facts DEF WellFormed
      <4> QED
        BY <3>1, <4>1 DEF Filled
    <3> QED
      BY <3>2, <3>3 DEF cc_token_encode
  <2>4. NilTokens'
    <3> HIDE DEF S, R
    <3> QED
      BY <1>1, <1>3, <1>5, <2>2, <2>3 DEF R
  <2>5. SndData' /\ RcvData'
    BY <1>1, <1>4, <2>2
  <2>6. NoNilDelivered' /\ Answers'
    BY <1>3, <1>6, <2>1, <2>2 DEF NoNilDelivered
  <2> QED
    BY <1>7, <2>2, <2>4, <2>5, <2>6
<1>10. CASE proto_parse_token
  <2>1. delivered' = delivered
    BY <1>10 DEF proto_parse_token
  <2>2. PICK m \in Messages(chan["snd"]) :
           /\ m.type = "TOKEN"
           /\ QueuesOK'
           /\ fifo'["snd"] = fifo["snd"]
           /\ fifo'["rcv"].read_pos = R.read_pos
           /\ \A p \in R.read_pos .. R.write_pos - 1 :
                fifo'["rcv"].tokens[Slot(p, RcvSize)] = R.tokens[Slot(p, RcvSize)]
           /\ \/ fifo'["rcv"] = fifo["rcv"]
              \/ /\ R.write_pos <= m.seq
                 /\ fifo'["rcv"].write_pos = R.write_pos + 1
                 /\ fifo'["rcv"].tokens[Slot(R.write_pos, RcvSize)] = m.data
           /\ Messages(chan'["snd"]) \subseteq Messages(chan["snd"])
    BY <1>10, TokenEffect
  <2>3. \/ fifo'["rcv"] = R
        \/ /\ m.data # NilData
           /\ fifo'["rcv"].write_pos = R.write_pos + 1
           /\ fifo'["rcv"].tokens[Slot(R.write_pos, RcvSize)] = m.data
    BY <1>1, <1>5, <2>2
  <2>4. fifo'["rcv"].write_pos \in Nat /\ R.write_pos <= fifo'["rcv"].write_pos
    BY <1>1, <2>3
  <2>5. Answers'
    BY <1>1, <1>3, <1>10, <2>2, TokenAnswer
  <2>6. RcvData'
    BY <1>1, <1>4, <2>2, <2>3
  <2>7. SndData' /\ NilTokens'
    BY <1>1, <1>4, <1>5, <2>2, <2>4
  <2>8. NoNilDelivered'
    BY <1>6, <2>1 DEF NoNilDelivered
  <2> QED
    BY <1>7, <2>2, <2>5, <2>6, <2>7, <2>8
<1>11. CASE proto_parse_token_reply
  <2>1. delivered' = delivered
    BY <1>11 DEF proto_parse_token_reply
  <2>2. /\ QueuesOK'
        /\ fifo'["rcv"] = fifo["rcv"]
        /\ fifo'["snd"].write_pos = S.write_pos
        /\ \/ /\ fifo'["snd"].read_pos = S.read_pos + 1
              /\ \A p \in S.read_pos + 1 .. written - 1 :
                   fifo'["snd"].tokens[Slot(p, SndSize)] = S.tokens[Slot(p, SndSize)]
           \/ /\ fifo'["snd"].read_pos = S.read_pos
              /\ fifo'["snd"].tokens = S.tokens
        /\ \A x \in End : Messages(chan'[x]) \subseteq Messages(chan[x])
    BY <1>11, ReplyEffect
  <2>3. Answers'
    BY <1>3, <1>11, <2>2, ReplyAnswers
  <2>4. SndData'
    BY <1>1, <1>4, <2>2
  <2>5. RcvData' /\ NilTokens'
    BY <1>1, <1>2, <1>4, <1>5, <2>2
  <2>6. NoNilDelivered'
    BY <1>6, <2>1 DEF NoNilDelivered
  <2> QED
    BY <1>7, <2>2, <2>3, <2>4, <2>5, <2>6
<1>12. CASE RcvFire
  <2>1. chan' = chan
    BY <1>12 DEF RcvFire
  <2> DEFINE d == R.tokens[Slot(R.read_pos, RcvSize)]
  <2>2. /\ QueuesOK'
        /\ R.read_pos < R.write_pos
        /\ fifo'["snd"] = fifo["snd"]
        /\ fifo'["rcv"].write_pos = R.write_pos
        /\ fifo'["rcv"].read_pos = R.read_pos + 1
        /\ \A p \in R.read_pos + 1 .. R.write_pos - 1 :
             fifo'["rcv"].tokens[Slot(p, RcvSize)] = R.tokens[Slot(p, RcvSize)]
        /\ delivered' = Append(delivered, d)
    BY <1>12, ConsumeEffect
  <2>3. d # NilData
    BY <1>1, <1>4, <2>2
  <2> HIDE DEF d
  <2>4. NoNilDelivered'
    <3>1. /\ Len(delivered) \in Nat /\ Len(delivered') = Len(delivered) + 1
          /\ \A i \in 1 .. Len(delivered) + 1 :
               delivered'[i] = IF i = Len(delivered) + 1 THEN d ELSE delivered[i]
      BY <1>6, <2>2
    <3> QED
      BY <1>6, <2>3, <3>1 DEF NoNilDelivered
  <2>5. Answers' /\ SndData' /\ NilTokens'
    BY <1>1, <1>3, <1>4, <1>5, <2>1, <2>2
  <2>6. RcvData'
    BY <1>1, <1>4, <2>2
  <2> QED
    BY <1>7, <2>2, <2>4, <2>5, <2>6
<1>13. ASSUME NEW e \in End, Control(e) PROVE WindowInv'
  <2>1. /\ QueuesOK'
        /\ \A x \in End : /\ fifo'[x].write_pos = fifo[x].write_pos
                          /\ fifo'[x].read_pos = fifo[x].read_pos
                          /\ fifo'[x].tokens = fifo[x].tokens
        /\ \A x \in End : \A m \in Messages(chan'[x]) :
             m \in Messages(chan[x]) \/ (m.type # "TOKEN" /\ m.type # "TOKEN_REPLY")
        /\ delivered' = delivered
    BY <1>13, ControlEffect
  <2>2. Covered(chan'["rcv"], S.read_pos, R.write_pos)
    BY <1>1, <1>3, <1>13, ControlAnswers
  <2>3. Answers' /\ SndData' /\ RcvData'
    BY <1>1, <1>2, <1>4, <2>1, <2>2
  <2>4. NilTokens'
    BY <1>1, <1>2, <1>5, <2>1
  <2>5. NoNilDelivered'
    BY <1>6, <2>1 DEF NoNilDelivered
  <2> QED
    BY <1>7, <2>1, <2>3, <2>4, <2>5
<1>14. CASE UNCHANGED vars
  BY <1>14 DEF vars, WindowInv, NoNilDelivered
<1> QED
  BY <1>8, <1>9, <1>10, <1>11, <1>12, <1>13, <1>14 DEF Next

\* The invariant holds in every state.
LEMMA WindowAlways == Spec => [](SafetyInv /\ WindowInv)
<1>1. Init => SafetyInv /\ WindowInv
  BY SafetyInit, WindowInit
<1>2. SafetyInv /\ WindowInv /\ [Next]_vars => SafetyInv' /\ WindowInv'
  BY SafetyNext, WindowNext
<1> QED
  BY <1>1, <1>2, PTL DEF Spec

\* For every size of the queues and any number of tokens under way, the sender
\* frees no more tokens than the receiver has stored, counted by positions:
\* which tokens these are is not said (an overtaken one may be freed unstored).
THEOREM FreedNotAhead == Spec => []FreedOnlyWhenStored
<1>1. SafetyInv /\ WindowInv => FreedOnlyWhenStored
  <2> SUFFICES ASSUME SafetyInv, WindowInv PROVE FreedOnlyWhenStored
    OBVIOUS
  <2>1. /\ fifo["snd"].read_pos \in Nat /\ fifo["rcv"].write_pos \in Nat
        /\ chan["rcv"] \in Seq(Message)
    BY Facts, Positions DEF TypeOK
  <2> QED
    BY <2>1, CoveredBound DEF WindowInv, FreedOnlyWhenStored
<1> QED
  BY <1>1, WindowAlways, PTL

\* For every size of the queues and any number of tokens under way, what is
\* read again from a slot that was freed never reaches the receiving actor.
THEOREM NoNilConsumed == Spec => []NoNilDelivered
<1>1. SafetyInv /\ WindowInv => NoNilDelivered
  BY DEF WindowInv
<1> QED
  BY <1>1, WindowAlways, PTL

(***************************************************************************)
(* One token under way: a sending queue of two slots.                       *)
(***************************************************************************)
\* Initially nothing has been sent, stored or consumed.
LEMMA OneTokenInit == Init => OneTokenInv
<1> SUFFICES ASSUME Init PROVE OneTokenInv
  OBVIOUS
<1>1. \A e \in End : fifo[e].read_pos = 0 /\ fifo[e].write_pos = 0
  BY DEF Init, cc_fifo_init, End, Size
<1>2. \A e \in End : Messages(chan[e]) = {}
  BY EmptyMessages DEF Init
<1>3. Len(delivered) = 0
  BY DEF Init
<1>4. "snd" \in End /\ "rcv" \in End
  BY DEF End
<1>5. \A e \in End : fifo[e].read_pos .. fifo[e].write_pos - 1 = {}
  BY <1>1
<1>6. InOrderDelivery
  BY <1>3 DEF InOrderDelivery
<1>7. \A e \in End : \A p \in fifo[e].read_pos .. fifo[e].write_pos - 1 :
        fifo[e].tokens[Slot(p, fifo[e].size)] = p
  <2> SUFFICES ASSUME NEW e \in End, NEW p \in fifo[e].read_pos .. fifo[e].write_pos - 1
               PROVE  FALSE
    OBVIOUS
  <2> QED
    BY <1>5
<1>8. fifo["snd"].read_pos <= fifo["rcv"].write_pos /\ Len(delivered) = fifo["rcv"].read_pos
  BY <1>1, <1>3, <1>4
<1>9. Messages(chan["snd"]) = {} /\ Messages(chan["rcv"]) = {}
  BY <1>2, <1>4
<1> QED
  BY <1>6, <1>7, <1>8, <1>9 DEF OneTokenInv

\* The sending queue holds at most one token, and the sending actor fires
\* only when it holds none.
LEMMA OneTokenQueue ==
  ASSUME SndSize = 2, SafetyInv
  PROVE  /\ written <= fifo["snd"].read_pos + 1
         /\ SndFire => written = fifo["snd"].read_pos
<1> DEFINE f == fifo["snd"]
<1>1. f \in FifoType(SndSize, Data) /\ WellFormed(f) /\ f.write_pos = written /\ SndSize \in Nat \ {0}
  BY Facts DEF SequenceBounds
<1>2. /\ f.size = 2 /\ written \in Nat /\ f.read_pos \in Nat /\ f.read_pos <= written
  BY Facts, Positions DEF SequenceBounds
<1>3. SndFire => cc_fifo_slots_available(f, 1)
  BY DEF SndFire
<1> HIDE DEF f
<1>4. written - f.read_pos <= f.size - 1
  BY <1>1 DEF WellFormed
<1>5. cc_fifo_slots_available(f, 1) <=> f.write_pos - f.read_pos < SndSize - 1
  BY <1>1, SlotsAvailable
<1>6. SndFire => written - f.read_pos < 1
  BY <1>1, <1>3, <1>5
<1> QED
  BY <1>2, <1>4, <1>6 DEF f

\* Every step keeps the invariant.
LEMMA OneTokenNext ==
  ASSUME SndSize = 2
  PROVE  SafetyInv /\ OneTokenInv /\ [Next]_vars => OneTokenInv'
<1> SUFFICES ASSUME SafetyInv, OneTokenInv, [Next]_vars PROVE OneTokenInv'
  OBVIOUS
<1> DEFINE S == fifo["snd"]
           R == fifo["rcv"]
<1>1. /\ S.read_pos \in Nat /\ R.read_pos \in Nat /\ R.write_pos \in Nat /\ written \in Nat
      /\ S.tentative_read_pos \in Nat
      /\ S.read_pos <= written /\ R.read_pos <= R.write_pos
      /\ S.write_pos = written /\ S.size = SndSize /\ R.size = RcvSize
      /\ S.read_pos <= R.write_pos
  BY Facts, Positions DEF SequenceBounds, OneTokenInv
<1>2. written <= S.read_pos + 1 /\ (SndFire => written = S.read_pos)
  BY OneTokenQueue
<1>3. /\ \A p \in S.read_pos .. written - 1 : S.tokens[Slot(p, SndSize)] = p
      /\ \A p \in R.read_pos .. R.write_pos - 1 : R.tokens[Slot(p, RcvSize)] = p
  BY <1>1, Facts DEF OneTokenInv
<1>4. /\ \A m \in Messages(chan["snd"]) : m.type = "TOKEN" =>
           m.seq <= S.read_pos /\ (m.seq = S.read_pos => m.data = m.seq)
      /\ \A m \in Messages(chan["rcv"]) : m.type = "TOKEN_REPLY" /\ m.ack => m.seq < R.write_pos
  BY DEF OneTokenInv
<1>5. delivered \in Seq(Data) /\ Len(delivered) = R.read_pos /\ InOrderDelivery
  BY Facts DEF OneTokenInv, TypeOK
<1>6. /\ \A m \in Messages(chan["snd"]) : m.type = "TOKEN" => m.seq \in Nat
      /\ \A m \in Messages(chan["rcv"]) : m.type = "TOKEN_REPLY" => m.seq \in Nat
  <2>1. \A e \in End : \A m \in Messages(chan[e]) : m \in Message
    BY Facts, MessageIn
  <2> QED
    BY <2>1, Facts, MessageFields
<1> DEFINE
      Ordered == S.read_pos <= R.write_pos
      SndData == \A p \in S.read_pos .. S.write_pos - 1 : S.tokens[Slot(p, SndSize)] = p
      RcvData == \A p \in R.read_pos .. R.write_pos - 1 : R.tokens[Slot(p, RcvSize)] = p
      Tokens == \A m \in Messages(chan["snd"]) : m.type = "TOKEN" =>
                  m.seq <= S.read_pos /\ (m.seq = S.read_pos => m.data = m.seq)
      Acks == \A m \in Messages(chan["rcv"]) : m.type = "TOKEN_REPLY" /\ m.ack =>
                  m.seq < R.write_pos
      Consumed == Len(delivered) = R.read_pos /\ InOrderDelivery
<1>7. ASSUME QueuesOK', Ordered', SndData', RcvData', Tokens', Acks', Consumed'
      PROVE  OneTokenInv'
  <2>1. (\A e \in End : fifo[e] \in FifoType(Size[e], Data))'
    BY <1>7 DEF QueuesOK
  <2>2. fifo'["snd"].size = SndSize /\ fifo'["rcv"].size = RcvSize
    BY <2>1, Facts, FifoFields
  <2> QED
    BY <1>7, <2>2 DEF OneTokenInv, End
<1>8. CASE SndFire
  <2>1. chan' = chan /\ delivered' = delivered
    BY <1>8 DEF SndFire
  <2>2. /\ QueuesOK' /\ fifo'["rcv"] = R
        /\ fifo'["snd"].read_pos = S.read_pos /\ fifo'["snd"].write_pos = written + 1
        /\ fifo'["snd"].tokens[Slot(written, SndSize)] = written
    BY <1>8, FireEffect
  <2>3. SndData'
    BY <1>1, <1>2, <1>8, <2>2
  <2>4. Ordered' /\ RcvData' /\ Tokens' /\ Acks'
    BY <1>1, <1>3, <1>4, <2>1, <2>2
  <2>5. Consumed'
    BY <1>5, <2>1, <2>2 DEF InOrderDelivery
  <2> QED
    BY <1>7, <2>2, <2>3, <2>4, <2>5
<1>9. CASE cc_port_transmit
  <2>1. delivered' = delivered /\ written' = written
    BY <1>9 DEF cc_port_transmit
  <2>2. /\ QueuesOK' /\ fifo'["rcv"] = R
        /\ S.tentative_read_pos < written
        /\ fifo'["snd"].read_pos = S.read_pos /\ fifo'["snd"].write_pos = S.write_pos
        /\ fifo'["snd"].tokens = S.tokens
        /\ Messages(chan'["rcv"]) = Messages(chan["rcv"])
        /\ \A m \in Messages(chan'["snd"]) :
              \/ m \in Messages(chan["snd"])
              \/ /\ m.seq = S.tentative_read_pos
                 /\ m.data = cc_token_encode(S.tokens[Slot(m.seq, SndSize)])
    BY <1>9, TransmitEffect
  <2>3. Tokens'
    <3>1. S.tentative_read_pos <= S.read_pos
      BY <1>1, <1>2, <2>2
    <3>2. ASSUME S.tentative_read_pos = S.read_pos
          PROVE  cc_token_encode(S.tokens[Slot(S.read_pos, SndSize)]) = S.read_pos
      <4>1. S.tokens[Slot(S.read_pos, SndSize)] = S.read_pos
        BY <1>1, <1>3, <2>2, <3>2
      <4> QED
        BY <1>1, <4>1, ValueAssumption DEF cc_token_encode
    <3> HIDE DEF S
    <3> QED
      BY <1>4, <2>2, <3>1, <3>2 DEF S
  <2>4. Ordered' /\ SndData' /\ RcvData' /\ Acks'
    BY <1>1, <1>3, <1>4, <2>2
  <2>5. Consumed'
    BY <1>5, <2>1, <2>2 DEF InOrderDelivery
  <2> QED
    BY <1>7, <2>2, <2>3, <2>4, <2>5
<1>10. CASE proto_parse_token
  <2>1. delivered' = delivered
    BY <1>10 DEF proto_parse_token
  <2>2. PICK m \in Messages(chan["snd"]) :
           /\ m.type = "TOKEN"
           /\ QueuesOK'
           /\ fifo'["snd"] = fifo["snd"]
           /\ fifo'["rcv"].read_pos = R.read_pos
           /\ \A p \in R.read_pos .. R.write_pos - 1 :
                fifo'["rcv"].tokens[Slot(p, RcvSize)] = R.tokens[Slot(p, RcvSize)]
           /\ \/ fifo'["rcv"] = fifo["rcv"]
              \/ /\ R.write_pos <= m.seq
                 /\ fifo'["rcv"].write_pos = R.write_pos + 1
                 /\ fifo'["rcv"].tokens[Slot(R.write_pos, RcvSize)] = m.data
           /\ Messages(chan'["snd"]) \subseteq Messages(chan["snd"])
           /\ \A y \in Messages(chan'["rcv"]) :
                \/ y \in Messages(chan["rcv"])
                \/ /\ y.type = "TOKEN_REPLY" /\ y.seq = m.seq
                   /\ y.ack => fifo'["rcv"].write_pos > m.seq \/ fifo'["rcv"].write_pos = R.write_pos + 1
    BY <1>10, TokenEffect
  <2>3. /\ m.seq \in Nat /\ m.seq <= S.read_pos /\ m.seq <= R.write_pos
        /\ m.seq = S.read_pos => m.data = m.seq
    BY <1>1, <1>4, <1>6, <2>2
  <2>4. \/ fifo'["rcv"] = R
        \/ /\ R.write_pos = m.seq /\ m.data = m.seq
           /\ fifo'["rcv"].write_pos = R.write_pos + 1
           /\ fifo'["rcv"].tokens[Slot(R.write_pos, RcvSize)] = R.write_pos
    BY <1>1, <2>2, <2>3
  <2>5. fifo'["rcv"].write_pos \in Nat /\ R.write_pos <= fifo'["rcv"].write_pos
    BY <1>1, <2>4
  <2>6. Acks'
    BY <1>1, <1>4, <1>6, <2>2, <2>3, <2>5
  <2>7. RcvData'
    BY <1>1, <1>3, <2>2, <2>4
  <2>8. Ordered' /\ SndData' /\ Tokens'
    BY <1>1, <1>3, <1>4, <2>2, <2>5
  <2>9. Consumed'
    BY <1>5, <2>1, <2>2 DEF InOrderDelivery
  <2> QED
    BY <1>7, <2>2, <2>6, <2>7, <2>8, <2>9
<1>11. CASE proto_parse_token_reply
  <2>1. delivered' = delivered
    BY <1>11 DEF proto_parse_token_reply
  <2>2. PICK m \in Messages(chan["rcv"]) :
           /\ m.type = "TOKEN_REPLY"
           /\ QueuesOK'
           /\ fifo'["rcv"] = fifo["rcv"]
           /\ fifo'["snd"].write_pos = S.write_pos
           /\ \/ /\ m.ack /\ m.seq = S.read_pos
                 /\ fifo'["snd"].read_pos = S.read_pos + 1
                 /\ \A p \in S.read_pos + 1 .. written - 1 :
                      fifo'["snd"].tokens[Slot(p, SndSize)] = S.tokens[Slot(p, SndSize)]
              \/ /\ fifo'["snd"].read_pos = S.read_pos
                 /\ fifo'["snd"].tokens = S.tokens
           /\ \A x \in End : Messages(chan'[x]) \subseteq Messages(chan[x])
    BY <1>11, ReplyEffect
  <2>3. Ordered' /\ SndData' /\ Tokens'
    <3>1. CASE m.ack /\ m.seq = S.read_pos /\ fifo'["snd"].read_pos = S.read_pos + 1
      <4>1. S.read_pos + 1 <= R.write_pos
        BY <1>1, <1>4, <2>2, <3>1
      <4>2. Tokens'
        BY <1>1, <1>4, <1>6, <2>2, <3>1, Facts
      <4>3. SndData'
        BY <1>1, <1>2, <2>2, <3>1
      <4> QED
        BY <2>2, <3>1, <4>1, <4>2, <4>3
    <3>2. CASE fifo'["snd"].read_pos = S.read_pos /\ fifo'["snd"].tokens = S.tokens
      BY <1>1, <1>3, <1>4, <2>2, <3>2, Facts
    <3> QED
      BY <2>2, <3>1, <3>2
  <2>4. RcvData' /\ Acks'
    BY <1>1, <1>3, <1>4, <2>2, Facts
  <2>5. Consumed'
    BY <1>5, <2>1, <2>2 DEF InOrderDelivery
  <2> QED
    BY <1>7, <2>2, <2>3, <2>4, <2>5
<1>12. CASE RcvFire
  <2>1. chan' = chan
    BY <1>12 DEF RcvFire
  <2> DEFINE d == R.tokens[Slot(R.read_pos, RcvSize)]
  <2>2. /\ QueuesOK'
        /\ R.read_pos < R.write_pos
        /\ fifo'["snd"] = fifo["snd"]
        /\ fifo'["rcv"].write_pos = R.write_pos
        /\ fifo'["rcv"].read_pos = R.read_pos + 1
        /\ \A p \in R.read_pos + 1 .. R.write_pos - 1 :
             fifo'["rcv"].tokens[Slot(p, RcvSize)] = R.tokens[Slot(p, RcvSize)]
        /\ d \in Data
        /\ delivered' = Append(delivered, d)
    BY <1>12, ConsumeEffect
  <2>3. d = R.read_pos
    BY <1>1, <1>3, <2>2
  <2> HIDE DEF d
  <2>4. Consumed'
    <3>1. /\ Len(delivered') = Len(delivered) + 1
          /\ \A i \in 1 .. Len(delivered) + 1 :
               delivered'[i] = IF i = Len(delivered) + 1 THEN d ELSE delivered[i]
      BY <1>5, <2>2
    <3>2. InOrderDelivery'
      BY <1>1, <1>5, <2>3, <3>1 DEF InOrderDelivery
    <3> QED
      BY <1>1, <1>5, <2>2, <3>1, <3>2
  <2>5. Ordered' /\ SndData' /\ Tokens' /\ Acks'
    BY <1>1, <1>3, <1>4, <2>1, <2>2
  <2>6. RcvData'
    BY <1>1, <1>3, <2>2
  <2> QED
    BY <1>7, <2>2, <2>4, <2>5, <2>6
<1>13. ASSUME NEW e \in End, Control(e) PROVE OneTokenInv'
  <2>1. /\ QueuesOK'
        /\ \A x \in End : /\ fifo'[x].write_pos = fifo[x].write_pos
                          /\ fifo'[x].read_pos = fifo[x].read_pos
                          /\ fifo'[x].tokens = fifo[x].tokens
        /\ \A x \in End : \A m \in Messages(chan'[x]) :
             m \in Messages(chan[x]) \/ (m.type # "TOKEN" /\ m.type # "TOKEN_REPLY")
        /\ delivered' = delivered
    BY <1>13, ControlEffect
  <2>2. Ordered' /\ SndData' /\ RcvData' /\ Tokens' /\ Acks'
    BY <1>1, <1>3, <1>4, <2>1, Facts
  <2>3. Consumed'
    BY <1>5, <2>1, Facts DEF InOrderDelivery
  <2> QED
    BY <1>7, <2>1, <2>2, <2>3
<1>14. CASE UNCHANGED vars
  BY <1>14 DEF vars, OneTokenInv, InOrderDelivery
<1> QED
  BY <1>8, <1>9, <1>10, <1>11, <1>12, <1>13, <1>14 DEF Next

\* With a sending queue of two slots, the invariant holds in every state.
LEMMA OneTokenAlways ==
  ASSUME SndSize = 2
  PROVE  Spec => [](SafetyInv /\ OneTokenInv)
<1>1. Init => SafetyInv /\ OneTokenInv
  BY SafetyInit, OneTokenInit
<1>2. SafetyInv /\ OneTokenInv /\ [Next]_vars => SafetyInv' /\ OneTokenInv'
  BY SafetyNext, OneTokenNext
<1> QED
  BY <1>1, <1>2, PTL DEF Spec

\* With a sending queue of two slots every token is consumed once and in
\* order, for every size of the receiving queue and any number of tokens,
\* disconnects and lost connections.
THEOREM TokensInOrder ==
  ASSUME SndSize = 2
  PROVE  Spec => []InOrderDelivery
<1>1. SafetyInv /\ OneTokenInv => InOrderDelivery
  BY DEF OneTokenInv
<1> QED
  BY <1>1, OneTokenAlways, PTL

\* With a sending queue of two slots every token that was freed had itself been
\* stored: it has been consumed or is in its place in the receiving queue, for
\* every size of that queue and any number of tokens, refusals and faults.
THEOREM FreedTokensAreStored ==
  ASSUME SndSize = 2
  PROVE  Spec => []FreedIsStored
<1>1. SafetyInv /\ OneTokenInv => FreedIsStored
  <2> SUFFICES ASSUME SafetyInv, OneTokenInv,
                      NEW p \in 0 .. fifo["snd"].read_pos - 1
               PROVE  IF p < Len(delivered) THEN delivered[p + 1] = p
                      ELSE /\ p < fifo["rcv"].write_pos
                           /\ fifo["rcv"].tokens[Slot(p, fifo["rcv"].size)] = p
    BY DEF FreedIsStored
  <2>1. /\ fifo["snd"].read_pos \in Nat /\ fifo["rcv"].read_pos \in Nat
        /\ fifo["rcv"].write_pos \in Nat
        /\ fifo["snd"].read_pos <= fifo["rcv"].write_pos
        /\ Len(delivered) = fifo["rcv"].read_pos
    BY Facts, Positions DEF OneTokenInv
  <2>2. CASE p < Len(delivered)
    <3>1. p + 1 \in 1 .. Len(delivered)
      BY <2>1, <2>2
    <3>2. delivered[p + 1] = (p + 1) - 1
      BY <3>1 DEF OneTokenInv, InOrderDelivery
    <3> QED
      BY <2>1, <2>2, <3>2
  <2>3. CASE ~(p < Len(delivered))
    <3>1. p \in fifo["rcv"].read_pos .. fifo["rcv"].write_pos - 1
      BY <2>1, <2>3
    <3>2. fifo["rcv"].tokens[Slot(p, fifo["rcv"].size)] = p
      BY <3>1 DEF OneTokenInv, End
    <3> QED
      BY <2>1, <2>3, <3>1, <3>2
  <2> QED
    BY <2>2, <2>3
<1> QED
  BY <1>1, OneTokenAlways, PTL

(***************************************************************************)
(* The connection implements the bounded queue.                             *)
(***************************************************************************)
\* A new connection is an empty queue.
LEMMA RefinesInit == Init => Queue!Init
BY DEF Init, Queue!Init

\* Producing a token is Put, consuming one is Get, and every other step of
\* the two runtimes leaves the abstract queue alone.
LEMMA RefinesNext ==
  ASSUME SndSize = 2
  PROVE  SafetyInv /\ OneTokenInv /\ [Next]_vars
           => [Queue!Put \/ Queue!Get]_<<written, delivered>>
<1> SUFFICES ASSUME SafetyInv, OneTokenInv, [Next]_vars
             PROVE  [Queue!Put \/ Queue!Get]_<<written, delivered>>
  OBVIOUS
<1> DEFINE S == fifo["snd"]
           R == fifo["rcv"]
<1>1. /\ S.read_pos \in Nat /\ R.read_pos \in Nat /\ R.write_pos \in Nat /\ written \in Nat
      /\ R.write_pos <= written /\ S.read_pos <= R.write_pos
      /\ RcvSize \in Nat /\ R.size = RcvSize /\ WellFormed(R)
      /\ Len(delivered) = R.read_pos
  BY Facts, Positions DEF OneTokenInv
<1>2. R.write_pos - R.read_pos <= RcvSize - 1
  BY <1>1 DEF WellFormed
<1>3. CASE SndFire
  <2>1. written = S.read_pos /\ written' = written + 1 /\ delivered' = delivered
    BY <1>3, OneTokenQueue DEF SndFire
  <2>2. written - Len(delivered) < RcvSize
    BY <1>1, <1>2, <2>1
  <2> QED
    BY <2>1, <2>2 DEF Queue!Put
<1>4. CASE RcvFire
  <2>1. /\ R.read_pos < R.write_pos
        /\ delivered' = Append(delivered, R.tokens[Slot(R.read_pos, RcvSize)])
        /\ written' = written
    BY <1>4, ConsumeEffect DEF RcvFire
  <2>2. R.tokens[Slot(R.read_pos, RcvSize)] = R.read_pos
    <3>1. R.read_pos \in R.read_pos .. R.write_pos - 1 /\ "rcv" \in End
      BY <1>1, <2>1, Facts
    <3> QED
      BY <1>1, <3>1 DEF OneTokenInv
  <2>3. Len(delivered) < written /\ delivered' = Append(delivered, Len(delivered))
    BY <1>1, <2>1, <2>2
  <2> QED
    BY <2>1, <2>3 DEF Queue!Get
<1>5. CASE cc_port_transmit \/ proto_parse_token \/ proto_parse_token_reply
  BY <1>5 DEF cc_port_transmit, proto_parse_token, proto_parse_token_reply
<1>6. ASSUME NEW e \in End, Control(e) PROVE written' = written /\ delivered' = delivered
  BY <1>6, ControlEffect
<1>7. CASE UNCHANGED vars
  BY <1>7 DEF vars
<1> QED
  BY <1>3, <1>4, <1>5, <1>6, <1>7 DEF Next

\* With a sending queue of two slots the two ports, the tunnel between them
\* and everything that can happen to it are a bounded queue to the actors.
THEOREM ConnectionIsQueue ==
  ASSUME SndSize = 2
  PROVE  Spec => ImplementsQueue
<1> QED
  BY RefinesInit, RefinesNext, OneTokenAlways, PTL DEF Spec, ImplementsQueue, Queue!Spec
=============================================================================
