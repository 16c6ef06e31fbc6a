------------------------- MODULE AppletOrder_proofs -------------------------
(***************************************************************************)
(* Proofs about the order in which the applet's MQTT client publishes and  *)
(* where it ends, for any number of identifiers, publishes and faults, in  *)
(* the behaviours in which no identifier is used again while it is in the  *)
(* store.  They rest on the invariant of Applet_proofs.                    *)
(***************************************************************************)
EXTENDS Applet_proofs

\* The numbers of the publishes rise.
Ascending(s) == \A i, j \in 1..Len(s) : i < j => s[i].n < s[j].n
Rising(log) == \A i, j \in 1..Len(log) : i < j => log[i] < log[j]

\* The store ends with the last publish.
ToLast(store, count) == store # <<>> => store[Len(store)].n = count

LastIs(log, n) == log # <<>> /\ log[Len(log)] = n

\* Publishes, and behind them the acknowledgements, are on their way in the order of
\* their numbers.
Queued(u, d) ==
    /\ \A i, j \in 1..Len(u) :
          u[i].cmd = "publish" /\ u[j].cmd = "publish" /\ i < j => u[i].n < u[j].n
    /\ \A i, j \in 1..Len(d) :
          d[i].cmd = "puback" /\ d[j].cmd = "puback" /\ i < j => d[i].n < d[j].n
    /\ \A i \in 1..Len(u), j \in 1..Len(d) :
          u[i].cmd = "publish" /\ d[j].cmd = "puback" => d[j].n < u[i].n

\* A publish or its acknowledgement is on its way.
Underway(u, d, n) ==
    \/ \E i \in 1..Len(u) : u[i].cmd = "publish" /\ u[i].n = n
    \/ \E i \in 1..Len(d) : d[i].cmd = "puback" /\ d[i].n = n

AllUnderway(store, u, d) == \A i \in 1..Len(store) : Underway(u, d, store[i].n)

\* In the replay the awaited packet is the first of the store.  The others are newer
\* than anything written on this connection; the replay has them before it, or they
\* were published since and are newer than what it has before it.
Pending(store, rest, id, new, log) ==
    /\ id # 0 => store # <<>> /\ store[1].id = id
    /\ \A i \in 1..Len(store) : store[i].id # id =>
          /\ \A k \in 1..Len(log) : log[k] < store[i].n
          /\ \/ \E j \in 1..Len(rest) : rest[j] = store[i]
             \/ store[i].id \in new /\ \A j \in 1..Len(rest) : rest[j].n < store[i].n

OrderInv ==
    /\ Ascending(outgoingStore) /\ Ascending(outStore) /\ ToLast(outgoingStore, published)
    /\ Rising(sent) /\ \A i \in 1..Len(sent) : sent[i] <= published
    /\ ~connected => sent = <<>>
    /\ Queued(up, down)
    /\ storeProcessing => Pending(outgoingStore, outStore, awaited, fresh, sent)
    /\ connected /\ ~storeProcessing /\ link = "open" => AllUnderway(outgoingStore, up, down)
    /\ connected /\ down # <<>> => LastIs(received, down[Len(down)].n)
    /\ outgoingStore = <<>> /\ published > 0 => LastIs(received, published)

\* In a store that ends with the last publish nothing is newer than it.
LEMMA AtMost ==
    ASSUME NEW store \in Seq(Stores), NEW count \in Nat, Ascending(store), ToLast(store, count)
    PROVE  \A i \in 1..Len(store) : store[i].n <= count
<1>1. TAKE i \in 1..Len(store)
<1>2. /\ store # <<>> /\ Len(store) \in 1..Len(store) /\ Len(store) \in Nat
      /\ store[i] \in Stores /\ store[Len(store)] \in Stores
  OBVIOUS
<1>3. store[i].n \in Nat /\ store[Len(store)].n = count
  BY <1>2 DEF Stores, ToLast
<1>4. CASE i = Len(store)
  BY <1>3, <1>4
<1>5. CASE i < Len(store)
  <2>1. store[i].n < store[Len(store)].n
    BY <1>2, <1>5 DEF Ascending
  <2>2. QED
    BY <1>3, <2>1
<1>6. QED
  BY <1>2, <1>4, <1>5

\* The next publish becomes the last of the store.
LEMMA StoreGrows ==
    ASSUME NEW store \in Seq(Stores), NEW count \in Nat, Ascending(store), ToLast(store, count),
           NEW p \in Stores, p.n = count + 1
    PROVE  Ascending(Append(store, p)) /\ ToLast(Append(store, p), count + 1)
<1> DEFINE v == Append(store, p)
<1>1. /\ Len(store) \in Nat /\ Len(v) = Len(store) + 1 /\ v[Len(store) + 1] = p
      /\ \A i \in 1..Len(store) : v[i] = store[i]
  BY AppendFacts
<1>2. \A i \in 1..Len(store) : store[i].n <= count /\ store[i].n \in Nat
  <2>1. \A i \in 1..Len(store) : store[i] \in Stores
    OBVIOUS
  <2>2. \A i \in 1..Len(store) : store[i].n \in Nat
    BY <2>1 DEF Stores
  <2>3. \A i \in 1..Len(store) : store[i].n <= count
    BY AtMost
  <2>4. QED
    BY <2>2, <2>3
<1> HIDE DEF v
<1>3. ASSUME NEW i \in 1..Len(v), NEW j \in 1..Len(v), i < j PROVE v[i].n < v[j].n
  <2>1. i \in 1..Len(store)
    BY <1>1, <1>3
  <2>2. CASE j = Len(store) + 1
    BY <1>1, <1>2, <2>1, <2>2
  <2>3. CASE j # Len(store) + 1
    <3>1. j \in 1..Len(store)
      BY <1>1, <2>3
    <3>2. QED
      BY <1>1, <1>3, <2>1, <3>1 DEF Ascending
  <2>4. QED
    BY <2>2, <2>3
<1>4. ToLast(v, count + 1)
  BY <1>1 DEF ToLast
<1>5. QED
  BY <1>3, <1>4 DEF Ascending, v

\* What is left of a sequence still rises.
LEMMA TailAscends ==
    ASSUME NEW s \in Seq(Stores), NEW t, Ascending(s), Len(t) = Len(s) - 1,
           \A i \in 1..Len(t) : t[i] = s[i + 1]
    PROVE  Ascending(t)
<1>1. Len(s) \in Nat
  OBVIOUS
<1>2. \A i, j \in 1..Len(t) : i < j => i + 1 \in 1..Len(s) /\ j + 1 \in 1..Len(s) /\ i + 1 < j + 1
  BY <1>1
<1>3. QED
  BY <1>2 DEF Ascending

\* The first packet of the store is deleted.
LEMMA FirstDeleted ==
    ASSUME NEW s \in Seq(Stores), s # <<>>, Distinct(s)
    PROVE  /\ Len(del(s, s[1].id)) = Len(s) - 1 /\ Len(s) \in Nat /\ Len(s) > 0
           /\ \A i \in 1..(Len(s) - 1) : del(s, s[1].id)[i] = s[i + 1]
<1> DEFINE k == CHOOSE i \in 1..Len(s) : s[i].id = s[1].id
<1>1. 1 \in 1..Len(s) /\ Len(s) \in Nat /\ Len(s) > 0
  OBVIOUS
<1>2. k \in 1..Len(s) /\ s[k].id = s[1].id
  BY <1>1
<1>3. k = 1
  BY <1>1, <1>2 DEF Distinct
<1>4. del(s, s[1].id) = Without(s, k)
  BY <1>1 DEF del, Without
<1> HIDE DEF k
<1>5. del(s, s[1].id) = Without(s, 1)
  BY <1>3, <1>4
<1>6. /\ Len(Without(s, 1)) = Len(s) - 1
      /\ \A i \in 1..(Len(s) - 1) : Without(s, 1)[i] = IF i < 1 THEN s[i] ELSE s[i + 1]
  BY <1>1, RemoveFacts, Zenon
<1>7. \A i \in 1..(Len(s) - 1) : Without(s, 1)[i] = s[i + 1]
  BY <1>6
<1>8. QED
  BY <1>1, <1>5, <1>6, <1>7

\* What is left then still rises and ends with the last publish.
LEMMA StoreShrinks ==
    ASSUME NEW s \in Seq(Stores), s # <<>>, Distinct(s), Ascending(s), NEW count, ToLast(s, count)
    PROVE  /\ Ascending(del(s, s[1].id)) /\ ToLast(del(s, s[1].id), count)
           /\ \A i \in 1..Len(del(s, s[1].id)) :
                 /\ i + 1 \in 1..Len(s) /\ i + 1 # 1
                 /\ del(s, s[1].id)[i] = s[i + 1] /\ s[1].n < s[i + 1].n
           /\ del(s, s[1].id) = <<>> => s[1].n = count
<1> DEFINE t == del(s, s[1].id)
<1>1. /\ Len(t) = Len(s) - 1 /\ Len(s) \in Nat /\ Len(s) > 0
      /\ \A i \in 1..(Len(s) - 1) : t[i] = s[i + 1]
  BY FirstDeleted
<1> HIDE DEF t
<1>2. Ascending(t)
  BY <1>1, TailAscends
<1>3. \A i \in 1..Len(t) : i + 1 \in 1..Len(s) /\ i + 1 # 1 /\ 1 \in 1..Len(s) /\ 1 < i + 1
  BY <1>1
<1>4. \A i \in 1..Len(t) : t[i] = s[i + 1] /\ s[1].n < s[i + 1].n
  BY <1>1, <1>3 DEF Ascending
<1>5. ToLast(t, count)
  <2>1. SUFFICES ASSUME t # <<>> PROVE t[Len(t)].n = count
    BY DEF ToLast
  <2>2. Len(t) \in 1..(Len(s) - 1) /\ Len(t) + 1 = Len(s)
    <3>1. t \in Seq(Stores)
      BY DelFacts DEF t
    <3>2. Len(t) # 0
      BY <2>1, <3>1, EmptySeq
    <3>3. QED
      BY <1>1, <3>2
  <2>3. QED
    BY <1>1, <2>2 DEF ToLast
<1>6. ASSUME t = <<>> PROVE s[1].n = count
  <2>1. Len(s) = 1
    BY <1>1, <1>6
  <2>2. QED
    BY <2>1 DEF ToLast
<1>7. QED
  BY <1>2, <1>3, <1>4, <1>5, <1>6 DEF t

\* One more number, larger than the others.
LEMMA RisingAppend ==
    ASSUME NEW S \in SUBSET Nat, NEW log \in Seq(S), NEW n \in S, Rising(log),
           \A i \in 1..Len(log) : log[i] < n
    PROVE  /\ Rising(Append(log, n))
           /\ \A i \in 1..Len(Append(log, n)) : Append(log, n)[i] = n \/ \E k \in 1..Len(log) : Append(log, n)[i] = log[k]
<1> DEFINE v == Append(log, n)
<1>1. /\ Len(log) \in Nat /\ Len(v) = Len(log) + 1 /\ v[Len(log) + 1] = n
      /\ \A i \in 1..Len(log) : v[i] = log[i]
  BY AppendFacts
<1> HIDE DEF v
<1>2. \A i \in 1..Len(v) : i \in 1..Len(log) \/ i = Len(log) + 1
  BY <1>1
<1>3. ASSUME NEW i \in 1..Len(v), NEW j \in 1..Len(v), i < j PROVE v[i] < v[j]
  <2>1. i \in 1..Len(log)
    BY <1>1, <1>3
  <2>2. QED
    BY <1>1, <1>2, <1>3, <2>1 DEF Rising
<1>4. \A i \in 1..Len(v) : v[i] = n \/ \E k \in 1..Len(log) : v[i] = log[k]
  BY <1>1, <1>2
<1>5. QED
  BY <1>3, <1>4 DEF Rising, v

-----------------------------------------------------------------------------
(* The packets on their way, in order.                                     *)

\* Everything on its way is older than this publish.
Older(u, d, n) ==
    /\ \A i \in 1..Len(u) : u[i].cmd = "publish" => u[i].n < n
    /\ \A i \in 1..Len(d) : d[i].cmd = "puback" => d[i].n < n

\* Nothing on its way is in order.
LEMMA QuietQueued ==
    ASSUME NEW u, NEW d, Quiet(u, d)
    PROVE  Queued(u, d) /\ \A n : Older(u, d, n)
  BY DEF Quiet, Queued, Older

\* A newer publish follows.
LEMMA QueuedMore ==
    ASSUME NEW u \in Seq(Sending), NEW d, NEW e \in Sending, e.cmd = "publish",
           Queued(u, d), Older(u, d, e.n)
    PROVE  /\ Queued(Append(u, e), d)
           /\ \A n : Underway(u, d, n) \/ n = e.n => Underway(Append(u, e), d, n)
<1> DEFINE v == Append(u, e)
<1>1. /\ Len(u) \in Nat /\ Len(v) = Len(u) + 1 /\ v[Len(u) + 1] = e
      /\ \A i \in 1..Len(u) : v[i] = u[i]
  BY AppendFacts
<1> HIDE DEF v
<1>2. /\ \A i \in 1..Len(v) : i \in 1..Len(u) \/ i = Len(u) + 1
      /\ Len(u) + 1 \in 1..Len(v) /\ \A i \in 1..Len(u) : i \in 1..Len(v)
  BY <1>1
<1>3. ASSUME NEW i \in 1..Len(v), NEW j \in 1..Len(v), i < j,
             v[i].cmd = "publish", v[j].cmd = "publish"
      PROVE  v[i].n < v[j].n
  <2>1. i \in 1..Len(u)
    BY <1>1, <1>3
  <2>2. CASE j \in 1..Len(u)
    BY <1>1, <1>3, <2>1, <2>2 DEF Queued
  <2>3. CASE j = Len(u) + 1
    BY <1>1, <1>3, <2>1, <2>3 DEF Older
  <2>4. QED
    BY <1>2, <2>2, <2>3
<1>4. ASSUME NEW i \in 1..Len(v), NEW j \in 1..Len(d), v[i].cmd = "publish", d[j].cmd = "puback"
      PROVE  d[j].n < v[i].n
  <2>1. CASE i \in 1..Len(u)
    BY <1>1, <1>4, <2>1 DEF Queued
  <2>2. CASE i = Len(u) + 1
    BY <1>1, <1>4, <2>2 DEF Older
  <2>3. QED
    BY <1>2, <2>1, <2>2
<1>5. Queued(v, d)
  BY <1>3, <1>4 DEF Queued
<1>6. \A n : Underway(u, d, n) \/ n = e.n => Underway(v, d, n)
  BY <1>1, <1>2 DEF Underway
<1>7. QED
  BY <1>5, <1>6 DEF v

\* The client takes the oldest acknowledgement.
LEMMA QueuedTaken ==
    ASSUME NEW u \in Seq(Sending), NEW d \in Seq(Answers), d # <<>>, d[1].cmd = "puback",
           Queued(u, d)
    PROVE  /\ Queued(u, Tail(d))
           /\ \A n : Underway(u, d, n) => n = d[1].n \/ (d[1].n < n /\ Underway(u, Tail(d), n))
<1> DEFINE v == Tail(d)
<1>1. /\ Len(d) \in Nat /\ Len(d) > 0 /\ Len(v) = Len(d) - 1
      /\ \A i \in 1..Len(v) : v[i] = d[i + 1] /\ i + 1 \in 2..Len(d)
  BY TailFacts
<1> HIDE DEF v
<1>2. /\ 1 \in 1..Len(d)
      /\ \A i \in 1..Len(v) : i + 1 \in 1..Len(d)
      /\ \A i, j \in 1..Len(v) : i < j => i + 1 < j + 1
      /\ \A i \in 1..Len(d) : i # 1 => i - 1 \in 1..Len(v) /\ 1 < i /\ (i - 1) + 1 = i
  BY <1>1
<1>3. Queued(u, v)
  <2>1. ASSUME NEW i \in 1..Len(v), NEW j \in 1..Len(v), i < j,
               v[i].cmd = "puback", v[j].cmd = "puback"
        PROVE  v[i].n < v[j].n
    <3>1. v[i] = d[i + 1] /\ v[j] = d[j + 1]
      BY <1>1
    <3>2. i + 1 \in 1..Len(d) /\ j + 1 \in 1..Len(d) /\ i + 1 < j + 1
      BY <1>2, <2>1
    <3>3. d[i + 1].n < d[j + 1].n
      BY <2>1, <3>1, <3>2 DEF Queued
    <3>4. QED
      BY <3>1, <3>3
  <2>2. ASSUME NEW i \in 1..Len(u), NEW j \in 1..Len(v), u[i].cmd = "publish", v[j].cmd = "puback"
        PROVE  v[j].n < u[i].n
    <3>1. v[j] = d[j + 1] /\ j + 1 \in 1..Len(d)
      BY <1>1, <1>2
    <3>2. QED
      BY <2>2, <3>1 DEF Queued
  <2>3. QED
    BY <2>1, <2>2 DEF Queued
<1>4. ASSUME NEW n, Underway(u, d, n) PROVE n = d[1].n \/ (d[1].n < n /\ Underway(u, v, n))
  <2>1. CASE \E i \in 1..Len(u) : u[i].cmd = "publish" /\ u[i].n = n
    BY <1>2, <2>1 DEF Queued, Underway
  <2>2. ASSUME NEW i \in 1..Len(d), i # 1, d[i].cmd = "puback", d[i].n = n
        PROVE  d[1].n < n /\ Underway(u, v, n)
    <3>1. v[i - 1] = d[i] /\ i - 1 \in 1..Len(v) /\ 1 < i
      BY <1>1, <1>2, <2>2
    <3>2. QED
      BY <1>2, <2>2, <3>1 DEF Queued, Underway
  <2>3. QED
    BY <1>4, <2>1, <2>2 DEF Underway
<1>5. QED
  BY <1>3, <1>4 DEF v

\* The broker takes the oldest packet.
LEMMA QueuedTail ==
    ASSUME NEW u \in Seq(Sending), NEW d, u # <<>>, Queued(u, d)
    PROVE  /\ Queued(Tail(u), d)
           /\ \A n : Underway(u, d, n) =>
                 Underway(Tail(u), d, n) \/ (u[1].cmd = "publish" /\ n = u[1].n)
           /\ u[1].cmd = "publish" =>
                 /\ \A i \in 1..Len(Tail(u)) : Tail(u)[i].cmd = "publish" => u[1].n < Tail(u)[i].n
                 /\ \A i \in 1..Len(d) : d[i].cmd = "puback" => d[i].n < u[1].n
<1> DEFINE v == Tail(u)
<1>1. /\ Len(u) \in Nat /\ Len(u) > 0 /\ Len(v) = Len(u) - 1
      /\ \A i \in 1..Len(v) : v[i] = u[i + 1] /\ i + 1 \in 2..Len(u)
  BY TailFacts
<1> HIDE DEF v
<1>2. /\ 1 \in 1..Len(u)
      /\ \A i \in 1..Len(v) : i + 1 \in 1..Len(u) /\ 1 < i + 1
      /\ \A i, j \in 1..Len(v) : i < j => i + 1 < j + 1
      /\ \A i \in 1..Len(u) : i # 1 => i - 1 \in 1..Len(v) /\ (i - 1) + 1 = i
  BY <1>1
<1>3. Queued(v, d)
  <2>1. ASSUME NEW i \in 1..Len(v), NEW j \in 1..Len(v), i < j,
               v[i].cmd = "publish", v[j].cmd = "publish"
        PROVE  v[i].n < v[j].n
    <3>1. v[i] = u[i + 1] /\ v[j] = u[j + 1]
      BY <1>1
    <3>2. QED
      BY <1>2, <2>1, <3>1 DEF Queued
  <2>2. ASSUME NEW i \in 1..Len(v), NEW j \in 1..Len(d), v[i].cmd = "publish", d[j].cmd = "puback"
        PROVE  d[j].n < v[i].n
    <3>1. v[i] = u[i + 1]
      BY <1>1
    <3>2. QED
      BY <1>2, <2>2, <3>1 DEF Queued
  <2>3. QED
    BY <2>1, <2>2 DEF Queued
<1>4. ASSUME NEW n, Underway(u, d, n)
      PROVE  Underway(v, d, n) \/ (u[1].cmd = "publish" /\ n = u[1].n)
  <2>1. ASSUME NEW i \in 1..Len(u), i # 1, u[i].cmd = "publish", u[i].n = n
        PROVE  Underway(v, d, n)
    <3>1. v[i - 1] = u[i] /\ i - 1 \in 1..Len(v)
      BY <1>1, <1>2, <2>1
    <3>2. QED
      BY <2>1, <3>1 DEF Underway
  <2>2. QED
    BY <1>4, <2>1 DEF Underway
<1>5. ASSUME u[1].cmd = "publish", NEW i \in 1..Len(v), v[i].cmd = "publish" PROVE u[1].n < v[i].n
  BY <1>1, <1>2, <1>5 DEF Queued
<1>6. u[1].cmd = "publish" => \A i \in 1..Len(d) : d[i].cmd = "puback" => d[i].n < u[1].n
  BY <1>2 DEF Queued
<1>7. QED
  BY <1>3, <1>4, <1>5, <1>6 DEF v

\* It answers behind its other answers.
LEMMA QueuedAnswer ==
    ASSUME NEW u, NEW d \in Seq(Answers), NEW b \in Answers, Queued(u, d),
           b.cmd = "puback" =>
              /\ \A i \in 1..Len(u) : u[i].cmd = "publish" => b.n < u[i].n
              /\ \A i \in 1..Len(d) : d[i].cmd = "puback" => d[i].n < b.n
    PROVE  /\ Queued(u, Append(d, b))
           /\ \A n : Underway(u, d, n) \/ (b.cmd = "puback" /\ n = b.n) =>
                 Underway(u, Append(d, b), n)
           /\ Append(d, b) # <<>> /\ Append(d, b)[Len(Append(d, b))] = b
<1> DEFINE v == Append(d, b)
<1>1. /\ Len(d) \in Nat /\ Len(v) = Len(d) + 1 /\ v[Len(d) + 1] = b
      /\ \A i \in 1..Len(d) : v[i] = d[i]
  BY AppendFacts
<1>a. v # <<>>
  BY <1>1
<1> HIDE DEF v
<1>2. /\ \A i \in 1..Len(v) : i \in 1..Len(d) \/ i = Len(d) + 1
      /\ Len(d) + 1 \in 1..Len(v) /\ \A i \in 1..Len(d) : i \in 1..Len(v)
  BY <1>1
<1>3. ASSUME NEW i \in 1..Len(v), NEW j \in 1..Len(v), i < j,
             v[i].cmd = "puback", v[j].cmd = "puback"
      PROVE  v[i].n < v[j].n
  <2>1. i \in 1..Len(d)
    BY <1>1, <1>3
  <2>2. CASE j \in 1..Len(d)
    BY <1>1, <1>3, <2>1, <2>2 DEF Queued
  <2>3. CASE j = Len(d) + 1
    BY <1>1, <1>3, <2>1, <2>3
  <2>4. QED
    BY <1>2, <2>2, <2>3
<1>4. ASSUME NEW i \in 1..Len(u), NEW j \in 1..Len(v), u[i].cmd = "publish", v[j].cmd = "puback"
      PROVE  v[j].n < u[i].n
  <2>1. CASE j \in 1..Len(d)
    BY <1>1, <1>4, <2>1 DEF Queued
  <2>2. CASE j = Len(d) + 1
    BY <1>1, <1>4, <2>2
  <2>3. QED
    BY <1>2, <2>1, <2>2
<1>5. Queued(u, v)
  BY <1>3, <1>4 DEF Queued
<1>6. \A n : Underway(u, d, n) \/ (b.cmd = "puback" /\ n = b.n) => Underway(u, v, n)
  BY <1>1, <1>2 DEF Underway
<1>7. QED
  BY <1>1, <1>a, <1>5, <1>6 DEF v

-----------------------------------------------------------------------------
(* The steps of the client keep the order.                                 *)

\* The replay goes on with the oldest packet that was not written on this connection.
LEMMA DeliverOrder ==
    ASSUME TypeOK, NEW packets \in Seq(Stores), NEW new, storeDeliver(packets, new),
           Quiet(up, down'), Distinct(packets), Ascending(packets), Rising(sent),
           \A k \in 1..Len(sent) : sent[k] <= published,
           outgoingStore' \in Seq(Stores), Distinct(outgoingStore'), Ascending(outgoingStore'),
           \A i \in 1..Len(outgoingStore') : outgoingStore'[i].n <= published,
           \A i \in 1..Len(packets) : In(outgoingStore', packets[i].id, packets[i].n),
           \A i \in 1..Len(outgoingStore') :
              /\ \A k \in 1..Len(sent) : sent[k] < outgoingStore'[i].n
              /\ \/ \E j \in 1..Len(packets) : packets[j] = outgoingStore'[i]
                 \/ /\ outgoingStore'[i].id \in new
                    /\ \A j \in 1..Len(packets) : packets[j].n < outgoingStore'[i].n
    PROVE  /\ Rising(sent') /\ \A k \in 1..Len(sent') : sent'[k] <= published
           /\ Ascending(outStore') /\ Queued(up', down')
           /\ Pending(outgoingStore', outStore', awaited', fresh', sent')
<1> DEFINE store == outgoingStore'
<1>0. \A i \in 1..Len(store) : store[i] \in Stores /\ store[i].id # 0 /\ store[i].n \in Nat
  <2>1. \A p \in Stores : p.id # 0 /\ p.n \in Nat
    BY DEF Stores
  <2>2. QED
    BY <2>1
<1> HIDE DEF store
<1>1. CASE packets = <<>>
  <2>1. awaited' = 0 /\ outStore' = <<>> /\ fresh' = new /\ up' = up /\ sent' = sent
    BY <1>1 DEF storeDeliver
  <2>2. Pending(store, outStore', awaited', fresh', sent')
    <3>1. ASSUME NEW i \in 1..Len(store)
          PROVE  /\ store[i].id # 0 /\ \A k \in 1..Len(sent) : sent[k] < store[i].n
                 /\ store[i].id \in new
      BY <1>0, <1>1, <3>1 DEF store
    <3>2. \A j \in 1..Len(outStore') : FALSE
      BY <2>1
    <3>3. QED
      BY <2>1, <3>1, <3>2 DEF Pending
  <2>3. Queued(up', down')
    BY <2>1, QuietQueued
  <2>4. Ascending(outStore')
    BY <2>1 DEF Ascending
  <2>5. QED
    BY <2>1, <2>2, <2>3, <2>4 DEF store
<1>2. CASE packets # <<>>
  <2> DEFINE h == Head(packets)
  <2>1. /\ awaited' = h.id /\ outStore' = Tail(packets) /\ fresh' = new \ {h.id}
        /\ sent' = Append(sent, h.n) /\ up' \in {up, Append(up, Publish(h))} /\ h \in Stores
    BY <1>2, DeliverUp DEF storeDeliver
  <2>2. /\ Len(packets) \in Nat /\ Len(packets) > 0 /\ h = packets[1]
        /\ Len(outStore') = Len(packets) - 1
        /\ \A i \in 1..Len(outStore') : outStore'[i] = packets[i + 1] /\ i + 1 \in 2..Len(packets)
    BY <1>2, <2>1, TailFacts
  <2> HIDE DEF h
  <2>3. /\ 1 \in 1..Len(packets)
        /\ \A j \in 1..Len(packets) : j # 1 =>
              1 < j /\ j - 1 \in 1..Len(outStore') /\ (j - 1) + 1 = j
        /\ \A j \in 1..Len(outStore') : j + 1 \in 1..Len(packets)
    BY <2>2
  <2>4. PICK m \in 1..Len(store) : store[m].id = h.id /\ store[m].n = h.n
    BY <2>2, <2>3 DEF In, store
  <2>5. \A i \in 1..Len(store) : store[i].id = h.id => i = m
    BY <2>4 DEF Distinct, store
  <2>6. ASSUME NEW i \in 1..Len(store), store[i].id # h.id
        PROVE  /\ h.n < store[i].n /\ \A k \in 1..Len(sent) : sent[k] < store[i].n
               /\ \/ \E j \in 1..Len(outStore') : outStore'[j] = store[i]
                  \/ store[i].id \in fresh' /\ \A j \in 1..Len(outStore') : outStore'[j].n < store[i].n
    <3>1. \A k \in 1..Len(sent) : sent[k] < store[i].n
      BY <2>6 DEF store
    <3>2. CASE \E j \in 1..Len(packets) : packets[j] = store[i]
      <4>1. PICK j \in 1..Len(packets) : packets[j] = store[i]
        BY <3>2
      <4>2. j # 1
        BY <2>2, <2>6, <4>1
      <4>3. h.n < store[i].n
        BY <2>2, <2>3, <4>1, <4>2 DEF Ascending
      <4>4. outStore'[j - 1] = store[i] /\ j - 1 \in 1..Len(outStore')
        BY <2>2, <2>3, <4>1, <4>2
      <4>5. QED
        BY <3>1, <4>3, <4>4
    <3>3. CASE store[i].id \in new /\ \A j \in 1..Len(packets) : packets[j].n < store[i].n
      <4>1. store[i].id \in fresh'
        BY <2>1, <2>6, <3>3
      <4>2. \A j \in 1..Len(outStore') : outStore'[j].n < store[i].n
        BY <2>2, <2>3, <3>3
      <4>3. QED
        BY <2>2, <2>3, <3>1, <3>3, <4>1, <4>2
    <3>4. QED
      BY <3>2, <3>3 DEF store
  <2>7. m = 1
    <3>1. 1 \in 1..Len(store) /\ (m # 1 => 1 < m)
      <4>1. Len(store) \in Nat
        BY DEF store
      <4>2. QED
        BY <4>1
    <3>2. SUFFICES ASSUME m # 1 PROVE FALSE
      OBVIOUS
    <3>3. store[1].n < h.n
      BY <2>4, <3>1, <3>2 DEF Ascending, store
    <3>4. h.n < store[1].n
      BY <2>5, <2>6, <3>1, <3>2
    <3>5. store[1].n \in Nat /\ h.n \in Nat
      BY <1>0, <2>4, <3>1
    <3>6. QED
      BY <3>3, <3>4, <3>5
  <2>8. /\ Rising(sent')
        /\ \A k \in 1..Len(sent') : sent'[k] = h.n \/ \E l \in 1..Len(sent) : sent'[k] = sent[l]
    <3> DEFINE S == 1..MaxPublish
    <3>1. sent \in Seq(S) /\ h.n \in S /\ S \in SUBSET Nat
      <4>1. sent \in Seq(S)
        BY DEF TypeOK
      <4>2. h.n \in S
        BY <2>1 DEF Stores
      <4>3. S \in SUBSET Nat
        BY BoundAssumption
      <4>4. QED
        BY <4>1, <4>2, <4>3
    <3>2. \A k \in 1..Len(sent) : sent[k] < h.n
      BY <2>4 DEF store
    <3> HIDE DEF S
    <3>3. QED
      BY <2>1, <3>1, <3>2, RisingAppend
  <2>9. \A k \in 1..Len(sent') : sent'[k] <= published
    <3>1. h.n <= published
      BY <2>4 DEF store
    <3>2. QED
      BY <2>8, <3>1
  <2>10. Pending(store, outStore', awaited', fresh', sent')
    <3>1. store # <<>> /\ store[1].id = awaited'
      <4>1. Len(store) \in Nat /\ Len(store) # 0
        BY DEF store
      <4>2. QED
        BY <2>1, <2>4, <2>7, <4>1
    <3>2. ASSUME NEW i \in 1..Len(store), store[i].id # awaited'
          PROVE  /\ \A k \in 1..Len(sent') : sent'[k] < store[i].n
                 /\ \/ \E j \in 1..Len(outStore') : outStore'[j] = store[i]
                    \/ /\ store[i].id \in fresh'
                       /\ \A j \in 1..Len(outStore') : outStore'[j].n < store[i].n
      <4>1. store[i].id # h.id
        BY <2>1, <3>2
      <4>2. \A k \in 1..Len(sent') : sent'[k] < store[i].n
        BY <2>6, <2>8, <4>1
      <4>3. QED
        BY <2>6, <4>1, <4>2
    <3>3. QED
      BY <3>1, <3>2, Zenon DEF Pending
  <2>11. Ascending(outStore')
    BY <2>2, TailAscends
  <2>12. Queued(up', down')
    <3>1. CASE up' = up
      BY <3>1, QuietQueued
    <3>2. CASE up' = Append(up, Publish(h))
      <4>1. Publish(h) \in Sending /\ Publish(h).cmd = "publish" /\ up \in Seq(Sending)
        BY <2>1, PublishPacket, Lengths
      <4>2. Queued(up, down') /\ Older(up, down', Publish(h).n)
        BY QuietQueued
      <4>3. QED
        BY <3>2, <4>1, <4>2, QueuedMore
    <3>3. QED
      BY <2>1, <3>1, <3>2
  <2>13. QED
    BY <2>8, <2>9, <2>10, <2>11, <2>12 DEF store
<1>3. QED
  BY <1>1, <1>2

\* What a publish writes while the client is connected and not in the replay.
LEMMA PublishSends ==
    ASSUME TypeOK, Publishing
    PROVE  /\ SendsNow => sent' = Append(sent, New.n)
           /\ SendsNow /\ link = "open" => up' = Append(up, Publish(New))
           /\ ~SendsNow => sent' = sent
           /\ fresh' = IF storeProcessing THEN fresh \cup {New.id} ELSE fresh
<1>1. /\ up' = IF SendsNow THEN Written(<<Publish(New)>>) ELSE up
      /\ sent' = IF SendsNow THEN Append(sent, New.n) ELSE sent
      /\ fresh' = IF storeProcessing THEN fresh \cup {New.id} ELSE fresh
  BY DEF Publishing, publish, New
<1>2. New \in Stores /\ up \in Seq(Sending)
  BY PublishTypes, Lengths DEF Publishing
<1>3. up \o <<Publish(New)>> = Append(up, Publish(New))
  BY <1>2, PublishPacket, OneMore
<1>4. QED
  BY <1>1, <1>3 DEF Written

\* The page publishes.
LEMMA OrderPublish ==
    ASSUME TypeOK, PhaseInv, SafeInv, OrderInv, Publishing, ~reused'
    PROVE  OrderInv'
<1>1. /\ New \in Stores /\ up' \in {up, Append(up, Publish(New))} /\ published' = published + 1
      /\ (storeProcessing \/ ~connected => up' = up)
      /\ UNCHANGED <<connected, storeProcessing, outStore, awaited, link, down, received>>
  BY PublishTypes DEF Publishing
<1>2. New.id = nextId /\ New.n = published + 1 /\ published \in Nat
  BY DEF New, TypeOK
<1>3. \A i \in 1..Len(outgoingStore) : outgoingStore[i].id # New.id
  <2>1. reused' = (reused \/ \E i \in 1..Len(outgoingStore) : outgoingStore[i].id = New.id)
    BY DEF Publishing, publish, New
  <2>2. QED
    BY <2>1, Zenon
<1>4. outgoingStore \in Seq(Stores) /\ up \in Seq(Sending) /\ sent \in Seq(1..MaxPublish)
  BY DEF TypeOK, Stores, Sending
<1>5. outgoingStore' = Append(outgoingStore, New)
  BY <1>3 DEF Publishing, publish, Kept, New, put
<1>6. /\ SendsNow => sent' = Append(sent, New.n)
      /\ SendsNow /\ link = "open" => up' = Append(up, Publish(New))
      /\ ~SendsNow => sent' = sent
      /\ fresh' = IF storeProcessing THEN fresh \cup {New.id} ELSE fresh
  BY PublishSends
<1> DEFINE p == New
           e == Publish(New)
<1>7. /\ e \in Sending /\ e.cmd = "publish" /\ e.id = p.id /\ e.n = p.n
      /\ p \in Stores /\ p.n = published + 1 /\ p.id # 0 /\ p.n \in 1..MaxPublish
  BY <1>1, <1>2, PublishPacket DEF Stores
<1> HIDE DEF p, e
<1>8. Ascending(outgoingStore) /\ ToLast(outgoingStore, published)
  BY DEF OrderInv
<1>9. Ascending(outgoingStore') /\ ToLast(outgoingStore', published')
  BY <1>1, <1>2, <1>4, <1>5, <1>7, <1>8, StoreGrows DEF p
<1>10. /\ \A i \in 1..Len(outgoingStore) : outgoingStore[i].n < p.n
       /\ \A id, n : In(outgoingStore, id, n) => n < p.n
  <2>1. \A i \in 1..Len(outgoingStore) : outgoingStore[i] \in Stores
    BY <1>4
  <2>2. \A i \in 1..Len(outgoingStore) : outgoingStore[i].n \in Nat
    BY <2>1 DEF Stores
  <2>3. \A i \in 1..Len(outgoingStore) : outgoingStore[i].n <= published
    BY <1>2, <1>4, <1>8, AtMost
  <2>4. \A i \in 1..Len(outgoingStore) : outgoingStore[i].n < p.n
    BY <1>2, <1>7, <2>2, <2>3
  <2>5. QED
    BY <2>4 DEF In
<1>11. /\ \A k \in 1..Len(sent) : sent[k] \in Nat /\ sent[k] < p.n
  <2>1. \A k \in 1..Len(sent) : sent[k] \in 1..MaxPublish
    <3> DEFINE S == 1..MaxPublish
    <3>1. sent \in Seq(S)
      BY <1>4
    <3> HIDE DEF S
    <3>2. \A k \in 1..Len(sent) : sent[k] \in S
      BY <3>1
    <3>3. QED
      BY <3>2 DEF S
  <2>2. \A k \in 1..Len(sent) : sent[k] <= published
    BY DEF OrderInv
  <2>3. QED
    BY <1>2, <1>7, <2>1, <2>2, BoundAssumption
<1>12. Rising(sent') /\ \A k \in 1..Len(sent') : sent'[k] <= published'
  <2>1. CASE SendsNow
    <3> DEFINE S == 1..MaxPublish
    <3>1. S \in SUBSET Nat /\ sent \in Seq(S) /\ p.n \in S
      BY <1>4, <1>7, BoundAssumption
    <3> HIDE DEF S
    <3>2. sent' = Append(sent, p.n) /\ Rising(sent)
      BY <1>6, <2>1 DEF OrderInv, p
    <3>3. /\ Rising(sent')
          /\ \A k \in 1..Len(sent') : sent'[k] = p.n \/ \E l \in 1..Len(sent) : sent'[k] = sent[l]
      BY <1>11, <3>1, <3>2, RisingAppend
    <3>4. \A k \in 1..Len(sent') : sent'[k] <= published'
      BY <1>1, <1>2, <1>7, <1>11, <3>3
    <3>5. QED
      BY <3>3, <3>4
  <2>2. CASE ~SendsNow
    BY <1>1, <1>2, <1>6, <1>7, <1>11, <2>2 DEF OrderInv
  <2>3. QED
    BY <2>1, <2>2
<1>13. ~connected' => sent' = <<>>
  BY <1>1, <1>6 DEF OrderInv, SendsNow
<1>14. Older(up, down, e.n)
  BY <1>7, <1>10 DEF Older, SafeInv, Backed
<1>15. Queued(up', down')
  <2>1. Queued(up, down)
    BY DEF OrderInv
  <2>2. Queued(Append(up, e), down)
    BY <1>4, <1>7, <1>14, <2>1, QueuedMore
  <2>3. QED
    BY <1>1, <2>1, <2>2 DEF e
<1>a. /\ Len(outgoingStore) \in Nat /\ Len(outgoingStore') = Len(outgoingStore) + 1
      /\ outgoingStore'[Len(outgoingStore) + 1] = p
      /\ \A i \in 1..Len(outgoingStore) : outgoingStore'[i] = outgoingStore[i]
  BY <1>1, <1>4, <1>5, AppendFacts DEF p
<1>b. \A i \in 1..Len(outgoingStore') : i \in 1..Len(outgoingStore) \/ i = Len(outgoingStore) + 1
  BY <1>a
<1>16. ASSUME storeProcessing PROVE Pending(outgoingStore', outStore', awaited', fresh', sent')
  <2>1. sent' = sent /\ fresh' = fresh \cup {p.id} /\ outStore' = outStore /\ awaited' = awaited
    BY <1>1, <1>6, <1>16 DEF SendsNow, p
  <2>2. Pending(outgoingStore, outStore, awaited, fresh, sent)
    BY <1>16 DEF OrderInv
  <2>3. awaited # 0 => outgoingStore' # <<>> /\ outgoingStore'[1].id = awaited
    <3>1. outgoingStore # <<>> => 1 \in 1..Len(outgoingStore)
      BY <1>4
    <3>2. outgoingStore' # <<>>
      BY <1>a
    <3>3. QED
      BY <1>a, <2>2, <3>1, <3>2 DEF Pending
  <2>4. ASSUME NEW i \in 1..Len(outgoingStore'), outgoingStore'[i].id # awaited
        PROVE  /\ \A k \in 1..Len(sent) : sent[k] < outgoingStore'[i].n
               /\ \/ \E j \in 1..Len(outStore) : outStore[j] = outgoingStore'[i]
                  \/ /\ outgoingStore'[i].id \in fresh'
                     /\ \A j \in 1..Len(outStore) : outStore[j].n < outgoingStore'[i].n
    <3>1. CASE i \in 1..Len(outgoingStore)
      BY <1>a, <2>1, <2>2, <2>4, <3>1 DEF Pending
    <3>2. CASE i = Len(outgoingStore) + 1
      <4>1. \A j \in 1..Len(outStore) : outStore[j].n < p.n
        BY <1>10 DEF SafeInv, Rest
      <4>2. QED
        BY <1>a, <1>11, <2>1, <3>2, <4>1
    <3>3. QED
      BY <1>b, <3>1, <3>2
  <2>5. QED
    BY <2>1, <2>3, <2>4 DEF Pending
<1>17. ASSUME connected, ~storeProcessing, link = "open"
       PROVE  AllUnderway(outgoingStore', up', down')
  <2>1. up' = Append(up, e) /\ AllUnderway(outgoingStore, up, down) /\ Queued(up, down)
    BY <1>6, <1>17 DEF OrderInv, SendsNow, e
  <2>2. \A n : Underway(up, down, n) \/ n = e.n => Underway(up', down, n)
    BY <1>4, <1>7, <1>14, <2>1, QueuedMore
  <2>3. QED
    BY <1>1, <1>7, <1>a, <1>b, <2>1, <2>2 DEF AllUnderway
<1>18. outgoingStore' # <<>>
  BY <1>a
<1>19. /\ Ascending(outStore')
       /\ connected' /\ down' # <<>> => LastIs(received', down'[Len(down')].n)
  BY <1>1 DEF OrderInv
<1>20. QED
  BY <1>1, <1>9, <1>12, <1>13, <1>15, <1>16, <1>17, <1>18, <1>19 DEF OrderInv

\* The acknowledgement that comes next is for the first packet of the store.
LEMMA AckFirst ==
    ASSUME TypeOK, PhaseInv, SafeInv, OrderInv, link = "open", down # <<>>, down[1].cmd = "puback"
    PROVE  /\ connected /\ outgoingStore # <<>>
           /\ outgoingStore[1].id = down[1].id /\ outgoingStore[1].n = down[1].n
           /\ storeProcessing => awaited = down[1].id /\ Only(up, down, down[1].id)
<1> DEFINE s == outgoingStore
           a == down[1]
<1>1. up \in Seq(Sending) /\ down \in Seq(Answers) /\ 1 \in 1..Len(down)
  BY Lengths, TailFacts
<1>2. connected
  BY <1>1 DEF PhaseInv
<1>3. PICK k \in 1..Len(s) : s[k].id = a.id /\ s[k].n = a.n
  BY <1>1 DEF SafeInv, Backed, In
<1>4. /\ 1 \in 1..Len(s) /\ s # <<>> /\ (k # 1 => 1 < k)
      /\ s[k] \in Stores /\ s[1] \in Stores
  <2>1. s \in Seq(Stores)
    BY DEF TypeOK, Stores
  <2> HIDE DEF s
  <2>2. QED
    BY <1>3, <2>1
<1>5. s[k].id # 0 /\ s[k].n \in Nat /\ s[1].n \in Nat
  BY <1>4 DEF Stores
<1>6. CASE storeProcessing
  <2>1. a.id = awaited /\ Only(up, down, a.id)
    BY <1>1, <1>6 DEF SafeInv, Only
  <2>2. s[1].id = a.id
    BY <1>3, <1>5, <1>6, <2>1 DEF OrderInv, Pending
  <2>3. k = 1
    BY <1>3, <1>4, <2>2 DEF SafeInv, Distinct
  <2>4. QED
    BY <1>2, <1>3, <1>4, <2>1, <2>3
<1>7. CASE ~storeProcessing
  <2>1. Underway(up, down, s[1].n) /\ Queued(up, down)
    BY <1>2, <1>4, <1>7 DEF OrderInv, AllUnderway
  <2>2. s[1].n = a.n \/ a.n < s[1].n
    BY <1>1, <2>1, QueuedTaken
  <2>3. k # 1 => s[1].n < s[k].n
    BY <1>4 DEF OrderInv, Ascending
  <2>4. k = 1
    BY <1>3, <1>5, <2>2, <2>3
  <2>5. QED
    BY <1>2, <1>3, <1>4, <1>7, <2>4
<1>8. QED
  BY <1>6, <1>7

\* The acknowledgement is handled.
LEMMA OrderAck ==
    ASSUME TypeOK, PhaseInv, SafeInv, OrderInv, handleAck
    PROVE  OrderInv'
<1>1. /\ link = "open" /\ down # <<>> /\ Head(down).cmd = "puback" /\ down' = Tail(down)
      /\ outgoingStore' = del(outgoingStore, Head(down).id)
      /\ UNCHANGED <<connected, storeProcessing, received, published, link>>
  BY DEF handleAck
<1>2. /\ Head(down) = down[1] /\ 1 \in 1..Len(down) /\ down \in Seq(Answers) /\ up \in Seq(Sending)
      /\ outgoingStore \in Seq(Stores) /\ outStore \in Seq(Stores) /\ published \in Nat
  BY <1>1, DownFacts, Lengths DEF TypeOK, Stores
<1>3. /\ connected /\ outgoingStore # <<>>
      /\ outgoingStore[1].id = down[1].id /\ outgoingStore[1].n = down[1].n
      /\ storeProcessing => awaited = down[1].id /\ Only(up, down, down[1].id)
  BY <1>1, <1>2, AckFirst
<1> DEFINE s == outgoingStore
           t == outgoingStore'
<1>4. t = del(s, s[1].id) /\ Distinct(s) /\ Ascending(s) /\ ToLast(s, published)
  BY <1>1, <1>2, <1>3 DEF SafeInv, OrderInv
<1>5. /\ Ascending(t) /\ ToLast(t, published)
      /\ \A i \in 1..Len(t) : /\ i + 1 \in 1..Len(s) /\ i + 1 # 1
                              /\ t[i] = s[i + 1] /\ s[1].n < s[i + 1].n
      /\ t = <<>> => s[1].n = published
  BY <1>2, <1>3, <1>4, StoreShrinks
<1>6. t \in Seq(Stores) /\ Distinct(t)
  BY <1>2, <1>4, DelFacts
<1>7. /\ \A k, n : k # down[1].id /\ In(s, k, n) => In(t, k, n)
      /\ Only(up, down, down[1].id) => Quiet(up, down')
  <2>1. /\ AllKept(published, received, s) /\ Backed(up, down, s, received) /\ Unique(up, down)
    BY DEF SafeInv
  <2>2. t = del(s, down[1].id) /\ down[1].cmd = "puback" /\ down' = Tail(down)
    BY <1>1, <1>2
  <2>3. QED
    BY <1>1, <1>2, <1>4, <2>1, <2>2, Acknowledged
<1>8. /\ Queued(up, down')
      /\ \A n : Underway(up, down, n) => n = down[1].n \/ (down[1].n < n /\ Underway(up, down', n))
  <2>1. Queued(up, down) /\ down[1].cmd = "puback"
    BY <1>1, <1>2 DEF OrderInv
  <2>2. QED
    BY <1>1, <1>2, <2>1, QueuedTaken
<1>a. /\ Len(down) \in Nat /\ Len(down') = Len(down) - 1
      /\ \A i \in 1..Len(down') : down'[i] = down[i + 1]
      /\ Len(down) \in 1..Len(down)
  BY <1>1, <1>2, DownFacts
<1>9. LastIs(received, down[Len(down)].n)
  BY <1>1, <1>3 DEF OrderInv
<1>10. ASSUME down' # <<>> PROVE LastIs(received', down'[Len(down')].n)
  <2>1. Len(down') # 0
    <3>1. down' \in Seq(Answers)
      BY <1>1, <1>2, TailFacts
    <3>2. QED
      BY <1>10, <3>1, EmptySeq
  <2>2. Len(down') \in 1..Len(down') /\ Len(down') + 1 = Len(down)
    BY <1>a, <2>1
  <2>3. down'[Len(down')] = down[Len(down)]
    BY <1>a, <2>2
  <2>4. QED
    BY <1>1, <1>9, <2>3
<1>11. ASSUME t = <<>> PROVE LastIs(received', published)
  <2>1. down[Len(down)].cmd = "puback"
    <3>1. down[Len(down)] \in Answers /\ down[Len(down)].cmd # "connack"
      BY <1>2, <1>3, <1>a DEF PhaseInv
    <3>2. QED
      BY <3>1 DEF Answers, Packets
  <2>2. PICK k \in 1..Len(s) : s[k].n = down[Len(down)].n
    BY <1>a, <2>1 DEF SafeInv, Backed, In
  <2>3. k = 1
    <3>1. Len(t) = Len(s) - 1 /\ Len(s) \in Nat
      BY <1>2, <1>3, <1>4, FirstDeleted
    <3>2. Len(t) = 0
      BY <1>11
    <3>3. Len(s) = 1 /\ k \in 1..Len(s)
      BY <2>2, <3>1, <3>2
    <3>4. QED
      BY <3>3
  <2>4. QED
    BY <1>1, <1>5, <1>9, <1>11, <2>2, <2>3
<1>12. CASE storeProcessing
  <2>1. storeDeliver(outStore, fresh) /\ Quiet(up, down') /\ awaited = down[1].id
    BY <1>2, <1>3, <1>7, <1>12 DEF handleAck
  <2>2. /\ Distinct(outStore) /\ Ascending(outStore) /\ Rising(sent)
        /\ \A k \in 1..Len(sent) : sent[k] <= published
        /\ \A i \in 1..Len(outStore) : In(t, outStore[i].id, outStore[i].n)
    BY <1>7, <2>1 DEF SafeInv, Rest, OrderInv
  <2>3. \A i \in 1..Len(t) : t[i].n <= published
    BY <1>2, <1>5, <1>6, AtMost
  <2>4. ASSUME NEW i \in 1..Len(t)
        PROVE  /\ \A k \in 1..Len(sent) : sent[k] < t[i].n
               /\ \/ \E j \in 1..Len(outStore) : outStore[j] = t[i]
                  \/ /\ t[i].id \in fresh
                     /\ \A j \in 1..Len(outStore) : outStore[j].n < t[i].n
    <3>1. t[i] = s[i + 1] /\ i + 1 \in 1..Len(s) /\ i + 1 # 1 /\ 1 \in 1..Len(s)
      BY <1>2, <1>3, <1>5
    <3>2. s[i + 1].id # awaited
      BY <1>3, <1>4, <2>1, <3>1 DEF Distinct
    <3>3. QED
      BY <1>12, <3>1, <3>2 DEF OrderInv, Pending
  <2> HIDE DEF t
  <2>5. /\ Rising(sent') /\ \A k \in 1..Len(sent') : sent'[k] <= published
        /\ Ascending(outStore') /\ Queued(up', down')
        /\ Pending(outgoingStore', outStore', awaited', fresh', sent')
    BY <1>2, <1>5, <1>6, <2>1, <2>2, <2>3, <2>4, DeliverOrder DEF t
  <2>6. QED
    BY <1>1, <1>3, <1>5, <1>10, <1>11, <1>12, <2>5 DEF OrderInv, t
<1>13. CASE ~storeProcessing
  <2>1. awaited = 0 /\ outStore = <<>>
    BY <1>13 DEF PhaseInv
  <2>2. down[1].id # 0
    <3>1. s[1] \in Stores
      BY <1>2, <1>3
    <3>2. QED
      BY <1>3, <3>1 DEF Stores
  <2>3. UNCHANGED <<outStore, awaited, up, sent>>
    BY <1>2, <2>1, <2>2 DEF handleAck
  <2>4. AllUnderway(t, up, down')
    <3>1. AllUnderway(s, up, down)
      BY <1>1, <1>3, <1>13 DEF OrderInv
    <3>2. ASSUME NEW i \in 1..Len(t) PROVE Underway(up, down', t[i].n)
      <4>1. i + 1 \in 1..Len(s) /\ t[i] = s[i + 1] /\ down[1].n < s[i + 1].n
        BY <1>3, <1>5
      <4>2. down[1].n \in Nat /\ s[i + 1].n \in Nat
        <5>1. s[1] \in Stores /\ s[i + 1] \in Stores
          BY <1>2, <1>3, <4>1
        <5>2. QED
          BY <1>3, <5>1 DEF Stores
      <4>3. s[i + 1].n # down[1].n
        BY <4>1, <4>2
      <4>4. QED
        BY <1>8, <3>1, <4>1, <4>3 DEF AllUnderway
    <3>3. QED
      BY <3>2 DEF AllUnderway
  <2>5. QED
    BY <1>1, <1>3, <1>5, <1>8, <1>10, <1>11, <1>13, <2>3, <2>4 DEF OrderInv
<1>14. QED
  BY <1>12, <1>13

\* The last number of a log is the one that was added.
LEMMA LastAdded ==
    ASSUME NEW log \in Seq(Nat), NEW n \in Nat
    PROVE  LastIs(Append(log, n), n)
<1>1. Len(log) \in Nat /\ Len(Append(log, n)) = Len(log) + 1 /\ Append(log, n)[Len(log) + 1] = n
  BY AppendFacts
<1>2. QED
  BY <1>1 DEF LastIs

\* The broker takes a packet and answers it.
LEMMA OrderBroker ==
    ASSUME TypeOK, PhaseInv, SafeInv, OrderInv, Broker
    PROVE  OrderInv'
<1> DEFINE p == Head(up)
           a == Packet("connack")
           b == [p EXCEPT !.cmd = "puback"]
<1>1. /\ up # <<>> /\ up' = Tail(up)
      /\ UNCHANGED <<connected, outgoingStore, storeProcessing, outStore, awaited, fresh,
                     published, sent, link>>
      /\ p.cmd = "publish" => received' = Append(received, p.n) /\ down' = Append(down, b)
      /\ p.cmd # "publish" => received' = received
      /\ p.cmd = "connect" => down' = Append(down, a)
      /\ p.cmd = "subscribe" => down' = down
  BY DEF Broker, client
<1>2. up \in Seq(Sending) /\ down \in Seq(Answers) /\ received \in Seq(Nat)
  BY Lengths DEF TypeOK
<1>3. p = up[1] /\ p \in Sending /\ 1 \in 1..Len(up)
  BY <1>1, <1>2, TailFacts
<1>4. /\ p.n \in Nat /\ b \in Answers /\ b.cmd = "puback" /\ b.n = p.n
      /\ a \in Answers /\ a.cmd = "connack"
  BY <1>3 DEF Sending, Answers, Packets, Packet
<1>5. p.cmd \in {"connect", "subscribe", "publish"}
  BY <1>3 DEF Sending, Packets
<1> HIDE DEF p, a, b
<1>6. /\ Queued(up', down)
      /\ \A n : Underway(up, down, n) => Underway(up', down, n) \/ (p.cmd = "publish" /\ n = p.n)
      /\ p.cmd = "publish" =>
            /\ \A i \in 1..Len(up') : up'[i].cmd = "publish" => p.n < up'[i].n
            /\ \A i \in 1..Len(down) : down[i].cmd = "puback" => down[i].n < p.n
  <2>1. Queued(up, down)
    BY DEF OrderInv
  <2>2. QED
    BY <1>1, <1>2, <1>3, <2>1, QueuedTail
<1>7. CASE p.cmd = "publish"
  <2>1. down' = Append(down, b) /\ received' = Append(received, p.n)
    BY <1>1, <1>7
  <2>2. /\ Queued(up', Append(down, b))
        /\ \A n : Underway(up', down, n) \/ n = b.n => Underway(up', Append(down, b), n)
        /\ Append(down, b)[Len(Append(down, b))] = b
    BY <1>2, <1>4, <1>6, <1>7, QueuedAnswer
  <2>3. \A n : Underway(up, down, n) => Underway(up', down', n)
    BY <1>4, <1>6, <2>1, <2>2
  <2>4. LastIs(received', p.n)
    BY <1>2, <1>4, <2>1, LastAdded
  <2>5. outgoingStore # <<>>
    <3>1. In(outgoingStore, up[1].id, up[1].n)
      BY <1>3, <1>7 DEF SafeInv, Backed
    <3>2. PICK j : j \in 1..Len(outgoingStore)
      BY <3>1 DEF In
    <3>3. QED
      BY <3>2
  <2>6. connected /\ ~storeProcessing /\ link = "open" => AllUnderway(outgoingStore, up', down')
    BY <2>3 DEF OrderInv, AllUnderway
  <2>7. Queued(up', down') /\ LastIs(received', down'[Len(down')].n)
    BY <1>4, <2>1, <2>2, <2>4
  <2>8. QED
    BY <1>1, <2>5, <2>6, <2>7 DEF OrderInv
<1>8. CASE p.cmd = "subscribe"
  <2>1. down' = down /\ received' = received
    BY <1>1, <1>8
  <2>2. connected /\ ~storeProcessing /\ link = "open" => AllUnderway(outgoingStore, up', down')
    BY <1>6, <1>8, <2>1 DEF OrderInv, AllUnderway
  <2>3. QED
    BY <1>1, <1>6, <2>1, <2>2 DEF OrderInv
<1>9. CASE p.cmd = "connect"
  <2>1. ~connected /\ ~storeProcessing
    BY <1>3, <1>9 DEF PhaseInv
  <2>2. down' = Append(down, a) /\ received' = received
    BY <1>1, <1>9
  <2>3. Queued(up', Append(down, a))
    BY <1>2, <1>4, <1>6, QueuedAnswer
  <2>4. QED
    BY <1>1, <2>1, <2>2, <2>3 DEF OrderInv
<1>10. QED
  BY <1>5, <1>7, <1>8, <1>9

\* Every step keeps the order.
LEMMA OrderStep ==
    ASSUME TypeOK, PhaseInv, SafeInv, OrderInv, [Next]_vars, ~reused'
    PROVE  OrderInv'
<1>0. /\ outgoingStore \in Seq(Stores) /\ published \in Nat
      /\ Ascending(outgoingStore) /\ Distinct(outgoingStore) /\ ToLast(outgoingStore, published)
  <2>1. outgoingStore \in Seq(Stores) /\ published \in Nat
    BY DEF TypeOK, Stores
  <2>2. Ascending(outgoingStore) /\ ToLast(outgoingStore, published)
    BY DEF OrderInv
  <2>3. Distinct(outgoingStore)
    BY DEF SafeInv
  <2>4. QED
    BY <2>1, <2>2, <2>3
<1>a. /\ \A i \in 1..Len(outgoingStore) : outgoingStore[i].n <= published
      /\ \A i \in 1..Len(outgoingStore) : outgoingStore[i].id # 0
      /\ \A i \in 1..Len(outgoingStore) :
            In(outgoingStore, outgoingStore[i].id, outgoingStore[i].n)
  <2>1. \A i \in 1..Len(outgoingStore) : outgoingStore[i] \in Stores
    BY <1>0
  <2>2. \A i \in 1..Len(outgoingStore) : outgoingStore[i].id # 0
    BY <2>1 DEF Stores
  <2>3. \A i \in 1..Len(outgoingStore) : outgoingStore[i].n <= published
    BY <1>0, AtMost
  <2>4. QED
    BY <2>2, <2>3, Self
<1>1. CASE Publishing
  BY <1>1, OrderPublish
<1>2. CASE Closing
  <2>1. /\ up' = <<>> /\ down' = <<>> /\ outStore' = <<>> /\ sent' = <<>>
        /\ connected' = FALSE /\ storeProcessing' = FALSE
        /\ UNCHANGED <<outgoingStore, received, published>>
    BY <1>2 DEF Closing, Close
  <2>2. Queued(up', down') /\ Ascending(outStore') /\ Rising(sent')
    BY <2>1 DEF Queued, Ascending, Rising
  <2>3. QED
    BY SMTT(30), <2>1, <2>2 DEF OrderInv
<1>3. CASE onHide
  BY <1>3 DEF onHide, OrderInv, client, net
<1>4. CASE onConnect
  <2>1. /\ down # <<>> /\ Head(down).cmd = "connack" /\ down' = Tail(down)
        /\ storeDeliver(outgoingStore, {}) /\ UNCHANGED <<outgoingStore, received, published>>
        /\ connected' = TRUE /\ storeProcessing' = TRUE
    BY <1>4 DEF onConnect
  <2>2. up = <<>> /\ down' = <<>>
    BY <2>1, DownPhase
  <2>3. Quiet(up, down')
    BY <2>2 DEF Quiet
  <2>4. sent = <<>>
    <3>1. Head(down) = down[1] /\ 1 \in 1..Len(down)
      BY <2>1, DownFacts
    <3>2. ~connected
      BY <2>1, <3>1 DEF PhaseInv
    <3>3. QED
      BY <3>2 DEF OrderInv
  <2>5. /\ Rising(sent) /\ \A k \in 1..Len(sent) : FALSE
    BY <2>4 DEF Rising
  <2>6. /\ Rising(sent') /\ \A k \in 1..Len(sent') : sent'[k] <= published
        /\ Ascending(outStore') /\ Queued(up', down')
        /\ Pending(outgoingStore', outStore', awaited', fresh', sent')
    <3>1. outgoingStore' = outgoingStore
      BY <2>1
    <3>2. QED
      BY <1>0, <1>a, <2>1, <2>3, <2>5, <3>1, DeliverOrder
  <2>7. QED
    BY <2>1, <2>2, <2>6 DEF OrderInv
<1>5. CASE handleAck
  BY <1>5, OrderAck
<1>6. CASE EndOfStore
  <2>1. /\ storeProcessing /\ awaited = 0 /\ outStore = <<>> /\ down' = down
        /\ UNCHANGED <<connected, outgoingStore, received, published, link>>
    BY <1>6 DEF EndOfStore
  <2>2. connected /\ Pending(outgoingStore, <<>>, 0, fresh, sent)
    BY <2>1 DEF PhaseInv, OrderInv
  <2>3. Quiet(up, down')
    <3>1. Backed(up, down, outgoingStore, received) /\ Only(up, down, 0)
      BY <2>1 DEF SafeInv
    <3>2. QED
      BY <2>1, <3>1, NothingAwaited
  <2>4. \A i \in 1..Len(outgoingStore) : /\ outgoingStore[i].id \in fresh
                                         /\ \A k \in 1..Len(sent) : sent[k] < outgoingStore[i].n
    <3>1. \A j \in 1..Len(<<>>) : FALSE
      OBVIOUS
    <3>2. QED
      BY <1>a, <2>2, <3>1 DEF Pending
  <2>5. CASE fresh = {}
    <3>1. up' = Written(queue) /\ UNCHANGED <<outStore, awaited, sent>> /\ storeProcessing' = FALSE
      BY <1>6, <2>5 DEF EndOfStore
    <3>2. Queued(up', down')
      <4>1. Quiet(up', down')
        BY <2>1, <2>3, <3>1, QueueQuiet
      <4>2. QED
        BY <4>1, QuietQueued
    <3>3. AllUnderway(outgoingStore', up', down')
      BY <2>1, <2>4, <2>5 DEF AllUnderway
    <3>4. QED
      BY <2>1, <3>1, <3>2, <3>3 DEF OrderInv
  <2>6. CASE fresh # {}
    <3>1. storeDeliver(outgoingStore, fresh) /\ storeProcessing' = storeProcessing
      BY <1>6, <2>6, Zenon DEF EndOfStore
    <3>2. outgoingStore' = outgoingStore
      BY <2>1
    <3>3. Rising(sent) /\ \A k \in 1..Len(sent) : sent[k] <= published
      BY DEF OrderInv
    <3>4. /\ Rising(sent') /\ \A k \in 1..Len(sent') : sent'[k] <= published
          /\ Ascending(outStore') /\ Queued(up', down')
          /\ Pending(outgoingStore', outStore', awaited', fresh', sent')
      BY <1>0, <1>a, <2>3, <2>4, <3>1, <3>2, <3>3, DeliverOrder
    <3>5. QED
      BY <2>1, <2>2, <3>1, <3>4 DEF OrderInv
  <2>7. QED
    BY <2>5, <2>6
<1>7. CASE reconnect
  <2>1. /\ ~connected /\ up' = <<Packet("connect")>> /\ down' = <<>>
        /\ UNCHANGED <<connected, outgoingStore, received, published, outStore, sent,
                       storeProcessing>>
    BY <1>7 DEF reconnect, PhaseInv
  <2>2. ~storeProcessing
    BY <2>1 DEF PhaseInv
  <2>3. Queued(up', down')
    <3>1. Quiet(up', down')
      BY <2>1 DEF Quiet, Packet
    <3>2. QED
      BY <3>1, QuietQueued
  <2>4. QED
    BY <2>1, <2>2, <2>3 DEF OrderInv
<1>8. CASE Broker
  BY <1>8, OrderBroker
<1>9. CASE Die
  <2>1. /\ up' = <<>> /\ down' = <<>> /\ link' = "dead"
        /\ UNCHANGED <<connected, outgoingStore, received, published, outStore, awaited, fresh,
                       sent, storeProcessing>>
    BY <1>9 DEF Die, client
  <2>2. Queued(up', down')
    BY <2>1 DEF Queued
  <2>3. QED
    BY <2>1, <2>2 DEF OrderInv
<1>10. CASE UNCHANGED vars
  BY <1>10 DEF vars, client, net, OrderInv
<1>11. QED
  BY <1>1, <1>2, <1>3, <1>4, <1>5, <1>6, <1>7, <1>8, <1>9, <1>10, Cases

\* The order, in every reachable state.
LEMMA OrderInductive == Spec => [](~reused => OrderInv)
<1>1. Init => OrderInv
  <2> SUFFICES ASSUME Init PROVE OrderInv
    OBVIOUS
  <2>1. /\ outgoingStore = <<>> /\ outStore = <<>> /\ sent = <<>> /\ down = <<>> /\ published = 0
        /\ connected = FALSE /\ storeProcessing = FALSE
    BY DEF Init
  <2>2. Queued(up, down)
    <3>1. Quiet(up, down)
      BY DEF Init, Quiet, Packet
    <3>2. QED
      BY <3>1, QuietQueued
  <2>3. Ascending(<<>>) /\ Rising(<<>>)
    BY DEF Ascending, Rising
  <2>4. QED
    BY <2>1, <2>2, <2>3 DEF OrderInv, ToLast
<1>2. IInv /\ (~reused => OrderInv) /\ [Next]_vars => (~reused => OrderInv)'
  BY OrderStep, ReusedStays DEF IInv
<1>3. QED
  BY <1>1, <1>2, Invariant, PTL DEF Spec

\* For any number of identifiers, publishes and broken connections: as long as no
\* identifier is reused too early, a connection carries every publish once at most and
\* in the order the page made them; nothing that is published during the replay
\* overtakes it or is sent by both.
THEOREM OrderIsKept == Spec => []InOrderOnce
<1>1. (~reused => OrderInv) => InOrderOnce
  BY DEF OrderInv, Rising, InOrderOnce
<1>2. QED
  BY <1>1, OrderInductive, PTL

\* Under the same condition: once the store is empty, the last publish that the broker
\* has received is the last one the page made, whatever a replay repeated before.
THEOREM LastWordCounts == Spec => []SettledOnLast
<1>1. (~reused => OrderInv) => SettledOnLast
  BY DEF OrderInv, LastIs, SettledOnLast
<1>2. QED
  BY <1>1, OrderInductive, PTL

=============================================================================
