-------------------------- MODULE AsnDecoder_proofs --------------------------
(***************************************************************************)
(* The linked list of the ASN.1 decoder is sound, and with its mutex and   *)
(* its processor thread it keeps the promise of AsnLog, for every number   *)
(* of producers, nodes and messages.                                       *)
(***************************************************************************)
EXTENDS AsnDecoder, FiniteSetTheorems, TLAPS

-----------------------------------------------------------------------------
(* Sequences: the facts cited below.                                       *)

\* Sequences are functions on 1..n.
LEMMA SeqIs == \A S : Seq(S) = UNION {[1..n -> S] : n \in Nat}
  OBVIOUS

\* The items of a sequence are in its set.
LEMMA SeqItem ==
  ASSUME NEW S, NEW q \in Seq(S), NEW i \in 1..Len(q)
  PROVE  q[i] \in S
  OBVIOUS

\* A sequence is a function on its positions.
LEMMA SeqDomain ==
  ASSUME NEW S, NEW q \in Seq(S)
  PROVE  Len(q) \in Nat /\ q \in [1..Len(q) -> S] /\ DOMAIN q = 1..Len(q)
  OBVIOUS

\* The empty sequence is the one of length 0.
LEMMA NoItems ==
  ASSUME NEW S
  PROVE  /\ <<>> \in Seq(S) /\ Len(<<>>) = 0
         /\ \A q \in Seq(S) : q # <<>> => Len(q) \in Nat \ {0}
  OBVIOUS

\* Sequences with the same items are equal.
LEMMA SameItems ==
  ASSUME NEW S, NEW q \in Seq(S), NEW r \in Seq(S), Len(q) = Len(r), \A i \in 1..Len(q) : q[i] = r[i]
  PROVE  q = r
  OBVIOUS

\* The items of a concatenation.
LEMMA Joined ==
  ASSUME NEW S, NEW q \in Seq(S), NEW r \in Seq(S)
  PROVE  /\ q \o r \in Seq(S) /\ Len(q \o r) = Len(q) + Len(r)
         /\ \A i \in 1..(Len(q) + Len(r)) : (q \o r)[i] = IF i <= Len(q) THEN q[i] ELSE r[i - Len(q)]
  OBVIOUS

\* The items of a part of a sequence.
LEMMA Part ==
  ASSUME NEW S, NEW q, NEW m \in Int, NEW n \in Int, \A i \in m..n : q[i] \in S
  PROVE  /\ SubSeq(q, m, n) \in Seq(S)
         /\ Len(SubSeq(q, m, n)) = IF m <= n THEN n - m + 1 ELSE 0
         /\ \A i \in 1..(n - m + 1) : SubSeq(q, m, n)[i] = q[m + i - 1]
  OBVIOUS

\* The whole of a sequence, and nothing of it, as parts of it.
LEMMA WholePart ==
  ASSUME NEW S, NEW q \in Seq(S)
  PROVE  SubSeq(q, 1, Len(q)) = q
  OBVIOUS

LEMMA NoPart ==
  ASSUME NEW q, NEW m \in Int, NEW n \in Int, n < m
  PROVE  SubSeq(q, m, n) = <<>>
  OBVIOUS

\* The items of a sequence that was appended to.
LEMMA Appended ==
  ASSUME NEW S, NEW q \in Seq(S), NEW e \in S
  PROVE  /\ Append(q, e) \in Seq(S) /\ Append(q, e) # <<>> /\ Len(Append(q, e)) = Len(q) + 1
         /\ \A i \in 1..Len(q) : Append(q, e)[i] = q[i]
         /\ Append(q, e)[Len(q) + 1] = e
  OBVIOUS

\* The head and the tail of a sequence.
LEMMA Popped ==
  ASSUME NEW S, NEW q \in Seq(S), q # <<>>
  PROVE  /\ Head(q) \in S /\ Tail(q) \in Seq(S) /\ Len(Tail(q)) = Len(q) - 1
         /\ \A i \in 1..Len(Tail(q)) : Tail(q)[i] = q[i + 1]
  OBVIOUS

\* The list without its first i nodes.
LEMMA SuffixItems ==
  ASSUME NEW s \in Seq(Nodes), NEW i \in 1..Len(s)
  PROVE  SubSeq(s, i, Len(s)) = <<s[i]>> \o SubSeq(s, i + 1, Len(s))
<1>1. Len(s) \in Nat /\ \A j \in 1..Len(s) : s[j] \in Nodes
  BY SeqDomain, SeqItem, Zenon
<1> PICK n \in Nat : n = Len(s)
  BY <1>1, Zenon
<1> DEFINE a == SubSeq(s, i, n)
           b == SubSeq(s, i + 1, n)
           c == <<s[i]>> \o b
<1>2. i \in 1..n /\ i \in Int /\ i + 1 \in Int /\ n \in Int
      /\ (\A j \in i..n : s[j] \in Nodes) /\ (\A j \in (i + 1)..n : s[j] \in Nodes)
  BY <1>1
<1>3. /\ a \in Seq(Nodes) /\ Len(a) = IF i <= n THEN n - i + 1 ELSE 0
      /\ \A j \in 1 .. n - i + 1 : a[j] = s[i + j - 1]
  BY <1>2, Part
<1>4. /\ b \in Seq(Nodes) /\ Len(b) = IF i + 1 <= n THEN n - (i + 1) + 1 ELSE 0
      /\ \A j \in 1 .. n - (i + 1) + 1 : b[j] = s[i + 1 + j - 1]
  BY <1>2, Part
<1> HIDE DEF a, b
<1>5. Len(a) = n - i + 1 /\ Len(b) = n - i /\ n - (i + 1) + 1 = n - i
  BY <1>2, <1>3, <1>4
<1>6. <<s[i]>> \in Seq(Nodes) /\ Len(<<s[i]>>) = 1 /\ <<s[i]>>[1] = s[i]
  BY <1>1
<1>7. /\ c \in Seq(Nodes) /\ Len(c) = 1 + (n - i)
      /\ \A j \in 1 .. 1 + (n - i) : c[j] = IF j <= 1 THEN <<s[i]>>[j] ELSE b[j - 1]
  <2>1. PICK h \in Seq(Nodes) : h = <<s[i]>> /\ Len(h) = 1
    BY <1>6, Zenon
  <2>2. /\ h \o b \in Seq(Nodes) /\ Len(h \o b) = Len(h) + Len(b)
        /\ \A j \in 1 .. Len(h) + Len(b) : (h \o b)[j] = IF j <= Len(h) THEN h[j] ELSE b[j - Len(h)]
    BY <1>4, <2>1, Joined
  <2>3. c = h \o b
    BY <2>1, Zenon
  <2> HIDE DEF c
  <2> QED
    BY <1>5, <2>1, <2>2, <2>3, Zenon
<1> HIDE DEF c
<1>8. ASSUME NEW j \in 1..(n - i + 1) PROVE a[j] = c[j]
  <2>1. a[j] = s[i + j - 1] /\ c[j] = IF j <= 1 THEN <<s[i]>>[j] ELSE b[j - 1]
    BY <1>2, <1>3, <1>7
  <2>2. CASE j = 1
    BY <1>2, <1>6, <2>1, <2>2
  <2>3. CASE j # 1
    <3>1. j - 1 \in 1..(n - i) /\ ~(j <= 1) /\ i + 1 + (j - 1) - 1 = i + j - 1
      BY <1>2, <2>3
    <3>2. b[j - 1] = s[i + 1 + (j - 1) - 1]
      BY <1>4, <1>5, <3>1, Zenon
    <3> QED
      BY <2>1, <3>1, <3>2, Zenon
  <2> QED
    BY <2>2, <2>3, Zenon
<1>9. Len(a) = Len(c) /\ \A j \in 1..Len(a) : a[j] = c[j]
  BY <1>2, <1>5, <1>7, <1>8
<1>10. a = c
  BY <1>3, <1>7, <1>9, SameItems, Zenon
<1> QED
  BY <1>10, Zenon DEF a, b, c

-----------------------------------------------------------------------------
(* The inductive invariant.                                                *)

\* s are the nodes that first leads to.
Chain(s) ==
  /\ s \in Seq(DOMAIN heap)
  /\ \A i, j \in 1..Len(s) : s[i] = s[j] => i = j
  /\ \A i \in 1..Len(s) : heap[s[i]].next = IF i = Len(s) THEN NULL ELSE s[i + 1]
  /\ first = IF s = <<>> THEN NULL ELSE s[1]

\* last is the last of them, except between the two assignments of queue_push
\* and of queue_pop.
Ends(s) ==
  /\ \A p \in Producers : producer[p].pc = "last" =>
       /\ s # <<>> /\ producer[p].node = s[Len(s)]
       /\ last = IF Len(s) = 1 THEN NULL ELSE s[Len(s) - 1]
  /\ processor.pc = "unlock" => s = <<>> \/ last = s[Len(s)]
  /\ processor.pc # "unlock" /\ (\A p \in Producers : producer[p].pc # "last")
     => last = IF s = <<>> THEN NULL ELSE s[Len(s)]

\* None of them is in the hands of a thread.
Apart(s) ==
  \A i \in 1..Len(s) :
    /\ processor.node # s[i]
    /\ \A p \in Producers : producer[p].pc \in {"lock", "link"} => producer[p].node # s[i]

\* The mutex is held exactly in the critical sections.
Locks ==
  /\ \A p \in Producers : (mux = p) <=> producer[p].pc \in {"link", "last"}
  /\ (mux = "processor") <=> processor.pc \in {"take", "unlock"}
  /\ (mux = "terminator") <=> terminator = "close"

\* The nodes in the hands of the threads are allocated and different.
Owned ==
  /\ \A p \in Producers :
       /\ producer[p].pc = "idle" => producer[p].node = NULL
       /\ producer[p].pc # "idle" =>
            /\ producer[p].node \in DOMAIN heap /\ heap[producer[p].node].next = NULL
            /\ producer[p].node # processor.node /\ producer[p].pushed < PushBound
  /\ \A p, q \in Producers : p # q /\ producer[p].node = producer[q].node => producer[p].node = NULL
  /\ processor.pc \in {"unlock", "header", "body"} => processor.node \in DOMAIN heap
  /\ processor.pc \in {"none", "pop", "take"} => processor.node = NULL

\* The file is there for the processor.
Opened ==
  /\ init \in {"open", "failed"} => file = "NULL"
  /\ init = "thread" => file = "open"
  /\ init = "done" => file # "NULL"
  /\ processor.pc # "none" => init = "done"
  /\ terminator # "idle" => init \in {"done", "failed"}

Threads == Locks /\ Owned /\ Opened
Linked(s) == Chain(s) /\ Ends(s) /\ Apart(s)
AInv == TypeOK /\ Threads /\ \E s \in Seq(Nodes) : Linked(s)

\* Initially there is nothing.
LEMMA InitAInv == Init => AInv
<1> SUFFICES ASSUME Init PROVE AInv
  BY Zenon
<1>1. DOMAIN heap = {} /\ \A n \in DOMAIN heap : FALSE
  BY Zenon DEF Init
<1>2. producer = [p \in Producers |-> [pc |-> "idle", node |-> NULL, pushed |-> 0]]
      /\ processor = [pc |-> "none", node |-> NULL]
  BY Zenon DEF Init
<1>3. TypeOK
  BY <1>1, <1>2, AsnAssumption DEF Init, TypeOK, Pcs
<1>4. Threads
  BY <1>2, AsnAssumption DEF Init, Threads, Locks, Owned, Opened
<1>5. <<>> \in Seq(Nodes) /\ <<>> \in Seq(DOMAIN heap) /\ Len(<<>>) = 0
  OBVIOUS
<1>6. Linked(<<>>)
  BY <1>2, <1>5 DEF Init, Linked, Chain, Ends, Apart
<1> QED
  BY <1>3, <1>4, <1>5, <1>6, Zenon DEF AInv

\* What a step that leaves the list, the nodes and the producers alone keeps.
LEMMA SameList ==
  ASSUME NEW s \in Seq(Nodes), Linked(s), UNCHANGED <<first, last, heap>>,
         processor'.node = processor.node,
         (processor'.pc = "unlock") <=> (processor.pc = "unlock"),
         \A p \in Producers : /\ producer'[p].node = producer[p].node
                              /\ (producer'[p].pc = "last") <=> (producer[p].pc = "last")
                              /\ producer'[p].pc \in {"lock", "link"} => producer[p].pc \in {"lock", "link"}
  PROVE  Linked(s)'
<1>1. Chain(s)'
  BY Zenon DEF Linked, Chain
<1>2. Ends(s)'
  BY Zenon DEF Linked, Ends
<1>3. Apart(s)'
  BY Zenon DEF Linked, Apart
<1> QED
  BY <1>1, <1>2, <1>3, Zenon DEF Linked

\* init_asn_decoder and terminate_asn_decoder do not touch the list.
LEMMA InitTermAInv ==
  ASSUME AInv, InitOpen \/ InitThread \/ TermLock \/ TermClose
  PROVE  AInv'
<1> PICK s \in Seq(Nodes) : Linked(s)
  BY Zenon DEF AInv
<1>1. TypeOK /\ Threads
  BY Zenon DEF AInv
<1>2. CASE InitOpen
  <2>1. TypeOK' /\ Threads'
    BY <1>1, <1>2 DEF InitOpen, TypeOK, Threads, Locks, Owned, Opened, Pcs
  <2>2. Linked(s)'
    BY <1>2, SameList, Zenon DEF InitOpen
  <2> QED
    BY <2>1, <2>2, Zenon DEF AInv
<1>3. CASE InitThread
  <2>1. processor.pc = "none" /\ processor.node = NULL /\ terminator = "idle"
    BY <1>1, <1>3, Zenon DEF InitThread, TypeOK, Threads, Owned, Opened
  <2>2. processor'.pc \in {"none", "pop"} /\ processor'.node = NULL
        /\ (processor'.pc = "pop" => init' = "done")
        /\ processor' \in [pc : {"none", "pop"}, node : Nodes \cup {NULL}]
    BY <1>1, <1>3, <2>1, Zenon DEF InitThread, TypeOK
  <2>3. /\ UNCHANGED <<first, last, mux, heap, producer, terminator, log>>
        /\ \/ init' = "done" /\ file' = "open"
           \/ init' = "failed" /\ file' = "NULL"
    BY <1>1, <1>3, Zenon DEF InitThread, Threads, Opened
  <2>4. TypeOK'
    BY <1>1, <2>2, <2>3 DEF TypeOK
  <2>5. Threads'
    <3>1. Locks'
      BY <1>1, <2>1, <2>2, <2>3, Zenon DEF Threads, Locks
    <3>2. Owned'
      BY <1>1, <2>1, <2>2, <2>3, Zenon DEF Threads, Owned
    <3>3. Opened'
      BY <2>1, <2>2, <2>3, Zenon DEF Opened
    <3> QED
      BY <3>1, <3>2, <3>3, Zenon DEF Threads
  <2>6. Linked(s)'
    BY <2>1, <2>2, <2>3, SameList, Zenon
  <2> QED
    BY <2>4, <2>5, <2>6, Zenon DEF AInv
<1>4. CASE TermLock
  <2>1. TypeOK'
    BY <1>1, <1>4, Zenon DEF TermLock, TypeOK
  <2>2. Threads'
    BY <1>1, <1>4, AsnAssumption DEF TermLock, Threads, Locks, Owned, Opened
  <2>3. Linked(s)'
    BY <1>4, SameList, Zenon DEF TermLock
  <2> QED
    BY <2>1, <2>2, <2>3 DEF AInv
<1>5. CASE TermClose
  <2>1. TypeOK'
    BY <1>1, <1>5, Zenon DEF TermClose, TypeOK
  <2>2. mux = "terminator" /\ init \in {"done", "failed"} /\ init' = init
    BY <1>1, <1>5, Zenon DEF TermClose, Threads, Locks, Opened
  <2>3. Threads'
    BY <1>1, <1>5, <2>2, AsnAssumption DEF TermClose, Threads, Locks, Owned, Opened
  <2>4. Linked(s)'
    BY <1>5, SameList, Zenon DEF TermClose
  <2> QED
    BY <2>1, <2>3, <2>4 DEF AInv
<1> QED
  BY <1>2, <1>3, <1>4, <1>5, Zenon

-----------------------------------------------------------------------------
(* push_asn_payload.                                                       *)

\* A sequence of nodes whose elements are allocated.
LEMMA NodeSeq ==
  ASSUME NEW S, NEW s \in Seq(Nodes)
  PROVE  s \in Seq(S) <=> \A i \in 1..Len(s) : s[i] \in S
<1>1. Len(s) \in Nat /\ s = [i \in 1..Len(s) |-> s[i]]
  BY SeqDomain, Zenon
<1> QED
  BY <1>1, SeqIs, SeqItem

\* The nodes of the list are allocated.
LEMMA ListedNodes ==
  ASSUME TypeOK, NEW s \in Seq(Nodes), Chain(s)
  PROVE  /\ Len(s) \in Nat
         /\ \A i \in 1..Len(s) : s[i] \in DOMAIN heap /\ s[i] \in Nodes /\ s[i] # NULL
         /\ s # <<>> => 1 \in 1..Len(s) /\ Len(s) \in 1..Len(s)
         /\ s = <<>> => Len(s) = 0
<1>1. Len(s) \in Nat /\ (s = <<>> <=> Len(s) = 0)
  BY SeqDomain, NoItems, Zenon
<1>2. \A i \in 1..Len(s) : s[i] \in DOMAIN heap /\ s[i] \in Nodes
  BY NodeSeq, SeqItem, Zenon DEF Chain
<1>3. s # <<>> => 1 \in 1..Len(s) /\ Len(s) \in 1..Len(s)
  BY <1>1
<1> QED
  BY <1>1, <1>2, <1>3, AsnAssumption, Zenon

\* The check of the file and the allocation.
LEMMA PushAllocAInv ==
  ASSUME TypeOK, Threads, NEW s \in Seq(Nodes), Linked(s), NEW p \in Producers, PushAlloc(p)
  PROVE  /\ TypeOK' /\ Threads' /\ Linked(s)'
         /\ \A x \in DOMAIN heap : x \in DOMAIN heap' /\ heap'[x] = heap[x]
<1> DEFINE Goal == /\ TypeOK' /\ Threads' /\ Linked(s)'
                   /\ \A x \in DOMAIN heap : x \in DOMAIN heap' /\ heap'[x] = heap[x]
<1>1. TypeOK /\ Threads /\ Locks /\ Owned /\ Opened /\ Chain(s) /\ Ends(s) /\ Apart(s)
  BY Zenon DEF Threads, Linked
<1>2. producer[p].pc = "idle" /\ producer[p].pushed < PushBound /\ producer[p].node = NULL
      /\ UNCHANGED <<file, first, last, mux, init, processor, terminator, log>>
  BY <1>1, Zenon DEF PushAlloc, Owned
<1>3. producer \in [Producers -> [pc : Pcs, node : Nodes \cup {NULL}, pushed : 0..PushBound]]
  BY <1>1, Zenon DEF TypeOK
<1>4. Opened'
  BY <1>1, <1>2, Zenon DEF Opened
<1>5. CASE producer' = [producer EXCEPT ![p].pushed = @ + 1] /\ UNCHANGED heap
  <2>1. /\ producer'[p].pc = "idle" /\ producer'[p].node = NULL
        /\ \A q \in Producers : /\ producer'[q].pc = producer[q].pc
                                /\ producer'[q].node = producer[q].node
                                /\ q # p => producer'[q] = producer[q]
    BY <1>2, <1>3, <1>5, Zenon
  <2>2. producer[p].pushed + 1 \in 0..PushBound
    BY <1>2, <1>3, AsnAssumption
  <2>3. producer' \in [Producers -> [pc : Pcs, node : Nodes \cup {NULL}, pushed : 0..PushBound]]
    BY <1>3, <1>5, <2>2, Zenon
  <2>4. TypeOK'
    BY <1>1, <1>2, <1>5, <2>3 DEF TypeOK
  <2>5. Locks' /\ Owned'
    BY <1>1, <1>2, <1>5, <2>1 DEF Locks, Owned
  <2>6. Linked(s)'
    BY <1>2, <1>5, <2>1, SameList, Zenon
  <2> QED
    BY <1>4, <1>5, <2>4, <2>5, <2>6, Zenon DEF Threads
<1>6. ASSUME NEW n \in Nodes \ DOMAIN heap,
             heap' = [x \in DOMAIN heap \cup {n} |->
                        IF x = n THEN [next |-> NULL, msg |-> <<p, producer[p].pushed + 1>>] ELSE heap[x]],
             producer' = [producer EXCEPT ![p].pc = "lock", ![p].node = n]
      PROVE  Goal
  <2>1. /\ producer'[p].pc = "lock" /\ producer'[p].node = n /\ producer'[p].pushed = producer[p].pushed
        /\ \A q \in Producers : q # p => producer'[q] = producer[q]
        /\ producer' \in [Producers -> [pc : Pcs, node : Nodes \cup {NULL}, pushed : 0..PushBound]]
    BY <1>3, <1>6, Zenon DEF Pcs
  <2>2. /\ DOMAIN heap' = DOMAIN heap \cup {n} /\ heap'[n].next = NULL
        /\ \A x \in DOMAIN heap : heap'[x] = heap[x]
        /\ n # NULL /\ n \notin DOMAIN heap
    BY <1>6, AsnAssumption, Zenon
  <2>3. <<p, producer[p].pushed + 1>> \in Msgs
    <3>1. producer[p].pushed + 1 \in 1..PushBound
      BY <1>2, <1>3, AsnAssumption
    <3> QED
      BY <3>1, Zenon DEF Msgs
  <2>4. heap'[n] \in [next : Nodes \cup {NULL}, msg : Msgs]
    BY <1>6, <2>3, Zenon
  <2>5. \A x \in DOMAIN heap' : heap'[x] \in [next : Nodes \cup {NULL}, msg : Msgs]
    BY <1>1, <2>2, <2>4, Zenon DEF TypeOK
  <2>6. DOMAIN heap' \subseteq Nodes
    BY <1>1, <2>2, Zenon DEF TypeOK
  <2>7. TypeOK'
    BY <1>1, <1>2, <2>1, <2>5, <2>6 DEF TypeOK
  <2>8. Locks'
    BY <1>1, <1>2, <2>1, Zenon DEF Locks
  <2>9. processor.node # n /\ \A q \in Producers : producer[q].node # n
    <3>1. processor.node \in DOMAIN heap \cup {NULL}
      BY <1>1, Zenon DEF Owned, TypeOK
    <3>2. \A q \in Producers : producer[q].node \in DOMAIN heap \cup {NULL}
      BY <1>1, Zenon DEF Owned
    <3> QED
      BY <2>2, <3>1, <3>2, Zenon
  <2>10. Owned'
    <3>1. ASSUME NEW q \in Producers
          PROVE  /\ producer'[q].pc = "idle" => producer'[q].node = NULL
                 /\ producer'[q].pc # "idle" =>
                      /\ producer'[q].node \in DOMAIN heap' /\ heap'[producer'[q].node].next = NULL
                      /\ producer'[q].node # processor'.node /\ producer'[q].pushed < PushBound
      <4>1. CASE q = p
        BY <1>2, <2>1, <2>2, <2>9, <4>1, Zenon
      <4>2. CASE q # p
        BY <1>1, <1>2, <2>1, <2>2, <4>2 DEF Owned
      <4> QED
        BY <4>1, <4>2, Zenon
    <3>2. \A q, r \in Producers : q # r /\ producer'[q].node = producer'[r].node => producer'[q].node = NULL
      BY <1>1, <2>1, <2>9 DEF Owned
    <3> QED
      BY <1>1, <1>2, <2>2, <3>1, <3>2, Zenon DEF Owned
  <2>11. Chain(s)'
    <3>1. \A i \in 1..Len(s) : s[i] \in DOMAIN heap' /\ heap'[s[i]] = heap[s[i]]
      BY <1>1, <2>2, ListedNodes, Zenon
    <3>2. s \in Seq(DOMAIN heap')
      BY <3>1, NodeSeq, Zenon
    <3> QED
      BY <1>1, <1>2, <3>1, <3>2, Zenon DEF Chain
  <2>12. Ends(s)'
    BY <1>1, <1>2, <2>1 DEF Ends
  <2>13. Apart(s)'
    <3>1. \A i \in 1..Len(s) : s[i] # n
      BY <1>1, <2>2, ListedNodes
    <3> QED
      BY <1>1, <1>2, <2>1, <3>1, Zenon DEF Apart
  <2> QED
    BY <1>4, <2>2, <2>7, <2>8, <2>10, <2>11, <2>12, <2>13, Zenon DEF Threads, Linked
<1> QED
  BY <1>5, <1>6, Zenon DEF PushAlloc

\* The mutex is taken.
LEMMA PushLockAInv ==
  ASSUME AInv, NEW p \in Producers, PushLock(p)
  PROVE  AInv'
<1> PICK s \in Seq(Nodes) : Linked(s)
  BY Zenon DEF AInv
<1>1. TypeOK /\ Locks /\ Owned /\ Opened
  BY Zenon DEF AInv, Threads
<1>2. producer[p].pc = "lock" /\ mux = NULL /\ mux' = p
      /\ UNCHANGED <<file, first, last, heap, init, processor, terminator, log>>
  BY Zenon DEF PushLock
<1>3. /\ producer'[p].pc = "link" /\ producer'[p].node = producer[p].node
      /\ producer'[p].pushed = producer[p].pushed
      /\ \A q \in Producers : q # p => producer'[q] = producer[q]
      /\ producer' \in [Producers -> [pc : Pcs, node : Nodes \cup {NULL}, pushed : 0..PushBound]]
  <2> DEFINE Record == [pc : Pcs, node : Nodes \cup {NULL}, pushed : 0..PushBound]
  <2>1. producer \in [Producers -> Record] /\ producer' = [producer EXCEPT ![p].pc = "link"]
    BY <1>1, Zenon DEF PushLock, TypeOK
  <2>2. producer[p] \in Record /\ "link" \in Pcs
    BY <2>1, Zenon DEF Pcs
  <2>3. [producer[p] EXCEPT !.pc = "link"] \in Record
    BY <2>2, Zenon
  <2> QED
    BY <2>1, <2>2, <2>3, Zenon
<1>4. TypeOK'
  BY <1>1, <1>2, <1>3 DEF TypeOK
<1>5. Locks'
  BY <1>1, <1>2, <1>3, AsnAssumption, Zenon DEF Locks
<1>6. Owned'
  BY <1>1, <1>2, <1>3 DEF Owned
<1>7. Opened'
  BY <1>1, <1>2, Zenon DEF Opened
<1>8. \A q \in Producers : /\ producer'[q].node = producer[q].node
                           /\ (producer'[q].pc = "last") <=> (producer[q].pc = "last")
                           /\ producer'[q].pc \in {"lock", "link"} => producer[q].pc \in {"lock", "link"}
  BY <1>2, <1>3, Zenon
<1>9. Linked(s)'
  BY <1>2, <1>8, SameList, Zenon
<1> QED
  BY <1>4, <1>5, <1>6, <1>7, <1>9, Zenon DEF AInv, Threads

\* In its critical section a producer is alone with the list.
LEMMA ProducerAlone ==
  ASSUME TypeOK, Locks, NEW p \in Producers, producer[p].pc \in {"link", "last"}
  PROVE  /\ mux = p /\ processor.pc \notin {"take", "unlock"} /\ terminator # "close"
         /\ \A q \in Producers : producer[q].pc \in {"link", "last"} => q = p
<1>1. mux = p
  BY Zenon DEF Locks
<1> QED
  BY <1>1, AsnAssumption, Zenon DEF Locks

\* A node at the end of the list.
LEMMA AppendItems ==
  ASSUME NEW s \in Seq(Nodes), NEW n \in Nodes
  PROVE  LET t == Append(s, n)
         IN  /\ t \in Seq(Nodes) /\ t # <<>> /\ Len(t) = Len(s) + 1 /\ t[Len(s) + 1] = n
             /\ \A i \in 1..Len(s) : t[i] = s[i]
             /\ \A i \in 1..Len(t) : i \in 1..Len(s) \/ i = Len(s) + 1
<1> DEFINE t == Append(s, n)
<1>1. Len(s) \in Nat
  BY SeqDomain, Zenon
<1>2. t \in Seq(Nodes) /\ Len(t) = Len(s) + 1 /\ t[Len(s) + 1] = n /\ \A i \in 1..Len(s) : t[i] = s[i]
  BY Appended
<1>3. t # <<>>
  BY <1>1, <1>2, NoItems
<1>4. \A i \in 1..(Len(s) + 1) : i \in 1..Len(s) \/ i = Len(s) + 1
  BY <1>1
<1> QED
  BY <1>2, <1>3, <1>4, Zenon

\* The first assignment of queue_push makes the node part of the list.
LEMMA PushLinkAInv ==
  ASSUME TypeOK, Threads, NEW s \in Seq(Nodes), Linked(s), NEW p \in Producers, PushLink(p),
         NEW n, n = producer[p].node, NEW t, t = Append(s, n)
  PROVE  /\ n \in DOMAIN heap /\ n \in Nodes
         /\ TypeOK' /\ Threads' /\ t \in Seq(Nodes) /\ Linked(t)'
         /\ DOMAIN heap' = DOMAIN heap /\ \A x \in DOMAIN heap : heap'[x].msg = heap[x].msg
<1>1. Locks /\ Owned /\ Opened /\ Chain(s) /\ Ends(s) /\ Apart(s)
  BY Zenon DEF Threads, Linked
<1>2. producer[p].pc = "link" /\ UNCHANGED <<file, last, mux, init, processor, terminator, log>>
  BY Zenon DEF PushLink
<1>3. /\ mux = p /\ processor.pc \notin {"take", "unlock"} /\ terminator # "close"
      /\ \A q \in Producers : producer[q].pc \in {"link", "last"} => q = p
  BY <1>1, <1>2, ProducerAlone, Zenon
<1>4. n \in DOMAIN heap /\ heap[n].next = NULL /\ n # processor.node /\ n \in Nodes /\ n # NULL
  BY <1>1, <1>2, AsnAssumption DEF Owned, TypeOK
<1>5. /\ producer'[p].pc = "last" /\ producer'[p].node = n /\ producer'[p].pushed = producer[p].pushed
      /\ \A q \in Producers : q # p => producer'[q] = producer[q]
      /\ producer' \in [Producers -> [pc : Pcs, node : Nodes \cup {NULL}, pushed : 0..PushBound]]
  <2>1. producer' = [producer EXCEPT ![p].pc = "last"] /\ "last" \in Pcs
    BY Zenon DEF PushLink, Pcs
  <2>2. producer \in [Producers -> [pc : Pcs, node : Nodes \cup {NULL}, pushed : 0..PushBound]]
    BY Zenon DEF TypeOK
  <2> QED
    BY <2>1, <2>2, Zenon
<1>6. last = IF s = <<>> THEN NULL ELSE s[Len(s)]
  <2>1. \A q \in Producers : producer[q].pc # "last"
    BY <1>2, <1>3, Zenon
  <2> QED
    BY <1>1, <1>3, <2>1, Zenon DEF Ends
<1>7. /\ Len(s) \in Nat
      /\ \A i \in 1..Len(s) : s[i] \in DOMAIN heap /\ s[i] \in Nodes /\ s[i] # NULL
      /\ s # <<>> => 1 \in 1..Len(s) /\ Len(s) \in 1..Len(s)
      /\ s = <<>> => Len(s) = 0
  BY <1>1, ListedNodes, Zenon
<1>8. \A i \in 1..Len(s) : s[i] # n /\ s[i] # processor.node
  BY <1>1, <1>2, Zenon DEF Apart
<1>9. /\ t \in Seq(Nodes) /\ t # <<>> /\ Len(t) = Len(s) + 1 /\ t[Len(s) + 1] = n
      /\ \A i \in 1..Len(s) : t[i] = s[i]
      /\ \A i \in 1..Len(t) : i \in 1..Len(s) \/ i = Len(s) + 1
  BY <1>4, AppendItems
<1>10. heap' = IF s = <<>> THEN heap ELSE [heap EXCEPT ![s[Len(s)]].next = n]
  BY <1>6, <1>7, Zenon DEF PushLink
<1>11. first' = IF s = <<>> THEN n ELSE first
  BY <1>6, <1>7, Zenon DEF PushLink
<1>12. /\ DOMAIN heap' = DOMAIN heap
       /\ \A x \in DOMAIN heap : heap'[x].msg = heap[x].msg /\ (s = <<>> \/ x # s[Len(s)] => heap'[x] = heap[x])
       /\ s # <<>> => heap'[s[Len(s)]].next = n
  BY <1>7, <1>10, Zenon DEF TypeOK
<1>13. \A x \in DOMAIN heap' : heap'[x] \in [next : Nodes \cup {NULL}, msg : Msgs]
  <2> SUFFICES ASSUME NEW x \in DOMAIN heap'
               PROVE  heap'[x] \in [next : Nodes \cup {NULL}, msg : Msgs]
    BY Zenon
  <2>1. x \in DOMAIN heap /\ heap[x] \in [next : Nodes \cup {NULL}, msg : Msgs]
    BY <1>12, Zenon DEF TypeOK
  <2>2. CASE s = <<>> \/ x # s[Len(s)]
    BY <1>12, <2>1, <2>2, Zenon
  <2>3. CASE s # <<>> /\ x = s[Len(s)]
    <3>1. heap' = [heap EXCEPT ![x].next = n]
      BY <1>10, <2>3, Zenon
    <3> QED
      BY <1>4, <2>1, <3>1, Zenon
  <2> QED
    BY <2>2, <2>3, Zenon
<1>14. TypeOK'
  <2>1. first' \in Nodes \cup {NULL}
    BY <1>4, <1>11, Zenon DEF TypeOK
  <2> QED
    BY <1>2, <1>5, <1>12, <1>13, <2>1 DEF TypeOK
<1>15. Locks' /\ Opened'
  BY <1>1, <1>2, <1>3, <1>5, Zenon DEF Locks, Opened
<1>16. Owned'
  <2>1. ASSUME NEW q \in Producers, producer[q].pc # "idle"
        PROVE  producer[q].node \in DOMAIN heap' /\ heap'[producer[q].node].next = NULL
    <3>1. producer[q].node \in DOMAIN heap /\ heap[producer[q].node].next = NULL
      BY <1>1, <2>1, Zenon DEF Owned
    <3>2. producer[q].pc \in {"lock", "link"}
      BY <1>2, <1>3, <2>1, Zenon DEF TypeOK, Pcs
    <3>3. \A i \in 1..Len(s) : producer[q].node # s[i]
      BY <1>1, <3>2, Zenon DEF Apart
    <3> QED
      BY <1>7, <1>12, <3>1, <3>3, Zenon
  <2>2. \A q \in Producers : /\ producer'[q].node = producer[q].node /\ producer'[q].pushed = producer[q].pushed
                             /\ (producer'[q].pc = "idle") <=> (producer[q].pc = "idle")
    BY <1>2, <1>5, Zenon
  <2>3. /\ processor' = processor
        /\ processor.pc \in {"unlock", "header", "body"} => processor.node \in DOMAIN heap'
        /\ processor.pc \in {"none", "pop", "take"} => processor.node = NULL
    BY <1>1, <1>2, <1>12, Zenon DEF Owned
  <2>4. \A q \in Producers :
          /\ producer[q].pc = "idle" => producer[q].node = NULL
          /\ producer[q].pc # "idle" => producer[q].node # processor.node /\ producer[q].pushed < PushBound
    BY <1>1, Zenon DEF Owned
  <2>5. \A q, u \in Producers : q # u /\ producer[q].node = producer[u].node => producer[q].node = NULL
    BY <1>1, Zenon DEF Owned
  <2>6. ASSUME NEW q \in Producers
        PROVE  /\ producer'[q].pc = "idle" => producer'[q].node = NULL
               /\ producer'[q].pc # "idle" =>
                    /\ producer'[q].node \in DOMAIN heap' /\ heap'[producer'[q].node].next = NULL
                    /\ producer'[q].node # processor'.node /\ producer'[q].pushed < PushBound
    BY <2>1, <2>2, <2>3, <2>4, Zenon
  <2>7. ASSUME NEW q \in Producers, NEW u \in Producers, q # u, producer'[q].node = producer'[u].node
        PROVE  producer'[q].node = NULL
    <3>1. producer'[q].node = producer[q].node /\ producer'[u].node = producer[u].node
      BY <2>2, Zenon
    <3> QED
      BY <2>5, <2>7, <3>1, Zenon
  <2> QED
    BY <2>3, <2>6, <2>7, Zenon DEF Owned
<1>17. Chain(t)'
  <2>1. \A i \in 1..Len(t) : t[i] \in DOMAIN heap'
    BY <1>4, <1>7, <1>9, <1>12, Zenon
  <2>2. t \in Seq(DOMAIN heap')
    BY <1>9, <2>1, NodeSeq, Zenon
  <2>3. \A i, j \in 1..Len(t) : t[i] = t[j] => i = j
    BY <1>1, <1>8, <1>9 DEF Chain
  <2>4. ASSUME NEW i \in 1..Len(t) PROVE heap'[t[i]].next = IF i = Len(t) THEN NULL ELSE t[i + 1]
    <3>1. CASE i = Len(s) + 1
      <4>1. t[i] = n /\ i = Len(t) /\ heap'[n] = heap[n]
        BY <1>4, <1>7, <1>8, <1>9, <1>12, <3>1, Zenon
      <4> QED
        BY <1>4, <4>1, Zenon
    <3>2. CASE i \in 1..Len(s) /\ i = Len(s)
      <4>1. s # <<>> /\ i # Len(t)
        BY <1>7, <1>9, <3>2
      <4> QED
        BY <1>9, <1>12, <3>2, <4>1, Zenon
    <3>3. CASE i \in 1..Len(s) /\ i # Len(s)
      <4>1. s # <<>> /\ i # Len(t) /\ i + 1 \in 1..Len(s)
        BY <1>7, <1>9, <3>3
      <4>2. s[i] # s[Len(s)]
        BY <1>1, <1>7, <3>3, <4>1, Zenon DEF Chain
      <4>3. heap'[s[i]] = heap[s[i]] /\ heap[s[i]].next = s[i + 1]
        BY <1>1, <1>7, <1>12, <3>3, <4>2, Zenon DEF Chain
      <4> QED
        BY <1>9, <3>3, <4>1, <4>3, Zenon
    <3> QED
      BY <1>9, <3>1, <3>2, <3>3, Zenon
  <2>5. first' = t[1]
    <3>1. CASE s = <<>>
      BY <1>7, <1>9, <1>11, <3>1
    <3>2. CASE s # <<>>
      BY <1>1, <1>7, <1>9, <1>11, <3>2, Zenon DEF Chain
    <3> QED
      BY <3>1, <3>2, Zenon
  <2> QED
    BY <1>9, <2>2, <2>3, <2>4, <2>5, Zenon DEF Chain
<1>18. Ends(t)'
  <2>1. last = IF Len(t) = 1 THEN NULL ELSE t[Len(t) - 1]
    <3>1. CASE s = <<>>
      BY <1>6, <1>7, <1>9, <3>1
    <3>2. CASE s # <<>>
      <4>1. Len(t) # 1 /\ Len(t) - 1 = Len(s)
        BY <1>7, <1>9, <3>2
      <4> QED
        BY <1>6, <1>7, <1>9, <3>2, <4>1, Zenon
    <3> QED
      BY <3>1, <3>2, Zenon
  <2>2. t[Len(t)] = n
    BY <1>9, Zenon
  <2>3. \A q \in Producers : producer'[q].pc = "last" => q = p
    BY <1>3, <1>5, Zenon
  <2> QED
    BY <1>2, <1>3, <1>5, <1>9, <2>1, <2>2, <2>3, Zenon DEF Ends
<1>19. Apart(t)'
  <2>1. \A q \in Producers : producer'[q].pc \in {"lock", "link"} =>
          q # p /\ producer'[q] = producer[q] /\ producer[q].node # n
    BY <1>1, <1>4, <1>5 DEF Owned
  <2> QED
    BY <1>1, <1>2, <1>4, <1>9, <2>1 DEF Apart
<1> QED
  BY <1>4, <1>9, <1>12, <1>14, <1>15, <1>16, <1>17, <1>18, <1>19, Zenon DEF Threads, Linked

\* The second assignment, the unlock and the return.
LEMMA PushLastAInv ==
  ASSUME AInv, NEW p \in Producers, PushLast(p)
  PROVE  AInv'
<1> PICK s \in Seq(Nodes) : Linked(s)
  BY DEF AInv
<1>1. TypeOK /\ Locks /\ Owned /\ Opened /\ Chain(s) /\ Ends(s) /\ Apart(s)
  BY Zenon DEF AInv, Threads, Linked
<1>2. producer[p].pc = "last" /\ last' = producer[p].node /\ mux' = NULL
      /\ UNCHANGED <<file, first, heap, init, processor, terminator, log>>
  BY Zenon DEF PushLast
<1>3. /\ mux = p /\ processor.pc \notin {"take", "unlock"} /\ terminator # "close"
      /\ \A q \in Producers : producer[q].pc \in {"link", "last"} => q = p
  BY <1>1, <1>2, ProducerAlone, Zenon
<1>4. /\ producer'[p].pc = "idle" /\ producer'[p].node = NULL
      /\ producer'[p] = [pc |-> "idle", node |-> NULL, pushed |-> producer[p].pushed + 1]
      /\ \A q \in Producers : q # p => producer'[q] = producer[q]
  BY <1>1, Zenon DEF PushLast, TypeOK
<1>5. TypeOK'
  <2>1. producer[p].pushed + 1 \in 0..PushBound
    BY <1>1, <1>2, AsnAssumption DEF TypeOK, Owned
  <2>2. producer' \in [Producers -> [pc : Pcs, node : Nodes \cup {NULL}, pushed : 0..PushBound]]
    BY <1>1, <2>1, Zenon DEF PushLast, TypeOK, Pcs
  <2> QED
    BY <1>1, <1>2, <2>2 DEF TypeOK
<1>6. Locks' /\ Opened'
  BY <1>1, <1>2, <1>3, <1>4, AsnAssumption, Zenon DEF Locks, Opened
<1>7. Owned'
  BY <1>1, <1>2, <1>4, AsnAssumption DEF Owned
<1>8. Chain(s)'
  BY <1>1, <1>2, Zenon DEF Chain
<1>9. Ends(s)'
  <2>1. \A q \in Producers : producer'[q].pc # "last"
    BY <1>3, <1>4, Zenon
  <2>2. s # <<>> /\ last' = s[Len(s)]
    BY <1>1, <1>2, Zenon DEF Ends
  <2> QED
    BY <1>2, <1>3, <2>1, <2>2, Zenon DEF Ends
<1>10. Apart(s)'
  BY <1>1, <1>2, <1>4, Zenon DEF Apart
<1> QED
  BY <1>5, <1>6, <1>7, <1>8, <1>9, <1>10, Zenon DEF AInv, Threads, Linked

-----------------------------------------------------------------------------
(* asn_processor.                                                          *)

\* In its critical section the processor is alone with the list.
LEMMA ProcessorAlone ==
  ASSUME TypeOK, Locks, processor.pc \in {"take", "unlock"}
  PROVE  /\ mux = "processor" /\ terminator # "close"
         /\ \A q \in Producers : producer[q].pc \in {"idle", "lock"}
<1>1. mux = "processor"
  BY Zenon DEF Locks
<1>2. \A q \in Producers : producer[q].pc \notin {"link", "last"}
  BY <1>1, AsnAssumption, Zenon DEF Locks
<1> QED
  BY <1>1, <1>2, AsnAssumption, Zenon DEF Locks, TypeOK, Pcs

\* The mutex is taken, the header is written, or a write ends the program.
LEMMA QuietProcessorAInv ==
  ASSUME AInv, PopLock \/ WriteHeader \/ WriteClosed
  PROVE  AInv'
<1> PICK s \in Seq(Nodes) : Linked(s)
  BY Zenon DEF AInv
<1>1. TypeOK /\ Locks /\ Owned /\ Opened
  BY Zenon DEF AInv, Threads
<1>2. UNCHANGED <<first, last, heap, init, producer, terminator>>
  BY Zenon DEF PopLock, WriteHeader, WriteClosed
<1>3. CASE PopLock
  <2>1. /\ processor.pc = "pop" /\ processor'.pc = "take" /\ processor'.node = processor.node
        /\ processor' \in [pc : {"take"}, node : Nodes \cup {NULL}]
        /\ mux = NULL /\ mux' = "processor" /\ UNCHANGED <<file, log>>
    BY <1>1, <1>3, Zenon DEF PopLock, TypeOK
  <2>2. TypeOK'
    BY <1>1, <1>2, <2>1, Zenon DEF TypeOK
  <2>3. Threads'
    BY <1>1, <1>2, <2>1, AsnAssumption, Zenon DEF Threads, Locks, Owned, Opened
  <2>4. Linked(s)'
    BY <1>2, <2>1, SameList, Zenon
  <2> QED
    BY <2>2, <2>3, <2>4, Zenon DEF AInv
<1>4. CASE WriteHeader
  <2>1. /\ processor.pc = "header" /\ processor'.pc = "body" /\ processor'.node = processor.node
        /\ processor' \in [pc : {"body"}, node : Nodes \cup {NULL}] /\ UNCHANGED <<file, mux>>
    BY <1>1, <1>4, Zenon DEF WriteHeader, TypeOK
  <2>2. TypeOK'
    <3>1. <<heap[processor.node].msg, "tti">> \in Entries
      BY <1>1, <2>1, Zenon DEF Owned, TypeOK, Entries
    <3>2. log' \in Seq(Entries)
      BY <1>1, <1>4, <3>1, Appended, Zenon DEF WriteHeader, TypeOK
    <3> QED
      BY <1>1, <1>2, <2>1, <3>2, Zenon DEF TypeOK
  <2>3. Threads'
    BY <1>1, <1>2, <2>1 DEF Threads, Locks, Owned, Opened
  <2>4. Linked(s)'
    BY <1>2, <2>1, SameList, Zenon
  <2> QED
    BY <2>2, <2>3, <2>4 DEF AInv
<1>5. CASE WriteClosed
  <2>1. file = "closed" /\ file' = "crashed" /\ UNCHANGED <<mux, processor, log>>
    BY <1>5, Zenon DEF WriteClosed
  <2>2. TypeOK'
    BY <1>1, <1>2, <2>1, Zenon DEF TypeOK
  <2>3. Threads'
    BY <1>1, <1>2, <2>1, Zenon DEF Threads, Locks, Owned, Opened
  <2>4. Linked(s)'
    BY <1>2, <2>1, SameList, Zenon
  <2> QED
    BY <2>2, <2>3, <2>4, Zenon DEF AInv
<1> QED
  BY <1>3, <1>4, <1>5, Zenon

\* A list without its first node.
LEMMA TailItems ==
  ASSUME NEW s \in Seq(Nodes), s # <<>>
  PROVE  LET t == Tail(s)
         IN  /\ t \in Seq(Nodes) /\ Len(t) = Len(s) - 1
             /\ \A i \in 1..Len(t) : t[i] = s[i + 1] /\ i + 1 \in 1..Len(s)
             /\ (t = <<>>) <=> (Len(s) = 1)
<1> DEFINE t == Tail(s)
<1>1. Len(s) \in Nat /\ Len(s) # 0
  BY SeqDomain, NoItems, Zenon
<1>2. t \in Seq(Nodes) /\ Len(t) = Len(s) - 1 /\ \A i \in 1..Len(t) : t[i] = s[i + 1]
  BY Popped, Zenon
<1>3. (t = <<>>) <=> (Len(t) = 0)
  BY <1>2, NoItems, Zenon
<1>4. \A n \in Nat : n # 0 => \A i \in 1..(n - 1) : i + 1 \in 1..n
  OBVIOUS
<1>5. \A i \in 1..Len(t) : i + 1 \in 1..Len(s)
  BY <1>1, <1>2, <1>4, Zenon
<1>6. (Len(t) = 0) <=> (Len(s) = 1)
  BY <1>1, <1>2
<1> QED
  BY <1>2, <1>3, <1>5, <1>6, Zenon

\* The first assignment of queue_pop takes the first node.
LEMMA PopTakeAInv ==
  ASSUME TypeOK, Threads, NEW s \in Seq(Nodes), Linked(s), s # <<>>, PopTake, NEW t, t = Tail(s)
  PROVE  TypeOK' /\ Threads' /\ t \in Seq(Nodes) /\ Linked(t)'
<1>1. Locks /\ Owned /\ Opened /\ Chain(s) /\ Ends(s) /\ Apart(s)
  BY Zenon DEF Threads, Linked
<1>2. /\ Len(s) \in Nat
      /\ \A i \in 1..Len(s) : s[i] \in DOMAIN heap /\ s[i] \in Nodes /\ s[i] # NULL
      /\ 1 \in 1..Len(s) /\ Len(s) \in 1..Len(s)
  BY <1>1, ListedNodes, Zenon
<1>3. /\ t \in Seq(Nodes) /\ Len(t) = Len(s) - 1
      /\ \A i \in 1..Len(t) : t[i] = s[i + 1] /\ i + 1 \in 1..Len(s)
      /\ (t = <<>>) <=> (Len(s) = 1)
  BY TailItems, Zenon
<1>4. first = s[1] /\ first # NULL
  BY <1>1, <1>2, Zenon DEF Chain
<1>5. /\ processor.pc = "take" /\ processor' = [pc |-> "unlock", node |-> first]
      /\ first' = (IF first = last THEN NULL ELSE heap[first].next)
      /\ UNCHANGED <<mux, file, last, heap, init, producer, terminator, log>>
  BY <1>4, Zenon DEF PopTake
<1>6. /\ mux = "processor" /\ terminator # "close"
      /\ \A q \in Producers : producer[q].pc \in {"idle", "lock"}
  BY <1>1, <1>5, ProcessorAlone, Zenon
<1>7. last = s[Len(s)]
  BY <1>1, <1>5, <1>6, Zenon DEF Ends
<1>8. first' = IF t = <<>> THEN NULL ELSE t[1]
  <2>1. CASE Len(s) = 1
    BY <1>3, <1>4, <1>5, <1>7, <2>1, Zenon
  <2>2. CASE Len(s) # 1
    <3>1. first # last
      BY <1>1, <1>2, <1>4, <1>7, <2>2, Zenon DEF Chain
    <3>2. heap[first].next = s[1 + 1]
      BY <1>1, <1>2, <1>4, <2>2, Zenon DEF Chain
    <3>3. 1 \in 1..Len(t)
      BY <1>2, <1>3, <2>2
    <3> QED
      BY <1>3, <1>5, <2>2, <3>1, <3>2, <3>3, Zenon
  <2> QED
    BY <2>1, <2>2, Zenon
<1>9. TypeOK'
  <2>1. first' \in Nodes \cup {NULL}
    BY <1>2, <1>4, <1>5, Zenon DEF TypeOK
  <2>2. processor' \in [pc : {"unlock"}, node : Nodes \cup {NULL}]
    BY <1>2, <1>4, <1>5, Zenon
  <2> QED
    BY <1>5, <2>1, <2>2, Zenon DEF TypeOK
<1>10. Locks' /\ Opened'
  BY <1>1, <1>5, <1>6, Zenon DEF Locks, Opened
<1>11. Owned'
  <2>1. \A q \in Producers : producer[q].pc # "idle" => producer[q].node # first
    BY <1>1, <1>2, <1>4, <1>6, Zenon DEF Apart
  <2> QED
    BY <1>1, <1>2, <1>4, <1>5, <2>1, Zenon DEF Owned
<1>12. Chain(t)'
  <2>1. t \in Seq(DOMAIN heap')
    BY <1>2, <1>3, <1>5, NodeSeq
  <2>2. ASSUME NEW i \in 1..Len(t), NEW j \in 1..Len(t), t[i] = t[j] PROVE i = j
    <3>1. PICK a \in 1..Len(s) : a = i + 1 /\ t[i] = s[a]
      BY <1>3, Zenon
    <3>2. PICK b \in 1..Len(s) : b = j + 1 /\ t[j] = s[b]
      BY <1>3, Zenon
    <3>3. a = b
      BY <1>1, <2>2, <3>1, <3>2, Zenon DEF Chain
    <3> QED
      BY <3>1, <3>2, <3>3
  <2>3. ASSUME NEW i \in 1..Len(t) PROVE heap[t[i]].next = IF i = Len(t) THEN NULL ELSE t[i + 1]
    <3>1. heap[s[i + 1]].next = IF i + 1 = Len(s) THEN NULL ELSE s[i + 1 + 1]
      BY <1>1, <1>3, Zenon DEF Chain
    <3>2. \A m \in Nat : \A k \in 1..(m - 1) :
            ((k + 1 = m) <=> (k = m - 1)) /\ (k # m - 1 => k + 1 \in 1..(m - 1))
      OBVIOUS
    <3>3. ((i + 1 = Len(s)) <=> (i = Len(t))) /\ (i # Len(t) => i + 1 \in 1..Len(t))
      BY <1>2, <1>3, <3>2, Zenon
    <3>4. i # Len(t) => t[i + 1] = s[i + 1 + 1]
      BY <1>3, <3>3, Zenon
    <3> QED
      BY <1>3, <3>1, <3>3, <3>4, Zenon
  <2> QED
    BY <1>5, <1>8, <2>1, <2>2, <2>3, Zenon DEF Chain
<1>13. Ends(t)'
  <2>1. t # <<>> => last = t[Len(t)]
    <3>1. t # <<>> => Len(t) \in 1..Len(t) /\ Len(t) + 1 = Len(s)
      BY <1>2, <1>3
    <3> QED
      BY <1>3, <1>7, <3>1, Zenon
  <2> QED
    BY <1>5, <1>6, <2>1, Zenon DEF Ends
<1>14. Apart(t)'
  <2>1. \A i \in 1..Len(t) : t[i] # first
    <3> SUFFICES ASSUME NEW i \in 1..Len(t), t[i] = first PROVE FALSE
      BY Zenon
    <3>1. PICK a \in 1..Len(s) : a = i + 1 /\ t[i] = s[a]
      BY <1>3, Zenon
    <3>2. a = 1
      BY <1>1, <1>2, <1>4, <3>1, Zenon DEF Chain
    <3> QED
      BY <3>1, <3>2
  <2> QED
    BY <1>1, <1>3, <1>5, <2>1 DEF Apart
<1> QED
  BY <1>3, <1>9, <1>10, <1>11, <1>12, <1>13, <1>14 DEF Threads, Linked

\* queue_pop of an empty list.
LEMMA PopEmptyAInv ==
  ASSUME TypeOK, Threads, NEW s \in Seq(Nodes), Linked(s), s = <<>>, PopTake
  PROVE  TypeOK' /\ Threads' /\ Linked(s)' /\ UNCHANGED heap
<1>1. Locks /\ Owned /\ Opened /\ Chain(s)
  BY Zenon DEF Threads, Linked
<1>2. first = NULL
  BY <1>1, Zenon DEF Chain
<1>3. /\ processor.pc = "take" /\ processor'.pc = "pop" /\ processor'.node = processor.node
      /\ processor' \in [pc : {"pop"}, node : Nodes \cup {NULL}]
      /\ mux' = NULL /\ UNCHANGED <<first, file, last, heap, init, producer, terminator, log>>
  BY <1>2, Zenon DEF PopTake, TypeOK
<1>4. /\ mux = "processor" /\ terminator # "close"
      /\ \A q \in Producers : producer[q].pc \in {"idle", "lock"}
  BY <1>1, <1>3, ProcessorAlone, Zenon
<1>5. TypeOK'
  BY <1>3, Zenon DEF TypeOK
<1>6. Threads'
  <2>1. Locks'
    BY <1>1, <1>3, <1>4, AsnAssumption, Zenon DEF Locks
  <2>2. Owned'
    BY <1>1, <1>3, <1>4, Zenon DEF Owned
  <2>3. Opened'
    BY <1>1, <1>3, <1>4, Zenon DEF Opened
  <2> QED
    BY <2>1, <2>2, <2>3, Zenon DEF Threads
<1>7. Linked(s)'
  BY <1>3, SameList, Zenon
<1> QED
  BY <1>3, <1>5, <1>6, <1>7, Zenon

\* The second assignment of queue_pop and the unlock.
LEMMA PopUnlockAInv ==
  ASSUME AInv, PopUnlock
  PROVE  AInv'
<1> PICK s \in Seq(Nodes) : Linked(s)
  BY Zenon DEF AInv
<1>1. TypeOK /\ Locks /\ Owned /\ Opened /\ Chain(s) /\ Ends(s) /\ Apart(s)
  BY Zenon DEF AInv, Threads, Linked
<1>2. /\ processor.pc = "unlock" /\ processor'.pc = "header" /\ processor'.node = processor.node
      /\ processor' \in [pc : {"header"}, node : Nodes \cup {NULL}]
      /\ mux' = NULL /\ UNCHANGED <<first, file, heap, init, producer, terminator, log>>
      /\ last' = IF first = NULL THEN NULL ELSE last
  BY <1>1, Zenon DEF PopUnlock, TypeOK
<1>3. /\ mux = "processor" /\ terminator # "close"
      /\ \A q \in Producers : producer[q].pc \in {"idle", "lock"}
  BY <1>1, <1>2, ProcessorAlone, Zenon
<1>4. TypeOK'
  BY <1>1, <1>2, Zenon DEF TypeOK
<1>5. Locks' /\ Owned' /\ Opened'
  <2>1. Locks'
    BY <1>1, <1>2, <1>3, AsnAssumption, Zenon DEF Locks
  <2>2. Owned'
    BY <1>1, <1>2, <1>3, Zenon DEF Owned
  <2>3. Opened'
    BY <1>1, <1>2, <1>3, Zenon DEF Opened
  <2> QED
    BY <2>1, <2>2, <2>3, Zenon
<1>6. Chain(s)' /\ Apart(s)'
  BY <1>1, <1>2, Zenon DEF Chain, Apart
<1>7. last' = IF s = <<>> THEN NULL ELSE s[Len(s)]
  <2>1. (first = NULL) <=> (s = <<>>)
    BY <1>1, ListedNodes, Zenon DEF Chain
  <2> QED
    BY <1>1, <1>2, <2>1, Zenon DEF Ends
<1>8. Ends(s)'
  BY <1>2, <1>3, <1>7, Zenon DEF Ends
<1> QED
  BY <1>4, <1>5, <1>6, <1>8, Zenon DEF AInv, Threads, Linked

\* The message is written and its node may be freed.
LEMMA WriteBodyAInv ==
  ASSUME TypeOK, Threads, NEW s \in Seq(Nodes), Linked(s), WriteBody
  PROVE  /\ TypeOK' /\ Threads' /\ Linked(s)'
         /\ \A i \in 1..Len(s) : heap'[s[i]] = heap[s[i]]
<1>1. Locks /\ Owned /\ Opened /\ Chain(s) /\ Ends(s) /\ Apart(s)
  BY Zenon DEF Threads, Linked
<1>2. /\ processor.pc = "body" /\ processor'.pc = "pop" /\ processor'.node = NULL
      /\ processor' \in [pc : {"pop"}, node : Nodes \cup {NULL}]
      /\ UNCHANGED <<file, first, last, mux, init, producer, terminator>>
  BY Zenon DEF WriteBody
<1>3. /\ DOMAIN heap' \subseteq DOMAIN heap /\ DOMAIN heap \ {processor.node} \subseteq DOMAIN heap'
      /\ \A n \in DOMAIN heap' : heap'[n] = heap[n]
  BY Zenon DEF WriteBody
<1>4. \A n \in DOMAIN heap : n # processor.node => n \in DOMAIN heap' /\ heap'[n] = heap[n]
  BY <1>3, Zenon
<1>5. TypeOK'
  <2>1. <<heap[processor.node].msg, "text">> \in Entries
    BY <1>1, <1>2, Zenon DEF Owned, TypeOK, Entries
  <2>2. log' \in Seq(Entries)
    BY <2>1, Appended, Zenon DEF WriteBody, TypeOK
  <2> QED
    BY <1>2, <1>3, <2>2, Zenon DEF TypeOK
<1>6. Locks' /\ Opened'
  BY <1>1, <1>2, Zenon DEF Locks, Opened
<1>7. Owned'
  <2>1. ASSUME NEW q \in Producers, producer[q].pc # "idle"
        PROVE  /\ producer[q].node \in DOMAIN heap' /\ heap'[producer[q].node].next = NULL
               /\ producer[q].node # NULL
    <3>1. producer[q].node \in DOMAIN heap /\ heap[producer[q].node].next = NULL
          /\ producer[q].node # processor.node
      BY <1>1, <2>1, Zenon DEF Owned
    <3> QED
      BY <1>4, <3>1, AsnAssumption, Zenon DEF TypeOK
  <2> QED
    BY <1>1, <1>2, <2>1, Zenon DEF Owned
<1>8. \A i \in 1..Len(s) : s[i] \in DOMAIN heap' /\ heap'[s[i]] = heap[s[i]] /\ s[i] # NULL
  BY <1>1, <1>4, ListedNodes, Zenon DEF Apart
<1>9. Chain(s)'
  <2>1. s \in Seq(DOMAIN heap')
    BY <1>8, NodeSeq, Zenon
  <2> QED
    BY <1>1, <1>2, <1>8, <2>1, Zenon DEF Chain
<1>10. Ends(s)' /\ Apart(s)'
  BY <1>1, <1>2, <1>8, Zenon DEF Ends, Apart
<1> QED
  BY <1>5, <1>6, <1>7, <1>8, <1>9, <1>10, Zenon DEF Threads, Linked

\* AInv is inductive.
LEMMA NextAInv == AInv /\ [Next]_vars => AInv'
<1> SUFFICES ASSUME AInv, [Next]_vars PROVE AInv'
  BY Zenon
<1> PICK s \in Seq(Nodes) : Linked(s)
  BY Zenon DEF AInv
<1>1. TypeOK /\ Threads
  BY Zenon DEF AInv
<1>2. CASE UNCHANGED vars
  <2>1. Linked(s)'
    BY <1>2, SameList, Zenon DEF vars
  <2>2. TypeOK'
    BY <1>1, <1>2, SMTT(15) DEF vars, TypeOK
  <2>3. Locks' /\ Owned' /\ Opened'
    BY <1>1, <1>2, Zenon DEF vars, Threads, Locks, Owned, Opened
  <2> QED
    BY <2>1, <2>2, <2>3, Zenon DEF AInv, Threads
<1>3. ASSUME NEW p \in Producers, PushLink(p) PROVE AInv'
  <2>1. PICK n : n = producer[p].node
    BY Zenon
  <2>2. PICK t : t = Append(s, n)
    BY Zenon
  <2> QED
    BY <1>1, <1>3, <2>1, <2>2, PushLinkAInv, Zenon DEF AInv
<1>4. CASE PopTake
  <2>1. CASE s = <<>>
    BY <1>1, <1>4, <2>1, PopEmptyAInv, Zenon DEF AInv
  <2>2. CASE s # <<>>
    <3>1. PICK t : t = Tail(s)
      BY Zenon
    <3> QED
      BY <1>1, <1>4, <2>2, <3>1, PopTakeAInv, Zenon DEF AInv
  <2> QED
    BY <2>1, <2>2, Zenon
<1>5. CASE WriteBody
  BY <1>1, <1>5, WriteBodyAInv, Zenon DEF AInv
<1>6. ASSUME NEW p \in Producers, PushAlloc(p) PROVE AInv'
  BY <1>1, <1>6, PushAllocAInv, Zenon DEF AInv
<1> QED
  BY <1>2, <1>3, <1>4, <1>5, <1>6, InitTermAInv, PushLockAInv, PushLastAInv,
     QuietProcessorAInv, PopUnlockAInv DEF Next, ProcessorStep, ProducerStep

\* Type correctness of the ASN.1 decoder.
THEOREM DecoderTypeCorrect == Spec => []TypeOK
<1>1. AInv => TypeOK
  BY Zenon DEF AInv
<1> QED
  BY <1>1, InitAInv, NextAInv, PTL DEF Spec

-----------------------------------------------------------------------------
(* The list that chain computes.                                           *)

\* A set of natural numbers has a least element.
LEMMA Least ==
  ASSUME NEW B, B \subseteq Nat, B # {}
  PROVE  \E n \in B : n \in Nat /\ \A m \in B : ~(m < n)
<1>1. PICK n \in B : \A m \in B : ~(<<m, n>> \in OpToRel(<, Nat))
  BY WFMin, NatLessThanWellFounded, Zenon
<1> QED
  BY <1>1, Zenon DEF OpToRel

\* One link of chain.
Link(g, k) ==
  [n \in Nodes \cup {NULL} |->
     IF k = 0 \/ n \notin DOMAIN heap THEN <<>> ELSE <<n>> \o g[heap[n].next]]

\* The recursive definition of chain has a solution.
LEMMA ChainValue ==
  /\ Cardinality(Nodes) \in Nat
  /\ \A k \in 0..Cardinality(Nodes) : chain[k] = Link(chain[k - 1], k)
<1> DEFINE Def(f, m) == f = [k \in 0..m |-> Link(f[k - 1], k)]
           Bad == {m \in Nat : ~\E f : Def(f, m)}
<1>1. Cardinality(Nodes) \in Nat
  BY AsnAssumption, FS_CardinalityType, Zenon
<1>2. \A g, h : Link(g, 0) = Link(h, 0)
  BY Zenon DEF Link
<1>3. \E f : Def(f, 0)
  <2> DEFINE f == [k \in 0..0 |-> Link(0, 0)]
  <2>1. \A k \in 0..0 : k = 0
    OBVIOUS
  <2>2. \A k \in 0..0 : Link(0, 0) = Link(f[k - 1], k)
    BY <1>2, <2>1, Zenon
  <2>3. f = [k \in 0..0 |-> Link(f[k - 1], k)]
    BY <2>2, Zenon
  <2> QED
    BY <2>3, Zenon
<1>4. ASSUME NEW m \in Nat, NEW f, Def(f, m) PROVE \E h : Def(h, m + 1)
  <2> DEFINE h == [k \in 0..(m + 1) |-> IF k = m + 1 THEN Link(f[m], m + 1) ELSE f[k]]
  <2>1. ASSUME NEW k \in 0..(m + 1) PROVE h[k] = Link(h[k - 1], k)
    <3>1. CASE k = 0
      <4>1. 0 \in 0..m /\ 0 # m + 1 /\ 0 \in 0..(m + 1)
        OBVIOUS
      <4>2. h[k] = f[0] /\ f[0] = Link(f[0 - 1], 0)
        BY <1>4, <3>1, <4>1, Zenon
      <4>3. Link(f[0 - 1], 0) = Link(h[k - 1], 0)
        BY <1>2, Zenon
      <4> QED
        BY <3>1, <4>2, <4>3, Zenon
    <3>2. CASE k = m + 1
      <4>1. k - 1 = m /\ m \in 0..(m + 1) /\ m # m + 1 /\ k \in 0..(m + 1)
        BY <3>2
      <4>2. h[m] = f[m] /\ h[k] = Link(f[m], m + 1)
        BY <3>2, <4>1, Zenon
      <4> QED
        BY <3>2, <4>1, <4>2, Zenon
    <3>3. CASE k # 0 /\ k # m + 1
      <4>1. k \in 0..m /\ k - 1 \in 0..m /\ k - 1 \in 0..(m + 1) /\ k - 1 # m + 1
        BY <3>3
      <4>2. h[k] = f[k] /\ h[k - 1] = f[k - 1] /\ f[k] = Link(f[k - 1], k)
        BY <1>4, <3>3, <4>1, Zenon
      <4> QED
        BY <4>2, Zenon
    <3> QED
      BY <3>1, <3>2, <3>3, Zenon
  <2>2. h = [k \in 0..(m + 1) |-> h[k]]
    BY Zenon
  <2> HIDE DEF h
  <2>3. Def(h, m + 1)
    BY <2>1, <2>2, Zenon
  <2> QED
    BY <2>3, Zenon
<1> HIDE DEF Def
<1>5. Bad = {}
  <2> SUFFICES ASSUME Bad # {} PROVE FALSE
    BY Zenon
  <2>1. Bad \subseteq Nat
    BY Zenon
  <2>2. \A m \in Nat : m \in Bad <=> ~\E f : Def(f, m)
    BY Zenon
  <2> HIDE DEF Bad
  <2>3. PICK m \in Bad : m \in Nat /\ \A k \in Bad : ~(k < m)
    BY <2>1, Least, Zenon
  <2>4. m # 0
    BY <1>3, <2>2, <2>3, Zenon
  <2>5. m - 1 \in Nat /\ m - 1 < m /\ m - 1 + 1 = m
    BY <2>3, <2>4
  <2>6. \E f : Def(f, m - 1)
    BY <2>2, <2>3, <2>5, Zenon
  <2>7. \E h : Def(h, m)
    BY <1>4, <2>5, <2>6, Zenon
  <2> QED
    BY <2>2, <2>3, <2>7, Zenon
<1>6. \E f : Def(f, Cardinality(Nodes))
  BY <1>1, <1>5, Zenon
<1>7. chain = [k \in 0..Cardinality(Nodes) |-> Link(chain[k - 1], k)]
  BY <1>6, Zenon DEF Def, chain, Link
<1>8. \A k \in 0..Cardinality(Nodes) : chain[k] = Link(chain[k - 1], k)
  BY <1>7, Zenon
<1> QED
  BY <1>1, <1>8, Zenon

\* chain computes the nodes that first leads to.
LEMMA ListIs ==
  ASSUME TypeOK, NEW s \in Seq(Nodes), Chain(s)
  PROVE  List = s
<1> PICK n : n = Len(s)
  BY Zenon
<1>1. /\ n \in Nat
      /\ \A i \in 1..n : s[i] \in DOMAIN heap /\ s[i] \in Nodes /\ s[i] # NULL
      /\ s # <<>> => 1 \in 1..n
      /\ s = <<>> => n = 0
  BY ListedNodes, Zenon
<1> PICK K : K = Cardinality(Nodes)
  BY Zenon
<1>2. K \in Nat /\ \A k \in 0..K : chain[k] = Link(chain[k - 1], k)
  BY ChainValue, Zenon
<1>3. n <= K
  <2>1. s \in [1..n -> Nodes] /\ DOMAIN s = 1..n
    BY <1>1, SeqDomain, Zenon
  <2>2. s \in Injection(1..n, Nodes)
    BY <2>1, Zenon DEF Chain, Injection, IsInjective
  <2>3. Cardinality(1..n) <= K
    BY <2>2, AsnAssumption, FS_Injection, Zenon
  <2>4. 1 \in Int /\ n \in Int
    BY <1>1
  <2>5. Cardinality(1..n) = IF 1 > n THEN 0 ELSE n - 1 + 1
    BY <2>4, FS_Interval, Zenon
  <2> QED
    BY <1>1, <1>2, <2>3, <2>5
<1> DEFINE At(d) == IF d = 0 THEN NULL ELSE s[n + 1 - d]
           Right(d) == \A k \in d..K : chain[k][At(d)] = SubSeq(s, n + 1 - d, n)
           Bad == {d \in 0..n : ~Right(d)}
<1>4. Right(0)
  <2> SUFFICES ASSUME NEW k \in 0..K PROVE chain[k][NULL] = SubSeq(s, n + 1 - 0, n)
    BY Zenon
  <2>1. chain[k][NULL] = Link(chain[k - 1], k)[NULL]
    BY <1>2, Zenon
  <2>2. Link(chain[k - 1], k)[NULL] = <<>>
    BY AsnAssumption, Zenon DEF Link, TypeOK
  <2>3. n + 1 - 0 \in Int /\ n \in Int /\ n < n + 1 - 0
    BY <1>1
  <2>4. SubSeq(s, n + 1 - 0, n) = <<>>
    BY <2>3, NoPart, Zenon
  <2> QED
    BY <2>1, <2>2, <2>4, Zenon
<1>5. ASSUME NEW d \in 1..n, Right(d - 1) PROVE Right(d)
  <2> SUFFICES ASSUME NEW k \in d..K PROVE chain[k][At(d)] = SubSeq(s, n + 1 - d, n)
    BY Zenon
  <2>1. PICK i \in 1..n : i = n + 1 - d
    <3>1. \A m \in Nat : \A e \in 1..m : m + 1 - e \in 1..m
      OBVIOUS
    <3> QED
      BY <1>1, <3>1, Zenon
  <2>2. /\ d # 0 /\ k # 0 /\ k \in 0..K /\ k - 1 \in (d - 1)..K
        /\ n + 1 - (d - 1) = i + 1 /\ ((i = n) <=> (d - 1 = 0))
    BY <1>1, <1>2, <2>1
  <2>3. At(d) = s[i] /\ s[i] \in DOMAIN heap /\ s[i] \in Nodes
    BY <1>1, <2>1, <2>2, Zenon
  <2>4. At(d - 1) = heap[s[i]].next
    BY <2>1, <2>2, Zenon DEF Chain
  <2>5. chain[k - 1][At(d - 1)] = SubSeq(s, i + 1, n)
    BY <1>5, <2>2, Zenon
  <2> HIDE DEF At
  <2>6. chain[k][s[i]] = <<s[i]>> \o chain[k - 1][heap[s[i]].next]
    <3>1. chain[k] = Link(chain[k - 1], k)
      BY <1>2, <2>2, Zenon
    <3>2. Link(chain[k - 1], k)[s[i]] = <<s[i]>> \o chain[k - 1][heap[s[i]].next]
      BY <2>2, <2>3, Zenon DEF Link
    <3> QED
      BY <3>1, <3>2, Zenon
  <2>7. SubSeq(s, i, n) = <<s[i]>> \o SubSeq(s, i + 1, n)
    BY SuffixItems, Zenon
  <2> QED
    BY <2>1, <2>3, <2>4, <2>5, <2>6, <2>7, Zenon
<1> HIDE DEF Right
<1>6. Bad = {}
  <2> SUFFICES ASSUME Bad # {} PROVE FALSE
    BY Zenon
  <2>1. Bad \subseteq Nat /\ \A d \in Bad : d \in 0..n /\ ~Right(d)
    BY <1>1
  <2>2. \A d \in 0..n : d \in Bad <=> ~Right(d)
    BY Zenon
  <2> HIDE DEF Bad
  <2>3. PICK d \in Bad : d \in Nat /\ \A m \in Bad : ~(m < d)
    BY <2>1, Least, Zenon
  <2>4. d \in 1..n /\ d - 1 \in 0..n /\ d - 1 < d
    BY <1>1, <1>4, <2>1, <2>3
  <2>5. Right(d - 1)
    BY <2>2, <2>3, <2>4, Zenon
  <2> QED
    BY <1>5, <2>1, <2>4, <2>5, Zenon
<1>7. n \in 0..n /\ K \in n..K /\ n + 1 - n = 1
  BY <1>1, <1>2, <1>3
<1>8. chain[K][At(n)] = SubSeq(s, 1, n)
  <2>1. Right(n)
    BY <1>6, <1>7, Zenon
  <2> HIDE DEF Bad, At
  <2> QED
    BY <1>7, <2>1, Zenon DEF Right
<1>9. first = At(n)
  <2>1. (n = 0) <=> (s = <<>>)
    BY <1>1, NoItems, Zenon
  <2> QED
    BY <1>7, <2>1, Zenon DEF Chain
<1>10. SubSeq(s, 1, n) = s
  BY WholePart, Zenon
<1> HIDE DEF At
<1> QED
  BY <1>8, <1>9, <1>10, Zenon DEF List

\* Whenever the mutex is free the list is sound: it ends at last, contains no node
\* twice, and none of its nodes has been freed or is in the hands of the processor
\* or of a producer, for every number of producers and nodes and whatever the
\* order of the threads' steps (asn_decoder.c, queue_push and queue_pop).
THEOREM ListAlwaysSound == Spec => []ListSound
<1>1. ASSUME AInv PROVE ListSound
  <2> PICK s \in Seq(Nodes) : Linked(s)
    BY <1>1, Zenon DEF AInv
  <2>1. TypeOK /\ Locks /\ Owned /\ Chain(s) /\ Ends(s) /\ Apart(s)
    BY <1>1, Zenon DEF AInv, Threads, Linked
  <2>2. /\ Len(s) \in Nat
        /\ \A i \in 1..Len(s) : s[i] \in DOMAIN heap /\ s[i] \in Nodes /\ s[i] # NULL
        /\ s # <<>> => 1 \in 1..Len(s) /\ Len(s) \in 1..Len(s)
    BY <2>1, ListedNodes, Zenon
  <2>3. List = s /\ DOMAIN s = 1..Len(s)
    BY <2>1, ListIs, SeqDomain, Zenon
  <2> SUFFICES ASSUME mux = NULL PROVE ListSound
    BY Zenon DEF ListSound
  <2>4. processor.pc # "unlock" /\ \A p \in Producers : producer[p].pc \in {"idle", "lock"}
    <3>1. processor.pc # "unlock" /\ \A p \in Producers : producer[p].pc \notin {"link", "last"}
      BY <2>1, AsnAssumption, Zenon DEF Locks
    <3> QED
      BY <2>1, <3>1, Zenon DEF TypeOK, Pcs
  <2>5. last = IF s = <<>> THEN NULL ELSE s[Len(s)]
    BY <2>1, <2>4, Zenon DEF Ends
  <2>6. (first = NULL) = (last = NULL)
    BY <2>1, <2>2, <2>5, Zenon DEF Chain
  <2>7. last # NULL => /\ last \in DOMAIN heap /\ heap[last].next = NULL
                       /\ List # <<>> /\ List[Len(List)] = last
    BY <2>1, <2>2, <2>3, <2>5, Zenon DEF Chain
  <2> DEFINE L == {s[i] : i \in 1..Len(s)}
  <2>8. Listed = L
    BY <2>3, Zenon DEF Listed
  <2>9. Cardinality(L) = Len(s)
    <3>1. s \in Surjection(1..Len(s), L)
      BY <2>3, SeqDomain, Zenon DEF Surjection
    <3>2. s \in Injection(1..Len(s), L)
      BY <2>1, <2>3, <3>1, Zenon DEF Chain, Injection, Surjection, IsInjective
    <3>3. IsFiniteSet(1..Len(s)) /\ Cardinality(1..Len(s)) = IF 1 > Len(s) THEN 0 ELSE Len(s) - 1 + 1
      <4>1. 1 \in Int /\ Len(s) \in Int
        BY <2>2
      <4> QED
        BY <4>1, FS_Interval, Zenon
    <3>4. Cardinality(L) = Cardinality(1..Len(s))
      BY <3>1, <3>2, <3>3, FS_Surjection, Zenon
    <3> QED
      BY <2>2, <3>3, <3>4
  <2>10. processor.node \notin L
    BY <2>1, Zenon DEF Apart
  <2>11. \A p \in Producers : producer[p].node \notin L
    BY <2>1, <2>2, <2>4, Zenon DEF Apart, Owned
  <2> QED
    BY <2>3, <2>6, <2>7, <2>8, <2>9, <2>10, <2>11, Zenon DEF ListSound
<1> QED
  BY <1>1, InitAInv, NextAInv, PTL DEF Spec

-----------------------------------------------------------------------------
(* The refinement.                                                         *)

\* The refinement mapping: the messages of the list and of the node that is
\* being written.
QueueOf(s) == [i \in DOMAIN s |-> heap[s[i]].msg]
Queue == QueueOf(List)
Status == IF file = "NULL" THEN "open" ELSE file

\* A step of the promised log.
LogStep ==
  \/ \E m \in Msgs : Queue' = Append(Queue, m) /\ UNCHANGED <<ToWrite, log, Status>>
  \/ /\ Queue # <<>> /\ ToWrite = <<>> /\ Queue' = Tail(Queue)
     /\ ToWrite' = << <<Head(Queue), "tti">>, <<Head(Queue), "text">> >>
     /\ UNCHANGED <<log, Status>>
  \/ /\ ToWrite # <<>> /\ ToWrite' = Tail(ToWrite)
     /\ log' = IF Status = "open" THEN Append(log, Head(ToWrite)) ELSE log
     /\ UNCHANGED <<Queue, Status>>
  \/ Status = "open" /\ Status' = "closed" /\ UNCHANGED <<Queue, ToWrite, log>>
  \/ Status = "closed" /\ ToWrite # <<>> /\ Status' = "crashed" /\ UNCHANGED <<Queue, ToWrite, log>>

\* The two ways a message is left to write.
LEMMA Parts ==
  \A x, y : /\ << x, y >> # <<>> /\ Head(<< x, y >>) = x /\ Tail(<< x, y >>) = << y >>
            /\ << y >> # <<>> /\ Head(<< y >>) = y /\ Tail(<< y >>) = <<>>
  OBVIOUS

\* The messages of the list.
LEMMA QueueItems ==
  ASSUME TypeOK, NEW s \in Seq(Nodes), Chain(s)
  PROVE  /\ Queue = QueueOf(s) /\ Queue \in Seq(Msgs) /\ Len(Queue) = Len(s)
         /\ \A i \in 1..Len(s) : Queue[i] = heap[s[i]].msg
<1>1. List = s
  BY ListIs, Zenon
<1>2. /\ Len(s) \in Nat /\ DOMAIN s = 1..Len(s)
      /\ \A i \in 1..Len(s) : heap[s[i]].msg \in Msgs
  BY ListedNodes, SeqDomain, Zenon DEF TypeOK
<1>3. Queue = [i \in 1..Len(s) |-> heap[s[i]].msg]
  BY <1>1, <1>2, Zenon DEF Queue, QueueOf
<1>4. Queue \in [1..Len(s) -> Msgs]
  BY <1>2, <1>3, Zenon
<1>5. Queue \in Seq(Msgs)
  BY <1>2, <1>4, SeqIs, Zenon
<1>6. DOMAIN Queue = 1..Len(s) /\ DOMAIN Queue = 1..Len(Queue) /\ Len(Queue) \in Nat
  BY <1>4, <1>5, SeqDomain, Zenon
<1>7. Len(Queue) = Len(s)
  BY <1>2, <1>6
<1> QED
  BY <1>1, <1>3, <1>5, <1>7, Zenon DEF Queue

\* The two facts, for the state after a step.
ListFacts ==
  \A s \in Seq(Nodes) : TypeOK /\ Chain(s) =>
    /\ List = s /\ Queue = QueueOf(s) /\ Queue \in Seq(Msgs) /\ Len(Queue) = Len(s)
    /\ \A i \in 1..Len(s) : Queue[i] = heap[s[i]].msg

\* They hold in every state.
LEMMA ListFactsHold == ListFacts
  BY ListIs, QueueItems, Zenon DEF ListFacts

\* So they hold after a step.
LEMMA ListFactsNext == ListFacts'
  BY ListFactsHold, PTL

\* The list after a step that does not change it.
LEMMA SameQueue ==
  ASSUME TypeOK, TypeOK', NEW s \in Seq(Nodes), Chain(s), Chain(s)',
         \A i \in 1..Len(s) : heap'[s[i]].msg = heap[s[i]].msg
  PROVE  UNCHANGED Queue
<1>1. Queue = QueueOf(s) /\ Queue' = QueueOf(s)'
  BY ListFactsHold, ListFactsNext, Zenon DEF ListFacts
<1>2. DOMAIN s = 1..Len(s)
  BY SeqDomain, Zenon
<1> QED
  BY <1>1, <1>2, Zenon DEF QueueOf

\* queue_push accepts the message.
LEMMA PushLinkStep ==
  ASSUME AInv, NEW p \in Producers, PushLink(p)
  PROVE  LogStep
<1> PICK s \in Seq(Nodes) : Linked(s)
  BY DEF AInv
<1> PICK n : n = producer[p].node
  BY Zenon
<1> PICK t : t = Append(s, n)
  BY Zenon
<1>1. TypeOK /\ Threads /\ Owned /\ Chain(s)
  BY Zenon DEF AInv, Threads, Linked
<1>2. /\ n \in DOMAIN heap /\ n \in Nodes
      /\ TypeOK' /\ Threads' /\ t \in Seq(Nodes) /\ Linked(t)'
      /\ DOMAIN heap' = DOMAIN heap /\ \A x \in DOMAIN heap : heap'[x].msg = heap[x].msg
  BY <1>1, PushLinkAInv, Zenon
<1> DEFINE m == heap[n].msg
<1>3. m \in Msgs
  BY <1>1, <1>2, Zenon DEF TypeOK
<1>4. /\ Queue \in Seq(Msgs) /\ Len(Queue) = Len(s) /\ Len(s) \in Nat
      /\ \A i \in 1..Len(s) : Queue[i] = heap[s[i]].msg
  BY <1>1, QueueItems, SeqDomain, Zenon
<1>5. Chain(t)'
  BY <1>2, Zenon DEF Linked
<1>6. /\ Queue' \in Seq(Msgs) /\ Len(Queue') = Len(t)
      /\ \A i \in 1..Len(t) : Queue'[i] = heap'[t[i]].msg
  BY <1>2, <1>5, ListFactsNext, Zenon DEF ListFacts
<1>7. /\ Len(t) = Len(s) + 1 /\ t[Len(s) + 1] = n
      /\ \A i \in 1..Len(s) : t[i] = s[i]
      /\ \A i \in 1..Len(t) : i \in 1..Len(s) \/ i = Len(s) + 1
  BY <1>2, AppendItems
<1> HIDE DEF m
<1>8. PICK a : a = Append(Queue, m)
  BY Zenon
<1>9. /\ a \in Seq(Msgs) /\ Len(a) = Len(s) + 1 /\ a[Len(s) + 1] = m
      /\ \A i \in 1..Len(s) : a[i] = Queue[i]
  BY <1>3, <1>4, <1>8, Appended
<1>10. \A i \in 1..Len(s) : s[i] \in DOMAIN heap
  BY <1>1, ListedNodes, Zenon
<1>11. \A i \in 1..Len(t) : Queue'[i] = a[i]
  <2> TAKE i \in 1..Len(t)
  <2>1. Queue'[i] = heap'[t[i]].msg
    BY <1>6, Zenon
  <2>2. CASE i = Len(s) + 1
    BY <1>2, <1>7, <1>9, <2>1, <2>2, Zenon DEF m
  <2>3. CASE i \in 1..Len(s)
    <3>1. t[i] = s[i] /\ s[i] \in DOMAIN heap /\ a[i] = Queue[i] /\ Queue[i] = heap[s[i]].msg
      BY <1>4, <1>7, <1>9, <1>10, <2>3, Zenon
    <3> QED
      BY <1>2, <2>1, <3>1, Zenon
  <2>4. i \in 1..Len(s) \/ i = Len(s) + 1
    BY <1>4, <1>7, Zenon
  <2> QED
    BY <2>2, <2>3, <2>4, Zenon
<1>12. Queue' = a
  BY <1>6, <1>7, <1>9, <1>11, SameItems
<1>13. UNCHANGED <<processor, file, log>>
  BY Zenon DEF PushLink
<1>14. processor.node = NULL \/ processor.node \in DOMAIN heap
  BY <1>1, Zenon DEF Owned, TypeOK
<1>15. UNCHANGED <<ToWrite, log, Status>>
  BY <1>2, <1>13, <1>14, Zenon DEF ToWrite, Status
<1> QED
  BY <1>3, <1>8, <1>12, <1>15, Zenon DEF LogStep

\* queue_pop takes the oldest message.
LEMMA PopTakeStep ==
  ASSUME AInv, NEW s \in Seq(Nodes), Linked(s), s # <<>>, PopTake
  PROVE  LogStep
<1> PICK t : t = Tail(s)
  BY Zenon
<1>1. TypeOK /\ Threads /\ Owned /\ Chain(s)
  BY Zenon DEF AInv, Threads, Linked
<1>2. TypeOK' /\ t \in Seq(Nodes) /\ Chain(t)'
  BY <1>1, PopTakeAInv, Zenon DEF Linked
<1>3. /\ Queue \in Seq(Msgs) /\ Len(Queue) = Len(s) /\ Len(s) \in Nat
      /\ \A i \in 1..Len(s) : Queue[i] = heap[s[i]].msg
  BY <1>1, QueueItems, SeqDomain, Zenon
<1>4. /\ Queue' \in Seq(Msgs) /\ Len(Queue') = Len(t)
      /\ \A i \in 1..Len(t) : Queue'[i] = heap'[t[i]].msg
  BY <1>2, ListFactsNext, Zenon DEF ListFacts
<1>5. first = s[1] /\ first \in DOMAIN heap /\ first # NULL /\ 1 \in 1..Len(s)
  BY <1>1, ListedNodes, Zenon DEF Chain
<1>6. /\ processor.pc = "take" /\ processor' = [pc |-> "unlock", node |-> first]
      /\ UNCHANGED <<heap, file, log>>
  BY <1>5, Zenon DEF PopTake
<1>7. /\ Len(t) = Len(s) - 1
      /\ \A i \in 1..Len(t) : t[i] = s[i + 1] /\ i + 1 \in 1..Len(s)
  BY TailItems, Zenon
<1>8. Queue # <<>>
  BY <1>3, <1>5, NoItems, Zenon
<1>9. PICK a : a = Tail(Queue)
  BY Zenon
<1>10. /\ a \in Seq(Msgs) /\ Len(a) = Len(s) - 1 /\ Head(Queue) = Queue[1]
       /\ \A i \in 1..Len(a) : a[i] = Queue[i + 1]
  BY <1>3, <1>8, <1>9, Popped
<1>11. \A i \in 1..Len(t) : Queue'[i] = a[i]
  <2> TAKE i \in 1..Len(t)
  <2>1. Queue'[i] = heap'[t[i]].msg
    BY <1>4, Zenon
  <2>2. t[i] = s[i + 1] /\ Queue[i + 1] = heap[s[i + 1]].msg
    BY <1>3, <1>7, Zenon
  <2>3. a[i] = Queue[i + 1]
    BY <1>7, <1>10, Zenon
  <2> QED
    BY <1>6, <2>1, <2>2, <2>3, Zenon
<1>12. Queue' = a
  BY <1>4, <1>7, <1>10, <1>11, SameItems, Zenon
<1>13. ToWrite = <<>>
  BY <1>1, <1>6, Zenon DEF Owned, ToWrite
<1>14. ToWrite' = << <<Head(Queue), "tti">>, <<Head(Queue), "text">> >>
  BY <1>3, <1>5, <1>6, <1>10, Zenon DEF ToWrite
<1> QED
  BY <1>6, <1>8, <1>9, <1>12, <1>13, <1>14, Zenon DEF LogStep, Status

\* The message is written, in two steps.
LEMMA WriteStep ==
  ASSUME AInv, WriteHeader \/ WriteBody
  PROVE  LogStep
<1> PICK s \in Seq(Nodes) : Linked(s)
  BY DEF AInv
<1>1. TypeOK /\ Threads /\ Owned /\ Opened /\ Chain(s)
  BY Zenon DEF AInv, Threads, Linked
<1>2. processor.pc \in {"header", "body"} /\ file' = file
  BY Zenon DEF WriteHeader, WriteBody
<1>3. processor.node # NULL
  BY <1>1, <1>2, AsnAssumption, Zenon DEF Owned, TypeOK
<1>4. (file = "open") <=> (Status = "open")
  BY <1>1, <1>2, Zenon DEF Opened, Status, TypeOK
<1> DEFINE m == heap[processor.node].msg
<1>5. CASE WriteHeader
  <2>1. /\ processor.pc = "header" /\ processor'.pc = "body" /\ processor'.node = processor.node
        /\ UNCHANGED <<first, heap>> /\ processor.pc # "body"
        /\ log' = IF file = "open" THEN Append(log, <<m, "tti">>) ELSE log
    BY <1>1, <1>5, Zenon DEF WriteHeader, TypeOK
  <2>2. UNCHANGED Queue
    <3>1. UNCHANGED List
      BY <2>1 DEF List, chain
    <3> QED
      BY <2>1, <3>1, Zenon DEF Queue, QueueOf
  <2>3. ToWrite = << <<m, "tti">>, <<m, "text">> >> /\ ToWrite' = << <<m, "text">> >>
    BY <1>3, <2>1, Zenon DEF ToWrite
  <2>4. ToWrite # <<>> /\ ToWrite' = Tail(ToWrite) /\ Head(ToWrite) = <<m, "tti">>
    BY <2>3, Parts, Zenon
  <2> QED
    BY <1>2, <1>4, <2>1, <2>2, <2>4, Zenon DEF LogStep, Status
<1>6. CASE WriteBody
  <2>1. /\ processor.pc = "body" /\ processor'.node = NULL
        /\ log' = IF file = "open" THEN Append(log, <<m, "text">>) ELSE log
    BY <1>6, Zenon DEF WriteBody
  <2>2. TypeOK' /\ Chain(s)' /\ \A i \in 1..Len(s) : heap'[s[i]] = heap[s[i]]
    BY <1>1, <1>6, WriteBodyAInv, Zenon DEF Linked
  <2>3. UNCHANGED Queue
    BY <1>1, <2>2, SameQueue, Zenon
  <2>4. ToWrite = << <<m, "text">> >> /\ ToWrite' = <<>>
    BY <1>3, <2>1, Zenon DEF ToWrite
  <2>5. ToWrite # <<>> /\ ToWrite' = Tail(ToWrite) /\ Head(ToWrite) = <<m, "text">>
    BY <2>4, Parts, Zenon
  <2> QED
    BY <1>2, <1>4, <2>1, <2>3, <2>5, Zenon DEF LogStep, Status
<1> QED
  BY <1>5, <1>6

\* A step that leaves the list, the node being written and the file alone.
LEMMA QuietStep ==
  ASSUME UNCHANGED <<first, heap, log>>, processor'.node = processor.node,
         (processor'.pc = "body") <=> (processor.pc = "body")
  PROVE  UNCHANGED <<Queue, ToWrite, log>>
<1>1. UNCHANGED List
  BY DEF List, chain
<1> QED
  BY <1>1, Zenon DEF Queue, QueueOf, ToWrite

\* Every step is one of the promised log.
LEMMA LogSimulation ==
  ASSUME AInv, [Next]_vars
  PROVE  LogStep \/ UNCHANGED <<Queue, ToWrite, log, Status>>
<1> PICK s \in Seq(Nodes) : Linked(s)
  BY DEF AInv
<1>1. TypeOK /\ Threads /\ Owned /\ Opened /\ Chain(s)
  BY Zenon DEF AInv, Threads, Linked
<1>2. CASE UNCHANGED vars
  BY <1>2, QuietStep, Zenon DEF vars, Status
<1>3. CASE InitOpen
  <2>1. UNCHANGED <<Queue, ToWrite, log>>
    BY <1>3, QuietStep, Zenon DEF InitOpen
  <2> QED
    BY <1>1, <1>3, <2>1, Zenon DEF InitOpen, Opened, Status
<1>4. CASE InitThread
  <2>1. processor'.node = processor.node /\ processor.pc # "body" /\ processor'.pc # "body"
    BY <1>1, <1>4, Zenon DEF InitThread, TypeOK, Opened
  <2>2. UNCHANGED <<Queue, ToWrite, log>>
    BY <1>4, <2>1, QuietStep, Zenon DEF InitThread
  <2>3. UNCHANGED Status
    BY <1>1, <1>4, Zenon DEF InitThread, Opened, Status
  <2> QED
    BY <2>2, <2>3, Zenon
<1>5. CASE TermLock
  BY <1>5, QuietStep, Zenon DEF TermLock, Status
<1>6. CASE TermClose
  <2>1. UNCHANGED <<Queue, ToWrite, log>>
    BY <1>6, QuietStep, Zenon DEF TermClose
  <2>2. CASE file = "open"
    <3>1. Status = "open" /\ Status' = "closed"
      BY <1>6, <2>2, Zenon DEF TermClose, Status
    <3> QED
      BY <2>1, <3>1, Zenon DEF LogStep
  <2>3. CASE file # "open"
    BY <1>6, <2>1, <2>3, Zenon DEF TermClose, Status
  <2> QED
    BY <2>2, <2>3, Zenon
<1>7. ASSUME NEW p \in Producers, PushAlloc(p) PROVE UNCHANGED <<Queue, ToWrite, log, Status>>
  <2>1. /\ TypeOK' /\ Chain(s)'
        /\ \A x \in DOMAIN heap : x \in DOMAIN heap' /\ heap'[x] = heap[x]
    BY <1>1, <1>7, PushAllocAInv, Zenon DEF Linked
  <2>2. \A i \in 1..Len(s) : heap'[s[i]].msg = heap[s[i]].msg
    BY <1>1, <2>1, ListedNodes, Zenon
  <2>3. UNCHANGED Queue
    BY <1>1, <2>1, <2>2, SameQueue, Zenon
  <2>4. processor.node = NULL \/ processor.node \in DOMAIN heap
    BY <1>1, Zenon DEF Owned, TypeOK
  <2>5. UNCHANGED <<processor, file, log>>
    BY <1>7, Zenon DEF PushAlloc
  <2> QED
    BY <2>1, <2>3, <2>4, <2>5, Zenon DEF ToWrite, Status
<1>8. ASSUME NEW p \in Producers, PushLock(p) \/ PushLast(p) PROVE UNCHANGED <<Queue, ToWrite, log, Status>>
  <2>1. UNCHANGED <<first, heap, log, processor, file>>
    BY <1>8, Zenon DEF PushLock, PushLast
  <2> QED
    BY <2>1, QuietStep, Zenon DEF Status
<1>9. CASE PopLock \/ PopUnlock
  <2>1. /\ UNCHANGED <<first, heap, log, file>> /\ processor'.node = processor.node
        /\ processor.pc # "body" /\ processor'.pc # "body"
    BY <1>1, <1>9, Zenon DEF PopLock, PopUnlock, TypeOK
  <2> QED
    BY <2>1, QuietStep, Zenon DEF Status
<1>10. CASE PopTake
  <2>1. CASE s = <<>>
    <3>1. first = NULL
      BY <1>1, <2>1, Zenon DEF Chain
    <3>2. /\ UNCHANGED <<first, heap, log, file>> /\ processor'.node = processor.node
          /\ processor.pc # "body" /\ processor'.pc # "body"
      BY <1>1, <1>10, <3>1, Zenon DEF PopTake, TypeOK
    <3> QED
      BY <3>2, QuietStep DEF Status
  <2>2. CASE s # <<>>
    BY <1>10, <2>2, PopTakeStep, Zenon
  <2> QED
    BY <2>1, <2>2, Zenon
<1>11. CASE WriteClosed
  <2>1. UNCHANGED <<Queue, ToWrite, log>>
    BY <1>11, QuietStep, Zenon DEF WriteClosed
  <2>2. Status = "closed" /\ Status' = "crashed"
    BY <1>11, Zenon DEF WriteClosed, Status
  <2>3. processor.node # NULL
    BY <1>1, <1>11, AsnAssumption, Zenon DEF WriteClosed, Owned, TypeOK
  <2>4. ToWrite # <<>>
    BY <2>3, Parts, Zenon DEF ToWrite
  <2> QED
    BY <2>1, <2>2, <2>4, Zenon DEF LogStep
<1> QED
  BY <1>2, <1>3, <1>4, <1>5, <1>6, <1>7, <1>8, <1>9, <1>10, <1>11, PushLinkStep, WriteStep, Zenon
     DEF Next, ProcessorStep, ProducerStep

\* The linked list, its mutex and the processor thread keep the promise of
\* AsnLog: accepted messages are written one at a time, each once, in the order
\* in which they were accepted, until the log is closed, and nothing but a write to
\* the closed file ends the program.  This holds for every
\* number of producers, nodes and messages, whether or not written nodes are freed
\* and their addresses used again (asn_decoder.c, push_asn_payload to
\* terminate_asn_decoder).
THEOREM DecoderKeepsPromise == Spec => KeepsPromise
<1>1. Init => Promise!Init
  <2> SUFFICES ASSUME Init PROVE Promise!Init
    OBVIOUS
  <2>1. <<>> \in Seq(Nodes) /\ <<>> \in Seq(DOMAIN heap) /\ Len(<<>>) = 0 /\ DOMAIN <<>> = {}
    OBVIOUS
  <2>2. Chain(<<>>)
    BY <2>1 DEF Init, Chain
  <2>3. TypeOK
    BY InitAInv, Zenon DEF AInv
  <2>4. List = <<>>
    BY <2>1, <2>2, <2>3, ListIs, Zenon
  <2>5. [i \in DOMAIN List |-> heap[List[i]].msg] = <<>>
    BY <2>1, <2>4
  <2> QED
    BY <2>5, Zenon DEF Init, ToWrite, Promise!Init
<1>2. AInv /\ [Next]_vars => [Promise!Next]_(Promise!vars)
  <2> SUFFICES ASSUME AInv, [Next]_vars PROVE [Promise!Next]_(Promise!vars)
    BY Zenon
  <2>1. LogStep /\ Status # "crashed" => Promise!Next
    BY Zenon DEF LogStep, Queue, QueueOf, Status, Promise!Next, Promise!Accept, Promise!Take,
           Promise!Write, Promise!Close, Promise!Crash
  <2>2. UNCHANGED <<Queue, ToWrite, log, Status>> => UNCHANGED Promise!vars
    BY Zenon DEF Queue, QueueOf, Status, Promise!vars
  <2>3. UNCHANGED vars => UNCHANGED <<Queue, ToWrite, log, Status>>
    BY QuietStep, Zenon DEF vars, Status
  <2>4. Next => Status # "crashed"
    BY Zenon DEF Next, Alive, Status
  <2> QED
    BY <2>1, <2>2, <2>3, <2>4, LogSimulation, Zenon
<1> QED
  BY <1>1, <1>2, InitAInv, NextAInv, PTL DEF Spec, KeepsPromise, Promise!Spec
=============================================================================
