------------------------------ MODULE AsnDecoder ------------------------------
(***************************************************************************)
(* The asynchronous ASN.1 decoder of NR-Scope                              *)
(* (nrscope/src/libs/asn_decoder.c): a linked list of messages behind a    *)
(* mutex, producers that push, one processor thread that pops and writes   *)
(* to the log file, and a terminator that closes the file.                 *)
(***************************************************************************)
EXTENDS Integers, Sequences, FiniteSets

CONSTANTS
  Producers,   \* threads that call push_asn_payload
  Nodes,       \* addresses malloc may return for a Node
  NULL,
  PushBound,   \* bound: payloads each producer pushes
  Freed,       \* whether a written node is freed: {TRUE} when built with both
               \* ASN.1 libraries, {FALSE} with none, BOOLEAN with one of them
  MayTerminate \* TRUE when terminate_asn_decoder may be called

ASSUME AsnAssumption ==
  /\ IsFiniteSet(Nodes) /\ NULL \notin Nodes
  /\ Producers \cap {NULL, "processor", "terminator"} = {}
  /\ NULL \notin {"processor", "terminator"}
  /\ PushBound \in Nat
  /\ Freed \subseteq BOOLEAN /\ MayTerminate \in BOOLEAN

VARIABLES
  file,       \* decoder.file: "NULL", "open", "closed" (dangling), or "crashed"
              \* when a write to the closed file has ended the program
  first,      \* decoder.first
  last,       \* decoder.last
  mux,        \* the holder of decoder.mux, or NULL
  heap,       \* the allocated nodes: [next, msg]
  init,       \* progress of init_asn_decoder
  producer,   \* per producer: program counter, node and payloads pushed
  processor,  \* the processor thread: program counter and node
  terminator, \* progress of terminate_asn_decoder
  log         \* history: what was written to the file

vars == <<file, first, last, mux, heap, init, producer, processor, terminator, log>>

Msgs == Producers \X (1..PushBound)

\* What the log consists of: the TTI line and the text of a message.
Entries == Msgs \X {"tti", "text"}

Init ==
  /\ file = "NULL" /\ first = NULL /\ last = NULL /\ mux = NULL
  /\ heap = [n \in {} |-> NULL]
  /\ init = "open"
  /\ producer = [p \in Producers |-> [pc |-> "idle", node |-> NULL, pushed |-> 0]]
  /\ processor = [pc |-> "none", node |-> NULL]
  /\ terminator = "idle"
  /\ log = <<>>

-----------------------------------------------------------------------------
(* init_asn_decoder *)

InitOpen ==
  /\ init = "open"
  /\ \/ file' = "open" /\ init' = "thread"
     \/ file' = "NULL" /\ init' = "failed"
  /\ UNCHANGED <<first, last, mux, heap, producer, processor, terminator, log>>

InitThread ==
  /\ init = "thread"
  /\ \/ /\ processor' = [processor EXCEPT !.pc = "pop"]
        /\ init' = "done"
        /\ UNCHANGED file
     \/ /\ file' = "NULL"
        /\ init' = "failed"
        /\ UNCHANGED processor
  /\ UNCHANGED <<first, last, mux, heap, producer, terminator, log>>

-----------------------------------------------------------------------------
(* push_asn_payload by producer p, which has seen init_asn_decoder return   *)

\* Mutant: the next pointer of the new node is not set.
PushAlloc_NoNext(p) ==
  /\ init = "done" /\ producer[p].pc = "idle" /\ producer[p].pushed < PushBound
  /\ \E n \in Nodes \ DOMAIN heap :
       /\ heap' = [x \in DOMAIN heap \cup {n} |->
                     IF x = n THEN [next |-> "wild", msg |-> <<p, producer[p].pushed + 1>>]
                              ELSE heap[x]]
       /\ producer' = [producer EXCEPT ![p].pc = "lock", ![p].node = n]
  /\ UNCHANGED <<file, first, last, mux, init, processor, terminator, log>>

\* The check of the file, the allocations and the filled node.
PushAlloc(p) ==
  /\ init \in {"done", "failed"}
  /\ producer[p].pc = "idle" /\ producer[p].pushed < PushBound
  /\ \/ /\ file # "NULL"
        /\ \E n \in Nodes \ DOMAIN heap :
             /\ heap' = [x \in DOMAIN heap \cup {n} |->
                           IF x = n THEN [next |-> NULL, msg |-> <<p, producer[p].pushed + 1>>]
                                    ELSE heap[x]]
             /\ producer' = [producer EXCEPT ![p].pc = "lock", ![p].node = n]
     \/ \* no file, or no memory: return 1
        /\ producer' = [producer EXCEPT ![p].pushed = @ + 1]
        /\ UNCHANGED heap
  /\ UNCHANGED <<file, first, last, mux, init, processor, terminator, log>>

PushLock(p) ==
  /\ producer[p].pc = "lock" /\ mux = NULL
  /\ mux' = p
  /\ producer' = [producer EXCEPT ![p].pc = "link"]
  /\ UNCHANGED <<file, first, last, heap, init, processor, terminator, log>>

\* Mutant: the node is put at the head of the list.
PushLink_Front(p) ==
  /\ producer[p].pc = "link"
  /\ heap' = [heap EXCEPT ![producer[p].node].next = first]
  /\ first' = producer[p].node
  /\ producer' = [producer EXCEPT ![p].pc = "last"]
  /\ UNCHANGED <<file, last, mux, init, processor, terminator, log>>

\* The first of the two assignments of queue_push.
PushLink(p) ==
  /\ producer[p].pc = "link"
  /\ IF last = NULL
     THEN first' = producer[p].node /\ UNCHANGED heap
     ELSE heap' = [heap EXCEPT ![last].next = producer[p].node] /\ UNCHANGED first
  /\ producer' = [producer EXCEPT ![p].pc = "last"]
  /\ UNCHANGED <<file, last, mux, init, processor, terminator, log>>

\* The second, the unlock and the return.
PushLast(p) ==
  /\ producer[p].pc = "last"
  /\ last' = producer[p].node
  /\ mux' = NULL
  /\ producer' = [producer EXCEPT ![p] = [pc |-> "idle", node |-> NULL, pushed |-> @.pushed + 1]]
  /\ UNCHANGED <<file, first, heap, init, processor, terminator, log>>

-----------------------------------------------------------------------------
(* asn_processor *)

PopLock ==
  /\ processor.pc = "pop" /\ mux = NULL
  /\ mux' = "processor"
  /\ processor' = [processor EXCEPT !.pc = "take"]
  /\ UNCHANGED <<file, first, last, heap, init, producer, terminator, log>>

\* Mutant: the processor ends when it finds the queue empty.
PopTake_Ends ==
  /\ processor.pc = "take"
  /\ IF first = NULL
     THEN processor' = [processor EXCEPT !.pc = "none"] /\ mux' = NULL /\ UNCHANGED first
     ELSE /\ processor' = [pc |-> "unlock", node |-> first]
          /\ first' = IF first = last THEN NULL ELSE heap[first].next
          /\ UNCHANGED mux
  /\ UNCHANGED <<file, last, heap, init, producer, terminator, log>>

\* queue_pop up to its first assignment; an empty queue is left at once, to be
\* polled again after a sleep.
PopTake ==
  /\ processor.pc = "take"
  /\ IF first = NULL
     THEN /\ processor' = [processor EXCEPT !.pc = "pop"]
          /\ mux' = NULL
          /\ UNCHANGED first
     ELSE /\ processor' = [pc |-> "unlock", node |-> first]
          /\ first' = IF first = last THEN NULL ELSE heap[first].next
          /\ UNCHANGED mux
  /\ UNCHANGED <<file, last, heap, init, producer, terminator, log>>

\* Mutant: last is not reset when the list becomes empty.
PopUnlock_KeepsLast ==
  /\ processor.pc = "unlock"
  /\ mux' = NULL
  /\ processor' = [processor EXCEPT !.pc = "header"]
  /\ UNCHANGED <<file, first, last, heap, init, producer, terminator, log>>

\* The second assignment of queue_pop and the unlock.
PopUnlock ==
  /\ processor.pc = "unlock"
  /\ last' = IF first = NULL THEN NULL ELSE last
  /\ mux' = NULL
  /\ processor' = [processor EXCEPT !.pc = "header"]
  /\ UNCHANGED <<file, first, heap, init, producer, terminator, log>>

\* fprintf of the TTI line.  Writing to a FILE that was closed is undefined:
\* nothing reaches the file, or the program ends (WriteClosed).
WriteHeader ==
  /\ processor.pc = "header"
  /\ log' = IF file = "open" THEN Append(log, <<heap[processor.node].msg, "tti">>) ELSE log
  /\ processor' = [processor EXCEPT !.pc = "body"]
  /\ UNCHANGED <<file, first, last, mux, heap, init, producer, terminator>>

\* The message itself, and the node's release.  The default branch, which does
\* neither, is left out: payloads have one of the four types of PayloadType.
WriteBody ==
  /\ processor.pc = "body"
  /\ log' = IF file = "open" THEN Append(log, <<heap[processor.node].msg, "text">>) ELSE log
  /\ \E freed \in Freed :
       heap' = IF freed THEN [n \in DOMAIN heap \ {processor.node} |-> heap[n]] ELSE heap
  /\ processor' = [pc |-> "pop", node |-> NULL]
  /\ UNCHANGED <<file, first, last, mux, init, producer, terminator>>

WriteClosed ==
  /\ processor.pc \in {"header", "body"} /\ file = "closed"
  /\ file' = "crashed"
  /\ UNCHANGED <<first, last, mux, heap, init, producer, processor, terminator, log>>

-----------------------------------------------------------------------------
(* terminate_asn_decoder: the file is closed with the mutex held, "to       *)
(* ensure the file is not closed durin a write"; but the processor writes   *)
(* without the mutex, and neither it nor decoder.file is told.              *)

TermLock ==
  /\ MayTerminate /\ init \in {"done", "failed"}
  /\ terminator = "idle" /\ mux = NULL
  /\ mux' = "terminator"
  /\ terminator' = "close"
  /\ UNCHANGED <<file, first, last, heap, init, producer, processor, log>>

TermClose ==
  /\ terminator = "close"
  /\ file' = IF file = "open" THEN "closed" ELSE file
  /\ mux' = NULL
  /\ terminator' = "done"
  /\ UNCHANGED <<first, last, heap, init, producer, processor, log>>

-----------------------------------------------------------------------------
ProcessorStep == PopLock \/ PopTake \/ PopUnlock \/ WriteHeader \/ WriteBody \/ WriteClosed

ProducerStep(p) == PushAlloc(p) \/ PushLock(p) \/ PushLink(p) \/ PushLast(p)

Alive == file # "crashed"

Next ==
  /\ Alive
  /\ \/ InitOpen \/ InitThread
     \/ ProcessorStep
     \/ \E p \in Producers : ProducerStep(p)
     \/ TermLock \/ TermClose

Spec == Init /\ [][Next]_vars

\* Threads run until they block; a thread that waits for the mutex gets it in
\* the end, since every holder releases it and the others pause between calls.
Fairness ==
  /\ WF_vars(InitOpen \/ InitThread)
  /\ WF_vars(Alive /\ (PopTake \/ PopUnlock \/ WriteHeader \/ WriteBody))
  /\ SF_vars(Alive /\ PopLock)
  /\ \A p \in Producers : /\ WF_vars(Alive /\ (PushLink(p) \/ PushLast(p)))
                           /\ SF_vars(Alive /\ PushLock(p))
  /\ WF_vars(Alive /\ TermClose)

FairSpec == Spec /\ Fairness

-----------------------------------------------------------------------------
(* Properties.                                                             *)

Pcs == {"idle", "lock", "link", "last"}

TypeOK ==
  /\ file \in {"NULL", "open", "closed", "crashed"}
  /\ first \in Nodes \cup {NULL} /\ last \in Nodes \cup {NULL}
  /\ mux \in Producers \cup {"processor", "terminator", NULL}
  /\ DOMAIN heap \subseteq Nodes
  /\ \A n \in DOMAIN heap : heap[n] \in [next : Nodes \cup {NULL}, msg : Msgs]
  /\ init \in {"open", "thread", "done", "failed"}
  /\ producer \in [Producers -> [pc : Pcs, node : Nodes \cup {NULL}, pushed : 0..PushBound]]
  /\ processor \in [pc : {"none", "pop", "take", "unlock", "header", "body"},
                    node : Nodes \cup {NULL}]
  /\ terminator \in {"idle", "close", "done"}
  /\ log \in Seq(Entries)

\* The nodes of the list in order, following next for at most k links.
chain[k \in 0..Cardinality(Nodes)] ==
  [n \in Nodes \cup {NULL} |->
     IF k = 0 \/ n \notin DOMAIN heap THEN <<>> ELSE <<n>> \o chain[k - 1][heap[n].next]]

List == chain[Cardinality(Nodes)][first]

Listed == {List[i] : i \in DOMAIN List}

\* The list is sound whenever the mutex is free: it ends at last, contains no
\* node twice, and none of its nodes has been freed or is still in the hands of
\* the processor or of a producer.
ListSound ==
  mux = NULL =>
    /\ (first = NULL) = (last = NULL)
    /\ last # NULL => /\ last \in DOMAIN heap /\ heap[last].next = NULL
                      /\ List # <<>> /\ List[Len(List)] = last
    /\ Cardinality(Listed) = Len(List)
    /\ processor.node \notin Listed
    /\ \A p \in Producers : producer[p].node \notin Listed

\* What is left to write of the node in the processor's hands.
ToWrite ==
  IF processor.node = NULL THEN <<>>
  ELSE LET m == heap[processor.node].msg
       IN  IF processor.pc = "body" THEN << <<m, "text">> >> ELSE << <<m, "tti">>, <<m, "text">> >>

\* The messages of the list, of the node being written and of the log behave as
\* the promised log does.
Promise == INSTANCE AsnLog WITH
  queue <- [i \in DOMAIN List |-> heap[List[i]].msg],
  taken <- ToWrite,
  log   <- log,
  state <- IF file = "NULL" THEN "open" ELSE file

\* The linked list, its mutex and the processor implement that promise, also
\* when terminate_asn_decoder closes the file between two writes of a message:
\* until then accepted messages reach the log whole, once and in order, afterwards
\* nothing is added to it, and nothing but a write to the closed file ends the
\* program (asn_decoder.c:44-144, 170-206).
KeepsPromise == Promise!Spec

\* Every accepted message is written in the end, unless the log is closed: the
\* polling processor overlooks none.
Written(m) == \E i \in DOMAIN log : log[i] = <<m, "text">>

AllWritten ==
  \A p \in Producers, k \in 1..PushBound :
    (producer[p].pc = "last" /\ producer[p].pushed = k - 1) ~>
      (Written(<<p, k>>) \/ file \in {"closed", "crashed"})
=============================================================================
