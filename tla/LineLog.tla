------------------------------- MODULE LineLog -------------------------------
(***************************************************************************)
(* What the bounded line queues of the XDR server promise their readers:   *)
(* a reader is sent the lines pushed after it joined, in order and each    *)
(* once, and it misses lines of a queue only when more than the queue's    *)
(* capacity came since its last fetch.                                     *)
(***************************************************************************)
EXTENDS Integers

CONSTANTS Readers, Queues, Capacity

VARIABLES
  last,       \* lines pushed to each queue: they are numbered from 1
  present,    \* readers that have joined each queue
  fetched,    \* the last line each reader has fetched
  delivered   \* the last line each reader has been sent or has missed

logVars == <<last, present, fetched, delivered>>

Later(m, n) == IF m < n THEN n ELSE m

Init ==
  /\ last = [q \in Queues |-> 0]
  /\ present = [q \in Queues |-> {}]
  /\ fetched = [q \in Queues |-> [r \in Readers |-> 0]]
  /\ delivered = [q \in Queues |-> [r \in Readers |-> 0]]

Publish(q, n) ==
  /\ last' = [last EXCEPT ![q] = @ + n]
  /\ UNCHANGED <<present, fetched, delivered>>

Join(q, r) ==
  /\ r \notin present[q]
  /\ present' = [present EXCEPT ![q] = @ \cup {r}]
  /\ fetched' = [fetched EXCEPT ![q][r] = last[q]]
  /\ delivered' = [delivered EXCEPT ![q][r] = last[q]]
  /\ UNCHANGED last

Fetch(q, r) ==
  /\ r \in present[q] /\ delivered[q][r] = fetched[q][r]
  /\ fetched' = [fetched EXCEPT ![q][r] = last[q]]
  /\ delivered' = [delivered EXCEPT ![q][r] = Later(@, last[q] - Capacity[q])]
  /\ UNCHANGED <<last, present>>

Deliver(q, r) ==
  /\ r \in present[q] /\ delivered[q][r] < fetched[q][r]
  /\ delivered' = [delivered EXCEPT ![q][r] = @ + 1]
  /\ UNCHANGED <<last, present, fetched>>

Leave(r) ==
  /\ present' = [q \in Queues |-> present[q] \ {r}]
  /\ fetched' = [q \in Queues |-> [fetched[q] EXCEPT ![r] = 0]]
  /\ delivered' = [q \in Queues |-> [delivered[q] EXCEPT ![r] = 0]]
  /\ UNCHANGED last

Next ==
  \/ \E q \in Queues, n \in {1, 2} : Publish(q, n)
  \/ \E q \in Queues, r \in Readers : Join(q, r) \/ Fetch(q, r) \/ Deliver(q, r)
  \/ \E r \in Readers : Leave(r)

Spec == Init /\ [][Next]_logVars

===============================================================================
