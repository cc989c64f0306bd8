----------------------------- MODULE EntryQueue -----------------------------
(***************************************************************************)
(* The queues of disir_entry: how disir_config_entries and                 *)
(* disir_mold_entries merge the lists of the plugins of a group into one   *)
(* queue without duplicates, and how disir_entry_finished takes an entry   *)
(* out of whatever queue it is in, pointer by pointer.                     *)
(*                                                                         *)
(* The entry at place k of the list of plugin i is the node <<i, k>>.      *)
(***************************************************************************)
EXTENDS Naturals, Sequences, FiniteSets

CONSTANTS
  Names,   \* names of entries
  Answers, \* what the plugins of a group may list: sequences of sequences of Names
  Null     \* no entry

VARIABLES
  lists,   \* the lists of the plugins
  next,    \* the pointers of the nodes
  prev,
  queue,   \* the head of the merged queue
  keys,    \* the names in the multimap of the call
  asked,   \* the number of plugins asked
  current, \* the entry of a plugin's list being looked at
  finishing, \* the entry whose queue is searched for its head
  walk,    \* the pointer disir_entry_finished follows to find the head
  freed,   \* the nodes that were freed
  at       \* the place in the code

vars == <<lists, next, prev, queue, keys, asked, current, finishing, walk, freed, at>>

Nodes == UNION {{i} \X DOMAIN lists[i] : i \in DOMAIN lists}
Name(n) == lists[n[1]][n[2]]

TypeOK ==
  /\ lists \in Answers
  /\ next \in [Nodes -> Nodes \cup {Null}] /\ prev \in [Nodes -> Nodes \cup {Null}]
  /\ {queue, current, finishing, walk} \subseteq Nodes \cup {Null}
  /\ keys \subseteq Names /\ freed \subseteq Nodes
  /\ asked \in 0..Len(lists)
  /\ at \in {"merge", "walk", "returned"}

\* The plugins have built their lists with MQ_ENQUEUE.
Init ==
  /\ lists \in Answers
  /\ next = [n \in Nodes |-> IF n[2] < Len(lists[n[1]]) THEN <<n[1], n[2] + 1>> ELSE Null]
  /\ prev = [n \in Nodes |-> <<n[1], IF n[2] = 1 THEN Len(lists[n[1]]) ELSE n[2] - 1>>]
  /\ queue = Null /\ keys = {} /\ asked = 0
  /\ current = Null /\ finishing = Null /\ walk = Null
  /\ freed = {} /\ at = "merge"
----------------------------------------------------------------------------
(* disir_config_entries and disir_mold_entries                             *)

\* The next plugin of the group lists its entries.
AskPlugin ==
  /\ at = "merge" /\ current = Null /\ asked < Len(lists)
  /\ asked' = asked + 1
  /\ current' = IF lists[asked + 1] = <<>> THEN Null ELSE <<asked + 1, 1>>
  /\ UNCHANGED <<lists, next, prev, queue, keys, finishing, walk, freed, at>>

\* No plugin before has the entry: MQ_ENQUEUE in the queue of the call.
Keep ==
  /\ at = "merge" /\ current # Null /\ Name(current) \notin keys
  /\ IF queue = Null
     THEN /\ queue' = current
          /\ next' = [next EXCEPT ![current] = Null]
          /\ prev' = [prev EXCEPT ![current] = current]
     ELSE /\ next' = [next EXCEPT ![current] = Null, ![prev[queue]] = current]
          /\ prev' = [prev EXCEPT ![current] = prev[queue], ![queue] = current]
          /\ UNCHANGED queue
  /\ keys' = keys \cup {Name(current)}
  /\ current' = next[current]
  /\ UNCHANGED <<lists, asked, finishing, walk, freed, at>>

Return ==
  /\ at = "merge" /\ current = Null /\ asked = Len(lists)
  /\ at' = "returned"
  /\ UNCHANGED <<lists, next, prev, queue, keys, asked, current, finishing, walk, freed>>
----------------------------------------------------------------------------
(* disir_entry_finished                                                    *)

Duplicate == at = "merge" /\ current # Null /\ Name(current) \in keys

\* The neighbour before forgets x, unless x is the head; x is freed.
Freed(x) ==
  /\ next' = IF prev[x] # Null /\ next[prev[x]] # Null
             THEN [next EXCEPT ![prev[x]] = next[x]] ELSE next
  /\ freed' = freed \cup {x}

\* x is not the tail of its queue.
FinishInside(x) ==
  /\ next[x] # Null
  /\ prev' = [prev EXCEPT ![next[x]] = prev[x]]
  /\ Freed(x)

\* x is the tail: find the head, whose prev is x.
FinishTail(x) ==
  /\ next[x] = Null
  /\ walk' = prev[x] /\ finishing' = x /\ at' = "walk"
  /\ UNCHANGED <<lists, next, prev, queue, keys, asked, current, freed>>

WalkOn ==
  /\ at = "walk" /\ prev[walk] # finishing
  /\ walk' = prev[walk]
  /\ UNCHANGED <<lists, next, prev, queue, keys, asked, current, finishing, freed, at>>

\* The tail of a plugin's list is a duplicate; or the caller finishes the tail.
WalkDone ==
  /\ at = "walk" /\ prev[walk] = finishing
  /\ prev' = [prev EXCEPT ![walk] = prev[finishing]]
  /\ Freed(finishing)
  /\ walk' = Null /\ finishing' = Null
  /\ IF current = finishing
     THEN /\ current' = Null /\ at' = "merge" /\ UNCHANGED queue
     ELSE /\ queue' = IF finishing = queue THEN Null ELSE queue
          /\ at' = "returned" /\ UNCHANGED current
  /\ UNCHANGED <<lists, keys, asked>>

DropDuplicate ==
  /\ Duplicate
  /\ \/ FinishTail(current)
     \/ /\ FinishInside(current)
        /\ current' = next[current]
        /\ UNCHANGED <<lists, queue, keys, asked, finishing, walk, at>>

\* The caller finishes any entry of the queue it got; it keeps a pointer to the rest.
Live == {n \in Nodes : n \notin freed}

CallerFinishes(x) ==
  /\ at = "returned" /\ x \in Live
  /\ \/ FinishTail(x)
     \/ /\ FinishInside(x)
        /\ queue' = IF x = queue THEN next[x] ELSE queue
        /\ UNCHANGED <<lists, keys, asked, current, finishing, walk, at>>

Merge == AskPlugin \/ Keep \/ DropDuplicate \/ Return
Walk == WalkOn \/ WalkDone
Next == Merge \/ Walk \/ \E x \in Nodes : CallerFinishes(x)

Spec == Init /\ [][Next]_vars

\* A call that was made goes on; the caller need not finish its entries.
FairSpec == Spec /\ WF_vars(Merge) /\ WF_vars(Walk)
----------------------------------------------------------------------------
(* Property: every listing returns, whatever the plugins list and however  *)
(* many of the entries a plugin before has listed already.                 *)
ListingReturns == <>(at = "returned")

(* Invariant: what the caller holds is a queue of one entry of each name,  *)
(* linked in both directions, and nothing in it was freed.                 *)
Reached ==
  LET Step[k \in 0..Cardinality(Nodes)] ==
        IF k = 0 THEN {queue} \ {Null}
        ELSE (Step[k - 1] \cup {next[n] : n \in Step[k - 1]}) \ {Null}
  IN Step[Cardinality(Nodes)]

QueueIsSound ==
  at = "returned" =>
    /\ Reached = Live
    /\ \A n, o \in Reached : Name(n) = Name(o) => n = o
    /\ \A n \in Reached : next[n] # Null => prev[next[n]] = n
    /\ queue # Null => next[prev[queue]] = Null
=============================================================================
