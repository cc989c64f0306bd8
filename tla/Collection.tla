----------------------------- MODULE Collection -----------------------------
(***************************************************************************)
(* A disir_collection (lib/collection.c): a growing array of referenced    *)
(* contexts with a built-in iterator.  The client destroys contexts behind *)
(* its back; every public call first coalesces the array, which drops the  *)
(* destroyed entries, closes the holes and moves the iterator.             *)
(*                                                                         *)
(* Slots are numbered from 1 here: slot i is cc_collection[i - 1], and     *)
(* iterator is cc_iterator_index, the number of slots it has passed.       *)
(***************************************************************************)
EXTENDS Integers, Sequences, FiniteSets, Subsequences

CONSTANTS
  Contexts,        \* the contexts a client pushes and destroys
  Null,       \* an empty slot
  Exhausted,  \* DISIR_STATUS_EXHAUSTED
  Chunk,      \* cc_capacity grows by so many slots (10)
  MaxEntries, \* bound: entries of the collection
  Uses        \* what collections are used for, a subset of AllUses

\* free:     any call at any time, on any context
\* query:    an API call returns distinct elements, and its client destroys
\*           at most the one it was given last
\* teardown: a storage destroys all its elements (dx_section_destroy)
AllUses == {"free", "query", "teardown"}

ASSUME CollectionAssumption ==
  /\ Null \notin Contexts /\ Exhausted \notin Contexts /\ Null # Exhausted
  /\ Chunk \in Nat \ {0} /\ MaxEntries \in Nat
  /\ Uses \subseteq AllUses

VARIABLES
  slots,     \* cc_collection up to cc_numentries
  capacity,  \* cc_capacity
  iterator,  \* cc_iterator_index
  held,      \* references the collection has taken and not dropped
  destroyed, \* CONTEXT_STATE_DESTROYED
  yield,     \* what the last call of the iterator returned
  use,       \* what this collection is used for
  open       \* dc_collection_finished was not called yet

collection == <<slots, capacity, iterator, held, destroyed, yield, use, open>>

CollectionTypeOK ==
  /\ slots \in Seq(Contexts) /\ Len(slots) <= capacity
  /\ capacity \in Nat
  /\ iterator \in Nat
  /\ held \in [Contexts -> Nat]
  /\ destroyed \subseteq Contexts
  /\ yield \in Contexts \cup {Null, Exhausted}
  /\ use \in Uses
  /\ open \in BOOLEAN

(* dc_collection_create *)
CollectionInit ==
  /\ slots = <<>>
  /\ capacity = Chunk
  /\ iterator = 0
  /\ held = [x \in Contexts |-> 0]
  /\ destroyed = {}
  /\ yield = Null
  /\ use \in Uses
  /\ open = TRUE

Occurrences(x, s) == Cardinality({i \in DOMAIN s : s[i] = x})

Living(s) == Without(s, destroyed)
----------------------------------------------------------------------------
(* dx_collection_coalesce, one pass over the slots.  The pass carries the  *)
(* array, the probe behind which the next living entry is looked for, how  *)
(* far the iterator moves back and how many entries are dropped.           *)

\* Mutations: the iterator stays where it is; the probe may stay behind the hole.
MoveBackNever(pass, i, from) == 0
ProbeStays(pass, i) == pass.probe

\* An entry moves from slot from to slot i across the iterator.
MoveBack(pass, i, from) == IF from > iterator /\ i <= iterator THEN 1 ELSE 0

\* The first slot that may fill the hole in slot i.
Probe(pass, i) == IF pass.probe < i + 1 THEN i + 1 ELSE pass.probe

\* Slot i is a hole: the next living entry moves here.
Fill(pass, i) ==
  LET living == {j \in Probe(pass, i)..Len(pass.array) : pass.array[j] \notin destroyed}
      from == CHOOSE j \in living : \A l \in living : j <= l
      dropped == pass.dropped + (IF pass.array[i] = Null THEN 0 ELSE 1)
  IN IF living = {}
     THEN [array |-> [pass.array EXCEPT ![i] = Null],
           probe |-> Len(pass.array) + 1,
           back |-> pass.back,
           dropped |-> dropped]
     ELSE [array |-> [pass.array EXCEPT ![i] = pass.array[from], ![from] = Null],
           probe |-> from + 1,
           back |-> pass.back + MoveBack(pass, i, from),
           dropped |-> dropped]

Visit(pass, i) ==
  IF pass.array[i] \in destroyed \cup {Null} THEN Fill(pass, i) ELSE pass

Pass[i \in 0..Len(slots)] ==
  IF i = 0 THEN [array |-> slots, probe |-> 2, back |-> 0, dropped |-> 0] ELSE Visit(Pass[i - 1], i)

Coalesced ==
  LET pass == Pass[Len(slots)]
      left == iterator - pass.back
  IN [slots |-> SubSeq(pass.array, 1, Len(slots) - pass.dropped),
      iterator |-> IF left < 0 THEN 0 ELSE left]

\* Mutation: an entry dropped from the array keeps its reference.
HeldAfterCoalesceKept == held

\* Every destroyed entry is dropped with its reference.
HeldAfterCoalesce ==
  [x \in Contexts |-> IF x \in destroyed THEN held[x] - Occurrences(x, slots) ELSE held[x]]
----------------------------------------------------------------------------
Grown(entries) == IF entries = capacity THEN capacity + Chunk ELSE capacity

(* dc_collection_push_context *)
Push(x) ==
  /\ open
  /\ use # "free" => iterator = 0 /\ Occurrences(x, slots) = 0
  /\ LET now == Coalesced IN
     /\ Len(now.slots) < MaxEntries
     /\ slots' = Append(now.slots, x)
     /\ capacity' = Grown(Len(now.slots))
     /\ iterator' = now.iterator
     /\ held' = [HeldAfterCoalesce EXCEPT ![x] = @ + 1]
  /\ UNCHANGED <<destroyed, yield, use, open>>

(* dc_collection_next.  The reference taken for the caller is his.         *)
GetNext ==
  /\ open /\ use # "teardown"
  /\ LET now == Coalesced IN
     /\ slots' = now.slots
     /\ IF now.iterator > Len(now.slots) - 1
        THEN yield' = Exhausted /\ iterator' = now.iterator
        ELSE yield' = now.slots[now.iterator + 1] /\ iterator' = now.iterator + 1
  /\ held' = HeldAfterCoalesce
  /\ UNCHANGED <<capacity, destroyed, use, open>>

(* dx_collection_next_noncoalesce *)
NextNonCoalesce ==
  /\ open /\ use = "teardown"
  /\ IF iterator > Len(slots) - 1
     THEN yield' = Exhausted /\ UNCHANGED iterator
     ELSE yield' = slots[iterator + 1] /\ iterator' = iterator + 1
  /\ UNCHANGED <<slots, capacity, held, destroyed, use, open>>

(* dc_collection_reset *)
Reset ==
  /\ open
  /\ iterator' = 0
  /\ UNCHANGED <<slots, capacity, held, destroyed, yield, use, open>>

(* dc_collection_size *)
Size ==
  /\ open /\ use # "teardown"
  /\ slots' = Coalesced.slots
  /\ iterator' = Coalesced.iterator
  /\ held' = HeldAfterCoalesce
  /\ UNCHANGED <<capacity, destroyed, yield, use, open>>

(* dc_collection_finished *)
Finished ==
  /\ open
  /\ open' = FALSE
  /\ slots' = <<>>
  /\ iterator' = 0
  /\ held' = [x \in Contexts |-> held[x] - Occurrences(x, slots)]
  /\ UNCHANGED <<capacity, destroyed, yield, use>>

(* dc_destroy on a context, through any pointer to it.                     *)
DestroyContext(x) ==
  /\ open
  /\ x \notin destroyed
  /\ use # "free" => x = yield
  /\ destroyed' = destroyed \cup {x}
  /\ UNCHANGED <<slots, capacity, iterator, held, yield, use, open>>

CollectionNext ==
  \/ \E x \in Contexts : Push(x) \/ DestroyContext(x)
  \/ GetNext \/ NextNonCoalesce \/ Reset \/ Size \/ Finished

CollectionSpec == CollectionInit /\ [][CollectionNext]_collection
----------------------------------------------------------------------------
(* The collection holds one reference for each of its entries, however     *)
(* often a context was pushed, and none once it is finished.               *)
EntriesReferenced ==
  \A x \in Contexts : held[x] = Occurrences(x, slots)

(* The array only ever loses its destroyed entries, all at once, keeps the *)
(* others in order, and leaves no empty slot among them.                   *)
StableCompaction ==
  [][\/ slots' \in {slots, Living(slots)}
     \/ \E x \in Contexts : slots' = Append(Living(slots), x)
     \/ ~open']_collection

Passed == IF iterator > Len(slots) THEN Len(slots) ELSE iterator
PassedLiving == Living(SubSeq(slots, 1, Passed))
AheadLiving == Living(SubSeq(slots, iterator + 1, Len(slots)))

\* What is seen of a collection whose use keeps the promise of the iterator.
Seen(now, initially) == IF use = "free" THEN initially ELSE now

Promise == INSTANCE Iteration WITH
  Ctx <- Contexts,
  passed <- Seen(PassedLiving, <<>>),
  ahead <- Seen(AheadLiving, <<>>),
  destroyed <- Seen(destroyed, {}),
  yield <- Seen(yield, Null),
  Nothing <- Null

(* The iterator of a collection an API call returned, and that of a        *)
(* storage being torn down, returns the living entries in the order they   *)
(* were pushed, each once, whatever was destroyed before or after it.      *)
IteratesInOrder == Promise!Spec

(* lib/include/collection.h promises it of every collection.               *)
AnyPromise == INSTANCE Iteration WITH
  Ctx <- Contexts,
  passed <- PassedLiving, ahead <- AheadLiving, Nothing <- Null
IteratesInOrderAlways == AnyPromise!Spec
=============================================================================
