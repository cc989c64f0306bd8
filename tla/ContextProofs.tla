--------------------------- MODULE ContextProofs ---------------------------
(* Theorems about Context, for every set of contexts, every bound and      *)
(* every kind of client, and about Collection, for every use of one.       *)
EXTENDS Context, Collection, DataFacts

(* Shells without references are exactly those never begun and those freed. *)
FreedMeansUnreferenced ==
  \A x \in All : refs[x] = 0 <=> life[x] \in {"none", "freed"}

(* The shape of the tree: only the root has no parent, and it is never an   *)
(* element of a storage.                                                    *)
Shape ==
  /\ life[Root] # "none"
  /\ ~stored[Root]
  /\ config => life[Root] = "live" /\ finalized[Root]
  /\ \A k \in Ctx : life[k] # "none" => parent[k] \in All
  /\ \A k \in Ctx : life[k] = "none" => ~finalized[k]

(* Somebody other than a child holds a live context: its creator while it   *)
(* is under construction, its storage (with the creator's reference, pinned) *)
(* or the disir_config afterwards.                                          *)
LiveIsHeld ==
  \A x \in All : life[x] = "live" =>
    IF ~finalized[x] THEN handles[x] > 0
    ELSE IF x = Root THEN config
    ELSE stored[x] /\ pinned[x] > 0

Inv == /\ TypeOK
       /\ RefBalance
       /\ StoredIsLive
       /\ FreedMeansUnreferenced
       /\ Shape
       /\ LiveIsHeld
----------------------------------------------------------------------------
(* The number of live children is a natural number, and splits over every   *)
(* set of contexts.                                                         *)
LEMMA KidsFinite ==
  ASSUME NEW x \in All
  PROVE  /\ IsFiniteSet(Kids(x))
         /\ Cardinality(Kids(x)) \in Nat
<1>1. Kids(x) \subseteq Ctx
  BY DEF Kids
<1>2. IsFiniteSet(Ctx)
  BY ContextAssumption DEF ContextAssumption
<1> QED BY <1>1, <1>2, FS_Subset, FS_CardinalityType

(* The children held by the storages split over any set of contexts: those  *)
(* inside it and the others, which is how a dc_destroy divides them.        *)
LEMMA KidsSplit ==
  ASSUME NEW x \in All, NEW D
  PROVE  /\ Cardinality(Kids(x) \cap D) \in Nat
         /\ Cardinality(Kids(x) \ D) \in Nat
         /\ Cardinality(Kids(x)) = Cardinality(Kids(x) \cap D) + Cardinality(Kids(x) \ D)
<1> DEFINE K == Kids(x)
<1>1. IsFiniteSet(K)
  BY KidsFinite
<1> HIDE DEF K
<1>2. /\ IsFiniteSet(K \cap D)
      /\ IsFiniteSet(K \ D)
  BY <1>1, FS_Intersection, FS_Difference
<1>3. Cardinality(K \cap D) \in Nat /\ Cardinality(K \ D) \in Nat /\ Cardinality(K) \in Nat
  BY <1>1, <1>2, FS_CardinalityType
<1>4. Cardinality(K \ D) = Cardinality(K) - Cardinality(K \cap D)
  BY <1>1, FS_Difference
<1>5. Cardinality(K) = Cardinality(K \cap D) + Cardinality(K \ D)
  BY <1>3, <1>4
<1> QED BY <1>3, <1>5 DEF K

(* dc_destroy reaches the context it is called on and, transitively, what   *)
(* is stored below it; nothing else.                                        *)
LEMMA SubtreeFacts ==
  ASSUME NEW c \in All
  PROVE  /\ c \in Subtree(c)
         /\ Subtree(c) \subseteq All
         /\ Closed(Subtree(c))
         /\ \A d \in Subtree(c) : d = c \/ (d \in Ctx /\ stored[d] /\ parent[d] \in Subtree(c))
<1> DEFINE D == Subtree(c)
           S == {c} \cup {d \in D \cap Ctx : stored[d] /\ parent[d] \in D}
<1>1. c \in D /\ D \subseteq All
  BY DEF Subtree
<1>2. Closed(D)
  <2> SUFFICES ASSUME NEW k \in Ctx, stored[k], parent[k] \in D,
                      NEW T \in SUBSET All, c \in T, Closed(T)
               PROVE  k \in T
    BY DEF Closed, Subtree, All
  <2>1. parent[k] \in T
    BY DEF Subtree
  <2> QED BY <2>1 DEF Closed
<1>3. Closed(S)
  <2> SUFFICES ASSUME NEW k \in Ctx, stored[k], parent[k] \in S
               PROVE  k \in S
    BY DEF Closed
  <2>1. parent[k] \in D
    BY <1>1
  <2>2. k \in D
    BY <2>1, <1>2 DEF Closed
  <2> QED BY <2>1, <2>2
<1>4. S \in SUBSET All /\ c \in S
  BY <1>1
<1>5. D \subseteq S
  <2> SUFFICES ASSUME NEW d \in D PROVE d \in S
    OBVIOUS
  <2> HIDE DEF S
  <2> QED BY <1>3, <1>4 DEF Subtree
<1> QED BY <1>1, <1>2, <1>5

----------------------------------------------------------------------------
(* Before any call no context is live, none is counted, none is stored.     *)
LEMMA InitInv == Init => Inv
<1> SUFFICES ASSUME Init PROVE Inv
  OBVIOUS
<1> USE ContextAssumption DEF ContextAssumption
<1>1. TypeOK
  BY DEF Init, TypeOK, All, State, Bit
<1>2. RefBalance
  <2> SUFFICES ASSUME NEW x \in All
               PROVE  refs[x] = handles[x] + pinned[x] + Cardinality(Kids(x))
                                  + Bit(stored[x]) + Bit(config /\ x = Root)
    BY DEF RefBalance
  <2>1. Kids(x) = {}
    BY DEF Init, Kids, All
  <2>2. Cardinality(Kids(x)) = 0
    BY <2>1, FS_EmptySet
  <2> QED BY <2>2 DEF Init, Bit
<1>3. StoredIsLive /\ FreedMeansUnreferenced /\ Shape /\ LiveIsHeld
  BY DEF Init, StoredIsLive, FreedMeansUnreferenced, Shape, LiveIsHeld, All, Bit
<1> QED BY <1>1, <1>2, <1>3 DEF Inv

(* Calls that change neither a life nor a parent change no set of children. *)
LEMMA SameKids ==
  ASSUME UNCHANGED <<life, parent>>
  PROVE  \A x \in All : Kids(x)' = Kids(x)
BY DEF Kids

(* dc_begin: the new context is counted for its creator, its parent once    *)
(* more for the parent pointer.                                             *)
LEMMA BeginInv ==
  ASSUME Inv, NEW p \in All, NEW c \in Ctx, Begin(p, c)
  PROVE  Inv'
<1> USE ContextAssumption DEF ContextAssumption
<1>1. TypeOK'
  BY DEF Inv, TypeOK, Begin, All, State
<1>2. RefBalance'
  <2> SUFFICES ASSUME NEW x \in All
               PROVE  refs'[x] = handles'[x] + pinned'[x] + Cardinality(Kids(x)')
                                   + Bit(stored'[x]) + Bit(config' /\ x = Root)
    BY DEF RefBalance
  <2>0. /\ refs[x] = handles[x] + pinned[x] + Cardinality(Kids(x))
                        + Bit(stored[x]) + Bit(config /\ x = Root)
        /\ refs[c] = handles[c] + pinned[c] + Cardinality(Kids(c))
                        + Bit(stored[c]) + Bit(config /\ c = Root)
        /\ refs[c] = 0
    BY DEF Inv, RefBalance, FreedMeansUnreferenced, Begin, All
  <2>1. /\ Cardinality(Kids(x)) \in Nat /\ Cardinality(Kids(c)) \in Nat
        /\ \A b : Bit(b) \in {0, 1}
    BY KidsFinite DEF All, Bit
  <2> DEFINE more == Bit(stored[x]) + Bit(config /\ x = Root)
  <2>a. Bit(stored'[x]) + Bit(config' /\ x = Root) = more
    BY DEF Begin
  <2>b. /\ more \in Nat
        /\ refs[x] = handles[x] + pinned[x] + Cardinality(Kids(x)) + more
        /\ refs[x] \in Nat /\ handles[x] \in Nat /\ pinned[x] \in Nat
        /\ x = c => refs[x] = 0 /\ x # p
        /\ pinned' = pinned
    BY <2>0, <2>1 DEF Inv, TypeOK, Begin
  <2>c. /\ refs'[x] = IF x = c THEN 1 ELSE IF x = p THEN refs[x] + 1 ELSE refs[x]
        /\ handles'[x] = IF x = c THEN 1 ELSE handles[x]
    BY DEF Begin, Inv, TypeOK, All
  <2> HIDE DEF more
  <2>2. CASE x = p
    <3>1. Kids(p)' = Kids(p) \cup {c} /\ c \notin Kids(p)
      BY DEF Begin, Kids, Inv, TypeOK, All
    <3>2. Cardinality(Kids(p)') = Cardinality(Kids(p)) + 1
      BY <3>1, KidsFinite, FS_AddElement
    <3> QED BY <2>1, <2>2, <2>a, <2>b, <2>c, <3>2
  <2>3. CASE x # p
    <3>1. Kids(x)' = Kids(x)
      BY <2>3 DEF Begin, Kids, Inv, TypeOK, All
    <3> QED BY <2>1, <2>3, <2>a, <2>b, <2>c, <3>1
  <2> QED BY <2>2, <2>3
<1>3. StoredIsLive'
  BY DEF Inv, TypeOK, StoredIsLive, Begin, All
<1>4. FreedMeansUnreferenced'
  BY DEF Inv, TypeOK, FreedMeansUnreferenced, Begin, Usable, All
<1>5. Shape'
  BY DEF Inv, TypeOK, Shape, Begin, All
<1>6. LiveIsHeld'
  BY DEF Inv, TypeOK, LiveIsHeld, Shape, Begin, All
<1> QED BY <1>1, <1>2, <1>3, <1>4, <1>5, <1>6 DEF Inv

(* dc_set_name, a refused dc_finalize and a call on an orphan.              *)
LEMMA QuietInv ==
  ASSUME Inv, NEW c \in Ctx,
         \/ \E n \in Names : SetUnknownName(c, n)
         \/ \E n \in Names, full \in BOOLEAN : SetKnownName(c, n, full)
         \/ \E wrong \in SUBSET Subtree(c), keep \in BOOLEAN : FinalizeRefuses(c, wrong, keep)
         \/ OrphanUse(c)
  PROVE  Inv'
<1> USE ContextAssumption DEF ContextAssumption
<1>0. /\ UNCHANGED <<life, parent, handles, finalized, stored, config>>
      /\ invalid' \in [All -> BOOLEAN] /\ fault' \in BOOLEAN
      /\ name' \in [All -> Names \cup {None}]
      /\ equiv' \in [All -> MoldNames \cup {None}]
      /\ keys' = keys
  <2>1. CASE \E n \in Names : SetUnknownName(c, n)
    BY <2>1 DEF Inv, TypeOK, SetUnknownName, All
  <2>2. CASE \E n \in Names, full \in BOOLEAN : SetKnownName(c, n, full)
    BY <2>2 DEF Inv, TypeOK, SetKnownName, InMold, All
  <2>3. CASE \E wrong \in SUBSET Subtree(c), keep \in BOOLEAN : FinalizeRefuses(c, wrong, keep)
    <3>1. PICK wrong \in SUBSET Subtree(c), keep \in BOOLEAN : FinalizeRefuses(c, wrong, keep)
      BY <2>3
    <3>2. Revalidated(c, wrong) \in [All -> BOOLEAN]
      BY DEF Revalidated, Marked, Inv, TypeOK
    <3>3. invalid' \in [All -> BOOLEAN]
      BY <3>1, <3>2 DEF Inv, TypeOK, FinalizeRefuses, All
    <3> QED BY <3>1, <3>3 DEF Inv, TypeOK, FinalizeRefuses
  <2>4. CASE OrphanUse(c)
    BY <2>4 DEF Inv, TypeOK, OrphanUse
  <2> QED BY <2>1, <2>2, <2>3, <2>4
<1>1. \E b \in {0, 1} : /\ refs' = [refs EXCEPT ![c] = @ + b]
                        /\ pinned' = [pinned EXCEPT ![c] = @ + b]
                        /\ b = 0 \/ life[c] = "live"
  <2>1. CASE \E wrong \in SUBSET Subtree(c), keep \in BOOLEAN : FinalizeRefuses(c, wrong, keep)
    BY <2>1 DEF FinalizeRefuses, Bit, Usable
  <2>2. CASE UNCHANGED <<refs, pinned>>
    BY <2>2 DEF Inv, TypeOK
  <2> QED BY <2>1, <2>2 DEF SetUnknownName, SetKnownName, OrphanUse
<1>2. PICK b \in {0, 1} : /\ refs' = [refs EXCEPT ![c] = @ + b]
                          /\ pinned' = [pinned EXCEPT ![c] = @ + b]
                          /\ b = 0 \/ life[c] = "live"
  BY <1>1
<1>3. TypeOK'
  BY <1>0, <1>2 DEF Inv, TypeOK, All
<1>4. RefBalance'
  <2>1. \A x \in All : Kids(x)' = Kids(x) /\ Cardinality(Kids(x)) \in Nat
    BY <1>0, SameKids, KidsFinite
  <2> QED BY <1>0, <1>2, <2>1 DEF Inv, TypeOK, RefBalance, Bit, All
<1>5. FreedMeansUnreferenced'
  BY <1>0, <1>2 DEF Inv, TypeOK, FreedMeansUnreferenced, All
<1>6. StoredIsLive' /\ Shape'
  BY <1>0 DEF Inv, StoredIsLive, Shape
<1>7. LiveIsHeld'
  BY <1>0, <1>2 DEF Inv, TypeOK, LiveIsHeld, All
<1> QED BY <1>3, <1>4, <1>5, <1>6, <1>7 DEF Inv

(* dx_keyval_finalize and dx_section_finalize: two references more, one for *)
(* the storage and one that stays counted for the creator.                  *)
LEMMA FinalizeStoresInv ==
  ASSUME Inv, NEW c \in Ctx, NEW wrong \in SUBSET Subtree(c), NEW keep \in BOOLEAN,
         FinalizeStores(c, wrong, keep)
  PROVE  Inv'
<1> USE ContextAssumption DEF ContextAssumption
<1> DEFINE v == Verdict(c, wrong)
           b == Bit(v # "INVALID_CONTEXT" /\ ~keep)
<1>1. /\ b \in {0, 1}
      /\ handles[c] > 0 /\ life[c] = "live" /\ life[parent[c]] = "live"
      /\ ~finalized[c] /\ ~stored[c]
      /\ handles' = [handles EXCEPT ![c] = @ - b]
      /\ refs' = [refs EXCEPT ![c] = @ + 2 - b]
  BY DEF FinalizeStores, Usable, ParentLive, Bit, Inv, StoredIsLive
<1> HIDE DEF v, b
<1>2. /\ invalid' \in [All -> BOOLEAN]
      /\ pinned' = [pinned EXCEPT ![c] = @ + 1]
      /\ finalized' = [finalized EXCEPT ![c] = TRUE]
      /\ stored' = [stored EXCEPT ![c] = TRUE]
  <2>1. Revalidated(c, wrong) \in [All -> BOOLEAN]
    BY DEF Revalidated, Marked, Inv, TypeOK
  <2>2. (Revalidated(c, wrong)[c] \/ v = "INVALID_CONTEXT") \in BOOLEAN
    OBVIOUS
  <2>3. invalid' = [Revalidated(c, wrong) EXCEPT ![c] = @ \/ v = "INVALID_CONTEXT"]
    BY DEF FinalizeStores, v
  <2>4. invalid' \in [All -> BOOLEAN]
    BY <2>1, <2>2, <2>3
  <2> QED BY <2>4 DEF FinalizeStores, Inv, TypeOK, All, v
<1>3. keys' \in [All -> SUBSET Names] /\ UNCHANGED <<life, parent, name, equiv, config, fault>>
  BY DEF FinalizeStores, Inv, TypeOK, All
<1>4. TypeOK'
  BY <1>1, <1>2, <1>3 DEF Inv, TypeOK, All
<1>5. RefBalance'
  <2>1. \A x \in All : Kids(x)' = Kids(x) /\ Cardinality(Kids(x)) \in Nat
    BY <1>3, SameKids, KidsFinite
  <2> QED BY <1>1, <1>2, <1>3, <2>1 DEF Inv, TypeOK, RefBalance, Bit, All
<1>6. FreedMeansUnreferenced'
  BY <1>1, <1>3 DEF Inv, TypeOK, FreedMeansUnreferenced, All
<1>7. StoredIsLive' /\ Shape'
  BY <1>1, <1>2, <1>3 DEF Inv, TypeOK, StoredIsLive, Shape, All
<1>8. LiveIsHeld'
  BY <1>1, <1>2, <1>3 DEF Inv, TypeOK, LiveIsHeld, All
<1> QED BY <1>4, <1>5, <1>6, <1>7, <1>8 DEF Inv

(* dc_config_finalize: the pointer becomes the one of the disir_config.     *)
LEMMA FinalizeConfigInv ==
  ASSUME Inv, NEW wrong \in SUBSET Subtree(Root), FinalizeConfig(wrong)
  PROVE  Inv'
<1> USE ContextAssumption DEF ContextAssumption
<1>0. Revalidated(Root, wrong) \in [All -> BOOLEAN]
  BY DEF Revalidated, Marked, Inv, TypeOK
<1>1. TypeOK'
  BY <1>0 DEF Inv, TypeOK, FinalizeConfig, Usable, All
<1>2. RefBalance'
  <2>1. \A x \in All : Kids(x)' = Kids(x) /\ Cardinality(Kids(x)) \in Nat
    BY SameKids, KidsFinite DEF FinalizeConfig
  <2>2. ~config
    BY DEF Inv, Shape, FinalizeConfig
  <2> QED BY <2>1, <2>2 DEF Inv, TypeOK, RefBalance, FinalizeConfig, Usable, Bit, All
<1>3. StoredIsLive' /\ FreedMeansUnreferenced' /\ Shape'
  BY DEF Inv, TypeOK, StoredIsLive, FreedMeansUnreferenced, Shape, FinalizeConfig, Usable, All
<1>4. LiveIsHeld'
  BY DEF Inv, TypeOK, LiveIsHeld, FinalizeConfig, All
<1> QED BY <1>1, <1>2, <1>3, <1>4 DEF Inv

(* A query adds one reference for the pointer it hands out.                 *)
LEMMA HandOutInv ==
  ASSUME Inv, NEW c \in All,
         life[c] = "live",
         handles' = [handles EXCEPT ![c] = @ + 1],
         refs' = [refs EXCEPT ![c] = @ + 1],
         UNCHANGED <<life, parent, pinned, finalized, invalid, name, equiv, stored, keys,
                     config, fault>>
  PROVE  Inv'
<1>1. TypeOK'
  BY DEF Inv, TypeOK
<1>2. RefBalance'
  <2>1. \A x \in All : Kids(x)' = Kids(x) /\ Cardinality(Kids(x)) \in Nat
    BY SameKids, KidsFinite
  <2> QED BY <2>1 DEF Inv, TypeOK, RefBalance, Bit
<1>3. StoredIsLive' /\ FreedMeansUnreferenced' /\ Shape' /\ LiveIsHeld'
  BY DEF Inv, TypeOK, StoredIsLive, FreedMeansUnreferenced, Shape, LiveIsHeld
<1> QED BY <1>1, <1>2, <1>3 DEF Inv

(* dc_putcontext, and dc_destroy on a shell: a pointer is given back.       *)
LEMMA GiveBackInv ==
  ASSUME Inv, NEW c \in All, Release(c) \/ PutContext(c)
  PROVE  Inv'
<1>0. /\ handles[c] > 0
      /\ life[c] \in {"live", "destroyed"}
      /\ life[c] = "live" => finalized[c] /\ refs[c] > 1
      /\ Decref(c)
      /\ handles' = [handles EXCEPT ![c] = @ - 1]
      /\ UNCHANGED <<parent, pinned, finalized, invalid, name, equiv, stored, keys, config, fault>>
  BY DEF Release, PutContext, Usable
<1>1. /\ refs' = [refs EXCEPT ![c] = @ - 1]
      /\ life' \in [All -> State]
      /\ \A x \in All : life[x] = "live" <=> life'[x] = "live"
      /\ \A x \in All : life[x] = "none" <=> life'[x] = "none"
      /\ \A x \in All : x # c => life'[x] = life[x]
      /\ life'[c] = IF refs[c] = 1 THEN "freed" ELSE life[c]
  BY <1>0 DEF Decref, Inv, TypeOK, State
<1>2. /\ refs[c] \in Nat /\ refs[c] # 0
      /\ refs' \in [All -> Nat] /\ handles' \in [All -> Nat]
  BY <1>0, <1>1 DEF Inv, TypeOK, FreedMeansUnreferenced
<1>3. TypeOK'
  BY <1>0, <1>1, <1>2 DEF Inv, TypeOK
<1>4. RefBalance'
  <2>1. \A x \in All : Kids(x)' = Kids(x) /\ Cardinality(Kids(x)) \in Nat
    BY <1>0, <1>1, KidsFinite DEF Kids, All
  <2> QED BY <1>0, <1>1, <1>2, <2>1 DEF Inv, TypeOK, RefBalance, Bit
<1>5. FreedMeansUnreferenced'
  BY <1>0, <1>1, <1>2 DEF Inv, TypeOK, FreedMeansUnreferenced
<1>6. StoredIsLive' /\ Shape'
  BY <1>0, <1>1 DEF Inv, TypeOK, StoredIsLive, Shape, All
<1>7. LiveIsHeld'
  BY <1>0, <1>1, <1>2 DEF Inv, TypeOK, LiveIsHeld
<1> QED BY <1>3, <1>4, <1>5, <1>6, <1>7 DEF Inv

----------------------------------------------------------------------------
(* Everything DestroyTree destroys was live; everything but c was stored    *)
(* and held by the reference of its creator.                                *)
LEMMA SubtreeLive ==
  ASSUME Inv, NEW c \in All, life[c] = "live"
  PROVE  \A d \in Subtree(c) : /\ life[d] = "live"
                               /\ refs[d] > 0
                               /\ d # c => d \in Ctx /\ stored[d] /\ pinned[d] > 0
<1> SUFFICES ASSUME NEW d \in Subtree(c)
             PROVE  /\ life[d] = "live"
                    /\ refs[d] > 0
                    /\ d # c => d \in Ctx /\ stored[d] /\ pinned[d] > 0
  OBVIOUS
<1>1. d \in All /\ (d = c \/ (d \in Ctx /\ stored[d]))
  BY SubtreeFacts
<1>2. life[d] = "live"
  BY <1>1 DEF Inv, StoredIsLive
<1>3. refs[d] \in Nat /\ refs[d] # 0
  BY <1>1, <1>2 DEF Inv, TypeOK, FreedMeansUnreferenced
<1>4. d # c => finalized[d] /\ d # Root
  BY <1>1, ContextAssumption DEF Inv, StoredIsLive, ContextAssumption
<1> QED BY <1>1, <1>2, <1>3, <1>4 DEF Inv, LiveIsHeld

(* What the client holds of x: its pointers, and the disir_config.          *)
Held(x) == handles[x] + Bit(config /\ x = Root)

(* dc_destroy and disir_config_finished both drop one held reference to the *)
(* context they destroy: the state after either is described the same way.  *)
LEMMA DestroyCall ==
  ASSUME Inv, NEW c \in All, Destroy(c) \/ (c = Root /\ ConfigFinished)
  PROVE  /\ life[c] = "live"
         /\ DestroyTree(c)
         /\ UNCHANGED <<parent, finalized, invalid, name, equiv, fault>>
         /\ handles' \in [All -> Nat]
         /\ config' = (config /\ c # Root)
<1>1. CASE Destroy(c)
  BY <1>1 DEF Destroy, Usable, Inv, TypeOK
<1>2. CASE c = Root /\ ConfigFinished
  BY <1>2 DEF ConfigFinished, Inv, TypeOK, Shape
<1> QED BY <1>1, <1>2

(* The caller gives up one of the references it held to c.                  *)
LEMMA HeldCounts ==
  ASSUME Inv, NEW c \in All, Destroy(c) \/ (c = Root /\ ConfigFinished), NEW x \in All
  PROVE  /\ Held(x) \in Nat
         /\ Held(x)' = Held(x) - (IF x = c THEN 1 ELSE 0)
         /\ x = c => Held(x) > 0
         /\ refs[x] = Held(x) + pinned[x] + Cardinality(Kids(x)) + Bit(stored[x])
         /\ life[x] = "live" => Held(x) + pinned[x] + Bit(stored[x]) > 0
<1>1. /\ Held(x) \in Nat
      /\ Held(x)' = Held(x) - (IF x = c THEN 1 ELSE 0)
      /\ x = c => Held(x) > 0
  <2>1. CASE Destroy(c)
    BY <2>1, DestroyCall DEF Held, Destroy, Usable, Bit, Inv, TypeOK
  <2>2. CASE c = Root /\ ConfigFinished
    BY <2>2, DestroyCall DEF Held, ConfigFinished, Bit, Inv, TypeOK
  <2> QED BY <2>1, <2>2
<1>2. refs[x] = Held(x) + pinned[x] + Cardinality(Kids(x)) + Bit(stored[x])
  <2>1. refs[x] = handles[x] + pinned[x] + Cardinality(Kids(x))
                    + Bit(stored[x]) + Bit(config /\ x = Root)
    BY DEF Inv, RefBalance
  <2>2. /\ handles[x] \in Nat /\ pinned[x] \in Nat /\ Cardinality(Kids(x)) \in Nat
        /\ Bit(stored[x]) \in Nat /\ Bit(config /\ x = Root) \in Nat
    BY KidsFinite DEF Inv, TypeOK, Bit
  <2> QED BY <2>1, <2>2 DEF Held
<1>3. life[x] = "live" => Held(x) + pinned[x] + Bit(stored[x]) > 0
  BY DEF Held, Inv, TypeOK, LiveIsHeld, Bit, All
<1> QED BY <1>1, <1>2, <1>3

(* What dc_destroy leaves behind of any context x.                          *)
LEMMA DestroyTreeCounts ==
  ASSUME Inv, NEW c \in All, Destroy(c) \/ (c = Root /\ ConfigFinished), NEW x \in All
  PROVE  /\ refs'[x] \in Nat
         /\ refs'[x] <= refs[x]
         /\ pinned'[x] \in Nat
         /\ refs'[x] = Held(x)' + pinned'[x] + Cardinality(Kids(x) \ Subtree(c))
                          + Bit(stored'[x])
         /\ life'[x] = IF x \in Subtree(c)
                       THEN IF refs'[x] = 0 THEN "freed" ELSE "destroyed"
                       ELSE IF life[x] = "destroyed" /\ refs'[x] = 0 THEN "freed"
                       ELSE life[x]
         /\ x \notin Subtree(c) /\ life[x] = "live" => refs'[x] > 0
<1> DEFINE D == Subtree(c)
           gone == Cardinality(Kids(x) \cap D)
           rest == Cardinality(Kids(x) \ D)
           b == Bit(stored[x])
<1>1. /\ gone \in Nat /\ rest \in Nat
      /\ Cardinality(Kids(x)) = gone + rest
  BY KidsSplit
<1>2. /\ c \in D
      /\ x \in D => /\ life[x] = "live" /\ refs[x] > 0
                    /\ x # c => pinned[x] > 0
  BY DestroyCall, SubtreeFacts, SubtreeLive
<1>3. /\ refs[x] \in Nat /\ pinned[x] \in Nat
      /\ life[x] \in {"none", "live", "destroyed", "freed"}
      /\ refs[x] = 0 <=> life[x] \in {"none", "freed"}
  BY DEF Inv, TypeOK, FreedMeansUnreferenced, State
<1>4. /\ refs'[x] = refs[x] - (gone + (IF x \in D THEN b + 1 ELSE 0))
      /\ life'[x] = IF refs'[x] = 0 /\ refs[x] > 0 THEN "freed"
                    ELSE IF x \in D THEN "destroyed" ELSE life[x]
      /\ pinned'[x] = IF x \in D \ {c} THEN pinned[x] - 1 ELSE pinned[x]
  BY DestroyCall DEF DestroyTree, Drop
<1>5. b \in Nat /\ Bit(stored'[x]) = IF x \in D THEN 0 ELSE b
  BY DestroyCall DEF DestroyTree, Bit
<1>6. /\ refs[x] = Held(x) + pinned[x] + (gone + rest) + b
      /\ life[x] = "live" => Held(x) + pinned[x] + b > 0
      /\ Held(x) \in Nat /\ (x = c => Held(x) > 0)
      /\ Held(x)' = Held(x) - (IF x = c THEN 1 ELSE 0)
  BY <1>1, HeldCounts
<1> HIDE DEF D, gone, rest, b
<1>7. CASE x \in D
  <2>1. /\ pinned'[x] \in Nat
        /\ pinned'[x] + Held(x)' = pinned[x] + Held(x) - 1
        /\ Held(x)' \in Nat
    BY <1>2, <1>3, <1>4, <1>6, <1>7
  <2>2. refs'[x] = Held(x)' + pinned'[x] + rest
    BY <1>1, <1>3, <1>4, <1>5, <1>6, <1>7, <2>1
  <2>3. refs'[x] \in Nat /\ refs'[x] = Held(x)' + pinned'[x] + rest + Bit(stored'[x])
    BY <1>1, <1>5, <1>7, <2>1, <2>2
  <2>4. life'[x] = IF refs'[x] = 0 THEN "freed" ELSE "destroyed"
    BY <1>2, <1>4, <1>7
  <2>5. refs'[x] <= refs[x]
    BY <1>1, <1>3, <1>4, <1>5, <1>7, <2>3
  <2> QED BY <1>7, <2>1, <2>3, <2>4, <2>5 DEF D, rest
<1>8. CASE x \notin D
  <2>1. pinned'[x] = pinned[x] /\ Held(x)' = Held(x) /\ refs'[x] = refs[x] - gone
    BY <1>1, <1>2, <1>3, <1>4, <1>6, <1>8
  <2>2. refs'[x] \in Nat /\ refs'[x] = Held(x)' + pinned'[x] + rest + Bit(stored'[x])
    BY <1>1, <1>3, <1>5, <1>6, <1>8, <2>1
  <2>3. life[x] = "live" => refs'[x] > 0
    BY <1>1, <1>3, <1>5, <1>6, <1>8, <2>1
  <2>4. life'[x] = IF life[x] = "destroyed" /\ refs'[x] = 0 THEN "freed" ELSE life[x]
    <3>1. life'[x] = IF refs'[x] = 0 /\ refs[x] > 0 THEN "freed" ELSE life[x]
      BY <1>4, <1>8
    <3>2. refs[x] > 0 <=> life[x] \in {"live", "destroyed"}
      BY <1>3
    <3> QED BY <2>2, <2>3, <3>1, <3>2
  <2>5. refs'[x] <= refs[x]
    BY <1>1, <1>3, <2>1
  <2> QED BY <1>3, <1>8, <2>1, <2>2, <2>3, <2>4, <2>5 DEF D, rest
<1> QED BY <1>7, <1>8

(* A dc_destroy, of whatever subtree, keeps every part of the invariant.    *)
LEMMA DestroyInv ==
  ASSUME Inv, NEW c \in All, Destroy(c) \/ (c = Root /\ ConfigFinished)
  PROVE  Inv'
<1> USE ContextAssumption DEF ContextAssumption
<1> DEFINE D == Subtree(c)
<1>1. /\ life[c] = "live"
      /\ DestroyTree(c)
      /\ UNCHANGED <<parent, finalized, invalid, name, equiv, fault>>
      /\ handles' \in [All -> Nat]
      /\ config' = (config /\ c # Root)
  BY DestroyCall
<1>2. \A x \in All :
        /\ refs'[x] \in Nat
        /\ refs'[x] <= refs[x]
        /\ pinned'[x] \in Nat
        /\ refs'[x] = Held(x)' + pinned'[x] + Cardinality(Kids(x) \ D) + Bit(stored'[x])
        /\ life'[x] = IF x \in D
                      THEN IF refs'[x] = 0 THEN "freed" ELSE "destroyed"
                      ELSE IF life[x] = "destroyed" /\ refs'[x] = 0 THEN "freed"
                      ELSE life[x]
        /\ x \notin D /\ life[x] = "live" => refs'[x] > 0
  BY DestroyTreeCounts
<1> HIDE DEF D
<1>3. /\ c \in D /\ D \subseteq All
      /\ \A k \in Ctx : stored[k] /\ parent[k] \in D => k \in D
      /\ \A x \in D : life[x] = "live" /\ (x # c => x \in Ctx)
      /\ Root \in D => c = Root
  BY <1>1, SubtreeFacts, SubtreeLive DEF D, Closed
<1>4. /\ \A x \in All : life'[x] = "live" <=> life[x] = "live" /\ x \notin D
      /\ \A x \in All : life'[x] = "none" <=> life[x] = "none"
      /\ \A x \in All : life'[x] \in State
  BY <1>2, <1>3 DEF Inv, TypeOK, State
<1>5. /\ stored' = [x \in All |-> stored[x] /\ x \notin D]
      /\ keys' \in [All -> SUBSET Names]
      /\ DOMAIN life' = All /\ DOMAIN refs' = All /\ DOMAIN pinned' = All
      /\ life' = [x \in All |-> life'[x]]
      /\ refs' = [x \in All |-> refs'[x]]
      /\ pinned' = [x \in All |-> pinned'[x]]
  BY <1>1 DEF DestroyTree, D, KeysLeft, Inv, TypeOK
<1>6. TypeOK'
  BY <1>1, <1>2, <1>4, <1>5 DEF Inv, TypeOK
<1>7. RefBalance'
  <2> SUFFICES ASSUME NEW x \in All
               PROVE  refs'[x] = handles'[x] + pinned'[x] + Cardinality(Kids(x)')
                                   + Bit(stored'[x]) + Bit(config' /\ x = Root)
    BY DEF RefBalance
  <2>1. Kids(x)' = Kids(x) \ D
    BY <1>1, <1>4 DEF Kids, All
  <2>2. refs'[x] = Held(x)' + pinned'[x] + Cardinality(Kids(x)') + Bit(stored'[x])
    BY <1>2, <2>1
  <2>3. /\ handles'[x] \in Nat /\ pinned'[x] \in Nat /\ Cardinality(Kids(x)') \in Nat
        /\ Bit(stored'[x]) \in Nat /\ Bit(config' /\ x = Root) \in Nat
    BY <1>1, <1>2, <2>1, KidsSplit DEF Bit
  <2> QED BY <2>2, <2>3 DEF Held
<1>8. StoredIsLive'
  BY <1>1, <1>3, <1>4, <1>5 DEF Inv, StoredIsLive, Shape, All
<1>9. FreedMeansUnreferenced'
  <2> SUFFICES ASSUME NEW x \in All
               PROVE  refs'[x] = 0 <=> life'[x] \in {"none", "freed"}
    BY DEF FreedMeansUnreferenced
  <2>1. /\ refs[x] \in Nat
        /\ life[x] \in {"none", "live", "destroyed", "freed"}
        /\ refs[x] = 0 <=> life[x] \in {"none", "freed"}
        /\ x \in D => life[x] = "live"
    BY <1>3 DEF Inv, TypeOK, FreedMeansUnreferenced, State
  <2>2. /\ refs'[x] \in Nat /\ refs'[x] <= refs[x]
        /\ life'[x] = IF x \in D
                      THEN IF refs'[x] = 0 THEN "freed" ELSE "destroyed"
                      ELSE IF life[x] = "destroyed" /\ refs'[x] = 0 THEN "freed"
                      ELSE life[x]
        /\ x \notin D /\ life[x] = "live" => refs'[x] > 0
    BY <1>2
  <2> QED BY <2>1, <2>2
<1>10. Shape'
  BY <1>1, <1>3, <1>4, <1>5 DEF Inv, Shape, All
<1>11. LiveIsHeld'
  <2> SUFFICES ASSUME NEW x \in All, life'[x] = "live"
               PROVE  IF ~finalized[x] THEN handles'[x] > 0
                      ELSE IF x = Root THEN config'
                      ELSE stored'[x] /\ pinned'[x] > 0
    BY <1>1 DEF LiveIsHeld
  <2>1. life[x] = "live" /\ x \notin D /\ x # c
    BY <1>3, <1>4
  <2>2. handles'[x] = handles[x] /\ pinned'[x] = pinned[x] /\ stored'[x] = stored[x]
    BY <1>1, <1>5, <2>1 DEF DestroyTree, Destroy, ConfigFinished, D, Inv, TypeOK
  <2>3. x = Root => (config' <=> config)
    BY <1>1, <2>1
  <2> QED BY <2>1, <2>2, <2>3 DEF Inv, LiveIsHeld
<1> QED BY <1>6, <1>7, <1>8, <1>9, <1>10, <1>11 DEF Inv
----------------------------------------------------------------------------
(* Every call of the client keeps the invariant.                            *)
LEMMA NextInv == Inv /\ [Next]_vars => Inv'
<1> SUFFICES ASSUME Inv, [Next]_vars PROVE Inv'
  OBVIOUS
<1>1. CASE UNCHANGED vars
  BY <1>1 DEF vars, Inv, TypeOK, RefBalance, Kids, StoredIsLive, FreedMeansUnreferenced,
              Shape, LiveIsHeld
<1>2. ASSUME NEW c \in Ctx, ChildCall(c) PROVE Inv'
  <2> c \in All
    BY DEF All
  <2>1. CASE \E p \in All : Begin(p, c)
    BY <2>1, BeginInv
  <2>2. CASE \E p \in All : GetElement(p, c)
    BY <2>2, HandOutInv DEF GetElement, Inv, StoredIsLive
  <2>3. CASE \E p \in All, n \in Names : FindElement(p, n, c)
    BY <2>3, HandOutInv DEF FindElement
  <2>4. CASE \E wrong \in SUBSET Subtree(c), keep \in BOOLEAN : FinalizeStores(c, wrong, keep)
    BY <2>4, FinalizeStoresInv
  <2> QED BY <1>2, <2>1, <2>2, <2>3, <2>4, QuietInv DEF ChildCall
<1>3. ASSUME NEW x \in All, Destroy(x) \/ Release(x) \/ PutContext(x) PROVE Inv'
  BY <1>3, DestroyInv, GiveBackInv
<1>4. CASE \E wrong \in SUBSET Subtree(Root) : FinalizeConfig(wrong)
  BY <1>4, FinalizeConfigInv
<1>5. CASE GetContext
  BY <1>5, HandOutInv DEF GetContext, Inv, Shape, All
<1>6. CASE ConfigFinished
  BY <1>6, DestroyInv DEF All
<1> QED BY <1>1, <1>2, <1>3, <1>4, <1>5, <1>6 DEF Next

(* References balance over every sequence of calls of every client, with    *)
(* any number of contexts: dc_begin, dc_finalize, queries, dc_putcontext,   *)
(* dc_destroy of any subtree, disir_config_finished.                        *)
THEOREM References == Spec => [](TypeOK /\ RefBalance)
<1>1. Inv => TypeOK /\ RefBalance
  BY DEF Inv
<1> QED BY <1>1, InitInv, NextInv, PTL DEF Spec

(* dc_destroy never leaves a destroyed context in the storage of a live one. *)
THEOREM Storage == Spec => []StoredIsLive
<1>1. Inv => StoredIsLive
  BY DEF Inv
<1> QED BY <1>1, InitInv, NextInv, PTL DEF Spec

(* No pointer of the client, and no parent pointer of a live context, leads *)
(* to a shell that was freed.                                               *)
THEOREM Pointers == Spec => []NoDanglingPointer
<1>1. Inv => NoDanglingPointer
  <2> SUFFICES ASSUME Inv PROVE NoDanglingPointer
    OBVIOUS
  <2>1. \A x \in All : refs[x] = 0 => handles[x] = 0 /\ Cardinality(Kids(x)) = 0
    <3> SUFFICES ASSUME NEW x \in All, refs[x] = 0
                 PROVE  handles[x] = 0 /\ Cardinality(Kids(x)) = 0
      OBVIOUS
    <3>1. /\ handles[x] \in Nat /\ pinned[x] \in Nat /\ Cardinality(Kids(x)) \in Nat
          /\ Bit(stored[x]) \in Nat /\ Bit(config /\ x = Root) \in Nat
      BY KidsFinite DEF Inv, TypeOK, Bit
    <3>2. 0 = handles[x] + pinned[x] + Cardinality(Kids(x))
                + Bit(stored[x]) + Bit(config /\ x = Root)
      BY DEF Inv, RefBalance
    <3> DEFINE b == Bit(stored[x])
               d == Bit(config /\ x = Root)
    <3>3. b \in Nat /\ d \in Nat /\ 0 = handles[x] + pinned[x] + Cardinality(Kids(x)) + b + d
      BY <3>1, <3>2
    <3> HIDE DEF b, d
    <3> QED BY <3>1, <3>3
  <2>2. \A x \in All : refs[x] # 0 => life[x] \in {"live", "destroyed"}
    BY DEF Inv, TypeOK, FreedMeansUnreferenced, State
  <2>3. ASSUME NEW k \in Ctx, life[k] = "live"
        PROVE  life[parent[k]] \in {"live", "destroyed"}
    <3>1. parent[k] \in All /\ k \in Kids(parent[k])
      BY <2>3 DEF Inv, Shape, Kids
    <3>2. Cardinality(Kids(parent[k])) # 0
      BY <3>1, KidsFinite, FS_EmptySet
    <3> QED BY <2>1, <2>2, <3>1, <3>2
  <2>4. \A x \in All : handles[x] > 0 => life[x] \in {"live", "destroyed"}
    BY <2>1, <2>2
  <2> QED BY <2>3, <2>4 DEF NoDanglingPointer, Inv, Shape
<1> QED BY <1>1, InitInv, NextInv, PTL DEF Spec

(* dc_destroy destroys one context with what is stored below it, nothing    *)
(* else, and no call brings a destroyed context back.                       *)
THEOREM OneTree == Spec => DestroyTakesOneTree
<1> DEFINE A == /\ \A x \in All : life[x] \in {"destroyed", "freed"} => life'[x] \in {life[x], "freed"}
                /\ \A x \in Ctx : stored[x] /\ Dies(parent[x]) => Dies(x)
                /\ (\E x \in All : Dies(x))
                     => \E top \in All : \A x \in All :
                          Dies(x) => x = top \/ (stored[x] /\ Dies(parent[x]))
<1>1. ASSUME Inv, NEW c \in All, Destroy(c) \/ (c = Root /\ ConfigFinished) PROVE A
  <2> DEFINE D == Subtree(c)
  <2>1. \A x \in All :
          life'[x] = IF x \in D
                     THEN IF refs'[x] = 0 THEN "freed" ELSE "destroyed"
                     ELSE IF life[x] = "destroyed" /\ refs'[x] = 0 THEN "freed"
                     ELSE life[x]
    BY <1>1, DestroyTreeCounts
  <2>2. /\ D \subseteq All
        /\ \A k \in Ctx : stored[k] /\ parent[k] \in D => k \in D
        /\ \A d \in D : d = c \/ (d \in Ctx /\ stored[d] /\ parent[d] \in D)
    BY SubtreeFacts DEF Closed
  <2>3. \A d \in D : life[d] = "live"
    BY <1>1, DestroyCall, SubtreeLive
  <2> HIDE DEF D
  <2>4. \A x \in All : Dies(x) <=> x \in D
    BY <2>1, <2>2, <2>3 DEF Dies
  <2>5. \A k \in Ctx : k \in All /\ (stored[k] => parent[k] \in All)
    BY <1>1 DEF Inv, StoredIsLive, Shape, All
  <2>6. \A x \in All : life[x] \in {"destroyed", "freed"} => life'[x] \in {life[x], "freed"}
    BY <2>1, <2>3
  <2>7. \A x \in Ctx : stored[x] /\ Dies(parent[x]) => Dies(x)
    BY <2>2, <2>4, <2>5
  <2>8. \A x \in All : Dies(x) => x = c \/ (stored[x] /\ Dies(parent[x]))
    BY <2>2, <2>4
  <2> QED BY <2>6, <2>7, <2>8
<1>2. ASSUME Inv, \A x \in All : life'[x] = life[x] \/ (life[x] = "destroyed" /\ life'[x] = "freed")
                              \/ life[x] = "none"
      PROVE A
  BY <1>2 DEF Dies, Inv, StoredIsLive, Shape, All
<1>3. ASSUME Inv, [Next]_vars PROVE A
  <2>1. CASE UNCHANGED vars
    BY <1>2, <1>3, <2>1 DEF vars
  <2>2. ASSUME NEW c \in Ctx, ChildCall(c) PROVE A
    <3>1. life' = life \/ \E p \in All : Begin(p, c)
      BY <2>2 DEF ChildCall, GetElement, FindElement, SetUnknownName, SetKnownName,
                  FinalizeStores, FinalizeRefuses, OrphanUse
    <3>2. \A x \in All : life'[x] = life[x] \/ life[x] = "none"
      BY <1>3, <3>1 DEF Begin, Inv, TypeOK
    <3> QED BY <1>2, <1>3, <3>2
  <2>3. ASSUME NEW x \in All, Release(x) \/ PutContext(x) PROVE A
    <3>1. \A y \in All : life'[y] = life[y] \/ (life[y] = "destroyed" /\ life'[y] = "freed")
      BY <1>3, <2>3 DEF Release, PutContext, Decref, Inv, TypeOK
    <3> QED BY <1>2, <1>3, <3>1
  <2>4. CASE (\E wrong \in SUBSET Subtree(Root) : FinalizeConfig(wrong)) \/ GetContext
    BY <1>2, <1>3, <2>4 DEF FinalizeConfig, GetContext
  <2> HIDE DEF A
  <2> QED BY <1>1, <1>3, <2>1, <2>2, <2>3, <2>4 DEF Next, All
<1>4. Inv /\ [Next]_vars => A
  BY <1>3
<1> QED BY <1>4, InitInv, NextInv, PTL DEF Spec, DestroyTakesOneTree
----------------------------------------------------------------------------
(* What holds for clients that keep to the documentation.                  *)

\* No call leaves a reference behind that nothing stands for.
ReturnsAll == Client \cap {"keepFails", "destroyStored"} = {}

(* The reference of its creator stays counted exactly as long as a storage *)
(* has the context.                                                        *)
PinnedWhileStored == \A x \in All : pinned[x] = Bit(stored[x])

(* The calls that neither finalize a context nor destroy one leave the     *)
(* storages, and the references that are pinned to them, as they are.      *)
LEMMA StorageSteps ==
  ASSUME Inv, [Next]_vars
  PROVE  \/ UNCHANGED <<stored, keys, parent>>
            /\ (ReturnsAll => UNCHANGED pinned)
         \/ \E p \in All, c \in Ctx : Begin(p, c)
         \/ \E c \in Ctx : \E wrong \in SUBSET Subtree(c), keep \in BOOLEAN :
              FinalizeStores(c, wrong, keep)
         \/ \E c \in All : Destroy(c) \/ (c = Root /\ ConfigFinished)
<1> DEFINE Same == /\ UNCHANGED <<stored, keys, parent>>
                   /\ ReturnsAll => UNCHANGED pinned
<1>1. ASSUME UNCHANGED vars PROVE Same
  BY <1>1 DEF vars
<1>2. ASSUME NEW c \in Ctx, ChildCall(c),
             ~\E p \in All : Begin(p, c),
             ~\E wrong \in SUBSET Subtree(c), keep \in BOOLEAN : FinalizeStores(c, wrong, keep)
      PROVE  Same
  <2>1. CASE \/ \E p \in All : GetElement(p, c)
             \/ \E p \in All, n \in Names : FindElement(p, n, c)
             \/ OrphanUse(c)
    BY <2>1 DEF GetElement, FindElement, OrphanUse
  <2>2. ASSUME NEW n \in Names,
               SetUnknownName(c, n) \/ \E full \in BOOLEAN : SetKnownName(c, n, full)
        PROVE  Same
    BY <2>2 DEF SetUnknownName, SetKnownName
  <2>3. ASSUME NEW wrong \in SUBSET Subtree(c), NEW keep \in BOOLEAN, FinalizeRefuses(c, wrong, keep)
        PROVE  Same
    <3>1. UNCHANGED <<stored, keys, parent>>
      BY <2>3 DEF FinalizeRefuses
    <3>2. ASSUME ReturnsAll PROVE UNCHANGED pinned
      <4>1. ~keep
        BY <2>3, <3>2 DEF FinalizeRefuses, ReturnsAll
      <4>2. pinned' = [pinned EXCEPT ![c] = @ + 0]
        BY <2>3, <4>1 DEF FinalizeRefuses, Bit
      <4> QED BY <4>2 DEF Inv, TypeOK, All
    <3> QED BY <3>1, <3>2
  <2> HIDE DEF Same
  <2> QED BY <1>2, <2>1, <2>2, <2>3 DEF ChildCall
<1>3. ASSUME NEW x \in All, Release(x) \/ PutContext(x) PROVE Same
  BY <1>3 DEF Release, PutContext
<1>4. ASSUME (\E wrong \in SUBSET Subtree(Root) : FinalizeConfig(wrong)) \/ GetContext PROVE Same
  BY <1>4 DEF FinalizeConfig, GetContext
<1>5. Root \in All
  BY DEF All
<1> HIDE DEF Same
<1>6. \/ Same
      \/ \E p \in All, c \in Ctx : Begin(p, c)
      \/ \E c \in Ctx : \E wrong \in SUBSET Subtree(c), keep \in BOOLEAN :
              FinalizeStores(c, wrong, keep)
      \/ \E c \in All : Destroy(c) \/ (c = Root /\ ConfigFinished)
  <2>1. CASE UNCHANGED vars
    BY <1>1, <2>1
  <2>2. ASSUME NEW c \in Ctx, ChildCall(c)
        PROVE  \/ Same
               \/ \E p \in All : Begin(p, c)
               \/ \E wrong \in SUBSET Subtree(c), keep \in BOOLEAN : FinalizeStores(c, wrong, keep)
    BY <1>2, <2>2
  <2>3. CASE \E c \in Ctx : ChildCall(c)
    BY <2>2, <2>3
  <2>4. CASE \E x \in All : Destroy(x) \/ Release(x) \/ PutContext(x)
    BY <1>3, <2>4
  <2>5. CASE (\E wrong \in SUBSET Subtree(Root) : FinalizeConfig(wrong)) \/ GetContext \/ ConfigFinished
    BY <1>4, <1>5, <2>5
  <2> QED BY <2>1, <2>3, <2>4, <2>5 DEF Next
<1> QED BY <1>6 DEF Same

(* dc_destroy takes the creator's reference of what it finds in a storage. *)
LEMMA PinnedNext ==
  ASSUME ReturnsAll, Inv, PinnedWhileStored, [Next]_vars
  PROVE  PinnedWhileStored'
<1>1. CASE UNCHANGED <<stored, pinned>>
  BY <1>1 DEF PinnedWhileStored
<1>2. ASSUME NEW p \in All, NEW c \in Ctx, Begin(p, c) PROVE PinnedWhileStored'
  BY <1>1, <1>2 DEF Begin
<1>3. ASSUME NEW c \in Ctx, NEW wrong \in SUBSET Subtree(c), NEW keep \in BOOLEAN,
             FinalizeStores(c, wrong, keep)
      PROVE  PinnedWhileStored'
  <2>1. /\ stored' = [stored EXCEPT ![c] = TRUE]
        /\ pinned' = [pinned EXCEPT ![c] = @ + 1]
        /\ ~finalized[c]
    BY <1>3 DEF FinalizeStores
  <2>2. ~stored[c] /\ pinned[c] = 0
    BY <2>1 DEF Inv, StoredIsLive, PinnedWhileStored, Bit, All
  <2> QED BY <2>1, <2>2 DEF PinnedWhileStored, Inv, TypeOK, Bit, All
<1>4. ASSUME NEW c \in All, Destroy(c) \/ (c = Root /\ ConfigFinished)
      PROVE  PinnedWhileStored'
  <2>1. /\ stored' = [x \in All |-> stored[x] /\ x \notin Subtree(c)]
        /\ pinned' = [x \in All |-> IF x \in Subtree(c) \ {c} THEN pinned[x] - 1 ELSE pinned[x]]
    BY <1>4, DestroyCall DEF DestroyTree
  <2>2. ~stored[c]
    BY <1>4 DEF Destroy, ReturnsAll, Inv, Shape
  <2>3. \A d \in Subtree(c) : d = c \/ stored[d]
    BY <1>4, SubtreeFacts
  <2>4. ASSUME NEW x \in All PROVE pinned'[x] = Bit(stored'[x])
    <3>1. pinned[x] = Bit(stored[x])
      BY DEF PinnedWhileStored
    <3>2. CASE x \in Subtree(c) /\ x # c
      <4>1. stored[x] /\ stored[x] \in BOOLEAN
        BY <2>3, <3>2 DEF Inv, TypeOK
      <4>2. pinned[x] = 1
        BY <3>1, <4>1 DEF Bit
      <4>3. pinned'[x] = 0
        BY <2>1, <3>2, <4>2
      <4>4. ~stored'[x]
        BY <2>1, <3>2
      <4> QED BY <4>3, <4>4 DEF Bit
    <3>3. CASE x = c
      BY <2>1, <2>2, <3>1, <3>3 DEF Bit
    <3>4. CASE x \notin Subtree(c) /\ x # c
      BY <2>1, <3>1, <3>4 DEF Bit
    <3> QED BY <3>2, <3>3, <3>4
  <2> QED BY <2>4 DEF PinnedWhileStored
<1> QED BY <1>1, <1>2, <1>3, <1>4, StorageSteps

(* Once its storage is gone, cx_refcount counts the pointers the user has   *)
(* and the children that are left.                                          *)
THEOREM CountsPointers ==
  ASSUME ReturnsAll
  PROVE  Spec => []DestroyedCountsPointers
<1>1. Init => PinnedWhileStored
  BY DEF Init, PinnedWhileStored, Bit, All
<1>2. Inv /\ PinnedWhileStored /\ [Next]_vars => PinnedWhileStored'
  BY PinnedNext
<1>3. Inv /\ PinnedWhileStored => DestroyedCountsPointers
  <2> SUFFICES ASSUME Inv, PinnedWhileStored, NEW x \in All, life[x] = "destroyed"
               PROVE  refs[x] = handles[x] + Cardinality(Kids(x))
    BY DEF DestroyedCountsPointers
  <2>1. ~stored[x] /\ ~(config /\ x = Root)
    BY DEF Inv, StoredIsLive, Shape, All
  <2>2. pinned[x] = 0
    BY <2>1 DEF PinnedWhileStored, Bit
  <2>3. handles[x] \in Nat /\ Cardinality(Kids(x)) \in Nat
    BY KidsFinite DEF Inv, TypeOK
  <2>4. Bit(stored[x]) = 0 /\ Bit(config /\ x = Root) = 0
    BY <2>1 DEF Bit
  <2>5. refs[x] = handles[x] + pinned[x] + Cardinality(Kids(x))
                    + Bit(stored[x]) + Bit(config /\ x = Root)
    BY DEF Inv, RefBalance
  <2> DEFINE b == Bit(stored[x])
             d == Bit(config /\ x = Root)
  <2>6. b = 0 /\ d = 0 /\ refs[x] = handles[x] + pinned[x] + Cardinality(Kids(x)) + b + d
    BY <2>4, <2>5
  <2> HIDE DEF b, d
  <2> QED BY <2>2, <2>3, <2>6
<1> QED BY <1>1, <1>2, <1>3, InitInv, NextInv, PTL DEF Spec

(* Whatever is renamed, destroyed or refused, es_map still leads to every  *)
(* context of es_list.                                                     *)
THEOREM Found == Spec => []StoredIsFound
<1>1. Init => StoredIsFound
  BY DEF Init, StoredIsFound, All
<1>2. ASSUME Inv, StoredIsFound, [Next]_vars PROVE StoredIsFound'
  <2>1. CASE UNCHANGED <<stored, keys>>
    BY <1>2, <2>1 DEF StoredIsFound
  <2>2. ASSUME NEW p \in All, NEW c \in Ctx, Begin(p, c) PROVE StoredIsFound'
    BY <1>2, <2>2 DEF Begin, StoredIsFound
  <2>3. ASSUME NEW c \in Ctx, NEW wrong \in SUBSET Subtree(c), NEW keep \in BOOLEAN,
               FinalizeStores(c, wrong, keep)
        PROVE  StoredIsFound'
    <3>1. /\ stored' = [stored EXCEPT ![c] = TRUE]
          /\ keys' = [keys EXCEPT ![c] = @ \cup {name[c]}]
      BY <2>3 DEF FinalizeStores
    <3> QED BY <1>2, <3>1 DEF StoredIsFound, Inv, TypeOK, All
  <2>4. ASSUME NEW c \in All, Destroy(c) \/ (c = Root /\ ConfigFinished)
        PROVE  StoredIsFound'
    <3>1. /\ stored' = [x \in All |-> stored[x] /\ x \notin Subtree(c)]
          /\ keys' = [x \in All |-> KeysLeft(Subtree(c), x)]
      BY <1>2, <2>4, DestroyCall DEF DestroyTree
    <3>2. \A k \in Ctx : stored[k] /\ parent[k] \in Subtree(c) => k \in Subtree(c)
      BY <2>4, SubtreeFacts DEF Closed
    <3> QED BY <1>2, <3>1, <3>2 DEF StoredIsFound, KeysLeft, All
  <2> QED BY <1>2, <2>1, <2>2, <2>3, <2>4, StorageSteps
<1> QED BY <1>1, <1>2, InitInv, NextInv, PTL DEF Spec

(* An element without a mold equivalent is marked when it is stored, and   *)
(* marked again by every validation of what is above it.                   *)
THEOREM MoldlessMarked == Spec => []MoldlessIsMarked
<1>1. Init => MoldlessIsMarked
  BY DEF Init, MoldlessIsMarked, All
<1>2. ASSUME Inv, MoldlessIsMarked, [Next]_vars PROVE MoldlessIsMarked'
  <2>1. CASE UNCHANGED <<stored, equiv, invalid>>
    BY <1>2, <2>1 DEF MoldlessIsMarked
  <2>2. ASSUME NEW c \in All, NEW wrong,
               \A k \in Ctx : invalid'[k] = Revalidated(c, wrong)[k] \/ (k = c /\ invalid'[k]),
               UNCHANGED equiv,
               \A k \in Ctx : stored'[k] => stored[k] \/ k = c
        PROVE  MoldlessIsMarked'
    <3> SUFFICES ASSUME NEW k \in Ctx, stored'[k], equiv[k] = None
                 PROVE  invalid'[k]
      BY <2>2 DEF MoldlessIsMarked
    <3>1. CASE k \in Subtree(c)
      <4>1. Marked(k, wrong)
        BY DEF Marked, InError
      <4>2. Revalidated(c, wrong)[k]
        BY <3>1, <4>1 DEF Revalidated, All
      <4> QED BY <2>2, <4>2
    <3>2. CASE k \notin Subtree(c)
      <4>1. k # c /\ stored[k]
        BY <2>2, <3>2, SubtreeFacts
      <4>2. Revalidated(c, wrong)[k] = invalid[k]
        BY <3>2 DEF Revalidated, All
      <4> QED BY <1>2, <2>2, <4>1, <4>2 DEF MoldlessIsMarked
    <3> QED BY <3>1, <3>2
  <2>3. ASSUME NEW c \in Ctx, ChildCall(c) PROVE MoldlessIsMarked'
    <3> c \in All
      BY DEF All
    <3>1. CASE \E p \in All : Begin(p, c) \/ GetElement(p, c)
      BY <2>1, <3>1 DEF Begin, GetElement
    <3>2. CASE (\E p \in All, n \in Names : FindElement(p, n, c)) \/ OrphanUse(c)
      BY <2>1, <3>2 DEF FindElement, OrphanUse
    <3>3. ASSUME NEW n \in Names, SetUnknownName(c, n) PROVE MoldlessIsMarked'
      BY <1>2, <3>3 DEF SetUnknownName, MoldlessIsMarked, Inv, TypeOK, All
    <3>4. ASSUME NEW n \in Names, NEW full \in BOOLEAN, SetKnownName(c, n, full)
          PROVE  MoldlessIsMarked'
      <4>1. n # None
        BY ContextAssumption DEF ContextAssumption
      <4> QED BY <1>2, <3>4, <4>1 DEF SetKnownName, MoldlessIsMarked, Inv, TypeOK, All
    <3>5. ASSUME NEW wrong \in SUBSET Subtree(c), NEW keep \in BOOLEAN,
                 FinalizeStores(c, wrong, keep)
          PROVE  MoldlessIsMarked'
      <4>1. /\ UNCHANGED equiv
            /\ stored' = [stored EXCEPT ![c] = TRUE]
            /\ invalid' = [Revalidated(c, wrong) EXCEPT
                             ![c] = @ \/ Verdict(c, wrong) = "INVALID_CONTEXT"]
        BY <3>5 DEF FinalizeStores
      <4>2. \A k \in Ctx : stored'[k] => stored[k] \/ k = c
        BY <1>2, <4>1 DEF Inv, TypeOK, All
      <4>3. Revalidated(c, wrong) \in [All -> BOOLEAN]
        BY <1>2 DEF Revalidated, Marked, Inv, TypeOK
      <4>4. \A k \in Ctx : invalid'[k] = Revalidated(c, wrong)[k] \/ (k = c /\ invalid'[k])
        BY <4>1, <4>3 DEF All
      <4> QED BY <2>2, <4>1, <4>2, <4>4
    <3>6. ASSUME NEW wrong \in SUBSET Subtree(c), NEW keep \in BOOLEAN,
                 FinalizeRefuses(c, wrong, keep)
          PROVE  MoldlessIsMarked'
      <4>1. CASE name[c] = None
        BY <2>1, <3>6, <4>1 DEF FinalizeRefuses
      <4>2. CASE name[c] # None
        BY <2>2, <3>6, <4>2 DEF FinalizeRefuses
      <4> QED BY <4>1, <4>2
    <3> QED BY <2>3, <3>1, <3>2, <3>3, <3>4, <3>5, <3>6 DEF ChildCall
  <2>4. ASSUME NEW x \in All, Release(x) \/ PutContext(x) PROVE MoldlessIsMarked'
    BY <2>1, <2>4 DEF Release, PutContext
  <2>5. ASSUME NEW wrong \in SUBSET Subtree(Root), FinalizeConfig(wrong)
        PROVE  MoldlessIsMarked'
    BY <2>2, <2>5 DEF FinalizeConfig, All
  <2>6. CASE GetContext
    BY <2>1, <2>6 DEF GetContext
  <2>7. ASSUME NEW c \in All, Destroy(c) \/ (c = Root /\ ConfigFinished)
        PROVE  MoldlessIsMarked'
    <3>1. /\ stored' = [x \in All |-> stored[x] /\ x \notin Subtree(c)]
          /\ UNCHANGED <<equiv, invalid>>
      BY <1>2, <2>7, DestroyCall DEF DestroyTree, Destroy, ConfigFinished
    <3> QED BY <1>2, <3>1 DEF MoldlessIsMarked, All
  <2>8. CASE UNCHANGED vars
    BY <2>1, <2>8 DEF vars
  <2>9. Root \in All
    BY DEF All
  <2> QED BY <1>2, <2>3, <2>4, <2>5, <2>6, <2>7, <2>8, <2>9 DEF Next
<1> QED BY <1>1, <1>2, InitInv, NextInv, PTL DEF Spec
----------------------------------------------------------------------------
(* COLLECTIONS                                                             *)
Kept(n) == Living(SubSeq(slots, 1, n))

PassType == [array : Seq(Contexts \cup {Null}), probe : Nat, back : Nat, dropped : Nat]

\* How many of the entries kept up to slot n the iterator has passed, or would have.
Crossed(n) == IF Len(Kept(n)) < iterator THEN Len(Kept(n)) ELSE iterator

\* What dx_collection_coalesce has done when it has visited the first i slots and
\* taken entries from the first f.
Visited(pass, i, f) ==
  /\ pass \in PassType /\ Len(pass.array) = Len(slots)
  /\ f \in i..Len(slots) /\ Probe(pass, i + 1) = IF f <= i THEN i + 2 ELSE f + 1
  /\ \A j \in 1..i : pass.array[j] = IF j <= Len(Kept(f)) THEN Kept(f)[j] ELSE Null
  /\ Len(Kept(f)) <= i /\ (Len(Kept(f)) < i => f = Len(slots))
  /\ \A j \in (i + 1)..Len(slots) :
       \/ pass.array[j] = slots[j]
       \/ j <= f /\ slots[j] \notin destroyed /\ pass.array[j] = Null
  /\ \A j \in (i + 1)..f : pass.array[j] \in destroyed \cup {Null}
  /\ pass.dropped = i - Len(Kept(i))
  /\ pass.back = IF Crossed(f) > Len(Kept(Passed)) THEN Crossed(f) - Len(Kept(Passed)) ELSE 0
----------------------------------------------------------------------------
LEMMA KeptFacts ==
  ASSUME slots \in Seq(Contexts)
  PROVE  /\ Kept(0) = <<>> /\ Kept(Len(slots)) = Living(slots)
         /\ \A n \in 0..Len(slots) :
              /\ Kept(n) \in Seq(Contexts) /\ Kept(n) \in Seq(Contexts \ destroyed)
              /\ Len(Kept(n)) \in Nat /\ Len(Kept(n)) <= n
         /\ \A n \in 0..(Len(slots) - 1) :
              Kept(n + 1) = IF slots[n + 1] \in destroyed THEN Kept(n) ELSE Append(Kept(n), slots[n + 1])
<1>1. Kept(0) = <<>> /\ Kept(Len(slots)) = Living(slots)
  BY PrefixFacts, WithoutNothing DEF Kept, Living
<1>2. ASSUME NEW n \in 0..Len(slots)
      PROVE  /\ Kept(n) \in Seq(Contexts) /\ Kept(n) \in Seq(Contexts \ destroyed)
             /\ Len(Kept(n)) \in Nat /\ Len(Kept(n)) <= n
  <2> DEFINE u == SubSeq(slots, 1, n)
  <2>1. u \in Seq(Contexts) /\ Len(u) = n
    BY PrefixFacts
  <2> HIDE DEF u
  <2>2. Without(u, destroyed) \in Seq(Contexts) /\ Without(u, destroyed) \in Seq(Contexts \ destroyed)
        /\ Len(Without(u, destroyed)) <= Len(u)
    BY <2>1, WithoutTypes
  <2>3. Len(Without(u, destroyed)) \in Nat
    BY <2>2
  <2> QED BY <2>1, <2>2, <2>3 DEF Kept, Living, u
<1>3. ASSUME NEW n \in 0..(Len(slots) - 1)
      PROVE  Kept(n + 1) = IF slots[n + 1] \in destroyed THEN Kept(n) ELSE Append(Kept(n), slots[n + 1])
  BY WithoutPrefix DEF Kept, Living
<1> QED BY <1>1, <1>2, <1>3

LEMMA KeptGrows ==
  ASSUME slots \in Seq(Contexts), NEW a \in 0..Len(slots), NEW b \in a..Len(slots)
  PROVE  Len(Kept(a)) <= Len(Kept(b))
<1> DEFINE T == {n \in 0..b : n >= a => Len(Kept(a)) <= Len(Kept(n))}
<1>1. b \in Nat /\ a \in Nat /\ Len(Kept(a)) \in Nat
  BY KeptFacts
<1>2. 0 \in T
  BY <1>1
<1>3. ASSUME NEW n \in 0..(b - 1), n \in T PROVE n + 1 \in T
  <2>1. CASE n + 1 <= a
    BY <1>1, <2>1
  <2>2. CASE n >= a
    <3>1. n \in 0..(Len(slots) - 1) /\ n \in 0..Len(slots)
      OBVIOUS
    <3>2. Kept(n + 1) = IF slots[n + 1] \in destroyed THEN Kept(n) ELSE Append(Kept(n), slots[n + 1])
      BY <3>1, KeptFacts
    <3>3. Kept(n) \in Seq(Contexts) /\ slots[n + 1] \in Contexts /\ Len(Kept(n)) \in Nat
      BY <3>1, KeptFacts
    <3>4. Len(Append(Kept(n), slots[n + 1])) = Len(Kept(n)) + 1
      BY <3>3
    <3>5. Len(Kept(n + 1)) \in {Len(Kept(n)), Len(Kept(n)) + 1}
      BY <3>2, <3>4
    <3>6. Len(Kept(a)) <= Len(Kept(n))
      BY <1>3, <2>2
    <3>7. Len(Kept(a)) <= Len(Kept(n + 1))
      BY <1>1, <3>3, <3>5, <3>6
    <3> QED BY <1>1, <3>7
  <2> QED BY <1>1, <2>1, <2>2
<1> HIDE DEF T
<1>4. b \in T
  <2>1. \A n \in 0..(b - 1) : n \in T => n + 1 \in T
    BY <1>3
  <2>2. \A n \in 0..b : n \in T
    BY <1>1, <1>2, <2>1, Induction
  <2> QED BY <1>1, <2>2
<1> QED BY <1>4 DEF T

LEMMA KeptSkips ==
  ASSUME slots \in Seq(Contexts), NEW a \in 0..Len(slots), NEW b \in a..Len(slots),
         \A j \in (a + 1)..b : slots[j] \in destroyed
  PROVE  Kept(b) = Kept(a)
<1> DEFINE T == {n \in 0..b : n >= a => Kept(n) = Kept(a)}
<1>1. b \in Nat /\ a \in Nat
  OBVIOUS
<1>2. 0 \in T
  BY <1>1
<1>3. ASSUME NEW n \in 0..(b - 1), n \in T PROVE n + 1 \in T
  <2>1. CASE n + 1 <= a
    BY <1>1, <2>1
  <2>2. CASE n >= a
    <3>1. n \in 0..(Len(slots) - 1) /\ n + 1 \in (a + 1)..b
      BY <2>2
    <3>2. Kept(n + 1) = Kept(n)
      BY <3>1, KeptFacts
    <3>3. Kept(n) = Kept(a)
      BY <1>3, <2>2
    <3> QED BY <1>1, <3>2, <3>3
  <2> QED BY <1>1, <2>1, <2>2
<1> HIDE DEF T
<1>4. b \in T
  <2>1. \A n \in 0..(b - 1) : n \in T => n + 1 \in T
    BY <1>3
  <2>2. \A n \in 0..b : n \in T
    BY <1>1, <1>2, <2>1, Induction
  <2> QED BY <1>1, <2>2
<1> QED BY <1>4 DEF T
----------------------------------------------------------------------------
\* One slot is visited: slot n, after the i = n - 1 before it.
Counted ==
  /\ slots \in Seq(Contexts) /\ iterator \in Nat
  /\ Null \notin Contexts /\ destroyed \subseteq Contexts

LEMMA DroppedFacts ==
  ASSUME Counted, NEW i \in 0..(Len(slots) - 1), NEW pass, NEW f, Visited(pass, i, f)
  PROVE  /\ i + 1 - Len(Kept(i + 1)) =
              pass.dropped + (IF slots[i + 1] \in destroyed THEN 1 ELSE 0)
         /\ pass.array[i + 1] \in destroyed <=> slots[i + 1] \in destroyed
         /\ pass.array[i + 1] \in destroyed \cup {Null} => pass.array[i + 1] = Null \/ pass.array[i + 1] = slots[i + 1]
<1>1. /\ Kept(i + 1) = IF slots[i + 1] \in destroyed THEN Kept(i) ELSE Append(Kept(i), slots[i + 1])
      /\ Kept(i) \in Seq(Contexts) /\ Len(Kept(i)) \in Nat /\ i \in Nat /\ slots[i + 1] \in Contexts
  BY KeptFacts DEF Counted
<1>2. Len(Append(Kept(i), slots[i + 1])) = Len(Kept(i)) + 1
  BY <1>1
<1>3. pass.dropped = i - Len(Kept(i))
  BY DEF Visited
<1>4. \/ pass.array[i + 1] = slots[i + 1]
      \/ slots[i + 1] \notin destroyed /\ pass.array[i + 1] = Null
  BY DEF Visited
<1>5. i + 1 - Len(Kept(i + 1)) = pass.dropped + (IF slots[i + 1] \in destroyed THEN 1 ELSE 0)
  <2>1. CASE slots[i + 1] \in destroyed
    BY <1>1, <1>3, <2>1
  <2>2. CASE slots[i + 1] \notin destroyed
    BY <1>1, <1>2, <1>3, <2>2
  <2> QED BY <2>1, <2>2
<1>6. Null \notin destroyed
  BY DEF Counted
<1> QED BY <1>4, <1>5, <1>6

LEMMA CrossedFacts ==
  ASSUME Counted
  PROVE  /\ Passed \in 0..Len(slots) /\ Passed <= iterator /\ (Passed < iterator => Passed = Len(slots))
         /\ Len(Kept(Passed)) \in Nat
         /\ \A n \in 0..Len(slots) : Crossed(n) \in Nat
<1>1. Passed \in 0..Len(slots) /\ Passed <= iterator /\ (Passed < iterator => Passed = Len(slots))
  BY DEF Counted, Passed
<1>2. Len(Kept(Passed)) \in Nat
  BY <1>1, KeptFacts DEF Counted
<1>3. \A n \in 0..Len(slots) : Crossed(n) \in Nat
  BY KeptFacts DEF Counted, Crossed
<1> QED BY <1>1, <1>2, <1>3

\* A living entry stays where it is.
LEMMA VisitLiving ==
  ASSUME Counted, NEW i \in 0..(Len(slots) - 1), NEW pass, NEW f, Visited(pass, i, f),
         pass.array[i + 1] \notin destroyed \cup {Null}
  PROVE  Visited(pass, i + 1, i + 1)
<1>1. i \in Nat /\ i + 1 \in 1..Len(slots) /\ i \in 0..Len(slots) /\ slots[i + 1] \in Contexts
  BY DEF Counted
<1>2. pass \in PassType /\ Len(pass.array) = Len(slots)
  BY DEF Visited
<1>3. f = i
  BY DEF Visited
<1>4. pass.array[i + 1] = slots[i + 1] /\ slots[i + 1] \notin destroyed
  BY <1>1 DEF Visited
<1>5. Kept(i + 1) = Append(Kept(i), slots[i + 1]) /\ Kept(i) \in Seq(Contexts)
  BY <1>1, <1>4, KeptFacts DEF Counted
<1>6. Len(Kept(i)) = i
  BY <1>1, <1>3, KeptFacts DEF Visited, Counted
<1>7. /\ Len(Kept(i + 1)) = i + 1 /\ Kept(i + 1)[i + 1] = slots[i + 1]
      /\ \A j \in 1..i : Kept(i + 1)[j] = Kept(i)[j]
  BY <1>1, <1>5, <1>6
<1>8. Probe(pass, i + 2) = i + 3
  <2>1. Probe(pass, i + 1) = i + 2 /\ pass.probe \in Nat
    BY <1>1, <1>3 DEF Visited, PassType
  <2>2. pass.probe <= i + 2
    BY <1>1, <2>1 DEF Probe
  <2> QED BY <1>1, <2>1, <2>2 DEF Probe
<1>9. \A j \in 1..(i + 1) : pass.array[j] = Kept(i + 1)[j]
  <2>1. \A j \in 1..i : pass.array[j] = Kept(i)[j]
    BY <1>1, <1>3, <1>6 DEF Visited
  <2> QED BY <1>1, <1>4, <1>7, <2>1
<1>10. \A j \in (i + 2)..Len(slots) : pass.array[j] = slots[j]
  BY <1>1, <1>3 DEF Visited
<1>11. pass.dropped = i + 1 - Len(Kept(i + 1))
  <2>1. i + 1 - Len(Kept(i + 1)) = pass.dropped + (IF slots[i + 1] \in destroyed THEN 1 ELSE 0)
    BY DroppedFacts
  <2>2. pass.dropped \in Nat
    BY <1>2 DEF PassType
  <2> QED BY <1>4, <2>1, <2>2
<1>12. pass.back = IF Crossed(i + 1) > Len(Kept(Passed)) THEN Crossed(i + 1) - Len(Kept(Passed)) ELSE 0
  <2>1. pass.back = IF Crossed(i) > Len(Kept(Passed)) THEN Crossed(i) - Len(Kept(Passed)) ELSE 0
    BY <1>3 DEF Visited
  <2>2. CASE i + 1 <= iterator
    <3>1. Crossed(i) = i /\ Crossed(i + 1) = i + 1
      BY <1>1, <1>6, <1>7, <2>2 DEF Crossed, Counted
    <3>2. i + 1 <= Passed /\ Passed \in 0..Len(slots)
      BY <1>1, <2>2, CrossedFacts DEF Counted
    <3>3. Len(Kept(i + 1)) <= Len(Kept(Passed))
      <4>1. i + 1 \in 0..Len(slots) /\ Passed \in (i + 1)..Len(slots)
        BY <1>1, <3>2
      <4> QED BY <4>1, KeptGrows DEF Counted
    <3> QED BY <1>1, <1>7, <2>1, <3>1, <3>3, CrossedFacts
  <2>3. CASE ~(i + 1 <= iterator)
    <3>1. Crossed(i) = iterator /\ Crossed(i + 1) = iterator
      BY <1>1, <1>6, <1>7, <2>3 DEF Crossed, Counted
    <3> QED BY <2>1, <3>1
  <2> QED BY <2>2, <2>3
<1>13. Probe(pass, (i + 1) + 1) = IF i + 1 <= i + 1 THEN (i + 1) + 2 ELSE (i + 1) + 1
  BY <1>1, <1>8
<1>14. \A j \in 1..(i + 1) : pass.array[j] = IF j <= Len(Kept(i + 1)) THEN Kept(i + 1)[j] ELSE Null
  BY <1>1, <1>7, <1>9
<1>15. \A j \in ((i + 1) + 1)..Len(slots) :
         \/ pass.array[j] = slots[j]
         \/ j <= i + 1 /\ slots[j] \notin destroyed /\ pass.array[j] = Null
  BY <1>1, <1>10
<1>16. i + 1 \in (i + 1)..Len(slots)
  BY <1>1
<1>17. Len(Kept(i + 1)) <= i + 1 /\ (Len(Kept(i + 1)) < i + 1 => i + 1 = Len(slots))
  BY <1>1, <1>7
<1>18. \A j \in ((i + 1) + 1)..(i + 1) : pass.array[j] \in destroyed \cup {Null}
  BY <1>1
<1> QED BY ONLY <1>2, <1>11, <1>12, <1>13, <1>14, <1>15, <1>16, <1>17, <1>18 DEF Visited

LEMMA Replaced ==
  ASSUME NEW X, NEW s \in Seq(X), NEW j \in 1..Len(s), NEW x \in X
  PROVE  [s EXCEPT ![j] = x] \in Seq(X) /\ Len([s EXCEPT ![j] = x]) = Len(s)
OBVIOUS

\* The slots from which Fill may take an entry for slot i.
FillFrom(pass, i) == {j \in Probe(pass, i)..Len(pass.array) : pass.array[j] \notin destroyed}

LEMMA CandidateFacts ==
  ASSUME Counted, NEW i \in 0..(Len(slots) - 1), NEW pass, NEW f, Visited(pass, i, f),
         pass.array[i + 1] \in destroyed \cup {Null}
  PROVE  /\ \A j \in FillFrom(pass, i + 1) :
              /\ j \in (i + 2)..Len(slots) /\ j > f
              /\ pass.array[j] = slots[j] /\ slots[j] \in Contexts \ destroyed
         /\ \A j \in (i + 2)..Len(slots) : j > f /\ j \notin FillFrom(pass, i + 1) =>
              slots[j] \in destroyed /\ pass.array[j] = slots[j]
         /\ f = i => slots[i + 1] \in destroyed
<1>1. i \in Nat /\ i + 1 \in 1..Len(slots) /\ Len(slots) \in Nat /\ f \in i..Len(slots) /\ Len(pass.array) = Len(slots)
  BY DEF Counted, Visited
<1>2. Probe(pass, i + 1) = IF f <= i THEN i + 2 ELSE f + 1
  BY DEF Visited
<1>3. ASSUME NEW j \in (i + 1)..Len(slots), j > f PROVE pass.array[j] = slots[j] /\ slots[j] \in Contexts
  <2>1. slots[j] \in Contexts
    BY <1>1 DEF Counted
  <2> QED BY <1>1, <1>3, <2>1 DEF Visited
<1>4. ASSUME NEW j \in FillFrom(pass, i + 1)
      PROVE  j \in (i + 2)..Len(slots) /\ j > f /\ pass.array[j] \notin destroyed
  BY <1>1, <1>2 DEF FillFrom
<1>5. ASSUME NEW j \in (i + 2)..Len(slots), j > f, j \notin FillFrom(pass, i + 1)
      PROVE  pass.array[j] \in destroyed
  <2>1. j \in Probe(pass, i + 1)..Len(pass.array)
    BY <1>1, <1>2, <1>5
  <2> QED BY <1>5, <2>1 DEF FillFrom
<1>6. ASSUME f = i PROVE slots[i + 1] \in destroyed
  <2>1. pass.array[i + 1] = slots[i + 1] /\ slots[i + 1] \in Contexts
    BY <1>1, <1>3, <1>6
  <2> QED BY <2>1 DEF Counted
<1>7. \A j \in FillFrom(pass, i + 1) : j \in (i + 1)..Len(slots)
  BY <1>1, <1>4
<1>8. \A j \in (i + 2)..Len(slots) : j \in (i + 1)..Len(slots)
  BY <1>1
<1> QED BY <1>3, <1>4, <1>5, <1>6, <1>7, <1>8

\* No living entry is left for the hole.
LEMMA VisitLast ==
  ASSUME Counted, NEW i \in 0..(Len(slots) - 1), NEW pass, NEW f, Visited(pass, i, f),
         pass.array[i + 1] \in destroyed \cup {Null}, FillFrom(pass, i + 1) = {}
  PROVE  Visited(Fill(pass, i + 1), i + 1, Len(slots))
<1> DEFINE new == Fill(pass, i + 1)
           dropped == pass.dropped + (IF pass.array[i + 1] = Null THEN 0 ELSE 1)
<1>1. i \in Nat /\ i + 1 \in 1..Len(slots) /\ i \in 0..Len(slots) /\ Len(slots) \in Nat /\ f \in i..Len(slots)
  BY DEF Counted, Visited
<1>2. pass \in PassType /\ Len(pass.array) = Len(slots)
  BY DEF Visited
<1>3. new = [array |-> [pass.array EXCEPT ![i + 1] = Null], probe |-> Len(pass.array) + 1,
             back |-> pass.back, dropped |-> dropped]
  BY DEF Fill, FillFrom
<1>4. /\ new.array = [pass.array EXCEPT ![i + 1] = Null]
      /\ new.probe = Len(slots) + 1 /\ new.dropped = dropped /\ new.back = pass.back
      /\ dropped \in Nat
  BY <1>2, <1>3 DEF PassType
<1>5. new \in PassType
  <2>1. pass.array \in Seq(Contexts \cup {Null}) /\ pass.back \in Nat
    BY <1>2 DEF PassType
  <2>2. [pass.array EXCEPT ![i + 1] = Null] \in Seq(Contexts \cup {Null})
    BY <1>1, <1>2, <2>1, Replaced
  <2> QED BY <1>1, <1>2, <1>3, <1>4, <2>1, <2>2 DEF PassType
<1>6. Len(new.array) = Len(slots)
      /\ \A j \in 1..Len(slots) : new.array[j] = IF j = i + 1 THEN Null ELSE pass.array[j]
  BY <1>1, <1>2, <1>4 DEF PassType
<1> HIDE DEF new, dropped
<1>7. Kept(Len(slots)) = Kept(f)
  <2>1. ASSUME NEW j \in (f + 1)..Len(slots) PROVE slots[j] \in destroyed
    <3>1. CASE j = i + 1
      BY <1>1, <3>1, CandidateFacts
    <3>2. CASE j # i + 1
      <4>1. j \in (i + 2)..Len(slots) /\ j > f
        BY <1>1, <3>2
      <4> QED BY <4>1, CandidateFacts
    <3> QED BY <3>1, <3>2
  <2>2. f \in 0..Len(slots) /\ Len(slots) \in f..Len(slots)
    BY <1>1
  <2> QED BY <2>1, <2>2, KeptSkips DEF Counted
<1>8. Len(Kept(f)) \in Nat /\ Len(Kept(f)) <= i
  BY <1>1, KeptFacts DEF Visited, Counted
<1>9. Probe(new, i + 2) = IF Len(slots) <= i + 1 THEN i + 3 ELSE Len(slots) + 1
  BY <1>1, <1>4 DEF Probe
<1>10. \A j \in 1..(i + 1) : new.array[j] = IF j <= Len(Kept(f)) THEN Kept(f)[j] ELSE Null
  <2>1. \A j \in 1..i : pass.array[j] = IF j <= Len(Kept(f)) THEN Kept(f)[j] ELSE Null
    BY DEF Visited
  <2> QED BY <1>1, <1>6, <1>8, <2>1
<1>11. ASSUME NEW j \in (i + 2)..Len(slots)
       PROVE  /\ \/ new.array[j] = slots[j]
                 \/ j <= Len(slots) /\ slots[j] \notin destroyed /\ new.array[j] = Null
              /\ new.array[j] \in destroyed \cup {Null}
  <2>1. j \in (i + 1)..Len(slots) /\ j # i + 1 /\ j \in 1..Len(slots)
    BY <1>1
  <2>2. new.array[j] = pass.array[j]
    BY <1>6, <2>1
  <2>3. \/ pass.array[j] = slots[j]
        \/ j <= Len(slots) /\ slots[j] \notin destroyed /\ pass.array[j] = Null
    BY <2>1 DEF Visited
  <2>4. pass.array[j] \in destroyed \cup {Null}
    <3>1. CASE j <= f
      <4>1. j \in (i + 1)..f
        BY <1>1, <2>1, <3>1
      <4> QED BY <4>1 DEF Visited
    <3>2. CASE j > f
      <4>1. slots[j] \in destroyed /\ pass.array[j] = slots[j]
        BY <3>2, CandidateFacts
      <4> QED BY <4>1
    <3> QED BY <1>1, <3>1, <3>2
  <2> QED BY <2>2, <2>3, <2>4
<1>12. new.dropped = i + 1 - Len(Kept(i + 1))
  <2>1. /\ i + 1 - Len(Kept(i + 1)) = pass.dropped + (IF slots[i + 1] \in destroyed THEN 1 ELSE 0)
        /\ pass.array[i + 1] \in destroyed <=> slots[i + 1] \in destroyed
    BY DroppedFacts
  <2>2. pass.array[i + 1] = Null <=> pass.array[i + 1] \notin destroyed
    BY DEF Counted
  <2> QED BY <1>4, <2>1, <2>2 DEF dropped
<1>13. new.back = IF Crossed(Len(slots)) > Len(Kept(Passed)) THEN Crossed(Len(slots)) - Len(Kept(Passed)) ELSE 0
  BY <1>4, <1>7 DEF Crossed, Visited
<1>14. Len(slots) \in (i + 1)..Len(slots) /\ Len(Kept(Len(slots))) <= i + 1
  BY <1>1, <1>7, <1>8
<1>15. i + 1 + 1 = i + 2 /\ i + 1 + 2 = i + 3
  BY <1>1
<1> QED BY <1>5, <1>6, <1>7, <1>9, <1>10, <1>11, <1>12, <1>13, <1>14, <1>15 DEF Visited, new

\* The next living entry moves into the hole.
LEMMA VisitMoved ==
  ASSUME Counted, NEW i \in 0..(Len(slots) - 1), NEW pass, NEW f, Visited(pass, i, f),
         pass.array[i + 1] \in destroyed \cup {Null}, FillFrom(pass, i + 1) # {}
  PROVE  \E from \in (i + 1)..Len(slots) : Visited(Fill(pass, i + 1), i + 1, from)
<1> DEFINE new == Fill(pass, i + 1)
           from == CHOOSE j \in FillFrom(pass, i + 1) : \A l \in FillFrom(pass, i + 1) : j <= l
           dropped == pass.dropped + (IF pass.array[i + 1] = Null THEN 0 ELSE 1)
<1>1. i \in Nat /\ i + 1 \in 1..Len(slots) /\ i \in 0..Len(slots) /\ Len(slots) \in Nat /\ f \in i..Len(slots)
  BY DEF Counted, Visited
<1>2. pass \in PassType /\ Len(pass.array) = Len(slots)
  BY DEF Visited
<1>3. from \in FillFrom(pass, i + 1) /\ \A l \in FillFrom(pass, i + 1) : from <= l
  <2>1. FillFrom(pass, i + 1) \subseteq Nat
    BY <1>1, CandidateFacts
  <2>2. \E j \in FillFrom(pass, i + 1) : \A l \in FillFrom(pass, i + 1) : j <= l
    BY <2>1, Least
  <2> QED BY <2>2
<1>4. new = [array |-> [pass.array EXCEPT ![i + 1] = pass.array[from], ![from] = Null], probe |-> from + 1,
             back |-> pass.back + MoveBack(pass, i + 1, from), dropped |-> dropped]
  BY DEF Fill, FillFrom
<1> HIDE DEF from
<1>5. /\ from \in (i + 2)..Len(slots) /\ from > f /\ from \in 1..Len(slots)
      /\ pass.array[from] = slots[from] /\ slots[from] \in Contexts \ destroyed
  BY <1>1, <1>3, CandidateFacts
<1>6. dropped \in Nat /\ MoveBack(pass, i + 1, from) \in {0, 1}
  BY <1>2 DEF PassType, MoveBack
<1> HIDE DEF dropped
<1>7. /\ new.array = [pass.array EXCEPT ![i + 1] = pass.array[from], ![from] = Null]
      /\ new.probe = from + 1 /\ new.dropped = dropped
      /\ new.back = pass.back + MoveBack(pass, i + 1, from)
  BY <1>4
<1>8. new \in PassType
  <2>1. new.array \in Seq(Contexts \cup {Null})
    <3> DEFINE once == [pass.array EXCEPT ![i + 1] = pass.array[from]]
    <3>1. pass.array \in Seq(Contexts \cup {Null}) /\ pass.array[from] \in Contexts \cup {Null}
      BY <1>2, <1>5 DEF PassType
    <3>2. once \in Seq(Contexts \cup {Null}) /\ Len(once) = Len(slots)
      BY <1>1, <1>2, <3>1, Replaced
    <3>3. new.array = [once EXCEPT ![from] = Null]
      BY <1>7
    <3> HIDE DEF once
    <3> QED BY <1>5, <3>2, <3>3, Replaced
  <2>2. pass.back \in Nat
    BY <1>2 DEF PassType
  <2> QED BY <1>4, <1>5, <1>6, <1>7, <2>1, <2>2 DEF PassType
<1>9. Len(new.array) = Len(slots)
      /\ \A j \in 1..Len(slots) :
           new.array[j] = IF j = from THEN Null ELSE IF j = i + 1 THEN slots[from] ELSE pass.array[j]
  BY <1>1, <1>2, <1>5, <1>7 DEF PassType
<1> HIDE DEF new
<1>10. Len(Kept(f)) = i /\ f < Len(slots) /\ Kept(f) \in Seq(Contexts)
  <2>1. Len(Kept(f)) \in Nat /\ Kept(f) \in Seq(Contexts)
    BY <1>1, KeptFacts DEF Counted
  <2> QED BY <1>1, <1>5, <2>1 DEF Visited
<1>11. Kept(from - 1) = Kept(f)
  <2>1. ASSUME NEW j \in (f + 1)..(from - 1) PROVE slots[j] \in destroyed
    <3>1. CASE j = i + 1
      BY <1>1, <3>1, CandidateFacts
    <3>2. CASE j # i + 1
      <4>1. j \in (i + 2)..Len(slots) /\ j > f /\ j < from
        BY <1>1, <1>5, <3>2
      <4>2. j \notin FillFrom(pass, i + 1)
        BY <1>3, <1>5, <4>1
      <4> QED BY <4>1, <4>2, CandidateFacts
    <3> QED BY <3>1, <3>2
  <2>2. f \in 0..Len(slots) /\ from - 1 \in f..Len(slots)
    BY <1>1, <1>5
  <2> QED BY <2>1, <2>2, KeptSkips DEF Counted
<1>12. Kept(from) = Append(Kept(f), slots[from])
  <2>1. from - 1 \in 0..(Len(slots) - 1) /\ (from - 1) + 1 = from
    BY <1>5
  <2> QED BY <1>5, <1>11, <2>1, KeptFacts DEF Counted
<1>13. /\ Len(Kept(from)) = i + 1 /\ Kept(from)[i + 1] = slots[from]
       /\ \A j \in 1..i : Kept(from)[j] = Kept(f)[j]
  BY <1>1, <1>5, <1>10, <1>12
<1>14. Probe(new, i + 2) = from + 1
  BY <1>1, <1>5, <1>7 DEF Probe
<1>15. \A j \in 1..(i + 1) : new.array[j] = Kept(from)[j]
  <2>1. \A j \in 1..i : pass.array[j] = Kept(f)[j]
    BY <1>1, <1>10 DEF Visited
  <2> QED BY <1>1, <1>5, <1>9, <1>13, <2>1
<1>16. ASSUME NEW j \in (i + 2)..Len(slots)
       PROVE  /\ \/ new.array[j] = slots[j]
                 \/ j <= from /\ slots[j] \notin destroyed /\ new.array[j] = Null
              /\ j <= from => new.array[j] \in destroyed \cup {Null}
  <2>1. j \in (i + 1)..Len(slots) /\ j # i + 1 /\ j \in 1..Len(slots)
    BY <1>1
  <2>2. CASE j = from
    BY <1>5, <1>9, <2>1, <2>2
  <2>3. CASE j # from
    <3>1. new.array[j] = pass.array[j]
      BY <1>9, <2>1, <2>3
    <3>2. \/ pass.array[j] = slots[j]
          \/ j <= f /\ slots[j] \notin destroyed /\ pass.array[j] = Null
      BY <2>1 DEF Visited
    <3>3. ASSUME j <= from PROVE pass.array[j] \in destroyed \cup {Null}
      <4>1. CASE j <= f
        <5>1. j \in (i + 1)..f
          BY <1>1, <2>1, <4>1
        <5> QED BY <5>1 DEF Visited
      <4>2. CASE j > f
        <5>1. j \notin FillFrom(pass, i + 1)
          BY <1>3, <1>5, <2>1, <2>3, <3>3
        <5> QED BY <4>2, <5>1, CandidateFacts
      <4> QED BY <1>1, <4>1, <4>2
    <3>4. j <= f => j <= from
      BY <1>1, <1>5
    <3> QED BY <3>1, <3>2, <3>3, <3>4
  <2> QED BY <2>2, <2>3
<1>17. new.dropped = i + 1 - Len(Kept(i + 1))
  <2>1. /\ i + 1 - Len(Kept(i + 1)) = pass.dropped + (IF slots[i + 1] \in destroyed THEN 1 ELSE 0)
        /\ pass.array[i + 1] \in destroyed <=> slots[i + 1] \in destroyed
    BY DroppedFacts
  <2>2. pass.array[i + 1] = Null <=> pass.array[i + 1] \notin destroyed
    BY DEF Counted
  <2> QED BY <1>7, <2>1, <2>2 DEF dropped
<1>18. new.back = IF Crossed(from) > Len(Kept(Passed)) THEN Crossed(from) - Len(Kept(Passed)) ELSE 0
  <2> DEFINE L == Len(Kept(Passed))
  <2>1. /\ pass.back = IF Crossed(f) > L THEN Crossed(f) - L ELSE 0
        /\ new.back = pass.back + MoveBack(pass, i + 1, from)
    BY <1>7 DEF Visited
  <2>2. L \in Nat /\ iterator \in Nat /\ Passed \in 0..Len(slots) /\ Passed <= iterator
        /\ (Passed < iterator => Passed = Len(slots))
    BY CrossedFacts DEF Counted
  <2>3. from <= iterator => i + 1 <= L
    <3> SUFFICES ASSUME from <= iterator PROVE i + 1 <= L
      OBVIOUS
    <3>1. from \in 0..Len(slots) /\ Passed \in from..Len(slots)
      BY <1>5, <2>2
    <3> QED BY <1>13, <3>1, KeptGrows DEF Counted
  <2>4. from > iterator => L <= i
    <3> SUFFICES ASSUME from > iterator PROVE L <= i
      OBVIOUS
    <3>1. Passed \in 0..Len(slots) /\ from - 1 \in Passed..Len(slots)
      BY <1>5, <2>2
    <3> QED BY <1>10, <1>11, <3>1, KeptGrows DEF Counted
  <2> HIDE DEF L
  <2>5. /\ Crossed(f) = IF i < iterator THEN i ELSE iterator
        /\ Crossed(from) = IF i + 1 < iterator THEN i + 1 ELSE iterator
    BY <1>10, <1>13 DEF Crossed
  <2>6. MoveBack(pass, i + 1, from) = IF from > iterator /\ i + 1 <= iterator THEN 1 ELSE 0
    BY DEF MoveBack
  <2>7. new.back = IF Crossed(from) > L THEN Crossed(from) - L ELSE 0
    BY <1>1, <1>5, <2>1, <2>2, <2>3, <2>4, <2>5, <2>6
  <2> QED BY <2>7 DEF L
<1>19. from \in (i + 1)..Len(slots) /\ i + 1 + 1 = i + 2
  BY <1>1, <1>5
<1>20. Visited(new, i + 1, from)
  <2>1. \A j \in (i + 1 + 1)..Len(slots) :
           \/ new.array[j] = slots[j]
           \/ j <= from /\ slots[j] \notin destroyed /\ new.array[j] = Null
    BY <1>16, <1>19
  <2>2. \A j \in (i + 1 + 1)..from : new.array[j] \in destroyed \cup {Null}
    BY <1>1, <1>5, <1>16
  <2>3. \A j \in 1..(i + 1) : new.array[j] = IF j <= Len(Kept(from)) THEN Kept(from)[j] ELSE Null
    BY <1>1, <1>13, <1>15
  <2>4. Probe(new, i + 1 + 1) = IF from <= i + 1 THEN i + 1 + 2 ELSE from + 1
    BY <1>1, <1>5, <1>14, <1>19
  <2>5. Len(Kept(from)) <= i + 1 /\ (Len(Kept(from)) < i + 1 => from = Len(slots))
    BY <1>1, <1>13
  <2> QED BY <1>8, <1>9, <1>17, <1>18, <1>19, <2>1, <2>2, <2>3, <2>4, <2>5 DEF Visited
<1> QED BY <1>19, <1>20 DEF new

\* The recursion of Pass has a solution.
IsPass(p, N) ==
  p = [i \in 0..N |-> IF i = 0 THEN [array |-> slots, probe |-> 2, back |-> 0, dropped |-> 0]
                      ELSE Visit(p[i - 1], i)]

LEMMA PassSteps ==
  ASSUME Len(slots) \in Nat
  PROVE  /\ Pass[0] = [array |-> slots, probe |-> 2, back |-> 0, dropped |-> 0]
         /\ \A i \in 1..Len(slots) : Pass[i] = Visit(Pass[i - 1], i)
<1> DEFINE N == Len(slots)
           T == {n \in 0..N : \E p : IsPass(p, n)}
           start == [array |-> slots, probe |-> 2, back |-> 0, dropped |-> 0]
<1>1. 0 \in T
  <2> DEFINE p == [i \in 0..0 |-> start]
  <2>1. IsPass(p, 0)
    BY DEF IsPass
  <2> QED BY <2>1
<1>2. ASSUME NEW n \in 0..(N - 1), n \in T PROVE n + 1 \in T
  <2>1. PICK p : IsPass(p, n)
    BY <1>2
  <2> DEFINE next == Visit(p[n], n + 1)
             h == [i \in 0..(n + 1) |-> IF i <= n THEN p[i] ELSE next]
  <2> HIDE DEF start
  <2>2. \A i \in 0..n : p[i] = IF i = 0 THEN start ELSE Visit(p[i - 1], i)
    BY <2>1 DEF IsPass, start
  <2>3. ASSUME NEW i \in 0..(n + 1) PROVE h[i] = IF i = 0 THEN start ELSE Visit(h[i - 1], i)
    <3>1. CASE i = 0
      BY <2>2, <3>1
    <3>2. CASE i \in 1..n
      <4>1. h[i] = p[i] /\ h[i - 1] = p[i - 1]
        BY <3>2
      <4> HIDE DEF h
      <4> QED BY <2>2, <3>2, <4>1
    <3>3. CASE i = n + 1
      <4>1. h[i] = next /\ h[i - 1] = p[n]
        BY <3>3
      <4> HIDE DEF h
      <4> QED BY <3>3, <4>1
    <3> QED BY <3>1, <3>2, <3>3
  <2>4. IsPass(h, n + 1)
    BY <2>3 DEF IsPass, start
  <2> QED BY <2>4
<1>3. N \in T
  <2>1. \A n \in 0..(N - 1) : n \in T => n + 1 \in T
    BY <1>2
  <2> HIDE DEF T
  <2>2. \A n \in 0..N : n \in T
    BY <1>1, <2>1, Induction
  <2> QED BY <2>2
<1>4. IsPass(Pass, N)
  BY <1>3 DEF Pass, IsPass
<1> QED BY <1>4 DEF IsPass

LEMMA StartVisited ==
  ASSUME Counted
  PROVE  Visited([array |-> slots, probe |-> 2, back |-> 0, dropped |-> 0], 0, 0)
<1> DEFINE start == [array |-> slots, probe |-> 2, back |-> 0, dropped |-> 0]
<1>1. start.array = slots /\ start.probe = 2 /\ start.back = 0 /\ start.dropped = 0
  OBVIOUS
<1>2. start \in PassType
  <2>1. slots \in Seq(Contexts \cup {Null})
    BY DEF Counted
  <2> QED BY <2>1 DEF PassType
<1> HIDE DEF start
<1>3. Len(slots) \in Nat /\ Kept(0) = <<>> /\ Len(Kept(0)) = 0
  BY KeptFacts DEF Counted
<1>4. Probe(start, 1) = 2
  BY <1>1 DEF Probe
<1>5. Crossed(0) = 0 /\ Len(Kept(Passed)) \in Nat
  BY <1>3, CrossedFacts DEF Crossed, Counted
<1>6. start.back = IF Crossed(0) > Len(Kept(Passed)) THEN Crossed(0) - Len(Kept(Passed)) ELSE 0
  BY <1>1, <1>5
<1>7. Visited(start, 0, 0)
  BY <1>1, <1>2, <1>3, <1>4, <1>6 DEF Visited
<1> QED BY <1>7 DEF start

LEMMA AllVisited ==
  ASSUME Counted
  PROVE  Visited(Pass[Len(slots)], Len(slots), Len(slots))
<1> DEFINE N == Len(slots)
           T == {i \in 0..N : \E f \in i..N : Visited(Pass[i], i, f)}
<1>1. N \in Nat
  BY DEF Counted
<1>2. 0 \in T
  BY <1>1, StartVisited, PassSteps
<1>3. ASSUME NEW i \in 0..(N - 1), i \in T PROVE i + 1 \in T
  <2>1. PICK f \in i..N : Visited(Pass[i], i, f)
    BY <1>3
  <2>2. i + 1 \in 1..N /\ i + 1 \in 0..N /\ (i + 1) - 1 = i
    BY <1>1
  <2>3. Pass[i + 1] = Visit(Pass[i], i + 1)
    BY <1>1, <2>2, PassSteps
  <2> DEFINE pass == Pass[i]
  <2>4. CASE pass.array[i + 1] \notin destroyed \cup {Null}
    <3>1. Pass[i + 1] = pass
      BY <2>3, <2>4 DEF Visit
    <3>2. Visited(pass, i + 1, i + 1)
      BY <2>1, <2>4, VisitLiving
    <3> QED BY <2>2, <3>1, <3>2
  <2>5. CASE pass.array[i + 1] \in destroyed \cup {Null}
    <3>1. Pass[i + 1] = Fill(pass, i + 1)
      BY <2>3, <2>5 DEF Visit
    <3>2. CASE FillFrom(pass, i + 1) = {}
      <4>1. Visited(Fill(pass, i + 1), i + 1, N)
        BY <2>1, <2>5, <3>2, VisitLast
      <4>2. N \in (i + 1)..N
        BY <1>1
      <4> QED BY <2>2, <3>1, <4>1, <4>2
    <3>3. CASE FillFrom(pass, i + 1) # {}
      <4>1. \E from \in (i + 1)..N : Visited(Fill(pass, i + 1), i + 1, from)
        BY <2>1, <2>5, <3>3, VisitMoved
      <4> QED BY <2>2, <3>1, <4>1
    <3> QED BY <3>2, <3>3
  <2> QED BY <2>4, <2>5
<1>4. N \in T
  <2>1. \A i \in 0..(N - 1) : i \in T => i + 1 \in T
    BY <1>3
  <2> HIDE DEF T, N
  <2>2. \A i \in 0..N : i \in T
    BY <1>1, <1>2, <2>1, Induction
  <2> QED BY <1>1, <2>2
<1>5. PICK f \in N..N : Visited(Pass[N], N, f)
  BY <1>4
<1>6. f = N
  BY <1>1
<1> QED BY <1>5, <1>6

(* What dx_collection_coalesce does: the living entries stay, in their order, *)
(* and the iterator is left behind as many of them as it had passed, but for  *)
(* what it is further than there are living entries.                          *)
THEOREM CoalescedFacts ==
  ASSUME Counted
  PROVE  /\ Coalesced.slots = Living(slots)
         /\ LET passed == Len(Kept(Passed))  living == Len(Living(slots)) IN
            Coalesced.iterator = IF iterator <= living THEN passed ELSE iterator - (living - passed)
<1> DEFINE N == Len(slots)
           pass == Pass[N]
           passed == Len(Kept(Passed))
           living == Len(Living(slots))
<1>1. Visited(pass, N, N)
  BY AllVisited
<1> HIDE DEF pass
<1>2. /\ Coalesced.slots = SubSeq(pass.array, 1, N - pass.dropped)
      /\ Coalesced.iterator = IF iterator - pass.back < 0 THEN 0 ELSE iterator - pass.back
  BY DEF Coalesced, pass
<1>3. N \in Nat /\ Kept(N) = Living(slots) /\ living \in Nat /\ living <= N /\ Living(slots) \in Seq(Contexts)
  BY KeptFacts DEF Counted
<1>4. pass \in PassType /\ Len(pass.array) = N /\ pass.dropped = N - living
  BY <1>1, <1>3 DEF Visited
<1>5. \A j \in 1..living : pass.array[j] = Living(slots)[j]
  BY <1>1, <1>3 DEF Visited
<1>6. Coalesced.slots = Living(slots)
  <2>1. N - pass.dropped = living
    BY <1>3, <1>4
  <2>2. pass.array \in Seq(Contexts \cup {Null})
    BY <1>4 DEF PassType
  <2> DEFINE new == SubSeq(pass.array, 1, living)
  <2>3. new \in Seq(Contexts \cup {Null}) /\ Len(new) = living /\ \A j \in 1..living : new[j] = pass.array[j]
    BY <1>3, <1>4, <2>2
  <2>4. new = Living(slots)
    BY <1>3, <1>5, <2>3
  <2> QED BY <1>2, <2>1, <2>4
<1>7. passed \in Nat /\ passed <= living /\ passed <= iterator /\ iterator \in Nat
  <2>1. Passed \in 0..N /\ Passed <= iterator /\ N \in Passed..N
    BY <1>3, CrossedFacts DEF Counted
  <2>2. Len(Kept(Passed)) \in Nat /\ Len(Kept(Passed)) <= Passed
    BY <2>1, KeptFacts DEF Counted
  <2>3. Len(Kept(Passed)) <= Len(Kept(N))
    BY <2>1, KeptGrows DEF Counted
  <2> QED BY <1>3, <2>1, <2>2, <2>3 DEF Counted
<1>8. pass.back = IF Crossed(N) > passed THEN Crossed(N) - passed ELSE 0
  BY <1>1 DEF Visited
<1>9. Crossed(N) = IF living < iterator THEN living ELSE iterator
  BY <1>3 DEF Crossed
<1>10. Coalesced.iterator = IF iterator <= living THEN passed ELSE iterator - (living - passed)
  <2> HIDE DEF living, passed
  <2> QED BY <1>2, <1>3, <1>7, <1>8, <1>9
<1> QED BY <1>6, <1>10
----------------------------------------------------------------------------
(* The invariant.                                                          *)

\* The collection of a call and that of a storage have each entry once.
Distinct == use # "free" => \A x \in Contexts : Occurrences(x, slots) <= 1

\* The client of a call destroys what he was given last.
LastGiven ==
  use = "query" /\ iterator > 0 =>
    /\ \A i \in 1..Len(slots) : slots[i] \in destroyed => i = iterator
    /\ yield \in Contexts \ destroyed => iterator <= Len(slots) /\ slots[iterator] = yield

CollectionInv == CollectionTypeOK /\ EntriesReferenced /\ Distinct /\ LastGiven

\* The iterator stays with the entries it has passed when the array is coalesced.
Steady == iterator <= Len(Living(slots)) \/ AheadLiving = <<>>
Steadiness == use = "query" => Steady
----------------------------------------------------------------------------
(* How often a context is among the entries.                               *)
LEMMA OccurrencesAppended ==
  ASSUME NEW X, NEW s \in Seq(X), NEW x \in X, NEW y
  PROVE  /\ Occurrences(y, s) \in Nat
         /\ Occurrences(y, Append(s, x)) = Occurrences(y, s) + (IF x = y THEN 1 ELSE 0)
<1> DEFINE t == Append(s, x)
           places == {i \in 1..Len(s) : s[i] = y}
           places1 == {i \in 1..(Len(s) + 1) : t[i] = y}
<1>1. /\ Len(s) \in Nat /\ Len(t) = Len(s) + 1 /\ t[Len(s) + 1] = x /\ DOMAIN s = 1..Len(s)
      /\ DOMAIN t = 1..(Len(s) + 1) /\ \A i \in 1..Len(s) : t[i] = s[i]
  OBVIOUS
<1> HIDE DEF t
<1>2. Occurrences(y, s) = Cardinality(places) /\ Occurrences(y, t) = Cardinality(places1)
  BY <1>1 DEF Occurrences
<1>3. IsFiniteSet(places)
  <2>1. IsFiniteSet(1..Len(s))
    BY <1>1, FS_Interval
  <2>2. places \subseteq 1..Len(s)
    OBVIOUS
  <2> QED BY <2>1, <2>2, FS_Subset
<1>4. places1 = places \cup (IF x = y THEN {Len(s) + 1} ELSE {})
  <2>1. \A i : i \in 1..(Len(s) + 1) <=> i \in 1..Len(s) \/ i = Len(s) + 1
    BY <1>1
  <2> QED BY <1>1, <2>1
<1>5. Len(s) + 1 \notin places
  BY <1>1
<1> HIDE DEF places, places1
<1>6. Cardinality(places) \in Nat
  BY <1>3, FS_CardinalityType
<1>7. Cardinality(places1) = Cardinality(places) + (IF x = y THEN 1 ELSE 0)
  <2>1. CASE x = y
    <3>1. places1 = places \cup {Len(s) + 1}
      BY <1>4, <2>1
    <3> QED BY <1>3, <1>5, <2>1, <3>1, FS_AddElement
  <2>2. CASE x # y
    BY <1>4, <1>6, <2>2
  <2> QED BY <2>1, <2>2
<1> QED BY <1>2, <1>6, <1>7 DEF t

LEMMA OccurrencesNone == \A y : Occurrences(y, <<>>) = 0
<1> SUFFICES ASSUME NEW y PROVE Occurrences(y, <<>>) = 0
  OBVIOUS
<1>1. {i \in DOMAIN <<>> : <<>>[i] = y} = {}
  OBVIOUS
<1> QED BY <1>1, FS_EmptySet DEF Occurrences

LEMMA OccurrencesType == ASSUME NEW X, NEW s \in Seq(X), NEW y PROVE Occurrences(y, s) \in Nat
<1>1. IsFiniteSet(1..Len(s))
  BY FS_Interval
<1>2. {i \in DOMAIN s : s[i] = y} \subseteq 1..Len(s)
  OBVIOUS
<1> QED BY <1>1, <1>2, FS_Subset, FS_CardinalityType DEF Occurrences

LEMMA OccurrencesWithout ==
  ASSUME NEW X, NEW s \in Seq(X), NEW S, NEW y
  PROVE  Occurrences(y, Without(s, S)) = IF y \in S THEN 0 ELSE Occurrences(y, s)
<1> DEFINE T == {u \in Seq(X) : Occurrences(y, Without(u, S)) = IF y \in S THEN 0 ELSE Occurrences(y, u)}
<1>1. <<>> \in T
  <2>1. <<>> \in Seq(X) /\ Without(<<>>, S) = <<>> /\ Occurrences(y, <<>>) = 0
    BY WithoutNothing, OccurrencesNone
  <2> QED BY <2>1
<1>2. ASSUME NEW u \in Seq(X), NEW x \in X, u \in T PROVE Append(u, x) \in T
  <2> DEFINE w == Without(u, S)
  <2>1. w \in Seq(X) /\ Append(u, x) \in Seq(X)
    <3>1. w \in Seq(X)
      BY WithoutTypes
    <3> QED BY <3>1
  <2>2. Without(Append(u, x), S) = IF x \in S THEN w ELSE Append(w, x)
    BY WithoutAppended
  <2>3. Occurrences(y, w) = IF y \in S THEN 0 ELSE Occurrences(y, u)
    BY <1>2
  <2> HIDE DEF w
  <2>4. Occurrences(y, Append(w, x)) = Occurrences(y, w) + (IF x = y THEN 1 ELSE 0)
    BY <2>1, OccurrencesAppended
  <2>5. Occurrences(y, Append(u, x)) = Occurrences(y, u) + (IF x = y THEN 1 ELSE 0)
        /\ Occurrences(y, u) \in Nat
    BY OccurrencesAppended
  <2>6. Occurrences(y, Without(Append(u, x), S)) = IF y \in S THEN 0 ELSE Occurrences(y, Append(u, x))
    <3>1. CASE x = y
      BY <2>2, <2>3, <2>4, <2>5, <3>1
    <3>2. CASE x # y
      BY <2>2, <2>3, <2>4, <2>5, <3>2
    <3> QED BY <3>1, <3>2
  <2> QED BY <2>1, <2>6
<1> HIDE DEF T
<1>3. s \in T
  BY <1>1, <1>2, SequenceInduction
<1> QED BY <1>3 DEF T
----------------------------------------------------------------------------
(* The array in two parts: what the iterator has passed and what is ahead. *)
LEMMA LivingTypes ==
  ASSUME NEW s \in Seq(Contexts)
  PROVE  /\ Living(s) \in Seq(Contexts \ destroyed) /\ Living(s) \in Seq(Contexts) /\ Len(Living(s)) <= Len(s)
         /\ Len(Living(s)) \in Nat
<1>1. /\ Without(s, destroyed) \in Seq(Contexts \ destroyed) /\ Without(s, destroyed) \in Seq(Contexts)
      /\ Len(Without(s, destroyed)) <= Len(s)
  BY WithoutTypes
<1>2. Len(Without(s, destroyed)) \in Nat
  BY <1>1
<1> QED BY <1>1, <1>2 DEF Living

LEMMA AllLiving ==
  ASSUME NEW s \in Seq(Contexts \ destroyed)
  PROVE  Living(s) = s
<1>1. s \in Seq(Contexts) /\ \A i \in 1..Len(s) : s[i] \notin destroyed
  OBVIOUS
<1> QED BY <1>1, WithoutNone DEF Living

LEMMA PartFacts ==
  ASSUME Counted
  PROVE  /\ PassedLiving \in Seq(Contexts \ destroyed) /\ AheadLiving \in Seq(Contexts \ destroyed)
         /\ Living(slots) = PassedLiving \o AheadLiving
         /\ PassedLiving = Kept(Passed)
         /\ Len(Living(slots)) = Len(PassedLiving) + Len(AheadLiving)
         /\ Len(PassedLiving) \in Nat /\ Len(AheadLiving) \in Nat
         /\ Len(PassedLiving) <= iterator
<1>1. slots \in Seq(Contexts) /\ Passed \in 0..Len(slots) /\ Passed <= iterator /\ (Passed < iterator => Passed = Len(slots))
  BY CrossedFacts DEF Counted
<1>2. SubSeq(slots, iterator + 1, Len(slots)) = SubSeq(slots, Passed + 1, Len(slots))
  <2>1. CASE Passed = iterator
    BY <2>1
  <2>2. CASE Passed < iterator
    <3>1. iterator \in Nat /\ Len(slots) < iterator + 1 /\ Passed = Len(slots)
      BY <1>1, <2>2 DEF Counted
    <3> QED BY <1>1, <3>1
  <2> QED BY <1>1, <2>1, <2>2 DEF Counted
<1> DEFINE front == SubSeq(slots, 1, Passed)
           back == SubSeq(slots, Passed + 1, Len(slots))
<1>3. front \in Seq(Contexts) /\ back \in Seq(Contexts) /\ slots = front \o back /\ Len(front) = Passed
  BY <1>1, CutFacts
<1>4. PassedLiving = Living(front) /\ AheadLiving = Living(back) /\ PassedLiving = Kept(Passed)
  BY <1>2 DEF PassedLiving, AheadLiving, Kept
<1> HIDE DEF front, back
<1>5. Living(slots) = Living(front) \o Living(back)
  BY <1>3, WithoutJoined DEF Living
<1>6. /\ Living(front) \in Seq(Contexts \ destroyed) /\ Living(back) \in Seq(Contexts \ destroyed)
      /\ Len(Living(front)) \in Nat /\ Len(Living(back)) \in Nat /\ Len(Living(front)) <= Passed
  BY <1>3, LivingTypes
<1>7. Len(Living(front) \o Living(back)) = Len(Living(front)) + Len(Living(back))
  BY <1>6
<1>8. Len(Living(front)) <= iterator
  BY <1>1, <1>6 DEF Counted
<1> QED BY <1>4, <1>5, <1>6, <1>7, <1>8

\* What the iterator has passed and what is ahead of it, in any array.
PassedIn(array, n) == SubSeq(array, 1, IF n > Len(array) THEN Len(array) ELSE n)
AheadIn(array, n) == SubSeq(array, n + 1, Len(array))

LEMMA CoalescedParts ==
  ASSUME Counted, Steady
  PROVE  LET now == Coalesced IN
         /\ now.slots = PassedLiving \o AheadLiving
         /\ now.iterator \in Nat /\ now.iterator >= Len(PassedLiving)
         /\ now.iterator = Len(PassedLiving) \/ AheadLiving = <<>>
         /\ PassedIn(now.slots, now.iterator) = PassedLiving
         /\ AheadIn(now.slots, now.iterator) = AheadLiving
<1> DEFINE now == Coalesced
           P == PassedLiving
           A == AheadLiving
           X == Contexts \ destroyed
<1>1. /\ P \in Seq(X) /\ A \in Seq(X) /\ Living(slots) = P \o A /\ P = Kept(Passed)
      /\ Len(Living(slots)) = Len(P) + Len(A) /\ Len(P) \in Nat /\ Len(A) \in Nat /\ Len(P) <= iterator
      /\ iterator \in Nat
  BY PartFacts DEF Counted
<1>2. /\ now.slots = Living(slots)
      /\ now.iterator = IF iterator <= Len(Living(slots)) THEN Len(P)
                        ELSE iterator - (Len(Living(slots)) - Len(P))
  BY <1>1, CoalescedFacts
<1>3. Steady => iterator <= Len(P) + Len(A) \/ A = <<>>
  BY <1>1 DEF Steady
<1> HIDE DEF now, P, A, X
<1>4. now.slots = P \o A /\ Len(P \o A) = Len(P) + Len(A) /\ P \o A \in Seq(X)
  BY <1>1, <1>2
<1>5. A = <<>> => Len(A) = 0 /\ P \o A = P
  BY <1>1
<1>6. now.iterator \in Nat /\ now.iterator >= Len(P) /\ (now.iterator = Len(P) \/ A = <<>>)
  BY <1>1, <1>2, <1>3, <1>5
<1>7. CASE A = <<>>
  <2>1. PassedIn(P, now.iterator) = P
    <3>1. SubSeq(P, 1, Len(P)) = P
      BY <1>1
    <3>2. (IF now.iterator > Len(P) THEN Len(P) ELSE now.iterator) = Len(P)
      BY <1>1, <1>6
    <3> QED BY <3>1, <3>2 DEF PassedIn
  <2>2. AheadIn(P, now.iterator) = <<>>
    <3>1. now.iterator + 1 > Len(P)
      BY <1>1, <1>6
    <3> QED BY <1>1, <1>6, <3>1 DEF AheadIn
  <2> QED BY <1>4, <1>5, <1>6, <1>7, <2>1, <2>2 DEF now, P, A
<1>8. CASE now.iterator = Len(P)
  <2>1. SubSeq(P \o A, 1, Len(P)) = P
    BY <1>1
  <2>2. SubSeq(P \o A, Len(P) + 1, Len(P \o A)) = A
    BY <1>1, <1>4
  <2>3. ~(Len(P) > Len(P \o A))
    BY <1>1, <1>4
  <2> QED BY <1>4, <1>6, <1>8, <2>1, <2>2, <2>3 DEF now, P, A, PassedIn, AheadIn
<1> QED BY <1>6, <1>7, <1>8
----------------------------------------------------------------------------
(* The invariant holds initially and is kept.                              *)
LEMMA TwoPlaces ==
  ASSUME NEW X, NEW s \in Seq(X), NEW i \in 1..Len(s), NEW j \in 1..Len(s), s[i] = s[j],
         Occurrences(s[i], s) <= 1
  PROVE  i = j
<1> DEFINE places == {k \in DOMAIN s : s[k] = s[i]}
<1>1. i \in places /\ j \in places /\ places \subseteq 1..Len(s)
  OBVIOUS
<1>2. IsFiniteSet(places)
  BY <1>1, FS_Interval, FS_Subset
<1>3. Cardinality(places) <= 1
  BY DEF Occurrences
<1> HIDE DEF places
<1>4. SUFFICES ASSUME i # j PROVE FALSE
  OBVIOUS
<1>5. IsFiniteSet(places \ {i}) /\ Cardinality(places \ {i}) = Cardinality(places) - 1
  BY <1>1, <1>2, FS_RemoveElement
<1>6. Cardinality(places \ {i}) \in Nat /\ Cardinality(places) \in Nat
  BY <1>2, <1>5, FS_CardinalityType
<1>7. Cardinality(places \ {i}) = 0
  BY <1>3, <1>5, <1>6
<1>8. places \ {i} = {}
  BY <1>5, <1>7, FS_EmptySet
<1> QED BY <1>1, <1>4, <1>8

LEMMA InvCounted == CollectionTypeOK => Counted
BY CollectionAssumption DEF CollectionTypeOK, Counted

(* A coalesced collection: its references and its entries.                 *)
LEMMA CoalescedInv ==
  ASSUME CollectionInv
  PROVE  /\ Coalesced.slots = Living(slots) /\ Living(slots) \in Seq(Contexts \ destroyed)
         /\ Living(slots) \in Seq(Contexts) /\ Len(Living(slots)) \in Nat
         /\ Len(Living(slots)) <= Len(slots) /\ Len(Living(slots)) <= capacity
         /\ Coalesced.iterator \in Nat /\ Coalesced.iterator <= iterator
         /\ HeldAfterCoalesce \in [Contexts -> Nat]
         /\ \A x \in Contexts : HeldAfterCoalesce[x] = Occurrences(x, Living(slots))
         /\ use # "free" => \A x \in Contexts : Occurrences(x, Living(slots)) <= 1
<1>1. Counted /\ slots \in Seq(Contexts) /\ Len(slots) <= capacity /\ capacity \in Nat /\ Len(slots) \in Nat
      /\ iterator \in Nat
  BY InvCounted DEF CollectionInv, CollectionTypeOK
<1>2. Coalesced.slots = Living(slots)
  BY <1>1, CoalescedFacts
<1>3. /\ Living(slots) \in Seq(Contexts \ destroyed) /\ Living(slots) \in Seq(Contexts)
      /\ Len(Living(slots)) \in Nat /\ Len(Living(slots)) <= Len(slots)
  BY <1>1, LivingTypes
<1>4. Coalesced.iterator \in Nat /\ Coalesced.iterator <= iterator
  <2> DEFINE passed == Len(Kept(Passed))
             living == Len(Living(slots))
  <2>1. Coalesced.iterator = IF iterator <= living THEN passed ELSE iterator - (living - passed)
    BY <1>1, CoalescedFacts
  <2>2. passed = Len(PassedLiving) /\ passed \in Nat /\ living = passed + Len(AheadLiving)
        /\ Len(AheadLiving) \in Nat /\ passed <= iterator
    BY <1>1, PartFacts
  <2> HIDE DEF passed, living
  <2>3. living \in Nat /\ living >= passed
    BY <2>2
  <2> QED BY <1>1, <2>1, <2>2, <2>3
<1>5. ASSUME NEW x \in Contexts
      PROVE  HeldAfterCoalesce[x] = Occurrences(x, Living(slots)) /\ HeldAfterCoalesce[x] \in Nat
  <2>1. held[x] = Occurrences(x, slots) /\ Occurrences(x, slots) \in Nat
    BY <1>1, OccurrencesType DEF CollectionInv, EntriesReferenced
  <2>2. Occurrences(x, Living(slots)) = IF x \in destroyed THEN 0 ELSE Occurrences(x, slots)
    BY <1>1, OccurrencesWithout DEF Living
  <2>3. HeldAfterCoalesce[x] = IF x \in destroyed THEN held[x] - Occurrences(x, slots) ELSE held[x]
    BY DEF HeldAfterCoalesce
  <2> QED BY <2>1, <2>2, <2>3
<1>6. HeldAfterCoalesce \in [Contexts -> Nat]
  BY <1>5 DEF HeldAfterCoalesce
<1>7. ASSUME use # "free", NEW x \in Contexts PROVE Occurrences(x, Living(slots)) <= 1
  <2>1. Occurrences(x, slots) <= 1
    BY <1>7 DEF CollectionInv, Distinct
  <2>2. Occurrences(x, Living(slots)) = IF x \in destroyed THEN 0 ELSE Occurrences(x, slots)
    BY <1>1, OccurrencesWithout DEF Living
  <2> QED BY <2>1, <2>2
<1> QED BY <1>1, <1>2, <1>3, <1>4, <1>5, <1>6, <1>7

LEMMA CollectionInvInit == CollectionInit => CollectionInv
<1> SUFFICES ASSUME CollectionInit PROVE CollectionInv
  OBVIOUS
<1> USE DEF CollectionInit
<1>1. CollectionTypeOK
  BY CollectionAssumption DEF CollectionTypeOK
<1>2. EntriesReferenced
  BY OccurrencesNone DEF EntriesReferenced
<1>3. Distinct
  BY OccurrencesNone DEF Distinct
<1>4. LastGiven
  BY DEF LastGiven
<1> QED BY <1>1, <1>2, <1>3, <1>4 DEF CollectionInv

LEMMA PushInv ==
  ASSUME CollectionInv, NEW x \in Contexts, Push(x)
  PROVE  CollectionInv'
<1> DEFINE s == Living(slots)
<1>1. /\ Coalesced.slots = s /\ s \in Seq(Contexts) /\ Len(s) \in Nat /\ Len(s) <= capacity
      /\ Coalesced.iterator \in Nat /\ Coalesced.iterator <= iterator
      /\ HeldAfterCoalesce \in [Contexts -> Nat]
      /\ \A y \in Contexts : HeldAfterCoalesce[y] = Occurrences(y, s)
      /\ use # "free" => \A y \in Contexts : Occurrences(y, s) <= 1
      /\ slots \in Seq(Contexts)
  BY CoalescedInv DEF CollectionInv, CollectionTypeOK
<1>2. /\ slots' = Append(s, x) /\ capacity' = Grown(Len(s)) /\ iterator' = Coalesced.iterator
      /\ held' = [HeldAfterCoalesce EXCEPT ![x] = @ + 1]
      /\ UNCHANGED <<destroyed, yield, use, open>>
      /\ use # "free" => iterator = 0 /\ Occurrences(x, slots) = 0
  BY <1>1 DEF Push
<1>3. \A y \in Contexts : Occurrences(y, slots') = Occurrences(y, s) + (IF x = y THEN 1 ELSE 0)
  <2> HIDE DEF s
  <2> QED BY <1>1, <1>2, OccurrencesAppended
<1>4. Occurrences(x, s) = IF x \in destroyed THEN 0 ELSE Occurrences(x, slots)
  BY <1>1, OccurrencesWithout DEF Living
<1>5. \A y \in Contexts : Occurrences(y, s) \in Nat
  BY <1>1, OccurrencesType
<1> HIDE DEF s
<1>6. CollectionTypeOK'
  <2>1. Len(slots') <= capacity' /\ capacity' \in Nat
    BY <1>1, <1>2, CollectionAssumption DEF Grown, CollectionInv, CollectionTypeOK
  <2> QED BY <1>1, <1>2, <2>1 DEF CollectionInv, CollectionTypeOK
<1>7. EntriesReferenced'
  BY <1>1, <1>2, <1>3, <1>5 DEF EntriesReferenced
<1>8. Distinct'
  <2> SUFFICES ASSUME use # "free", NEW y \in Contexts PROVE Occurrences(y, slots') <= 1
    BY <1>2 DEF Distinct
  <2>1. Occurrences(x, s) = 0
    BY <1>2, <1>4
  <2> QED BY <1>1, <1>3, <1>5, <2>1
<1>9. LastGiven'
  <2>1. use' # "free" => iterator' = 0
    BY <1>1, <1>2 DEF CollectionInv, CollectionTypeOK
  <2> QED BY <2>1 DEF LastGiven
<1> QED BY <1>6, <1>7, <1>8, <1>9 DEF CollectionInv

LEMMA GetNextInv == ASSUME CollectionInv, GetNext PROVE CollectionInv'
<1> DEFINE s == Living(slots)
           n == Coalesced.iterator
<1>1. /\ Coalesced.slots = s /\ s \in Seq(Contexts \ destroyed) /\ s \in Seq(Contexts)
      /\ Len(s) \in Nat /\ Len(s) <= capacity /\ n \in Nat
      /\ HeldAfterCoalesce \in [Contexts -> Nat]
      /\ \A y \in Contexts : HeldAfterCoalesce[y] = Occurrences(y, s)
      /\ use # "free" => \A y \in Contexts : Occurrences(y, s) <= 1
  BY CoalescedInv
<1>2. /\ slots' = s /\ held' = HeldAfterCoalesce /\ UNCHANGED <<capacity, destroyed, use, open>>
      /\ \/ n > Len(s) - 1 /\ yield' = Exhausted /\ iterator' = n
         \/ n <= Len(s) - 1 /\ yield' = s[n + 1] /\ iterator' = n + 1
  BY <1>1 DEF GetNext
<1> HIDE DEF s, n
<1>3. CollectionTypeOK'
  <2>1. yield' \in Contexts \cup {Null, Exhausted} /\ iterator' \in Nat
    BY <1>1, <1>2
  <2> QED BY <1>1, <1>2, <2>1 DEF CollectionInv, CollectionTypeOK
<1>4. EntriesReferenced' /\ Distinct'
  BY <1>1, <1>2 DEF EntriesReferenced, Distinct
<1>5. LastGiven'
  <2>1. \A i \in 1..Len(slots') : slots'[i] \notin destroyed'
    BY <1>1, <1>2
  <2>2. yield' \in Contexts => iterator' <= Len(slots') /\ slots'[iterator'] = yield'
    BY <1>1, <1>2, CollectionAssumption
  <2> QED BY <2>1, <2>2 DEF LastGiven
<1> QED BY <1>3, <1>4, <1>5 DEF CollectionInv

LEMMA SizeInv == ASSUME CollectionInv, Size PROVE CollectionInv'
<1> DEFINE s == Living(slots)
           n == Coalesced.iterator
<1>1. /\ Coalesced.slots = s /\ s \in Seq(Contexts \ destroyed) /\ s \in Seq(Contexts)
      /\ Len(s) \in Nat /\ Len(s) <= capacity /\ n \in Nat /\ n <= iterator
      /\ HeldAfterCoalesce \in [Contexts -> Nat]
      /\ \A y \in Contexts : HeldAfterCoalesce[y] = Occurrences(y, s)
      /\ use # "free" => \A y \in Contexts : Occurrences(y, s) <= 1
      /\ iterator \in Nat /\ slots \in Seq(Contexts)
  BY CoalescedInv DEF CollectionInv, CollectionTypeOK
<1>2. /\ slots' = s /\ held' = HeldAfterCoalesce /\ iterator' = n
      /\ UNCHANGED <<capacity, destroyed, yield, use, open>>
  BY <1>1 DEF Size
<1>3. CollectionTypeOK'
  <2> HIDE DEF s, n
  <2> QED BY <1>1, <1>2 DEF CollectionInv, CollectionTypeOK
<1>4. EntriesReferenced' /\ Distinct'
  <2> HIDE DEF s, n
  <2> QED BY <1>1, <1>2 DEF EntriesReferenced, Distinct
<1>5. LastGiven'
  <2>1. \A i \in 1..Len(slots') : slots'[i] \notin destroyed'
    <3> HIDE DEF s, n
    <3> QED BY <1>1, <1>2
  <2> SUFFICES ASSUME use = "query", iterator > 0, yield \in Contexts \ destroyed
               PROVE  iterator' <= Len(slots') /\ slots'[iterator'] = yield
    BY <1>1, <1>2, <2>1 DEF LastGiven
  <2>2. /\ \A i \in 1..Len(slots) : slots[i] \in destroyed => i = iterator
        /\ iterator <= Len(slots) /\ slots[iterator] = yield
    BY DEF CollectionInv, LastGiven
  <2>3. \A i \in 1..Len(slots) : slots[i] \notin destroyed
    BY <2>2
  <2>4. s = slots
    BY <1>1, <2>3, WithoutNone DEF Living
  <2>5. Kept(Passed) = SubSeq(slots, 1, iterator)
    <3>1. Passed = iterator
      BY <1>1, <2>2 DEF Passed
    <3> DEFINE u == SubSeq(slots, 1, iterator)
    <3>2. u \in Seq(Contexts) /\ Len(u) = iterator /\ \A i \in 1..iterator : u[i] = slots[i]
      BY <1>1, <2>2
    <3> HIDE DEF u
    <3>3. Living(u) = u
      BY <1>1, <2>2, <2>3, <3>2, WithoutNone DEF Living
    <3> QED BY <3>1, <3>3 DEF Kept, u
  <2>6. Len(Kept(Passed)) = iterator
    BY <1>1, <2>2, <2>5
  <2>7. n = iterator
    <3>1. Counted
      BY InvCounted DEF CollectionInv
    <3>2. n = IF iterator <= Len(Living(slots)) THEN Len(Kept(Passed))
              ELSE iterator - (Len(Living(slots)) - Len(Kept(Passed)))
      BY <3>1, CoalescedFacts
    <3> QED BY <2>2, <2>4, <2>6, <3>2
  <2> QED BY <1>2, <2>2, <2>4, <2>7
<1> QED BY <1>3, <1>4, <1>5 DEF CollectionInv

LEMMA DestroyContextInv ==
  ASSUME CollectionInv, NEW x \in Contexts, DestroyContext(x)
  PROVE  CollectionInv'
<1>1. /\ x \notin destroyed
      /\ use # "free" => x = yield
      /\ destroyed' = destroyed \cup {x} /\ UNCHANGED <<slots, capacity, iterator, held, yield, use, open>>
      /\ slots \in Seq(Contexts) /\ iterator \in Nat
  BY DEF DestroyContext, CollectionInv, CollectionTypeOK
<1>2. CollectionTypeOK'
  BY <1>1 DEF CollectionInv, CollectionTypeOK
<1>3. EntriesReferenced' /\ Distinct'
  BY <1>1 DEF CollectionInv, EntriesReferenced, Distinct
<1>4. LastGiven'
  <2> SUFFICES ASSUME use = "query", iterator > 0
               PROVE  /\ \A i \in 1..Len(slots) : slots[i] \in destroyed' => i = iterator
                      /\ yield \in destroyed'
    BY <1>1 DEF LastGiven
  <2>0. use # "free" /\ x \in Contexts \ destroyed
    <3>1. use # "free"
      OBVIOUS
    <3> QED BY <1>1, <3>1
  <2>1. x = yield
    BY <1>1, <2>0
  <2>2. /\ \A i \in 1..Len(slots) : slots[i] \in destroyed => i = iterator
        /\ iterator <= Len(slots) /\ slots[iterator] = yield
    BY <2>0, <2>1 DEF CollectionInv, LastGiven
  <2>3. Occurrences(yield, slots) <= 1
    BY <2>1 DEF CollectionInv, Distinct
  <2>4. \A i \in 1..Len(slots) : slots[i] = yield => i = iterator
    BY <1>1, <2>2, <2>3, TwoPlaces
  <2> QED BY <1>1, <2>1, <2>2, <2>4
<1> QED BY <1>2, <1>3, <1>4 DEF CollectionInv

LEMMA CollectionInvNext ==
  CollectionInv /\ [CollectionNext]_collection => CollectionInv'
<1> SUFFICES ASSUME CollectionInv, [CollectionNext]_collection PROVE CollectionInv'
  OBVIOUS
<1>1. CASE \E x \in Contexts : Push(x)
  BY <1>1, PushInv
<1>2. CASE \E x \in Contexts : DestroyContext(x)
  BY <1>2, DestroyContextInv
<1>3. CASE GetNext
  BY <1>3, GetNextInv
<1>4. CASE NextNonCoalesce
  <2>1. /\ UNCHANGED <<slots, capacity, held, destroyed, use, open>> /\ use = "teardown"
        /\ slots \in Seq(Contexts) /\ iterator \in Nat
    BY <1>4 DEF NextNonCoalesce, CollectionInv, CollectionTypeOK
  <2>2. yield' \in Contexts \cup {Null, Exhausted} /\ iterator' \in Nat
    BY <1>4, <2>1 DEF NextNonCoalesce
  <2>3. CollectionTypeOK'
    BY <2>1, <2>2 DEF CollectionInv, CollectionTypeOK
  <2>4. EntriesReferenced' /\ Distinct' /\ LastGiven'
    BY <2>1 DEF CollectionInv, EntriesReferenced, Distinct, LastGiven
  <2> QED BY <2>3, <2>4 DEF CollectionInv
<1>5. CASE Reset
  BY <1>5 DEF Reset, CollectionInv, CollectionTypeOK, EntriesReferenced, Distinct, LastGiven
<1>6. CASE Size
  BY <1>6, SizeInv
<1>7. CASE Finished
  <2>1. /\ slots' = <<>> /\ iterator' = 0 /\ held' = [x \in Contexts |-> held[x] - Occurrences(x, slots)]
        /\ open' = FALSE /\ UNCHANGED <<capacity, destroyed, yield, use>>
    BY <1>7 DEF Finished
  <2>2. \A x \in Contexts : held'[x] = 0 /\ Occurrences(x, slots') = 0
    <3>1. \A x \in Contexts : held[x] = Occurrences(x, slots) /\ held[x] \in Nat
      BY DEF CollectionInv, EntriesReferenced, CollectionTypeOK
    <3> QED BY <2>1, <3>1, OccurrencesNone
  <2>3. CollectionTypeOK'
    <3>1. held' \in [Contexts -> Nat]
      BY <2>1, <2>2
    <3>2. slots' \in Seq(Contexts) /\ Len(slots') = 0 /\ iterator' \in Nat
      BY <2>1
    <3>3. open' \in BOOLEAN
      BY <2>1
    <3>4. UNCHANGED <<capacity, destroyed, yield, use>>
      BY <2>1
    <3> QED BY <3>1, <3>2, <3>3, <3>4 DEF CollectionInv, CollectionTypeOK
  <2>4. EntriesReferenced' /\ Distinct' /\ LastGiven'
    BY <2>1, <2>2 DEF EntriesReferenced, Distinct, LastGiven
  <2> QED BY <2>3, <2>4 DEF CollectionInv
<1>8. CASE UNCHANGED collection
  <2>1. CollectionTypeOK'
    BY <1>8 DEF collection, CollectionInv, CollectionTypeOK
  <2>2. EntriesReferenced' /\ Distinct' /\ LastGiven'
    BY <1>8 DEF collection, CollectionInv, EntriesReferenced, Distinct, LastGiven
  <2> QED BY <2>1, <2>2 DEF CollectionInv
<1> QED BY <1>1, <1>2, <1>3, <1>4, <1>5, <1>6, <1>7, <1>8 DEF CollectionNext

(* A collection is well formed in whatever order the calls come. *)
THEOREM CollectionTypeCorrect == CollectionSpec => []CollectionTypeOK
<1>1. CollectionInv => CollectionTypeOK
  BY DEF CollectionInv
<1> QED BY <1>1, CollectionInvInit, CollectionInvNext, PTL DEF CollectionSpec

(* The collection holds one reference for each of its entries (collection.c).  *)
THEOREM CollectionReferences == CollectionSpec => []EntriesReferenced
<1>1. CollectionInv => EntriesReferenced
  BY DEF CollectionInv
<1> QED BY <1>1, CollectionInvInit, CollectionInvNext, PTL DEF CollectionSpec

(* No call loses a living entry, reorders entries or leaves a hole among   *)
(* them (dx_collection_coalesce).                                          *)
THEOREM StableCompactionHolds == CollectionSpec => StableCompaction
<1>1. ASSUME CollectionInv, [CollectionNext]_collection
      PROVE  [\/ slots' \in {slots, Living(slots)}
              \/ \E x \in Contexts : slots' = Append(Living(slots), x)
              \/ ~open']_collection
  <2>1. Coalesced.slots = Living(slots)
    BY <1>1, CoalescedInv
  <2> QED BY <1>1, <2>1
          DEF CollectionNext, Push, GetNext, NextNonCoalesce, Reset, Size, Finished, DestroyContext
<1> QED BY <1>1, CollectionInvInit, CollectionInvNext, PTL DEF CollectionSpec, StableCompaction
----------------------------------------------------------------------------
(* The refinement: what a call does to the living contexts the iterator    *)
(* has passed and to those ahead of it.                                    *)
Behind(array, n, dead) == Without(PassedIn(array, n), dead)
Before(array, n, dead) == Without(AheadIn(array, n), dead)

LEMMA PartsAre ==
  /\ PassedLiving = Behind(slots, iterator, destroyed) /\ AheadLiving = Before(slots, iterator, destroyed)
  /\ PassedLiving' = Behind(slots', iterator', destroyed') /\ AheadLiving' = Before(slots', iterator', destroyed')
BY DEF PassedLiving, AheadLiving, Passed, Living, Behind, Before, PassedIn, AheadIn

LEMMA SameWithout == \A s, S : Promise!Without(s, S) = Without(s, S)
BY DEF Promise!Without, Without

\* The iterator at the start.
LEMMA AtStart ==
  ASSUME NEW X, NEW s \in Seq(X), NEW dead
  PROVE  Behind(s, 0, dead) = <<>> /\ Before(s, 0, dead) = Without(s, dead)
<1>1. PassedIn(s, 0) = <<>>
  BY DEF PassedIn
<1>2. AheadIn(s, 0) = s
  BY DEF AheadIn
<1> QED BY <1>1, <1>2, WithoutNothing DEF Behind, Before

\* The iterator passes an entry.
LEMMA AdvanceFacts ==
  ASSUME NEW X, NEW s \in Seq(X), NEW n \in 0..(Len(s) - 1)
  PROVE  /\ PassedIn(s, n) \in Seq(X) /\ AheadIn(s, n) \in Seq(X) /\ AheadIn(s, n) # <<>>
         /\ PassedIn(s, n + 1) = Append(PassedIn(s, n), s[n + 1])
         /\ AheadIn(s, n) = <<s[n + 1]>> \o AheadIn(s, n + 1)
         /\ Head(AheadIn(s, n)) = s[n + 1] /\ Tail(AheadIn(s, n)) = AheadIn(s, n + 1)
         /\ AheadIn(s, n + 1) \in Seq(X) /\ s[n + 1] \in X
<1> DEFINE a == AheadIn(s, n)
           b == AheadIn(s, n + 1)
           N == Len(s)
<1>0. N \in Nat /\ n \in Nat /\ n < N /\ s[n + 1] \in X
  OBVIOUS
<1>1. PassedIn(s, n) = SubSeq(s, 1, n) /\ PassedIn(s, n + 1) = SubSeq(s, 1, n + 1)
  BY <1>0 DEF PassedIn
<1>2. SubSeq(s, 1, n) \in Seq(X) /\ SubSeq(s, 1, n + 1) = Append(SubSeq(s, 1, n), s[n + 1])
  BY PrefixFacts
<1>3. a \in Seq(X) /\ Len(a) = N - n /\ \A i \in 1..(N - n) : a[i] = s[n + i]
  BY <1>0 DEF AheadIn
<1>4. b \in Seq(X) /\ Len(b) = N - n - 1 /\ \A i \in 1..(N - n - 1) : b[i] = s[n + 1 + i]
  BY <1>0 DEF AheadIn
<1> HIDE DEF a, b, N
<1>5. a # <<>> /\ Head(a) = s[n + 1] /\ Tail(a) = b
  <2>1. a # <<>> /\ Head(a) = a[1] /\ a[1] = s[n + 1]
    BY <1>0, <1>3
  <2>2. Tail(a) \in Seq(X) /\ Len(Tail(a)) = N - n - 1 /\ \A i \in 1..(N - n - 1) : Tail(a)[i] = a[i + 1]
    BY <1>0, <1>3, <2>1
  <2>3. ASSUME NEW i \in 1..(N - n - 1) PROVE Tail(a)[i] = b[i]
    <3>1. i + 1 \in 1..(N - n) /\ n + (i + 1) = n + 1 + i
      BY <1>0
    <3> QED BY <1>3, <1>4, <2>2, <3>1
  <2>4. Tail(a) = b
    BY <1>0, <1>4, <2>2, <2>3, SameSequence
  <2> QED BY <2>1, <2>4
<1>6. a = <<s[n + 1]>> \o b
  <2> DEFINE one == <<s[n + 1]>>
             both == one \o b
  <2>1. one \in Seq(X) /\ Len(one) = 1 /\ one[1] = s[n + 1]
    BY <1>0
  <2> HIDE DEF one
  <2>2. /\ both \in Seq(X) /\ Len(both) = 1 + (N - n - 1)
        /\ \A i \in 1..1 : both[i] = one[i]
        /\ \A i \in 2..(1 + (N - n - 1)) : both[i] = b[i - 1]
    <3> DEFINE M == Len(one)
    <3>1. one \in Seq(X) /\ b \in Seq(X)
      BY <1>4, <2>1
    <3>2. /\ both \in Seq(X) /\ Len(both) = M + Len(b)
          /\ \A i \in 1..M : both[i] = one[i]
          /\ \A i \in (M + 1)..(M + Len(b)) : both[i] = b[i - M]
      BY <3>1, ConcatFacts
    <3>3. M = 1 /\ Len(b) = N - n - 1
      BY <1>4, <2>1
    <3> HIDE DEF M, both
    <3>4. M + 1 = 2
      BY <3>3
    <3> QED BY <3>2, <3>3, <3>4
  <2> HIDE DEF both
  <2>3. ASSUME NEW i \in 1..(N - n) PROVE a[i] = both[i]
    <3>1. CASE i = 1
      BY <1>0, <1>3, <2>1, <2>2, <3>1
    <3>2. CASE i > 1
      <4>1. i \in 2..(1 + (N - n - 1)) /\ i - 1 \in 1..(N - n - 1) /\ n + 1 + (i - 1) = n + i
        BY <1>0, <3>2
      <4> QED BY <1>3, <1>4, <2>2, <4>1
    <3> QED BY <1>0, <3>1, <3>2
  <2>4. Len(both) = N - n
    BY <1>0, <2>2
  <2>5. a = both
    BY <1>3, <2>2, <2>3, <2>4, SameSequence
  <2> QED BY <2>5 DEF both, one
<1> QED BY <1>0, <1>1, <1>2, <1>3, <1>4, <1>5, <1>6 DEF a, b

LEMMA AtEnd ==
  ASSUME NEW X, NEW s \in Seq(X), NEW n \in Nat, n > Len(s) - 1, NEW dead
  PROVE  Before(s, n, dead) = <<>>
<1>1. AheadIn(s, n) = <<>>
  BY DEF AheadIn
<1> QED BY <1>1, WithoutNothing DEF Before

----------------------------------------------------------------------------
LEMMA SeenOnly ==
  use # "free" =>
    /\ \A now, initially : Seen(now, initially) = now
    /\ use' = use => \A now, initially : Seen(now, initially)' = now'
BY DEF Seen

LEMMA PromiseInit == CollectionInit => Promise!Init
<1> SUFFICES ASSUME CollectionInit PROVE Promise!Init
  OBVIOUS
<1>1. slots = <<>> /\ iterator = 0 /\ destroyed = {} /\ yield = Null
  BY DEF CollectionInit
<1>2. <<>> \in Seq(Contexts) /\ Without(<<>>, {}) = <<>>
  BY WithoutNothing
<1>3. PassedLiving = <<>> /\ AheadLiving = <<>>
  BY <1>1, <1>2, AtStart, PartsAre
<1> QED BY <1>1, <1>3 DEF Promise!Init, Seen

LEMMA PromisePush ==
  ASSUME CollectionInv, use # "free", NEW x \in Contexts, Push(x)
  PROVE  /\ AheadLiving' = IF x \in destroyed THEN AheadLiving ELSE Append(AheadLiving, x)
         /\ UNCHANGED <<PassedLiving, destroyed, yield>>
<1> DEFINE s == Living(slots)
<1>1. /\ Coalesced.slots = s /\ s \in Seq(Contexts \ destroyed) /\ s \in Seq(Contexts)
      /\ Coalesced.iterator \in Nat /\ Coalesced.iterator <= iterator
      /\ slots \in Seq(Contexts) /\ iterator \in Nat
  BY CoalescedInv DEF CollectionInv, CollectionTypeOK
<1>2. /\ slots' = Append(s, x) /\ iterator' = Coalesced.iterator /\ iterator = 0
      /\ UNCHANGED <<destroyed, yield>>
  BY <1>1 DEF Push
<1>3. iterator' = 0
  BY <1>1, <1>2
<1>4. PassedLiving = <<>> /\ AheadLiving = s
  BY <1>1, <1>2, AtStart, PartsAre DEF Living
<1>5. Without(s, destroyed) = s
  BY <1>1, AllLiving DEF Living
<1> HIDE DEF s
<1>6. Append(s, x) \in Seq(Contexts)
  BY <1>1
<1>7. PassedLiving' = <<>> /\ AheadLiving' = Without(Append(s, x), destroyed)
  <2>1. PassedLiving' = Behind(slots', iterator', destroyed') /\ AheadLiving' = Before(slots', iterator', destroyed')
    BY PartsAre
  <2>2. /\ Behind(Append(s, x), 0, destroyed) = <<>>
        /\ Before(Append(s, x), 0, destroyed) = Without(Append(s, x), destroyed)
    BY <1>6, AtStart
  <2> QED BY <1>2, <1>3, <2>1, <2>2
<1>8. Without(Append(s, x), destroyed) = IF x \in destroyed THEN s ELSE Append(s, x)
  BY <1>1, <1>5, WithoutAppended
<1> QED BY <1>2, <1>4, <1>7, <1>8

LEMMA SteadyHolds == ASSUME CollectionInv PROVE Steadiness
<1> SUFFICES ASSUME use = "query", AheadLiving # <<>> PROVE iterator <= Len(Living(slots))
  BY DEF Steadiness, Steady
<1>1. Counted /\ slots \in Seq(Contexts) /\ iterator \in Nat
  BY InvCounted DEF CollectionInv, CollectionTypeOK
<1>2. /\ AheadLiving \in Seq(Contexts \ destroyed) /\ PassedLiving = Kept(Passed)
      /\ Len(Living(slots)) = Len(PassedLiving) + Len(AheadLiving)
      /\ Len(PassedLiving) \in Nat /\ Len(AheadLiving) \in Nat
  BY <1>1, PartFacts
<1>3. Len(AheadLiving) >= 1
  BY <1>2
<1>4. CASE iterator = 0
  BY <1>2, <1>4
<1>5. CASE iterator > 0
  <2>1. \A i \in 1..Len(slots) : slots[i] \in destroyed => i = iterator
    BY <1>5 DEF CollectionInv, LastGiven
  <2>2. iterator <= Len(slots) /\ Passed = iterator
    <3>1. ~(iterator > Len(slots) - 1) \/ iterator = Len(slots)
      BY <1>1, AtEnd, PartsAre
    <3> QED BY <1>1, <3>1 DEF Passed
  <2> DEFINE n == iterator - 1
             u == SubSeq(slots, 1, n)
  <2>3. n \in 0..Len(slots) /\ iterator \in n..Len(slots)
    BY <1>1, <1>5, <2>2
  <2>4. u \in Seq(Contexts) /\ Len(u) = n /\ \A i \in 1..n : u[i] = slots[i]
    BY <1>1, <2>3
  <2>5. \A i \in 1..n : slots[i] \notin destroyed
    BY <1>1, <1>5, <2>1, <2>2
  <2>6. Kept(n) = u
    <3> HIDE DEF u, n
    <3>1. Without(u, destroyed) = u
      BY <2>4, <2>5, WithoutNone
    <3> QED BY <3>1 DEF Kept, Living, u
  <2> HIDE DEF u
  <2>7. Len(Kept(n)) <= Len(Kept(iterator))
    <3> HIDE DEF n
    <3> QED BY <1>1, <2>3, KeptGrows
  <2>8. n <= Len(PassedLiving)
    BY <1>2, <2>2, <2>4, <2>6, <2>7
  <2> QED BY <1>1, <1>2, <1>3, <2>8
<1> QED BY <1>1, <1>4, <1>5

LEMMA PromiseYield ==
  ASSUME CollectionInv, use = "query", GetNext
  PROVE  /\ destroyed' = destroyed
         /\ IF AheadLiving = <<>>
            THEN yield' = Exhausted /\ UNCHANGED <<PassedLiving, AheadLiving>>
            ELSE /\ yield' = Head(AheadLiving)
                 /\ PassedLiving' = Append(PassedLiving, Head(AheadLiving))
                 /\ AheadLiving' = Tail(AheadLiving)
<1> DEFINE s == Coalesced.slots
           n == Coalesced.iterator
           P == PassedLiving
           A == AheadLiving
           X == Contexts \ destroyed
<1>1. /\ s = P \o A /\ n \in Nat /\ n >= Len(P) /\ (n = Len(P) \/ A = <<>>)
      /\ PassedIn(s, n) = P /\ AheadIn(s, n) = A
  <2>1. Counted /\ Steady
    BY InvCounted, SteadyHolds DEF CollectionInv, Steadiness
  <2> QED BY <2>1, CoalescedParts
<1>2. /\ P \in Seq(X) /\ A \in Seq(X)
  BY InvCounted, PartFacts DEF CollectionInv
<1>3. /\ slots' = s /\ UNCHANGED destroyed
      /\ \/ n > Len(s) - 1 /\ yield' = Exhausted /\ iterator' = n
         \/ ~(n > Len(s) - 1) /\ yield' = s[n + 1] /\ iterator' = n + 1
  BY DEF GetNext
<1>4. \A t \in Seq(X) : Without(t, destroyed) = t
  BY AllLiving DEF Living
<1>5. P' = Behind(slots', iterator', destroyed') /\ A' = Before(slots', iterator', destroyed')
  BY PartsAre
<1> HIDE DEF s, n, P, A, X
<1>6. s \in Seq(X)
  BY <1>1, <1>2
<1>7. CASE n > Len(s) - 1
  <2>1. A = <<>>
    BY <1>1, <1>6, <1>7 DEF AheadIn
  <2>2. P' = P /\ A' = A
    BY <1>1, <1>2, <1>3, <1>4, <1>5, <1>7 DEF Behind, Before
  <2> QED BY <1>3, <1>7, <2>1, <2>2 DEF P, A
<1>8. CASE ~(n > Len(s) - 1)
  <2>1. n \in 0..(Len(s) - 1)
    BY <1>1, <1>6, <1>8
  <2>2. /\ A # <<>> /\ PassedIn(s, n + 1) = Append(P, s[n + 1]) /\ Head(A) = s[n + 1]
        /\ Tail(A) = AheadIn(s, n + 1) /\ AheadIn(s, n + 1) \in Seq(X) /\ s[n + 1] \in X
    BY <1>1, <1>6, <2>1, AdvanceFacts
  <2>3. Append(P, s[n + 1]) \in Seq(X)
    BY <1>2, <2>2
  <2>4. P' = Append(P, Head(A)) /\ A' = Tail(A)
    BY <1>3, <1>4, <1>5, <1>8, <2>2, <2>3 DEF Behind, Before
  <2> QED BY <1>3, <1>8, <2>2, <2>4 DEF P, A
<1> QED BY <1>7, <1>8

LEMMA PromiseTeardown ==
  ASSUME CollectionInv, NextNonCoalesce
  PROVE  /\ destroyed' = destroyed
         /\ \/ /\ AheadLiving = <<>>
               /\ yield' = Exhausted /\ UNCHANGED <<PassedLiving, AheadLiving>>
            \/ /\ AheadLiving # <<>> /\ yield' = Head(AheadLiving)
               /\ PassedLiving' = Append(PassedLiving, Head(AheadLiving))
               /\ AheadLiving' = Tail(AheadLiving)
            \/ yield' \in destroyed /\ UNCHANGED <<PassedLiving, AheadLiving>>
<1> DEFINE s == slots
           n == iterator
           P == PassedLiving
           A == AheadLiving
<1>1. s \in Seq(Contexts) /\ n \in Nat
  BY DEF CollectionInv, CollectionTypeOK
<1>2. /\ slots' = s /\ UNCHANGED destroyed
      /\ \/ n > Len(s) - 1 /\ yield' = Exhausted /\ iterator' = n
         \/ ~(n > Len(s) - 1) /\ yield' = s[n + 1] /\ iterator' = n + 1
  BY DEF NextNonCoalesce
<1>3. /\ P = Behind(s, n, destroyed) /\ A = Before(s, n, destroyed)
      /\ P' = Behind(slots', iterator', destroyed') /\ A' = Before(slots', iterator', destroyed')
  BY PartsAre
<1> HIDE DEF s, n, P, A
<1>4. CASE n > Len(s) - 1
  <2>1. A = <<>>
    BY <1>1, <1>3, <1>4, AtEnd
  <2>2. P' = P /\ A' = A
    BY <1>2, <1>3, <1>4
  <2> QED BY <1>2, <1>4, <2>1, <2>2 DEF P, A
<1>5. CASE ~(n > Len(s) - 1)
  <2> DEFINE x == s[n + 1]
             p == PassedIn(s, n)
             a == AheadIn(s, n)
             b == AheadIn(s, n + 1)
  <2>1. n \in 0..(Len(s) - 1)
    BY <1>1, <1>5
  <2>2. /\ p \in Seq(Contexts) /\ a \in Seq(Contexts) /\ b \in Seq(Contexts) /\ x \in Contexts
        /\ PassedIn(s, n + 1) = Append(p, x) /\ a = <<x>> \o b
    BY <1>1, <2>1, AdvanceFacts
  <2>3. P = Without(p, destroyed) /\ A = Without(a, destroyed)
    BY <1>3 DEF Behind, Before
  <2>4. yield' = x /\ P' = Without(PassedIn(s, n + 1), destroyed) /\ A' = Without(b, destroyed)
    BY <1>2, <1>3, <1>5 DEF Behind, Before
  <2> HIDE DEF x, p, a, b
  <2>5. Without(Append(p, x), destroyed) = IF x \in destroyed THEN Without(p, destroyed)
                                           ELSE Append(Without(p, destroyed), x)
    BY <2>2, WithoutAppended
  <2>6. Without(<<x>> \o b, destroyed) = IF x \in destroyed THEN Without(b, destroyed)
                                         ELSE <<x>> \o Without(b, destroyed)
    BY <2>2, WithoutOne
  <2>7. CASE x \in destroyed
    <3>1. P' = P /\ A' = A
      BY <2>2, <2>3, <2>4, <2>5, <2>6, <2>7
    <3> QED BY <1>2, <2>4, <2>7, <3>1 DEF P, A
  <2>8. CASE x \notin destroyed
    <3>1. P' = Append(P, x) /\ A = <<x>> \o A'
      BY <2>2, <2>3, <2>4, <2>5, <2>6, <2>8
    <3>2. A' \in Seq(Contexts)
      BY <2>2, <2>4, WithoutTypes
    <3>3. A # <<>> /\ Head(A) = x /\ Tail(A) = A'
      <4> DEFINE rest == Without(b, destroyed)
      <4>1. rest \in Seq(Contexts) /\ A = <<x>> \o rest /\ A' = rest
        BY <2>4, <3>1, <3>2
      <4> HIDE DEF rest
      <4>2. <<x>> \o rest # <<>> /\ Head(<<x>> \o rest) = x /\ Tail(<<x>> \o rest) = rest
        BY <2>2, <4>1
      <4> QED BY <4>1, <4>2
    <3> QED BY <1>2, <2>4, <3>1, <3>3 DEF P, A
  <2> QED BY <2>7, <2>8
<1> QED BY <1>4, <1>5

LEMMA PromiseRewind ==
  ASSUME CollectionInv, Reset
  PROVE  /\ PassedLiving' = <<>> /\ AheadLiving' = PassedLiving \o AheadLiving
         /\ UNCHANGED <<destroyed, yield>>
<1>1. slots \in Seq(Contexts) /\ Counted
  BY InvCounted DEF CollectionInv, CollectionTypeOK
<1>2. slots' = slots /\ iterator' = 0 /\ UNCHANGED <<destroyed, yield>>
  BY DEF Reset
<1>3. PassedLiving' = <<>> /\ AheadLiving' = Living(slots)
  BY <1>1, <1>2, AtStart, PartsAre DEF Living
<1>4. Living(slots) = PassedLiving \o AheadLiving
  BY <1>1, PartFacts
<1> QED BY <1>2, <1>3, <1>4

LEMMA PromiseSize ==
  ASSUME CollectionInv, use = "query", Size
  PROVE  UNCHANGED <<PassedLiving, AheadLiving, destroyed, yield>>
<1> DEFINE s == Coalesced.slots
           n == Coalesced.iterator
           P == PassedLiving
           A == AheadLiving
           X == Contexts \ destroyed
<1>1. PassedIn(s, n) = P /\ AheadIn(s, n) = A
  <2>1. Counted /\ Steady
    BY InvCounted, SteadyHolds DEF CollectionInv, Steadiness
  <2> QED BY <2>1, CoalescedParts
<1>2. P \in Seq(X) /\ A \in Seq(X)
  BY InvCounted, PartFacts DEF CollectionInv
<1>3. slots' = s /\ iterator' = n /\ UNCHANGED <<destroyed, yield>>
  BY DEF Size
<1>4. \A t \in Seq(X) : Without(t, destroyed) = t
  BY AllLiving DEF Living
<1>5. P' = Behind(slots', iterator', destroyed') /\ A' = Before(slots', iterator', destroyed')
  BY PartsAre
<1> HIDE DEF s, n, P, A, X
<1>6. P' = P /\ A' = A
  BY <1>1, <1>2, <1>3, <1>4, <1>5 DEF Behind, Before
<1> QED BY <1>3, <1>6 DEF P, A

LEMMA PromiseFinish ==
  ASSUME Finished
  PROVE  PassedLiving' = <<>> /\ AheadLiving' = <<>> /\ UNCHANGED <<destroyed, yield>>
<1>1. slots' = <<>> /\ iterator' = 0 /\ UNCHANGED <<destroyed, yield>>
  BY DEF Finished
<1>2. <<>> \in Seq(Contexts) /\ Without(<<>>, destroyed) = <<>>
  BY WithoutNothing
<1> QED BY <1>1, <1>2, AtStart, PartsAre

LEMMA PromiseDestroy ==
  ASSUME CollectionInv, NEW x \in Contexts, DestroyContext(x)
  PROVE  /\ destroyed' = destroyed \cup {x}
         /\ PassedLiving' = Without(PassedLiving, {x}) /\ AheadLiving' = Without(AheadLiving, {x})
         /\ UNCHANGED yield
<1> DEFINE p == PassedIn(slots, iterator)
           a == AheadIn(slots, iterator)
<1>1. slots \in Seq(Contexts) /\ iterator \in Nat
  BY DEF CollectionInv, CollectionTypeOK
<1>2. destroyed' = destroyed \cup {x} /\ UNCHANGED <<slots, iterator, yield>>
  BY DEF DestroyContext
<1>3. p \in Seq(Contexts) /\ a \in Seq(Contexts)
  BY <1>1 DEF PassedIn, AheadIn
<1>4. /\ PassedLiving = Without(p, destroyed) /\ AheadLiving = Without(a, destroyed)
      /\ PassedLiving' = Without(p, destroyed \cup {x}) /\ AheadLiving' = Without(a, destroyed \cup {x})
  BY <1>2, PartsAre DEF Behind, Before
<1> HIDE DEF p, a
<1>5. /\ Without(Without(p, destroyed), {x}) = Without(p, destroyed \cup {x})
      /\ Without(Without(a, destroyed), {x}) = Without(a, destroyed \cup {x})
  BY <1>3, WithoutTwice
<1> QED BY <1>2, <1>4, <1>5

LEMMA PromiseNext ==
  ASSUME CollectionInv, [CollectionNext]_collection
  PROVE  [Promise!Next]_(Promise!vars)
<1>1. use' = use
  BY DEF CollectionNext, collection, Push, GetNext, NextNonCoalesce, Reset, Size, Finished, DestroyContext
<1>2. use \in AllUses
  BY CollectionAssumption DEF CollectionInv, CollectionTypeOK
<1>3. CASE use = "free"
  BY <1>1, <1>3 DEF Seen, Promise!vars
<1>4. CASE use # "free"
  <2> DEFINE P == PassedLiving
             A == AheadLiving
  <2>1. /\ Seen(P, <<>>) = P /\ Seen(A, <<>>) = A /\ Seen(destroyed, {}) = destroyed /\ Seen(yield, Null) = yield
        /\ Seen(P, <<>>)' = P' /\ Seen(A, <<>>)' = A'
        /\ Seen(destroyed, {})' = destroyed' /\ Seen(yield, Null)' = yield'
    BY <1>1, <1>4 DEF Seen
  <2> HIDE DEF P, A
  <2>2. ASSUME UNCHANGED <<P, A, destroyed, yield>> PROVE UNCHANGED Promise!vars
    BY <2>1, <2>2 DEF Promise!vars, P, A
  <2>3. ASSUME NEW x \in Contexts, Push(x) PROVE Promise!Push(x)
    <3>1. /\ A' = IF x \in destroyed THEN A ELSE Append(A, x)
          /\ UNCHANGED <<P, destroyed, yield>>
      BY <1>4, <2>3, PromisePush DEF P, A
    <3> QED BY <2>1, <3>1 DEF Promise!Push, P, A
  <2>4. ASSUME NEW x \in Contexts, DestroyContext(x) PROVE Promise!Destroy(x)
    <3>1. /\ destroyed' = destroyed \cup {x} /\ P' = Without(P, {x}) /\ A' = Without(A, {x}) /\ UNCHANGED yield
      BY <2>4, PromiseDestroy DEF P, A
    <3> QED BY <2>1, <3>1, SameWithout DEF Promise!Destroy, P, A
  <2>5. ASSUME GetNext PROVE Promise!Yield
    <3>1. use = "query"
      BY <1>2, <1>4, <2>5 DEF GetNext, AllUses
    <3>2. /\ destroyed' = destroyed
          /\ IF A = <<>> THEN yield' = Exhausted /\ UNCHANGED <<P, A>>
             ELSE yield' = Head(A) /\ P' = Append(P, Head(A)) /\ A' = Tail(A)
      BY <2>5, <3>1, PromiseYield DEF P, A
    <3> QED BY <2>1, <3>2 DEF Promise!Yield, P, A
  <2>6. ASSUME NextNonCoalesce PROVE Promise!Yield \/ Promise!YieldDestroyed
    <3>1. /\ destroyed' = destroyed
          /\ \/ A = <<>> /\ yield' = Exhausted /\ UNCHANGED <<P, A>>
             \/ A # <<>> /\ yield' = Head(A) /\ P' = Append(P, Head(A)) /\ A' = Tail(A)
             \/ yield' \in destroyed /\ UNCHANGED <<P, A>>
      BY <2>6, PromiseTeardown DEF P, A
    <3> QED BY <2>1, <3>1 DEF Promise!Yield, Promise!YieldDestroyed, P, A
  <2>7. ASSUME Reset PROVE Promise!Rewind
    <3>1. P' = <<>> /\ A' = P \o A /\ UNCHANGED <<destroyed, yield>>
      BY <2>7, PromiseRewind DEF P, A
    <3> QED BY <2>1, <3>1 DEF Promise!Rewind, P, A
  <2>8. ASSUME Size PROVE UNCHANGED Promise!vars
    <3>1. use = "query"
      BY <1>2, <1>4, <2>8 DEF Size, AllUses
    <3> QED BY <2>2, <2>8, <3>1, PromiseSize DEF P, A
  <2>9. ASSUME Finished PROVE Promise!Finish
    <3>1. P' = <<>> /\ A' = <<>> /\ UNCHANGED <<destroyed, yield>>
      BY <2>9, PromiseFinish DEF P, A
    <3> QED BY <2>1, <3>1 DEF Promise!Finish, P, A
  <2>10. ASSUME UNCHANGED collection PROVE UNCHANGED Promise!vars
    <3>1. slots' = slots /\ iterator' = iterator /\ UNCHANGED <<destroyed, yield>>
      BY <2>10 DEF collection
    <3>2. UNCHANGED <<P, A>>
      BY <3>1, PartsAre DEF P, A
    <3> QED BY <2>2, <3>1, <3>2
  <2> QED BY <2>3, <2>4, <2>5, <2>6, <2>7, <2>8, <2>9, <2>10 DEF CollectionNext, Promise!Next
<1> QED BY <1>3, <1>4

(* The iterator of a collection that an API call returned, and that of a   *)
(* storage being torn down, returns the living entries in their order,     *)
(* each once, whatever was destroyed before or behind it.                  *)
THEOREM IteratesInOrderHolds == CollectionSpec => IteratesInOrder
<1>1. CollectionInit => Promise!Init
  BY PromiseInit
<1>2. CollectionInv /\ [CollectionNext]_collection => [Promise!Next]_(Promise!vars)
  BY PromiseNext
<1> QED BY <1>1, <1>2, CollectionInvInit, CollectionInvNext, PTL
        DEF CollectionSpec, IteratesInOrder, Promise!Spec
=============================================================================
