------------------------------ MODULE Context ------------------------------
(***************************************************************************)
(* The life of the contexts of one config: dc_begin, dc_set_name,          *)
(* dc_finalize, dc_finalize_keep_reference, the queries that hand out      *)
(* references, dc_putcontext, dc_destroy and disir_config_finished         *)
(* (lib/context.c, context_util.c, context_section.c, context_keyval.c,    *)
(* context_config.c, element_storage.c).                                   *)
(*                                                                         *)
(* A context is a reference counted shell around a structure.  Destroying  *)
(* it destroys the structure and everything stored below it at once; the   *)
(* shell stays until the last reference is dropped.  The library is single *)
(* threaded: one API call is one step, and what interleaves is the order   *)
(* in which the client makes calls through the pointers it holds.          *)
(*                                                                         *)
(* Abstracted: values, documentation, defaults and restrictions (which of  *)
(* the contexts validated have a wrong name, value or number of entries is *)
(* the argument wrong of Finalize, whether a parent is full that of        *)
(* SetName), allocation failures, and the order of the elements in a       *)
(* storage (module Collection).                                            *)
(***************************************************************************)
EXTENDS Integers, FiniteSets

CONSTANTS
  Ctx,        \* contexts a client may begin below the root
  Root,       \* the CONFIG context
  Sections,   \* the members of Ctx that are SECTIONs; the others are KEYVALs
  Names,      \* names a client gives to contexts
  MoldNames,  \* names for which the mold of the parent has an element
  None,       \* no name, no parent
  MaxHandles, \* bound: pointers to one context a client holds at once
  MaxPinned,  \* bound: references to one context that no pointer stands for
  Client      \* optional behaviours of the client, a subset of Behaviours

\* rename:        dc_set_name on a finalized context
\* orphan:        dc_set_name or dc_finalize on a context whose parent was destroyed
\* destroyStored: dc_destroy on a finalized context through a queried pointer
\* keepFails:     dc_finalize_keep_reference on a context that cannot be finalized
Behaviours == {"rename", "orphan", "destroyStored", "keepFails"}

All == Ctx \cup {Root}

ASSUME ContextAssumption ==
  /\ IsFiniteSet(Ctx)
  /\ Root \notin Ctx
  /\ None \notin Ctx \cup Names \cup {Root}
  /\ Sections \subseteq Ctx
  /\ MoldNames \subseteq Names
  /\ MaxHandles \in Nat \ {0}
  /\ MaxPinned \in Nat \ {0}
  /\ Client \subseteq Behaviours

VARIABLES
  life,      \* "none", "live", "destroyed" (shell only) or "freed"
  parent,    \* cx_parent_context
  refs,      \* cx_refcount
  handles,   \* history: pointers the client holds and must give back
  pinned,    \* history: references counted in refs that nobody points with
  finalized, \* CONTEXT_STATE_FINALIZED (otherwise CONSTRUCTING)
  invalid,   \* CONTEXT_STATE_INVALID
  name,      \* kv_name, se_name
  equiv,     \* the name of kv_mold_equiv, se_mold_equiv
  stored,    \* on es_list of the parent (and CONTEXT_STATE_IN_PARENT)
  keys,      \* the keys under which es_map of the parent holds the context
  config,    \* the client holds the struct disir_config of the root
  fault      \* the program read a structure that no longer exists

vars == <<life, parent, refs, handles, pinned, finalized, invalid, name, equiv,
          stored, keys, config, fault>>

State == {"none", "live", "destroyed", "freed"}

TypeOK ==
  /\ life \in [All -> State]
  /\ parent \in [All -> All \cup {None}]
  /\ refs \in [All -> Nat]
  /\ handles \in [All -> Nat]
  /\ pinned \in [All -> Nat]
  /\ finalized \in [All -> BOOLEAN]
  /\ invalid \in [All -> BOOLEAN]
  /\ name \in [All -> Names \cup {None}]
  /\ equiv \in [All -> MoldNames \cup {None}]
  /\ stored \in [All -> BOOLEAN]
  /\ keys \in [All -> SUBSET Names]
  /\ config \in BOOLEAN
  /\ fault \in BOOLEAN

Bit(b) == IF b THEN 1 ELSE 0

\* The contexts attached to x that still count in its references.
Kids(x) == {k \in Ctx : parent[k] = x /\ life[k] = "live"}

\* x and everything stored below it.
Closed(S) == \A k \in Ctx : stored[k] /\ parent[k] \in S => k \in S

\* Mutations: the children stay behind; children still under construction go too.
SubtreeOfNone(x) == {x}
SubtreeOfAttached(x) ==
  {d \in All : \A S \in SUBSET All :
     x \in S /\ (\A k \in Ctx : parent[k] \in S => k \in S) => d \in S}

Subtree(x) == {d \in All : \A S \in SUBSET All : x \in S /\ Closed(S) => d \in S}

----------------------------------------------------------------------------
(* dc_config_begin: the root, one reference owned by its creator. *)
Init ==
  /\ life = [x \in All |-> IF x = Root THEN "live" ELSE "none"]
  /\ parent = [x \in All |-> None]
  /\ refs = [x \in All |-> Bit(x = Root)]
  /\ handles = [x \in All |-> Bit(x = Root)]
  /\ pinned = [x \in All |-> 0]
  /\ finalized = [x \in All |-> FALSE]
  /\ invalid = [x \in All |-> FALSE]
  /\ name = [x \in All |-> None]
  /\ equiv = [x \in All |-> None]
  /\ stored = [x \in All |-> FALSE]
  /\ keys = [x \in All |-> {}]
  /\ config = FALSE
  /\ fault = FALSE

\* The client may use its pointer to x, and x is not a destroyed shell.
Usable(x) == handles[x] > 0 /\ life[x] = "live"

ParentLive(c) == parent[c] \in All /\ life[parent[c]] = "live"

\* Mutation: dx_context_attach without the reference to the parent.
BeginWithoutReference(p, c) ==
  /\ life[c] = "none" /\ Usable(p) /\ p \in Sections \cup {Root} /\ p # c
  /\ life' = [life EXCEPT ![c] = "live"]
  /\ parent' = [parent EXCEPT ![c] = p]
  /\ refs' = [refs EXCEPT ![c] = 1]
  /\ handles' = [handles EXCEPT ![c] = 1]
  /\ UNCHANGED <<pinned, finalized, invalid, name, equiv, stored, keys, config, fault>>

(* dc_begin: a new shell, attached to its parent, not yet stored in it. *)
Begin(p, c) ==
  /\ life[c] = "none"
  /\ Usable(p)
  /\ p \in Sections \cup {Root}
  /\ p # c
  /\ life' = [life EXCEPT ![c] = "live"]
  /\ parent' = [parent EXCEPT ![c] = p]
  /\ refs' = [refs EXCEPT ![c] = 1, ![p] = @ + 1]
  /\ handles' = [handles EXCEPT ![c] = 1]
  /\ UNCHANGED <<pinned, finalized, invalid, name, equiv, stored, keys, config, fault>>

\* dx_set_mold_equiv finds an element called n in the mold of the parent of c.
InMold(c, n) == n \in MoldNames /\ (parent[c] = Root \/ equiv[parent[c]] # None)

(* dc_set_name, name not in the mold: the name is set and the context is   *)
(* marked invalid; a mold equivalent found by an earlier call stays.       *)
SetUnknownName(c, n) ==
  /\ Usable(c) /\ ParentLive(c)
  /\ finalized[c] => "rename" \in Client
  /\ ~InMold(c, n)
  /\ name' = [name EXCEPT ![c] = n]
  /\ invalid' = [invalid EXCEPT ![c] = TRUE]
  /\ UNCHANGED <<life, parent, refs, handles, pinned, finalized, equiv, stored, keys,
                 config, fault>>

(* dc_set_name, name in the mold.  full: the parent is finalized and holds *)
(* the maximum number of entries of that name, RESTRICTION_VIOLATED is     *)
(* returned after the mold equivalent was already exchanged.  The storage  *)
(* of the parent is never rekeyed.                                         *)
SetKnownName(c, n, full) ==
  /\ Usable(c) /\ ParentLive(c)
  /\ finalized[c] => "rename" \in Client
  /\ InMold(c, n)
  /\ full => finalized[parent[c]]
  /\ equiv' = [equiv EXCEPT ![c] = n]
  /\ name' = IF full THEN name ELSE [name EXCEPT ![c] = n]
  /\ UNCHANGED <<life, parent, refs, handles, pinned, finalized, invalid, stored, keys,
                 config, fault>>

----------------------------------------------------------------------------
(* dx_validate_context validates a context and, through validate_children, *)
(* everything stored below it, each context anew whatever it was before.   *)
(* wrong: the contexts among them whose own name, value or number of       *)
(* entries does not satisfy its restrictions.                              *)

\* x itself is in error.
InError(x, wrong) == x \in wrong \/ (x \in Ctx /\ equiv[x] = None)

\* validate_children finds an error somewhere below x.
ErrorBelow(x, wrong) == \E d \in Subtree(x) \ {x} : InError(d, wrong)

\* The status dx_validate_context returns for a KEYVAL or SECTION.
Verdict(c, wrong) ==
  LET settled == finalized[parent[c]] \/ finalized[c] IN
  IF InError(c, wrong) THEN IF settled THEN "REJECTED" ELSE "INVALID_CONTEXT"
  ELSE IF ~ErrorBelow(c, wrong) THEN "OK"
  ELSE IF settled THEN "ELEMENTS_INVALID" ELSE "INVALID_CONTEXT"

\* Mutation: under a parent that is being built no error is marked.
MarkedUnderFinalized(x, wrong) ==
  IF x = Root THEN InError(x, wrong)
  ELSE finalized[parent[x]] /\ (InError(x, wrong) \/ ErrorBelow(x, wrong))

\* The mark dx_validate_context leaves on x: it clears the old one first.
Marked(x, wrong) ==
  \/ InError(x, wrong)
  \/ x # Root /\ finalized[parent[x]] /\ ErrorBelow(x, wrong)

\* The marks after the validation of c and of all it stores.
Revalidated(c, wrong) ==
  [x \in All |-> IF x \in Subtree(c) THEN Marked(x, wrong) ELSE invalid[x]]

(* dx_keyval_finalize and dx_section_finalize store c and dc_finalize      *)
(* deprives the client of its pointer (OK, ELEMENTS_INVALID) or adds a     *)
(* reference for it (INVALID_CONTEXT).  The reference of the creator stays *)
(* counted: pinned.                                                        *)
FinalizeStores(c, wrong, keep) ==
  LET verdict == Verdict(c, wrong)
      taken == Bit(verdict # "INVALID_CONTEXT" /\ ~keep)
  IN
  /\ Usable(c) /\ ParentLive(c)
  /\ name[c] # None
  /\ ~finalized[c]
  /\ verdict # "REJECTED"
  /\ finalized' = [finalized EXCEPT ![c] = TRUE]
  /\ invalid' = [Revalidated(c, wrong) EXCEPT ![c] = @ \/ verdict = "INVALID_CONTEXT"]
  /\ stored' = [stored EXCEPT ![c] = TRUE]
  /\ keys' = [keys EXCEPT ![c] = @ \cup {name[c]}]
  /\ handles' = [handles EXCEPT ![c] = @ - taken]
  /\ pinned' = [pinned EXCEPT ![c] = @ + 1]
  /\ refs' = [refs EXCEPT ![c] = @ + 2 - taken]
  /\ UNCHANGED <<life, parent, name, equiv, config, fault>>

(* dc_finalize refuses: no name (CONTEXT_IN_WRONG_STATE), an error under a *)
(* finalized parent (the status of the error), or already stored under its *)
(* name (EXISTS).  dc_finalize_keep_reference has added a reference by     *)
(* then, and drops it only for INVALID_CONTEXT.                            *)
FinalizeRefuses(c, wrong, keep) ==
  /\ Usable(c) /\ ParentLive(c)
  /\ \/ name[c] = None
     \/ Verdict(c, wrong) = "REJECTED"
     \/ finalized[c] /\ name[c] \in keys[c]
  /\ invalid' = IF name[c] = None THEN invalid ELSE Revalidated(c, wrong)
  /\ keep => "keepFails" \in Client /\ pinned[c] < MaxPinned
  /\ refs' = [refs EXCEPT ![c] = @ + Bit(keep)]
  /\ pinned' = [pinned EXCEPT ![c] = @ + Bit(keep)]
  /\ UNCHANGED <<life, parent, handles, finalized, name, equiv, stored, keys, config, fault>>

(* dc_set_name and dc_finalize follow cx_parent_context into the structure *)
(* of the parent without looking at its state: once the parent is destroyed *)
(* its structure pointer is NULL.                                          *)
OrphanUse(c) ==
  /\ "orphan" \in Client
  /\ Usable(c) /\ ~ParentLive(c)
  /\ fault' = TRUE
  /\ UNCHANGED <<life, parent, refs, handles, pinned, finalized, invalid, name, equiv,
                 stored, keys, config>>

----------------------------------------------------------------------------
(* dc_config_finalize: the reference of the creator becomes the one of the *)
(* disir_config, for OK and for INVALID_CONTEXT alike.  The whole config   *)
(* is validated once more, while the root is still under construction.     *)
FinalizeConfig(wrong) ==
  /\ Usable(Root) /\ ~finalized[Root]
  /\ finalized' = [finalized EXCEPT ![Root] = TRUE]
  /\ invalid' = Revalidated(Root, wrong)
  /\ handles' = [handles EXCEPT ![Root] = @ - 1]
  /\ config' = TRUE
  /\ UNCHANGED <<life, parent, refs, pinned, name, equiv, stored, keys, fault>>

(* dc_config_getcontext: one more reference to the root. *)
GetContext ==
  /\ config
  /\ handles[Root] < MaxHandles
  /\ handles' = [handles EXCEPT ![Root] = @ + 1]
  /\ refs' = [refs EXCEPT ![Root] = @ + 1]
  /\ UNCHANGED <<life, parent, pinned, finalized, invalid, name, equiv, stored, keys,
                 config, fault>>

(* dc_find_element: a stored context is looked up by key and handed out.   *)
(* The collection built on the way skips destroyed shells.                 *)
FindElement(p, n, c) ==
  /\ Usable(p)
  /\ parent[c] = p /\ n \in keys[c] /\ life[c] = "live"
  /\ handles[c] < MaxHandles
  /\ handles' = [handles EXCEPT ![c] = @ + 1]
  /\ refs' = [refs EXCEPT ![c] = @ + 1]
  /\ UNCHANGED <<life, parent, pinned, finalized, invalid, name, equiv, stored, keys,
                 config, fault>>

(* dc_get_elements: the same, through es_list. *)
GetElement(p, c) ==
  /\ Usable(p)
  /\ parent[c] = p /\ stored[c]
  /\ handles[c] < MaxHandles
  /\ handles' = [handles EXCEPT ![c] = @ + 1]
  /\ refs' = [refs EXCEPT ![c] = @ + 1]
  /\ UNCHANGED <<life, parent, pinned, finalized, invalid, name, equiv, stored, keys,
                 config, fault>>

----------------------------------------------------------------------------
(* dx_context_decref on a context that is not being destroyed. *)
Decref(c) ==
  /\ refs' = [refs EXCEPT ![c] = @ - 1]
  /\ life' = [life EXCEPT ![c] = IF refs[c] = 1 THEN "freed" ELSE @]

\* Mutations: the storage's reference is not dropped; the creator's is not.
DropWithoutStorage(c, x) ==
  Cardinality(Kids(x) \cap Subtree(c)) + Bit(x \in Subtree(c))
DropWithoutCreator(c, x) ==
  Cardinality(Kids(x) \cap Subtree(c)) + Bit(x = c)
    + Bit(x \in Subtree(c) /\ stored[x])

\* References dc_destroy(c) takes from x: one for every destroyed child of x,
\* and, if x is destroyed, the one of the storage and one more: the caller's
\* for c, the creator's for what is stored below.
Drop(c, x) ==
  Cardinality(Kids(x) \cap Subtree(c))
    + (IF x \in Subtree(c) THEN Bit(stored[x]) + 1 ELSE 0)

\* Mutation: the key of a destroyed context goes with all that share it.
KeysLeftShared(D, x) ==
  IF parent[x] \in D THEN {}
  ELSE keys[x] \ {name[d] : d \in {e \in D : parent[e] = parent[x]}}

\* The keys that still lead to x when the contexts D are destroyed: a context
\* is taken out of es_map under its current name, and a storage disappears
\* with its context.
KeysLeft(D, x) ==
  IF parent[x] \in D THEN {} ELSE IF x \in D THEN keys[x] \ {name[x]} ELSE keys[x]

(* dc_destroy on a live context: context_remove_from_parent, the destroy   *)
(* function of the structure (which destroys what it stores, through       *)
(* dx_element_storage_destroy), then the reference to the parent and the   *)
(* own one.                                                                *)
DestroyTree(c) ==
  LET D == Subtree(c)
      left == [x \in All |-> refs[x] - Drop(c, x)]
  IN
  /\ refs' = left
  /\ life' = [x \in All |->
                IF left[x] = 0 /\ refs[x] > 0 THEN "freed"
                ELSE IF x \in D THEN "destroyed" ELSE life[x]]
  /\ stored' = [x \in All |-> stored[x] /\ x \notin D]
  /\ keys' = [x \in All |-> KeysLeft(D, x)]
  /\ pinned' = [x \in All |-> IF x \in D \ {c} THEN pinned[x] - 1 ELSE pinned[x]]

(* dc_destroy through a pointer of the client to a live context.           *)
(* context.h: not through a pointer from dc_config_getcontext.             *)
Destroy(c) ==
  /\ Usable(c)
  /\ c = Root => ~config
  /\ stored[c] => "destroyStored" \in Client
  /\ DestroyTree(c)
  /\ handles' = [handles EXCEPT ![c] = @ - 1]
  /\ UNCHANGED <<parent, finalized, invalid, name, equiv, config, fault>>

(* dc_destroy or dc_putcontext on the shell of a destroyed context. *)
Release(c) ==
  /\ handles[c] > 0 /\ life[c] = "destroyed"
  /\ Decref(c)
  /\ handles' = [handles EXCEPT ![c] = @ - 1]
  /\ UNCHANGED <<parent, pinned, finalized, invalid, name, equiv, stored, keys, config, fault>>

(* dc_putcontext on a live, finalized context: drops the reference.  (With *)
(* one reference left dc_putcontext is dc_destroy: that is Destroy, for    *)
(* the contexts still under construction.)                                 *)
PutContext(c) ==
  /\ Usable(c) /\ finalized[c]
  /\ refs[c] > 1
  /\ Decref(c)
  /\ handles' = [handles EXCEPT ![c] = @ - 1]
  /\ UNCHANGED <<parent, pinned, finalized, invalid, name, equiv, stored, keys, config, fault>>

(* disir_config_finished: dc_destroy on the root. *)
ConfigFinished ==
  /\ config
  /\ DestroyTree(Root)
  /\ config' = FALSE
  /\ UNCHANGED <<parent, handles, finalized, invalid, name, equiv, fault>>

----------------------------------------------------------------------------
ChildCall(c) ==
  \/ \E p \in All : Begin(p, c) \/ GetElement(p, c)
  \/ \E p \in All, n \in Names : FindElement(p, n, c)
  \/ \E n \in Names : SetUnknownName(c, n)
  \/ \E n \in Names, full \in BOOLEAN : SetKnownName(c, n, full)
  \/ \E wrong \in SUBSET Subtree(c), keep \in BOOLEAN : FinalizeStores(c, wrong, keep)
  \/ \E wrong \in SUBSET Subtree(c), keep \in BOOLEAN : FinalizeRefuses(c, wrong, keep)
  \/ OrphanUse(c)

Next ==
  /\ ~fault
  /\ \/ \E c \in Ctx : ChildCall(c)
     \/ \E x \in All : Destroy(x) \/ Release(x) \/ PutContext(x)
     \/ \E wrong \in SUBSET Subtree(Root) : FinalizeConfig(wrong)
     \/ GetContext
     \/ ConfigFinished

Spec == Init /\ [][Next]_vars
----------------------------------------------------------------------------
(* A reference is dropped exactly when the pointer, the storage, the child  *)
(* or the disir_config it stands for goes away: dx_context_incref and      *)
(* dx_context_decref balance over every sequence of calls, through nested  *)
(* destruction and failed finalization.                                    *)
RefBalance ==
  \A x \in All : refs[x] = handles[x] + pinned[x] + Cardinality(Kids(x))
                             + Bit(stored[x]) + Bit(config /\ x = Root)

(* No pointer the client must still give back, and no parent pointer that  *)
(* a live context follows, leads to a shell that dx_context_destroy freed. *)
NoDanglingPointer ==
  /\ \A x \in All : handles[x] > 0 => life[x] \in {"live", "destroyed"}
  /\ \A k \in Ctx : life[k] = "live" => life[parent[k]] \in {"live", "destroyed"}
  /\ config => life[Root] = "live"

(* What a live context stores is live, and stored by its own parent only:  *)
(* dc_destroy of a parent leaves no stored child behind, dc_destroy of a   *)
(* child leaves no entry in the es_list of its parent.                     *)
StoredIsLive ==
  \A k \in Ctx : stored[k] => /\ life[k] = "live" /\ life[parent[k]] = "live"
                              /\ finalized[k]

(* dc_destroy destroys one context with everything stored below it, and    *)
(* nothing else: not its siblings, not what is still under construction    *)
(* below it.  A destroyed shell never comes back to life.                  *)
Dies(x) == life[x] = "live" /\ life'[x] # "live"
DestroyTakesOneTree ==
  [][/\ \A x \in All : life[x] \in {"destroyed", "freed"} => life'[x] \in {life[x], "freed"}
     /\ \A x \in Ctx : stored[x] /\ Dies(parent[x]) => Dies(x)
     /\ (\E x \in All : Dies(x))
          => \E top \in All : \A x \in All :
               Dies(x) => x = top \/ (stored[x] /\ Dies(parent[x]))]_vars

(* The two indexes of an element storage: what es_list holds is found      *)
(* through es_map as well, whatever was renamed, destroyed or refused       *)
(* around it and whichever of its siblings had the same name.              *)
StoredIsFound == \A k \in Ctx : stored[k] => keys[k] # {}

(* context_private.h: cx_refcount is the number of context pointers the    *)
(* user is in possession of, once no child and no storage is left; the     *)
(* shell can go when the client has given its pointers back.               *)
DestroyedCountsPointers ==
  \A x \in All : life[x] = "destroyed" => refs[x] = handles[x] + Cardinality(Kids(x))

(* validate.c: an element the mold does not have stays marked, although    *)
(* every validation of a context above it clears the mark and decides anew *)
(* with other parents finalized than before.                               *)
MoldlessIsMarked == \A k \in Ctx : stored[k] /\ equiv[k] = None => invalid[k]

(* context.h, dc_set_name: in a config "the name must match a KEYVAL entry *)
(* found in the associated MOLD": a finalized element that is not marked   *)
(* invalid has a name of the mold.                                         *)
ValidNamesAreInMold ==
  \A k \in Ctx : stored[k] /\ ~invalid[k] => name[k] \in MoldNames

(* context.c, dc_find_element: a collection found by name "is guaranteed   *)
(* to be atleast 1": es_map has no key whose contexts are all destroyed.   *)
FoundCollectionNotEmpty ==
  \A p \in All, n \in Names :
    life[p] = "live" /\ (\E k \in Ctx : parent[k] = p /\ n \in keys[k])
      => \E k \in Ctx : parent[k] = p /\ n \in keys[k] /\ life[k] = "live"

(* context_util.c, dx_context_attach: the reference of a child keeps what  *)
(* it accesses in its parent there after the parent is destroyed.          *)
NoFault == ~fault

=============================================================================
