# A verification project for disir

disir is a C library for configuration: a *mold* describes which keyvals and
sections a *config* has, their defaults (one per version), documentation and
restrictions; plugins read and write configs; archives carry configs from one
system to another. This directory holds TLA+ models of the parts of the library
whose correctness depends on the order in which things happen, the
configurations with which TLC checks them, and theorems about them checked by
TLAPS.

## 1. Inventory

| Component | State | Operations | Interacts with |
|---|---|---|---|
| Contexts (`lib/context*.c`, `element_storage.c`) | a reference counted shell per context: type, state bits, parent, root; a structure per type; a list and a multimap of stored children | `dc_begin`, `dc_set_name`, `dc_set_value`, `dc_finalize`, `dc_finalize_keep_reference`, queries, `dc_putcontext`, `dc_destroy` | everything; validation on finalize |
| Collections (`collection.c`) | array of referenced contexts, iterator | push, next, size, reset, finished | contexts destroyed behind its back |
| Validation (`validate.c`) | the invalid state bit | called by finalize, `disir_config_valid`, setters | molds, restrictions |
| Molds, defaults, versions (`context_mold.c`, `context_default.c`, `mqueue.h`) | version of the mold, per keyval a queue of defaults ordered by version | begin/add/finalize/destroy of defaults, `dx_default_get_active`, `dx_mold_update_version` | generation, update, validation |
| Restrictions (`context_restriction.c`) | per keyval/section queues: inclusive entries, exclusive values | checks of entries and values at a version | validation, setters, update |
| Generation (`generate.c`) | none | a valid config from a mold at a version | update |
| Update (`update.c`) | `struct disir_update`: target, collection, pending conflict | `disir_update_config/_continue/_resolve/_finished`, `dx_update_config_with_changes` | generation, collections, import |
| Import (`disir_import.c`, `disir_archive.cc`) | per entry status, conflict, import flag, config | `disir_archive_import`, `disir_import_resolve_entry`, `disir_import_finalize` | update, plugins, the configs of the system |
| Archive export (`disir_archive.cc`, `disir_export.cc`, `disir_archive_util.cc`) | the open archive, a temporary file, index of entries | begin, append entry/group, finalize | plugins, the file system |
| Plugins and dispatch (`disir.c`, `disir_plugin.c`, `disir_config.c`, `disir_mold.c`) | queue of registered plugins | create and destroy an instance; read, write, remove, query, entries | file system plugins |
| Queues of entries (`disir_entry.c`) | doubly linked lists of `struct disir_entry` | merged by entries, taken apart by `disir_entry_finished` | dispatch |
| File system plugins (`lib/fslib`) | files of configs and molds, namespaces, overrides | the plugin operations | serialisation |
| JSON (`lib/fslib/json`) | text | write and read configs and molds, apply overrides | validation on reading |
| Queries by name path (`query.c`, `disir_config_query.c`) | none | get and set keyvals as in `first@4.second`, creating sections | generation, validation |
| Comparison (`compare.c`) | a diff report | `dc_compare` | import |
| TOML, documentation, log, errors, CLI | - | text, I/O | |

The library is single threaded and has no locks or callbacks into the client.
What is hard is elsewhere:

* **order of calls**: a client may hold pointers to contexts in any state, and
  use them after something else was destroyed, renamed or finalized;
* **aliasing**: collections, storages and updates hold contexts that other calls
  destroy or change;
* **partial failure**: an operation stops half way (finalize with invalid
  content, an update with a conflict, one of several writes), and the client goes on;
* **crashes and failing system calls** while an archive is written or replaced;
* **rules that have to fit each other**: the plugin a write goes to and the one a
  read finds; what is written as text and what is read; a list and a query;
* **other processes** that change the configs between import and finalize.

What makes each component correct: references balance and no pointer dangles
(contexts); the iterator returns every living element once, in order
(collections); what finalize reported as written survives (archives); chosen
values stay and untouched ones follow the mold (update); the call returns
(update with changes); what is written is what was last decided and replaces
nothing that was not given up (import); what was written to an entry is read
from it, and what is listed is found (dispatch); a set by name path changes what
it names and nothing else, and text that is written is read back as it was
(configs and molds); a list of entries can be made and given up (entries).
`PROJECT.json` lists the hazards at
their lines, with the property that covers each or why none does yet.

## 2. Modules

| Module | Models | Run by |
|---|---|---|
| `Context` | life of the contexts of one config | `MCContext` |
| `ContextProofs` | theorems about `Context`, and about `Collection` | TLAPS |
| `Subsequences` | operator: a sequence without the elements of a set | `Collection`, `Iteration` |
| `Iteration` | abstract: what the iterator of a collection promises | `Collection` (as a property) |
| `Collection` | `collection.c`, slot by slot; refines `Iteration` | `Collection` |
| `ArchiveFile` | export: begin, append, finalize, and what it does to the disk | `MCArchiveFile` |
| `Versions` | operators: the default, the bounds and the values that hold for a version | `MCMold`, `MCEntries` |
| `DataFacts` | lemmas about the operators of `Versions` and `Subsequences`, about sequences, and induction | TLAPS |
| `Mold` | building a mold: queues of defaults and restrictions, its version | `MCMold` |
| `MoldProofs` | theorems about `Mold` | TLAPS |
| `MoldText` | a mold as JSON text, with overrides; extends `Mold` | `MCMold` |
| `Entries` | a config against its mold: building, generating, editing, reporting | `MCEntries` |
| `EntriesProofs` | theorems about `Entries` | TLAPS |
| `Update` | an update of a config, call by call | `MCChanges`, `MCUpdate` |
| `UpdateWithChanges` | `dx_update_config_with_changes`, extends `Update` | `MCChanges` |
| `UpdateProofs` | theorems about `Update` and `UpdateWithChanges` | TLAPS |
| `Import` | import of an archive against a living system | `MCImport` |
| `ArchiveProofs` | theorems about `ArchiveFile` and `Import` | TLAPS |
| `Dispatch` | plugins of an instance, the files below them, and which one a call reaches | `MCDispatch` |
| `DispatchProofs` | theorems about `Dispatch` | TLAPS |
| `EntryQueue` | lists of entries, merged and finished pointer by pointer | `MCEntryQueue` |
| `ConfigTree` | a config as a tree: set by name path, text, comparison | `MCConfigTree` |
| `ConfigTreeProofs` | theorems about `ConfigTree` | TLAPS |

### Context

One API call is one step. A context is `none` (not begun), `live`, `destroyed`
(the shell of a structure that is gone) or `freed`. `refs` is `cx_refcount`;
`handles` and `pinned` are history variables that say for whom it counts: the
pointers the client holds and must give back, and references that stay counted
without a pointer (the creator's reference, which `dc_finalize` does not drop
when it deprives the client of his pointer). `stored` is membership of `es_list`
(and `CONTEXT_STATE_IN_PARENT`), `keys` the keys of `es_map`. `dc_destroy` on a
live context is one step for the whole subtree (`DestroyTree`): the set of
contexts that go is the closure of `stored` below the context, and `Drop` says
how many references each context loses in the recursion.

What optional things a client does is the constant `Client`. The header
forbids none of them, but some defeat the library; every such behaviour has a
run of its own in which TLC finds what goes wrong.

Validation goes over a whole subtree: `dx_validate_context` clears the invalid mark
of a context and of everything stored below it and decides anew (`Marked`,
`Revalidated`), with the parents that are finalized by then. What it decides from
values, names and numbers of entries is the argument `wrong`, any set of the
contexts below; `full` says that a parent has no room for another entry. Not modelled:
a value's content, allocation failures, `dc_putcontext` on a context under
construction that has children (it behaves as `dc_destroy` only with one
reference left), a second `dc_finalize` of a renamed element under a new key,
`dc_set_name` on the wrong type of context, and the reference to the mold
equivalent that a second `dc_set_name` leaks in the mold.

### Iteration and Collection

`Iteration` has a sequence of contexts, a position and the set of destroyed
ones: the iterator returns the next living one. `Collection` is the array with
capacity, iterator index and the coalescing pass (`Pass` applies `Visit` to slot
after slot; `Fill`, `Probe` and `MoveBack` are the loop of
`dx_collection_coalesce`). The refinement (`Promise`, an instance of `Iteration`)
maps the elements passed there to those the code has returned (`Seen`). What a
collection is used for is a choice of its initial state: by the library's own
queries, whose client destroys at most the element it was just given; by the
teardown of a storage (`dx_collection_next_noncoalesce`); or in any way the
public API allows. `IteratesInOrder` states the refinement for the first two;
`IteratesInOrderAlways` states it for the third too, where it fails.

### ArchiveFile

A session: begin (a new archive or from an existing one), appends of entries and
groups, finalize. `EntriesWrite` is `dx_archive_config_entries_write`: entry after
entry is read, written to a temporary file, indexed and appended, and the first
failure ends it. What is in the archive by then stays there: `content` and `indexed`
are therefore apart, and `promised` is history, the entries whose append
returned OK. An archive whose index names more than it holds is no valid one.
`dx_archive_disk_append` is split at every system call that changes a file
(rename, open for writing, write, remove, rename back), so a crash or another
failure can come between any two. Files and the paths that lead to them are
apart (`FileOf`), since the code tells its cases apart by the text of the paths.
`expected` is what the user was told is on disk. `Faults` and `User` select
failing calls, crashes, full disks, a failure between index and data, another
process with the same temporary name, a user who gives another path of the same
file, or the path of another archive. The user does not give a path again
whose backup an interrupted session left behind before he has looked at it.
The format of the metadata and the extraction are left out.

### Versions, Mold and Entries

`Versions` has no variables. Versions are pairs and compare as
`dc_version_compare` does, by the difference of the majors or else of the minors:
`Closest` inherits from that what "closest" means. `Position` is where
`MQ_ENQUEUE_CONDITIONAL` puts a default, `Active` is `dx_default_get_active` with
its special case for the first entry of a queue, whose predecessor is the tail.
`Bounds` is `dx_restriction_entries_value`: a maximum of 0 sets no limit, -1
allows no entry. `Violates` is the check of a value.

`Mold` has one keyval of a mold with the defaults and restrictions a client may
add, each under construction, finalized or freed, and the queues that hold them.
Calls come in any order: a default before or after its keyval is finalized, the
keyval before or after the mold. That decides what `dx_validate_context` makes
of a wrong one (`Verdict`): accepted and marked, or refused. Nothing acts on a
queue that has freed memory in it or after an abort (`Sound`): what happens then
is undefined. A restriction that is destroyed leaves its queue as
`MQ_REMOVE_SAFE` takes it out, its first place only; that it has no other is a
theorem. `Client` has, as in `Context`, what an ordinary client would not do:
add a second default of a version to a finalized keyval, finalize a restriction
without a type, deprecate a finalized keyval, destroy a finalized default.

`MoldText` writes that mold and reads it back at any point (`ReadBack`): the text
has the entries of the queues in their order (`Text`), reading finalizes them one
by one into new queues, then the overrides of an entry are applied, each to the
highest default so far (`Overridden`), and the mold is finalized and validated.
A default stands for its value. An override older than the highest default is
silently ignored; of two that map to the same version of the namespace the first
counts; the version of the mold may shrink, since it is found again from what is
in the text. An empty mold or section is written as `null` and cannot be read
back, only the latest documentation is written, and an override beyond the
version of the mold puts that in the fatal state: these are outside the model.

`Entries` has a config of a mold that is one of `Molds`; what an element of a
mold is, a queue of defaults in the order of their versions and restrictions with
versions and numbers, is `IsElement`, an assumption on `Molds` that `Mold` shows
to be what building a mold gives. Each element of the config has its
sequence of entries, with the mark CONTEXT_STATE_INVALID; the config is built by
`dc_config_begin` and `dc_config_finalize` or generated, elements are added,
changed, set to a default and removed, and its version changes at any time.
`checked` is history: the version the config was valid in when it was finalized,
as long as nothing outside its rules happened to it. Validation is
`InclusiveHolds` and `Revalidated`; it runs when a config is finalized and, for one
entry, when that is finalized (`Accepts`). What is below a section, and names the
mold does not have, are left to `ConfigTree`.

### Update and UpdateWithChanges

`mold` gives every keyval its defaults (a function from the versions that
introduce one) and the values allowed in each version; `Order`, `Section` and
`Name` are the layout of the config. `Collected` is what
`retrieve_all_keyvals_recursively` returns, `ahead` the places of it that the
update has still to visit (the iterator of its collection), `Proceed` the loop
of `disir_update_continue` up to the next conflict, `Resolve` the lookup and
`dc_set_value` on the target config, `GeneratedFromMold` the target config.

Values are compared as `dx_value_compare` does it (`Same`): it returns the
difference of two numbers cut to an int, so floats less than 1 apart and integers
a multiple of 2^32 apart are equal to it. The pairs of such numbers are the constant
`Close`, which need not be transitive. A consequence is that a value somebody chose
close to the default of its version counts as untouched and is overwritten, and that
a conflict between numbers close to each other is passed over; the properties say
"as far as the update can tell", and `MCUpdate_close` shows the rest. A
resolution is a text: `Printed` is what a number becomes when it is
printed (`%lf` has six decimals) and read again, an argument of `None` is a text
that is no number, and for an enum `dc_set_value` aborts the process, after which
nothing happens (`ABORTED`). The buffers of 512 bytes for these texts are taken to
be large enough.

`mine` and `answer` are history: the keyvals somebody set, and the resolutions
that were accepted. `UpdateWithChanges` adds the loop of
`dx_update_config_with_changes` around the same actions: each of its calls is
a step, so that its variant (does it end?) can be asked. Left out: sections in
sections, elements the mold has and the config lacks other than whole optional
keyvals, molds whose generated defaults violate their restrictions.
`MCChanges` also leaves out molds that allow a default but not what is read from
its text: `dx_update_config_with_changes`, when it has to resolve a conflict with
one, never ends, as in `MCChanges_clash`.

### Import

Each entry of the archive has a config (`archived`), the system has one or none
(`system`); a config is a version and a content. `ArchiveImport` gives each entry
its `status` and `conflict` (`ImportStatus`, `ConflictStatus`,
`ConflictFound`), the five options are actions of `resolve_entry` with its
early returns as guards, and finalize writes one entry per step, so that the
system can change in between. A failed write leaves the old config or a file
that does not parse (`fslib_plugin_config_write` truncates before it
serialises), and an import against such a file fails as a whole. An update is
one of its outcomes: the updated config, or a config changed halfway (module
`UpdateWithChanges` says how); one that aborts or never ends is left out. Contents
that `dc_compare` does not tell apart count as one.

### Dispatch

`libconf` is the library's configuration: plugin sections, each with its group, kind
and perhaps a flaw, at which loading stops (`CreateFails`; what was loaded stays
loaded). A kind of plugin is the set of functions it registers (`Implements`): the
JSON plugin, and the two test plugins with molds in their code, of which one makes
up its configs. Each section has its files: the molds with namespaces and
overrides, and one config or none for each entry. A group is the set of its places
in the queue of plugins (`Group`), of which a rule takes the first or the last
(`FirstOf`, `LastOf`); `ConfigPlugins` and `QueryAnswer`
are the three rules by which `disir_config.c` and `disir_mold.c` choose: write and
remove take the first plugin of the group, read the first that has the entry,
query the last. `written` is history. The sections have base directories of
their own; errors of permissions are `FS_ERROR`; the JSON text is `Broken` or not.

### EntryQueue

Every `struct disir_entry` is a node with its `next` and `prev`, the plugins'
lists are built as `MQ_ENQUEUE` does, `Keep` moves a node to the queue of the
call and `DropDuplicate` is `disir_entry_finished` on one that an earlier plugin
has listed; its search for the head of a queue is one step per pointer (`WalkOn`).

### ConfigTree

A config (`elements`) is a function from paths (names with indexes) to values and
invalid marks, at one version of its mold, which may have sections in sections.
`Set` is `config_set_keyval_generic`: `Resolve` walks the name path, `Ensured` is
the loop of `dx_query_ensure_ancestors` with its error paths (`EnsureNext` is one
name of it), and the last step creates the keyval or sets it. A section is begun
with `WithValue` and filled with `WithGenerated`, the required elements below it.
`Serialized` and `Unserialized` are the JSON writer and reader: an entry that is
alone is a plain member, several make an array, and what the mold refuses is read
and marked. What the reader makes of a number is the constant `AsRead`. The writer
gets each value first, and of a keyval the mold lacks only a string can be got
(`Gettable`): a config that was read with another value there cannot be written
(`Writable`), and `Write` leaves an empty file, since the file is truncated when it
is opened. `Edit`
changes the file between, one mistake at a time. `DiffReport` is `dc_compare` with
its two loops; it compares values as the update does (`Same`). What a mold is, `IsMoldElement` says. The order of elements of
different names, versions, and the comparison of molds are left out. What a set
creates for a section that the query then abandons is `ancestor`.

## 3. Runs

Passing runs (bounds in the cfg; distinct states in brackets):

* `context_careful` (450 000): two sections, nested either way, and a keyval; one
  name in the mold and one not; at most one pointer per context at a time.
  Three contexts below the root give nesting, siblings and a cousin; symmetry
  over the sections is sound because the module treats them alike. The client
  uses the API as documented; destroyed shells wait only for the client's pointers.
* `context_anyclient` (570 000): one section, one keyval, every client
  behaviour, two pointers per context: references balance, nothing dangles,
  what is stored is found, marks of elements the mold lacks come back, a destroy
  takes one tree.
* `collection_uses` (120 000): four contexts, four or fewer entries, capacity
  growing by two, so that growth and coalescing of several holes on both sides
  of the iterator occur.
* `archive_export` (810 000): two files, one of them under two names, three
  entries in a group of two and one of one, failing calls and crashes at every
  step: a group is appended in part, again, and next to an entry of it.
* `mold_versions` (380 000): three defaults and two restrictions, of which one at
  a time is under construction, versions
  1.0, 1.1 and 2.1, so that three defaults can be enqueued in every order, two
  can share a version, and differences of versions mix majors and minors.
  Symmetry: defaults and restrictions are treated alike. The mold is read back
  with up to two overrides, enough for two of a version and for one before the
  other.
* `entries_config` (250 000): two elements, at most three entries of each, two
  values, the versions of the mold and one later. Three molds: restrictions on
  values that change with the version next to a section that is deprecated; a
  minimum that grows next to an enum without values in the first version; a
  default its own mold refuses next to another keyval.
* `changes_flat` (440 000): a required keyval that is a float or an enum and an
  optional string, three versions, four values (as floats 0.0, 0.9999996, 1.0 and
  5.0: the second is close to its neighbours, which are not close to each other, and
  is printed as the third), molds with a first default and others later; two keyvals
  give a conflict before, after and
  between refreshed values. Updates called by the user, continued, resolved
  or given up, and calls of `dx_update_config_with_changes`, with its liveness.
* `dispatch` (114 000): two plugins in one group or in two, of all pairs of kinds
  that matter (two that write, one that writes before one that makes up, one with
  molds in its code, one that cannot be loaded), two entries of a directory with its
  namespace; instances are created and destroyed, and files remain.
* `config_tree` (7 800): a mold of sections in sections, one of lists, and one with
  a section that cannot be generated below one that can; every
  set by a path of up to three names with a plain, missing, malformed, next or
  too large index, texts written (or not, when that fails), edited and read at any
  time; two numbers that compare equal, and a string. The properties
  quantify over all sets in every config that can be reached.
* `import_decided` (640 000): two entries, versions below, equal to and above the
  mold's, a system somebody else writes to at any time.

Two runs show a disagreement between the code and a sentence of its own
documentation; the findings in `PROJECT.json` quote it:

| Run | Property | What happens |
|---|---|---|
| `changes_lost` | `OkKeepsChanges` | one conflict, and the user's other values revert to defaults |
| `entries_hang` | `ListingReturns` | listing the entries of a group never returns: the last entry of a plugin's list is a duplicate, an earlier one is not |

Further configurations reproduce, with `tlc -config`, other behaviour that a
client should know of; TLC reports the named property violated (where a
configuration names several, leave one at a time):

| Configuration | Property | What happens |
|---|---|---|
| `MCMold_open` | `QueueHoldsLive` | a default that is refused and destroyed stays in the queue of its keyval (`context_default.c:158` tests the state of the parent the wrong way round) |
| `MCUpdate_section` | `UntouchedIsCurrent` | keyvals after the first section are not updated, and OK is returned (`update.c:58`) |
| `MCImport_newer` | `DoReplacesNothing` | an existing config newer than its mold is overwritten by DO (`disir_import.c:136`); with `World = {"others"}`, one that appeared after the archive was read |
| `MCContext_open` | `NoFault` | a call on a context whose parent was destroyed reads a NULL structure |
| `MCContext_open` | `ValidNamesAreInMold` | an element is finalized as valid under a name its mold lacks |
| `MCContext_open` | `FoundCollectionNotEmpty` | a renamed and destroyed element leaves its old key in the storage |
| `MCContext_careful` with `Client = {"keepFails"}` or `{"destroyStored"}` | `DestroyedCountsPointers` | references nobody can drop |
| `Collection_skips` | `IteratesInOrderAlways` | the iterator skips living elements |
| `MCArchiveFile_full` | `EntriesSurvive` | an archive reported as written is lost: the disk was full |
| `MCArchiveFile_full` with `Faults` or `User` of `{"clash"}`, `{"alias"}`, `{"replace"}` | `EntriesSurvive` | the same: another process had the temporary name; the archive was given by another path of the same file; a backup of an earlier session was replaced |
| `MCArchiveFile_export` with `"append"` in `Faults` | `EntriesSurvive`, `OkMeansCommitted` | an entry is indexed and not appended: the archive is refused as a whole |
| `MCMold_open` | `VersionCoversDeprecation` | a keyval deprecated after it was finalized does not bring its version to the mold |
| `MCMold_open`, also with `Client = {}` | `MinimumIsLatest` | an older restriction of another major version counts as closer |
| `MCMold_open`, also with `Client = {}` | `MaximumDefaultsToOne` | a minimum of 0 without a maximum sets no limit |
| `MCMold_open` | `NeverAborts` | a restriction without a type aborts the process |
| `MCEntries_report` | `ReportIsTrue` | a finalized config that moves to another version reports what it was |
| `MCUpdate_close` | `OnlyUnchangedAreRefreshed` | a value somebody chose, less than 1 away from its default, is overwritten without a conflict (`update.c:215`), although the comment there says that it has not changed |
| `MCConfigTree_compare` | `ConflictWhenObjectsDiffer` | `dc_compare` returns OK for values less than 1, or a multiple of 2^32, apart (`compare.c:687`); `include/disir/context.h:262` has it return CONFLICT "when objects differ" |
| `MCChanges_clash` | `CallsReturn` | the call never returns |
| `MCDispatch_open` | `QueryTellsRead` | `disir_config_query` denies what `disir_config_read` finds |
| `MCDispatch_open` | `NoNullCall` | a plugin with write and without remove: remove calls NULL |
| `MCDispatch_open` | `NoneLeftLoaded` | plugins stay loaded when creating an instance fails |
| `MCConfigTree_open` | `AncestorsAccountedFor` | a section that a failing set created is neither stored nor destroyed |
| `MCConfigTree_unsigned` | `RoundTrip` | an integer beyond 2^31 - 1 is written and cannot be read |
| `MCConfigTree_open` | `SetIsWhereWritten` | an index that does not fit an int names another element |
| `MCConfigTree_open` | `WhatIsReadIsWritable` | a config read with a number the mold does not know cannot be written, and the write empties the file |

Deadlock is not checked where the system may really stop: a config that was
finished with all its contexts spent (`MCContext`), a finished collection
(`Collection`), an aborted process (`MCChanges_flat`; also, with a queue of freed
memory, the configurations of `MCMold` other than `mold_versions`).

**Fairness** is assumed of calls of the library, never of its callers. Weak fairness of the body of
`dx_update_config_with_changes` (`WF(Body)`). It is a sequential C function that
waits for nothing; once called it runs, unless it aborts the process. `CallsReturn`
counts that as an end too: that a call over a mold with enums aborts is a fact of
the code (`update.c:305`, `context_value.c:319`) that the property does not hide,
since `ABORTED` is then its status. Likewise the merging of lists and
`disir_entry_finished` in `EntryQueue` (`WF(Merge)`, `WF(Walk)`). Nothing else is
claimed to happen eventually.

## 4. Proofs

Each theorem holds for every value of the constants that satisfies the named
assumption of its module and, where one is listed, the condition on what
happens around the library. TLC checks the same property on the instances of
section 3; it also checked each `Inv` below before it was proved.

| Module | Theorem | Property | Condition |
|---|---|---|---|
| `ContextProofs` | `References` | `TypeOK`, `RefBalance` | |
| | `Storage`, `Pointers`, `OneTree` | `StoredIsLive`, `NoDanglingPointer`, `DestroyTakesOneTree` | |
| | `CountsPointers` | `DestroyedCountsPointers` | `ReturnsAll` |
| | `Found`, `MoldlessMarked` | `StoredIsFound`, `MoldlessIsMarked` | |
| | `CoalescedFacts` | what `dx_collection_coalesce` computes, of any array | |
| | `CollectionReferences`, `StableCompactionHolds` | `EntriesReferenced`, `StableCompaction` | |
| | `IteratesInOrderHolds` | `IteratesInOrder`: `CollectionSpec` implements `Iteration` | |
| `ArchiveProofs` | `WrittenSurvives`, `OkCommits` | `EntriesSurvive`, `OkMeansCommitted` | `Guarded` |
| | `Decisions`, `DecidedWrites` | `LastDecisionCounts`, `WritesAreDecided` | |
| | `DoReplaces`, `Report` | `DoReplacesOnlyUnseen`, `ReportIsTrue` | |
| `DispatchProofs` | `WrittenRead`, `Listed`, `ReadsChange` | `WrittenIsRead`, `ListedIsFound`, `ReadsChangeByTheirCalls` | |
| | `MoldsListed` | `MoldListAgreesWithQuery` | `MoldIds \subseteq Named` |
| `UpdateProofs` | `UntouchedCurrent`, `ResolutionsStored`, `Settled` | `UntouchedIsCurrent`, `ResolutionsAreStored`, `ConflictsAreSettled` | `FlatAndNamed` |
| | `ChosenStay` | `ChosenValuesStay` | |
| | `Retries` | `RetriesAgree` | `FlatAndNamed` |
| | `ChangesUpdate` | `ChangesSpec => Spec` | |
| `EntriesProofs` | `StaysWithin`, `FinalizeReports`, `GeneratedValid` | `ValidStaysWithinMold`, `FinalizeReportsTruth`, `GeneratedIsValid` | |
| `MoldProofs` | `QueuesSound`, `VersionIsCover`, `ActiveFound` | `QueuesHoldFinalized`, `VersionCovers`, `ActiveIsLatest` | `Careful` |
| | `ValidSound`, `LatestMinimum` | `ValidKeyvalIsSound`, `MinimumIsLatestInMajor` | `Careful` |
| | `OldVersionsSettled` | `OldVersionsKeepDefault` | `Careful` |
| `ConfigTreeProofs` | `TreeSetIsExact`, `TreeValidMeetsMold` | `SetIsExact`, `ValidMeetsMold` | |
| | `TreeCompareTellsDifference` | `CompareTellsDifference` | |
| | `TreeRoundTrip` | `RoundTrip` if and only if what is writable `ReadsBack` | |

Every module also proves its `TypeOK`, without condition.

### The conditions

What a condition leaves out breaks the property; where a further configuration of
section 3 shows how, it is named:

* `ReturnsAll`: the client does not use `dc_finalize_keep_reference` on what
  cannot be finalized (`keepFails`), nor `dc_destroy` on a stored context through a
  queried pointer (`destroyStored`): `MCContext_careful` with either.
* `Guarded`: system calls fail and the process dies anywhere, but the disk is not
  full, no second process draws the same temporary name, no failure comes between
  the index and the content of an entry, and the user neither names one file by
  two paths nor replaces an archive he did not begin from (`MCArchiveFile_full` with each
  of these, `MCArchiveFile_export` with `"append"`).
* `MoldIds \subseteq Named`: molds are written to entries that have a name, not to
  a directory: `fslib` makes the name of a namespace's file from its directory.
* `FlatAndNamed`: no sections, and no two keyvals of one name. What
  `update.c:58` does with a section is in `MCUpdate_section`; of two keyvals of one
  name `Resolve` finds the first.
* `Careful`: the client adds no second default of a version to a finalized keyval,
  finalizes no restriction without a type and destroys no finalized default. He may
  deprecate a finalized keyval. `MCMold_open` has the rest.

Three named assumptions of modules say more than that a constant is a set of the
right kind. `LatestAssumption` of `UpdateWithChanges` says that there is a latest
version, that of the mold, to which the call updates. `IsElement` in
`EntriesAssumption` says that an element has a default and that its defaults ascend
strictly: `QueuesSound` and `ValidSound` prove that of a valid keyval of `Mold`.
`IsMoldElement` in `TreeAssumption` says that an element of a mold is below
sections of the mold, that its minimum is at most its maximum and no more than the
bound on indexes leaves room for, and that a default is a value. That the mold
accepts its own default is not assumed: `GeneratesInvalid` is a case of the model.
Of `Close` it is assumed only that it relates values (in `ConfigTree`: numbers, and
symmetrically, as a difference is), of `Printed` that it yields values.

`ReadsBack` is not a condition but the other side of an equivalence: the reader
makes of each value in the config what it was. A config in which it does not is
that of `MCConfigTree_unsigned`. So `TreeRoundTrip` says that a config whose write
succeeds can lose a value only to the conversion of numbers, never to the shape of
the text. The theorems on `Update` and on comparing say what holds as far as
`dx_value_compare` tells values apart, for any `Close`; what it misses shows in
`MCUpdate_close` and `MCConfigTree_compare`.

### The arguments

*Context.* `RefBalance` is not inductive by itself. That a dropped reference
was one's own needs to know that a shell without references is one that was
never begun or is freed (`FreedMeansUnreferenced`), that stored elements are
live and have a live parent (`StoredIsLive`), that only the root has no parent
and is never stored (`Shape`), and that somebody other than a child holds each
live context (`LiveIsHeld`), so that destroying children cannot free it. The
hard step is `DestroyTree`, where a whole set of contexts loses references at once:
`SubtreeFacts` and `SubtreeLive` describe the closure, `KidsSplit` divides the
children counted for each context into those destroyed and those that stay, and
`DestroyTreeCounts` adds up. For the property that needs a condition,
`PinnedWhileStored` says that the reference of a context's creator is counted
exactly while a storage has it.
`StoredIsFound` needs that finalizing adds the key of the name a context then has, and
a destroy takes only keys of what it destroys. `MoldlessIsMarked` is kept by every
validation because an element the mold lacks is in error by itself, whichever parents
are finalized, and a mold equivalent that was found once is never taken back.

*Collection.* All of it rests on `CoalescedFacts`: one pass over the array leaves
its living entries in their order, and the iterator behind as many of them as it
had passed. It is proved by induction over the visited slots. `Visited` says what
the array, the probe, the count of dropped entries and the way back are when the
first `i` slots have been visited and entries taken from the first `f`. The
induction is on a number (`Induction` of `DataFacts`, from the
least number for which a claim fails), and `Pass` is a recursive function, so its
existence is proved first (`StartVisited`, `AllVisited`). With that,
`EntriesReferenced` is inductive together with `Distinct` (an API call pushes
each element once), and the iterator of a query is never past the living entries
while one is ahead (`Steady`, from `LastGiven`: only the element given last can be
destroyed). This is where the use of the collection enters: without it the
iterator skips elements (`Collection_skips`). In the refinement, each call is the
action of `Iteration` it is named for, or a stutter.

*ArchiveFile.* An entry that was reported as written has to be somewhere between
any two system calls. `ExistingKept` says where the archive the session began
from is at each program counter (at its path, or renamed to the backup),
`SessionWhole` that what was promised is in the archive of the session and that its
index names just what it holds, `TargetFree` that the file being written holds
nothing else that counts, and `StepsOfCases` which of the cases of
`dx_archive_disk_append` can be at which step.

*Import.* The decision of the user is spread over four fields of an entry.
`LastDecisionCounts` needs that only an entry with status OK is marked
(`MarkedAreOk`), that what is not refused was read by the mold of now
(`ImportableIsReadable`), that an accepted update left the updated config
(`UpdatedIsHeld`), and what DO and a missing conflict imply.

*Dispatch.* A write takes the first plugin of a group, a read the first that has
the entry. `WrittenIsHeld` says that what was written is in the files of the first
section of the group, which therefore is the first to have the entry;
`QueueIsConfigured` that the queue is that of the configuration, which is what makes
"first" mean the same in two calls and in two instances.

*Update.* The loop of `disir_update_continue` is one step, so the invariant
speaks of all keyvals at once: those still ahead hold what the config held
(`AheadAreHeld`), those passed are settled (`PassedAreSettled`), the one in
conflict is somebody's (`ConflictIsChosen`), and what nobody chose is taken for
the default of its version, the old one ahead of the loop and the new one behind it
(`NobodysAreDefault`). `ChangesUpdate` is the refinement: each step of
`dx_update_config_with_changes` is one of `Update` or changes nothing of it, so all
of the above holds of it too. `Retries` adds that after a call that
failed, what is left to do is what the next call's collection finds.

*Entries.* `AllWithin` says that while a config counts as valid each of its elements
has a number of entries in the bounds of its version and no refused value, the one
under construction excepted; `Unmarked` that nothing in it carries the invalid
mark, since a marked entry takes any value. That generation gives what the
mold demands rests on `ActiveFacts` and `BoundsFacts` of `DataFacts`.

*Mold.* The invariant is about sets, the queues about places: `Holds` says that a
queue has each finalized default or restriction at just one place, and `InOrder`
that defaults ascend. `InsertFacts`, `RemoveIsShift` and `PositionFacts` say what
enqueuing and removing do to places, and `EnqueuedInOrder` that the place
`MQ_ENQUEUE_CONDITIONAL` finds keeps the order. `Covers` is inductive only
together with them: an invalid default does not raise the version of the mold, and
is covered because another one of its version is in the queue.
`ValidHasOneOfEach` ties the mark of the keyval, set when it was last validated, to
what is in the queues now: what comes later under a finalized keyval is refused
instead of marked (`Verdict`). `OldVersionsSettled` compares the queue before
and after a step: a default that is later than a version is enqueued behind the
one that is active for it (`SameActive`).

*ConfigTree.* The invariant, `TreeInv`, is that the config is `Whole` and that the
text holds a tree as good (`TextInv`). `Whole` has four parts: `Tidy`, the shape
(every element is below a section, the entries of a name have the indexes 0, 1 and
so on); `OfMold`, an element is what the mold says it is, or the one an edit
added; `InNumber`, the number of entries of each element below each parent is
what the mold wants; and `Marked`, what the mold refuses carries a mark. They
are proved together: generation keeps the shape because the mold is one, numbers
can be counted because of the shape, and marks are about elements of the mold. The code counts the entries of a name
and takes the count for the next index; `CountFacts` proves by induction over
indexes that in a tidy tree this is so. A set goes name by name, and `EnsureStep` says
that each name leaves a whole tree, that of the start with sections of the path and
what is generated below them. Its hard part is `NewSection`: a section that has just
been begun lacks its required elements, and the tree is whole again only when
`WithGenerated` has added all of them at every depth (`RequiredFacts`).
For the text, `SerializedHolds` and `ContentIs` say that plain members and
arrays together hold each element once, since a plain member is the only entry of its
name; `EditedText` and `ReadTree` carry the invariant over one edit and the reader.
The report of a comparison is a recursive function on the left tree that calls itself
further down, so that it exists is proved first, by induction from the deepest
elements (`DiffExists`); `DiffStep` compares what is below one element, `CompareIs`
concludes that the report is empty just for equal trees.

### What is only model-checked

* `TextKeepsMold` of `MoldText` (reading a text is a fold over its entries), and
  the theorems of `MoldProofs` for the steps `ReadBack` adds: they are about `Spec`
  of `Mold`.
* liveness, and with it everything about `EntryQueue` and the end of
  `dx_update_config_with_changes`.

## 5. Plan

Done, in this order: Context, Collection, ArchiveFile, Update,
UpdateWithChanges, Import, Versions, Mold, Entries, EntryQueue, Dispatch, the
export in ArchiveFile, ConfigTree, MoldText; and proofs for Context, ArchiveFile,
Import, Dispatch, Update with UpdateWithChanges, Entries, Mold, Collection and
ConfigTree. Every invariant, action property and refinement
of the passing runs is proved, but for `TextKeepsMold` and liveness. (`RoundTrip`,
which depends on the constant `AsRead`, is proved equivalent to `ReadsBack`.)

Worth modelling later: reading a mold through `Dispatch` with `MoldText` as its
content; `Update` on the operators of `Versions`.

## 6. Not modelled

TOML (a second pair of conversions, for configs), logging and error texts,
documentation contexts, typed value getters, the comparison of molds and the
text of its report, the format of an archive's metadata, the command line tool
(a client of the calls modelled here), vendored code. `PROJECT.json` lists every
component with its status.

## 7. Running

    tlc -workers 2 -config MCContext_careful.cfg MCContext
    tlapm ContextProofs.tla

and likewise for the other `*_*.cfg`, each with the module named before its
underscore, and for `DataFacts` and the other `*Proofs`.
