------------------------------ MODULE Dispatch ------------------------------
(***************************************************************************)
(* The plugins of an instance and the files they answer from:              *)
(* disir_instance_create loads the plugins its configuration lists, the    *)
(* calls on configs and molds of a group choose one of the group's plugins *)
(* by rules of their own (disir_config.c, disir_mold.c), and the plugin    *)
(* works on the files below its two base directories (fslib).              *)
(*                                                                         *)
(* An entry is [dir, name], in a directory below the base directory.  The  *)
(* namespace of a directory is the mold of its entries without one; it is  *)
(* asked for by an entry that ends in '/' (the name Slash), and its file   *)
(* is that of an entry __namespace.                                        *)
(***************************************************************************)
EXTENDS Naturals, Sequences, SequencesExt, FiniteSets

CONSTANTS
  Dirs, Names,  \* what entries are made of
  Slash,        \* the name in an entry that ends in '/'
  NamespaceName, \* "__namespace"
  Illegal,      \* names with other characters than a-z, 0-9, '_' and '/'
  Values,       \* the configs that are written
  ConfigIds,    \* the entries that configs are written for
  MoldIds,      \* the entries that molds are written for
  MoldFiles,    \* the sets of mold files a base directory may have
  Broken,       \* the content of a file whose serialisation failed
  None,         \* no file; nothing known
  Groups,
  Libconfs,     \* configurations of the library: sequences of plugin sections
  Kinds,        \* kinds of plugins
  Implements(_), \* the functions that a kind of plugin registers
  BuiltIn(_)    \* the molds a kind of plugin has in its code; {}: molds are files

Entry == [dir : Dirs, name : Names \cup {NamespaceName, Slash}]
Named == {e \in Entry : e.name # Slash}

\* What can be wrong with a plugin section, and what load_plugin and
\* load_plugins_from_config make of it.
Flaws == [none |-> "OK", filepath |-> "CONFIG_INVALID", group |-> "CONFIG_INVALID",
          io |-> "CONFIG_INVALID", dlopen |-> "LOAD_ERROR", symbol |-> "PLUGIN_ERROR",
          register |-> "PLUGIN_ERROR"]

\* rooted: a directory above config_base_id exists
Section == [group : Groups, kind : Kinds, flaw : DOMAIN Flaws, rooted : BOOLEAN]

\* <entry>.json and <entry>.o.json below mold_base_id
MoldFile == [entry : Entry, override : BOOLEAN]
Exact(e) == [entry |-> e, override |-> FALSE]
Override(e) == [entry |-> e, override |-> TRUE]
Namespace(e) == Exact([dir |-> e.dir, name |-> NamespaceName])

ASSUME DispatchAssumption ==
  /\ Libconfs \subseteq Seq(Section)
  /\ Illegal \subseteq Names /\ {Slash, NamespaceName} \cap Names = {}
  /\ Slash # NamespaceName
  /\ ConfigIds \subseteq Named /\ MoldIds \subseteq Entry
  /\ \A files \in MoldFiles : files \subseteq [entry : Named, override : BOOLEAN]
  /\ {Broken, None} \cap Values = {} /\ Broken # None
  /\ \A kind \in Kinds : BuiltIn(kind) \subseteq Entry

VARIABLES
  libconf,  \* the configuration of the library
  queue,    \* dio_plugin_queue: the numbers of the sections, as registered
  loaded,   \* the sections whose shared object is open
  ready,    \* an instance exists
  molds,    \* the mold files of each section
  configs,  \* the config file of each section for each entry
  made,     \* the sections whose config_base_id exists
  written,  \* history: what the last call that succeeded wrote to an entry of a group
  status    \* what the last call that may change a file returned

vars == <<libconf, queue, loaded, ready, molds, configs, made, written, status>>
files == <<molds, configs, made>>

Sections == DOMAIN libconf
Kind(p) == libconf[p].kind
Has(p, f) == f \in Implements(Kind(p))

(* The files and base directories belong to the sections.  A section the   *)
(* library is not configured with has none.                                *)
Init ==
  /\ libconf \in Libconfs
  /\ queue = <<>> /\ loaded = {} /\ ready = FALSE
  /\ molds \in [Sections -> MoldFiles]
  /\ configs \in [Sections -> [ConfigIds -> Values \cup {None}]]
  /\ made = {p \in Sections : \E e \in ConfigIds : configs[p][e] # None}
  /\ written = [g \in Groups |-> [e \in ConfigIds |-> None]]
  /\ status = "none"
----------------------------------------------------------------------------
(* disir_instance_create and disir_instance_destroy                        *)

Flawless(n) == \A p \in 1..n : libconf[p].flaw = "none"

\* The sections are loaded in order, up to the first that cannot be.
CreateInstance ==
  /\ ~ready /\ Flawless(Len(libconf))
  /\ queue' = [p \in Sections |-> p]
  /\ loaded' = loaded \cup Sections
  /\ ready' = TRUE /\ status' = "OK"
  /\ UNCHANGED <<libconf, files, written>>

\* What was loaded before the failure stays loaded: only the instance is freed.
CreateFails ==
  /\ ~ready /\ ~Flawless(Len(libconf))
  /\ LET sound == {p \in Sections : Flawless(p)} IN
       /\ loaded' = loaded \cup sound
       /\ status' = Flaws[libconf[Cardinality(sound) + 1].flaw]
  /\ UNCHANGED <<libconf, queue, ready, files, written>>

DestroyInstance ==
  /\ ready
  /\ queue' = <<>>
  /\ loaded' = loaded \ Range(queue)
  /\ ready' = FALSE
  /\ UNCHANGED <<libconf, files, written, status>>
----------------------------------------------------------------------------
(* What a plugin answers.                                                  *)

\* fslib_mold_resolve_entry_id: the mold file of the entry, or its namespace.
Covered(p, e) == {Exact(e), Namespace(e)} \cap molds[p] # {}

\* fslib_namespace_entry
NamespaceEntry(e) == [dir |-> e.dir, name |-> Slash]

\* dp_mold_query: of fslib, or of a plugin with molds in its code.
MoldQuery(p, e) ==
  IF BuiltIn(Kind(p)) # {}
  THEN IF {e, NamespaceEntry(e)} \cap BuiltIn(Kind(p)) # {} THEN "EXISTS" ELSE "NOT_EXIST"
  ELSE IF e.name \in Illegal THEN "RESTRICTION_VIOLATED"
  ELSE IF Covered(p, e) THEN "EXISTS" ELSE "NOT_EXIST"

\* Mutation: a config without mold is found too.
ConfigQueryAnyMold(p, e) ==
  IF e \in ConfigIds /\ configs[p][e] # None THEN "EXISTS" ELSE "NOT_EXIST"

\* dp_config_query.  A plugin that cannot write makes up its configs.
ConfigQuery(p, e) ==
  IF ~Has(p, "config_write")
  THEN IF e \in BuiltIn(Kind(p)) THEN "EXISTS" ELSE "NOT_EXIST"
  ELSE IF MoldQuery(p, e) = "NOT_EXIST" THEN "MOLD_MISSING"
  ELSE IF MoldQuery(p, e) # "EXISTS" THEN MoldQuery(p, e)
  ELSE IF e \in ConfigIds /\ configs[p][e] # None THEN "EXISTS" ELSE "NOT_EXIST"

\* The flags of the disir_entry that dp_mold_query of fslib returns.
QueryFlags(p, e) ==
  [override |-> Override(e) \in molds[p],
   namespace |-> {Exact(e), Override(e)} \cap molds[p] = {}]

\* Mutation: an override is listed without a namespace.
MoldListOverrides(p) ==
  [entry : {f.entry : f \in molds[p]}, namespace : {FALSE}]

\* fslib_mold_query_entries: molds, namespaces, and overrides of a namespace.
MoldList(p) ==
  LET listed == {f \in molds[p] :
                   /\ f.override => Namespace(f.entry) \in molds[p]
                   /\ f.entry.name \notin Illegal}
  IN {IF f = Namespace(f.entry)
      THEN [entry |-> NamespaceEntry(f.entry), namespace |-> TRUE]
      ELSE [entry |-> f.entry, namespace |-> FALSE] : f \in listed}

\* fslib_config_query_entries: files that a mold covers.
ConfigList(p) ==
  IF Has(p, "config_write")
  THEN {e \in ConfigIds : configs[p][e] # None /\ MoldQuery(p, e) = "EXISTS"}
  ELSE BuiltIn(Kind(p))

\* fslib_plugin_config_read, with the mold of the same plugin.
ReadFile(p, e) == IF Has(p, "config_write") THEN configs[p][e] ELSE "generated"
----------------------------------------------------------------------------
(* Which plugin of a group a call reaches.                                 *)

\* Mutation: the group is not looked at.
GroupOfAny(g) == DOMAIN queue

\* The places of the group's plugins in the queue.
Group(g) == {i \in DOMAIN queue : libconf[queue[i]].group = g}

\* The plugin at the first, or the last, of some places of the queue.
FirstOf(places) == queue[CHOOSE i \in places : \A j \in places : i <= j]
LastOf(places) == queue[CHOOSE i \in places : \A j \in places : j <= i]

\* disir_config_read takes the first plugin that has the entry.
ConfigPlugins(g, e) == {i \in Group(g) : ConfigQuery(queue[i], e) = "EXISTS"}

\* disir_config_query: the answer of the last plugin of the group.
QueryAnswer(g, e) ==
  IF Group(g) = {} THEN "GROUP_MISSING" ELSE ConfigQuery(LastOf(Group(g)), e)

\* Mutation: the last plugin that has the entry is read.
ReadLast(g, e) ==
  IF ConfigPlugins(g, e) = {} THEN None ELSE ReadFile(LastOf(ConfigPlugins(g, e)), e)

\* What disir_config_read returns.
Read(g, e) ==
  IF ConfigPlugins(g, e) = {} THEN None ELSE ReadFile(FirstOf(ConfigPlugins(g, e)), e)

\* disir_config_entries: the entries of all plugins of the group, each once.
ConfigEntries(g) == UNION {ConfigList(queue[i]) : i \in Group(g)}
----------------------------------------------------------------------------
(* Calls that change files.  They go to the first plugin of the group.     *)

\* The call ends before it touches a file.
Refused(call, function, g, e) ==
  IF call # "mold_write" /\ e.name = Slash THEN "FS_ERROR"
  ELSE IF Group(g) = {} THEN "NOT_EXIST"
  ELSE LET p == FirstOf(Group(g)) IN
    IF ~Has(p, function) THEN IF call = "mold_write" THEN "INTERNAL_ERROR" ELSE "NO_CAN_DO"
    ELSE IF call = "mold_write" \/ MoldQuery(p, e) = "EXISTS" THEN "OK"
    ELSE IF MoldQuery(p, e) = "NOT_EXIST" THEN "MOLD_MISSING"
    ELSE MoldQuery(p, e)

Refuse(call, function, g, e) ==
  /\ ready /\ Refused(call, function, g, e) # "OK"
  /\ status' = Refused(call, function, g, e)
  /\ UNCHANGED <<libconf, queue, loaded, ready, files, written>>

Accepted(call, function, g, e) == ready /\ Refused(call, function, g, e) = "OK"

\* fslib_mkdir_p returns a status it never set when it made every directory.
MkdirStatus(p) == IF p \in made \/ libconf[p].rooted THEN {"OK"} ELSE {"OK", "garbage"}

\* The directory or the file cannot be had.
ConfigWriteFails(g, e) ==
  /\ Accepted("config_write", "config_write", g, e)
  /\ LET p == FirstOf(Group(g)) IN
       \/ status' = "FS_ERROR" /\ UNCHANGED made
       \/ status' \in MkdirStatus(p) \ {"OK"} /\ made' = made \cup {p}
  /\ UNCHANGED <<libconf, queue, loaded, ready, molds, configs, written>>

\* The file is truncated, then the config is serialised, which may fail.
ConfigWrite(g, e, v) ==
  /\ Accepted("config_write", "config_write", g, e)
  /\ LET p == FirstOf(Group(g)) IN
       /\ configs' = [configs EXCEPT ![p][e] = v]
       /\ made' = made \cup {p}
  /\ status' = IF v = Broken THEN "INTERNAL_ERROR" ELSE "OK"
  /\ written' = [written EXCEPT ![g][e] = IF v = Broken THEN None ELSE v]
  /\ UNCHANGED <<libconf, queue, loaded, ready, molds>>

(* The test is of dp_config_write: without dp_config_remove the process     *)
(* dies.  Whether remove() succeeds is not looked at.                      *)
ConfigRemove(g, e) ==
  /\ Accepted("config_remove", "config_write", g, e)
  /\ LET p == FirstOf(Group(g)) IN
       IF Has(p, "config_remove")
       THEN /\ status' = IF configs[p][e] = None THEN "NOT_EXIST" ELSE "OK"
            /\ configs' \in {configs, [configs EXCEPT ![p][e] = None]}
            /\ written' = [written EXCEPT ![g][e] = None]
            /\ UNCHANGED <<queue, loaded, ready>>
       ELSE /\ status' = "SIGSEGV"
            /\ ready' = FALSE /\ queue' = <<>> /\ loaded' = {}
            /\ UNCHANGED <<configs, written>>
  /\ UNCHANGED <<libconf, molds, made>>

\* No check of the name, nor of what the file was.
MoldWrite(g, e) ==
  /\ Accepted("mold_write", "mold_write", g, e)
  /\ molds' = [molds EXCEPT ![FirstOf(Group(g))] = @ \cup {Exact(e)}]
  /\ status' = "OK"
  /\ UNCHANGED <<libconf, queue, loaded, ready, configs, made, written>>

\* fslib_config_query_entries makes the base directory of each plugin it asks.
ListConfigs(g) ==
  /\ ready
  /\ made' = made \cup {p \in {queue[i] : i \in Group(g)} : Has(p, "config_write")}
  /\ UNCHANGED <<libconf, queue, loaded, ready, molds, configs, written, status>>
----------------------------------------------------------------------------
Instance == CreateInstance \/ CreateFails \/ DestroyInstance

Write(g) ==
  \/ \E e \in ConfigIds, v \in Values \cup {Broken} : ConfigWrite(g, e, v)
  \/ \E e \in ConfigIds : ConfigWriteFails(g, e) \/ ConfigRemove(g, e)
  \/ \E e \in MoldIds : MoldWrite(g, e) \/ Refuse("mold_write", "mold_write", g, e)
  \/ \E e \in Entry, call \in {"config_write", "config_remove"} :
       Refuse(call, "config_write", g, e)

Next == Instance \/ \E g \in Groups : Write(g) \/ ListConfigs(g)

Spec == Init /\ [][Next]_vars
----------------------------------------------------------------------------
TypeOK ==
  /\ libconf \in Libconfs
  /\ queue \in Seq(Sections) /\ loaded \subseteq Sections /\ ready \in BOOLEAN
  /\ molds \in [Sections -> SUBSET MoldFile]
  /\ configs \in [Sections -> [ConfigIds -> Values \cup {None, Broken}]]
  /\ made \subseteq Sections
  /\ written \in [Groups -> [ConfigIds -> Values \cup {None}]]

(* Invariant: what a call wrote to an entry of a group is what the group's *)
(* plugins return for it until the next write or remove of the entry, also *)
(* across instances and when molds are written: the write goes to the      *)
(* first plugin of the group, the read to the first that has the entry.    *)
WrittenIsRead ==
  ready => \A g \in Groups, e \in ConfigIds : written[g][e] # None => Read(g, e) = written[g][e]

(* Invariant: disir_config_entries lists the entries of a group that       *)
(* disir_config_read finds, and no others.  The list is made from files,   *)
(* the answer to a read from the molds and then the file.                  *)
ListedIsFound ==
  \A g \in Groups : ConfigEntries(g) = {e \in Entry : ConfigPlugins(g, e) # {}}

(* Invariant: a mold that a plugin lists can be asked for, and the list    *)
(* and the answer agree on whether it is a namespace; an entry that has a  *)
(* mold is listed, or covered by a listed namespace.                       *)
MoldListAgreesWithQuery ==
  \A p \in Sections : BuiltIn(Kind(p)) = {} =>
    /\ \A l \in MoldList(p) : /\ MoldQuery(p, l.entry) = "EXISTS"
                              /\ QueryFlags(p, l.entry).namespace = l.namespace
    /\ \A e \in Entry : MoldQuery(p, e) = "EXISTS" =>
         {l.entry : l \in MoldList(p)} \cap {e, NamespaceEntry(e), Namespace(e).entry} # {}

(* Action property: what is read of an entry changes with a call on that   *)
(* entry of that group, or when its first plugin gets a mold that covers   *)
(* it, and in no other way, while the instance lives.                      *)
ReadsChangeByTheirCalls ==
  [][ready /\ ready' =>
       \A g \in Groups, e \in ConfigIds : Read(g, e)' # Read(g, e) =>
         \/ \E v \in Values \cup {Broken} : ConfigWrite(g, e, v)
         \/ ConfigRemove(g, e)
         \/ MoldWrite(g, e) \/ MoldWrite(g, Namespace(e).entry)]_vars

(* Invariant, of groups with one plugin: disir_config_query tells what     *)
(* disir_config_read finds (include/disir/config.h:116-117).               *)
QueryTellsRead ==
  ready => \A g \in Groups, e \in ConfigIds :
    QueryAnswer(g, e) = "EXISTS" <=> ConfigPlugins(g, e) # {}

(* Invariant: no call goes through a function pointer that is NULL.        *)
NoNullCall == status # "SIGSEGV"

(* Invariant: without an instance no plugin is loaded.                     *)
NoneLeftLoaded == ~ready => loaded = {}
=============================================================================
