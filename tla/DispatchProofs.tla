--------------------------- MODULE DispatchProofs ---------------------------
(* Theorems about Dispatch, for every configuration of the library, every  *)
(* kind of plugin and every set of files.                                  *)
EXTENDS Dispatch, WellFoundedInduction, TLAPS

\* Every nonempty set of naturals has a least element.
LEMMA Least ==
  ASSUME NEW T, T \subseteq Nat, T # {}
  PROVE  \E m \in T : \A k \in T : m <= k
<1> DEFINE R == OpToRel(<, Nat)
<1>1. IsWellFoundedOn(R, Nat)
  BY NatLessThanWellFounded
<1>2. \A x, y \in Nat : x < y => <<x, y>> \in R
  BY DEF OpToRel
<1> HIDE DEF R
<1>3. PICK m \in T : \A k \in T : ~(<<k, m>> \in R)
  BY <1>1, WFMin
<1>4. \A k \in T : ~(k < m)
  BY <1>2, <1>3
<1>5. \A k \in T : m <= k
  BY <1>4
<1> QED BY <1>5
----------------------------------------------------------------------------

(* The queue holds the sections of the configuration in their order while  *)
(* an instance exists, and nothing else.                                   *)
QueueIsConfigured == IF ready THEN queue = [p \in Sections |-> p] ELSE queue = <<>>

\* p is the first section of the group g, the one a write goes to.
Home(p, g) ==
  /\ p \in Sections /\ libconf[p].group = g
  /\ \A q \in Sections : libconf[q].group = g => p <= q

(* What was written to an entry of a group is still in the file of the     *)
(* group's first plugin, which can write and has a mold for the entry.     *)
WrittenIsHeld ==
  \A g \in Groups, e \in ConfigIds : written[g][e] # None =>
    \E p \in Sections : /\ Home(p, g) /\ Has(p, "config_write")
                        /\ MoldQuery(p, e) = "EXISTS"
                        /\ configs[p][e] = written[g][e]

Inv == TypeOK /\ QueueIsConfigured /\ WrittenIsHeld

(* Every mold file has a name; none stands for a directory.                *)
MoldFilesNamed == \A p \in Sections : molds[p] \subseteq [entry : Named, override : BOOLEAN]
----------------------------------------------------------------------------
(* What the configuration of the library is made of.                       *)
LEMMA SectionFacts ==
  ASSUME libconf \in Libconfs
  PROVE  /\ Sections = 1..Len(libconf) /\ Len(libconf) \in Nat /\ Sections \subseteq Nat
         /\ \A p \in Sections : libconf[p] \in Section /\ Kind(p) \in Kinds
<1>1. libconf \in Seq(Section)
  BY DispatchAssumption DEF DispatchAssumption
<1>2. Sections = 1..Len(libconf) /\ Len(libconf) \in Nat
  BY <1>1 DEF Sections
<1>3. ASSUME NEW p \in Sections PROVE libconf[p] \in Section
  BY <1>1, <1>3 DEF Sections
<1>4. \A p \in Sections : Kind(p) \in Kinds
  BY <1>3 DEF Kind, Section
<1> QED BY <1>2, <1>3, <1>4

\* The first of some places of the queue, when the queue is the configuration.
LEMMA FirstIsLeast ==
  ASSUME Inv, ready, NEW T, T \subseteq Sections, T # {}
  PROVE  FirstOf(T) \in T /\ \A q \in T : FirstOf(T) <= q
<1>1. T \subseteq Nat
  BY SectionFacts DEF Inv, TypeOK
<1>2. \E i \in T : \A j \in T : i <= j
  BY <1>1, Least
<1> DEFINE m == CHOOSE i \in T : \A j \in T : i <= j
<1>3. m \in T /\ \A j \in T : m <= j
  BY <1>2
<1>4. queue[m] = m
  BY <1>3 DEF Inv, QueueIsConfigured
<1> QED BY <1>3, <1>4 DEF FirstOf

\* The places of a group are its sections.
LEMMA GroupIsSections ==
  ASSUME Inv, ready, NEW g
  PROVE  /\ Group(g) = {p \in Sections : libconf[p].group = g}
         /\ \A i \in Group(g) : queue[i] = i
BY DEF Inv, QueueIsConfigured, Group

LEMMA FirstOfGroup ==
  ASSUME Inv, ready, NEW g, Group(g) # {}
  PROVE  Home(FirstOf(Group(g)), g)
<1>1. Group(g) \subseteq Sections /\ Group(g) = {p \in Sections : libconf[p].group = g}
  BY GroupIsSections
<1>2. FirstOf(Group(g)) \in Group(g) /\ \A q \in Group(g) : FirstOf(Group(g)) <= q
  BY <1>1, FirstIsLeast
<1> QED BY <1>1, <1>2 DEF Home

LEMMA HomeIsOne ==
  ASSUME libconf \in Libconfs, NEW g, NEW p, NEW q, Home(p, g), Home(q, g)
  PROVE  p = q
<1>1. p \in Nat /\ q \in Nat /\ p <= q /\ q <= p
  BY SectionFacts DEF Home
<1> QED BY <1>1

(* An accepted call has a plugin to go to, and a mold when it is on a      *)
(* config.                                                                 *)
LEMMA AcceptedFacts ==
  ASSUME Inv, NEW call \in {"config_write", "config_remove", "mold_write"},
         NEW function, NEW g, NEW e, Accepted(call, function, g, e)
  PROVE  /\ ready /\ Home(FirstOf(Group(g)), g) /\ Has(FirstOf(Group(g)), function)
         /\ call # "mold_write" => MoldQuery(FirstOf(Group(g)), e) = "EXISTS"
<1> DEFINE p == FirstOf(Group(g))
<1>1. ready /\ Refused(call, function, g, e) = "OK"
  BY DEF Accepted
<1>2. Group(g) # {}
  BY <1>1 DEF Refused
<1>3. Has(p, function)
  BY <1>1, <1>2 DEF Refused
<1>4. call = "mold_write" \/ MoldQuery(p, e) = "EXISTS"
  <2>1. MoldQuery(p, e) # "OK"
    BY DEF MoldQuery
  <2> HIDE DEF p
  <2> QED BY <1>1, <1>2, <1>3, <2>1 DEF Refused, p
<1> QED BY <1>1, <1>2, <1>3, <1>4, FirstOfGroup
----------------------------------------------------------------------------
LEMMA InvInit == Init => Inv
<1> SUFFICES ASSUME Init PROVE Inv
  OBVIOUS
<1>1. molds \in [Sections -> SUBSET MoldFile]
  <2>1. \A f \in MoldFiles : f \subseteq MoldFile
    BY DispatchAssumption DEF DispatchAssumption, MoldFile, Named
  <2> QED BY <2>1 DEF Init
<1>2. configs \in [Sections -> [ConfigIds -> Values \cup {None, Broken}]]
  <2>1. [ConfigIds -> Values \cup {None}] \subseteq [ConfigIds -> Values \cup {None, Broken}]
    OBVIOUS
  <2> QED BY <2>1 DEF Init
<1>3. queue \in Seq(Sections)
  BY DEF Init
<1>4. TypeOK
  BY <1>1, <1>2, <1>3 DEF Init, TypeOK
<1> QED BY <1>4 DEF Inv, Init, QueueIsConfigured, WrittenIsHeld

(* What was written stays where it is unless the files of the group's      *)
(* first plugin lose it.                                                   *)
LEMMA WrittenStays ==
  ASSUME Inv, libconf' = libconf, written' = written,
         \A p \in Sections : molds[p] \subseteq molds'[p],
         \A p \in Sections, e \in ConfigIds :
           configs[p][e] # configs'[p][e] => \A g \in Groups : Home(p, g) => written[g][e] = None
  PROVE  WrittenIsHeld'
<1> SUFFICES ASSUME NEW g \in Groups, NEW e \in ConfigIds, written[g][e] # None
             PROVE  \E p \in Sections : /\ Home(p, g)' /\ Has(p, "config_write")'
                                        /\ MoldQuery(p, e)' = "EXISTS"
                                        /\ configs'[p][e] = written[g][e]
  BY DEF WrittenIsHeld, Sections
<1>1. PICK p \in Sections : /\ Home(p, g) /\ Has(p, "config_write")
                            /\ MoldQuery(p, e) = "EXISTS"
                            /\ configs[p][e] = written[g][e]
  BY DEF Inv, WrittenIsHeld
<1>2. Home(p, g)' /\ Has(p, "config_write")'
  BY <1>1 DEF Home, Has, Kind, Sections
<1>3. MoldQuery(p, e)' = "EXISTS"
  BY <1>1 DEF MoldQuery, Covered, Kind
<1>4. configs'[p][e] = written[g][e]
  BY <1>1
<1> QED BY <1>2, <1>3, <1>4

(* What a write or a remove leaves alone is where the files are.           *)
LEMMA HeldAfter ==
  ASSUME libconf' = libconf, molds' = molds,
         \A g \in Groups, e \in ConfigIds : written'[g][e] # None =>
           \E p \in Sections : /\ Home(p, g) /\ Has(p, "config_write")
                               /\ MoldQuery(p, e) = "EXISTS"
                               /\ configs'[p][e] = written'[g][e]
  PROVE  WrittenIsHeld'
<1>1. Sections' = Sections
  BY DEF Sections
<1>2. ASSUME NEW p, NEW g PROVE Home(p, g)' <=> Home(p, g)
  BY <1>1 DEF Home
<1>3. ASSUME NEW p PROVE Has(p, "config_write")' <=> Has(p, "config_write")
  BY DEF Has, Kind
<1>4. ASSUME NEW p, NEW e PROVE MoldQuery(p, e)' = MoldQuery(p, e)
  BY DEF MoldQuery, Covered, Kind
<1> SUFFICES ASSUME NEW g \in Groups, NEW e \in ConfigIds, written'[g][e] # None
             PROVE  \E p \in Sections' : /\ Home(p, g)' /\ Has(p, "config_write")'
                                         /\ MoldQuery(p, e)' = "EXISTS"
                                         /\ configs'[p][e] = written'[g][e]
  BY DEF WrittenIsHeld
<1>5. PICK p \in Sections : /\ Home(p, g) /\ Has(p, "config_write")
                            /\ MoldQuery(p, e) = "EXISTS"
                            /\ configs'[p][e] = written'[g][e]
  OBVIOUS
<1> QED BY <1>1, <1>2, <1>3, <1>4, <1>5

LEMMA InvConfigWrite ==
  ASSUME Inv, NEW g \in Groups, NEW e \in ConfigIds, NEW v \in Values \cup {Broken},
         ConfigWrite(g, e, v)
  PROVE  Inv'
<1> DEFINE p == FirstOf(Group(g))
<1>1. /\ ready /\ Home(p, g) /\ Has(p, "config_write") /\ MoldQuery(p, e) = "EXISTS"
  BY AcceptedFacts DEF ConfigWrite
<1>2. /\ configs' = [configs EXCEPT ![p][e] = v] /\ made' = made \cup {p}
      /\ written' = [written EXCEPT ![g][e] = IF v = Broken THEN None ELSE v]
      /\ UNCHANGED <<libconf, queue, loaded, ready, molds>>
  BY DEF ConfigWrite
<1> HIDE DEF p
<1>3. p \in Sections
  BY <1>1 DEF Home
<1>4. TypeOK'
  BY <1>2, <1>3 DEF Inv, TypeOK, Sections
<1>5. QueueIsConfigured'
  BY <1>2 DEF Inv, QueueIsConfigured, Sections
<1>6. WrittenIsHeld'
  <2> SUFFICES ASSUME NEW h \in Groups, NEW d \in ConfigIds, written'[h][d] # None
               PROVE  \E q \in Sections : /\ Home(q, h) /\ Has(q, "config_write")
                                          /\ MoldQuery(q, d) = "EXISTS"
                                          /\ configs'[q][d] = written'[h][d]
    BY <1>2, HeldAfter
  <2>1. CASE h = g /\ d = e
    <3>1. v # Broken /\ written'[h][d] = v /\ configs'[p][d] = v
      BY <1>2, <1>3, <2>1 DEF Inv, TypeOK
    <3> QED BY <1>1, <1>3, <2>1, <3>1
  <2>2. CASE ~(h = g /\ d = e)
    <3>1. written'[h][d] = written[h][d]
      BY <1>2, <2>2 DEF Inv, TypeOK
    <3>2. PICK q \in Sections : /\ Home(q, h) /\ Has(q, "config_write")
                                /\ MoldQuery(q, d) = "EXISTS" /\ configs[q][d] = written[h][d]
      BY <3>1 DEF Inv, WrittenIsHeld
    <3>3. q = p => h = g
      BY <1>1, <3>2 DEF Home
    <3>4. configs'[q][d] = configs[q][d]
      BY <1>2, <1>3, <2>2, <3>2, <3>3 DEF Inv, TypeOK
    <3> QED BY <3>1, <3>2, <3>4
  <2> QED BY <2>1, <2>2
<1> QED BY <1>4, <1>5, <1>6 DEF Inv

LEMMA InvConfigRemove ==
  ASSUME Inv, NEW g \in Groups, NEW e \in ConfigIds, ConfigRemove(g, e)
  PROVE  Inv'
<1> DEFINE p == FirstOf(Group(g))
<1>1. /\ ready /\ Home(p, g)
  BY AcceptedFacts DEF ConfigRemove
<1>2. UNCHANGED <<libconf, molds, made>>
  BY DEF ConfigRemove
<1>3. CASE Has(p, "config_remove")
  <2>1. /\ configs' \in {configs, [configs EXCEPT ![p][e] = None]}
        /\ written' = [written EXCEPT ![g][e] = None]
        /\ UNCHANGED <<queue, loaded, ready>>
    BY <1>3 DEF ConfigRemove
  <2> HIDE DEF p
  <2>2. p \in Sections
    BY <1>1 DEF Home
  <2>3. TypeOK'
    <3>1. configs' \in [Sections -> [ConfigIds -> Values \cup {None, Broken}]]
      <4>1. [configs EXCEPT ![p][e] = None]
              \in [Sections -> [ConfigIds -> Values \cup {None, Broken}]]
        BY <2>2 DEF Inv, TypeOK
      <4> QED BY <2>1, <4>1 DEF Inv, TypeOK
    <3>2. written' \in [Groups -> [ConfigIds -> Values \cup {None}]]
      BY <2>1 DEF Inv, TypeOK
    <3> QED BY <1>2, <2>1, <3>1, <3>2 DEF Inv, TypeOK, Sections
  <2>4. QueueIsConfigured'
    BY <1>2, <2>1 DEF Inv, QueueIsConfigured, Sections
  <2>5. WrittenIsHeld'
    <3> SUFFICES ASSUME NEW h \in Groups, NEW d \in ConfigIds, written'[h][d] # None
                 PROVE  \E q \in Sections : /\ Home(q, h) /\ Has(q, "config_write")
                                            /\ MoldQuery(q, d) = "EXISTS"
                                            /\ configs'[q][d] = written'[h][d]
      BY <1>2, HeldAfter
    <3>1. ~(h = g /\ d = e) /\ written'[h][d] = written[h][d]
      BY <2>1 DEF Inv, TypeOK
    <3>2. PICK q \in Sections : /\ Home(q, h) /\ Has(q, "config_write")
                                /\ MoldQuery(q, d) = "EXISTS" /\ configs[q][d] = written[h][d]
      BY <3>1 DEF Inv, WrittenIsHeld
    <3>3. q = p => h = g
      BY <1>1, <3>2 DEF Home
    <3>4. configs'[q][d] = configs[q][d]
      BY <2>1, <2>2, <3>1, <3>2, <3>3 DEF Inv, TypeOK
    <3> QED BY <3>1, <3>2, <3>4
  <2> QED BY <2>3, <2>4, <2>5 DEF Inv
<1>4. CASE ~Has(p, "config_remove")
  <2>1. /\ ~ready' /\ queue' = <<>> /\ loaded' = {}
        /\ UNCHANGED <<configs, written>>
    BY <1>4 DEF ConfigRemove
  <2>2. TypeOK'
    <3>1. ready' \in BOOLEAN
      BY <1>4 DEF ConfigRemove
    <3> QED BY <1>2, <2>1, <3>1 DEF Inv, TypeOK, Sections
  <2>3. QueueIsConfigured'
    BY <2>1 DEF QueueIsConfigured
  <2>4. WrittenIsHeld'
    BY <1>2, <2>1, WrittenStays DEF Inv, TypeOK
  <2> QED BY <2>2, <2>3, <2>4 DEF Inv
<1> QED BY <1>3, <1>4

LEMMA InvMoldWrite ==
  ASSUME Inv, NEW g \in Groups, NEW e \in MoldIds, MoldWrite(g, e)
  PROVE  Inv'
<1> DEFINE p == FirstOf(Group(g))
<1>1. p \in Sections
  BY AcceptedFacts DEF MoldWrite, Home
<1>2. /\ molds' = [molds EXCEPT ![p] = @ \cup {Exact(e)}]
      /\ UNCHANGED <<libconf, queue, loaded, ready, configs, made, written>>
  BY DEF MoldWrite
<1> HIDE DEF p
<1>3. Exact(e) \in MoldFile
  BY DispatchAssumption DEF DispatchAssumption, Exact, MoldFile
<1>4. TypeOK'
  BY <1>1, <1>2, <1>3 DEF Inv, TypeOK, Sections
<1>5. QueueIsConfigured'
  BY <1>2 DEF Inv, QueueIsConfigured, Sections
<1>6. \A q \in Sections : molds[q] \subseteq molds'[q]
  BY <1>1, <1>2 DEF Inv, TypeOK
<1>7. WrittenIsHeld'
  BY <1>2, <1>6, WrittenStays
<1> QED BY <1>4, <1>5, <1>7 DEF Inv

(* The instance comes and goes; the files stay.                            *)
LEMMA InvInstance == Inv /\ Instance => Inv'
<1> SUFFICES ASSUME Inv, Instance PROVE Inv'
  OBVIOUS
<1>1. UNCHANGED <<libconf, molds, configs, made, written>>
  BY DEF Instance, CreateInstance, CreateFails, DestroyInstance, files
<1>2. WrittenIsHeld'
  BY <1>1, WrittenStays
<1>3. CASE CreateInstance
  <2>1. Sections = 1..Len(libconf) /\ Len(libconf) \in Nat
    BY SectionFacts DEF Inv, TypeOK
  <2>2. [p \in Sections |-> p] \in Seq(Sections)
    BY <2>1
  <2>3. TypeOK'
    BY <1>1, <1>3, <2>2 DEF CreateInstance, Inv, TypeOK, Sections
  <2>4. QueueIsConfigured'
    BY <1>1, <1>3 DEF CreateInstance, QueueIsConfigured, Sections
  <2> QED BY <1>2, <2>3, <2>4 DEF Inv
<1>4. CASE CreateFails
  <2>1. UNCHANGED <<queue, ready>>
    BY <1>4 DEF CreateFails
  <2>2. loaded' \subseteq Sections
    BY <1>4 DEF CreateFails, Inv, TypeOK
  <2>3. TypeOK'
    BY <1>1, <2>1, <2>2 DEF Inv, TypeOK, Sections
  <2>4. QueueIsConfigured'
    BY <1>1, <2>1 DEF Inv, QueueIsConfigured, Sections
  <2> QED BY <1>2, <2>3, <2>4 DEF Inv
<1>5. CASE DestroyInstance
  <2>1. queue' = <<>> /\ ready' = FALSE /\ loaded' \subseteq Sections
    BY <1>5 DEF DestroyInstance, Inv, TypeOK
  <2>2. TypeOK'
    <3>1. queue' \in Seq(Sections)
      BY <2>1
    <3>2. ready' \in BOOLEAN
      BY <2>1
    <3> QED BY <1>1, <2>1, <3>1, <3>2 DEF Inv, TypeOK, Sections
  <2>3. QueueIsConfigured'
    BY <2>1 DEF QueueIsConfigured
  <2> QED BY <1>2, <2>2, <2>3 DEF Inv
<1> QED BY <1>3, <1>4, <1>5 DEF Instance

(* Calls that change no file, but may make a base directory.               *)
LEMMA InvOther ==
  ASSUME Inv, UNCHANGED <<libconf, queue, loaded, ready, molds, configs, written>>,
         made' \subseteq Sections
  PROVE  Inv'
<1>1. TypeOK'
  BY DEF Inv, TypeOK, Sections
<1>2. QueueIsConfigured'
  BY DEF Inv, QueueIsConfigured, Sections
<1>3. WrittenIsHeld'
  BY WrittenStays
<1> QED BY <1>1, <1>2, <1>3 DEF Inv

LEMMA InvNext == Inv /\ [Next]_vars => Inv'
<1> SUFFICES ASSUME Inv, [Next]_vars PROVE Inv'
  OBVIOUS
<1>1. CASE Instance
  BY <1>1, InvInstance
<1>2. ASSUME NEW g \in Groups, Write(g) PROVE Inv'
  <2>1. ASSUME NEW e \in ConfigIds, NEW v \in Values \cup {Broken}, ConfigWrite(g, e, v)
        PROVE  Inv'
    BY <2>1, InvConfigWrite
  <2>2. ASSUME NEW e \in ConfigIds, ConfigWriteFails(g, e) PROVE Inv'
    <3>1. FirstOf(Group(g)) \in Sections
      BY <2>2, AcceptedFacts DEF ConfigWriteFails, Home
    <3>2. made' \subseteq Sections
      BY <2>2, <3>1 DEF ConfigWriteFails, Inv, TypeOK
    <3> QED BY <2>2, <3>2, InvOther DEF ConfigWriteFails
  <2>3. ASSUME NEW e \in ConfigIds, ConfigRemove(g, e) PROVE Inv'
    BY <2>3, InvConfigRemove
  <2>4. ASSUME NEW e \in MoldIds, MoldWrite(g, e) PROVE Inv'
    BY <2>4, InvMoldWrite
  <2>5. ASSUME NEW call, NEW function, NEW e, Refuse(call, function, g, e) PROVE Inv'
    BY <2>5, InvOther DEF Refuse, files, Inv, TypeOK
  <2> QED BY <1>2, <2>1, <2>2, <2>3, <2>4, <2>5 DEF Write
<1>3. ASSUME NEW g \in Groups, ListConfigs(g) PROVE Inv'
  <2>1. ready /\ \A i \in Group(g) : queue[i] \in Sections
    BY <1>3, GroupIsSections DEF ListConfigs
  <2>2. made' \subseteq Sections
    BY <1>3, <2>1 DEF ListConfigs, Inv, TypeOK
  <2> QED BY <1>3, <2>2, InvOther DEF ListConfigs
<1>4. CASE UNCHANGED vars
  BY <1>4, InvOther DEF vars, Inv, TypeOK
<1> QED BY <1>1, <1>2, <1>3, <1>4 DEF Next

(* The invariant holds for every configuration of the library.             *)
THEOREM InvHolds == Spec => []Inv
<1> QED BY InvInit, InvNext, PTL DEF Spec
----------------------------------------------------------------------------
LEMMA HeldIsRead == Inv => WrittenIsRead
<1> SUFFICES ASSUME Inv, ready, NEW g \in Groups, NEW e \in ConfigIds, written[g][e] # None
             PROVE  Read(g, e) = written[g][e]
  BY DEF WrittenIsRead
<1>1. PICK p \in Sections : /\ Home(p, g) /\ Has(p, "config_write")
                            /\ MoldQuery(p, e) = "EXISTS" /\ configs[p][e] = written[g][e]
  BY DEF Inv, WrittenIsHeld
<1>2. ConfigQuery(p, e) = "EXISTS"
  BY <1>1 DEF ConfigQuery
<1>3. /\ Group(g) = {q \in Sections : libconf[q].group = g}
      /\ \A i \in Group(g) : queue[i] = i
  BY GroupIsSections
<1>4. p \in ConfigPlugins(g, e) /\ ConfigPlugins(g, e) \subseteq Group(g)
  BY <1>1, <1>2, <1>3 DEF ConfigPlugins, Home
<1> DEFINE first == FirstOf(ConfigPlugins(g, e))
<1>5. first \in ConfigPlugins(g, e) /\ \A q \in ConfigPlugins(g, e) : first <= q
  BY <1>3, <1>4, FirstIsLeast
<1>6. first \in Sections /\ first <= p /\ p <= first
  BY <1>1, <1>3, <1>4, <1>5 DEF Home
<1>7. first = p
  <2>1. Sections \subseteq Nat
    BY SectionFacts DEF Inv, TypeOK
  <2> HIDE DEF first
  <2> QED BY <1>6, <2>1
<1> QED BY <1>1, <1>4, <1>7 DEF Read, ReadFile

(* What a successful write to an entry of a group wrote is what a read of  *)
(* it returns, until the next write or remove of the entry, also across    *)
(* instances (disir_config_write, disir_config_read).                      *)
THEOREM WrittenRead == Spec => []WrittenIsRead
<1> QED BY InvHolds, HeldIsRead, PTL

(* What fslib_config_query_entries lists of a plugin, and what a plugin    *)
(* with configs of its own lists, is what dp_config_query finds.           *)
LEMMA ListIsQuery ==
  ASSUME TypeOK, NEW p \in Sections
  PROVE  ConfigList(p) = {e \in Entry : ConfigQuery(p, e) = "EXISTS"}
<1>1. ConfigIds \subseteq Entry /\ BuiltIn(Kind(p)) \subseteq Entry
  BY SectionFacts, DispatchAssumption DEF DispatchAssumption, Named, TypeOK
<1>2. ASSUME NEW e \in Entry
      PROVE  e \in ConfigList(p) <=> ConfigQuery(p, e) = "EXISTS"
  BY DEF ConfigList, ConfigQuery
<1>3. ConfigList(p) \subseteq Entry
  BY <1>1 DEF ConfigList
<1> QED BY <1>2, <1>3

LEMMA ListedFound == TypeOK => ListedIsFound
<1> SUFFICES ASSUME TypeOK, NEW g \in Groups
             PROVE  ConfigEntries(g) = {e \in Entry : ConfigPlugins(g, e) # {}}
  BY DEF ListedIsFound
<1>1. \A i \in Group(g) : queue[i] \in Sections
  BY DEF Group, TypeOK
<1>2. \A i \in Group(g) : ConfigList(queue[i]) = {e \in Entry : ConfigQuery(queue[i], e) = "EXISTS"}
  BY <1>1, ListIsQuery
<1> QED BY <1>2 DEF ConfigEntries, ConfigPlugins

(* disir_config_entries lists the entries of a group that                  *)
(* disir_config_read finds a plugin for, and no others.                    *)
THEOREM Listed == Spec => []ListedIsFound
<1> QED BY InvHolds, ListedFound, PTL DEF Inv
----------------------------------------------------------------------------
LEMMA MoldFilesStayNamed ==
  ASSUME MoldIds \subseteq Named
  PROVE  Inv /\ MoldFilesNamed /\ [Next]_vars => MoldFilesNamed'
<1> SUFFICES ASSUME Inv, MoldFilesNamed, [Next]_vars PROVE MoldFilesNamed'
  OBVIOUS
<1>1. ASSUME UNCHANGED <<libconf, molds>> PROVE MoldFilesNamed'
  BY <1>1 DEF MoldFilesNamed, Sections
<1>2. ASSUME NEW g \in Groups, NEW e \in MoldIds, MoldWrite(g, e) PROVE MoldFilesNamed'
  <2> DEFINE p == FirstOf(Group(g))
  <2>1. p \in Sections
    BY <1>2, AcceptedFacts DEF MoldWrite, Home
  <2>2. molds' = [molds EXCEPT ![p] = @ \cup {Exact(e)}] /\ libconf' = libconf
    BY <1>2 DEF MoldWrite
  <2> HIDE DEF p
  <2>3. Exact(e) \in [entry : Named, override : BOOLEAN]
    BY DEF Exact
  <2> QED BY <2>1, <2>2, <2>3 DEF MoldFilesNamed, Sections, Inv, TypeOK
<1>3. CASE Instance
  BY <1>1, <1>3 DEF Instance, CreateInstance, CreateFails, DestroyInstance, files
<1>4. ASSUME NEW g \in Groups, Write(g) PROVE MoldFilesNamed'
  BY <1>1, <1>2, <1>4 DEF Write, ConfigWrite, ConfigWriteFails, ConfigRemove, Refuse, files
<1>5. ASSUME NEW g \in Groups, ListConfigs(g) PROVE MoldFilesNamed'
  BY <1>1, <1>5 DEF ListConfigs
<1>6. CASE UNCHANGED vars
  BY <1>1, <1>6 DEF vars
<1> QED BY <1>3, <1>4, <1>5, <1>6 DEF Next

\* Directories, names and their files.
LEMMA NameFacts ==
  /\ Slash # NamespaceName /\ Slash \notin Illegal /\ NamespaceName \notin Illegal
  /\ \A e \in Entry : /\ Namespace(e).entry \in Entry /\ NamespaceEntry(e) \in Entry
                      /\ Namespace(e).entry.name = NamespaceName
                      /\ Namespace(NamespaceEntry(e)) = Namespace(e)
                      /\ e.name = NamespaceName => Namespace(e).entry = e
<1>1. Slash # NamespaceName /\ Slash \notin Illegal /\ NamespaceName \notin Illegal
  BY DispatchAssumption DEF DispatchAssumption
<1>2. ASSUME NEW e \in Entry
      PROVE  /\ Namespace(e).entry \in Entry /\ NamespaceEntry(e) \in Entry
             /\ Namespace(e).entry.name = NamespaceName
             /\ Namespace(NamespaceEntry(e)) = Namespace(e)
             /\ e.name = NamespaceName => Namespace(e).entry = e
  BY DEF Namespace, NamespaceEntry, Exact, Entry
<1> QED BY <1>1, <1>2

(* A mold file that is listed can be asked for, and answered alike.        *)
LEMMA ListedAnswered ==
  ASSUME TypeOK, MoldFilesNamed, NEW p \in Sections, BuiltIn(Kind(p)) = {},
         NEW l \in MoldList(p)
  PROVE  MoldQuery(p, l.entry) = "EXISTS" /\ QueryFlags(p, l.entry).namespace = l.namespace
<1>1. PICK f \in molds[p] :
        /\ f.override => Namespace(f.entry) \in molds[p]
        /\ f.entry.name \notin Illegal
        /\ l = IF f = Namespace(f.entry)
               THEN [entry |-> NamespaceEntry(f.entry), namespace |-> TRUE]
               ELSE [entry |-> f.entry, namespace |-> FALSE]
  BY DEF MoldList
<1>2. f \in [entry : Named, override : BOOLEAN] /\ f.entry \in Entry /\ f.entry.name # Slash
  BY DEF MoldFilesNamed, Named
<1>3. CASE f = Namespace(f.entry)
  <2> DEFINE d == NamespaceEntry(f.entry)
  <2>1. l.entry = d /\ l.namespace
    BY <1>1, <1>3
  <2>2. d.name = Slash /\ d.name \notin Illegal /\ Namespace(d) = f
    BY <1>2, <1>3, NameFacts DEF NamespaceEntry
  <2>3. Covered(p, d)
    BY <2>2 DEF Covered
  <2> HIDE DEF d
  <2>4. MoldQuery(p, d) = "EXISTS"
    BY <2>2, <2>3 DEF MoldQuery
  <2>5. d \notin Named
    BY <2>2 DEF Named
  <2>6. Exact(d) \notin molds[p] /\ Override(d) \notin molds[p]
    BY <2>5 DEF MoldFilesNamed, Exact, Override
  <2>7. QueryFlags(p, d).namespace
    BY <2>6 DEF QueryFlags
  <2> QED BY <2>1, <2>4, <2>7 DEF QueryFlags
<1>4. CASE f # Namespace(f.entry)
  <2>1. l.entry = f.entry /\ l.namespace = FALSE
    BY <1>1, <1>4
  <2>2. \/ f = Exact(f.entry)
        \/ f = Override(f.entry) /\ Namespace(f.entry) \in molds[p]
    <3>1. CASE f.override
      BY <1>1, <1>2, <3>1 DEF Override
    <3>2. CASE ~f.override
      BY <1>2, <3>2 DEF Exact
    <3> QED BY <3>1, <3>2
  <2>3. Covered(p, f.entry)
    BY <2>2 DEF Covered
  <2>4. MoldQuery(p, f.entry) = "EXISTS"
    BY <1>1, <2>3 DEF MoldQuery
  <2>5. ~QueryFlags(p, f.entry).namespace
    BY <2>2 DEF QueryFlags
  <2> QED BY <2>1, <2>4, <2>5 DEF QueryFlags
<1> QED BY <1>3, <1>4

(* An entry that has a mold is listed, or covered by a listed namespace.   *)
LEMMA AnsweredListed ==
  ASSUME NEW p \in Sections, BuiltIn(Kind(p)) = {},
         NEW e \in Entry, MoldQuery(p, e) = "EXISTS"
  PROVE  {l.entry : l \in MoldList(p)} \cap {e, NamespaceEntry(e), Namespace(e).entry} # {}
<1>1. e.name \notin Illegal /\ Covered(p, e)
  BY DEF MoldQuery
<1> DEFINE Shown(f) == IF f = Namespace(f.entry)
                       THEN [entry |-> NamespaceEntry(f.entry), namespace |-> TRUE]
                       ELSE [entry |-> f.entry, namespace |-> FALSE]
<1>2. ASSUME NEW f \in molds[p], ~f.override, f.entry.name \notin Illegal
      PROVE  Shown(f) \in MoldList(p)
  BY <1>2 DEF MoldList
<1>3. CASE Exact(e) \in molds[p]
  <2>1. Shown(Exact(e)) \in MoldList(p)
    BY <1>1, <1>2, <1>3 DEF Exact
  <2>2. Shown(Exact(e)).entry \in {e, NamespaceEntry(e)}
    BY DEF Exact
  <2> HIDE DEF Shown
  <2> QED BY <2>1, <2>2
<1>4. CASE Namespace(e) \in molds[p]
  <2> DEFINE n == Namespace(e).entry
  <2>1. Namespace(e) = Exact(n) /\ n = [dir |-> e.dir, name |-> NamespaceName]
    BY DEF Namespace, Exact
  <2>2. Shown(Namespace(e)) \in MoldList(p)
    BY <1>2, <1>4, <2>1, NameFacts DEF Exact
  <2>3. Shown(Namespace(e)).entry = NamespaceEntry(e)
    BY <2>1 DEF Namespace, Exact, NamespaceEntry
  <2> HIDE DEF Shown
  <2> QED BY <2>2, <2>3
<1> QED BY <1>1, <1>3, <1>4 DEF Covered

(* fslib_mold_query_entries and dp_mold_query agree, as long as every mold *)
(* is written to an entry with a name: a listed mold or namespace can be   *)
(* asked for and is the same there, and what has a mold is listed or in a  *)
(* listed namespace.                                                       *)
THEOREM MoldsListed ==
  ASSUME MoldIds \subseteq Named
  PROVE  Spec => []MoldListAgreesWithQuery
<1>1. Init => MoldFilesNamed
  BY DispatchAssumption DEF DispatchAssumption, Init, MoldFilesNamed
<1>2. Inv /\ MoldFilesNamed /\ [Next]_vars => MoldFilesNamed'
  BY MoldFilesStayNamed
<1>3. Inv /\ MoldFilesNamed => MoldListAgreesWithQuery
  BY ListedAnswered, AnsweredListed DEF Inv, MoldListAgreesWithQuery
<1> QED BY <1>1, <1>2, <1>3, InvHolds, PTL DEF Spec
----------------------------------------------------------------------------
(* What is read of an entry depends on what the plugins of the group       *)
(* answer for it.                                                          *)
LEMMA ReadOfAnswers ==
  ASSUME TypeOK, NEW g, NEW e, UNCHANGED <<libconf, queue>>,
         \A i \in Group(g) : /\ ConfigQuery(queue[i], e)' = ConfigQuery(queue[i], e)
                             /\ ReadFile(queue[i], e)' = ReadFile(queue[i], e)
  PROVE  Read(g, e)' = Read(g, e)
<1>1. Group(g)' = Group(g)
  BY DEF Group
<1>2. ConfigPlugins(g, e)' = ConfigPlugins(g, e)
  BY <1>1 DEF ConfigPlugins
<1>3. ConfigPlugins(g, e) \subseteq Group(g) /\ Group(g) \subseteq Nat
  BY DEF ConfigPlugins, Group, TypeOK
<1>4. CASE ConfigPlugins(g, e) = {}
  BY <1>2, <1>4 DEF Read
<1>5. CASE ConfigPlugins(g, e) # {}
  <2>1. \E i \in ConfigPlugins(g, e) : \A j \in ConfigPlugins(g, e) : i <= j
    BY <1>3, <1>5, Least
  <2>2. PICK m : m = CHOOSE i \in ConfigPlugins(g, e) : \A j \in ConfigPlugins(g, e) : i <= j
    OBVIOUS
  <2>3. m \in ConfigPlugins(g, e)
    BY <2>1, <2>2
  <2>4. FirstOf(ConfigPlugins(g, e)) = queue[m]
    BY <2>2 DEF FirstOf
  <2>5. FirstOf(ConfigPlugins(g, e))' = queue[m]
    BY <1>2, <2>2 DEF FirstOf
  <2>6. Read(g, e) = ReadFile(queue[m], e)
    BY <1>5, <2>4 DEF Read
  <2>7. Read(g, e)' = ReadFile(queue[m], e)'
    BY <1>2, <1>5, <2>5 DEF Read, ReadFile, Has, Kind
  <2> QED BY <1>3, <2>3, <2>6, <2>7
<1> QED BY <1>4, <1>5

(* An answer for an entry changes with the entry's file and the molds that *)
(* cover it.                                                               *)
LEMMA AnswerSame ==
  ASSUME NEW p, NEW e \in ConfigIds, UNCHANGED libconf, configs'[p][e] = configs[p][e],
         Covered(p, e)' = Covered(p, e)
  PROVE  ConfigQuery(p, e)' = ConfigQuery(p, e) /\ ReadFile(p, e)' = ReadFile(p, e)
<1>1. Kind(p)' = Kind(p) /\ \A f : Has(p, f)' <=> Has(p, f)
  BY DEF Kind, Has
<1>2. MoldQuery(p, e)' = MoldQuery(p, e)
  BY <1>1 DEF MoldQuery
<1> QED BY <1>1, <1>2 DEF ConfigQuery, ReadFile

LEMMA ReadChange ==
  ASSUME Inv, Inv', [Next]_vars, ready, ready', NEW g \in Groups, NEW e \in ConfigIds,
         Read(g, e)' # Read(g, e)
  PROVE  \/ \E v \in Values \cup {Broken} : ConfigWrite(g, e, v)
         \/ ConfigRemove(g, e)
         \/ MoldWrite(g, e) \/ MoldWrite(g, Namespace(e).entry)
<1>1. \A i \in Group(g) : queue[i] = i /\ i \in Sections /\ libconf[i].group = g
  BY GroupIsSections
<1>2. ASSUME UNCHANGED <<libconf, queue>>,
             \A p \in Sections : libconf[p].group = g =>
               configs'[p][e] = configs[p][e] /\ Covered(p, e)' = Covered(p, e)
      PROVE  FALSE
  BY <1>1, <1>2, AnswerSame, ReadOfAnswers DEF Inv
<1>3. ASSUME UNCHANGED <<libconf, queue, configs, molds>> PROVE FALSE
  BY <1>2, <1>3 DEF Covered
<1>4. ~Instance
  BY DEF Instance, CreateInstance, CreateFails, DestroyInstance, Inv, QueueIsConfigured
<1>5. ASSUME NEW h \in Groups, NEW d \in ConfigIds, NEW v \in Values \cup {Broken},
             ConfigWrite(h, d, v)
      PROVE  h = g /\ d = e
  <2>1. FirstOf(Group(h)) \in Sections /\ libconf[FirstOf(Group(h))].group = h
    BY <1>5, AcceptedFacts DEF ConfigWrite, Home
  <2>2. /\ configs' = [configs EXCEPT ![FirstOf(Group(h))][d] = v]
        /\ UNCHANGED <<libconf, queue, molds>>
    BY <1>5 DEF ConfigWrite
  <2>3. ASSUME ~(h = g /\ d = e), NEW p \in Sections, libconf[p].group = g
        PROVE  configs'[p][e] = configs[p][e]
    BY <2>1, <2>2, <2>3 DEF Inv, TypeOK
  <2> QED BY <1>2, <2>2, <2>3 DEF Covered
<1>6. ASSUME NEW h \in Groups, NEW d \in ConfigIds, ConfigRemove(h, d)
      PROVE  h = g /\ d = e
  <2>1. FirstOf(Group(h)) \in Sections /\ libconf[FirstOf(Group(h))].group = h
    BY <1>6, AcceptedFacts DEF ConfigRemove, Home
  <2>2. /\ configs' \in {configs, [configs EXCEPT ![FirstOf(Group(h))][d] = None]}
        /\ UNCHANGED <<libconf, queue, molds>>
    BY <1>6 DEF ConfigRemove
  <2>3. ASSUME ~(h = g /\ d = e), NEW p \in Sections, libconf[p].group = g
        PROVE  configs'[p][e] = configs[p][e]
    BY <2>1, <2>2, <2>3 DEF Inv, TypeOK
  <2> QED BY <1>2, <2>2, <2>3 DEF Covered
<1>7. ASSUME NEW h \in Groups, NEW d \in MoldIds, MoldWrite(h, d)
      PROVE  h = g /\ d \in {e, Namespace(e).entry}
  <2>1. FirstOf(Group(h)) \in Sections /\ libconf[FirstOf(Group(h))].group = h
    BY <1>7, AcceptedFacts DEF MoldWrite, Home
  <2>2. /\ molds' = [molds EXCEPT ![FirstOf(Group(h))] = @ \cup {Exact(d)}]
        /\ UNCHANGED <<libconf, queue, configs>>
    BY <1>7 DEF MoldWrite
  <2>3. ASSUME ~(h = g /\ d \in {e, Namespace(e).entry}), NEW p \in Sections,
               libconf[p].group = g
        PROVE  Covered(p, e)' = Covered(p, e)
    <3>1. CASE p # FirstOf(Group(h))
      BY <2>1, <2>2, <3>1 DEF Inv, TypeOK, Covered
    <3>2. CASE p = FirstOf(Group(h))
      <4>1. d # e /\ d # Namespace(e).entry
        BY <2>1, <2>3, <3>2
      <4>2. Exact(d) # Exact(e) /\ Exact(d) # Namespace(e)
        BY <4>1 DEF Exact, Namespace
      <4>3. molds'[p] = molds[p] \cup {Exact(d)}
        BY <2>1, <2>2, <3>2 DEF Inv, TypeOK
      <4> QED BY <4>2, <4>3 DEF Covered
    <3> QED BY <3>1, <3>2
  <2> QED BY <1>2, <2>2, <2>3
<1>8. ASSUME NEW h \in Groups, Write(h)
      PROVE  \/ \E v \in Values \cup {Broken} : ConfigWrite(g, e, v)
             \/ ConfigRemove(g, e)
             \/ MoldWrite(g, e) \/ MoldWrite(g, Namespace(e).entry)
  <2>1. ASSUME NEW d \in ConfigIds, ConfigWriteFails(h, d) PROVE FALSE
    BY <1>3, <2>1 DEF ConfigWriteFails
  <2>2. ASSUME NEW call, NEW function, NEW d, Refuse(call, function, h, d) PROVE FALSE
    BY <1>3, <2>2 DEF Refuse, files
  <2> QED BY <1>5, <1>6, <1>7, <1>8, <2>1, <2>2 DEF Write
<1>9. ASSUME NEW h \in Groups, ListConfigs(h) PROVE FALSE
  BY <1>3, <1>9 DEF ListConfigs
<1>10. ~UNCHANGED vars
  BY <1>3 DEF vars
<1> QED BY <1>4, <1>8, <1>9, <1>10 DEF Next

(* What is read of an entry changes with a write or remove of that entry   *)
(* of that group, or when a mold that covers it is written to the group,   *)
(* and in no other way, while the instance lives.                          *)
THEOREM ReadsChange == Spec => ReadsChangeByTheirCalls
<1>1. Inv /\ Inv' /\ [Next]_vars =>
        [ready /\ ready' =>
           \A g \in Groups, e \in ConfigIds : Read(g, e)' # Read(g, e) =>
             \/ \E v \in Values \cup {Broken} : ConfigWrite(g, e, v)
             \/ ConfigRemove(g, e)
             \/ MoldWrite(g, e) \/ MoldWrite(g, Namespace(e).entry)]_vars
  BY ReadChange
<1> QED BY <1>1, InvHolds, PTL DEF Spec, ReadsChangeByTheirCalls
=============================================================================
