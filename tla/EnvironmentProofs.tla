--------------------------- MODULE EnvironmentProofs ---------------------------
(***************************************************************************)
(* What the environment agent keeps, for every catalog, design, revision   *)
(* and directory and any number of failed writes.  The compiler's part is  *)
(* a lemma about values: a complete design over a catalog compiles to a    *)
(* scenario whose references resolve and agree, once its names differ,     *)
(* unless one of them is derived from a padded name or APN.                *)
(* The tools' part is an invariant that ties the flags, the draft, the     *)
(* paths and the files of the closure to one another (ToolsInv), and the   *)
(* evidence of a request to them (EvidenceInv).                            *)
(***************************************************************************)
EXTENDS EnvironmentAgent, TLAPS

(***************************************************************************)
(* The compiler.                                                           *)
(***************************************************************************)

(* A key of a section stands at one position.                               *)
LEMMA PositionOf ==
    ASSUME NEW keys, NEW k \in Range(keys)
    PROVE  Position(keys, k) \in DOMAIN keys /\ keys[Position(keys, k)] = k
BY DEF Position, Range

LEMMA PositionsDiffer ==
    ASSUME NEW keys, NEW k \in Range(keys), NEW l \in Range(keys),
           Position(keys, k) = Position(keys, l)
    PROVE  k = l
BY PositionOf

(* The fields of what an entity compiles to.                                *)
LEMMA FieldsOfGnb ==
    ASSUME NEW d, NEW g
    PROVE  /\ CompiledGnb(d, g).name = d.gnbs[g].name
           /\ CompiledGnb(d, g).upf = d.upfs[d.gnbs[g].upf]
BY DEF CompiledGnb

LEMMA FieldsOfUe ==
    ASSUME NEW c, NEW d, NEW u
    PROVE  /\ CompiledUe(c, d, u).name = d.ues[u].name
           /\ CompiledUe(c, d, u).supi = Position(c.ues, u)
           /\ CompiledUe(c, d, u).gnb = d.gnbs[d.ues[u].gnb].name
           /\ CompiledUe(c, d, u).target = d.gnbs[d.ues[u].target].name
           /\ CompiledUe(c, d, u).preferred = {d.gnbs[g].name : g \in d.ues[u].preferred}
           /\ CompiledUe(c, d, u).sessions = Sessions(c, d, u)
BY DEF CompiledUe

LEMMA FieldsOfApp ==
    ASSUME NEW c, NEW d, NEW a
    PROVE  /\ CompiledApp(c, d, a).id = Position(c.apps, a)
           /\ CompiledApp(c, d, a).supi = Position(c.ues, d.apps[a].ue)
           /\ CompiledApp(c, d, a).ue = d.ues[d.apps[a].ue].name
           /\ CompiledApp(c, d, a).flows =
                {Position(c.flows, f) : f \in {f \in DOMAIN d.flows : d.flows[f].app = a}}
BY DEF CompiledApp

LEMMA FieldsOfFlow ==
    ASSUME NEW c, NEW d, NEW f
    PROVE  /\ CompiledFlow(c, d, f).id = Position(c.flows, f)
           /\ CompiledFlow(c, d, f).app = Position(c.apps, d.flows[f].app)
           /\ CompiledFlow(c, d, f).supi = Position(c.ues, d.apps[d.flows[f].app].ue)
           /\ CompiledFlow(c, d, f).ue = d.ues[d.apps[d.flows[f].app].ue].name
           /\ CompiledFlow(c, d, f).slice = d.slices[d.flows[f].slice].label
           /\ CompiledFlow(c, d, f).ref = RefOf(c, d, f)
BY DEF CompiledFlow

LEMMA FieldsOfSession ==
    ASSUME NEW c, NEW d, NEW f
    PROVE  /\ SessionOf(c, d, f).app = Position(c.apps, d.flows[f].app)
           /\ SessionOf(c, d, f).slice = d.slices[d.flows[f].slice].label
           /\ SessionOf(c, d, f).apn = d.apps[d.flows[f].app].apn
           /\ SessionOf(c, d, f).ref = RefOf(c, d, f)
<1>1. SessionOf(c, d, f).ref = RefOf(c, d, f) /\ SessionOf(c, d, f).app = RefOf(c, d, f).app
      /\ SessionOf(c, d, f).slice = RefOf(c, d, f).slice /\ SessionOf(c, d, f).apn = RefOf(c, d, f).apn
  BY DEF SessionOf
<1> QED BY <1>1 DEF RefOf, SessionRef

(* A section of the scenario holds what its keys compile to.                *)
LEMMA SectionsCompiled ==
    ASSUME NEW c, NEW d
    PROVE  /\ \A x : x \in Range(Compile(c, d).slices) <=> \E k \in Range(c.slices) : x = d.slices[k]
           /\ \A x : x \in Range(Compile(c, d).upfs) <=> \E k \in Range(c.upfs) : x = d.upfs[k]
           /\ \A x : x \in Range(Compile(c, d).gnbs) <=> \E k \in Range(c.gnbs) : x = CompiledGnb(d, k)
           /\ \A x : x \in Range(Compile(c, d).ues) <=> \E k \in Range(c.ues) : x = CompiledUe(c, d, k)
           /\ \A x : x \in Range(Compile(c, d).apps) <=> \E k \in Range(c.apps) : x = CompiledApp(c, d, k)
           /\ \A x : x \in Range(Compile(c, d).flows) <=> \E k \in Range(c.flows) : x = CompiledFlow(c, d, k)
<1>1. \A x : x \in Range(Compile(c, d).slices) <=> \E k \in Range(c.slices) : x = d.slices[k]
  BY DEF Compile, Range
<1>2. \A x : x \in Range(Compile(c, d).upfs) <=> \E k \in Range(c.upfs) : x = d.upfs[k]
  BY DEF Compile, Range
<1>3. \A x : x \in Range(Compile(c, d).gnbs) <=> \E k \in Range(c.gnbs) : x = CompiledGnb(d, k)
  BY DEF Compile, Range
<1>4. \A x : x \in Range(Compile(c, d).ues) <=> \E k \in Range(c.ues) : x = CompiledUe(c, d, k)
  BY DEF Compile, Range
<1>5. \A x : x \in Range(Compile(c, d).apps) <=> \E k \in Range(c.apps) : x = CompiledApp(c, d, k)
  BY DEF Compile, Range
<1>6. \A x : x \in Range(Compile(c, d).flows) <=> \E k \in Range(c.flows) : x = CompiledFlow(c, d, k)
  BY DEF Compile, Range
<1> QED BY <1>1, <1>2, <1>3, <1>4, <1>5, <1>6

(* A UE of the scenario is what some key compiles to.                       *)
LEMMA UeOfKey ==
    ASSUME NEW c, NEW d, NEW u \in Range(Compile(c, d).ues)
    PROVE  \E k \in Range(c.ues) : u = CompiledUe(c, d, k)
BY SectionsCompiled

(* The names and identifiers the validator finds.                           *)
LEMMA NamesCompiled ==
    ASSUME NEW c, NEW d
    PROVE  /\ \A k \in Range(c.slices) : d.slices[k].label \in Labels(Compile(c, d))
           /\ \A k \in Range(c.upfs) : Strip(d.upfs[k]) \in UpfNames(Compile(c, d))
           /\ \A k \in Range(c.gnbs) : Strip(d.gnbs[k].name) \in GnbNames(Compile(c, d))
           /\ \A k \in Range(c.ues) : Strip(d.ues[k].name) \in UeNames(Compile(c, d))
           /\ \A k \in Range(c.ues) : Position(c.ues, k) \in Supis(Compile(c, d))
           /\ \A k \in Range(c.apps) : Position(c.apps, k) \in AppIds(Compile(c, d))
           /\ \A k \in Range(c.flows) : Position(c.flows, k) \in FlowIds(Compile(c, d))
<1> DEFINE s == Compile(c, d)
<1>1. /\ \A x : x \in Range(s.slices) <=> \E k \in Range(c.slices) : x = d.slices[k]
      /\ \A x : x \in Range(s.upfs) <=> \E k \in Range(c.upfs) : x = d.upfs[k]
      /\ \A x : x \in Range(s.gnbs) <=> \E k \in Range(c.gnbs) : x = CompiledGnb(d, k)
      /\ \A x : x \in Range(s.ues) <=> \E k \in Range(c.ues) : x = CompiledUe(c, d, k)
      /\ \A x : x \in Range(s.apps) <=> \E k \in Range(c.apps) : x = CompiledApp(c, d, k)
      /\ \A x : x \in Range(s.flows) <=> \E k \in Range(c.flows) : x = CompiledFlow(c, d, k)
  BY SectionsCompiled
<1> HIDE DEF s
<1>2. \A k \in Range(c.slices) : d.slices[k].label \in Labels(s)
  BY <1>1 DEF Labels
<1>3. \A k \in Range(c.upfs) : Strip(d.upfs[k]) \in UpfNames(s)
  BY <1>1 DEF UpfNames
<1>4. \A k \in Range(c.gnbs) : Strip(d.gnbs[k].name) \in GnbNames(s)
  BY <1>1, FieldsOfGnb DEF GnbNames
<1>5. \A k \in Range(c.ues) : Strip(d.ues[k].name) \in UeNames(s)
  BY <1>1, FieldsOfUe DEF UeNames
<1>6. \A k \in Range(c.ues) : Position(c.ues, k) \in Supis(s)
  BY <1>1, FieldsOfUe DEF Supis
<1>7. \A k \in Range(c.apps) : Position(c.apps, k) \in AppIds(s)
  BY <1>1, FieldsOfApp DEF AppIds
<1>8. \A k \in Range(c.flows) : Position(c.flows, k) \in FlowIds(s)
  BY <1>1, FieldsOfFlow DEF FlowIds
<1> QED BY <1>2, <1>3, <1>4, <1>5, <1>6, <1>7, <1>8 DEF s

(* Where the validator finds names distinct, so are those of the keys.      *)
LEMMA NamesDiffer ==
    ASSUME NEW c, NEW d, Distinct(Compile(c, d))
    PROVE  /\ \A k, l \in Range(c.gnbs) : Strip(d.gnbs[k].name) = Strip(d.gnbs[l].name) => k = l
           /\ \A k, l \in Range(c.ues) : Strip(d.ues[k].name) = Strip(d.ues[l].name) => k = l
<1>1. ASSUME NEW k \in Range(c.gnbs), NEW l \in Range(c.gnbs),
             Strip(d.gnbs[k].name) = Strip(d.gnbs[l].name)
      PROVE  k = l
  <2>1. PICK i \in DOMAIN c.gnbs, j \in DOMAIN c.gnbs : k = c.gnbs[i] /\ l = c.gnbs[j]
    BY DEF Range
  <2>2. Compile(c, d).gnbs = [n \in DOMAIN c.gnbs |-> CompiledGnb(d, c.gnbs[n])]
    BY DEF Compile
  <2>3. Strip(Compile(c, d).gnbs[i].name) = Strip(Compile(c, d).gnbs[j].name)
    BY <1>1, <2>1, <2>2, FieldsOfGnb
  <2>4. \A a, b \in DOMAIN Compile(c, d).gnbs :
            Strip(Compile(c, d).gnbs[a].name) = Strip(Compile(c, d).gnbs[b].name) => a = b
    BY DEF Distinct, DistinctBy
  <2> QED BY <2>1, <2>2, <2>3, <2>4
<1>2. ASSUME NEW k \in Range(c.ues), NEW l \in Range(c.ues),
             Strip(d.ues[k].name) = Strip(d.ues[l].name)
      PROVE  k = l
  <2>1. PICK i \in DOMAIN c.ues, j \in DOMAIN c.ues : k = c.ues[i] /\ l = c.ues[j]
    BY DEF Range
  <2>2. Compile(c, d).ues = [n \in DOMAIN c.ues |-> CompiledUe(c, d, c.ues[n])]
    BY DEF Compile
  <2>3. Strip(Compile(c, d).ues[i].name) = Strip(Compile(c, d).ues[j].name)
    BY <1>2, <2>1, <2>2, FieldsOfUe
  <2>4. \A a, b \in DOMAIN Compile(c, d).ues :
            Strip(Compile(c, d).ues[a].name) = Strip(Compile(c, d).ues[b].name) => a = b
    BY DEF Distinct, DistinctBy
  <2> QED BY <2>1, <2>2, <2>3, <2>4
<1> QED BY <1>1, <1>2

(* A complete design, read key by key.                                      *)
LEMMA DesignReferences ==
    ASSUME NEW c, NEW d, Complete(c, d)
    PROVE  /\ DOMAIN d.flows = Range(c.flows) /\ DOMAIN d.apps = Range(c.apps)
           /\ \A f \in Range(c.flows) :
                /\ d.flows[f].app \in Range(c.apps)
                /\ d.apps[d.flows[f].app].ue \in Range(c.ues)
                /\ d.ues[d.apps[d.flows[f].app].ue].gnb \in Range(c.gnbs)
                /\ d.flows[f].slice \in Range(c.slices)
<1>1. DOMAIN d["flows"] = Range(c["flows"]) /\ DOMAIN d["apps"] = Range(c["apps"])
  BY DEF Complete, Sections
<1> QED BY <1>1 DEF Complete

LEMMA GnbsOfCompiled ==
    ASSUME NEW c, NEW d, Complete(c, d)
    PROVE  GnbsResolve(Compile(c, d))
<1> SUFFICES ASSUME NEW k \in Range(c.gnbs)
             PROVE  /\ Range(CompiledGnb(d, k).slices) \subseteq Labels(Compile(c, d))
                    /\ Strip(CompiledGnb(d, k).upf) \in UpfNames(Compile(c, d))
  BY SectionsCompiled DEF GnbsResolve
<1>1. Range(d.gnbs[k].served) \subseteq Range(c.slices) /\ d.gnbs[k].upf \in Range(c.upfs)
  BY DEF Complete
<1>2. Strip(CompiledGnb(d, k).upf) \in UpfNames(Compile(c, d))
  BY <1>1, NamesCompiled, FieldsOfGnb
<1>3. ASSUME NEW n \in DOMAIN d.gnbs[k].served
      PROVE  d.slices[d.gnbs[k].served[n]].label \in Labels(Compile(c, d))
  BY <1>1, NamesCompiled DEF Range
<1>4. Range(CompiledGnb(d, k).slices) =
          {d.slices[d.gnbs[k].served[n]].label : n \in DOMAIN d.gnbs[k].served}
  BY DEF CompiledGnb, Range
<1> QED BY <1>2, <1>3, <1>4

(* What a flow of a complete design refers to is there.                     *)
LEMMA FlowRefersTo ==
    ASSUME NEW c, NEW d, Complete(c, d), NEW f \in Range(c.flows)
    PROVE  /\ Position(c.apps, d.flows[f].app) \in AppIds(Compile(c, d))
           /\ d.slices[d.flows[f].slice].label \in Labels(Compile(c, d))
           /\ Strip(d.ues[d.apps[d.flows[f].app].ue].name) \in UeNames(Compile(c, d))
           /\ Position(c.ues, d.apps[d.flows[f].app].ue) \in Supis(Compile(c, d))
           /\ Position(c.flows, f) \in FlowIds(Compile(c, d))
BY DesignReferences, NamesCompiled

(* The sessions of a UE are those of its flows.                             *)
LEMMA SessionsOf ==
    ASSUME NEW c, NEW d, Complete(c, d), NEW u
    PROVE  \A n : n \in Sessions(c, d, u) <=>
                \E f \in Range(c.flows) : d.apps[d.flows[f].app].ue = u /\ n = SessionOf(c, d, f)
<1>1. DOMAIN d.flows = Range(c.flows)
  BY DesignReferences
<1> QED BY <1>1 DEF Sessions

(* A gNB that has the name of a UE's gNB is that gNB, and a complete design *)
(* has it serve the slices of the UE's flows.                               *)
LEMMA ServedWhereAttached ==
    ASSUME NEW c, NEW d, Complete(c, d), Distinct(Compile(c, d)),
           NEW f \in Range(c.flows), NEW g \in Range(c.gnbs),
           Strip(d.gnbs[g].name) = Strip(d.gnbs[d.ues[d.apps[d.flows[f].app].ue].gnb].name)
    PROVE  d.slices[d.flows[f].slice].label \in Range(CompiledGnb(d, g).slices)
<1>1. d.ues[d.apps[d.flows[f].app].ue].gnb \in Range(c.gnbs)
  BY DesignReferences
<1>2. g = d.ues[d.apps[d.flows[f].app].ue].gnb
  BY <1>1, NamesDiffer
<1>3. d.flows[f].slice \in Range(d.gnbs[g].served)
  BY <1>2 DEF Complete
<1>4. PICK n \in DOMAIN d.gnbs[g].served : d.flows[f].slice = d.gnbs[g].served[n]
  BY <1>3 DEF Range
<1>5. CompiledGnb(d, g).slices = [i \in DOMAIN d.gnbs[g].served |-> d.slices[d.gnbs[g].served[i]].label]
  BY DEF CompiledGnb
<1> QED BY <1>4, <1>5 DEF Range

(* The names of the gNBs a UE of the scenario prefers are those of gNBs of  *)
(* the catalog.                                                             *)
LEMMA PreferredOfUe ==
    ASSUME NEW c, NEW d, Complete(c, d), NEW k \in Range(c.ues)
    PROVE  /\ \A word \in CompiledUe(c, d, k).preferred :
                \E g \in Range(c.gnbs) : word = d.gnbs[g].name
           /\ Strip(CompiledUe(c, d, k).gnb) \in GnbNames(Compile(c, d))
           /\ Strip(CompiledUe(c, d, k).target) \in GnbNames(Compile(c, d))
<1>1. /\ d.ues[k].gnb \in Range(c.gnbs) /\ d.ues[k].target \in Range(c.gnbs)
      /\ d.ues[k].preferred \subseteq Range(c.gnbs)
  BY DEF Complete
<1>2. /\ Strip(CompiledUe(c, d, k).gnb) \in GnbNames(Compile(c, d))
      /\ Strip(CompiledUe(c, d, k).target) \in GnbNames(Compile(c, d))
  BY <1>1, NamesCompiled, FieldsOfUe
<1>3. \A word \in CompiledUe(c, d, k).preferred :
          \E g \in Range(c.gnbs) : word = d.gnbs[g].name
  BY <1>1, FieldsOfUe
<1> QED BY <1>2, <1>3

(* A word is found among stripped ones as it is written where, and only     *)
(* where, it has no padding.                                                *)
LEMMA PreferredResolve ==
    ASSUME NEW c, NEW d, Complete(c, d), NEW k \in Range(c.ues)
    PROVE  CompiledUe(c, d, k).preferred \subseteq GnbNames(Compile(c, d)) <=>
                \A word \in CompiledUe(c, d, k).preferred : word = Strip(word)
<1> DEFINE s == Compile(c, d)
<1>1. ASSUME NEW word \in CompiledUe(c, d, k).preferred, word \in GnbNames(s)
      PROVE  word = Strip(word)
  BY <1>1 DEF GnbNames, Strip
<1>2. ASSUME NEW word \in CompiledUe(c, d, k).preferred, word = Strip(word)
      PROVE  word \in GnbNames(s)
  BY <1>2, PreferredOfUe, NamesCompiled
<1> QED BY <1>1, <1>2

(* The sessions of a UE resolve.                                            *)
LEMMA SessionsResolve ==
    ASSUME NEW c, NEW d, Complete(c, d), Distinct(Compile(c, d)),
           NEW k \in Range(c.ues), NEW n \in CompiledUe(c, d, k).sessions
    PROVE  /\ n.slice \in Labels(Compile(c, d)) /\ n.app \in AppIds(Compile(c, d))
           /\ \A g \in Range(Compile(c, d).gnbs) :
                Strip(g.name) = Strip(CompiledUe(c, d, k).gnb) => n.slice \in Range(g.slices)
<1>1. PICK f \in Range(c.flows) : d.apps[d.flows[f].app].ue = k /\ n = SessionOf(c, d, f)
  BY SessionsOf, FieldsOfUe
<1>2. n.slice \in Labels(Compile(c, d)) /\ n.app \in AppIds(Compile(c, d))
  BY <1>1, FieldsOfSession, FlowRefersTo
<1>3. ASSUME NEW g \in Range(Compile(c, d).gnbs), Strip(g.name) = Strip(CompiledUe(c, d, k).gnb)
      PROVE  n.slice \in Range(g.slices)
  <2>1. PICK e \in Range(c.gnbs) : g = CompiledGnb(d, e)
    BY SectionsCompiled
  <2>2. Strip(d.gnbs[e].name) = Strip(d.gnbs[d.ues[d.apps[d.flows[f].app].ue].gnb].name)
    BY <1>1, <1>3, <2>1, FieldsOfGnb, FieldsOfUe
  <2>3. d.slices[d.flows[f].slice].label \in Range(CompiledGnb(d, e).slices)
    BY <2>2, ServedWhereAttached
  <2> QED BY <1>1, <2>1, <2>3, FieldsOfSession
<1> QED BY <1>2, <1>3

LEMMA UesOfCompiled ==
    ASSUME NEW c, NEW d, Complete(c, d), Distinct(Compile(c, d))
    PROVE  UesResolve(Compile(c, d)) <=>
                \A u \in Range(Compile(c, d).ues) : \A word \in u.preferred : word = Strip(word)
<1> DEFINE s == Compile(c, d)
           PreferredFound == \A u \in Range(s.ues) : u.preferred \subseteq GnbNames(s)
<1>1. PreferredFound <=> \A u \in Range(s.ues) : \A word \in u.preferred : word = Strip(word)
  BY UeOfKey, PreferredResolve
<1>2. ASSUME NEW u \in Range(s.ues)
      PROVE  /\ Strip(u.gnb) \in GnbNames(s) /\ Strip(u.target) \in GnbNames(s)
             /\ \A n \in u.sessions :
                 /\ n.slice \in Labels(s) /\ n.app \in AppIds(s)
                 /\ \A g \in Range(s.gnbs) : Strip(g.name) = Strip(u.gnb) => n.slice \in Range(g.slices)
  <2>1. PICK k \in Range(c.ues) : u = CompiledUe(c, d, k)
    BY UeOfKey
  <2> QED BY <2>1, PreferredOfUe, SessionsResolve
<1>3. UesResolve(s) <=> PreferredFound
  <2> HIDE DEF s
  <2> QED BY <1>2 DEF UesResolve
<1> QED BY <1>1, <1>3

LEMMA AppsOfCompiled ==
    ASSUME NEW c, NEW d, Complete(c, d)
    PROVE  AppsResolve(Compile(c, d))
<1> DEFINE s == Compile(c, d)
<1>1. ASSUME NEW k \in Range(c.apps)
      PROVE  /\ Strip(CompiledApp(c, d, k).ue) \in UeNames(s) /\ CompiledApp(c, d, k).supi \in Supis(s)
             /\ CompiledApp(c, d, k).flows \subseteq FlowIds(s)
  <2>1. d.apps[k].ue \in Range(c.ues)
    BY DEF Complete
  <2>2. Strip(d.ues[d.apps[k].ue].name) \in UeNames(s) /\ Position(c.ues, d.apps[k].ue) \in Supis(s)
    BY <2>1, NamesCompiled
  <2>3. \A f \in DOMAIN d.flows : Position(c.flows, f) \in FlowIds(s)
    BY DesignReferences, FlowRefersTo
  <2> HIDE DEF s
  <2>4. CompiledApp(c, d, k).flows \subseteq FlowIds(s)
    BY <2>3, FieldsOfApp
  <2> QED BY <2>2, <2>4, FieldsOfApp
<1>2. \A a \in Range(s.apps) : \E k \in Range(c.apps) : a = CompiledApp(c, d, k)
  BY SectionsCompiled
<1> HIDE DEF s
<1>3. AppsResolve(s)
  BY <1>1, <1>2 DEF AppsResolve
<1> QED BY <1>3 DEF s

LEMMA FlowsOfCompiled ==
    ASSUME NEW c, NEW d, Complete(c, d)
    PROVE  FlowsResolve(Compile(c, d))
<1> DEFINE s == Compile(c, d)
<1>1. ASSUME NEW k \in Range(c.flows)
      PROVE  /\ CompiledFlow(c, d, k).app \in AppIds(s) /\ CompiledFlow(c, d, k).slice \in Labels(s)
             /\ Strip(CompiledFlow(c, d, k).ue) \in UeNames(s) /\ CompiledFlow(c, d, k).supi \in Supis(s)
  BY FieldsOfFlow, FlowRefersTo
<1>2. \A f \in Range(s.flows) : \E k \in Range(c.flows) : f = CompiledFlow(c, d, k)
  BY SectionsCompiled
<1> HIDE DEF s
<1>3. FlowsResolve(s)
  BY <1>1, <1>2 DEF FlowsResolve
<1> QED BY <1>3 DEF s

(***************************************************************************)
(* Flow, app, UE and session of a compiled scenario agree.                 *)
(***************************************************************************)

(* The app a flow names is the one it was compiled for.                     *)
LEMMA AppOfFlow ==
    ASSUME NEW c, NEW d, Complete(c, d), NEW f \in Range(c.flows), NEW a \in Range(c.apps),
           CompiledApp(c, d, a).id = CompiledFlow(c, d, f).app
    PROVE  a = d.flows[f].app
<1>1. d.flows[f].app \in Range(c.apps)
  BY DesignReferences
<1>2. Position(c.apps, a) = Position(c.apps, d.flows[f].app)
  BY FieldsOfApp, FieldsOfFlow
<1> QED BY <1>1, <1>2, PositionsDiffer

(* The UE of a name is the one whose name it is.                            *)
LEMMA UeOfName ==
    ASSUME NEW c, NEW d, Distinct(Compile(c, d)), NEW k \in Range(c.ues), NEW u \in Range(c.ues),
           Strip(CompiledUe(c, d, u).name) = Strip(d.ues[k].name)
    PROVE  u = k
BY NamesDiffer, FieldsOfUe

LEMMA FlowAgrees ==
    ASSUME NEW c, NEW d, Complete(c, d), Distinct(Compile(c, d)), NEW f \in Range(Compile(c, d).flows)
    PROVE  /\ \A a \in Range(Compile(c, d).apps) :
                a.id = f.app => Strip(a.ue) = Strip(f.ue) /\ a.supi = f.supi
           /\ \A u \in Range(Compile(c, d).ues) : Strip(u.name) = Strip(f.ue) =>
                /\ u.supi = f.supi
                /\ \E n \in u.sessions :
                    n.app = f.app /\ n.slice = f.slice /\ StripRef(n.ref) = StripRef(f.ref)
<1>1. PICK k \in Range(c.flows) : f = CompiledFlow(c, d, k)
  BY SectionsCompiled
<1>2. ASSUME NEW a \in Range(Compile(c, d).apps), a.id = f.app
      PROVE  Strip(a.ue) = Strip(f.ue) /\ a.supi = f.supi
  <2>1. PICK e \in Range(c.apps) : a = CompiledApp(c, d, e)
    BY SectionsCompiled
  <2>2. e = d.flows[k].app
    BY <1>1, <1>2, <2>1, AppOfFlow
  <2> QED BY <1>1, <2>1, <2>2, FieldsOfApp, FieldsOfFlow
<1>3. ASSUME NEW u \in Range(Compile(c, d).ues), Strip(u.name) = Strip(f.ue)
      PROVE  /\ u.supi = f.supi
             /\ \E n \in u.sessions :
                 n.app = f.app /\ n.slice = f.slice /\ StripRef(n.ref) = StripRef(f.ref)
  <2>1. PICK e \in Range(c.ues) : u = CompiledUe(c, d, e)
    BY SectionsCompiled
  <2>2. d.apps[d.flows[k].app].ue \in Range(c.ues)
    BY DesignReferences
  <2>3. Strip(CompiledUe(c, d, e).name) = Strip(d.ues[d.apps[d.flows[k].app].ue].name)
    BY <1>1, <1>3, <2>1, FieldsOfFlow
  <2>4. e = d.apps[d.flows[k].app].ue
    BY <2>2, <2>3, UeOfName
  <2>5. u.supi = f.supi
    <3>1. u.supi = Position(c.ues, e)
      BY <2>1, FieldsOfUe
    <3>2. f.supi = Position(c.ues, d.apps[d.flows[k].app].ue)
      BY <1>1, FieldsOfFlow
    <3> QED BY <2>4, <3>1, <3>2
  <2>6. SessionOf(c, d, k) \in u.sessions
    <3>1. u.sessions = Sessions(c, d, e)
      BY <2>1, FieldsOfUe
    <3>2. SessionOf(c, d, k) \in Sessions(c, d, e)
      BY <2>4, SessionsOf
    <3> QED BY <3>1, <3>2
  <2>7. /\ SessionOf(c, d, k).app = f.app /\ SessionOf(c, d, k).slice = f.slice
        /\ SessionOf(c, d, k).ref = f.ref
    BY <1>1, FieldsOfSession, FieldsOfFlow
  <2> QED BY <2>5, <2>6, <2>7
<1> QED BY <1>2, <1>3

LEMMA AppAgrees ==
    ASSUME NEW c, NEW d, Complete(c, d), Distinct(Compile(c, d)), NEW a \in Range(Compile(c, d).apps)
    PROVE  /\ \A u \in Range(Compile(c, d).ues) : Strip(u.name) = Strip(a.ue) => u.supi = a.supi
           /\ a.flows = {f.id : f \in {f \in Range(Compile(c, d).flows) : f.app = a.id}}
<1>1. PICK k \in Range(c.apps) : a = CompiledApp(c, d, k)
  BY SectionsCompiled
<1>2. ASSUME NEW u \in Range(Compile(c, d).ues), Strip(u.name) = Strip(a.ue)
      PROVE  u.supi = a.supi
  <2>1. PICK e \in Range(c.ues) : u = CompiledUe(c, d, e)
    BY SectionsCompiled
  <2>2. d.apps[k].ue \in Range(c.ues)
    BY DEF Complete
  <2>3. e = d.apps[k].ue
    BY <1>1, <1>2, <2>1, <2>2, UeOfName, FieldsOfApp
  <2> QED BY <1>1, <2>1, <2>3, FieldsOfApp, FieldsOfUe
<1>3. DOMAIN d.flows = Range(c.flows)
  BY DesignReferences
<1>4. \A x : x \in a.flows <=> \E f \in Range(c.flows) : d.flows[f].app = k /\ x = Position(c.flows, f)
  BY <1>1, <1>3, FieldsOfApp
<1>5. ASSUME NEW f \in Range(c.flows)
      PROVE  CompiledFlow(c, d, f).app = a.id <=> d.flows[f].app = k
  BY <1>1, AppOfFlow, FieldsOfApp, FieldsOfFlow
<1>6. \A x : x \in {f.id : f \in {f \in Range(Compile(c, d).flows) : f.app = a.id}} <=>
                \E f \in Range(c.flows) : CompiledFlow(c, d, f).app = a.id /\ x = CompiledFlow(c, d, f).id
  BY SectionsCompiled
<1>7. a.flows = {f.id : f \in {f \in Range(Compile(c, d).flows) : f.app = a.id}}
  <2>1. \A f \in Range(c.flows) : CompiledFlow(c, d, f).id = Position(c.flows, f)
    BY FieldsOfFlow
  <2>2. a.flows = {Position(c.flows, f) : f \in {f \in DOMAIN d.flows : d.flows[f].app = k}}
    BY <1>1, FieldsOfApp
  <2>3. \A x : x \in a.flows <=> x \in {f.id : f \in {f \in Range(Compile(c, d).flows) : f.app = a.id}}
    BY <1>4, <1>5, <1>6, <2>1
  <2> QED BY <2>2, <2>3
<1> QED BY <1>2, <1>7

(* The reference of a session, stripped, is the one made of its stripped    *)
(* parts where, and only where, its APN has no padding in front.            *)
LEMMA SessionAgrees ==
    ASSUME NEW c, NEW d, Complete(c, d), NEW u \in Range(Compile(c, d).ues), NEW n \in u.sessions
    PROVE  StripRef(n.ref) = SessionRef(u.supi, n.app, n.slice, Strip(n.apn)) <=>
                StripBack(n.apn) = Strip(n.apn)
<1>1. PICK k \in Range(c.ues) : u = CompiledUe(c, d, k)
  BY UeOfKey
<1>2. PICK f \in Range(c.flows) : d.apps[d.flows[f].app].ue = k /\ n = SessionOf(c, d, f)
  BY <1>1, SessionsOf, FieldsOfUe
<1>3. n.ref = SessionRef(Position(c.ues, d.apps[d.flows[f].app].ue), Position(c.apps, d.flows[f].app),
                         d.slices[d.flows[f].slice].label, d.apps[d.flows[f].app].apn)
  BY <1>2, FieldsOfSession DEF RefOf
<1>4. n.ref = SessionRef(u.supi, n.app, n.slice, n.apn)
  BY <1>1, <1>2, <1>3, FieldsOfUe, FieldsOfSession
<1>5. StripRef(n.ref) = SessionRef(u.supi, n.app, n.slice, StripBack(n.apn))
  BY <1>4 DEF StripRef, SessionRef
<1> QED BY <1>5 DEF SessionRef

LEMMA SessionsAgree ==
    ASSUME NEW c, NEW d, Complete(c, d), Distinct(Compile(c, d))
    PROVE  Consistent(Compile(c, d)) <=>
                \A u \in Range(Compile(c, d).ues) : \A n \in u.sessions : StripBack(n.apn) = Strip(n.apn)
<1> DEFINE s == Compile(c, d)
           RefsAgree == \A u \in Range(s.ues) : \A n \in u.sessions :
                            StripRef(n.ref) = SessionRef(u.supi, n.app, n.slice, Strip(n.apn))
<1>1. Consistent(s) <=> RefsAgree
  <2>1. Consistent(s) => RefsAgree
    BY DEF Consistent
  <2>2. RefsAgree => Consistent(s)
    BY FlowAgrees, AppAgrees DEF Consistent
  <2> QED BY <2>1, <2>2
<1>2. RefsAgree <=> \A u \in Range(s.ues) : \A n \in u.sessions : StripBack(n.apn) = Strip(n.apn)
  BY SessionAgrees
<1> QED BY <1>1, <1>2

(* What the compiler derives is what a scenario is refused for only where   *)
(* it is derived from padded words.                                         *)
LEMMA CompiledResolves ==
    ASSUME NEW c, NEW d, Complete(c, d), Distinct(Compile(c, d))
    PROVE  Resolves(Compile(c, d)) /\ Consistent(Compile(c, d)) <=> ~ PaddedReference(Compile(c, d))
<1> DEFINE s == Compile(c, d)
<1>1. Resolves(s) <=> UesResolve(s)
  BY GnbsOfCompiled, AppsOfCompiled, FlowsOfCompiled DEF Resolves
<1>2. UesResolve(s) <=> \A u \in Range(s.ues) : \A word \in u.preferred : word = Strip(word)
  BY UesOfCompiled
<1>3. Consistent(s) <=> \A u \in Range(s.ues) : \A n \in u.sessions : StripBack(n.apn) = Strip(n.apn)
  BY SessionsAgree
<1> HIDE DEF s
<1>4. Resolves(s) /\ Consistent(s) <=> ~ PaddedReference(s)
  BY <1>1, <1>2, <1>3 DEF PaddedReference
<1> QED BY <1>4 DEF s

(***************************************************************************)
(* The tools.                                                              *)
(***************************************************************************)

(* An output the draft was written to is the one that is owned, and what is *)
(* owned this process has written.                                          *)
PathsOk ==
    /\ writtenTo \in Outputs \cup {NoFile}
    /\ writtenTo # NoFile => owned = writtenTo
    /\ owned # NoFile => {BasePath(owned), OverlayPath(owned), ReportPath(owned)} \subseteq mine

(* A draft is what some complete design compiled to.                        *)
DraftOk ==
    draft # None => \E c, d : Complete(c, d) /\ draft = Compile(c, d)

(* There is no design without a catalog, and the flag says that draft and   *)
(* report are those of the last design.                                     *)
CompiledOk ==
    /\ design # None => catalog # None
    /\ compiled =>
        /\ catalog # None
        /\ Complete(catalog, design) /\ Valid(draft)
        /\ draft = Compile(catalog, design)
        /\ report = <<catalog, design>>

(* The overlay where the draft was written is the one written with f.       *)
WrittenWith(f) ==
    /\ OverlayPath(f) = OverlayPath(writtenTo)
    /\ Holds(OverlayPath(f), Overlay(draft, f))
    /\ Holds(BasePath(f), Base(draft))

WrittenOk ==
    compiled /\ writtenTo # NoFile =>
        /\ ReportPath(writtenTo) \in DOMAIN disk
        /\ disk[ReportPath(writtenTo)] = report
        /\ \E f \in Outputs : WrittenWith(f)

ToolsInv == PathsOk /\ DraftOk /\ CompiledOk /\ WrittenOk

(* The evidence of a request is about the files of its last write, which    *)
(* are whole, and about the draft until another design is compiled.         *)
WrittenLast(scenario) ==
    /\ disk[BasePath(lastWrite)] = Base(scenario)
    /\ disk[OverlayPath(lastWrite)] = Overlay(scenario, lastWrite)
    /\ ~ fresh \/ writtenTo # NoFile => scenario = draft

EvidenceInv ==
    /\ epc = "working" => answer = None
    /\ lastWrite # NoFile => \E scenario : WrittenLast(scenario)
    /\ simulated /\ ~ fresh => tested = [base |-> draft, overlay |-> draft]

EnvInv == ToolsInv /\ EvidenceInv /\ AnswerIsOneDesign

LEMMA InitTools == EnvInit => EnvInv
BY DEF EnvInit, EnvInv, ToolsInv, PathsOk, DraftOk, CompiledOk, WrittenOk, EvidenceInv, AnswerIsOneDesign

(* The files of an output are four.                                         *)
LEMMA PathsDiffer ==
    ASSUME NEW f \in Outputs
    PROVE  /\ BasePath(f) # GraphPath(f) /\ BasePath(f) # OverlayPath(f) /\ BasePath(f) # ReportPath(f)
           /\ GraphPath(f) # OverlayPath(f) /\ GraphPath(f) # ReportPath(f)
           /\ OverlayPath(f) # ReportPath(f)
<1>1. f[2] \in Dirs
  BY DEF Outputs
<1>2. f[2] # Graphs[f[2]] /\ f[2] # SplitMode[f[2]] /\ Graphs[f[2]] # SplitMode[f[2]]
  BY <1>1, EnvironmentAssumption
<1> QED BY <1>2 DEF BasePath, GraphPath, OverlayPath, ReportPath

LEMMA ContentIs ==
    ASSUME NEW f \in Outputs
    PROVE  /\ Content(f, BasePath(f)) = Base(draft)
           /\ Content(f, GraphPath(f)) = Graph(draft)
           /\ Content(f, OverlayPath(f)) = Overlay(draft, f)
           /\ Content(f, ReportPath(f)) = report
BY PathsDiffer DEF Content

Dumped(f, n) == {PathsOf(f)[k] : k \in 1 .. n}

LEMMA DumpedAre ==
    ASSUME NEW f \in Outputs, NEW n \in 0 .. 4
    PROVE  /\ \A p \in Dumped(f, n) : p \in {BasePath(f), GraphPath(f), OverlayPath(f), ReportPath(f)}
           /\ n >= 1 => BasePath(f) \in Dumped(f, n)
           /\ OverlayPath(f) \in Dumped(f, n) => n >= 3
           /\ n >= 3 => OverlayPath(f) \in Dumped(f, n)
           /\ ReportPath(f) \in Dumped(f, n) => n = 4
           /\ n = 4 => ReportPath(f) \in Dumped(f, n)
<1>1. /\ PathsOf(f)[1] = BasePath(f) /\ PathsOf(f)[2] = GraphPath(f)
      /\ PathsOf(f)[3] = OverlayPath(f) /\ PathsOf(f)[4] = ReportPath(f)
  BY DEF PathsOf
<1>2. \A k \in 1 .. n : k = 1 \/ k = 2 \/ k = 3 \/ k = 4
  OBVIOUS
<1>3. \A p \in Dumped(f, n) : p \in {BasePath(f), GraphPath(f), OverlayPath(f), ReportPath(f)}
  BY <1>1, <1>2 DEF Dumped
<1>4. /\ n >= 1 => 1 \in 1 .. n
      /\ n >= 3 => 3 \in 1 .. n
      /\ n = 4 => 4 \in 1 .. n
  OBVIOUS
<1>5. /\ n >= 1 => BasePath(f) \in Dumped(f, n)
      /\ n >= 3 => OverlayPath(f) \in Dumped(f, n)
      /\ n = 4 => ReportPath(f) \in Dumped(f, n)
  BY <1>1, <1>4 DEF Dumped
<1>6. ASSUME OverlayPath(f) \in Dumped(f, n)
      PROVE  n >= 3
  <2>1. PICK k \in 1 .. n : PathsOf(f)[k] = OverlayPath(f)
    BY <1>6 DEF Dumped
  <2>2. k # 1 /\ k # 2
    BY <1>1, <2>1, PathsDiffer
  <2> QED BY <2>2
<1>7. ASSUME ReportPath(f) \in Dumped(f, n)
      PROVE  n = 4
  <2>1. PICK k \in 1 .. n : PathsOf(f)[k] = ReportPath(f)
    BY <1>7 DEF Dumped
  <2>2. k # 1 /\ k # 2 /\ k # 3
    BY <1>1, <2>1, PathsDiffer
  <2> QED BY <2>2
<1> QED BY <1>3, <1>5, <1>6, <1>7

(* What a write, whole or not, does to the disk.                            *)
LEMMA DumpDisk ==
    ASSUME NEW f \in Outputs, NEW n \in 0 .. 4, Dump(f, n)
    PROVE  /\ DOMAIN disk \subseteq DOMAIN disk'
           /\ \A p \in DOMAIN disk \ Dumped(f, n) : disk'[p] = disk[p]
           /\ \A p \in Dumped(f, n) : p \in DOMAIN disk' /\ disk'[p] = Content(f, p)
           /\ mine' = mine \cup Dumped(f, n)
BY DEF Dump, Dumped

LEMMA WriteFilesKeeps ==
    ASSUME EnvInv, NEW f \in Outputs, WriteFiles(f)
    PROVE  EnvInv'
<1>1. PathsOk /\ DraftOk /\ CompiledOk /\ WrittenOk /\ EvidenceInv /\ AnswerIsOneDesign
  BY DEF EnvInv, ToolsInv
<1>2. Dump(f, 4)
  BY DEF WriteFiles, PathsOf
<1>3. /\ writtenTo' = f /\ owned' = f /\ lastWrite' = f
      /\ UNCHANGED <<epc, catalog, design, compiled, report, draft, validated, simulated, answer, tested, fresh>>
  BY DEF WriteFiles
<1>4. {BasePath(f), OverlayPath(f), ReportPath(f)} \subseteq Dumped(f, 4)
  BY DumpedAre
<1>5. /\ {BasePath(f), OverlayPath(f), ReportPath(f)} \subseteq mine'
      /\ {BasePath(f), OverlayPath(f), ReportPath(f)} \subseteq DOMAIN disk'
      /\ disk'[BasePath(f)] = Base(draft)
      /\ disk'[OverlayPath(f)] = Overlay(draft, f)
      /\ disk'[ReportPath(f)] = report
  BY <1>2, <1>4, DumpDisk, ContentIs
<1>6. PathsOk' /\ DraftOk' /\ CompiledOk'
  BY <1>1, <1>3, <1>5 DEF PathsOk, DraftOk, CompiledOk
<1>7. WrittenOk'
  <2>1. WrittenWith(f)'
    BY <1>3, <1>5 DEF WrittenWith, Holds
  <2> QED BY <1>3, <1>5, <2>1 DEF WrittenOk
<1>8. EvidenceInv'
  <2>1. WrittenLast(draft)'
    BY <1>3, <1>5 DEF WrittenLast
  <2> QED BY <1>1, <1>3, <2>1 DEF EvidenceInv
<1>9. AnswerIsOneDesign'
  BY <1>1, <1>3 DEF AnswerIsOneDesign
<1> QED BY <1>6, <1>7, <1>8, <1>9 DEF EnvInv, ToolsInv

(* A write that fails half-way changes, of the files the simulator would be *)
(* started on, at most the overlay together with the base it is written     *)
(* with, or what is where a graph goes.                                     *)
LEMMA FailedWriteKeeps ==
    ASSUME NEW f \in Outputs, NEW g \in Outputs, NEW n \in 0 .. 3,
           writtenTo \in Outputs, owned = writtenTo, UNCHANGED <<writtenTo, draft>>,
           MayWrite(f), Dump(f, n), WrittenWith(g)
    PROVE  WrittenWith(f)' \/ WrittenWith(g)'
<1>1. /\ DOMAIN disk \subseteq DOMAIN disk'
      /\ \A p \in DOMAIN disk \ Dumped(f, n) : disk'[p] = disk[p]
      /\ \A p \in Dumped(f, n) : p \in DOMAIN disk' /\ disk'[p] = Content(f, p)
  BY DumpDisk
<1>2. /\ OverlayPath(g) = OverlayPath(writtenTo)
      /\ Holds(OverlayPath(g), Overlay(draft, g)) /\ Holds(BasePath(g), Base(draft))
      /\ OverlayPath(g) \in DOMAIN disk /\ BasePath(g) \in DOMAIN disk
  BY DEF WrittenWith, Holds
<1>3. NoFile # writtenTo
  BY EnvironmentAssumption
<1>4. /\ BasePath(f) \in DOMAIN disk => BasePath(f) = BasePath(writtenTo)
      /\ OverlayPath(f) \in DOMAIN disk => OverlayPath(f) = OverlayPath(writtenTo)
  BY DEF MayWrite, Free
<1>5. CASE OverlayPath(f) \in Dumped(f, n) /\ OverlayPath(f) = OverlayPath(writtenTo)
  <2>1. BasePath(f) \in Dumped(f, n)
    BY <1>5, DumpedAre
  <2>2. Holds(OverlayPath(f), Overlay(draft, f))' /\ Holds(BasePath(f), Base(draft))'
    BY <1>1, <1>5, <2>1, ContentIs DEF Holds
  <2> QED BY <1>5, <2>2 DEF WrittenWith
<1>6. CASE ~ (OverlayPath(f) \in Dumped(f, n) /\ OverlayPath(f) = OverlayPath(writtenTo))
  <2>1. ReportPath(f) \notin Dumped(f, n)
    BY DumpedAre
  <2>2. OverlayPath(f) \in Dumped(f, n) => OverlayPath(f) \notin DOMAIN disk
    BY <1>4, <1>6
  <2>3. Holds(OverlayPath(g), Overlay(draft, g))'
    <3>1. CASE OverlayPath(g) \notin Dumped(f, n)
      BY <1>1, <1>2, <3>1 DEF Holds
    <3>2. CASE OverlayPath(g) \in Dumped(f, n)
      <4>1. OverlayPath(g) # BasePath(f)
        <5>1. SUFFICES ASSUME OverlayPath(g) = BasePath(f) PROVE FALSE
          OBVIOUS
        <5>2. BasePath(writtenTo) = OverlayPath(writtenTo)
          BY <1>2, <1>4, <5>1
        <5> QED BY <5>2, PathsDiffer
      <4>2. OverlayPath(g) = GraphPath(f)
        BY <1>2, <2>1, <2>2, <3>2, <4>1, DumpedAre
      <4>3. disk'[OverlayPath(g)] = Graph(draft) /\ OverlayPath(g) \in GraphPaths
        BY <1>1, <3>2, <4>2, ContentIs DEF GraphPaths
      <4> QED BY <1>1, <3>2, <4>3 DEF Holds
    <3> QED BY <3>1, <3>2
  <2>4. Holds(BasePath(g), Base(draft))'
    <3>1. CASE BasePath(g) \notin Dumped(f, n)
      BY <1>1, <1>2, <3>1 DEF Holds
    <3>2. CASE BasePath(g) \in Dumped(f, n)
      <4>1. BasePath(g) = BasePath(f) \/ BasePath(g) = GraphPath(f)
        BY <1>2, <2>1, <2>2, <3>2, DumpedAre
      <4>2. CASE BasePath(g) = BasePath(f)
        BY <1>1, <3>2, <4>2, ContentIs DEF Holds
      <4>3. CASE BasePath(g) = GraphPath(f)
        BY <1>1, <3>2, <4>3, ContentIs DEF Holds, GraphPaths
      <4> QED BY <4>1, <4>2, <4>3
    <3> QED BY <3>1, <3>2
  <2> QED BY <1>2, <2>3, <2>4 DEF WrittenWith
<1> QED BY <1>5, <1>6

LEMMA WriteFailsKeeps ==
    ASSUME EnvInv, NEW f \in Outputs, WriteFails(f)
    PROVE  EnvInv'
<1>1. PathsOk /\ DraftOk /\ CompiledOk /\ WrittenOk /\ EvidenceInv /\ AnswerIsOneDesign
  BY DEF EnvInv, ToolsInv
<1>2. PICK n \in 0 .. 3 : Dump(f, n)
  BY DEF WriteFails, PathsOf
<1>3. MayWrite(f)
  BY DEF WriteFails, Writable
<1>4. /\ lastWrite' = NoFile
      /\ UNCHANGED <<epc, catalog, design, compiled, report, draft, validated, writtenTo, owned,
                     simulated, answer, tested, fresh>>
  BY DEF WriteFails, closureVars
<1>5. /\ DOMAIN disk \subseteq DOMAIN disk'
      /\ \A p \in DOMAIN disk \ Dumped(f, n) : disk'[p] = disk[p]
      /\ mine \subseteq mine'
  BY <1>2, DumpDisk
<1>6. PathsOk' /\ DraftOk' /\ CompiledOk'
  BY <1>1, <1>4, <1>5 DEF PathsOk, DraftOk, CompiledOk
<1>7. ASSUME compiled, writtenTo # NoFile
      PROVE  /\ ReportPath(writtenTo) \in DOMAIN disk'
             /\ disk'[ReportPath(writtenTo)] = report
             /\ \E g \in Outputs : WrittenWith(g)'
  <2>1. /\ writtenTo \in Outputs /\ owned = writtenTo
        /\ ReportPath(writtenTo) \in DOMAIN disk /\ disk[ReportPath(writtenTo)] = report
    BY <1>1, <1>7 DEF PathsOk, WrittenOk
  <2>2. ReportPath(writtenTo) \notin Dumped(f, n)
    <3>1. /\ ReportPath(writtenTo) # BasePath(f) /\ ReportPath(writtenTo) # GraphPath(f)
          /\ ReportPath(writtenTo) # OverlayPath(f)
      BY DEF ReportPath, BasePath, GraphPath, OverlayPath
    <3>2. ReportPath(f) \notin Dumped(f, n)
      BY DumpedAre
    <3> QED BY <3>1, <3>2, DumpedAre
  <2>3. PICK g \in Outputs : WrittenWith(g)
    BY <1>1, <1>7 DEF WrittenOk
  <2>4. WrittenWith(f)' \/ WrittenWith(g)'
    BY <1>2, <1>3, <1>4, <2>1, <2>3, FailedWriteKeeps
  <2> QED BY <1>5, <2>1, <2>2, <2>4
<1>8. WrittenOk'
  BY <1>4, <1>7 DEF WrittenOk
<1>9. EvidenceInv' /\ AnswerIsOneDesign'
  BY <1>1, <1>4 DEF EvidenceInv, AnswerIsOneDesign
<1> QED BY <1>6, <1>8, <1>9 DEF EnvInv, ToolsInv

LEMMA CompileKeeps ==
    ASSUME EnvInv, epc = "working", catalog # None, NEW d, CompileParsed(d)
    PROVE  EnvInv'
<1>1. PathsOk /\ DraftOk /\ CompiledOk /\ WrittenOk /\ EvidenceInv /\ AnswerIsOneDesign
  BY DEF EnvInv, ToolsInv
<1>2. /\ design' = d /\ fresh' = TRUE
      /\ UNCHANGED <<epc, catalog, owned, simulated, lastWrite, answer, tested, disk, failedWrites, mine>>
  BY DEF CompileParsed, diskVars
<1>3. CASE Complete(catalog, d)
  <2>1. /\ draft' = Compile(catalog, d) /\ compiled' = Valid(draft')
        /\ report' = <<catalog, d>> /\ writtenTo' = NoFile
    BY <1>3 DEF CompileParsed, RebuildDraft
  <2>2. PathsOk' /\ WrittenOk'
    BY <1>1, <1>2, <2>1 DEF PathsOk, WrittenOk
  <2>3. DraftOk'
    BY <1>3, <2>1 DEF DraftOk
  <2>4. CompiledOk'
    BY <1>1, <1>2, <1>3, <2>1 DEF CompiledOk
  <2>5. EvidenceInv' /\ AnswerIsOneDesign'
    BY <1>1, <1>2, <2>1 DEF EvidenceInv, WrittenLast, AnswerIsOneDesign
  <2> QED BY <2>2, <2>3, <2>4, <2>5 DEF EnvInv, ToolsInv
<1>4. CASE ~ Complete(catalog, d)
  <2>1. compiled' = FALSE /\ UNCHANGED <<draft, writtenTo>>
    BY <1>4 DEF CompileParsed, WithdrawDraft
  <2>2. PathsOk' /\ DraftOk' /\ CompiledOk' /\ WrittenOk'
    BY <1>1, <1>2, <2>1 DEF PathsOk, DraftOk, CompiledOk, WrittenOk
  <2>3. EvidenceInv' /\ AnswerIsOneDesign'
    BY <1>1, <1>2, <2>1 DEF EvidenceInv, WrittenLast, AnswerIsOneDesign
  <2> QED BY <2>2, <2>3 DEF EnvInv, ToolsInv
<1> QED BY <1>3, <1>4

(* What the simulator finds ready is an overlay and a base of the draft: a  *)
(* graph that has been put over one of them has no flows.                   *)
LEMMA SimulatedIsDraft ==
    ASSUME WrittenOk, SimulationPasses
    PROVE  tested' = [base |-> draft, overlay |-> draft]
<1> DEFINE overlay == disk[OverlayPath(writtenTo)]
           base    == disk[BasePath(overlay.base)]
<1>1. /\ compiled /\ writtenTo # NoFile
      /\ overlay.kind = "overlay" /\ base.kind = "base"
      /\ tested' = [base |-> base.of, overlay |-> overlay.of]
  BY DEF SimulationPasses, Simulate
<1>2. PICK f \in Outputs : WrittenWith(f)
  BY <1>1 DEF WrittenOk
<1>3. Graph(draft).kind = "graph"
  BY DEF Graph
<1>4. overlay = Overlay(draft, f) \/ overlay = Graph(draft)
  BY <1>2 DEF WrittenWith, Holds
<1>5. overlay = Overlay(draft, f)
  BY <1>1, <1>3, <1>4
<1>6. overlay.of = draft /\ overlay.base = f
  BY <1>5 DEF Overlay
<1>7. base = Base(draft) \/ base = Graph(draft)
  BY <1>2, <1>6 DEF WrittenWith, Holds
<1>8. base = Base(draft)
  BY <1>1, <1>3, <1>7
<1>9. base.of = draft
  BY <1>8 DEF Base
<1> QED BY <1>1, <1>6, <1>9

LEMMA SimulationKeeps ==
    ASSUME EnvInv, SimulationPasses
    PROVE  EnvInv'
<1>1. PathsOk /\ DraftOk /\ CompiledOk /\ WrittenOk /\ EvidenceInv /\ AnswerIsOneDesign
  BY DEF EnvInv, ToolsInv
<1>2. /\ writtenTo # NoFile /\ epc = "working"
      /\ simulated' = TRUE /\ fresh' = FALSE
      /\ UNCHANGED <<epc, catalog, design, compiled, report, draft, validated, writtenTo, owned,
                     lastWrite, answer, disk, failedWrites, mine>>
  BY DEF SimulationPasses, Simulate, closureVars, diskVars
<1>3. tested' = [base |-> draft, overlay |-> draft]
  BY <1>1, SimulatedIsDraft
<1>4. PathsOk' /\ DraftOk' /\ CompiledOk'
  BY <1>1, <1>2 DEF PathsOk, DraftOk, CompiledOk
<1>5. WrittenOk'
  BY <1>1, <1>2 DEF WrittenOk, WrittenWith, Holds
<1>6. EvidenceInv' /\ AnswerIsOneDesign'
  BY <1>1, <1>2, <1>3 DEF EvidenceInv, WrittenLast, AnswerIsOneDesign
<1> QED BY <1>4, <1>5, <1>6 DEF EnvInv, ToolsInv

LEMMA AnswerKeeps ==
    ASSUME EnvInv, Answer
    PROVE  EnvInv'
<1>1. PathsOk /\ DraftOk /\ CompiledOk /\ WrittenOk /\ EvidenceInv
  BY DEF EnvInv, ToolsInv
<1>2. /\ epc' = "idle" /\ simulated /\ lastWrite # NoFile
      /\ Valid(disk[BasePath(lastWrite)].of)
      /\ answer' = [base |-> disk[BasePath(lastWrite)].of, overlay |-> disk[OverlayPath(lastWrite)].of]
      /\ UNCHANGED <<catalog, design, compiled, report, draft, validated, writtenTo, owned,
                     simulated, lastWrite, tested, fresh, disk, failedWrites, mine>>
  BY DEF Answer, closureVars, diskVars
<1>3. PathsOk' /\ DraftOk' /\ CompiledOk'
  BY <1>1, <1>2 DEF PathsOk, DraftOk, CompiledOk
<1>4. WrittenOk'
  BY <1>1, <1>2 DEF WrittenOk, WrittenWith, Holds
<1>5. EvidenceInv'
  BY <1>1, <1>2 DEF EvidenceInv, WrittenLast
<1>6. AnswerIsOneDesign'
  <2>1. PICK scenario : WrittenLast(scenario)
    BY <1>1, <1>2 DEF EvidenceInv
  <2>2. disk[BasePath(lastWrite)].of = scenario /\ disk[OverlayPath(lastWrite)].of = scenario
    BY <2>1 DEF WrittenLast, Base, Overlay
  <2>3. answer' = [base |-> scenario, overlay |-> scenario] /\ Valid(scenario)
    BY <1>2, <2>2
  <2>4. ~ fresh => answer' = tested
    BY <1>1, <1>2, <2>1, <2>3 DEF EvidenceInv, WrittenLast
  <2> QED BY <1>2, <2>3, <2>4 DEF AnswerIsOneDesign
<1> QED BY <1>3, <1>4, <1>5, <1>6 DEF EnvInv, ToolsInv

(* The steps that change flags or evidence and no file.                     *)
LEMMA OtherStepsKeep ==
    ASSUME EnvInv,
           \/ StartRequest \/ (\E c \in Catalogs : SubmitCatalog(c)) \/ DesignSchemaError
           \/ ValidateDraft \/ (\E f \in Outputs : WriteRefused(f)) \/ SimulationFails
           \/ RequestRaises \/ Restart \/ UNCHANGED envVars
    PROVE  EnvInv'
<1> USE DEF EnvInv, ToolsInv, PathsOk, DraftOk, CompiledOk, WrittenOk, WrittenWith, Holds, EvidenceInv,
            WrittenLast, AnswerIsOneDesign, closureVars, evidenceVars, diskVars, envVars
<1>1. CASE StartRequest
  BY <1>1 DEF StartRequest, NewRequest
<1>2. CASE \E c \in Catalogs : SubmitCatalog(c)
  BY <1>2 DEF SubmitCatalog
<1>3. CASE DesignSchemaError
  BY <1>3 DEF DesignSchemaError, WithdrawDraft
<1>4. CASE ValidateDraft
  BY <1>4 DEF ValidateDraft
<1>5. CASE \E f \in Outputs : WriteRefused(f)
  BY <1>5 DEF WriteRefused
<1>6. CASE SimulationFails
  BY <1>6 DEF SimulationFails
<1>7. CASE RequestRaises
  BY <1>7 DEF RequestRaises, NewProcess, NewRequest
<1>8. CASE Restart
  BY <1>8 DEF Restart
<1>9. CASE UNCHANGED envVars
  BY <1>9
<1> QED BY <1>1, <1>2, <1>3, <1>4, <1>5, <1>6, <1>7, <1>8, <1>9

(* What every step keeps.                                                   *)
LEMMA StepKeeps == EnvInv /\ [EnvNext]_envVars => EnvInv'
<1> SUFFICES ASSUME EnvInv, [EnvNext]_envVars PROVE EnvInv'
  OBVIOUS
<1>1. CompiledOk /\ EvidenceInv
  BY DEF EnvInv, ToolsInv
<1>2. CASE \/ StartRequest \/ (\E c \in Catalogs : SubmitCatalog(c)) \/ DesignSchemaError
           \/ ValidateDraft \/ (\E f \in Outputs : WriteRefused(f)) \/ SimulationFails
           \/ RequestRaises \/ Restart \/ UNCHANGED envVars
  BY <1>2, OtherStepsKeep
<1>3. CASE \E d \in Designs : CompileDesign(d)
  BY <1>3, CompileKeeps DEF CompileDesign
<1>4. CASE \E r \in Revisions : ReviseDesign(r)
  <2>1. PICK r \in Revisions : ReviseDesign(r)
    BY <1>4
  <2>2. epc = "working" /\ catalog # None /\ CompileParsed(Revised(design, r))
    BY <1>1, <2>1 DEF ReviseDesign, CompiledOk
  <2> QED BY <2>2, CompileKeeps
<1>5. CASE \E f \in Outputs : WriteFiles(f)
  BY <1>5, WriteFilesKeeps
<1>6. CASE \E f \in Outputs : WriteFails(f)
  BY <1>6, WriteFailsKeeps
<1>7. CASE SimulationPasses
  BY <1>7, SimulationKeeps
<1>8. CASE Answer
  BY <1>8, AnswerKeeps
<1> QED BY <1>2, <1>3, <1>4, <1>5, <1>6, <1>7, <1>8 DEF EnvNext

THEOREM EnvInvariant == EnvSpec => []EnvInv
<1>1. EnvInit => EnvInv
  BY InitTools
<1>2. EnvInv /\ [EnvNext]_envVars => EnvInv'
  BY StepKeeps
<1> QED BY <1>1, <1>2, PTL DEF EnvSpec

(***************************************************************************)
(* Results.                                                                *)
(***************************************************************************)

(* Whatever flags, draft and paths a tool call, a failed write, an earlier  *)
(* request or a lost process has left, the overlay the simulator is started *)
(* on and the base it refers to are those of the last design, valid and     *)
(* whole on disk, unless a graph of the same design was put over them.      *)
THEOREM SimulationRunsTheDesignHolds == EnvSpec => []SimulationRunsTheDesign
<1>1. ASSUME EnvInv, compiled, writtenTo # NoFile
      PROVE  /\ disk[ReportPath(writtenTo)] = <<catalog, design>>
             /\ \E f \in Outputs :
                  /\ OverlayPath(f) = OverlayPath(writtenTo)
                  /\ Holds(OverlayPath(f), Overlay(draft, f)) /\ Holds(BasePath(f), Base(draft))
  BY <1>1 DEF EnvInv, ToolsInv, CompiledOk, WrittenOk, WrittenWith
<1>2. EnvInv => SimulationRunsTheDesign
  BY <1>1 DEF EnvInv, ToolsInv, CompiledOk, SimulationRunsTheDesign
<1> QED BY <1>2, EnvInvariant, PTL

(* A request is answered with a valid base scenario and the overlay of the  *)
(* same design, and with what was simulated unless another design has been  *)
(* compiled since.                                                          *)
THEOREM AnswerIsOneDesignHolds == EnvSpec => []AnswerIsOneDesign
<1>1. EnvInv => AnswerIsOneDesign
  BY DEF EnvInv
<1> QED BY <1>1, EnvInvariant, PTL

(* A scenario is refused for what the compiler derived just where that was  *)
(* derived from padded words.                                               *)
THEOREM RejectionIsRepairableHolds == EnvSpec => []RejectionIsRepairable
<1>1. ASSUME EnvInv, draft # None, Distinct(draft)
      PROVE  Resolves(draft) /\ Consistent(draft) <=> ~ PaddedReference(draft)
  <2>1. PICK c, d : Complete(c, d) /\ draft = Compile(c, d)
    BY <1>1 DEF EnvInv, ToolsInv, DraftOk
  <2> QED BY <1>1, <2>1, CompiledResolves
<1>2. EnvInv => RejectionIsRepairable
  BY <1>1 DEF RejectionIsRepairable
<1> QED BY <1>2, EnvInvariant, PTL

(* A file is changed only by a process that has written it, or by the graph *)
(* of a validated draft that goes there.                                    *)
THEOREM ForeignFilesKeptHolds == EnvSpec => ForeignFilesKept
<1> DEFINE Kept ==
        \A p \in DOMAIN disk : disk'[p] # disk[p] =>
            \/ p \in mine
            \/ p \in GraphPaths /\ validated /\ disk'[p] = Graph(draft)
<1>1. ASSUME EnvInv, NEW f \in Outputs, NEW n \in 0 .. 4, Writable(f), Dump(f, n)
      PROVE  Kept
  <2> SUFFICES ASSUME NEW p \in DOMAIN disk, disk'[p] # disk[p]
               PROVE  \/ p \in mine
                      \/ p \in GraphPaths /\ validated /\ disk'[p] = Graph(draft)
    OBVIOUS
  <2>1. PathsOk /\ validated /\ MayWrite(f)
    BY <1>1 DEF EnvInv, ToolsInv, Writable
  <2>2. p \in Dumped(f, n) /\ disk'[p] = Content(f, p)
    BY <1>1, DumpDisk
  <2>3. p \in {BasePath(f), GraphPath(f), OverlayPath(f), ReportPath(f)}
    BY <2>2, DumpedAre
  <2>4. CASE p = GraphPath(f)
    BY <2>1, <2>2, <2>4, ContentIs DEF GraphPaths
  <2>5. CASE p \in {BasePath(f), OverlayPath(f), ReportPath(f)}
    <3>1. owned # NoFile /\ p \in {BasePath(owned), OverlayPath(owned), ReportPath(owned)}
      BY <2>1, <2>5 DEF MayWrite, Free
    <3> QED BY <2>1, <3>1 DEF PathsOk
  <2> QED BY <2>3, <2>4, <2>5
<1>2. ASSUME EnvInv, [EnvNext]_envVars
      PROVE  Kept
  <2>1. CASE \E f \in Outputs : WriteFiles(f)
    <3>1. PICK f \in Outputs : WriteFiles(f)
      BY <2>1
    <3>2. Writable(f) /\ Dump(f, 4)
      BY <3>1 DEF WriteFiles, PathsOf
    <3> QED BY <1>1, <1>2, <3>2
  <2>2. CASE \E f \in Outputs : WriteFails(f)
    <3>1. PICK f \in Outputs : WriteFails(f)
      BY <2>2
    <3>2. PICK n \in 0 .. 3 : Dump(f, n)
      BY <3>1 DEF WriteFails, PathsOf
    <3>3. Writable(f) /\ n \in 0 .. 4
      BY <3>1 DEF WriteFails
    <3> QED BY <1>1, <1>2, <3>2, <3>3
  <2>3. CASE ~ (\E f \in Outputs : WriteFiles(f) \/ WriteFails(f))
    <3>1. UNCHANGED disk
      BY <1>2, <2>3 DEF EnvNext, StartRequest, SubmitCatalog, CompileDesign, CompileParsed,
            DesignSchemaError, ReviseDesign, ValidateDraft, WriteRefused, SimulationPasses,
            SimulationFails, Answer, RequestRaises, Restart, envVars, diskVars
    <3> QED BY <3>1
  <2> QED BY <2>1, <2>2, <2>3
<1>3. EnvInv /\ [EnvNext]_envVars => [Kept]_envVars
  BY <1>2
<1> QED BY <1>3, EnvInvariant, PTL DEF EnvSpec, ForeignFilesKept
=============================================================================
