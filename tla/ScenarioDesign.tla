---------------------------- MODULE ScenarioDesign ----------------------------
(***************************************************************************)
(* What the environment agent's compiler makes of a design and what its    *)
(* validator accepts.  The language model declares a catalog of semantic   *)
(* keys and authors a design over them; EnvironmentDesignCompiler derives  *)
(* identifiers and references, and EnvironmentAgentCompiler checks the     *)
(* scenario as if anyone might have written it.                            *)
(*                                                                         *)
(* A catalog holds a sequence of keys for each section, a design a         *)
(* function from keys to entities, a scenario sequences of entities        *)
(* without their keys.  A design that repeats a key is refused as one that *)
(* misses one is, and no revision mends either, so it needs no form of its *)
(* own.  Bandwidth has one direction.                                      *)
(*                                                                         *)
(* Names and APNs are the language model's words, and its schema takes     *)
(* them with blanks around them: such a word is a record of its text and   *)
(* the ends that are padded, and one of nothing but blanks has no text and *)
(* no padding in front.  The compiler strips none of them, the validator   *)
(* strips where the definitions below do.                                  *)
(***************************************************************************)
EXTENDS Naturals, Sequences, FiniteSets, Functions, FiniteSetsExt

CONSTANTS
    Floor,         \* least number of entities of each section, S3_MINIMUM_COUNTS
    MultiSession,  \* least number of UEs with several sessions, 5 in S3
    ServiceTypes   \* traffic classes that have to occur

Sections == {"slices", "upfs", "gnbs", "ues", "apps", "flows"}

ASSUME DesignAssumption ==
    /\ Floor \in [Sections -> Nat]
    /\ MultiSession \in Nat

(***************************************************************************)
(* Catalog and design.                                                     *)
(***************************************************************************)
AcceptedCatalog(c) ==
    \A s \in Sections : IsInjective(c[s]) /\ Len(c[s]) >= Floor[s]

(* Every catalog key has one entity, every reference is to a key of the     *)
(* catalog, every flow's slice is served where its UE is attached, and no   *)
(* app or UE is idle.  The id stands for the objective too, which has to be *)
(* the catalog's likewise.                                                  *)
Complete(c, d) ==
    /\ d.id = c.id
    /\ \A s \in Sections : DOMAIN d[s] = Range(c[s])
    /\ \A g \in Range(c.gnbs) : /\ Range(d.gnbs[g].served) \subseteq Range(c.slices)
                                /\ d.gnbs[g].upf \in Range(c.upfs)
    /\ \A u \in Range(c.ues) :
        {d.ues[u].gnb, d.ues[u].target} \cup d.ues[u].preferred \subseteq Range(c.gnbs)
    /\ \A a \in Range(c.apps) : d.apps[a].ue \in Range(c.ues)
    /\ \A f \in Range(c.flows) :
        /\ d.flows[f].app \in Range(c.apps)
        /\ d.flows[f].slice \in Range(c.slices)
        /\ d.flows[f].slice \in Range(d.gnbs[d.ues[d.apps[d.flows[f].app].ue].gnb].served)
    /\ \A a \in Range(c.apps) : \E f \in Range(c.flows) : d.flows[f].app = a
    /\ \A u \in Range(c.ues) : \E a \in Range(c.apps) : d.apps[a].ue = u

(* A revision replaces entities the design has, or what is no entity: name, *)
(* rationale, tick, seed and runtime sections, all of them "runtime".       *)
Mergeable(d, r) ==
    /\ \A s \in Sections : DOMAIN r[s] \subseteq DOMAIN d[s]
    /\ r.runtime # "kept" \/ \E s \in Sections : DOMAIN r[s] # {}

Merged(old, new) == [k \in DOMAIN old |-> IF k \in DOMAIN new THEN new[k] ELSE old[k]]

Revised(d, r) ==
    [id      |-> d.id,
     runtime |-> IF r.runtime = "kept" THEN d.runtime ELSE r.runtime,
     slices  |-> Merged(d.slices, r.slices),
     upfs    |-> Merged(d.upfs, r.upfs),
     gnbs    |-> Merged(d.gnbs, r.gnbs),
     ues     |-> Merged(d.ues, r.ues),
     apps    |-> Merged(d.apps, r.apps),
     flows   |-> Merged(d.flows, r.flows)]

(***************************************************************************)
(* The compiler.  Supis, app and flow ids count up in catalog order.       *)
(***************************************************************************)
Position(keys, k) == CHOOSE i \in DOMAIN keys : keys[i] = k

SessionRef(supi, app, slice, apn) == [supi |-> supi, app |-> app, slice |-> slice, apn |-> apn]

RefOf(c, d, f) ==
    LET app == d.flows[f].app
    IN  SessionRef(Position(c.ues, d.apps[app].ue), Position(c.apps, app),
                   d.slices[d.flows[f].slice].label, d.apps[app].apn)

SessionOf(c, d, f) ==
    LET ref == RefOf(c, d, f)
    IN  [app |-> ref.app, slice |-> ref.slice, apn |-> ref.apn, ref |-> ref]

(* Mutant: one session for each app, on the slice of any of its flows.      *)
SessionsOfApps(c, d, u) ==
    {SessionOf(c, d, CHOOSE f \in DOMAIN d.flows : d.flows[f].app = a) :
        a \in {a \in DOMAIN d.apps : d.apps[a].ue = u}}

(* The flows of an app that use one slice share a session.                  *)
Sessions(c, d, u) ==
    {SessionOf(c, d, f) : f \in {f \in DOMAIN d.flows : d.apps[d.flows[f].app].ue = u}}

CompiledGnb(d, g) ==
    [name   |-> d.gnbs[g].name,
     slices |-> [n \in DOMAIN d.gnbs[g].served |-> d.slices[d.gnbs[g].served[n]].label],
     upf    |-> d.upfs[d.gnbs[g].upf]]

CompiledUe(c, d, u) ==
    [name     |-> d.ues[u].name,
     supi     |-> Position(c.ues, u),
     gnb      |-> d.gnbs[d.ues[u].gnb].name,
     target   |-> d.gnbs[d.ues[u].target].name,
     preferred |-> {d.gnbs[g].name : g \in d.ues[u].preferred},
     sessions |-> Sessions(c, d, u)]

CompiledApp(c, d, a) ==
    [id    |-> Position(c.apps, a),
     supi  |-> Position(c.ues, d.apps[a].ue),
     ue    |-> d.ues[d.apps[a].ue].name,
     flows |-> {Position(c.flows, f) : f \in {f \in DOMAIN d.flows : d.flows[f].app = a}}]

CompiledFlow(c, d, f) ==
    [id        |-> Position(c.flows, f),
     app       |-> Position(c.apps, d.flows[f].app),
     supi      |-> Position(c.ues, d.apps[d.flows[f].app].ue),
     ue        |-> d.ues[d.apps[d.flows[f].app].ue].name,
     slice     |-> d.slices[d.flows[f].slice].label,
     ref       |-> RefOf(c, d, f),
     type      |-> d.flows[f].type,
     guarantee |-> d.flows[f].guarantee,
     target    |-> d.flows[f].target,
     allocated |-> d.flows[f].allocated]

Compile(c, d) ==
    [id      |-> d.id,
     runtime |-> d.runtime,
     slices  |-> [i \in DOMAIN c.slices |-> d.slices[c.slices[i]]],
     upfs    |-> [i \in DOMAIN c.upfs |-> d.upfs[c.upfs[i]]],
     gnbs    |-> [i \in DOMAIN c.gnbs |-> CompiledGnb(d, c.gnbs[i])],
     ues     |-> [i \in DOMAIN c.ues |-> CompiledUe(c, d, c.ues[i])],
     apps    |-> [i \in DOMAIN c.apps |-> CompiledApp(c, d, c.apps[i])],
     flows   |-> [i \in DOMAIN c.flows |-> CompiledFlow(c, d, c.flows[i])]]

(***************************************************************************)
(* The validator.  It reads a section as a dict by name or id, which is    *)
(* the section itself once names are known to differ (Distinct).           *)
(***************************************************************************)
Strip(word)     == [text |-> word.text, pad |-> {}]
StripBack(word) == [text |-> word.text, pad |-> word.pad \ {"back"}]

(* A session's reference ends with its APN: to strip it strips one end.     *)
StripRef(ref) == SessionRef(ref.supi, ref.app, ref.slice, StripBack(ref.apn))

Labels(s)   == {e.label : e \in Range(s.slices)}
UpfNames(s) == {Strip(e) : e \in Range(s.upfs)}
GnbNames(s) == {Strip(e.name) : e \in Range(s.gnbs)}
UeNames(s)  == {Strip(e.name) : e \in Range(s.ues)}
Supis(s)    == {e.supi : e \in Range(s.ues)}
AppIds(s)   == {e.id : e \in Range(s.apps)}
FlowIds(s)  == {e.id : e \in Range(s.flows)}

DistinctBy(section, Name(_)) ==
    \A i, j \in DOMAIN section : Name(section[i]) = Name(section[j]) => i = j

Distinct(s) ==
    /\ \A word \in UpfNames(s) \cup GnbNames(s) \cup UeNames(s) : word.text # ""
    /\ DistinctBy(s.slices, LAMBDA e : e.label)
    /\ DistinctBy(s.upfs, Strip)
    /\ DistinctBy(s.gnbs, LAMBDA e : Strip(e.name))
    /\ DistinctBy(s.ues, LAMBDA e : Strip(e.name))
    /\ DistinctBy(s.ues, LAMBDA e : e.supi)
    /\ DistinctBy(s.apps, LAMBDA e : e.id)
    /\ DistinctBy(s.flows, LAMBDA e : e.id)

GnbsResolve(s) ==
    \A g \in Range(s.gnbs) : Range(g.slices) \subseteq Labels(s) /\ Strip(g.upf) \in UpfNames(s)

(* A gNB the UE prefers is looked for as it is written, among stripped      *)
(* names.  A session's slice has to be one its UE's gNB advertises.         *)
UesResolve(s) ==
    \A u \in Range(s.ues) :
        /\ {Strip(u.gnb), Strip(u.target)} \cup u.preferred \subseteq GnbNames(s)
        /\ \A n \in u.sessions :
            /\ n.slice \in Labels(s) /\ n.app \in AppIds(s)
            /\ \A g \in Range(s.gnbs) : Strip(g.name) = Strip(u.gnb) => n.slice \in Range(g.slices)

AppsResolve(s) ==
    \A a \in Range(s.apps) :
        Strip(a.ue) \in UeNames(s) /\ a.supi \in Supis(s) /\ a.flows \subseteq FlowIds(s)

FlowsResolve(s) ==
    \A f \in Range(s.flows) :
        /\ f.app \in AppIds(s) /\ f.slice \in Labels(s)
        /\ Strip(f.ue) \in UeNames(s) /\ f.supi \in Supis(s)

(* Flow, app, UE and session tell the same story.  A session's reference,   *)
(* stripped, has to be the one made of its parts, each of them stripped.    *)
Consistent(s) ==
    /\ \A f \in Range(s.flows) :
        /\ \A a \in Range(s.apps) : a.id = f.app => Strip(a.ue) = Strip(f.ue) /\ a.supi = f.supi
        /\ \A u \in Range(s.ues) : Strip(u.name) = Strip(f.ue) =>
            /\ u.supi = f.supi
            /\ \E n \in u.sessions :
                n.app = f.app /\ n.slice = f.slice /\ StripRef(n.ref) = StripRef(f.ref)
    /\ \A a \in Range(s.apps) :
        /\ \A u \in Range(s.ues) : Strip(u.name) = Strip(a.ue) => u.supi = a.supi
        /\ a.flows = {f.id : f \in {f \in Range(s.flows) : f.app = a.id}}
    /\ \A u \in Range(s.ues) : \A n \in u.sessions :
        StripRef(n.ref) = SessionRef(u.supi, n.app, n.slice, Strip(n.apn))

(* A flow asks for what it is guaranteed, and has been allocated it.        *)
Guaranteed(s) ==
    \A f \in Range(s.flows) : f.target >= f.guarantee /\ f.allocated >= f.guarantee

GuaranteeOn(s, label) ==
    MapThenSumSet(LAMBDA i : s.flows[i].guarantee, {i \in DOMAIN s.flows : s.flows[i].slice = label})

WithinCapacity(s) == \A e \in Range(s.slices) : GuaranteeOn(s, e.label) <= e.capacity

(* The S3 floor.  The gNBs serving a slice are counted over their lists, a  *)
(* slice that is listed twice counting twice.                               *)
MeetsFloor(s) ==
    /\ \A section \in Sections : Len(s[section]) >= Floor[section]
    /\ \A g \in Range(s.gnbs) : Cardinality(Range(g.slices)) >= 2
    /\ \A e \in Range(s.slices) :
        MapThenSumSet(LAMBDA i : Cardinality({n \in DOMAIN s.gnbs[i].slices :
                                                s.gnbs[i].slices[n] = e.label}),
                      DOMAIN s.gnbs) >= 2
    /\ Cardinality({i \in DOMAIN s.ues : Cardinality(s.ues[i].sessions) >= 2}) >= MultiSession
    /\ ServiceTypes \subseteq {f.type : f \in Range(s.flows)}

(* The references the compiler derives, as against names and metrics, which *)
(* are the language model's.                                                *)
Resolves(s) == GnbsResolve(s) /\ UesResolve(s) /\ AppsResolve(s) /\ FlowsResolve(s)

Valid(s) ==
    /\ Distinct(s)
    /\ Resolves(s)
    /\ Consistent(s)
    /\ Guaranteed(s)
    /\ WithinCapacity(s)
    /\ MeetsFloor(s)
    /\ s.runtime = "sound"
=============================================================================
