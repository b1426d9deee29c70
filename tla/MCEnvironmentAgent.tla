-------------------------- MODULE MCEnvironmentAgent --------------------------
(* Two slices, one UPF, two gNBs, two UEs with an app each and three flows, *)
(* one UE with sessions on both slices: the least scenario of a floor that  *)
(* asks for two traffic classes and one UE of several sessions.  The        *)
(* catalog does not list UEs and flows in the order of their names.         *)
(*                                                                         *)
(* Two directories outside the scenario root, one the graphs directory of  *)
(* the other: their overlays go to one place.  Another's file is where the *)
(* inner one's graph goes, without the base it might belong to.            *)
EXTENDS EnvironmentAgent, TLC

MCGraphs    == "out" :> "out/graphs" @@ "out/graphs" :> "out/graphs/graphs"
MCSplitMode == [d \in Dirs |-> "split_mode"]
MCSeeds     == {{<<"g1", "out/graphs/graphs", "yaml">>}}

MCFloor == [slices |-> 2, upfs |-> 1, gnbs |-> 2, ues |-> 2, apps |-> 2, flows |-> 3]

Catalog(id) ==
    [id |-> id, slices |-> <<"fast", "wide">>, upfs |-> <<"anchor">>, gnbs |-> <<"east", "west">>,
     ues |-> <<"robot", "car">>, apps |-> <<"control", "drive">>, flows |-> <<"motion", "video", "map">>]

(* One flow fewer than the floor.                                           *)
MCCatalogs ==
    {Catalog("g1"), [Catalog("g1") EXCEPT !.flows = <<"motion", "video">>]}

Padded(text, ends) == [text |-> text, pad |-> ends]
Word(text) == Padded(text, {})
Slice(label, capacity) == [label |-> label, capacity |-> capacity]
Gnb(name, served) == [name |-> name, served |-> served, upf |-> "anchor"]
Ue(name, gnb, target, preferred) ==
    [name |-> name, gnb |-> gnb, target |-> target, preferred |-> preferred]
App(ue, apn) == [ue |-> ue, apn |-> apn]
Flow(app, slice, type, guarantee) ==
    [app |-> app, slice |-> slice, type |-> type, guarantee |-> guarantee, target |-> 2, allocated |-> 2]

Sound(id) ==
    [id      |-> id,
     runtime |-> "sound",
     slices  |-> "fast" :> Slice("1-01", 2) @@ "wide" :> Slice("2-01", 3),
     upfs    |-> "anchor" :> Padded("upf", {"front"}),
     gnbs    |-> "east" :> Gnb(Word("gnb1"), <<"fast", "wide">>)
                @@ "west" :> Gnb(Word("gnb2"), <<"wide", "fast">>),
     ues     |-> "robot" :> Ue(Padded("ue1", {"front", "back"}), "east", "west", {"west"})
                 @@ "car" :> Ue(Word("ue2"), "west", "west", {"east", "west"}),
     apps    |-> "control" :> App("robot", Padded("internet", {"back"})) @@ "drive" :> App("car", Word("ims")),
     flows   |-> "motion" :> Flow("control", "fast", "URLLC", 1)
                 @@ "video" :> Flow("control", "wide", "eMBB", 2)
                 @@ "map" :> Flow("drive", "wide", "eMBB", 1)]

MCDesigns == {Sound("g1")}

Replaces(gnb, app, flow) ==
    [s \in Sections \cup {"runtime"} |->
        CASE s = "gnbs"    -> "east" :> gnb
          [] s = "apps"    -> "drive" :> app
          [] s = "flows"   -> "map" :> flow
          [] s = "runtime" -> "kept"
          [] OTHER         -> << >>]

East  == Gnb(Word("gnb1"), <<"fast", "wide">>)
Drive == App("car", Word("ims"))
Map   == Flow("drive", "wide", "eMBB", 1)

(* A flow moved to the other slice, to one that does not exist, and made to *)
(* exceed its slice's capacity; a preferred gNB of a name with blanks, two  *)
(* of one name but for the blanks, and an APN with blanks in front; an      *)
(* entity no catalog declared.                                              *)
MCRevisions ==
    {Replaces(East, Drive, Flow("drive", "fast", "URLLC", 1)),
     Replaces(East, Drive, Flow("drive", "thin", "URLLC", 1)),
     Replaces(East, Drive, Flow("drive", "wide", "eMBB", 2)),
     Replaces(Gnb(Padded("gnb1", {"back"}), <<"fast", "wide">>), Drive, Map),
     Replaces(Gnb(Padded("gnb2", {"back"}), <<"fast", "wide">>), Drive, Map),
     Replaces(East, App("car", Padded("ims", {"front"})), Map),
     [Replaces(East, Drive, Map) EXCEPT !.upfs = "edge" :> Word("upf2")]}
=============================================================================
