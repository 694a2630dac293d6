------------------------------- MODULE Loading -------------------------------
(***************************************************************************)
(* Loading a message from files (load/load.go, load/options.go): from the  *)
(* conf files the generator wrote, the main one and those of patches, or   *)
(* from the workbooks it was generated of, the main one and those that the *)
(* scatter or merger option of the sheet names (importer.go). Options are  *)
(* set for all messages and for one of them by name.                       *)
(*                                                                         *)
(* File 0 is the main one, the others are patches or further workbooks in  *)
(* the order of PatchPaths, of PatchDirs or of the specifiers. What a      *)
(* file sets it sets to its number plus one, so that it is known whose     *)
(* value is loaded.                                                        *)
(***************************************************************************)
EXTENDS Patching, FiniteSets, FiniteSetsExt, SequencesExt

CONSTANTS Patches,   \* how many patches there may be
          MaxLeaves, \* bound: what the files set and the fields of patch options, and
             \* the options that are set but one
  MaxSetters \* bound: of options

ASSUME PatchesAssumption == Patches \in Nat

VARIABLES source,      \* "conf", or workbooks and which options the sheet has
          patchOpt,    \* the option patch of the sheet
          loadOpts, \* the options for all messages
          ownOpts,     \* the options of this one by its name
          files,       \* those that exist
          leaves,      \* of each file, what it sets
          replaced     \* fields with the option PATCH_REPLACE

loadVars == <<source, patchOpt, loadOpts, ownOpts, files, leaves, replaced>>

Files == 0..Patches
LeafNames == {<<"one">>, <<"many">>, <<"sub", "many">>}
               \cup {<<"map", k, field>> : k \in MapKeys, field \in {"one", "many"}}

\* A list of paths may be set and empty.
SettingsOf(o) == IF o = "mode" THEN {"all", "onlyMain", "onlyPatch"} ELSE {"empty", "given"}
LoadOptions == {"mode", "patchDirs", "patchPaths"}
NoOptions == [o \in LoadOptions |-> "unset"]

InitLoading ==
  /\ source \in {"conf", "main", "scatter", "merger", "both"}
  /\ patchOpt \in (IF source \in {"conf", "scatter"} THEN {"none", "replace", "merge"} ELSE {"none"})
  /\ files \in SUBSET Files
  /\ source # "conf" => 0 \in files
  /\ loadOpts = NoOptions /\ ownOpts = NoOptions
  /\ leaves = [f \in Files |-> {}]
  /\ replaced = {}

NumberSet == FoldSet(LAMBDA f, n : n + Cardinality(leaves[f]), Cardinality(replaced), Files)
Setters == Cardinality({o \in LoadOptions : loadOpts[o] # "unset"})
             + Cardinality({o \in LoadOptions : ownOpts[o] # "unset"})

\* The conf files alone are loaded by the mode and have patches.
CanSet ==
  source = "conf" /\ NumberSet = 0 /\ Setters < MaxSetters

SetOption(o, v) ==
  /\ CanSet
  /\ o # "patchPaths"
  /\ loadOpts' = [loadOpts EXCEPT ![o] = v]
  /\ UNCHANGED <<source, patchOpt, ownOpts, files, leaves, replaced>>

SetMessagerOption(o, v) ==
  /\ CanSet
  /\ ownOpts' = [ownOpts EXCEPT ![o] = v]
  /\ UNCHANGED <<source, patchOpt, loadOpts, files, leaves, replaced>>

CanFill == NumberSet + (IF Setters = 0 THEN 0 ELSE Setters - 1) < MaxLeaves

SetLeaf(f, leaf) ==
  /\ f \in files
  /\ leaf \notin leaves[f]
  /\ CanFill
  /\ (patchOpt # "merge" /\ source # "merger") => leaf = <<"many">>
  /\ leaves' = [leaves EXCEPT ![f] = @ \cup {leaf}]
  /\ UNCHANGED <<source, patchOpt, loadOpts, ownOpts, files, replaced>>

SetReplaced(field) ==
  /\ patchOpt = "merge" /\ source # "merger"
  /\ CanFill
  /\ replaced' = replaced \cup {field}
  /\ UNCHANGED <<source, patchOpt, loadOpts, ownOpts, files, leaves>>

NextLoading == \/ \E o \in LoadOptions : \E v \in SettingsOf(o) : SetOption(o, v) \/ SetMessagerOption(o, v)
               \/ \E f \in Files, leaf \in LeafNames : SetLeaf(f, leaf)
               \/ \E field \in PatchFields \ replaced : SetReplaced(field)

SpecLoading == InitLoading /\ [][NextLoading]_loadVars
-----------------------------------------------------------------------------
\* What a file holds at a leaf, and in an item.
ScalarAt(f, leaf) == IF leaf \in leaves[f] THEN f + 1 ELSE 0
ListAt(f, leaf) == IF leaf \in leaves[f] THEN <<f + 1>> ELSE <<>>
ItemAt(f, one, many) ==
  [there |-> {one, many} \cap leaves[f] # {}, one |-> ScalarAt(f, one), many |-> ListAt(f, many)]

Content(f) ==
  [one  |-> ScalarAt(f, <<"one">>),
   many |-> ListAt(f, <<"many">>),
   sub  |-> ItemAt(f, <<"sub", "one">>, <<"sub", "many">>),
   map  |-> [k \in MapKeys |-> ItemAt(f, <<"map", k, "one">>, <<"map", k, "many">>)]]

Loaded(msg) == [ok |-> TRUE, msg |-> msg]
LoadFails(msg) == [ok |-> FALSE, msg |-> msg]

\* LoadMessager, Unmarshal: what was in the message is gone.
LoadFile(msg, f) == IF f \in files THEN Loaded(Content(f)) ELSE LoadFails(msg)

\* ParseMessagerOptionsByName: its own options come first, an empty list too.
Options == [o \in LoadOptions |-> IF ownOpts[o] # "unset" THEN ownOpts[o] ELSE loadOpts[o]]

GetMode == IF Options["mode"] = "unset" THEN "all" ELSE Options["mode"]

\* Of files in an order, those that are chosen.
Among(order, chosen) ==
  FoldLeft(LAMBDA kept, f : IF f \in chosen THEN Append(kept, f) ELSE kept, <<>>, order)

\* Patches named must be there, those in PatchDirs may.
PatchPaths ==
  LET all == [i \in 1..Patches |-> i]
      dirs == IF Options["patchDirs"] = "given" THEN all ELSE <<>>
  IN CASE Options["patchPaths"] = "given" -> all
       [] Options["patchPaths"] = "empty" -> <<>>
       [] Options["patchPaths"] = "unset" -> Among(dirs, files)

\* One message takes every patch in turn and is patched into msg.
PatchBy(acc, f) ==
  IF ~acc.ok THEN acc
  ELSE LET patch == LoadFile(acc.patch, f)
       IN [ok |-> patch.ok, patch |-> patch.msg,
           msg |-> IF patch.ok THEN PatchMessage(acc.msg, patch.msg, replaced) ELSE acc.msg]

PatchAll(msg, paths) ==
  LET acc == FoldLeft(PatchBy, [ok |-> TRUE, patch |-> EmptyMessage, msg |-> msg], paths)
  IN [ok |-> acc.ok, msg |-> acc.msg]

\* loadMessagerWithPatch
LoadMessagerWithPatch(msg) ==
  IF GetMode = "onlyMain" THEN LoadFile(msg, 0)
  ELSE IF PatchPaths = <<>> THEN (IF GetMode = "onlyPatch" THEN Loaded(msg) ELSE LoadFile(msg, 0))
  ELSE IF patchOpt = "replace" THEN LoadFile(msg, Last(PatchPaths))
  ELSE LET main == IF GetMode = "onlyPatch" THEN Loaded(msg) ELSE LoadFile(msg, 0)
       IN IF main.ok THEN PatchAll(main.msg, PatchPaths) ELSE main

\* loadOriginMain: nothing in msg is cleared.
LoadOriginMain(msg) == Loaded(ProtoMerge(msg, Content(0)))

\* loadOriginScatter: order is that of the scattered workbooks, which
\* getSheetSpecifierImporters takes from a map.
LoadOriginScatter(msg, order) ==
  CASE patchOpt = "none" \/ (patchOpt = "replace" /\ order = <<>>) -> LoadOriginMain(msg)
    [] patchOpt = "replace" /\ order # <<>> -> Loaded(ProtoMerge(msg, Content(Last(order))))
    [] patchOpt = "merge" -> PatchAll(LoadOriginMain(msg).msg, order)

\* Merge, onto what is merged so far: maps whose keys differ and lists only.
MergeOnto(acc, f) ==
  LET c == Content(f)
      keys(msg) == {k \in MapKeys : msg.map[k].there}
  IN IF acc.ok /\ c.one = 0 /\ ~c.sub.there /\ keys(acc.msg) \cap keys(c) = {}
     THEN Loaded(ProtoMerge(acc.msg, c)) ELSE LoadFails(acc.msg)

\* loadOriginMerger: order is that in which the parsed workbooks arrive.
LoadOriginMerger(msg, order) ==
  IF Len(order) = 1 THEN LoadOriginMain(msg)
  ELSE LET merged == FoldLeft(MergeOnto, Loaded(EmptyMessage), order)
       IN IF merged.ok THEN Loaded(ProtoMerge(msg, merged.msg)) ELSE LoadFails(msg)

Orders == SetToSeqs(files \ {0})
Arrivals == SetToSeqs(files)

\* loadOrigin
LoadOrigin(msg) ==
  CASE source = "both" -> {LoadFails(msg)}
    [] source = "main" -> {LoadOriginMain(msg)}
    [] source = "scatter" -> {LoadOriginScatter(msg, order) : order \in Orders}
    [] source = "merger" -> {LoadOriginMerger(msg, order) : order \in Arrivals}

\* loadMessagerInDir: every outcome.
Load(msg) ==
  IF source # "conf" THEN LoadOrigin(msg)
  ELSE IF patchOpt # "none" THEN {LoadMessagerWithPatch(msg)}
  ELSE {LoadFile(msg, 0)}
-----------------------------------------------------------------------------
(* What the options promise: files that are applied one after the other    *)
(* are layers. A scalar is that of the last layer that sets it; a list is  *)
(* the lists of the layers together, and an entry of a map or a message    *)
(* has all that a layer gives it, from the last layer on that replaces.    *)
LayersOf(order) ==
  LET mode == IF source # "conf" THEN "all" ELSE GetMode
  IN CASE source = "main" \/ patchOpt = "none" \/ mode = "onlyMain" -> <<0>>
       [] source # "main" /\ patchOpt = "replace" /\ mode # "onlyMain" ->
            (IF order # <<>> THEN <<Last(order)>> ELSE IF mode = "onlyPatch" THEN <<>> ELSE <<0>>)
       [] source # "main" /\ patchOpt = "merge" /\ mode # "onlyMain" ->
            (IF mode = "onlyPatch" THEN order ELSE <<0>> \o order)

LayersLoaded ==
  CASE source = "conf" -> {LayersOf(PatchPaths)}
    [] source \in {"main", "scatter"} -> {LayersOf(order) : order \in Orders}
    [] source \in {"merger", "both"} -> Arrivals

\* Several merged workbooks share no more than lists.
LayersMergeable ==
  /\ source # "both"
  /\ (source = "merger" /\ files # {0}) =>
       /\ \A f \in files : \A leaf \in leaves[f] : leaf[1] \in {"many", "map"}
       /\ \A f, g \in files : f # g =>
            \A one \in leaves[f], other \in leaves[g] :
              ~(one[1] = "map" /\ other[1] = "map" /\ one[2] = other[2])

\* The layers that set one of the leaves, since the last one of them that replaces.
Giving(layers, setting, field) ==
  LET given == Among(layers, {f \in Files : leaves[f] \cap setting # {}})
  IN IF field \in replaced /\ given # <<>> THEN <<Last(given)>> ELSE given

WithPrefix(prefix) == {leaf \in LeafNames : leaf[1] = prefix}
OfLayers(layers) == [i \in DOMAIN layers |-> layers[i] + 1]
LastOf(layers) == IF layers = <<>> THEN 0 ELSE Last(layers) + 1

ItemOf(layers, one, many) ==
  [there |-> Giving(layers, {one, many}, "") # <<>>,
   one   |-> LastOf(Giving(layers, {one}, "")),
   many  |-> OfLayers(Giving(layers, {many}, "item.many"))]

Layered(layers) ==
  LET inSub == Giving(layers, WithPrefix("sub"), "sub")
      inMap == IF "map" \in replaced THEN Giving(layers, WithPrefix("map"), "map") ELSE layers
  IN [one  |-> LastOf(Giving(layers, {<<"one">>}, "")),
      many |-> OfLayers(Giving(layers, {<<"many">>}, "many")),
      sub  |-> ItemOf(inSub, <<"sub", "one">>, <<"sub", "many">>),
      map  |-> [k \in MapKeys |-> ItemOf(inMap, <<"map", k, "one">>, <<"map", k, "many">>)]]

(* What is loaded into an empty message is what the layers give, in the     *)
(* order of the patches or in some order of the further workbooks, and      *)
(* loading fails if and only if one of the layers is not there or merged    *)
(* workbooks share a key or have more than maps and lists. A message that   *)
(* is loaded a second time from conf files, the main one among them, is the *)
(* same again.                                                              *)
LoadedAsPatched ==
  /\ \A result \in Load(EmptyMessage) :
       /\ result.ok <=> (LayersMergeable /\ \A l \in LayersLoaded : ToSet(l) \subseteq files)
       /\ result.ok => \E l \in LayersLoaded : result.msg = Layered(l)
  /\ (source = "conf" /\ GetMode # "onlyPatch") =>
       \A first \in Load(EmptyMessage) : first.ok => Load(first.msg) = {first}
=============================================================================
