------------------------------ MODULE Patching -------------------------------
(***************************************************************************)
(* How a message is patched by another (internal/x/xproto/patch.go). A     *)
(* message has one field of each kind: a scalar, a list of scalars, a      *)
(* message and a map to messages, which are items: a scalar and a list.    *)
(* A scalar is not populated if it is 0. The fields of which the option    *)
(* patch is PATCH_REPLACE are those in replace.                            *)
(***************************************************************************)
EXTENDS Integers, Sequences

CONSTANT MapKeys \* of the map

NoItem == [there |-> FALSE, one |-> 0, many |-> <<>>]
EmptyItem == [NoItem EXCEPT !.there = TRUE]
EmptyMessage == [one |-> 0, many |-> <<>>, sub |-> NoItem, map |-> [k \in MapKeys |-> NoItem]]

PatchFields == {"many", "sub", "map", "item.many"}

PatchScalar(dst, src) == IF src = 0 THEN dst ELSE src

PatchListAppends(dst, src, replaced) == dst \o src

\* Only populated fields are ranged over: an empty list replaces nothing.
PatchList(dst, src, replaced) ==
  IF src = <<>> THEN dst ELSE IF replaced THEN src ELSE dst \o src

PatchItem(dst, src, replace) ==
  [there |-> TRUE,
   one   |-> PatchScalar(dst.one, src.one),
   many  |-> PatchList(dst.many, src.many, "item.many" \in replace)]

PatchSub(dst, src, replace) ==
  IF ~src.there THEN dst
  ELSE PatchItem(IF "sub" \in replace THEN NoItem ELSE dst, src, replace)

\* Entries are patched, other than by proto.Merge, which replaces them.
PatchMap(dst, src, replace) ==
  LET populated == \E k \in MapKeys : src[k].there
      base == IF "map" \in replace /\ populated THEN EmptyMessage.map ELSE dst
  IN [k \in MapKeys |-> IF src[k].there THEN PatchItem(base[k], src[k], replace) ELSE base[k]]

PatchMessage(dst, src, replace) ==
  [one  |-> PatchScalar(dst.one, src.one),
   many |-> PatchList(dst.many, src.many, "many" \in replace),
   sub  |-> PatchSub(dst.sub, src.sub, replace),
   map  |-> PatchMap(dst.map, src.map, replace)]

\* proto.Merge: of a map, the entries of src replace those of dst.
ProtoMerge(dst, src) ==
  [PatchMessage(dst, src, {}) EXCEPT
     !.map = [k \in MapKeys |-> IF src.map[k].there THEN src.map[k] ELSE dst.map[k]]]
=============================================================================
