----------------------------- MODULE MCRowHoles -----------------------------
(***************************************************************************)
(* One row of a record with a list in one cell, which is RowField's field, *)
(* and a horizontal map, which is a second copy of it. The fields of a     *)
(* record are parsed one after the other.                                  *)
(***************************************************************************)
EXTENDS RowField

CONSTANT MapInputs  \* the map and its row

VARIABLES mapInput, mapRow, mapPos, mapList, mapMap, mapGap, mapSeen,
          mapFieldList, mapFieldMap, mapVerdict

MapField ==
  INSTANCE RowField WITH
    Inputs <- MapInputs, input <- mapInput, row <- mapRow, pos <- mapPos,
    list <- mapList, map <- mapMap, gap <- mapGap, seen <- mapSeen,
    fieldList <- mapFieldList, fieldMap <- mapFieldMap, verdict <- mapVerdict

mapVars == <<mapInput, mapRow, mapPos, mapList, mapMap, mapGap, mapSeen,
             mapFieldList, mapFieldMap, mapVerdict>>

InitRecord == InitField /\ MapField!InitField

NextRecord ==
  \/ NextField /\ UNCHANGED mapVars
  \/ verdict = "ok" /\ MapField!NextField /\ UNCHANGED fieldVars

SpecRecord == InitRecord /\ [][NextRecord]_<<fieldVars, mapVars>>

-----------------------------------------------------------------------------
I(k, v) == [key |-> k, val |-> v]

Field(layout, items) ==
  [layout |-> layout, fixed |-> FALSE, size |-> 0, aggregate |-> FALSE,
   keyed |-> FALSE, distinct |-> TRUE, unique |-> FALSE, optional |-> FALSE,
   sequence |-> None, rows |-> <<items>>]

\* With the key 0, and empty items in every place.
Rows == [1..3 -> {I(Empty, Empty), I(0, 1), I(1, 1), I(2, Empty)}]

MCInputs == {Field("incellList", items) : items \in Rows}
MCMapInputs == {Field("horizontalMap", items) : items \in Rows}

Holed(o) == ~HoleFree(o.rows[1], 1, 3)

\* A record in which the list and the map both have an empty item before one that
\* is present is not accepted: the loops check that no empty element is in the
\* beginning or the middle (parseIncellList), that none is in between and all the
\* remaining ones are not present (parseHorizontalMapField).
HolesRefused ==
  Holed(input) /\ Holed(mapInput) => verdict = "error" \/ mapVerdict # "ok"
=============================================================================
