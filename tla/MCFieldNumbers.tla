--------------------------- MODULE MCFieldNumbers ---------------------------
(* Instances of FieldNumbers: a sheet with up to three of the columns, and  *)
(* nested messages with one or two fields.                                  *)
EXTENDS FieldNumbers

CONSTANTS f1, f2, f3, ItemType, HeroType, AllSheets

ColumnOrders == {<<f1, f2>>, <<f1>>, <<f2, f1>>, <<f1, f2, f3>>, <<f3, f2>>, <<f3>>}
SubOrders == {<<f1, f2>>, <<f2>>, <<f3, f2>>}

SchemaOf(top, item, hero, t1, t2, t3) ==
  [fields |-> [m \in Messages |-> CASE m = Sheet -> top
                                    [] m = ItemType -> item
                                    [] OTHER -> hero],
   type |-> [f \in FieldNames |-> CASE f = f1 -> t1 [] f = f2 -> t2 [] OTHER -> t3]]

(* No type is shared by two fields.                                         *)
OwnTypes == {SchemaOf(top, item, hero, t1, t2, Scalar) :
               top \in ColumnOrders, item \in SubOrders, hero \in {<<f2>>},
               t1 \in {ItemType, Scalar}, t2 \in {HeroType, Scalar}}

(* The fields f1 and f3 are of one type.                                    *)
SharedTypes == {SchemaOf(top, item, <<f2>>, ItemType, Scalar, ItemType) :
                  top \in {<<f1>>, <<f3, f1>>}, item \in SubOrders}

MCSchemas == IF AllSheets THEN OwnTypes ELSE SharedTypes
MCFieldNames == {f1, f2, f3}
MCNested == {ItemType, HeroType}
=============================================================================
