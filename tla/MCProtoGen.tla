---------------------------- MODULE MCProtoGen ----------------------------
(* Instances of ProtoGen for TLC. *)
EXTENDS ProtoGen, TLC

CONSTANTS t1, t2, x

\* t1 has a MULTI type sheet and a default one, t2 a default and a type sheet,
\* each using a type of the other workbook; x is a document.
MCBooks == {t1, t2, x}
MCDocuments == {x}
MCTypes == {"A", "B"}
MCKind == [e1 |-> "types", e2 |-> "type", m1 |-> "default", m2 |-> "default", x1 |-> "default"]
MCSheetsOf == t1 :> <<"e1", "m1">> @@ t2 :> <<"m2", "e2">> @@ x :> <<"x1">>
MCDeclares == [e1 |-> <<"A">>, e2 |-> <<"B">>, m1 |-> <<>>, m2 |-> <<>>, x1 |-> <<>>]
MCFields == [e1 |-> <<"B", "scalar">>, e2 |-> <<"scalar">>, m1 |-> <<"scalar", "B">>,
             m2 |-> <<"A">>, x1 |-> <<"scalar", "scalar">>]
MCProtoPath == t1 :> "t1.proto" @@ t2 :> "t2.proto" @@ x :> "x.proto"
SamePath == t1 :> "t.proto" @@ t2 :> "t.proto" @@ x :> "x.proto"

\* A nested directory, walked while two workbooks are at work.
MCEntries == [in |-> <<x, t1, "sub">>, sub |-> <<t2>>]
MCTopDirs == <<"in">>

In(modes, asked, faultSets) ==
  [mode : modes, asked : asked, known : {{}}, faults : faultSets]

FieldFaults == {"field"} \X {<<"e1", 1>>, <<"e1", 2>>, <<"e2", 1>>, <<"m1", 1>>, <<"m2", 1>>,
                             <<"x1", 1>>, <<"x1", 2>>}
OtherFaults == ({"open"} \X MCBooks) \cup ({"extract"} \X MCTypes)
               \cup ({"export"} \X MCBooks) \cup {<<"dir", "sub">>, <<"entry", <<"in", 3>>>>, <<"document", "x1">>}

Pairs(S) == UNION {{{f, g} : f \in S} : g \in S}

\* More errors than the generator's budget.
Bursts ==
  {{"field"} \X F : F \in {{<<"e1", 1>>, <<"e1", 2>>, <<"m2", 1>>},
                         {<<"e1", 2>>, <<"m1", 1>>, <<"m2", 1>>, <<"e2", 1>>},
                         {<<"m1", 1>>, <<"m2", 1>>, <<"e2", 1>>}}}

AllInputs == In({"all"}, {{}}, {{}} \cup Bursts \cup Pairs(FieldFaults \cup OtherFaults))
BookInputs ==
  In({"normal", "default", "advanced"}, {{t1, t2}, {t1, x}},
     {{}} \cup {{f} : f \in FieldFaults \cup OtherFaults})
AnyInputs == AllInputs \cup BookInputs
SoundInputs == In({"all"}, {{}}, {{}})
=============================================================================
