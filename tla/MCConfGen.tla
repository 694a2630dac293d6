----------------------------- MODULE MCConfGen -----------------------------
(***************************************************************************)
(* Small instances of ConfGen: two workbooks, b1 with the two sheets s1    *)
(* and s2, b2 with the sheets s3 and s4.                                   *)
(***************************************************************************)
EXTENDS ConfGen, TLC

CONSTANTS b1, b2, s1, s2, s3, s4, i1, i2, i3, i4, x2

TwoBooks == (b1 :> <<s1, s2>>) @@ (b2 :> <<s3, s4>>)
MainOf   == (s1 :> i1) @@ (s2 :> i2) @@ (s3 :> i3) @@ (s4 :> i4)

\* s2 is read from two importers, the others from one.
ExtraOfS2 == (s1 :> {}) @@ (s2 :> {x2}) @@ (s3 :> {}) @@ (s4 :> {})

\* GenAll, and GenWorkbook with a third, unknown workbook.
AllBooks    == << {b1, b2} >>
ThenUnknown == << {b1}, {b2}, {} >>

\* What may be wrong with the rows of a table: nothing, one field in each of two
\* rows, two fields of one row before a good row; with a document: its fields.
RowErrors == { <<0, 0>>, <<1, 1>>, <<2, 0>> }
DocumentErrors == { <<0>>, <<1>>, <<2>> }

ErrorsOf(I, choices, otherwise) ==
  {[i \in Importers |-> IF i \in I THEN f[i] ELSE otherwise] : f \in [I -> choices]}

DataOf(errsets, faultsets) == {[errs |-> e, faults |-> f] : e \in errsets, f \in faultsets}

InputsOf(specs, scatter, data) ==
  {[specs |-> specs, scatter |-> scatter, errs |-> d.errs, faults |-> d.faults] : d \in data}

\* Bad data everywhere, nothing else fails.
BadData ==
  DataOf({[i \in Importers |-> CASE i = x2         -> r
                                 [] i = i3         -> d
                                 [] i \in {i1, i2} -> g[i]
                                 [] OTHER          -> <<0>>] :
            r \in RowErrors, d \in DocumentErrors, g \in [{i1, i2} -> {<<0>>, <<1>>}]}, {{}})

\* Bad data in i3 and x2 at most, and any one operation fails.
OneFault ==
  DataOf(ErrorsOf({i3, x2}, {<<0>>, <<1>>}, <<0>>),
         { {<<"open", b1>>}, {<<"both options", s2>>}, {<<"importers", s1>>}, {<<"importers", s2>>},
           {<<"store", s1>>}, {<<"store", i2>>}, {<<"store", x2>>}, {<<"store", s2>>},
           {<<"merge", s2>>}, {<<"sheet", i1>>}, {<<"sheet", x2>>},
           {<<"sheet not found", b2>>}, {<<"store", s1>>, <<"sheet", x2>>} })

\* s2 is a merger sheet, or a scatter sheet.
MergerInputs == InputsOf(AllBooks, {}, BadData \cup OneFault)
ScatterInputs == InputsOf(ThenUnknown, {s2}, BadData \cup OneFault)
BothInputs == MergerInputs \cup ScatterInputs
SkippedInputs == InputsOf(AllBooks, {s2}, BadData)
=============================================================================
