------------------------------- MODULE Stages -------------------------------
(***************************************************************************)
(* The sequential stages of a conversion beside each other: from the file  *)
(* to the worksheets (WorkbookIndex, Books), from the header of a table or *)
(* the schema of a document to the fields of a message (HeaderOptions,     *)
(* SheetHeaders, DocumentSheets, TypeSheets), the numbers of these         *)
(* (FieldNumbers), the rows, cells and messages of the data (DataRows,     *)
(* Values, InnerMessages), the messages of several workbooks               *)
(* (MergeReduce), their storing and loading (Storing, Loading), and the    *)
(* errors on the way (ErrorValues).                                        *)
(*                                                                         *)
(* They run at different times and share no state but the files between    *)
(* them: a behaviour is one of one stage, and the others are at rest.      *)
(***************************************************************************)
EXTENDS WorkbookIndex, Books, HeaderOptions, SheetHeaders, DataRows, TypeSheets,
        DocumentSheets, FieldNumbers, Values, InnerMessages, MergeReduce, Storing,
        Loading, ErrorValues

CONSTANT StageNames \* the stages that run

VARIABLE stage

stageVars == <<stage, indexVars, errorVars, bookVars, headerOptionVars, headerVars, rowVars, typeVars,
               documentVars, numberVars, valueVars, innerVars, vars, outVars, loadVars>>

\* Where another stage begins in one of several states, one of them is it at rest.
InitStages ==
  /\ stage \in StageNames
  /\ InitIndex /\ InitHeaderOptions /\ InitNumbers /\ InitValues /\ InitErrors
  /\ InitBooks
  /\ stage # "books" => ~isDocument
  /\ InitHeaders
  /\ stage # "headers" => ~nested
  /\ InitRows
  /\ stage # "rows" => columns = CHOOSE h \in TableColumns : TRUE
  /\ InitTypes
  /\ stage # "types" => ~transposed /\ kind = CHOOSE k \in TypeKinds : TRUE
  /\ InitDocuments
  /\ stage # "documents" => ~optional /\ ~asAttrs /\ format = "yaml"
  /\ InitInner
  /\ stage # "inner" => /\ innerForm = "struct" /\ ~innerSheet.document /\ ~innerSheet.optional
                       /\ innerSheet.columns = CHOOSE present \in InnerColumns : TRUE
  /\ InitStoring
  /\ stage # "storing" => outKind = "merge"
  /\ Init
  /\ stage # "merging" =>
       broken = Importers /\ content = [i \in Importers |-> CHOOSE c \in Contents : TRUE]
  /\ InitLoading
  /\ stage # "loading" => source = "conf" /\ files = {0} /\ patchOpt = "none"

AtRest(s, v) == stage # s /\ UNCHANGED v

StepOfStage ==
  /\ UNCHANGED stage
  /\ (stage = "index" /\ NextIndex) \/ AtRest("index", indexVars)
  /\ (stage = "books" /\ NextBooks) \/ AtRest("books", bookVars)
  /\ (stage = "options" /\ NextHeaderOptions) \/ AtRest("options", headerOptionVars)
  /\ (stage = "headers" /\ NextHeaders) \/ AtRest("headers", headerVars)
  /\ (stage = "rows" /\ NextRow) \/ AtRest("rows", rowVars)
  /\ (stage = "types" /\ NextTypes) \/ AtRest("types", typeVars)
  /\ (stage = "documents" /\ NextDocuments) \/ AtRest("documents", documentVars)
  /\ (stage = "numbers" /\ NextNumbers) \/ AtRest("numbers", numberVars)
  /\ (stage = "values" /\ NextValues) \/ AtRest("values", valueVars)
  /\ (stage = "inner" /\ NextInner) \/ AtRest("inner", innerVars)
  /\ (stage = "storing" /\ NextStoring) \/ AtRest("storing", outVars)
  /\ (stage = "merging" /\ Next) \/ AtRest("merging", vars)
  /\ (stage = "loading" /\ NextLoading) \/ AtRest("loading", loadVars)
  /\ (stage = "errors" /\ NextErrors) \/ AtRest("errors", errorVars)

\* Every stage but the merge may be over at any time.
NextStages == StepOfStage \/ (stage # "merging" /\ UNCHANGED stageVars)

SpecStages == InitStages /\ [][NextStages]_stageVars
=============================================================================
