-------------------------- MODULE MCWorkbookIndex --------------------------
(* Three directories, one of whose texts begins with another one, and a      *)
(* workbook that only it has.                                                *)
EXTENDS WorkbookIndex

MCBookDirs == {<<"a">>, <<"b">>, <<"a", "b">>}
MCBookFiles == {BookAt(dir, "x") : dir \in MCBookDirs} \cup {BookAt(<<"a", "b">>, "y")}
=============================================================================
