------------------------------ MODULE MCMethodsPage ------------------------------
(* Three methods; an operator who touches one share, the notes, a second card *)
(* or one pie of up to three slices.                                           *)
EXTENDS MethodsPage

ASSUME OfferedMethods == {Id(i) : i \in Offered} = {"get_organization_logo", "get_module_state", Report}
ASSUME FoundMethods == {{Id(i) : i \in s} : s \in Searches} = {{Report}}

Word == Text("word")
Typed == [k \in {"val_pct_active", "detail_notes"} |->
  IF k = "val_pct_active" THEN {Num(200)} ELSE {Text("long")}]
Cards == {Card(Word, Num(1), Word)}
Pies == {Pie(Word, Num(45120), <<>>)}
Slices == {Slice(Word, Num(100))}

\* A second card or a pie: the two lists are validated one after the other.
IsSmall == Len(dash.cards) + Len(dash.pies) <= 2
================================================================================
