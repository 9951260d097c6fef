------------------------------ MODULE MCStartUp ------------------------------
(***************************************************************************)
(* Three instances with process numbers of different lengths; one of them  *)
(* may have a wrong folder or no proper lock file.                         *)
(***************************************************************************)
EXTENDS StartUp, TLC

CONSTANTS i1, i2, i3

NewLine == 10
PidOf == i1 :> <<1, 0, NewLine>> @@ i2 :> <<9, NewLine>> @@ i3 :> <<1, 1, NewLine>>

Good == [www |-> TRUE, lock |-> "path"]
ConfigsOf ==
  {[i \in {i1, i2, i3} |-> IF i = i2 THEN c ELSE Good] :
     c \in {Good, [Good EXCEPT !.www = FALSE], [Good EXCEPT !.lock = "empty"],
            [Good EXCEPT !.lock = "unset"]}}
=============================================================================
