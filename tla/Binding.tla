------------------------------ MODULE Binding -------------------------------
(***************************************************************************)
(* With(v, F) is F(v).  A LET or an operator argument stands for its       *)
(* expression wherever it is mentioned; With binds the value to a variable *)
(* first, as an assignment in the code does, so that the results of long   *)
(* calls are not spelled out, and computed, again at every mention.        *)
(***************************************************************************)

With(v, F(_)) == CHOOSE y \in {F(x) : x \in {v}} : TRUE
=============================================================================
