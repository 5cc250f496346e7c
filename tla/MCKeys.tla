------------------------------- MODULE MCKeys -------------------------------
(***************************************************************************)
(* The checker of keys of lab 8 by itself, for the run that ends early.    *)
(***************************************************************************)
EXTENDS KeyCheck

(* The empty key, and two that begin alike, as "id" and "id_str" do. *)
SomeTexts == {<<"quote", "quote">>, <<"quote", "a", "quote">>, <<"quote", "a", "b", "quote">>}

=============================================================================
