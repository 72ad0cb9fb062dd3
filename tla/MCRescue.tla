------------------------------ MODULE MCRescue ------------------------------
(* Documents with an escape that JSON does not have, for TLC. *)
EXTENDS JsonRescue

MCDocuments == {Scalar("array", <<Scalar("string", s)>>) :
                  s \in {<<"a">>, <<"accent">>, <<"newline">>, <<"a", "bad">>}}
=============================================================================
