------------------------------- MODULE MCLive -------------------------------
(* A page with two areas to look at.                                       *)
EXTENDS Live

MCViews == {"camp", "far"}
MCMaxCalls == [k \in Kinds |-> 1]

=============================================================================
