----------------------------- MODULE MCViewPort -----------------------------
(* An instance of ViewPort for TLC. *)
EXTENDS ViewPort

\* In the middle of a sector.
MCSpawns == {<<1050, 1050>>}

\* More than two movement frames, along the axes and one diagonal.
MCMoves == {<<100, 0>>, <<-100, 0>>, <<0, 100>>, <<0, -100>>,
            <<100, 100>>, <<-100, -100>>}
=============================================================================
