---------------------------- MODULE MCOptimizer ----------------------------
(* A small instance of Optimizer. *)
EXTENDS Optimizer

MCValues == {-10, 0, 10, 20}
MCMinima == {-10, 0}
MCMaxFevals == {-1, 9}
MCNSteps == {-1, 1, 2}
MCBoxes == {<< <<0, 200>>, <<-200, 200>>, <<0, 400>> >>, << <<200, 204>>, <<40, 80>> >>}
MCSamples == {n \in -450 .. 650 : n % 23 = 0} \cup {0, 199, 200, 201}
MCStarts == {-180, 0, 2, 12, 44, 60, 100, 200, 202}
=============================================================================
