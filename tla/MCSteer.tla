-------------------------------- MODULE MCSteer --------------------------------
(* A small instance of Steer: what parse_cpulist makes of "", "2,1" and "1,3", *)
(* with three possible cpus.                                                    *)
EXTENDS Steer, TLC

ListsChecked == {<<>>, <<2, 1>>, <<1, 3>>}
HashesChecked == 0 .. 5
\* Objects are interchangeable, and so are interfaces.
Symmetric == Permutations(Objects) \cup Permutations(Ifaces)
=============================================================================
