------------------------------ MODULE MCRunLoop ----------------------------
(***************************************************************************)
(* Two instances that take over from each other; one that is restarted,    *)
(* over three blocks so that an order can win again; two orders; and one   *)
(* instance with each of the faults.                                       *)
(***************************************************************************)
EXTENDS RunLoop

CONSTANTS i1, i2, o1, o2

MCSetup(I, O, b, n, F) ==
    [instances |-> I, orders |-> O, blocks |-> b, stops |-> n,
     restarts |-> Cardinality(I) = 1, faults |-> F]

MCSetups ==
    {MCSetup({i1, i2}, {o1}, 2, 1, {}), MCSetup({i1}, {o1}, 3, 1, {}),
     MCSetup({i1}, {o1, o2}, 2, 0, {}), MCSetup({i1}, {o1}, 2, 1, {"sessions"}),
     MCSetup({i1}, {o1}, 2, 0, {"database"}), MCSetup({i1}, {o1}, 2, 0, {"maintenance"})}

\* An instance restarted without any fault.
MCRestart == {MCSetup({i1}, {o1}, 3, 1, {})}
=============================================================================
