-------------------------- MODULE MCStageSchedule --------------------------
(* Instances of StageSchedule for TLC: pure stages of one and two variables, *)
(* reductions over one and two RVars, with and without a pure argument, of   *)
(* each algebra, at extents that the factors divide and do not divide.       *)
EXTENDS StageSchedule

CONSTANTS x, y, rx, ry, i, j, ri, rj

Symmetric == Permutations({i, j}) \cup Permutations({ri, rj})

Def(init, args, rvars, impure, algebra, ext, for, directives) ==
    [init |-> init, vars |-> IF init THEN args ELSE <<x>>, args |-> args, rvars |-> rvars, impure |-> impure,
     algebra |-> algebra, ext |-> ext, for |-> for, directives |-> directives]

Pure(args, ext, directives) == Def(TRUE, args, << >>, {}, "none", ext, "serial", directives)

\* f(x) or f(hist(rx)), updated over rx, or over rx and ry.
Update(args, rvars, impure, algebra, ext, directives) ==
    Def(FALSE, args, rvars, impure, algebra, ext, "serial", directives)

One == (x :> 5) @@ (rx :> 4) @@ (ry :> 3)
Two == (x :> 4) @@ (rx :> 3) @@ (ry :> 2)

PureStages ==
    {Pure(<<x>>, x :> 7, 3), Pure(<<x>>, x :> 4, 2),
     Pure(<<x, y>>, (x :> 4) @@ (y :> 3), 2),
     Def(TRUE, <<x>>, << >>, {}, "none", x :> 5, "extern", 1)}

Updates ==
    {Update(<<x>>, <<rx>>, {rx}, a, One, 2) : a \in {"none", "associative", "commutative"}} \cup
    {Update(<< >>, <<rx, ry>>, {rx, ry}, a, One, 2) : a \in {"none", "associative", "commutative"}} \cup
    {Update(<<x>>, <<rx, ry>>, {ry}, a, Two, 1) : a \in {"none", "associative", "commutative"}}

All == PureStages \cup Updates
=============================================================================
