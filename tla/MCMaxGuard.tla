------------------------------ MODULE MCMaxGuard -----------------------------
EXTENDS MaxGuard, TLC

CONSTANTS a, b, p, q

\* Two sessions of one project, which share its allowance.
SharedProject == (a :> p @@ b :> p)
\* Two sessions of different projects, which share the lane.
OwnProjects == (a :> p @@ b :> q)
\* An override for one request and one for any number.
BothGrants == {[extra |-> 1, uses |-> 1], [extra |-> 1, uses |-> Unlimited]}
\* One session, without and with a project.
NoProjects == (a :> NoProject)
OneProject == (a :> p)
NoGrants == {}

Symmetry == Permutations(Requests)
==============================================================================
