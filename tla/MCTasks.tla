------------------------------- MODULE MCTasks ------------------------------
(* Instances of Tasks for TLC. *)
EXTENDS Tasks, TLC, FiniteSets

CONSTANTS j1, j2, j3, r1

OneRequest == [j \in Jobs |-> r1]

Keys == {"hello", "quiet", "sync", "more", "gone"}

Fn(name, sig, async) == [name |-> name, sig |-> sig, async |-> async]

\* Two modules that come up; then a key used twice, in one module or in two,
\* and signatures that are refused after a sound declaration.
Sound == <<<<Fn("hello", "model", TRUE), Fn("quiet", "none", TRUE)>>,
           <<>>,
           <<Fn("sync", "none", FALSE), Fn("more", "modelAndMore", TRUE)>>>>

Deployments ==
  {Sound,
   <<Sound[1], <<Fn("hello", "none", TRUE)>>>>,
   <<<<Fn("quiet", "none", TRUE), Fn("quiet", "none", TRUE)>>>>,
   <<Sound[1], <<Fn("more", "noPayload", TRUE)>>>>,
   <<<<Fn("sync", "none", FALSE), Fn("more", "otherPayload", TRUE)>>>>}

Ask(name, fits) == [name |-> name, fits |-> fits]

\* At most one of the jobs asks for something unusual.
Usual == {Ask("hello", TRUE), Ask("gone", TRUE)}
Unusual ==
  {Ask("hello", FALSE), Ask("quiet", FALSE), Ask("sync", TRUE), Ask("more", TRUE)}

Asked ==
  {a \in [Jobs -> Usual \cup Unusual] :
     Cardinality({j \in Jobs : a[j] \in Unusual}) <= 1}

JobSymmetry == Permutations(Jobs)
=============================================================================
