---- MODULE StaticBundle ----
(***************************************************************************)
(* scripts/sync-static.mjs: the built Workbench replaces the files under   *)
(* wwwroot/playground that the service hands out.  Every await may be the  *)
(* last step of a run; a later build runs the script from the start.       *)
(***************************************************************************)
EXTENDS Naturals

CONSTANTS
  Builds,      \* the source trees built
  MaxInstants  \* bound: the moments of a prerender

ASSUME BundleAssumption == MaxInstants \in Nat \ {0}

VARIABLES
  dist,     \* the built tree
  target,   \* what wwwroot/playground holds
  at        \* the statement the script is at, or how its last run ended

bundleVars == <<dist, target, at>>

\* A tree: the builds that left files in it, the one its index.html is of, and the
\* instant of the prerender in there, 0 where there is none.
Tree(files, index, stamp) == [files |-> files, index |-> index, stamp |-> stamp]
NoTree == Tree({}, "none", 0)
BuiltTrees(stamps) == {Tree({b}, b, n) : b \in Builds, n \in stamps}

\* `pnpm build` begins; a build may fail and leave no index.html, and a prerender
\* may leave no timestamp to recognise.
Build ==
  /\ at \in {"idle", "failed", "done"}
  /\ dist' \in BuiltTrees(0..MaxInstants) \union {NoTree}
  /\ at' = "stat"
  /\ UNCHANGED target

\* Nothing is removed where there is no index.html to put in its place.
Stat ==
  /\ at = "stat"
  /\ at' = IF dist = NoTree THEN "failed" ELSE "rm"
  /\ UNCHANGED <<dist, target>>

\* Variant: the former files stay where they are.
RemoveNothing ==
  /\ at = "rm"
  /\ at' = "mkdir"
  /\ UNCHANGED <<dist, target>>

Remove ==
  /\ at = "rm"
  /\ target' = NoTree
  /\ at' = "mkdir"
  /\ UNCHANGED dist

\* An empty directory, or the one that is there.
MakeDirectory ==
  /\ at = "mkdir"
  /\ at' = "cp"
  /\ UNCHANGED <<dist, target>>

\* Files are added and overwritten; what has another name stays.
CopiedOver(index, stamp) == Tree(target.files \union dist.files, index, stamp)

Copy ==
  /\ at = "cp"
  /\ target' = CopiedOver(dist.index, dist.stamp)
  /\ at' = "read"
  /\ UNCHANGED dist

\* With no timestamp to recognise the script throws.
Read ==
  /\ at = "read"
  /\ at' = IF target.stamp = 0 THEN "failed" ELSE "write"
  /\ UNCHANGED <<dist, target>>

\* The instant of the prerender becomes 0.
Write ==
  /\ at = "write"
  /\ target' = [target EXCEPT !.stamp = 0]
  /\ at' = "done"
  /\ UNCHANGED dist

\* What a statement that was not completed may leave.
Partly ==
  CASE at = "rm" -> {Tree(target.files, "none", 0), NoTree}
    [] at = "cp" -> {CopiedOver(target.index, target.stamp), CopiedOver("torn", 0),
                     CopiedOver(dist.index, dist.stamp)}
    [] at = "write" -> {Tree(target.files, "torn", 0)}
    [] OTHER -> {}

\* A statement fails, or the process is stopped in the middle of it.
Stopped ==
  /\ at \in {"stat", "rm", "mkdir", "cp", "read", "write"}
  /\ at' = "failed"
  /\ target' \in {target} \union Partly
  /\ UNCHANGED dist

BundleInit ==
  /\ dist = NoTree /\ at = "idle"
  /\ target \in BuiltTrees({0}) \union {NoTree}

BundleNext ==
  Build \/ Stat \/ Remove \/ MakeDirectory \/ Copy \/ Read \/ Write \/ Stopped

BundleSpec == BundleInit /\ [][BundleNext]_bundleVars

(***************************************************************************)
(* Properties.                                                             *)
(***************************************************************************)
\* README.md:299-300, "synchronizes it reproducibly": a run that ends well leaves the
\* files of this build and no others, without the instant of its prerender, whatever
\* earlier runs left behind; and the files of the former build are only ever given
\* up when a complete new build is there to copy.
BundleReproducible ==
  [][/\ at' = "done" /\ at # "done" => target' = [dist EXCEPT !.stamp = 0]
     /\ target' # target => dist # NoTree]_bundleVars
====
