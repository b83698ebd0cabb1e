-------------------------- MODULE MCOutputManifest --------------------------
(* A page in the root and one two directories down; one builder with two   *)
(* profiles, and a policy whose extensions leave one path untracked.       *)
EXTENDS OutputManifest, TLC

CONSTANTS page, post, blog, year, dev, release, html, wide, narrow, w1

MCPaths == {page, post}
MCDirs == {blog, year}
MCAbove == [x \in Paths \cup Dirs |->
    CASE x = post -> {blog, year} [] x = year -> {blog} [] OTHER -> {}]
MCOwners == {dev, release}
MCOneOwner == {dev}
MCBuilders == {html}
MCBuilderOf == [o \in Owners |-> html]
MCPolicies == {wide, narrow}
MCOnePolicy == {wide}
MCManaged == [y \in Policies |-> IF y = wide THEN Paths ELSE {page}]
MCNoCuts == [p \in Paths |-> {}]
MCCuts == [p \in Paths |-> IF p = post THEN {page} ELSE {}]
MCOneWriter == {w1}
MCProfiles == Permutations(MCOwners)
=============================================================================
