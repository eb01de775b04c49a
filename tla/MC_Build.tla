------------------------------ MODULE MC_Build ------------------------------
EXTENDS ChromiumBuild

patch(p, t) == [kind |-> "patch", path |-> p, text |-> t]
copy(p, t) == [kind |-> "copy", path |-> p, text |-> t]

\* The tag has the files of the nearest edits. DEPS has changed since. Another version is as
\* far, and is listed later. DEPS and .electron.gni are not recorded: their patches were
\* written by hand.
MCShipped ==
  [v \in {"near", "also"} |->
     IF v = "near"
     THEN {patch("m", {"ipfs"}), patch("DEPS", {"ipfs"}), patch(".electron.gni", {"more"}),
           copy("a", {"ipfs"})}
     ELSE {patch("m", {"more"})}]
MCUpstream == {patch("m", {"ipfs", "more"}), copy("a", {"ipfs", "more"}), copy("n/x", {"more"})}
MCDistance == [v \in Version |-> IF v = Tag THEN 0 ELSE 5]
MCNameLength == [v \in Version |-> 1]
MCListed == [v \in Version |-> IF v = "near" THEN 1 ELSE IF v = Tag THEN 2 ELSE 3]
=============================================================================
