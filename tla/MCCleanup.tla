------------------------------ MODULE MCCleanup ------------------------------
(* Two files in the root, a directory with a third, a link to the first, a  *)
(* link to the directory (and the third file through it), and a link cycle. *)
EXTENDS Cleanup

CONSTANTS root, a, b, old, c, link, dirlink, through, loop, bad

MCOrder == <<root, a, b, old, c, link, dirlink, through, loop>>
MCKind == [i \in Item |-> CASE i \in {root, old} -> "dir" [] i = link -> "link"
             [] i = dirlink -> "dirlink" [] i = loop -> "loop" [] OTHER -> "file"]
MCDepth == [i \in Item |-> CASE i = root -> 0 [] i \in {c, through} -> 2
              [] i = loop -> 3 [] OTHER -> 1]
MCAbove == [i \in Item |-> CASE i = root -> {} [] i = c -> {root, old}
              [] i = through -> {root, dirlink} [] OTHER -> {root}]
MCObject == [i \in Item |-> IF i = through THEN c ELSE i]
MCTarget == [i \in Item |-> CASE i = through -> c [] i = link -> a [] OTHER -> i]
MCExt == [i \in Item |-> CASE i \in {a, c, through} -> "log" [] i = b -> "" [] OTHER -> "txt"]
MCModified == [i \in Item |-> CASE i = a -> {400} [] i = b -> {} [] OTHER -> {50}]
MCExcluded == [p \in {old, b, bad} |-> IF p = bad THEN {} ELSE {p}]
MCSizeOf == [x \in {"empty", "x", "y", "zz"} |-> CASE x = "empty" -> 0 [] x = "zz" -> 2 [] OTHER -> 1]

MCDisk(x, y, z) == [o \in Objects |-> CASE o = a -> x [] o = b -> y [] o = c -> z [] OTHER -> "empty"]
MCDisks == {MCDisk("x", "y", "y"), MCDisk("empty", "zz", "empty")}
MCChanges == {<<a, Gone>>, <<c, "x">>}

Query(f, depth, follow) == [filter |-> f, depth |-> depth, follow |-> follow, single |-> {}]
MCQueries ==
  {Query(NoFilter, {}, FALSE), Query([NoFilter EXCEPT !.extensions = {{"log"}}], {2}, TRUE),
   Query([NoFilter EXCEPT !.min = {2}], {3}, TRUE),
   Query([NoFilter EXCEPT !.extensions = {{"log"}}, !.patterns = {old}], {}, FALSE),
   Query([NoFilter EXCEPT !.min = {1}, !.after = {60}], {1}, FALSE),
   Query([NoFilter EXCEPT !.max = {1}, !.before = {399}, !.patterns = {b}], {}, FALSE),
   Query([NoFilter EXCEPT !.patterns = {bad}], {}, FALSE),
   [Query(NoFilter, {}, FALSE) EXCEPT !.single = {a}]}

MCRemoveOptions ==
  {o \in [dry : BOOLEAN, hard : BOOLEAN, strategy : Strategies, allow : BOOLEAN] :
     /\ o.dry => o.hard /\ o.allow /\ o.strategy = "Undo"
     /\ ~(o.hard /\ o.allow) => (o.hard \/ o.allow) /\ o.strategy = "AbortOnError"}

MCAnalysisOptions ==
  {[topN |-> n[1], estimate |-> n[2], duplicates |-> n[3], abort |-> n[4], maxErrors |-> n[5],
    maxGroups |-> n[6], workers |-> n[7]] :
   n \in {<<2, TRUE, FALSE, FALSE, 1, 1, 1>>, <<1, FALSE, TRUE, FALSE, 1, 1, 0>>,
          <<0, FALSE, TRUE, TRUE, 0, 0, 2>>}}
=============================================================================
