------------------------------ MODULE Selection ------------------------------
(***************************************************************************)
(* What analyze() and remove() have in common: a tree on a disk that others *)
(* use too, walked entry by entry (profiler/scan.rs, analysis/walk.rs), the *)
(* criteria that select entries of it (remove_filter.rs, analysis/          *)
(* filter.rs), and a session of calls made with the same criteria.          *)
(*                                                                          *)
(* An Option is the empty set for None and a singleton for Some.            *)
(***************************************************************************)
EXTENDS Outcomes, FiniteSetsExt

CONSTANTS
  Order,      (* What a walk that follows links yields, the root first.      *)
  Kind,       (* "file", "dir", "link" and "dirlink" to one, "loop".         *)
  Depth,      (* Depth of each item below the root.                          *)
  Above,      (* The items each one is inside of.                            *)
  Object,     (* The directory entry that unlinking a file or link removes.  *)
  Target,     (* The object whose bytes are read through the item.           *)
  Ext,        (* Extension in lower case, "" when there is none.             *)
  Modified,   (* Option of the modification time.                            *)
  Excluded,   (* The items each glob pattern matches; {} for a bad pattern.  *)
  BadPattern, (* Patterns that do not compile.                               *)
  Content,    (* Contents of files.                                          *)
  SizeOf,     (* Size of each content.                                       *)
  Disks,      (* Disks to begin with.                                        *)
  Queries,    (* Criteria to try.                                            *)
  Flaky,      (* Items whose metadata, bytes or entries may fail to be read. *)
  Changes,    (* Changes <<object, content>> another process may make.       *)
  Edits,      (* Bound: changes another process makes to the disk.           *)
  Calls       (* Bound: calls in a session.                                  *)

Item    == {Order[n] : n \in DOMAIN Order}
Objects == {Object[i] : i \in Item} \cup {Target[i] : i \in Item}
Gone    == "gone"

(* A walk yields each item once, after what it is inside of, which are      *)
(* directories or links to them; sizes and times are numbers, and one       *)
(* content is that of empty files.                                          *)
ASSUME SelectionAssumption ==
  /\ Order \in Seq(Item) /\ \A m, n \in DOMAIN Order : Order[m] = Order[n] => m = n
  /\ \A n \in DOMAIN Order : Above[Order[n]] \subseteq {Order[m] : m \in 1 .. n - 1}
  /\ \A i \in Item : /\ Above[i] \subseteq {a \in Item : Kind[a] \in {"dir", "dirlink"}}
                     /\ Kind[i] = "file" => Object[i] = Target[i]
                     /\ Modified[i] \subseteq Int /\ \A s, t \in Modified[i] : s = t
  /\ \A q \in Queries : /\ q.filter.min \cup q.filter.max \subseteq Nat
                        /\ q.filter.after \cup q.filter.before \subseteq Int
  /\ SizeOf \in [Content -> Nat] /\ Gone \notin Content
  /\ \A x, y \in Content : SizeOf[x] = 0 /\ SizeOf[y] = 0 => x = y
  /\ Disks \subseteq [Objects -> Content \cup {Gone}]
  /\ \A q \in Queries : \A i \in q.single : i \in Item /\ Kind[i] = "file"

VARIABLES
  disk,       (* Content of each object, Gone when it does not exist.        *)
  edits,      (* Changes made by another process so far.                     *)
  query,      (* [filter, depth, follow, single] of the whole session;       *)
              (* single is the file a call has for root, if it has.          *)
  calls,      (* Calls begun.                                                *)
  pc,         (* Where the running call is; "idle" between calls.            *)
  at,         (* Position of the walk.                                       *)
  cancelled,  (* The call's CancellationToken.                               *)
  answer      (* What the last call resolved to: "ok" or the kind of error.  *)

world   == <<disk, edits>>
callVars == <<query, calls, pc, at, cancelled, answer>>

NoFilter == [extensions |-> {}, patterns |-> {}, min |-> {}, max |-> {},
             after |-> {}, before |-> {}]

-----------------------------------------------------------------------------
(* The walk.                                                                *)
Follow == query.follow
Single == query.single # {}
Within(i) == \A d \in query.depth : Depth[i] <= d
Behind(i) == \E a \in Above[i] : Kind[a] = "dirlink"
There(i)  == Kind[i] \in {"file", "link"} => disk[Object[i]] # Gone

(* A link not followed is neither a file nor a directory; a root that is a  *)
(* file is read without a walk, and has to exist.                           *)
Met(i) == IF Single THEN i \in query.single
          ELSE Within(i) /\ There(i) /\ (Behind(i) => Follow)
TypeOf(i) ==
  CASE Single -> IF There(i) THEN "file" ELSE "error"
    [] ~Single /\ Kind[i] \in {"file", "dir"} -> Kind[i]
    [] ~Single /\ Kind[i] = "dirlink" /\ Follow -> "dir"
    [] ~Single /\ Kind[i] = "link" /\ Follow /\ disk[Target[i]] # Gone -> "file"
    [] OTHER -> IF Follow THEN "error" ELSE "other"

(* A directory at the greatest depth is not read.                           *)
Opened(i) == TypeOf(i) = "dir" /\ \A d \in query.depth : Depth[i] < d

Walked_OnCancel == at > Len(Order) \/ cancelled
Walked == at > Len(Order)
Here   == Order[at]
EntryAt(i) == [item |-> i, size |-> SizeOf[disk[Target[i]]]]
ItemsOf(entries) == {e.item : e \in entries}

-----------------------------------------------------------------------------
(* The criteria.                                                            *)
InRange_HighOnly(x, low, high) == \A h \in high : x <= h
InRange(x, low, high) == (\A l \in low : x >= l) /\ (\A h \in high : x <= h)

(* The filters AND together; a file without a modification time never       *)
(* passes a time criterion, one without extension never an extension one.   *)
Passes_AnyTime(e) ==
  LET f == query.filter IN
  /\ \A S \in f.extensions : Ext[e.item] # "" /\ Ext[e.item] \in S
  /\ InRange(e.size, f.min, f.max)
  /\ \A t \in Modified[e.item] : InRange(t, f.after, f.before)
Passes_NoExtension(e) ==
  LET f == query.filter IN
  /\ \A S \in f.extensions : Ext[e.item] # "" => Ext[e.item] \in S
  /\ InRange(e.size, f.min, f.max)
  /\ f.after \cup f.before # {} =>
       \E t \in Modified[e.item] : InRange(t, f.after, f.before)
Passes(e) ==
  LET f == query.filter IN
  /\ \A S \in f.extensions : Ext[e.item] # "" /\ Ext[e.item] \in S
  /\ InRange(e.size, f.min, f.max)
  /\ f.after \cup f.before # {} =>
       \E t \in Modified[e.item] : InRange(t, f.after, f.before)

IsEmpty(f) == f = NoFilter
IsExcluded(i) == \E p \in query.filter.patterns : i \in Excluded[p]
Compiles == query.filter.patterns \cap BadPattern = {}

Resolve(error) == pc' = "idle" /\ answer' = error

-----------------------------------------------------------------------------
(* The caller and the other users of the disk.                              *)
Cancel ==
  /\ pc # "idle" /\ ~cancelled
  /\ cancelled' = TRUE
  /\ UNCHANGED <<world, query, calls, pc, at, answer>>

Edit(o, c) ==
  /\ edits < Edits /\ disk[o] # c /\ <<o, c>> \in Changes
  /\ disk' = [disk EXCEPT ![o] = c]
  /\ edits' = edits + 1
  /\ UNCHANGED callVars
=============================================================================
