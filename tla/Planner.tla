------------------------------- MODULE Planner -------------------------------
(***************************************************************************)
(* planner/plan.rs, batch.rs and config.rs, and the head of dispatch: how a *)
(* list of scanned entries becomes the sequence of units the engine runs.   *)
(* Pure functions of the entries and the BatchConfig.  size is a function   *)
(* on the entries; sums of sizes are assumed to stay below 2^64.            *)
(***************************************************************************)
EXTENDS Naturals, FiniteSets, SequencesExt

FallbackMaxFiles == 1000

(* The entries of a list that are in K, in the order of the list.           *)
Only(list, K) ==
  FoldLeft(LAMBDA kept, e : IF e \in K THEN Append(kept, e) ELSE kept, <<>>, list)

(* Workload::partition: an entry exactly at the threshold is small.         *)
Small_Below(entries, size, threshold) ==
  Only(entries, {e \in ToSet(entries) : size[e] < threshold})
Small(entries, size, threshold) == Only(entries, {e \in ToSet(entries) : size[e] <= threshold})
Large(entries, size, threshold) == Only(entries, {e \in ToSet(entries) : size[e] > threshold})

(* sort_by_key is stable: equal sizes keep the order of the scan.  Place k  *)
(* is for the entry that k - 1 others come before.                          *)
Comes(i, j, entries, size, order) ==
  LET x == size[entries[i]]
      y == size[entries[j]]
  IN (IF order = "Ascending" THEN x < y ELSE x > y) \/ (x = y /\ i < j)

Earlier(i, entries, size, order) == {j \in DOMAIN entries : Comes(j, i, entries, size, order)}

SortedPlace(k, entries, size, order) ==
  CHOOSE i \in DOMAIN entries : Cardinality(Earlier(i, entries, size, order)) = k - 1

Sorted(entries, size, order) ==
  [k \in DOMAIN entries |-> entries[SortedPlace(k, entries, size, order)]]

(* median_size: the middle size, or the rounded mean of the middle two.     *)
Middle(sorted, mid, size) ==
  CASE sorted = <<>> -> 0
    [] sorted # <<>> /\ Len(sorted) % 2 = 0 -> (size[sorted[mid]] + size[sorted[mid + 1]]) \div 2
    [] OTHER -> size[sorted[mid + 1]]

MedianSize(sorted, size) == Middle(sorted, Len(sorted) \div 2, size)

(* resolved_max_files_per_batch; maxFiles is {} for None, {n} for Some(n).  *)
FilesPerBatch(config, median) ==
  CASE config.maxFiles # {} -> CHOOSE n \in config.maxFiles : TRUE
    [] config.maxFiles = {} /\ median = 0 -> FallbackMaxFiles
    [] OTHER -> IF config.maxBytes < median THEN 1 ELSE config.maxBytes \div median

MaxFiles(entries, size, config) ==
  FilesPerBatch(config, MedianSize(Sorted(entries, size, "Ascending"), size))

Bytes(entries, size) == SumFunction([i \in DOMAIN entries |-> size[entries[i]]])

(* Must the batch be closed before e is placed?  An empty one never is.     *)
Full_AfterPlacing(batch, e, size, maxBytes, limit) ==
  batch # <<>> /\ (Bytes(batch, size) > maxBytes \/ Len(batch) >= limit)
Full(batch, e, size, maxBytes, limit) ==
  batch # <<>> /\ (Bytes(batch, size) + size[e] > maxBytes \/ Len(batch) >= limit)

(* pack: the last batch is the current one.                                 *)
Placed(batches, e, size, maxBytes, limit) ==
  IF Full(Last(batches), e, size, maxBytes, limit)
  THEN Append(batches, <<e>>)
  ELSE [batches EXCEPT ![Len(batches)] = Append(@, e)]

Packed(sorted, size, maxBytes, limit) ==
  FoldLeft(LAMBDA batches, e : Placed(batches, e, size, maxBytes, limit), <<<<>>>>, sorted)

Pack(entries, size, config) ==
  IF entries = <<>> THEN <<>>
  ELSE Packed(Sorted(entries, size, config.order), size, config.maxBytes,
              MaxFiles(entries, size, config))

(* min_by_key: the first of the smallest streams.                           *)
Calibration(streams, size) ==
  CHOOSE i \in DOMAIN streams : \A j \in DOMAIN streams :
    size[streams[i]] < size[streams[j]] \/ (size[streams[i]] = size[streams[j]] /\ i <= j)

InUnits(kind, lists) == [i \in DOMAIN lists |-> [kind |-> kind, entries |-> lists[i]]]
Alone(list) == [i \in DOMAIN list |-> <<list[i]>>]

(* plan() and the unit queue of dispatch(): the calibration stream, the     *)
(* batches, the other streams.                                              *)
Queued(streams, first, batches) ==
  InUnits("stream", <<<<streams[first]>>>>) \o InUnits("batch", batches)
    \o InUnits("stream", Alone(RemoveAt(streams, first)))

UnitsOf(entries, size, threshold, config) ==
  IF Large(entries, size, threshold) = <<>>
  THEN InUnits("batch", Pack(Small(entries, size, threshold), size, config))
  ELSE Queued(Large(entries, size, threshold), Calibration(Large(entries, size, threshold), size),
              Pack(Small(entries, size, threshold), size, config))

-----------------------------------------------------------------------------
(* What a queue of units has to be, whatever way it is computed.            *)
Streams(units) == {u \in DOMAIN units : units[u].kind = "stream"}
Batches(units) == {u \in DOMAIN units : units[u].kind = "batch"}

(* Every entry is in one place, and streamed if it is over the threshold.   *)
RightPlaces(units, entries, size, threshold) ==
  /\ UNION {ToSet(units[u].entries) : u \in DOMAIN units} = ToSet(entries)
  /\ \A u, v \in DOMAIN units : \A i \in DOMAIN units[u].entries, j \in DOMAIN units[v].entries :
       units[u].entries[i] = units[v].entries[j] => u = v /\ i = j
  /\ \A u \in DOMAIN units : \A e \in ToSet(units[u].entries) :
       u \in Streams(units) <=> size[e] > threshold

(* A stream is one entry, and one of the smallest of them leads the queue.  *)
RightStreams(units, size) ==
  \A u \in Streams(units) :
    /\ Len(units[u].entries) = 1
    /\ 1 \in Streams(units) /\ size[units[1].entries[1]] <= size[units[u].entries[1]]

(* The batches follow one another.  None is empty, each keeps to both       *)
(* budgets unless it is a single entry, and none was closed while the first *)
(* entry of the next still fitted.                                          *)
RightBatches(units, size, maxBytes, limit) ==
  /\ \A u, w \in Batches(units) : u .. w \subseteq Batches(units)
  /\ \A u \in Batches(units) : LET batch == units[u].entries IN
       /\ Len(batch) = 1 \/ (Len(batch) \in 1 .. limit /\ Bytes(batch, size) <= maxBytes)
       /\ u + 1 \in Batches(units) =>
            \/ Bytes(batch, size) + size[units[u + 1].entries[1]] > maxBytes
            \/ Len(batch) >= limit

RightUnits(units, entries, size, threshold, config) ==
  /\ RightPlaces(units, entries, size, threshold)
  /\ RightStreams(units, size)
  /\ RightBatches(units, size, config.maxBytes,
                  MaxFiles(Small(entries, size, threshold), size, config))
=============================================================================
