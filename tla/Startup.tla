--------------------------------- MODULE Startup ---------------------------------
(***************************************************************************)
(* The lifespan of app/main.py up to and past the point where it serves:   *)
(* generate the dataset if there is none, load it into the store if that   *)
(* is empty, build the index from the store; then the flushes that change  *)
(* both.  The process may die at any moment and is started again with the  *)
(* files it left.                                                          *)
(*                                                                         *)
(* The index is SuggestionTrie.  A flush is one query here: how batches    *)
(* come about and reach the cache is in TypeaheadService.                  *)
(***************************************************************************)
EXTENDS SuggestionTrie, Integers

CONSTANTS
  Datasets,   \* what the dataset may be: sequences of rows
  Batch,      \* batch of bulk_load_csv()
  MaxCrashes  \* bound of the model: ends of the process

ASSUME StartupAssumption ==
  /\ \A rows \in Datasets : rows \in Seq([query : Queries, count : 0..MaxCount])
  /\ Queries # {}
  /\ Batch \in Nat \ {0}
  /\ MaxCrashes \in Nat

VARIABLES
  dataset,      \* the rows of the dataset, written or not
  csv,          \* whole rows in the file of dataset_path, or NoFile
  torn,         \* what the loader reads in a row after them that was cut off
  store,        \* table queries of the database file: query -> count
  phase,        \* where the process is
  loaded,       \* rows that bulk_load_csv() has committed
  fresh,        \* the query between apply_batch() and trie.insert()
  flushed,      \* history: query -> searches committed, over all processes
  interrupted,  \* history: has a process died while it wrote the file or loaded it?
  crashes

NoFile == -1
fileVars == <<dataset, csv, torn>>
vars == <<trieVars, fileVars, store, phase, loaded, fresh, flushed, interrupted, crashes>>

(* The file as csv.DictReader returns it. *)
FileRows == SubSeq(dataset, 1, csv) \o torn

TypeOK ==
  /\ TrieTypeOK
  /\ dataset \in Datasets /\ csv \in NoFile..Len(dataset)
  /\ torn = <<>> \/ \E q \in Queries, c \in 0..MaxCount : torn = <<[query |-> q, count |-> c]>>
  /\ DOMAIN store \subseteq Queries /\ store \in [DOMAIN store -> Nat]
  /\ phase \in {"open", "generate", "load", "build", "serve", "refresh"}
  /\ loaded \in 0..Len(dataset)
  /\ fresh \in Queries
  /\ flushed \in [Queries -> Nat]
  /\ interrupted \in BOOLEAN
  /\ crashes \in 0..MaxCrashes

(* No database yet; the CSV is there or is to be generated. *)
Init ==
  /\ TrieInit
  /\ dataset \in Datasets /\ csv \in {NoFile, Len(dataset)} /\ torn = <<>>
  /\ store = <<>>
  /\ phase = "open" /\ loaded = 0
  /\ fresh = CHOOSE q \in Queries : TRUE
  /\ flushed = [q \in Queries |-> 0]
  /\ interrupted = FALSE /\ crashes = 0

--------------------------------------------------------------------------------
(* Plausible bugs, for the mutation runs: loading whatever the store has,  *)
(* and forgetting the rows of the last, incomplete chunk.                  *)
MustLoadAlways == TRUE
AllLoadedButTheRest == Len(FileRows) - loaded < Batch

(* Is the store empty, so that the dataset has to be loaded? *)
MustLoad == store = <<>>

(* is_empty(), and _ensure_dataset() up to the opening of the file. *)
Open ==
  /\ phase = "open"
  /\ phase' = IF ~MustLoad THEN "build" ELSE IF csv = NoFile THEN "generate" ELSE "load"
  /\ csv' = IF MustLoad /\ csv = NoFile THEN 0 ELSE csv
  /\ UNCHANGED <<trieVars, dataset, torn, store, loaded, fresh, flushed, interrupted, crashes>>

(* generate(): row after row goes to the file, by way of its buffer. *)
WriteRow ==
  /\ phase = "generate" /\ csv < Len(dataset)
  /\ csv' = csv + 1
  /\ UNCHANGED <<trieVars, dataset, torn, store, phase, loaded, fresh, flushed, interrupted, crashes>>

GenerateReturns ==
  /\ phase = "generate" /\ csv = Len(dataset)
  /\ phase' = "load"
  /\ UNCHANGED <<trieVars, fileVars, store, loaded, fresh, flushed, interrupted, crashes>>

--------------------------------------------------------------------------------
(* bulk_load_csv().                                                        *)

AllLoaded == loaded = Len(FileRows)
ChunkEnd == Min({loaded + Batch, Len(FileRows)})

(* INSERT OR REPLACE of a chunk of rows: the last row of a query wins. *)
RowsOf(rows, q) == {i \in DOMAIN rows : rows[i].query = q}
Replaced(f, rows) ==
  [q \in DOMAIN f \cup {rows[i].query : i \in DOMAIN rows} |->
     IF RowsOf(rows, q) = {} THEN f[q] ELSE rows[Max(RowsOf(rows, q))].count]

(* _insert_many(): one transaction for each chunk. *)
LoadChunk ==
  /\ phase = "load" /\ ~AllLoaded
  /\ loaded' = ChunkEnd
  /\ store' = Replaced(store, SubSeq(FileRows, loaded + 1, loaded'))
  /\ UNCHANGED <<trieVars, fileVars, phase, fresh, flushed, interrupted, crashes>>

LoadReturns ==
  /\ phase = "load" /\ AllLoaded
  /\ phase' = "build"
  /\ UNCHANGED <<trieVars, fileVars, store, loaded, fresh, flushed, interrupted, crashes>>

--------------------------------------------------------------------------------
(* The index, and what changes it once the service runs.                   *)

(* build_index_from_store(), rows in an order of SQLite's choosing. *)
BuildIndex ==
  /\ phase = "build"
  /\ \E order \in SetToSeqs(DOMAIN store) : BulkInsert(store, order)
  /\ phase' = "serve"
  /\ UNCHANGED <<fileVars, store, loaded, fresh, flushed, interrupted, crashes>>

CountIn(f, q) == IF q \in DOMAIN f THEN f[q] ELSE 0

(* apply_batch(): d searches for q are committed ... *)
ApplyBatch(q, d) ==
  /\ phase = "serve" /\ CountIn(store, q) + d <= MaxCount
  /\ store' = [r \in DOMAIN store \cup {q} |->
                 IF r = q THEN CountIn(store, q) + d ELSE store[r]]
  /\ flushed' = [flushed EXCEPT ![q] = @ + d]
  /\ phase' = "refresh" /\ fresh' = q
  /\ UNCHANGED <<trieVars, fileVars, loaded, interrupted, crashes>>

(* ... and its new count goes to the index. *)
Refresh ==
  /\ phase = "refresh"
  /\ Insert(fresh, store[fresh])
  /\ phase' = "serve"
  /\ UNCHANGED <<fileVars, store, loaded, fresh, flushed, interrupted, crashes>>

(* What the loader takes a row for of which the file has only a part: a    *)
(* query cut short, or all of it with no count, counts 0; a count cut      *)
(* short counts its leading digits, int("") not being a number.            *)
LeadingDigits(n) == {c \in 0..n : \E k \in 0..n : c = n \div 10^k}
Cuts(row) ==
  {[query |-> q, count |-> 0] : q \in Prefixes(row.query) \cap Queries}
    \cup {[query |-> row.query, count |-> c] : c \in LeadingDigits(row.count)}

(* The process ends and another one starts: files stay, memory does not.   *)
(* A file that was being written ends where its buffer was written last,   *)
(* between two rows or within one.                                         *)
ProcessEnds ==
  /\ crashes < MaxCrashes
  /\ crashes' = crashes + 1
  /\ interrupted' = (interrupted \/ phase \in {"generate", "load"})
  /\ \/ UNCHANGED torn
     \/ /\ phase = "generate" /\ csv < Len(dataset)
        /\ \E row \in Cuts(dataset[csv + 1]) : torn' = <<row>>
  /\ phase' = "open" /\ loaded' = 0
  /\ top' = [p \in Paths |-> <<>>] /\ size' = 0 /\ count' = <<>> /\ built' = FALSE
  /\ UNCHANGED <<dataset, csv, store, fresh, flushed>>

Next ==
  \/ Open \/ WriteRow \/ GenerateReturns \/ LoadChunk \/ LoadReturns \/ BuildIndex
  \/ \E q \in Queries, d \in 1..MaxCount : ApplyBatch(q, d)
  \/ Refresh \/ ProcessEnds

Spec == Init /\ [][Next]_vars

--------------------------------------------------------------------------------
(* Properties.                                                             *)

CountOfRows(q) == {0} \cup {FileRows[i].count : i \in RowsOf(FileRows, q)}

(* Searches outlive restarts: INSERT OR REPLACE never runs over a count    *)
(* that searches have raised, whatever was interrupted before.  A count is *)
(* the searches flushed and what a row of the file says, be it a cut one.  *)
SearchesOutliveRestarts ==
  \A q \in Queries : \E base \in CountOfRows(q) : CountIn(store, q) = base + flushed[q]

(* What app/main.py says of a startup: the store is populated from the     *)
(* dataset CSV, so whatever serves finds every query of the dataset.       *)
DatasetServed ==
  built => \A i \in DOMAIN dataset : dataset[i].query \in DOMAIN store

(* A startup that was never interrupted serves the whole dataset, and the  *)
(* index has every row of the store.                                       *)
UninterruptedStartServesAll ==
  built => /\ ~interrupted => DatasetServed
           /\ phase = "serve" => count = store
================================================================================
