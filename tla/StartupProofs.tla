------------------------------ MODULE StartupProofs ------------------------------
(***************************************************************************)
(* What the lifespan of app/main.py may rely on, for every dataset, batch  *)
(* size and number of processes that die at any step: counts that searches *)
(* have raised outlive every restart, a start that was not interrupted     *)
(* serves every row, and the index built then, and kept by flushes, is     *)
(* exact.                                                                  *)
(*                                                                         *)
(* The store decides whether the dataset is loaded, so the invariant says  *)
(* in every phase what an empty store, and one with rows, is evidence of.  *)
(***************************************************************************)
EXTENDS Startup, SuggestionTrieProofs

Row == [query : Queries, count : 0..MaxCount]
DatasetLoaded == \A i \in DOMAIN dataset : dataset[i].query \in DOMAIN store

(* The files and the phases of the process. *)
FilesOK ==
  /\ dataset \in Datasets /\ csv \in NoFile..Len(dataset)
  /\ torn = <<>> \/ \E q \in Queries, c \in 0..MaxCount : torn = <<[query |-> q, count |-> c]>>
  /\ torn # <<>> => interrupted /\ phase # "generate" /\ csv # NoFile /\ csv # Len(dataset)
  /\ DOMAIN store \subseteq Queries /\ store \in [DOMAIN store -> Nat]
  /\ phase \in {"open", "generate", "load", "build", "serve", "refresh"}
  /\ loaded \in 0..Len(dataset)
  /\ fresh \in Queries
  /\ flushed \in [Queries -> Nat]
  /\ interrupted \in BOOLEAN
  /\ crashes \in 0..MaxCrashes

(* Searches have been flushed only to a store that is not empty, and not   *)
(* while it is loaded.                                                     *)
NothingFlushedYet ==
  DOMAIN store = {} \/ phase \in {"generate", "load"} => \A q \in Queries : flushed[q] = 0

(* Where the file and the loading of it stand. *)
LoadingStands ==
  /\ csv = NoFile => phase = "open" /\ DOMAIN store = {}
  /\ phase = "open" => loaded = 0
  /\ phase = "generate" => DOMAIN store = {} /\ loaded = 0
  /\ phase = "load" => /\ loaded <= Len(FileRows)
                       /\ \A i \in 1..loaded : FileRows[i].query \in DOMAIN store

(* While nothing has been interrupted, the file is complete and a store    *)
(* with rows has them all.                                                 *)
NothingMissing ==
  ~interrupted =>
    /\ phase # "generate" => csv \in {NoFile, Len(dataset)}
    /\ phase = "open" => DOMAIN store = {} \/ DatasetLoaded
    /\ phase \in {"build", "serve", "refresh"} => DatasetLoaded

(* The index has what the store has, but for the query between its commit  *)
(* and its insertion.                                                      *)
IndexStands ==
  /\ built <=> phase \in {"serve", "refresh"}
  /\ phase = "serve" => count = store
  /\ phase = "refresh" => /\ fresh \in DOMAIN store
                          /\ store = Grown(count, fresh, store[fresh])
                          /\ fresh \in Indexed => store[fresh] > count[fresh]

IInv ==
  /\ TrieInv /\ FilesOK /\ SearchesOutliveRestarts
  /\ NothingFlushedYet /\ LoadingStands /\ NothingMissing /\ IndexStands

--------------------------------------------------------------------------------
(* Lemmas.                                                                 *)

LEMMA MaxOfPositions ==
  ASSUME NEW n \in Nat, NEW S \in SUBSET (1..n), S # {}
  PROVE  Max(S) \in S
<1> DEFINE T == {n - i : i \in S}
<1>1. T \in SUBSET Nat /\ T # {}
  <2>1. \A i \in S : n - i \in Nat
    OBVIOUS
  <2>2. PICK i \in S : TRUE
    OBVIOUS
  <2>3. n - i \in T
    BY <2>2
  <2> QED
    BY <2>1, <2>3
<1>2. PICK m \in T : \A k \in T : m <= k
  <2> HIDE DEF T
  <2> QED
    BY <1>1, LeastNat
<1>3. PICK x \in S : m = n - x
  BY <1>2
<1>4. \A y \in S : x >= y
  <2> TAKE y \in S
  <2>1. n - y \in T /\ x \in Int /\ y \in Int
    OBVIOUS
  <2>2. n - x <= n - y
    BY <1>2, <1>3, <2>1
  <2> QED
    BY <2>1, <2>2
<1> QED
  BY <1>3, <1>4 DEF Max

LEMMA DatasetType ==
  ASSUME FilesOK
  PROVE  /\ dataset \in Seq(Row) /\ Len(dataset) \in Nat /\ DOMAIN dataset = 1..Len(dataset)
         /\ \A i \in DOMAIN dataset : dataset[i].query \in Queries /\ dataset[i].count \in Nat
<1>1. dataset \in Seq(Row)
  BY StartupAssumption DEF FilesOK, Row
<1>2. \A i \in DOMAIN dataset : dataset[i] \in Row
  BY <1>1, ElementOfSeq
<1> QED
  BY <1>1, <1>2, TrieAssumption DEF Row

(* The file as the loader reads it, with a cut row at its end or without. *)
LEMMA FileType ==
  ASSUME FilesOK, csv # NoFile
  PROVE  /\ FileRows \in Seq(Row) /\ Len(FileRows) \in Nat
         /\ DOMAIN FileRows = 1..Len(FileRows)
         /\ csv <= Len(FileRows) /\ Len(FileRows) <= Len(dataset)
         /\ \A i \in DOMAIN FileRows : FileRows[i].query \in Queries /\ FileRows[i].count \in Nat
         /\ torn = <<>> /\ csv = Len(dataset) => FileRows = dataset
<1> DEFINE whole == SubSeq(dataset, 1, csv)
<1>1. /\ dataset \in Seq(Row) /\ Len(dataset) \in Nat
      /\ csv \in Nat /\ csv <= Len(dataset)
  BY DatasetType DEF FilesOK, NoFile
<1>2. whole \in Seq(Row) /\ Len(whole) = csv
  BY <1>1, SubSeqProperties
<1>3. torn \in Seq(Row) /\ Len(torn) \in {0, 1} /\ (torn # <<>> => csv # Len(dataset))
  <2>1. CASE torn = <<>>
    BY <2>1
  <2>2. CASE \E q \in Queries, c \in 0..MaxCount : torn = <<[query |-> q, count |-> c]>>
    BY <2>2 DEF Row, FilesOK
  <2> QED
    BY <2>1, <2>2 DEF FilesOK
<1>4. torn = <<>> => Len(torn) = 0
  OBVIOUS
<1>5. torn # <<>> \/ Len(torn) = 0
  BY <1>4
<1> HIDE DEF whole
<1>6. FileRows \in Seq(Row) /\ Len(FileRows) = csv + Len(torn)
  BY <1>2, <1>3, ConcatProperties DEF FileRows, whole
<1>7. csv <= Len(FileRows) /\ Len(FileRows) <= Len(dataset) /\ Len(FileRows) \in Nat
  <2>1. csv = Len(dataset) => Len(torn) = 0
    BY <1>3, <1>5
  <2>2. Len(torn) \in {0, 1} /\ Len(FileRows) = csv + Len(torn)
    BY <1>3, <1>6
  <2>3. \A m, n \in Nat, k \in {0, 1} :
          m <= n /\ (m = n => k = 0) => m <= m + k /\ m + k <= n /\ m + k \in Nat
    OBVIOUS
  <2> QED
    BY <1>1, <2>1, <2>2, <2>3
<1>8. \A i \in DOMAIN FileRows : FileRows[i] \in Row
  BY <1>6, ElementOfSeq
<1>9. ASSUME torn = <<>>, csv = Len(dataset) PROVE FileRows = dataset
  <2>1. whole = dataset
    BY <1>1, <1>9 DEF whole
  <2>2. whole \o <<>> = whole
    BY <1>2
  <2> QED
    BY <1>9, <2>1, <2>2 DEF FileRows, whole
<1> QED
  BY <1>6, <1>7, <1>8, <1>9, TrieAssumption DEF Row

StoreOK(f) == DOMAIN f \subseteq Queries /\ f \in [DOMAIN f -> Nat]
Loaded(f, rows, a, b) == Replaced(f, SubSeq(rows, a + 1, b))
LoadedProperly(f, rows, a, b, g) ==
  /\ DOMAIN g = DOMAIN f \cup {rows[i].query : i \in (a + 1)..b}
  /\ StoreOK(g)
  /\ \A q \in DOMAIN g :
       \/ q \in DOMAIN f /\ g[q] = f[q]
       \/ \E i \in (a + 1)..b : rows[i].query = q /\ g[q] = rows[i].count

(* INSERT OR REPLACE of the rows from a + 1 to b. *)
LEMMA ReplacedProperties ==
  ASSUME NEW f, StoreOK(f), NEW rows \in Seq(Row),
         NEW a \in Nat, NEW b \in Nat, a <= b, b <= Len(rows)
  PROVE  LoadedProperly(f, rows, a, b, Loaded(f, rows, a, b))
<1> DEFINE chunk == SubSeq(rows, a + 1, b)
           n == b - a
           g == Loaded(f, rows, a, b)
<1>0. g = Replaced(f, chunk) /\ DOMAIN f \subseteq Queries /\ f \in [DOMAIN f -> Nat]
  BY DEF Loaded, StoreOK
<1>1. /\ chunk \in Seq(Row) /\ Len(chunk) = n /\ n \in Nat /\ DOMAIN chunk = 1..n
      /\ \A i \in 1..n : chunk[i] = rows[a + i]
  BY SubSeqProperties
<1> HIDE DEF g
<1>2. \A i \in 1..n : a + i \in (a + 1)..b
  OBVIOUS
<1>3. \A i \in (a + 1)..b : i - a \in 1..n /\ a + (i - a) = i
  OBVIOUS
<1>4. \A i \in DOMAIN chunk : chunk[i] \in Row
  BY <1>1, ElementOfSeq
<1> HIDE DEF chunk, n
<1>5. {chunk[i].query : i \in DOMAIN chunk} = {rows[i].query : i \in (a + 1)..b}
  <2>1. \A i \in DOMAIN chunk : \E j \in (a + 1)..b : chunk[i].query = rows[j].query
    BY <1>1, <1>2
  <2>2. \A j \in (a + 1)..b : \E i \in DOMAIN chunk : chunk[i].query = rows[j].query
    BY <1>1, <1>3
  <2> QED
    BY <2>1, <2>2
<1>6. DOMAIN g = DOMAIN f \cup {rows[i].query : i \in (a + 1)..b}
  BY <1>0, <1>5 DEF Replaced
<1>7. DOMAIN g \subseteq Queries
  <2>1. \A i \in DOMAIN chunk : chunk[i].query \in Queries
    BY <1>4 DEF Row
  <2> QED
    BY <1>0, <1>5, <1>6, <2>1
<1>8. ASSUME NEW q \in DOMAIN g
      PROVE  /\ g[q] \in Nat
             /\ \/ q \in DOMAIN f /\ g[q] = f[q]
                \/ \E i \in (a + 1)..b : rows[i].query = q /\ g[q] = rows[i].count
  <2>1. g[q] = IF RowsOf(chunk, q) = {} THEN f[q] ELSE chunk[Max(RowsOf(chunk, q))].count
    BY <1>0 DEF Replaced
  <2>2. CASE RowsOf(chunk, q) = {}
    <3>1. q \notin {chunk[i].query : i \in DOMAIN chunk}
      BY <2>2 DEF RowsOf
    <3>2. q \in DOMAIN f
      BY <1>5, <1>6, <3>1
    <3> QED
      BY <1>0, <2>1, <2>2, <3>2
  <2>3. CASE RowsOf(chunk, q) # {}
    <3>1. RowsOf(chunk, q) \in SUBSET (1..n)
      BY <1>1 DEF RowsOf
    <3>2. Max(RowsOf(chunk, q)) \in RowsOf(chunk, q)
      BY <1>1, <2>3, <3>1, MaxOfPositions
    <3>3. PICK i \in DOMAIN chunk : chunk[i].query = q /\ g[q] = chunk[i].count
      BY <2>1, <2>3, <3>2 DEF RowsOf
    <3>4. g[q] \in Nat
      BY <1>4, <3>3, TrieAssumption DEF Row
    <3> QED
      BY <1>1, <1>2, <3>3, <3>4
  <2> QED
    BY <2>2, <2>3
<1>9. g \in [DOMAIN g -> Nat]
  <2>1. g = [q \in DOMAIN g |-> g[q]]
    BY <1>0 DEF Replaced
  <2> QED
    BY <1>8, <2>1
<1> QED
  BY <1>6, <1>7, <1>8, <1>9 DEF StoreOK, LoadedProperly, g

LEMMA EmptyStore ==
  ASSUME NEW f, f \in [DOMAIN f -> Nat]
  PROVE  f = <<>> <=> DOMAIN f = {}
<1>1. DOMAIN <<>> = {}
  OBVIOUS
<1>2. ASSUME DOMAIN f = {} PROVE f = <<>>
  BY <1>2
<1> QED
  BY <1>1, <1>2

Committed(f, q, d) ==
  [r \in DOMAIN f \cup {q} |-> IF r = q THEN CountIn(f, q) + d ELSE f[r]]

CommittedProperly(f, q, d, g) ==
  /\ DOMAIN g = DOMAIN f \cup {q} /\ StoreOK(g)
  /\ g = Grown(f, q, g[q])
  /\ q \in DOMAIN f => g[q] > f[q]
  /\ \A r \in Queries \ {q} : CountIn(g, r) = CountIn(f, r)
  /\ CountIn(g, q) = CountIn(f, q) + d

(* Committing d searches is what the index will see as a grown count. *)
LEMMA CommittedGrows ==
  ASSUME NEW f, StoreOK(f), NEW q \in Queries, NEW d \in Nat \ {0}
  PROVE  CommittedProperly(f, q, d, Committed(f, q, d))
<1> DEFINE g == Committed(f, q, d)
<1>1. \A r \in DOMAIN f : f[r] \in Nat
  BY DEF StoreOK
<1>2. CountIn(f, q) \in Nat /\ (q \in DOMAIN f => CountIn(f, q) = f[q])
  BY <1>1 DEF CountIn
<1>3. DOMAIN g = DOMAIN f \cup {q} /\ g[q] = CountIn(f, q) + d /\ \A r \in DOMAIN f \ {q} : g[r] = f[r]
  BY DEF Committed
<1>4. StoreOK(g)
  <2>1. DOMAIN g \subseteq Queries
    BY <1>3 DEF StoreOK
  <2>2. g \in [DOMAIN f \cup {q} -> Nat]
    BY <1>1, <1>2 DEF Committed
  <2> QED
    BY <1>3, <2>1, <2>2 DEF StoreOK
<1>5. g = Grown(f, q, g[q])
  BY <1>3 DEF Committed, Grown
<1>6. q \in DOMAIN f => g[q] > f[q]
  BY <1>1, <1>2, <1>3
<1>7. CountIn(g, q) = CountIn(f, q) + d
  BY <1>3 DEF CountIn
<1>8. \A r \in Queries \ {q} : CountIn(g, r) = CountIn(f, r)
  BY <1>3 DEF CountIn
<1> QED
  BY <1>3, <1>4, <1>5, <1>6, <1>7, <1>8 DEF CommittedProperly

--------------------------------------------------------------------------------
(* The invariant.                                                          *)

LEMMA InitInv == Init => IInv
<1> SUFFICES ASSUME Init PROVE IInv
  OBVIOUS
<1>1. TrieInv /\ built = FALSE
  BY TrieInitInv DEF Init, TrieInit
<1>2. /\ dataset \in Datasets
      /\ Len(dataset) \in Nat /\ csv \in {NoFile, Len(dataset)}
  <2>1. dataset \in Seq(Row)
    BY StartupAssumption DEF Init, Row
  <2>2. Len(dataset) \in Nat
    BY <2>1
  <2> QED
    BY <2>2 DEF Init
<1>3. DOMAIN store = {} /\ store \in [DOMAIN store -> Nat]
  BY DEF Init
<1>4. fresh \in Queries
  BY StartupAssumption DEF Init
<1>5. FilesOK
  <2>1. csv \in NoFile..Len(dataset) /\ loaded \in 0..Len(dataset) /\ crashes \in 0..MaxCrashes
    BY <1>2, StartupAssumption DEF Init, NoFile
  <2> QED
    BY <1>2, <1>3, <1>4, <2>1 DEF Init, FilesOK
<1>6. SearchesOutliveRestarts
  <2> SUFFICES ASSUME NEW q \in Queries PROVE \E base \in CountOfRows(q) : CountIn(store, q) = base + flushed[q]
    BY DEF SearchesOutliveRestarts
  <2>1. CountIn(store, q) = 0 /\ flushed[q] = 0 /\ 0 \in CountOfRows(q)
    BY <1>3 DEF CountIn, CountOfRows, Init
  <2> QED
    BY <2>1
<1>7. NothingFlushedYet
  BY DEF Init, NothingFlushedYet
<1>8. LoadingStands
  BY DEF Init, LoadingStands
<1>9. NothingMissing
  BY <1>2, <1>3 DEF Init, NothingMissing
<1>10. IndexStands
  BY <1>1 DEF Init, IndexStands
<1> QED
  BY <1>1, <1>5, <1>6, <1>7, <1>8, <1>9, <1>10 DEF IInv

(* What the steps that leave index and store alone have in common. *)
LEMMA SameIndexInv == TrieInv /\ UNCHANGED trieVars => TrieInv'
BY DEF trieVars, TrieInv, Indexed

LEMMA SameFile == UNCHANGED fileVars => FileRows' = FileRows
BY DEF fileVars, FileRows

LEMMA SameCounts ==
  SearchesOutliveRestarts /\ UNCHANGED <<fileVars, store, flushed>> => SearchesOutliveRestarts'
BY DEF SearchesOutliveRestarts, CountOfRows, RowsOf, FileRows, CountIn, fileVars

(* What the steps that write the file have in common. *)
LEMMA EmptyCounts ==
  ASSUME DOMAIN store' = {}, \A q \in Queries : flushed'[q] = 0
  PROVE  SearchesOutliveRestarts'
<1> SUFFICES ASSUME NEW q \in Queries
             PROVE  \E base \in CountOfRows(q)' : CountIn(store', q) = base + flushed'[q]
  BY DEF SearchesOutliveRestarts
<1>1. CountIn(store', q) = 0 /\ flushed'[q] = 0 /\ 0 \in CountOfRows(q)'
  BY DEF CountIn, CountOfRows
<1> QED
  BY <1>1

LEMMA OpenInv == IInv /\ Open => IInv'
<1> SUFFICES ASSUME IInv, Open PROVE IInv'
  OBVIOUS
<1>1. TrieInv'
  BY SameIndexInv DEF Open, IInv
<1>2. store = <<>> <=> DOMAIN store = {}
  BY EmptyStore DEF IInv, FilesOK
<1>10. SearchesOutliveRestarts'
  <2>1. CASE MustLoad
    <3>1. DOMAIN store' = {} /\ \A q \in Queries : flushed'[q] = 0
      BY <1>2, <2>1 DEF Open, IInv, NothingFlushedYet, MustLoad
    <3> QED
      BY <3>1, EmptyCounts
  <2>2. CASE ~MustLoad
    BY <2>2, SameCounts DEF Open, IInv, fileVars
  <2> QED
    BY <2>1, <2>2
<1>3. Len(dataset) \in Nat /\ csv \in Int
  BY DatasetType DEF IInv, FilesOK, NoFile
<1>4. phase = "open" /\ loaded = 0 /\ loaded' = loaded
  BY DEF Open, IInv, LoadingStands
<1>5. FilesOK'
  BY <1>3 DEF Open, IInv, FilesOK, MustLoad, NoFile
<1>6. NothingFlushedYet'
  BY <1>2 DEF Open, IInv, NothingFlushedYet, MustLoad
<1>7. LoadingStands'
  BY <1>2, <1>3, <1>4 DEF Open, IInv, LoadingStands, MustLoad, FilesOK, NoFile
<1>8. NothingMissing'
  BY <1>2, <1>4 DEF Open, IInv, NothingMissing, MustLoad, DatasetLoaded, NoFile
<1>9. IndexStands'
  BY DEF Open, IInv, IndexStands, trieVars
<1> QED
  BY <1>1, <1>10, <1>5, <1>6, <1>7, <1>8, <1>9 DEF IInv

LEMMA WriteRowInv == IInv /\ WriteRow => IInv'
<1> SUFFICES ASSUME IInv, WriteRow PROVE IInv'
  OBVIOUS
<1>1. TrieInv' /\ SearchesOutliveRestarts'
  <2>1. DOMAIN store' = {} /\ \A q \in Queries : flushed'[q] = 0
    BY DEF WriteRow, IInv, LoadingStands, NothingFlushedYet
  <2> QED
    BY <2>1, SameIndexInv, EmptyCounts DEF WriteRow, IInv
<1>2. Len(dataset) \in Nat /\ csv \in Nat
  BY DatasetType DEF WriteRow, IInv, FilesOK, LoadingStands, NoFile
<1>3. FilesOK'
  BY <1>2 DEF WriteRow, IInv, FilesOK, NoFile
<1>4. NothingFlushedYet' /\ NothingMissing'
  BY DEF WriteRow, IInv, NothingFlushedYet, NothingMissing
<1>5. LoadingStands'
  BY <1>2 DEF WriteRow, IInv, LoadingStands, NoFile
<1>6. IndexStands'
  BY DEF WriteRow, IInv, IndexStands, trieVars
<1> QED
  BY <1>1, <1>3, <1>4, <1>5, <1>6 DEF IInv

LEMMA GenerateReturnsInv == IInv /\ GenerateReturns => IInv'
<1> SUFFICES ASSUME IInv, GenerateReturns PROVE IInv'
  OBVIOUS
<1>1. TrieInv' /\ SearchesOutliveRestarts'
  BY SameIndexInv, SameCounts DEF GenerateReturns, IInv, fileVars
<1>2. Len(dataset) \in Nat /\ loaded = 0
  BY DatasetType DEF GenerateReturns, IInv, LoadingStands
<1>3. FilesOK'
  BY DEF GenerateReturns, IInv, FilesOK, fileVars
<1>4. NothingFlushedYet' /\ NothingMissing'
  BY DEF GenerateReturns, IInv, NothingFlushedYet, NothingMissing, fileVars
<1>5. LoadingStands'
  <2>1. csv # NoFile /\ FilesOK
    BY DEF GenerateReturns, IInv, LoadingStands
  <2>2. Len(FileRows) \in Nat
    BY <2>1, FileType
  <2> QED
    BY <1>2, <2>1, <2>2, SameFile DEF GenerateReturns, LoadingStands, fileVars
<1>6. IndexStands'
  BY DEF GenerateReturns, IInv, IndexStands, trieVars
<1> QED
  BY <1>1, <1>3, <1>4, <1>5, <1>6 DEF IInv

LEMMA LoadChunkInv == IInv /\ LoadChunk => IInv'
<1> SUFFICES ASSUME IInv, LoadChunk PROVE IInv'
  OBVIOUS
<1> DEFINE end == ChunkEnd
           n == Len(FileRows)
<1>0. csv # NoFile /\ FilesOK
  BY DEF IInv, LoadingStands, LoadChunk
<1>1. /\ FileRows \in Seq(Row) /\ Len(FileRows) \in Nat /\ DOMAIN FileRows = 1..Len(FileRows)
      /\ Len(dataset) \in Nat /\ Len(FileRows) <= Len(dataset)
      /\ loaded \in Nat /\ loaded <= Len(FileRows)
      /\ StoreOK(store) /\ phase = "load" /\ loaded # Len(FileRows)
  BY <1>0, FileType, DatasetType DEF IInv, FilesOK, StoreOK, LoadingStands, LoadChunk, AllLoaded
<1>15. n \in Nat /\ Len(dataset) \in Nat /\ n <= Len(dataset) /\ loaded \in Nat /\ loaded <= n
  BY <1>1
<1>16. end = Min({loaded + Batch, n}) /\ DOMAIN FileRows = 1..n
  BY <1>1 DEF ChunkEnd
<1> HIDE DEF n, end
<1>2. end \in Nat /\ loaded <= end /\ end <= n /\ end <= Len(dataset)
  <2>1. loaded + Batch \in Int /\ loaded <= loaded + Batch
    BY <1>15, StartupAssumption
  <2>2. end = IF loaded + Batch <= n THEN loaded + Batch ELSE n
    BY <1>15, <1>16, <2>1, MinOfTwo
  <2> QED
    BY <1>15, <2>1, <2>2
<1>3. loaded' = end /\ store' = Loaded(store, FileRows, loaded, end)
  BY DEF LoadChunk, Loaded, end
<1>4. /\ DOMAIN store' = DOMAIN store \cup {FileRows[i].query : i \in (loaded + 1)..end}
      /\ StoreOK(store')
      /\ \A q \in DOMAIN store' :
           \/ q \in DOMAIN store /\ store'[q] = store[q]
           \/ \E i \in (loaded + 1)..end : FileRows[i].query = q /\ store'[q] = FileRows[i].count
  <2>1. LoadedProperly(store, FileRows, loaded, end, store')
    <3>1. end <= Len(FileRows)
      BY <1>2 DEF n
    <3> QED
      BY <1>1, <1>2, <1>3, <3>1, ReplacedProperties
  <2> QED
    BY <2>1 DEF LoadedProperly
<1>5. \A i \in (loaded + 1)..end : i \in DOMAIN FileRows
  BY <1>2, <1>15, <1>16
<1>14. FileRows' = FileRows /\ csv' = csv
  BY DEF LoadChunk, FileRows, fileVars
<1>6. TrieInv'
  BY SameIndexInv DEF LoadChunk, IInv
<1>7. \A q \in Queries : flushed[q] = 0
  BY <1>1 DEF IInv, NothingFlushedYet
<1>8. SearchesOutliveRestarts'
  <2> SUFFICES ASSUME NEW q \in Queries
               PROVE  \E base \in CountOfRows(q)' : CountIn(store', q) = base + flushed'[q]
    BY DEF SearchesOutliveRestarts
  <2>1. flushed' = flushed /\ CountOfRows(q)' = CountOfRows(q)
    BY <1>14 DEF LoadChunk, CountOfRows, RowsOf
  <2>2. PICK base \in CountOfRows(q) : CountIn(store, q) = base + flushed[q]
    BY DEF IInv, SearchesOutliveRestarts
  <2>3. \A b \in CountOfRows(q) : b \in Nat
    BY <1>0, FileType DEF CountOfRows, RowsOf
  <2>4. CountIn(store', q) \in CountOfRows(q)
    <3>1. CASE q \notin DOMAIN store'
      BY <3>1 DEF CountIn, CountOfRows
    <3>2. CASE q \in DOMAIN store' /\ q \in DOMAIN store /\ store'[q] = store[q]
      <4>1. CountIn(store', q) = CountIn(store, q)
        BY <3>2 DEF CountIn
      <4>2. CountIn(store, q) = base
        BY <1>7, <2>2, <2>3
      <4> QED
        BY <4>1, <4>2
    <3>3. ASSUME q \in DOMAIN store', NEW i \in (loaded + 1)..end,
                 FileRows[i].query = q, store'[q] = FileRows[i].count
          PROVE  CountIn(store', q) \in CountOfRows(q)
      BY <1>5, <3>3 DEF CountIn, CountOfRows, RowsOf
    <3> QED
      BY <1>4, <3>1, <3>2, <3>3
  <2>5. CountIn(store', q) = CountIn(store', q) + flushed'[q]
    BY <1>7, <2>1, <2>3, <2>4
  <2> QED
    BY <2>1, <2>4, <2>5
<1>9. FilesOK'
  <2>1. loaded' \in 0..Len(dataset')
    BY <1>2, <1>3, <1>15 DEF LoadChunk, fileVars
  <2> QED
    BY <1>4, <2>1 DEF LoadChunk, IInv, FilesOK, StoreOK, fileVars
<1>10. NothingFlushedYet'
  BY <1>7 DEF LoadChunk, NothingFlushedYet
<1>11. LoadingStands'
  <2>1. \A i \in 1..end : i \in 1..loaded \/ i \in (loaded + 1)..end
    BY <1>2, <1>15
  <2>2. \A i \in 1..end : FileRows[i].query \in DOMAIN store'
    BY <1>1, <1>4, <2>1 DEF IInv, LoadingStands
  <2> QED
    BY <1>0, <1>1, <1>2, <1>3, <1>14, <2>2 DEF LoadChunk, LoadingStands, n
<1>12. NothingMissing'
  BY <1>1 DEF LoadChunk, IInv, NothingMissing, fileVars
<1>13. IndexStands'
  BY <1>1 DEF LoadChunk, IInv, IndexStands, trieVars
<1> QED
  BY <1>6, <1>8, <1>9, <1>10, <1>11, <1>12, <1>13 DEF IInv

LEMMA LoadReturnsInv == IInv /\ LoadReturns => IInv'
<1> SUFFICES ASSUME IInv, LoadReturns PROVE IInv'
  OBVIOUS
<1>1. TrieInv' /\ SearchesOutliveRestarts'
  BY SameIndexInv, SameCounts DEF LoadReturns, IInv, fileVars
<1>2. DOMAIN dataset = 1..Len(dataset) /\ Len(dataset) \in Nat /\ loaded \in Nat
  BY DatasetType DEF IInv, FilesOK
<1>3. FilesOK'
  BY DEF LoadReturns, IInv, FilesOK, fileVars
<1>4. NothingFlushedYet' /\ LoadingStands'
  BY SameFile DEF LoadReturns, IInv, NothingFlushedYet, LoadingStands, fileVars
<1>5. NothingMissing'
  <2> SUFFICES ASSUME ~interrupted PROVE csv \in {NoFile, Len(dataset)} /\ DatasetLoaded
    BY DEF LoadReturns, NothingMissing, DatasetLoaded, fileVars
  <2>1. csv = Len(dataset) /\ csv # NoFile /\ torn = <<>> /\ FilesOK
    BY DEF LoadReturns, IInv, FilesOK, NothingMissing, LoadingStands
  <2>2. FileRows = dataset
    BY <2>1, FileType
  <2> QED
    BY <1>2, <2>1, <2>2 DEF LoadReturns, IInv, LoadingStands, AllLoaded, DatasetLoaded
<1>6. IndexStands'
  BY DEF LoadReturns, IInv, IndexStands, trieVars
<1> QED
  BY <1>1, <1>3, <1>4, <1>5, <1>6 DEF IInv

LEMMA BuildIndexInv == IInv /\ BuildIndex => IInv' /\ Indexed = {}
<1> SUFFICES ASSUME IInv, BuildIndex PROVE IInv' /\ Indexed = {}
  OBVIOUS
<1>1. PICK order \in SetToSeqs(DOMAIN store) : BulkInsert(store, order)
  BY DEF BuildIndex
<1>2. DOMAIN store \in SUBSET Queries /\ store \in [DOMAIN store -> Nat] /\ TrieInv
  BY DEF IInv, FilesOK
<1>3. TrieInv' /\ count' = store /\ built' = TRUE /\ Indexed = {}
  BY <1>1, <1>2, BulkInsertInv
<1>4. SearchesOutliveRestarts'
  BY SameCounts DEF BuildIndex, IInv, fileVars
<1>5. FilesOK'
  BY DEF BuildIndex, IInv, FilesOK, fileVars
<1>6. NothingFlushedYet' /\ LoadingStands'
  BY SameFile DEF BuildIndex, IInv, NothingFlushedYet, LoadingStands, fileVars
<1>7. NothingMissing'
  BY DEF BuildIndex, IInv, NothingMissing, DatasetLoaded, fileVars
<1>8. IndexStands'
  BY <1>3 DEF BuildIndex, IndexStands
<1> QED
  BY <1>3, <1>4, <1>5, <1>6, <1>7, <1>8 DEF IInv

LEMMA ApplyBatchInv ==
  ASSUME IInv, NEW q \in Queries, NEW d \in 1..MaxCount, ApplyBatch(q, d)
  PROVE  IInv'
<1>1. StoreOK(store) /\ d \in Nat \ {0}
  BY TrieAssumption DEF IInv, FilesOK, StoreOK
<1>2. /\ store' = Committed(store, q, d)
      /\ phase = "serve" /\ phase' = "refresh" /\ fresh' = q
      /\ flushed' = [flushed EXCEPT ![q] = @ + d] /\ flushed \in [Queries -> Nat]
  BY DEF ApplyBatch, Committed, IInv, FilesOK
<1>3. /\ DOMAIN store' = DOMAIN store \cup {q} /\ StoreOK(store')
      /\ store' = Grown(store, q, store'[q])
      /\ q \in DOMAIN store => store'[q] > store[q]
      /\ \A r \in Queries \ {q} : CountIn(store', r) = CountIn(store, r)
      /\ CountIn(store', q) = CountIn(store, q) + d
  <2>1. CommittedProperly(store, q, d, store')
    BY <1>1, <1>2, CommittedGrows
  <2> QED
    BY <2>1 DEF CommittedProperly
<1>4. TrieInv'
  BY SameIndexInv DEF ApplyBatch, IInv
<1>5. SearchesOutliveRestarts'
  <2> SUFFICES ASSUME NEW r \in Queries
               PROVE  \E base \in CountOfRows(r)' : CountIn(store', r) = base + flushed'[r]
    BY DEF SearchesOutliveRestarts
  <2>1. CountOfRows(r)' = CountOfRows(r)
    BY DEF ApplyBatch, fileVars, CountOfRows, RowsOf, FileRows
  <2>2. PICK base \in CountOfRows(r) : CountIn(store, r) = base + flushed[r]
    BY DEF IInv, SearchesOutliveRestarts
  <2>3. base \in Nat /\ flushed[r] \in Nat
    <3>1. csv # NoFile /\ FilesOK
      BY <1>2 DEF IInv, LoadingStands
    <3> QED
      BY <1>2, <3>1, FileType DEF CountOfRows, RowsOf
  <2>4. CountIn(store', r) = base + flushed'[r]
    <3>1. CASE r = q
      BY <1>1, <1>2, <1>3, <2>2, <2>3, <3>1
    <3>2. CASE r # q
      BY <1>2, <1>3, <2>2, <3>2
    <3> QED
      BY <3>1, <3>2
  <2> QED
    BY <2>1, <2>4
<1>6. FilesOK'
  <2>1. flushed' \in [Queries -> Nat]
    BY <1>1, <1>2
  <2> QED
    BY <1>1, <1>2, <1>3, <2>1 DEF ApplyBatch, IInv, FilesOK, StoreOK, fileVars
<1>7. NothingFlushedYet' /\ LoadingStands'
  BY <1>2, <1>3 DEF ApplyBatch, IInv, NothingFlushedYet, LoadingStands, fileVars
<1>8. NothingMissing'
  BY <1>2, <1>3 DEF ApplyBatch, IInv, NothingMissing, DatasetLoaded, fileVars
<1>9. IndexStands'
  <2>1. built' = built /\ built /\ count' = count /\ count = store
    BY <1>2 DEF ApplyBatch, IInv, IndexStands, trieVars
  <2> QED
    BY <1>2, <1>3, <2>1 DEF IndexStands, Indexed
<1> QED
  BY <1>4, <1>5, <1>6, <1>7, <1>8, <1>9 DEF IInv

LEMMA RefreshInv ==
  IInv /\ Refresh =>
    /\ IInv'
    /\ \A p \in Paths : \A r \in Listed(p) \ Listed(p)' :
         \E x \in Listed(p)' \ Listed(p) : count'[x] > count[r]
<1> SUFFICES ASSUME IInv, Refresh
             PROVE  /\ IInv'
                    /\ \A p \in Paths : \A r \in Listed(p) \ Listed(p)' :
                         \E x \in Listed(p)' \ Listed(p) : count'[x] > count[r]
  OBVIOUS
<1>1. /\ fresh \in Queries /\ store[fresh] \in Nat /\ TrieInv
      /\ fresh \in Indexed => store[fresh] > count[fresh]
      /\ store = Grown(count, fresh, store[fresh])
      /\ Insert(fresh, store[fresh])
  BY DEF IInv, FilesOK, IndexStands, Refresh
<1>2. /\ TrieInv' /\ built /\ built' /\ count' = Grown(count, fresh, store[fresh])
      /\ \A p \in Paths : \A r \in Listed(p) \ Listed(p)' :
           \E x \in Listed(p)' \ Listed(p) : count'[x] > count[r]
  BY <1>1, InsertInv
<1>3. SearchesOutliveRestarts'
  BY SameCounts DEF Refresh, IInv, fileVars
<1>4. FilesOK'
  BY DEF Refresh, IInv, FilesOK, fileVars
<1>5. NothingFlushedYet' /\ LoadingStands'
  BY SameFile DEF Refresh, IInv, NothingFlushedYet, LoadingStands, fileVars
<1>6. NothingMissing'
  BY DEF Refresh, IInv, NothingMissing, DatasetLoaded, fileVars
<1>7. IndexStands'
  BY <1>1, <1>2 DEF Refresh, IndexStands
<1> QED
  BY <1>2, <1>3, <1>4, <1>5, <1>6, <1>7 DEF IInv

(* What is left of a row is read as a row. *)
LEMMA CutsOfRow ==
  ASSUME NEW row \in Row, NEW cut \in Cuts(row)
  PROVE  \E q \in Queries, c \in 0..MaxCount : cut = [query |-> q, count |-> c]
<1>1. row.query \in Queries /\ row.count \in 0..MaxCount /\ MaxCount \in Nat
  BY TrieAssumption DEF Row
<1>2. CASE \E q \in Prefixes(row.query) \cap Queries : cut = [query |-> q, count |-> 0]
  BY <1>1, <1>2
<1>3. ASSUME NEW c \in LeadingDigits(row.count), cut = [query |-> row.query, count |-> c]
      PROVE  \E q \in Queries, d \in 0..MaxCount : cut = [query |-> q, count |-> d]
  <2>1. c \in 0..MaxCount
    BY <1>1 DEF LeadingDigits
  <2> QED
    BY <1>1, <1>3, <2>1
<1> QED
  BY <1>2, <1>3 DEF Cuts

LEMMA ProcessEndsInv == IInv /\ ProcessEnds => IInv'
<1> SUFFICES ASSUME IInv, ProcessEnds PROVE IInv'
  OBVIOUS
<1>1. TrieInv'
  <2>1. /\ top' = EmptyTrie /\ size' = 0 /\ count' = <<>> /\ built' = FALSE
    BY DEF ProcessEnds, EmptyTrie
  <2>2. DOMAIN count' = {} /\ Indexed' = {} /\ count' \in [{} -> Nat]
    BY <2>1 DEF Indexed
  <2>3. Ranked(count', top')
    BY <2>1, <2>2, EmptyRanked
  <2> QED
    BY <2>1, <2>2, <2>3 DEF TrieInv
<1>2. SearchesOutliveRestarts'
  <2>1. CASE UNCHANGED torn
    BY <2>1, SameCounts DEF ProcessEnds, IInv, fileVars
  <2>2. CASE phase = "generate"
    <3>1. DOMAIN store' = {} /\ \A q \in Queries : flushed'[q] = 0
      BY <2>2 DEF ProcessEnds, IInv, LoadingStands, NothingFlushedYet
    <3> QED
      BY <3>1, EmptyCounts
  <2> QED
    BY <2>1, <2>2 DEF ProcessEnds
<1>3. FilesOK'
  <2>1. crashes' \in 0..MaxCrashes /\ loaded' \in 0..Len(dataset)
    BY DatasetType, StartupAssumption DEF ProcessEnds, IInv, FilesOK
  <2>2. /\ torn' = <<>> \/ \E q \in Queries, c \in 0..MaxCount : torn' = <<[query |-> q, count |-> c]>>
        /\ torn' # <<>> => interrupted' /\ csv # NoFile /\ csv # Len(dataset)
    <3>1. CASE UNCHANGED torn
      BY <3>1 DEF ProcessEnds, IInv, FilesOK
    <3>2. ASSUME phase = "generate", csv < Len(dataset), NEW row \in Cuts(dataset[csv + 1]),
                 torn' = <<row>>
          PROVE  /\ \E q \in Queries, c \in 0..MaxCount : torn' = <<[query |-> q, count |-> c]>>
                 /\ interrupted' /\ csv # NoFile /\ csv # Len(dataset)
      <4>1. csv # NoFile /\ Len(dataset) \in Nat /\ csv \in Nat
        BY <3>2, DatasetType DEF IInv, FilesOK, LoadingStands, NoFile
      <4>2. dataset[csv + 1] \in Row
        BY <3>2, <4>1, DatasetType, ElementOfSeq DEF IInv
      <4>3. \E q \in Queries, c \in 0..MaxCount : row = [query |-> q, count |-> c]
        BY <3>2, <4>2, CutsOfRow
      <4>4. PICK q \in Queries, c \in 0..MaxCount : row = [query |-> q, count |-> c]
        BY <4>3
      <4>5. torn' = <<[query |-> q, count |-> c]>>
        BY <3>2, <4>4
      <4>6. interrupted'
        BY <3>2 DEF ProcessEnds
      <4>7. csv # Len(dataset)
        BY <3>2, <4>1
      <4> QED
        BY <4>1, <4>5, <4>6, <4>7
    <3> QED
      BY <3>1, <3>2 DEF ProcessEnds
  <2> QED
    BY <2>1, <2>2 DEF ProcessEnds, IInv, FilesOK
<1>4. NothingFlushedYet' /\ LoadingStands'
  BY DEF ProcessEnds, IInv, NothingFlushedYet, LoadingStands
<1>5. NothingMissing'
  BY DEF ProcessEnds, IInv, FilesOK, NothingMissing, DatasetLoaded, fileVars
<1>6. IndexStands'
  BY DEF ProcessEnds, IndexStands
<1> QED
  BY <1>1, <1>2, <1>3, <1>4, <1>5, <1>6 DEF IInv

LEMMA NextInv == IInv /\ [Next]_vars => IInv'
<1> SUFFICES ASSUME IInv, [Next]_vars PROVE IInv'
  OBVIOUS
<1>1. CASE UNCHANGED vars
  <2>1. TrieInv' /\ SearchesOutliveRestarts'
    BY <1>1, SameIndexInv, SameCounts DEF IInv, vars, fileVars
  <2> QED
    BY <1>1, <2>1, SameFile DEF vars, fileVars, trieVars, IInv, FilesOK, NothingFlushedYet, LoadingStands,
                      NothingMissing, DatasetLoaded, IndexStands, Indexed
<1> QED
  BY <1>1, OpenInv, WriteRowInv, GenerateReturnsInv, LoadChunkInv, LoadReturnsInv, BuildIndexInv,
     ApplyBatchInv, RefreshInv, ProcessEndsInv DEF Next

--------------------------------------------------------------------------------
(* The theorems.                                                           *)

LEMMA IInvMeans ==
  IInv => TypeOK /\ SearchesOutliveRestarts /\ UninterruptedStartServesAll /\ TopIsBest /\ ListedAlongPath
<1> SUFFICES ASSUME IInv
             PROVE  /\ TypeOK /\ SearchesOutliveRestarts /\ UninterruptedStartServesAll
                    /\ TopIsBest /\ ListedAlongPath
  OBVIOUS
<1>1. TrieTypeOK /\ TopIsBest /\ ListedAlongPath
  BY TrieInvMeans DEF IInv
<1>2. UninterruptedStartServesAll
  BY DEF IInv, IndexStands, NothingMissing, DatasetLoaded, UninterruptedStartServesAll, DatasetServed
<1> QED
  BY <1>1, <1>2 DEF IInv, FilesOK, TypeOK

LEMMA Invariance == Spec => []IInv
BY InitInv, NextInv, PTL DEF Spec

THEOREM TypeCorrect == Spec => []TypeOK
BY Invariance, IInvMeans, PTL

(* INSERT OR REPLACE never runs over a count that searches have raised:    *)
(* the count of a query is one of its rows in the dataset and every search *)
(* flushed for it, however many processes died, and at whatever step.      *)
THEOREM CountsOutliveRestarts == Spec => []SearchesOutliveRestarts
BY Invariance, IInvMeans, PTL

(* A start that nothing interrupted, now or before, has every row of the   *)
(* dataset in the store, and every row of the store in the index.          *)
THEOREM StartServesAll == Spec => []UninterruptedStartServesAll
BY Invariance, IInvMeans, PTL

(* The lists that lookups return are correct after every build and every   *)
(* flush: the best of the subtree, with the latest counts, in order.       *)
THEOREM ListsAreBest == Spec => []TopIsBest
BY Invariance, IInvMeans, PTL

(* Typing on loses no suggestion that still matches.                       *)
THEOREM TypingOnLosesNone == Spec => []ListedAlongPath
BY Invariance, IInvMeans, PTL

(* While a process lives, a suggestion leaves a list only for one searched *)
(* more often.                                                             *)
THEOREM DisplacedByGreater == Spec => DisplacedOnlyByGreater
<1> DEFINE Displaced == built' =>
                          \A p \in Paths : \A q \in Listed(p) \ Listed(p)' :
                            \E r \in Listed(p)' \ Listed(p) : count'[r] > count[q]
<1>1. ASSUME IInv, [Next]_vars PROVE [Displaced]_trieVars
  <2>1. CASE UNCHANGED trieVars
    BY <2>1
  <2>2. CASE BuildIndex
    <3>1. Indexed = {} /\ TopIsBest
      BY <1>1, <2>2, BuildIndexInv, IInvMeans
    <3>2. \A p \in Paths : Listed(p) = {}
      BY <3>1 DEF TopIsBest, BestOf, Listed, Indexed
    <3> QED
      BY <3>2
  <2>3. CASE Refresh
    BY <1>1, <2>3, RefreshInv
  <2>4. CASE ProcessEnds
    BY <2>4 DEF ProcessEnds
  <2>5. CASE \/ Open \/ WriteRow \/ GenerateReturns \/ LoadChunk \/ LoadReturns
             \/ (\E q \in Queries, d \in 1..MaxCount : ApplyBatch(q, d)) \/ UNCHANGED vars
    BY <2>1, <2>5 DEF Open, WriteRow, GenerateReturns, LoadChunk, LoadReturns, ApplyBatch, vars
  <2> QED
    BY <1>1, <2>2, <2>3, <2>4, <2>5 DEF Next
<1> QED
  BY <1>1, Invariance, PTL DEF Spec, DisplacedOnlyByGreater
================================================================================
