------------------------------- MODULE MapCache -------------------------------
(***************************************************************************)
(* get_map of engine.py: the map of a project is taken from the memory of  *)
(* the process, from the one snapshot beside the database, or computed     *)
(* from one SQLite transaction, in which the symbols may come from a       *)
(* snapshot file that a thread wrote for an earlier map.                   *)
(*                                                                         *)
(* A commit is a pair: the revision of the symbols and that of the         *)
(* references.  The commit in the main database file stands for the time   *)
(* and size of that file; in WAL mode it is an older commit until a        *)
(* checkpoint, and without WAL a checkpoint follows each commit at once.   *)
(***************************************************************************)
EXTENDS Naturals, Sequences, FiniteSets, SequencesExt

CONSTANTS MapCallers, MapProcess,   \* and the process of each caller
          RouteChildren,            \* the processes that write snapshots at once
          Questions,                \* parameters a map is asked with
          MapCacheLimit,            \* CODESEXTANT_MAP_CACHE_SIZE
          MaxCommits, MaxMaps       \* bounds of the checks

ASSUME MapAssumption == MapCacheLimit \in Nat \ {0}

VARIABLES
  rows,      \* the commit a new transaction sees, or NoRows
  mainFile,  \* the commit the main file holds
  made,      \* history: all commits in their order
  memory,    \* of each process: _MAP_CACHE, oldest first
  mapFile, symbolFile,  \* the snapshots beside the database
  mapWriters,  \* _SYMBOL_SNAPSHOT_INFLIGHT: of which process, for which commit
  mapCall,   \* of each caller: its step, its question, the key, the map
  mapLast,   \* the last map delivered, and the main file when it was asked for
  mapsAsked  \* maps asked for so far

mapVars == <<rows, mainFile, made, memory, mapFile, symbolFile, mapWriters,
             mapCall, mapLast, mapsAsked>>

NoRows == [sym |-> 0, ref |-> 0]
NoMap == [commit |-> NoRows, of |-> "none"]
NoEntry == [key |-> <<>>, map |-> NoMap]
NoMapCall == [at |-> "none", q |-> "none", key |-> <<>>, map |-> NoMap, main |-> NoRows]

Latest == IF made = <<>> THEN NoRows ELSE Last(made)

MapProcesses == {MapProcess[c] : c \in MapCallers}

MapInit ==
  /\ made \in {<<>>, <<[sym |-> 1, ref |-> 0]>>}
  /\ rows = Latest /\ mainFile = rows
  /\ memory = [p \in MapProcesses |-> <<>>]
  /\ mapFile = NoEntry /\ symbolFile = NoRows
  /\ mapWriters = {}
  /\ mapCall = [c \in MapCallers |-> NoMapCall]
  /\ mapLast = NoMapCall /\ mapsAsked = 0

-----------------------------------------------------------------------------
(* The index.                                                              *)

\* An index commit, or one of find_references: it makes the index if need be.
Commit(new) ==
  /\ Len(made) < MaxCommits
  /\ made' = Append(made, new) /\ rows' = new
  /\ mainFile' = IF mainFile # NoRows THEN mainFile ELSE new

CommitIndex ==
  /\ Commit([Latest EXCEPT !.sym = @ + 1])
  /\ UNCHANGED <<memory, mapFile, symbolFile, mapWriters, mapCall, mapLast, mapsAsked>>
CommitReferences ==
  /\ rows # NoRows
  /\ Commit([Latest EXCEPT !.ref = @ + 1])
  /\ UNCHANGED <<memory, mapFile, symbolFile, mapWriters, mapCall, mapLast, mapsAsked>>
Checkpoint ==
  /\ mainFile # rows
  /\ mainFile' = rows
  /\ UNCHANGED <<rows, made, memory, mapFile, symbolFile, mapWriters, mapCall, mapLast, mapsAsked>>

\* The collection takes the database and what is beside it while no caller
\* holds the lease, which a transaction and a snapshot access do.
Collect ==
  /\ rows # NoRows
  /\ rows' = NoRows /\ mainFile' = NoRows
  /\ mapFile' = NoEntry /\ symbolFile' = NoRows
  /\ UNCHANGED <<made, memory, mapWriters, mapCall, mapLast, mapsAsked>>

-----------------------------------------------------------------------------
(* get_map, one step for each access to what is shared.                    *)

Recent(c) == memory[MapProcess[c]]
Entry(c) == [key |-> mapCall[c].key, map |-> mapCall[c].map]

\* The place of a key in the memory: an OrderedDict has it at most once.
Places(m, key) == {i \in DOMAIN m : m[i].key = key}

\* move_to_end, then popitem from the front down to the limit.
Remember(m, e) ==
  LET old == Places(m, e.key)
      others == IF old = {} THEN m ELSE RemoveAt(m, CHOOSE i \in old : TRUE)
      kept == Append(others, e)
  IN IF Len(kept) > MapCacheLimit THEN SubSeq(kept, Len(kept) - MapCacheLimit + 1, Len(kept))
     ELSE kept

\* _ensure_indexed; an index another commit is still making counts as one.
AskMap(c, q) ==
  /\ mapCall[c].at = "none" /\ mapsAsked < MaxMaps
  /\ rows # NoRows
  /\ mapsAsked' = mapsAsked + 1
  /\ mapCall' = [mapCall EXCEPT ![c] = [NoMapCall EXCEPT !.at = "key", !.q = q,
                                                         !.main = mainFile]]
  /\ UNCHANGED <<rows, mainFile, made, memory, mapFile, symbolFile, mapWriters, mapLast>>

\* The key is taken of the main file before anything is looked up or computed;
\* a file that has gone since fails the call.
MapKey(c) ==
  /\ mapCall[c].at = "key"
  /\ mapCall' = [mapCall EXCEPT ![c] = IF mainFile = NoRows THEN NoMapCall
                   ELSE [@ EXCEPT !.at = "memory", !.key = <<mainFile, mapCall[c].q>>]]
  /\ UNCHANGED <<rows, mainFile, made, memory, mapFile, symbolFile, mapWriters, mapLast, mapsAsked>>

Give(c, m) == [mapCall EXCEPT ![c].at = "give", ![c].map = m]

FromMemory(c) ==
  /\ mapCall[c].at = "memory"
  /\ \/ \E i \in Places(Recent(c), mapCall[c].key) :
          /\ memory' = [memory EXCEPT ![MapProcess[c]] = Remember(@, Recent(c)[i])]
          /\ mapCall' = Give(c, Recent(c)[i].map)
     \/ /\ Places(Recent(c), mapCall[c].key) = {}
        /\ mapCall' = [mapCall EXCEPT ![c].at = "disk"]
        /\ UNCHANGED memory
  /\ UNCHANGED <<rows, mainFile, made, mapFile, symbolFile, mapWriters, mapLast, mapsAsked>>

\* load_map_snapshot: a snapshot made for another key is none.
Persisted(c) == mapFile.key = mapCall[c].key

FromDisk(c) ==
  /\ mapCall[c].at = "disk"
  /\ IF Persisted(c)
     THEN /\ memory' = [memory EXCEPT ![MapProcess[c]] = Remember(@, mapFile)]
          /\ mapCall' = Give(c, mapFile.map)
     ELSE /\ mapCall' = [mapCall EXCEPT ![c].at = "compute"]
          /\ UNCHANGED memory
  /\ UNCHANGED <<rows, mainFile, made, mapFile, symbolFile, mapWriters, mapLast, mapsAsked>>

\* load_symbol_snapshot, and what write_symbol_snapshot leaves.
SnapshotFits == symbolFile.sym = rows.sym
SymbolSnapshot(revision) == [sym |-> revision, ref |-> 0]

\* _get_map_uncached: symbols and references of one transaction, the symbols
\* from their snapshot if it is of this revision; otherwise one is written,
\* here or by a thread, of which there is one for each revision.
Compute(c) ==
  /\ mapCall[c].at = "compute" /\ rows # NoRows
  /\ LET hit == SnapshotFits
         read == [sym |-> IF hit THEN symbolFile.sym ELSE rows.sym, ref |-> rows.ref]
         here == MapProcess[c] \in RouteChildren
     IN /\ mapCall' = [mapCall EXCEPT ![c].at = "store", ![c].map = [commit |-> read, of |-> mapCall[c].q]]
        /\ symbolFile' = IF hit \/ ~here THEN symbolFile ELSE SymbolSnapshot(read.sym)
        /\ mapWriters' = mapWriters \cup (IF hit \/ here THEN {}
                                          ELSE {<<MapProcess[c], rows.sym>>})
  /\ UNCHANGED <<rows, mainFile, made, memory, mapFile, mapLast, mapsAsked>>

\* open_readonly raises when the database has gone.
ComputeNothing(c) ==
  /\ mapCall[c].at = "compute" /\ rows = NoRows
  /\ mapCall' = [mapCall EXCEPT ![c] = NoMapCall]
  /\ UNCHANGED <<rows, mainFile, made, memory, mapFile, symbolFile, mapWriters, mapLast, mapsAsked>>

\* The delayed thread writes, or fails to; the process may end before it does.
WriteSymbols(w) ==
  /\ symbolFile' \in {symbolFile, SymbolSnapshot(w[2])}
  /\ mapWriters' = mapWriters \ {w}
  /\ UNCHANGED <<rows, mainFile, made, memory, mapFile, mapCall, mapLast, mapsAsked>>

\* Mutant: the key is taken after the map.
StoreUnderTheNewKey(c) ==
  /\ mapCall[c].at = "store"
  /\ LET e == [Entry(c) EXCEPT !.key = <<mainFile, mapCall[c].q>>]
     IN memory' = [memory EXCEPT ![MapProcess[c]] = Remember(@, e)]
  /\ mapCall' = [mapCall EXCEPT ![c].at = "write"]
  /\ UNCHANGED <<rows, mainFile, made, mapFile, symbolFile, mapWriters, mapLast, mapsAsked>>

Store(c) ==
  /\ mapCall[c].at = "store"
  /\ memory' = [memory EXCEPT ![MapProcess[c]] = Remember(@, Entry(c))]
  /\ mapCall' = [mapCall EXCEPT ![c].at = "write"]
  /\ UNCHANGED <<rows, mainFile, made, mapFile, symbolFile, mapWriters, mapLast, mapsAsked>>

\* write_map_snapshot; that it fails is a warning.
WriteMap(c) ==
  /\ mapCall[c].at = "write"
  /\ mapFile' \in {mapFile, Entry(c)}
  /\ mapCall' = [mapCall EXCEPT ![c].at = "give"]
  /\ UNCHANGED <<rows, mainFile, made, memory, symbolFile, mapWriters, mapLast, mapsAsked>>

GiveMap(c) ==
  /\ mapCall[c].at = "give"
  /\ mapLast' = [mapCall[c] EXCEPT !.key = <<>>]
  /\ mapCall' = [mapCall EXCEPT ![c] = NoMapCall]
  /\ UNCHANGED <<rows, mainFile, made, memory, mapFile, symbolFile, mapWriters, mapsAsked>>

MapStep(c) == \/ \E q \in Questions : AskMap(c, q)
              \/ MapKey(c) \/ FromMemory(c) \/ FromDisk(c) \/ Compute(c)
              \/ ComputeNothing(c) \/ Store(c) \/ WriteMap(c) \/ GiveMap(c)
MapNext == CommitIndex \/ CommitReferences \/ Checkpoint \/ Collect
           \/ (\E w \in mapWriters : WriteSymbols(w)) \/ \E c \in MapCallers : MapStep(c)

MapSpec == MapInit /\ [][MapNext]_mapVars

-----------------------------------------------------------------------------
(* Properties.                                                             *)

\* A map, whether remembered, from the disk or computed, is the answer to the
\* question asked and shows one commit that the index really went through, at
\* least as new as what the main file held when the call began; later commits
\* that only the write-ahead log holds may be missing, the known gap of the key.
MapOfTheIndex ==
  mapLast # NoMapCall =>
    LET m == mapLast.map
    IN /\ m.of = mapLast.q
       /\ m.commit \in ToSet(made)
       /\ m.commit.sym >= mapLast.main.sym /\ m.commit.ref >= mapLast.main.ref
===============================================================================
