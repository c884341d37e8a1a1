--------------------------- MODULE ReferenceEdges ---------------------------
(***************************************************************************)
(* Reference edges of the index: who writes them, who deletes them, and    *)
(* when an answer is built from them without looking again.                *)
(*                                                                         *)
(* An indexer (index_paths, index_project) brings the rows of one file at  *)
(* a time up to date with the disk; every such transaction deletes the     *)
(* edges of the file and bumps the index generation.  A preflight call     *)
(* reads the edges, sweeps the files that name the symbol, and if the      *)
(* sweep is not the one the symbol was last marked with it resolves the    *)
(* symbol from the disk, stores the edges source by source behind a        *)
(* generation fence, and marks the symbol.  Calls run in the interactive   *)
(* lane, the indexer in the batch lane of the project, so they overlap.    *)
(*                                                                         *)
(* Every symbol is defined, if at all, in DefFile, the target of the       *)
(* calls.  The content of a file is told apart by the symbols it defines   *)
(* and calls; a sweep reads the disk in one step, and so does a            *)
(* resolution.  SQLite transactions are atomic.                            *)
(***************************************************************************)
EXTENDS Naturals, FiniteSets

CONSTANTS Symbols,
          Callers,        \* source files other than DefFile
          DefFile,
          Contents,       \* what files may contain
          Versions,       \* the contents each file may have
          Defines, Uses,  \* the symbols a content defines, and calls
          Absent,         \* the content of a file that does not exist
          Resolvers,      \* preflight calls
          FirstDisk,      \* the disk, and the index, at the start
          MaxEdits,       \* bound: edits of a behaviour
          MaxGeneration,  \* bound: index transactions
          MayBeBusy,      \* whether a write may fail with "database is locked"
          MayForce        \* whether a reindex may be forced

Files == Callers \cup {DefFile}
Digests == SUBSET (Files \X Contents)

ASSUME EdgesAssumption ==
  /\ Symbols # {}
  /\ DefFile \notin Callers
  /\ Absent \notin Contents
  /\ Versions \in [Files -> SUBSET Contents]
  /\ Defines \in [Contents -> SUBSET Symbols]
  /\ Uses \in [Contents -> SUBSET Symbols]
  /\ FirstDisk \in [Files -> Contents \cup {Absent}]
  /\ MaxEdits \in Nat /\ MaxGeneration \in Nat
  /\ MayBeBusy \in BOOLEAN /\ MayForce \in BOOLEAN

VARIABLES
  disk,     \* the content of each file
  edits,    \* edits so far
  row,      \* the content each file had when its rows were written
  gen,      \* the index generation
  refs,     \* the stored edges, all of them into DefFile; "seen" is a history
            \* field: the index the edge was resolved against
  mark,     \* of each symbol: the digest in the derived_state row of DefFile,
            \* as a set of at most one
  indexer,  \* the file the indexer has read, and what it read
  call      \* the preflight calls

store == <<row, gen, refs, mark>>
vars == <<disk, edits, store, indexer, call>>

Has(f, s) == disk[f] # Absent /\ s \in Uses[disk[f]]
Defined(content, s) == content # Absent /\ s \in Defines[content]

\* references.find_references: the files whose references resolve to s.
Resolved(s) == IF Defined(disk[DefFile], s) THEN {f \in Callers : Has(f, s)} ELSE {}

\* references.name_sweep: every file that names s, with its content.
Sweep(s) ==
  {<<f, disk[f]>> : f \in {g \in Files : Has(g, s) \/ Defined(disk[g], s)}}

Sources(s) == {e.src : e \in {x \in refs : x.symbol = s}}

NoFile == [file |-> DefFile, content |-> Absent, busy |-> FALSE]
NoCall == [step |-> "idle", symbol |-> CHOOSE s \in Symbols : TRUE, digest |-> {},
           gen |-> 0, seen |-> FirstDisk, found |-> {}, todo |-> {},
           stored |-> TRUE]

Init ==
  /\ disk = FirstDisk /\ edits = 0
  /\ row = FirstDisk /\ gen = 0
  /\ refs = {} /\ mark = [s \in Symbols |-> {}]
  /\ indexer = NoFile
  /\ call = [r \in Resolvers |-> NoCall]

\* An editor, or Git, writes or removes a file.
Edit(f, c) ==
  /\ edits < MaxEdits /\ c # disk[f]
  /\ edits' = edits + 1
  /\ disk' = [disk EXCEPT ![f] = c]
  /\ UNCHANGED <<store, indexer, call>>

-----------------------------------------------------------------------------
(* The indexer.                                                            *)

\* A file is read and hashed, or found missing.  Only a changed file, a file
\* of a forced run and a missing file with rows lead to a transaction.
ReadSource(f, force) ==
  /\ ~indexer.busy /\ gen < MaxGeneration
  /\ IF disk[f] = Absent THEN row[f] # Absent
                         ELSE force \/ disk[f] # row[f]
  /\ indexer' = [file |-> f, content |-> disk[f], busy |-> TRUE]
  /\ UNCHANGED <<disk, edits, store, call>>

\* DELETE FROM refs WHERE src_path=? OR def_path=?
DeleteEdges(f) ==
  refs' = IF f = DefFile THEN {} ELSE {e \in refs : e.src # f}

\* DELETE FROM derived_state WHERE path=?
DeleteMarks(f) ==
  mark' = IF f = DefFile THEN [s \in Symbols |-> {}] ELSE mark

\* Mutant: the definitions of a file change without their edges.
StoreFileKeepingEdges ==
  /\ indexer.busy /\ indexer.content # Absent
  /\ row' = [row EXCEPT ![indexer.file] = indexer.content]
  /\ DeleteMarks(indexer.file)
  /\ refs' = {e \in refs : e.src # indexer.file}
  /\ gen' = gen + 1
  /\ indexer' = NoFile
  /\ UNCHANGED <<disk, edits, call>>

\* store_file_index
StoreFile ==
  /\ indexer.busy /\ indexer.content # Absent
  /\ row' = [row EXCEPT ![indexer.file] = indexer.content]
  /\ DeleteEdges(indexer.file)
  /\ DeleteMarks(indexer.file)
  /\ gen' = gen + 1
  /\ indexer' = NoFile
  /\ UNCHANGED <<disk, edits, call>>

\* remove_file
RemoveFile ==
  /\ indexer.busy /\ indexer.content = Absent
  /\ row' = [row EXCEPT ![indexer.file] = Absent]
  /\ DeleteEdges(indexer.file)
  /\ DeleteMarks(indexer.file)
  /\ gen' = gen + 1
  /\ indexer' = NoFile
  /\ UNCHANGED <<disk, edits, call>>

\* A cancellation point raises, or the transaction fails and is rolled back.
GiveUpFile ==
  /\ indexer.busy
  /\ indexer' = NoFile
  /\ UNCHANGED <<disk, edits, store, call>>

-----------------------------------------------------------------------------
(* A preflight call.                                                       *)

At(r, step) == call[r].step = step

\* The edges are read, to be answered if no resolution is needed.  The index must
\* define the symbol, otherwise the answer is given at once.
Ask(r, s) ==
  /\ At(r, "idle")
  /\ Defined(row[DefFile], s)
  /\ call' = [call EXCEPT ![r] = [NoCall EXCEPT !.step = "asked", !.symbol = s]]
  /\ UNCHANGED <<disk, edits, store, indexer>>

SweepNames(r) ==
  /\ At(r, "asked")
  /\ call' = [call EXCEPT ![r].step = "swept", ![r].digest = Sweep(call[r].symbol)]
  /\ UNCHANGED <<disk, edits, store, indexer>>

\* "off", "failed": there is no sweep.  "cached": the sweep is the one the symbol
\* is marked with.  "unsupported", "declined": the symbol is not resolved now.
\* What was read at first is answered, and nothing is stored.
AnswerWithoutResolving(r) ==
  /\ At(r, "asked") \/ At(r, "swept")
  /\ call' = [call EXCEPT ![r] = NoCall]
  /\ UNCHANGED <<disk, edits, store, indexer>>

\* find_references pins the generation and the definitions to one snapshot.
\* "seen" is a history variable: the index as it is in that snapshot.
PinGeneration(r) ==
  /\ At(r, "swept")
  /\ mark[call[r].symbol] # {call[r].digest}
  /\ call' = [call EXCEPT ![r].step = "pinned", ![r].gen = gen, ![r].seen = row]
  /\ UNCHANGED <<disk, edits, store, indexer>>

Resolve(r) ==
  /\ At(r, "pinned")
  /\ call' = [call EXCEPT ![r].step = "storing", ![r].found = Resolved(call[r].symbol),
                            ![r].todo = Resolved(call[r].symbol)]
  /\ UNCHANGED <<disk, edits, store, indexer>>

\* DELETE and INSERT of the edges of one source and symbol.
ReplaceEdge(r, f) ==
  {e \in refs : <<e.src, e.symbol>> # <<f, call[r].symbol>>}
    \cup {[src |-> f, symbol |-> call[r].symbol, seen |-> call[r].seen]}

\* Mutant: the edges of a source are replaced for all its symbols.
StoreEdgesOfSource(r, f) ==
  /\ At(r, "storing") /\ f \in call[r].todo
  /\ call[r].gen = gen
  /\ refs' = {e \in ReplaceEdge(r, f) : e.src # f \/ e.symbol = call[r].symbol}
  /\ call' = [call EXCEPT ![r].todo = @ \ {f}]
  /\ UNCHANGED <<disk, edits, row, gen, mark, indexer>>

\* replace_refs_for_symbol: one transaction for each source.
StoreEdges(r, f) ==
  /\ At(r, "storing") /\ f \in call[r].todo
  /\ call[r].gen = gen
  /\ refs' = ReplaceEdge(r, f)
  /\ call' = [call EXCEPT ![r].todo = @ \ {f}]
  /\ UNCHANGED <<disk, edits, row, gen, mark, indexer>>

\* The fence is closed, or the database is locked: the rest is not stored.
SkipEdges(r) ==
  /\ At(r, "storing") /\ call[r].todo # {}
  /\ call[r].gen # gen \/ MayBeBusy
  /\ call' = [call EXCEPT ![r].todo = {}, ![r].stored = FALSE]
  /\ UNCHANGED <<disk, edits, store, indexer>>

\* mark_symbol_references_resolved; the call then reads the edges and answers.
MarkResolved(r) ==
  /\ At(r, "storing") /\ call[r].todo = {}
  /\ mark' = [mark EXCEPT ![call[r].symbol] = {call[r].digest}]
  /\ call' = [call EXCEPT ![r] = NoCall]
  /\ UNCHANGED <<disk, edits, row, gen, refs, indexer>>

\* The resolution fails; or the sweep was truncated, the database is locked, or
\* the call is cancelled before the mark.
AnswerUnmarked(r) ==
  /\ At(r, "pinned") \/ At(r, "storing")
  /\ call' = [call EXCEPT ![r] = NoCall]
  /\ UNCHANGED <<disk, edits, store, indexer>>

Next ==
  \/ \E f \in Files : \E c \in Versions[f] \cup {Absent} : Edit(f, c)
  \/ \E f \in Files : ReadSource(f, FALSE)
  \/ MayForce /\ \E f \in Files : ReadSource(f, TRUE)
  \/ StoreFile
  \/ RemoveFile
  \/ GiveUpFile
  \/ \E r \in Resolvers, s \in Symbols : Ask(r, s)
  \/ \E r \in Resolvers : SweepNames(r)
  \/ \E r \in Resolvers : AnswerWithoutResolving(r)
  \/ \E r \in Resolvers : PinGeneration(r)
  \/ \E r \in Resolvers : Resolve(r)
  \/ \E r \in Resolvers, f \in Callers : StoreEdges(r, f)
  \/ \E r \in Resolvers : SkipEdges(r)
  \/ \E r \in Resolvers : MarkResolved(r)
  \/ \E r \in Resolvers : AnswerUnmarked(r)

Spec == Init /\ [][Next]_vars
-----------------------------------------------------------------------------
(* Properties.                                                             *)

Steps == {"idle", "asked", "swept", "pinned", "storing"}

\* Every variable has the type the code gives it.
TypeOK ==
  /\ disk \in [Files -> Contents \cup {Absent}]
  /\ edits \in 0..MaxEdits
  /\ row \in [Files -> Contents \cup {Absent}]
  /\ gen \in 0..MaxGeneration
  /\ refs \subseteq [src : Callers, symbol : Symbols,
                  seen : [Files -> Contents \cup {Absent}]]
  /\ mark \in [Symbols -> SUBSET Digests]
  /\ indexer \in [file : Files, content : Contents \cup {Absent}, busy : BOOLEAN]
  /\ call \in [Resolvers -> [step : Steps, symbol : Symbols, digest : Digests,
                             gen : 0..MaxGeneration,
                             seen : [Files -> Contents \cup {Absent}],
                             found : SUBSET Callers, todo : SUBSET Callers,
                             stored : BOOLEAN]]

\* The fence: edges that were resolved against one state of the index are
\* never stored into another, so a reindex that overlaps a resolution cannot
\* be undone by it.
NoStaleWrite ==
  [][\A e \in refs' \ refs : e.seen = row]_vars

\* A stored edge was resolved against the rows that its source and DefFile
\* have now: whatever replaces those rows takes the edge with it, and an edge
\* resolved before the change is not stored after it.
EdgesOfTheseRows ==
  \A e \in refs : e.seen[e.src] = row[e.src] /\ e.seen[DefFile] = row[DefFile]

\* The mark of s is of today's sources, and stored edges lack one of its callers: a
\* cached answer would be short of it.
Misled(s) == mark[s] # {} /\ mark[s] = {Sweep(s)} /\ ~(Resolved(s) \subseteq Sources(s))

\* The stored edges of a marked symbol lose a caller in three ways only: the
\* symbol is marked although its edges were not stored, or the index or the
\* disk has moved since they were resolved; the rows of a caller are replaced;
\* or an edit brings back the marked sources.  Other calls never do it.
CallersLostOnlyByKnownGaps ==
  [][\A s \in Symbols : Misled(s)' /\ ~Misled(s) =>
       \/ \E r \in Resolvers :
            /\ At(r, "storing") /\ call[r].symbol = s /\ mark'[s] = {call[r].digest}
            /\ \/ ~call[r].stored
               \/ call[r].gen # gen
               \/ call[r].found # Resolved(s)
       \/ indexer.file \in Callers /\ gen' = gen + 1
       \/ disk' # disk]_vars
=============================================================================
