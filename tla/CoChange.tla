------------------------------- MODULE CoChange -------------------------------
(***************************************************************************)
(* Which files history says change together: engine.py keeps counts of the *)
(* commits read so far and adds what is new since the commit it read last, *)
(* or rebuilds them when that commit has left the history; the rules of    *)
(* one symbol are mined anew.  Several preflights of one project do so at  *)
(* the same time, in steps that each read Git or write one transaction,    *)
(* and Git's HEAD moves between any two.                                   *)
(*                                                                         *)
(* The counts are kept as how often each commit has been added to them,    *)
(* from which every sum of cochange_count and cochange_pair follows.       *)
(***************************************************************************)
EXTENDS Naturals, FiniteSets, FiniteSetsExt

CONSTANTS Commits, NoCommit,
          Ancestors,   \* of each commit: it and what comes before it
          Merges,      \* the commits no reading lists
          Newer(_, _), \* the order in which git log lists the others
          FilesOf,     \* the paths a commit changes
          Touching,    \* the commits whose diff touches the symbol asked about
          HistoryFiles, File, \* all files, and the one asked about
          Better(_, _),  \* the order of the files' names
          MaxRead, MaxCommitFiles, MinSupport, RulesLimit, RankLimit,
          Miners,
          MaxMoves, MaxStarts  \* bounds of the checks

ASSUME CoChangeAssumption ==
  /\ NoCommit \notin Commits \cup Miners
  /\ Ancestors \in [Commits -> SUBSET Commits]
  /\ \A c \in Commits : c \in Ancestors[c] /\ \A p \in Ancestors[c] : Ancestors[p] \subseteq Ancestors[c]
  /\ IsFiniteSet(Commits) /\ \A c \in Commits : ~Newer(c, c)
  /\ FilesOf \in [Commits -> SUBSET HistoryFiles] /\ File \in HistoryFiles
  /\ MaxRead \in Nat \ {0}

VARIABLES
  gitHead, moves,  \* HEAD and how often it moved
  totals,          \* the stored counts and the commit they describe
  symbolRules,     \* the rules of the file's symbol and the commit they describe
  miner,           \* of each preflight: its step and what it has read
  spoiled,         \* history: the known gaps the counts have been through
  cleared,         \* history: the miner whose clearing nobody has written after
  answer,          \* the last answer
  starts           \* preflights so far

minerVars == <<gitHead, moves, totals, symbolRules, miner, spoiled, cleared, answer, starts>>

Nothing == [c \in Commits |-> 0]
Waiting == [at |-> "none", head |-> NoCommit, previous |-> NoCommit, moves |-> 0,
            added |-> FALSE, of |-> {}, still |-> FALSE, symbols |-> FALSE]
NoAnswer == [head |-> NoCommit, symbolHead |-> NoCommit, sound |-> FALSE, companions |-> {}]

-----------------------------------------------------------------------------
(* Reading.                                                                *)

\* git log --no-merges --max-count, of a set of commits.
Log(of) ==
  LET listed == of \ Merges
  IN {c \in listed : Cardinality({d \in listed : Newer(d, c)}) < MaxRead}
Capped(head) == Cardinality(Ancestors[head] \ Merges) > MaxRead

\* What the two readings of mine_symbols both know.
SymbolLog(of) == Log(of) \cap Log({c \in of : File \in FilesOf[c]})

-----------------------------------------------------------------------------
(* Counting.                                                               *)

\* tally: a commit of one file says nothing, a sweeping one too much.
Usable(c) == Cardinality(FilesOf[c]) \in 2..MaxCommitFiles
Tally(n, of) == [c \in Commits |-> n[c] + (IF c \in of /\ Usable(c) THEN 1 ELSE 0)]

\* The changes of a file are its support with itself.
Support(n, f, g) == MapThenSumSet(LAMBDA c : n[c], {c \in Commits : {f, g} \subseteq FilesOf[c]})

\* What the queries and rank_companions leave of a longer list.  Of one file or
\* symbol, the confidence and the lower bound of the interval grow with the support.
First(limit, of, support(_)) ==
  LET before(h, g) == \/ support(h) > support(g)
                      \/ support(h) = support(g) /\ Better(h, g)
  IN {g \in of : Cardinality({h \in of \ {g} : before(h, g)}) < limit}

\* cochange_rules_for: often enough together, and in at least half of the changes.
Rules(n, f) == First(RulesLimit, {g \in HistoryFiles \ {f} :
                                    /\ Support(n, f, g) >= MinSupport
                                    /\ 2 * Support(n, f, g) >= Support(n, f, f)},
                     LAMBDA g : Support(n, f, g))

\* rank_companions: where no rule clears the thresholds, the strongest few.
Ranked(n, f) == First(RankLimit, {g \in HistoryFiles \ {f} : Support(n, f, g) > 0},
                      LAMBDA g : Support(n, f, g))

FileRules(n) == IF Rules(n, File) # {} THEN Rules(n, File) ELSE Ranked(n, File)

\* mine_symbols, and symbol_cochange_for.
SymbolRules(of) ==
  LET used == {c \in of \cap Touching : Usable(c)}
      together(g) == Cardinality({c \in used : g \in FilesOf[c]})
  IN First(RulesLimit, {g \in HistoryFiles \ {File} :
                          /\ together(g) >= MinSupport
                          /\ 2 * together(g) >= Cardinality(used)}, together)

\* _merge_cochange
Merged(n, of) == {<<g, "symbol">> : g \in SymbolRules(of)}
                 \cup {<<g, "file">> : g \in FileRules(n) \ SymbolRules(of)}

\* Nothing has been read yet, or an earlier preflight has read it all.
MineInit ==
  /\ gitHead \in Commits /\ moves = 0
  /\ totals \in {[head |-> NoCommit, n |-> Nothing],
                [head |-> gitHead, n |-> Tally(Nothing, Log(Ancestors[gitHead]))]}
  /\ symbolRules = [head |-> NoCommit, of |-> {}, still |-> TRUE]
  /\ miner = [m \in Miners |-> Waiting]
  /\ spoiled = {} /\ cleared = NoCommit
  /\ answer = NoAnswer /\ starts = 0

-----------------------------------------------------------------------------
(* Git.                                                                    *)

\* A commit, a switch of branch, a reset or a rewritten history.
Move ==
  /\ moves < MaxMoves
  /\ \E c \in Commits \ {gitHead} : gitHead' = c
  /\ moves' = moves + 1
  /\ UNCHANGED <<totals, symbolRules, miner, spoiled, cleared, answer, starts>>

-----------------------------------------------------------------------------
(* _ensure_cochange.                                                       *)

Becomes(m, r) == miner' = [miner EXCEPT ![m] = r]
OnlyMiner == UNCHANGED <<gitHead, moves, totals, symbolRules, spoiled, cleared, answer, starts>>

ReadHead(m) ==
  /\ miner[m].at = "none" /\ starts < MaxStarts
  /\ starts' = starts + 1
  /\ Becomes(m, [Waiting EXCEPT !.at = "probe", !.head = gitHead, !.moves = moves])
  /\ UNCHANGED <<gitHead, moves, totals, symbolRules, spoiled, cleared, answer>>

Probe(m) ==
  /\ miner[m].at = "probe"
  /\ Becomes(m, IF totals.head = miner[m].head
                THEN [Waiting EXCEPT !.at = "symbol"]
                ELSE [miner[m] EXCEPT !.at = "ancestor", !.previous = totals.head])
  /\ OnlyMiner

\* Mutant: the history is taken for a continuation.
AncestorAssumed(m) ==
  /\ miner[m].at = "ancestor"
  /\ Becomes(m, [miner[m] EXCEPT !.at = "log", !.added = miner[m].previous # NoCommit])
  /\ OnlyMiner

\* is_ancestor: only then does previous..HEAD say what is missing.  A Git that
\* fails or takes too long is one that says no.
Ancestor(m) ==
  /\ miner[m].at = "ancestor"
  /\ LET p == miner[m].previous
     IN \E says \in BOOLEAN :
          /\ says => p # NoCommit /\ p \in Ancestors[gitHead]
          /\ Becomes(m, [miner[m] EXCEPT !.at = "log", !.added = says])
  /\ OnlyMiner

ReadCommits(m) ==
  /\ miner[m].at = "log"
  /\ LET r == miner[m]
         of == Log(IF r.added THEN Ancestors[gitHead] \ Ancestors[r.previous]
                   ELSE Ancestors[gitHead])
     IN Becomes(m, [r EXCEPT !.at = IF r.added THEN "add" ELSE "clear", !.of = of,
                             !.still = moves = r.moves])
  /\ OnlyMiner

\* clear_cochange_counts is a transaction of its own and leaves the commit the
\* counts describe as it was.
Clear(m) ==
  /\ miner[m].at = "clear"
  /\ totals' = [totals EXCEPT !.n = Nothing]
  /\ spoiled' = spoiled \cup {"cleared"} /\ cleared' = m
  /\ Becomes(m, [miner[m] EXCEPT !.at = "add"])
  /\ UNCHANGED <<gitHead, moves, symbolRules, answer, starts>>

\* add_cochange_counts.  Known gaps: another miner has written since this one
\* looked, so that both add the same commits; HEAD has moved between the commit
\* recorded and the log read; a rebuild stopped after it cleared; and commits added
\* to a history longer than the cap, where the counts keep what a reading of all of
\* it no longer reaches, or never get what is older than the newest added.
Add(m) ==
  /\ miner[m].at = "add"
  /\ LET r == miner[m]
         whole == ~r.added /\ cleared = m
         alone == IF r.added THEN totals.head = r.previous ELSE whole
     IN /\ totals' = [head |-> r.head, n |-> Tally(totals.n, r.of)]
        /\ spoiled' = (IF whole THEN {} ELSE spoiled)
                      \cup (IF alone THEN {} ELSE {"overlap"})
                      \cup (IF r.still THEN {} ELSE {"moved"})
                      \cup (IF r.added /\ Capped(r.head) THEN {"capped"} ELSE {})
        /\ Becomes(m, [Waiting EXCEPT !.at = "symbol"])
  /\ cleared' = NoCommit
  /\ UNCHANGED <<gitHead, moves, symbolRules, answer, starts>>

\* Any step of either section may fail, or time out, which costs this section
\* and not the answer; or the process ends.
GiveUp(m) ==
  /\ miner[m].at \in {"probe", "ancestor", "log", "clear", "add",
                     "symbol", "mine", "diff", "store"}
  /\ miner' \in {[miner EXCEPT ![m] = [Waiting EXCEPT !.at = "answer"]],
                [miner EXCEPT ![m] = Waiting]}
  /\ OnlyMiner

-----------------------------------------------------------------------------
(* _ensure_symbol_cochange, and the answer.                                *)

ProbeSymbol(m) ==
  /\ miner[m].at = "symbol"
  /\ Becomes(m, IF symbolRules.head = gitHead
                THEN [Waiting EXCEPT !.at = "answer", !.symbols = TRUE]
                ELSE [miner[m] EXCEPT !.at = "mine", !.head = gitHead, !.moves = moves])
  /\ OnlyMiner

\* read_commits, and then read_symbol_commits.
MineSymbol(m) ==
  /\ miner[m].at = "mine"
  /\ Becomes(m, [miner[m] EXCEPT !.at = "diff", !.of = Log(Ancestors[gitHead])])
  /\ OnlyMiner

ReadSymbolCommits(m) ==
  /\ miner[m].at = "diff"
  /\ LET touched == Log({c \in Ancestors[gitHead] : File \in FilesOf[c]})
     IN Becomes(m, [miner[m] EXCEPT !.at = "store", !.of = @ \cap touched,
                                    !.still = moves = miner[m].moves])
  /\ OnlyMiner

\* The rules of the file are replaced in one transaction.
StoreSymbol(m) ==
  /\ miner[m].at = "store"
  /\ symbolRules' = [head |-> miner[m].head, of |-> miner[m].of, still |-> miner[m].still]
  /\ Becomes(m, [Waiting EXCEPT !.at = "answer", !.symbols = TRUE])
  /\ UNCHANGED <<gitHead, moves, totals, spoiled, cleared, answer, starts>>

\* The rules of the symbol are asked for only where its section went well.
Companions(m) ==
  /\ miner[m].at = "answer"
  /\ LET s == miner[m].symbols
     IN answer' = [head |-> totals.head,
                   symbolHead |-> IF s THEN symbolRules.head ELSE NoCommit,
                   sound |-> spoiled = {} /\ (s => symbolRules.still),
                   companions |-> Merged(totals.n, IF s THEN symbolRules.of ELSE {})]
  /\ Becomes(m, Waiting)
  /\ UNCHANGED <<gitHead, moves, totals, symbolRules, spoiled, cleared, starts>>

MinerStep(m) == ReadHead(m) \/ Probe(m) \/ Ancestor(m) \/ ReadCommits(m) \/ Clear(m)
                \/ Add(m) \/ GiveUp(m) \/ ProbeSymbol(m) \/ MineSymbol(m)
                \/ ReadSymbolCommits(m) \/ StoreSymbol(m) \/ Companions(m)
MineNext == Move \/ \E m \in Miners : MinerStep(m)

MineSpec == MineInit /\ [][MineNext]_minerVars

-----------------------------------------------------------------------------
(* Properties.                                                             *)

History(c) == IF c = NoCommit THEN {} ELSE Ancestors[c]
\* mine: the rules of a history read at once.
Mined(head, symbolHead) == Merged(Tally(Nothing, Log(History(head))),
                                  SymbolLog(History(symbolHead)))

\* However often HEAD has moved, forward, back or to another branch, and however
\* many preflights have updated the counts, the companions an answer names are
\* those a fresh reading of the recorded history gives, which reads no more than
\* max_commits; the known gaps are an overlapping update, a HEAD that moves while
\* it is read, a rebuild that stops between clearing and adding, and an update of
\* a history longer than max_commits, until the next whole rebuild.
CompanionsOfThisHistory ==
  answer.sound =>
    answer.companions = Mined(answer.head, answer.symbolHead)
===============================================================================
