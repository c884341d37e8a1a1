-------------------------------- MODULE Review --------------------------------
(***************************************************************************)
(* preflight, check and guards of engine.py: answers made of sections,     *)
(* each with a source of its own that may fail, be too wide to list or not *)
(* be asked, and a budget that cuts the sections afterwards.               *)
(*                                                                         *)
(* Of a section the model keeps how much there was to say and how much of  *)
(* it is listed.  A section is said when a note, a count, a status or a    *)
(* flag of the answer lets the reader know that its list is not all there  *)
(* is, or why it is empty.  No section depends on another, and the one with *)
(* most cases is filled first.                                             *)
(***************************************************************************)
EXTENDS Naturals, Sequences, FiniteSets, FiniteSetsExt, SequencesExt

CONSTANTS Paths,                      \* files other than the changed ones
          CommonNameMax,              \* _common_name_max
          ResolveMaxFiles,            \* _resolve_max_files
          LeadsShown, DependentsShown, DependentsMax,
          CompanionsShown,            \* the limit of rank_companions
          RulesShown,                 \* the limit of cochange_rules_for
          MatchesShown,               \* the limit of _structural_matches
          CheckMaxSymbols, GuardsShown, GuardsPerFile, GuardsTier,
          GuardsScan,                 \* companions whose guards are read
          Floor,                      \* what the budget leaves of a list
          Fences,                     \* guards of the files before and after
          MaxFences                   \* bound: guards of a file

ASSUME ReviewAssumption ==
  /\ IsFiniteSet(Paths)
  /\ {CommonNameMax, ResolveMaxFiles, LeadsShown, DependentsMax,
      CompanionsShown, RulesShown, MatchesShown, CheckMaxSymbols, GuardsShown,
      GuardsPerFile, GuardsTier, GuardsScan, Floor, MaxFences} \subseteq Nat
  /\ DependentsShown \in Nat \ {0}

VARIABLE review
reviewVars == <<review>>

Sections == [preflight |-> {"reuse", "history", "callers", "leads", "importers"},
             check |-> {"rebuilt", "companions", "callers", "dependents", "removed"},
             guards |-> {"guards"}]

Failed == {"failed"}  \* the set of files a source gives that fails
Unread == [found |-> 0, shown |-> 0]
Reviewing(kind) ==
  [kind |-> kind, at |-> "index", symbol |-> FALSE, truncated |-> FALSE,
   part |-> [s \in Sections[kind] |-> Unread], said |-> {}, gaps |-> {}]
NoReview == [kind |-> "none", at |-> "none"]
ReviewInit == review = NoReview

\* A section is filled and the next one comes.
Fill(s, found, shown, next) ==
  [review EXCEPT !.part[s] = [found |-> found, shown |-> shown], !.at = next]
Least(a, b) == IF a <= b THEN a ELSE b
Say(r, sections) == [r EXCEPT !.said = @ \cup sections]
Gap(r, sections) == [r EXCEPT !.gaps = @ \cup sections]
Doing(kind, step) == review.kind = kind /\ review.at = step

Begin == /\ review = NoReview
         /\ \E kind \in DOMAIN Sections : review' = Reviewing(kind)

\* _empty_preflight, _empty_check and the two early answers of guards: their
\* only content is the note that says why.
Empty == Say([review EXCEPT !.at = "done"], Sections[review.kind])

\* _ensure_indexed; guards reads the files themselves.
Indexed == /\ review.at = "index"
           /\ \/ /\ review.kind = "preflight"
                 /\ review' = [review EXCEPT !.at = "blast"]
              \/ /\ review.kind # "preflight"
                 /\ review' = [review EXCEPT !.at = "diff"]
NotIndexed == /\ review.at = "index" /\ review.kind # "guards"
              /\ review' = Empty

-----------------------------------------------------------------------------
(* preflight.                                                              *)

\* _reuse_candidates: a name that is a convention is counted and not listed.
\* Known gap: the list ends at its limit without a word.
Reuse ==
  /\ Doing("preflight", "reuse")
  /\ \/ ~review.symbol /\ review' = Say(Fill("reuse", 0, 0, "history"), {"reuse"})
     \/ review.symbol /\ \E same \in 0..CommonNameMax + 1, alike \in 0..1 :
          LET common == same > CommonNameMax
              shown == Least(IF common THEN alike ELSE same + alike, CommonNameMax)
              r == Fill("reuse", same + alike, shown, "history")
          IN review' = IF common \/ shown = 0 THEN Say(r, {"reuse"})
                       ELSE IF shown < same + alike THEN Gap(r, {"reuse"}) ELSE r

\* The rules, or where there is none the strongest pairs; co_change_pool counts
\* what they were chosen from.
HistorySays ==
  /\ Doing("preflight", "history")
  /\ \E available, ranked \in BOOLEAN, pool \in 0..CompanionsShown + 1 : \E rules \in 0..pool :
       LET shown == IF rules > 0 THEN Least(rules, RulesShown)
                    ELSE IF ranked THEN Least(pool, CompanionsShown) ELSE 0
           r == Fill("history", pool, shown, "importers")
       IN review' = IF ~available \/ shown = 0 \/ pool > 0 THEN Say(r, {"history"}) ELSE r

\* _blast_radius_notes: no callers, because nobody calls or nobody looked.
BlastNotes(callers, leads) ==
  IF callers # {} THEN (IF leads = {} THEN {} ELSE {"leads"})
  ELSE {"callers", "leads"}

\* _ensure_blast_radius: what it decides, in the order it decides.
Resolution(symbol, defined, resolve, sweep, cached, resolvable, finds) ==
  IF ~symbol THEN "no-symbol"
  ELSE IF ~defined THEN "undefined-in-target"
  ELSE IF resolve = "off" THEN "off"
  ELSE IF sweep = Failed THEN "failed"
  ELSE IF cached THEN "cached"
  ELSE IF ~resolvable THEN "unsupported"
  ELSE IF resolve = "auto" /\ (ResolveMaxFiles = 0 \/ Cardinality(sweep) > ResolveMaxFiles)
       THEN "declined"
  ELSE IF finds = Failed THEN "failed" ELSE "resolved"
Swept(status) == status \notin {"no-symbol", "undefined-in-target", "off"}

\* The leads beside the callers, and their number with the first few.  What a
\* resolution finds is read back from the edges it has stored, which a busy index or
\* one that changed meanwhile has not all taken; stored are those there before.
\* Known gaps: edges a resolution, this one or the cached one, found and did not
\* store; and a file whose stored callers are not all it has says so only where none
\* is stored.
BlastRadius ==
  /\ Doing("preflight", "blast")
  /\ \E symbol, defined, cached, resolvable, dropped \in BOOLEAN, resolve \in {"on", "off", "auto"},
        stored \in SUBSET Paths, sweep, finds \in {Failed} \cup SUBSET Paths :
     \E written \in SUBSET finds :
       LET status == Resolution(symbol, defined, resolve, sweep, cached, resolvable, finds)
           resolved == status = "resolved"
           callers == stored \cup (IF resolved THEN written ELSE {})
           there == stored \cup (IF resolved THEN finds ELSE {})
           leads == IF Swept(status) /\ sweep # Failed THEN sweep \ callers ELSE {}
           lost == there # callers \/ (status = "cached" /\ dropped)
           r == [review EXCEPT !.part["callers"] = [found |-> Cardinality(there),
                                                    shown |-> Cardinality(callers)],
                   !.part["leads"] = [found |-> Cardinality(leads),
                                      shown |-> Least(Cardinality(leads), LeadsShown)],
                   !.at = "reuse", !.symbol = symbol]
           t == Say(r, (BlastNotes(callers, leads) \ IF lost THEN {"callers"} ELSE {})
                       \cup IF leads # {} THEN {"leads"} ELSE {})
       IN review' = IF lost THEN Gap(t, {"callers"}) ELSE t

\* Files that import the module, without those named already.
Width(s, imports, next) ==
  IF imports = Failed THEN Say(Fill(s, 0, 0, next), {s})
  ELSE IF Cardinality(imports) > DependentsMax
       THEN Say(Fill(s, Cardinality(imports), 0, next), {s})
       ELSE Fill(s, Cardinality(imports), Least(Cardinality(imports), DependentsShown), next)

\* _module_dependents_for: each entry carries how many there were.  Known gap:
\* nothing says that only Python files are asked about, and that none imports it.
Importers ==
  /\ Doing("preflight", "importers")
  /\ \/ review' = Gap(Fill("importers", 0, 0, "trim"), {"importers"})
     \/ \E imports \in {Failed} \cup SUBSET Paths :
          LET r == Width("importers", imports, "trim")
          IN review' = IF imports = {} THEN Gap(r, {"importers"})
                       ELSE IF r.part["importers"].shown > 0 THEN Say(r, {"importers"}) ELSE r

Shown(s) == review.part[s].shown
Cut(s) == [review EXCEPT !.part[s].shown = @ - 1]

\* The lists the budget takes entries of, in this order, and what it leaves of
\* each: the section it takes the next one of, if any.
Cuts == [preflight |-> <<<<"importers", 0>>, <<"leads", Floor>>, <<"callers", Floor>>,
                         <<"history", Floor>>, <<"reuse", 0>>, <<"leads", 0>>>>,
         check |-> <<<<"dependents", 0>>, <<"callers", Floor>>, <<"companions", Floor>>,
                     <<"rebuilt", Floor>>, <<"removed", Floor>>>>,
         guards |-> <<<<"guards", 0>>>>]
Dropped ==
  LET cuts == Cuts[review.kind]
      over == {i \in DOMAIN cuts : Shown(cuts[i][1]) > cuts[i][2]}
  IN IF over = {} THEN "none" ELSE cuts[Min(over)][1]

\* dropped_by_budget names the section; truncated_by_budget is of the answer.
Trim ==
  /\ review.at = "trim" /\ Dropped # "none"
  /\ review' = Say(Cut(Dropped), IF review.kind = "preflight" THEN {Dropped}
                                 ELSE Sections[review.kind])
Fits ==
  /\ review.at = "trim"
  /\ review' = [review EXCEPT !.at = "done"]

-----------------------------------------------------------------------------
(* check.                                                                  *)

\* changed_files: no worktree, no change, a change beyond what is read, which
\* only history and the fences are asked about, or an ordinary one.
Diff ==
  /\ review.at = "diff"
  /\ \/ review' = Empty
     \/ review' = [review EXCEPT !.at = IF review.kind = "check" THEN "removed" ELSE "guards"]
     \/ /\ review.kind = "check"
        /\ review' = Say([review EXCEPT !.at = "removed", !.truncated = TRUE],
                         {"rebuilt", "callers", "dependents"})

\* _structural_matches of the changed units.  Known gaps: an entry lists so many of
\* the copies of its unit, of a shape that very many units share none, as it is a
\* pattern; and a file that cannot be parsed has no unit.
Rebuilt ==
  /\ Doing("check", "rebuilt")
  /\ \E unreadable \in BOOLEAN, alike \in 0..Floor + 1, copies \in 1..CommonNameMax + 1 :
       LET hidden == unreadable \/ copies > CommonNameMax
           r == Fill("rebuilt", alike, IF hidden THEN 0 ELSE alike, "companions")
       IN review' = IF hidden \/ copies > MatchesShown THEN Gap(r, {"rebuilt"}) ELSE r

\* Known gap: of the rules of a changed file, cochange_rules_for gives the first
\* few without a word.
CheckCompanions ==
  /\ Doing("check", "companions")
  /\ \E available \in BOOLEAN, rules \in 0..RulesShown + 1 :
       LET next == IF review.truncated THEN "said" ELSE "callers"
           r == Fill("companions", rules, Least(rules, RulesShown), next)
       IN review' = IF ~available THEN Say(Fill("companions", rules, 0, next), {"companions"})
                    ELSE IF rules > RulesShown THEN Gap(r, {"companions"}) ELSE r

\* The callers of the first symbols are resolved.  Known gaps: what
\* _ensure_blast_radius says of a symbol is not passed on, and a changed file whose
\* indexing failed on its own is asked about by its old rows.
CheckCallers ==
  /\ Doing("check", "callers")
  /\ \E changed \in 0..CheckMaxSymbols + 1, resolved \in BOOLEAN : \E outside \in 0..changed :
       LET listed == IF resolved THEN Least(outside, CheckMaxSymbols) ELSE 0
           r == Fill("callers", outside, listed, "dependents")
           t == IF changed > CheckMaxSymbols THEN Say(r, {"callers"}) ELSE r
       IN review' = IF resolved THEN t ELSE Gap(t, {"callers"})

\* _module_dependents_tier.  Known gap: only the two strongest are listed, and
\* unlike those of preflight they do not say of how many.
Dependents ==
  /\ Doing("check", "dependents")
  /\ \E imports \in {Failed} \cup SUBSET Paths :
       LET r == Width("dependents", imports, "said")
           listed == r.part["dependents"].shown
       IN review' = IF listed > 0 /\ listed < Cardinality(imports) THEN Gap(r, {"dependents"})
                    ELSE r

-----------------------------------------------------------------------------
(* _removed_guards: the fences of the files before and after the change.   *)

Named == {"test", "threshold", "allowlist", "env_switch", "constraint"}
Weakenable == (Named \ {"test"}) \cup {"assert"}
Key(g) == <<g.kind, g.name>>

\* What of the later image has landed anywhere in the change.
Landed(after) == [keys |-> {Key(g) : g \in {h \in after : h.kind \in Named}},
                  rules |-> {<<g.kind, g.rule>> : g \in after},
                  reasons |-> {<<g.kind, g.reason>> : g \in {h \in after : h.reason # "none"}}]
Moved(g, landed) == \/ Key(g) \in landed.keys
                    \/ <<g.kind, g.rule>> \in landed.rules
                    \/ <<g.kind, g.reason>> \in landed.reasons

SameKey(s, g) == {i \in DOMAIN s : Key(s[i]) = Key(g)}
SameRule(s, g) == {i \in SameKey(s, g) : s[i].rule = g.rule}

\* A guard that has its like in the later image is matched off with it, one for one.
MatchOff(acc, g, same) ==
  IF same # {} THEN [acc EXCEPT !.now = RemoveAt(@, Min(same))]
  ELSE [acc EXCEPT !.left = Append(@, g)]
Match(acc, g) == MatchOff(acc, g, SameRule(acc.now, g))

\* Mutant: guards are matched by kind and name alone.
UnmatchedByName(was, now) ==
  FoldLeft(LAMBDA acc, g : MatchOff(acc, g, SameKey(acc.now, g)),
           [now |-> now, left |-> <<>>], was)

Unmatched(was, now) == FoldLeft(Match, [now |-> now, left |-> <<>>], was)

\* Of what is left, a replaced guard was loosened and one that did not move is
\* gone; only guards with a reason are reported.
Judge(acc, g, landed) ==
  LET other == SameKey(acc.now, g)
  IN CASE g.reason = "none" -> acc
       [] g.reason # "none" /\ other # {} ->
            [now |-> RemoveAt(acc.now, Min(other)),
             reports |-> IF g.kind \in Weakenable THEN acc.reports \cup {g} ELSE acc.reports]
       [] OTHER -> IF Moved(g, landed) THEN acc ELSE [acc EXCEPT !.reports = @ \cup {g}]
Reported(was, now, landed) ==
  LET start == Unmatched(was, now)
  IN FoldLeft(LAMBDA acc, g : Judge(acc, g, landed),
              [now |-> start.now, reports |-> {}], start.left).reports

\* What a reader would call gone: an explained guard whose rule, reason and, if
\* it has one, name stand nowhere in the changed files, and in whose file no
\* guard of its kind and name has come, nor another copy of one.
Copies(s, g) == Cardinality(SameRule(s, g))
Gone(was, now, after) ==
  {g \in ToSet(was) :
     /\ g.reason # "none"
     /\ ~Moved(g, Landed(after))
     /\ \A h \in ToSet(now) : Key(h) = Key(g) => Copies(now, h) <= Copies(was, h)}

Images == SeqOf(Fences, MaxFences)
Removed ==
  /\ Doing("check", "removed")
  /\ \E was, now \in Images, elsewhere \in SUBSET Fences :
       /\ Cardinality(elsewhere) <= 1
       /\ LET after == ToSet(now) \cup elsewhere
              gone == Gone(was, now, after)
              told == Reported(was, now, Landed(after))
          IN review' = Fill("removed", Cardinality(gone \cup told), Cardinality(told),
                            IF review.truncated THEN "companions" ELSE "rebuilt")

\* "Nothing found", where all five are empty.
NothingFound ==
  /\ Doing("check", "said")
  /\ review' = [review EXCEPT !.at = "trim",
                  !.said = @ \cup IF \A s \in Sections["check"] : Shown(s) = 0
                                  THEN Sections["check"] ELSE {}]

-----------------------------------------------------------------------------
(* guards: the fences a change may meet, counted file by file.             *)

\* _guard_reach: the changed files and those that name a changed symbol, of a
\* symbol that is named in too many files none.
GuardReach(sweep) == {"changed"} \cup (IF sweep = "read" THEN Paths ELSE {})

\* A fence of the changed file counts, one of another file if it names the
\* symbol itself.
ByName(of, reach) ==
  MapThenSumSet(LAMBDA f : of[f].naming + (IF f = "changed" THEN of[f].other ELSE 0), reach)

\* take: of the fences not listed yet, so many of a file and of a tier.
TakeFrom(t, f) ==
  LET n == Least(Least(t.left[f], GuardsPerFile), GuardsTier - t.taken)
  IN [left |-> [t.left EXCEPT ![f] = @ - n], taken |-> t.taken + n]
Take(tier, files) == FoldLeft(TakeFrom, [tier EXCEPT !.taken = 0], SetToSeq(files))

\* _guards_in_reach: by name, then by history, then by import.
InReach(of, sweep, companions, importers) ==
  LET history == Take([left |-> [f \in Paths |-> of[f].other], taken |-> 0], companions)
      imports == Take(history, importers)
  IN ByName(of, GuardReach(sweep)) + history.taken + imports.taken

\* total_in_reach and truncated_by_budget tell of the cut.  Known gaps: a sweep
\* that fails, a symbol that is not asked about, as it is beyond the first few or
\* there is no index to read it from, a history that is unavailable, and of the
\* companions those that are not read.
Guards ==
  /\ Doing("guards", "guards")
  /\ \E of \in [Paths \cup {"changed"} -> [naming : 0..1, other : {0, GuardsPerFile + 1}]],
        sweep \in {"read", "failed", "wide", "unasked"}, scan \in BOOLEAN,
        companions, importers \in SUBSET Paths :
     \E history \in {companions, {}} \cup {h \in SUBSET companions : Cardinality(h) = GuardsScan} :
       LET there == InReach(of, "read", companions, importers)
           ranked == InReach(of, sweep, history, IF scan THEN importers ELSE {})
           r == Fill("guards", there, Least(ranked, GuardsShown), "trim")
           t == IF sweep = "wide" \/ ~scan \/ ranked = 0 \/ ranked > GuardsShown
                THEN Say(r, {"guards"}) ELSE r
           quiet == sweep \in {"failed", "unasked"} \/ history # companions
       IN /\ Cardinality(history) <= GuardsScan
          /\ review' = IF quiet THEN Gap(t, {"guards"}) ELSE t

Hand == /\ review.at = "done"
        /\ review' = NoReview

ReviewNext == Begin \/ Indexed \/ NotIndexed \/ Reuse \/ HistorySays \/ BlastRadius \/ Importers
              \/ Diff \/ Rebuilt \/ CheckCompanions \/ CheckCallers \/ Dependents \/ Removed
              \/ NothingFound \/ Guards \/ Trim \/ Fits \/ Hand
ReviewSpec == ReviewInit /\ [][ReviewNext]_reviewVars

-----------------------------------------------------------------------------
(* Properties.                                                             *)

\* An answer never lets silence pass for absence: of every section whose list
\* is shorter than what there was to list, and of every answer with no list at
\* all, a note, a count or a flag says so, whatever failed, was too wide, was
\* not asked or was cut by the budget on the way, but for the known gaps.
SilenceIsSaid ==
  review.at = "done" =>
    /\ \A s \in Sections[review.kind] \ review.gaps :
         Shown(s) < review.part[s].found => s \in review.said
    /\ (\A s \in Sections[review.kind] : Shown(s) = 0) => review.said # {}
    /\ review.kind = "preflight" =>
         \A s \in {"reuse", "history", "callers"} \ review.gaps : Shown(s) = 0 => s \in review.said
===============================================================================
