------------------------------ MODULE MCAnswers ------------------------------
(***************************************************************************)
(* The parts that make and deliver one answer.  They share no state, so    *)
(* each behaviour exercises one of them, its subject.                      *)
(***************************************************************************)
EXTENDS ToolCalls, MCHistory, MapCache, MCReview, ReferenceEdges, MCDuplicates

CONSTANTS s1, s2, a, d, r1, r2
VARIABLE subject

\* The calls of every operation: at most two parameters are not as usual.
MCValues(op, p) ==
  CASE p \in Flags -> {"false", "true"}
    [] p \in Lists -> {<<>>, <<<<"a">>>>, <<<<"a">>, <<"b">>>>, <<<<"a", "b">>>>}
    [] p \in Numbers -> {"none", "0", "7"}
    [] p = "resolve" -> {"none", "", "auto", "True", "False", "yes", "no"}
    [] p = "direction" -> {"both", "up"}
    [] OTHER -> {"none", "", "x"}
MCUsual(op) == [p \in Params(op) |-> IF p \in Required(op) THEN "x" ELSE Unset(op, p)]
MCCalls ==
  [op \in Operations |->
     UNION {{[MCUsual(op) EXCEPT ![p] = v, ![q] = w] : v \in MCValues(op, p), w \in MCValues(op, q)} :
              p \in Params(op), q \in Params(op)}]

MCMapProcess == [a |-> "daemon", c |-> "child"]
\* Of the reference edges: the target defines both symbols, or has lost the
\* second; the caller uses none or both, and both at the start.
MCContents == {"defs", "def", "none", "both"}
MCDefines == [c \in MCContents |-> CASE c = "defs" -> Symbols
                                     [] c = "def" -> {s1}
                                     [] OTHER -> {}]
MCUses == [c \in MCContents |-> IF c = "both" THEN Symbols ELSE {}]
MCVersions == [f \in Files |-> IF f = d THEN {"defs", "def"} ELSE {"none", "both"}]
MCFirstDisk == [f \in Files |-> IF f = d THEN "defs" ELSE "both"]

MCSymmetry == Permutations(Resolvers)

About(s) == subject = s /\ UNCHANGED subject

AnswersInit ==
  /\ subject \in {"tools", "history", "map", "review", "edges", "duplicates"}
  /\ ToolsInit /\ MineInit /\ MapInit /\ ReviewInit /\ Init /\ DupInit
  /\ subject # "tools" => server.direct = "no" /\ index
  /\ gitHead = "c1" /\ (subject # "history" => totals.head = NoCommit)
  /\ subject # "map" => made = <<>>
  /\ subject # "duplicates" => text = [f \in SourceFiles |-> CHOOSE t \in MCTextsOf(f) : TRUE]

AnswersNext ==
  \/ About("tools") /\ ToolsNext
     /\ UNCHANGED <<minerVars, mapVars, reviewVars, vars, dupVars>>
  \/ About("history") /\ MineNext
     /\ UNCHANGED <<toolVars, mapVars, reviewVars, vars, dupVars>>
  \/ About("map") /\ MapNext
     /\ UNCHANGED <<toolVars, minerVars, reviewVars, vars, dupVars>>
  \/ About("review") /\ ReviewNext
     /\ UNCHANGED <<toolVars, minerVars, mapVars, vars, dupVars>>
  \/ About("edges") /\ Next
     /\ UNCHANGED <<toolVars, minerVars, mapVars, reviewVars, dupVars>>
  \/ About("duplicates") /\ DupNext
     /\ UNCHANGED <<toolVars, minerVars, mapVars, reviewVars, vars>>

answersVars == <<subject, toolVars, minerVars, mapVars, reviewVars, vars, dupVars>>
AnswersSpec == AnswersInit /\ [][AnswersNext]_answersVars
==============================================================================
