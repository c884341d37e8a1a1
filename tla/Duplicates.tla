------------------------------ MODULE Duplicates ------------------------------
(***************************************************************************)
(* find_duplicates (engine.py).  The fingerprints of a file are computed   *)
(* when somebody asks and its content has changed since; the answer groups *)
(* the functions that look alike, in the whole project or, for one file,   *)
(* the groups the file has a member in.  Files are edited and indexed in   *)
(* between, by a process that shares no lane with this one.                *)
(*                                                                         *)
(* Sites are the places of functions, numbered in the order of their       *)
(* (path, line).  A content is what a file has at each of its sites.       *)
(***************************************************************************)
EXTENDS Naturals, FiniteSets, FiniteSetsExt

CONSTANTS SourceFiles, Sites,
          SiteFile,           \* the file of a site
          Texts,              \* contents of files
          Unit(_, _),         \* the fingerprint of a content's function at a site
          TextsOf(_),         \* the contents a file may get
          NoText,             \* no file, or no rows
          DfCap, MinShared,   \* CODESEXTANT_DEDUP_FP_DF_CAP, _MIN_SHARED_FP
          SimOf, SimOutOf,    \* the similarity threshold, a fraction
          MaxTextEdits, MaxFinds  \* bounds of the checks

Everywhere == "everywhere"   \* scope_file is None

\* A function has finitely many fingerprints; _env_int makes the shared count
\* positive and find_duplicates clamps the threshold to at least zero.
ASSUME DupAssumption ==
  /\ Everywhere \notin SourceFiles
  /\ IsFiniteSet(Sites) /\ SiteFile \in [Sites -> SourceFiles]
  /\ \A f \in SourceFiles : TextsOf(f) \subseteq Texts
  /\ \A t \in Texts : \A s \in Sites : IsFiniteSet(Unit(t, s).fps)
  /\ MinShared \in Nat \ {0}
  /\ SimOf \in Nat /\ SimOutOf \in Nat \ {0}

VARIABLES
  text,       \* the contents on the disk
  listed,     \* the files table: the content indexed last
  prints,     \* fingerprints and fingerprint_index: the content they are of
  printsOf,   \* derived_state: the content they were computed for
  find,       \* the call in progress
  overtaken,  \* history: files indexed or removed while their rows were computed
  whole, scoped,  \* the last answers for everything and for one file, of these rows
  textEdits, finds

dupVars == <<text, listed, prints, printsOf, find, overtaken, whole, scoped, textEdits, finds>>

NoFind == [at |-> "idle", target |-> Everywhere, near |-> FALSE, calls |-> FALSE,
           stale |-> {}, path |-> NoText, of |-> NoText, source |-> NoText]
Unasked == [target |-> Everywhere, calls |-> FALSE, groups |-> {}]

DupInit ==
  /\ text \in [SourceFiles -> Texts] /\ \A f \in SourceFiles : text[f] \in TextsOf(f)
  /\ listed = text
  /\ prints = [f \in SourceFiles |-> NoText] /\ printsOf = prints
  /\ find = NoFind
  /\ overtaken = {}
  /\ whole = Unasked /\ scoped = Unasked
  /\ textEdits = 0 /\ finds = 0

-----------------------------------------------------------------------------
(* The files and their index.                                              *)

EditText(f) ==
  /\ textEdits < MaxTextEdits
  /\ textEdits' = textEdits + 1
  /\ \E t \in (TextsOf(f) \cup {NoText}) \ {text[f]} : text' = [text EXCEPT ![f] = t]
  /\ UNCHANGED <<listed, prints, printsOf, find, overtaken, whole, scoped, finds>>

\* The rows of a file changed: what was answered is of other rows.
Forget == whole' = Unasked /\ scoped' = Unasked

\* store_file_index and remove_file drop what was derived from the old content.
\* The path may be the one whose rows are being computed.
IndexText(f) ==
  /\ listed[f] # text[f]
  /\ listed' = [listed EXCEPT ![f] = text[f]]
  /\ prints' = [prints EXCEPT ![f] = NoText]
  /\ printsOf' = [printsOf EXCEPT ![f] = NoText]
  /\ overtaken' = overtaken \ {f}
  /\ Forget
  /\ UNCHANGED <<text, find, textEdits, finds>>

-----------------------------------------------------------------------------
(* Grouping.                                                               *)

UnitAt(s) == Unit(prints[SiteFile[s]], s)
Stored == {s \in Sites : prints[SiteFile[s]] # NoText}
Significant == {s \in Stored : UnitAt(s).significant}
InScope(members, target) ==
  target = Everywhere \/ \E s \in members : SiteFile[s] = target

Group(verdict, members) == [verdict |-> verdict, members |-> members]
Members(groups) == UNION {g.members : g \in groups}

Alike(sites, same(_, _)) == {{t \in sites : same(s, t)} : s \in sites}
SameShape(s, t) == UnitAt(s).shape = UnitAt(t).shape
SameTokens(s, t) == UnitAt(s).raw = UnitAt(t).raw
SameCalls(s, t) == UnitAt(s).call = UnitAt(t).call

\* Functions of one shape: verbatim copies, and the first of each kind of them.
Stage1OneShape(sites, target) ==
  LET clusters == Alike(sites, SameTokens)
      reps == {Min(c) : c \in clusters}
  IN {Group("EXACT_DUP", c) : c \in {k \in clusters : Cardinality(k) > 1 /\ InScope(k, target)}}
     \cup {Group("RENAMED_DUP", r) : r \in {k \in {reps} : Cardinality(k) > 1 /\ InScope(k, target)}}

\* Mutant: the comparison itself is restricted to the file.
Stage1InScope(target) ==
  UNION {Stage1OneShape(c, target) :
           c \in Alike({s \in Significant : InScope({s}, target)}, SameShape)}

Stage1(target) == UNION {Stage1OneShape(c, target) : c \in Alike(Significant, SameShape)}

\* Fingerprints found in too many functions.
Flood ==
  {v \in UNION {UnitAt(s).fps : s \in Stored} :
     Cardinality({s \in Stored : v \in UnitAt(s).fps}) > DfCap}

\* Of a scoped call: only the rows that hold a fingerprint of the file.
Seed(target) == UNION {UnitAt(s).fps : s \in {t \in Stored : SiteFile[t] = target}}
Loaded(s, target) ==
  (IF target = Everywhere THEN UnitAt(s).fps ELSE UnitAt(s).fps \cap Seed(target)) \ Flood

Resembles(s, t, target) ==
  LET shared == Cardinality(Loaded(s, target) \cap Loaded(t, target))
      union == Cardinality(Loaded(s, target) \cup Loaded(t, target))
  IN shared >= MinShared /\ union > 0 /\ shared * SimOutOf >= SimOf * union

Stage2(target, grouped) ==
  {Group("STRUCTURAL_NEAR", pair) : pair \in
     {p \in kSubset(2, Stored) :
        /\ InScope(p, target)
        /\ ~ p \subseteq grouped
        /\ \A s, t \in p : s # t => Resembles(s, t, target) /\ ~ SameShape(s, t)}}

CallPattern(target) ==
  {Group("CALL_PATTERN_SIM", c) : c \in
     {k \in Alike({s \in Significant : UnitAt(s).call # "none"}, SameCalls) :
        /\ \E s, t \in k : ~ SameShape(s, t)
        /\ InScope(k, target)}}

Groups(target, near, calls) ==
  LET same == Stage1(target)
  IN same \cup (IF target # Everywhere \/ near THEN Stage2(target, Members(same)) ELSE {})
          \cup (IF calls THEN CallPattern(target) ELSE {})

-----------------------------------------------------------------------------
(* A call.                                                                 *)

\* paths_missing_derived: the files whose rows are not of their content.
Missing == {f \in SourceFiles : listed[f] # NoText /\ printsOf[f] # listed[f]}

Find(target, near, calls) ==
  /\ find.at = "idle" /\ finds < MaxFinds
  /\ finds' = finds + 1
  /\ find' = [NoFind EXCEPT !.at = "derive", !.target = target, !.near = near, !.calls = calls,
                            !.stale = {<<f, listed[f]>> : f \in Missing}]
  /\ UNCHANGED <<text, listed, prints, printsOf, overtaken, whole, scoped, textEdits>>

\* Mutant: the content is taken as it is found.
ReadTextUnchecked ==
  /\ find.at = "derive" /\ find.path = NoText
  /\ \E m \in find.stale :
       find' = IF text[m[1]] # NoText
               THEN [find EXCEPT !.path = m[1], !.of = m[2], !.source = text[m[1]],
                                 !.stale = @ \ {m}]
               ELSE [find EXCEPT !.stale = @ \ {m}]
  /\ UNCHANGED <<text, listed, prints, printsOf, overtaken, whole, scoped, textEdits, finds>>

\* A file that is gone or no longer what the index describes is left out.
ReadText ==
  /\ find.at = "derive" /\ find.path = NoText
  /\ \E m \in find.stale :
       find' = IF text[m[1]] = m[2]
               THEN [find EXCEPT !.path = m[1], !.of = m[2], !.source = text[m[1]],
                                 !.stale = @ \ {m}]
               ELSE [find EXCEPT !.stale = @ \ {m}]
  /\ UNCHANGED <<text, listed, prints, printsOf, overtaken, whole, scoped, textEdits, finds>>

\* The rows are written whatever became of the file since.
StoreRows ==
  /\ find.path # NoText
  /\ prints' = [prints EXCEPT ![find.path] = find.source]
  /\ printsOf' = [printsOf EXCEPT ![find.path] = find.of]
  /\ overtaken' = IF listed[find.path] = find.of THEN overtaken \ {find.path}
                                                 ELSE overtaken \cup {find.path}
  /\ find' = [find EXCEPT !.path = NoText, !.of = NoText, !.source = NoText]
  /\ Forget
  /\ UNCHANGED <<text, listed, textEdits, finds>>

\* Parsing, or the database, fails: the file is left out.
DeriveFails ==
  /\ find.path # NoText
  /\ find' = [find EXCEPT !.path = NoText, !.of = NoText, !.source = NoText]
  /\ UNCHANGED <<text, listed, prints, printsOf, overtaken, whole, scoped, textEdits, finds>>

\* The stages load their rows with SELECTs of their own; here all of them see the
\* rows of one moment.
GiveGroups ==
  /\ find.at = "derive" /\ find.path = NoText /\ find.stale = {}
  /\ LET reply == [target |-> find.target, calls |-> find.calls,
                   groups |-> Groups(find.target, find.near, find.calls)]
     IN IF find.target = Everywhere THEN whole' = reply /\ UNCHANGED scoped
                                    ELSE scoped' = reply /\ UNCHANGED whole
  /\ find' = NoFind
  /\ UNCHANGED <<text, listed, prints, printsOf, overtaken, textEdits, finds>>

DupNext ==
  \/ \E f \in SourceFiles : EditText(f) \/ IndexText(f)
  \/ \E near, calls \in BOOLEAN : Find(Everywhere, near, calls)
  \/ \E f \in SourceFiles, calls \in BOOLEAN : Find(f, FALSE, calls)
  \/ ReadText \/ StoreRows \/ DeriveFails \/ GiveGroups

DupSpec == DupInit /\ [][DupNext]_dupVars

-----------------------------------------------------------------------------
(* Properties.                                                             *)

\* Asking about one file hides nothing: every group of the whole project's
\* answer with a member in the file is in the file's own answer, for the same
\* rows.  Scope decides which groups are reported, never what is compared.
ScopeMissesNothing ==
  scoped.target # Everywhere /\ (whole.calls => scoped.calls)
    => \A g \in whole.groups : InScope(g.members, scoped.target) => g \in scoped.groups

\* Fingerprints never disagree with the symbols beside them: the rows of a
\* file are of the content the index describes, unless the file was indexed or
\* removed while they were computed, which nothing notices.
RowsOfTheIndex ==
  \A f \in SourceFiles \ overtaken : prints[f] \in {NoText, listed[f]}
=============================================================================
