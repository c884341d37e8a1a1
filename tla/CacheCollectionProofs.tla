------------------------ MODULE CacheCollectionProofs ------------------------
(***************************************************************************)
(* What the collection of the caches deletes, for any number of projects   *)
(* and users and any graces, quota and clock.                              *)
(***************************************************************************)
EXTENDS CacheCollection, Integers, FiniteSetTheorems, TLAPS

-----------------------------------------------------------------------------
(* The inductive invariant.                                                *)

Records == [files : [Kinds -> Nat], last : Nat, missing : BOOLEAN, issues : BOOLEAN]

Places == {"idle", "scanning", "passing", "checking", "deleting", "ending"}

TypeOK ==
  /\ clock \in Nat \ {0}
  /\ files \in [Projects -> [Kinds -> Nat]]
  /\ holders \in [Projects -> SUBSET Users]
  /\ exclusive \subseteq Projects
  /\ touches \in [Projects -> Nat]
  /\ gc \in [at : Places, pass : {"none", "missing", "idle", "quota", "forget"},
             records : [Projects -> Records \cup {None}],
             exclude : SUBSET Projects, attempted : SUBSET Projects,
             projected : Int, now : Nat, project : Projects \cup {None}, dry : BOOLEAN]

\* The lock of ProjectLock; who has a project open has its database.
Locked ==
  /\ \A p \in exclusive : holders[p] = {}
  /\ \A p \in Projects : holders[p] # {} => Exists(p)

\* The time the daemon remembers is not later than the marker it wrote.
Marked == \A p \in Projects : files[p]["access"] # 0 => touches[p] <= files[p]["access"]

\* From the lease to its release the collector is at one project, which its pass
\* has judged by the record.
Judging == gc.at \in {"checking", "deleting", "ending"}

Judged ==
  Judging =>
    /\ gc.project \in exclusive /\ gc.project \in Recorded
    /\ gc.pass = "missing" => Record.last + MissingGrace <= gc.now
    /\ gc.pass = "idle" => Record.last + IdleGrace <= gc.now
    /\ gc.pass = "quota" =>
         \A q \in Recorded \ (gc.exclude \cup gc.attempted) :
           Record.last <= gc.records[q].last

\* A group that is being deleted has the files of its record or none in their place.
Deleting ==
  gc.at = "deleting" =>
    /\ \A k \in Present(files[gc.project]) : files[gc.project][k] = Record.files[k]
    /\ Record.files["access"] # 0 => touches[gc.project] <= Record.files["access"]

Told ==
  /\ gc.now <= clock
  /\ \A p \in Recorded : gc.records[p].last = LastAccess(gc.records[p].files)

Inv == TypeOK /\ Locked /\ LeftoversFound /\ Marked /\ Judged /\ Deleting /\ Told

-----------------------------------------------------------------------------
(* The operators of the model.                                             *)

LEMMA PresentFinite ==
  ASSUME NEW f \in [Kinds -> Nat]
  PROVE  Cardinality(Present(f)) \in Nat
<1>1. IsFiniteSet(Kinds)
  <2>1. Kinds = ({} \cup {"db"}) \cup {"wal"} \cup {"access"}
    BY DEF Kinds
  <2> QED
    BY <2>1, FS_EmptySet, FS_AddElement
<1>2. Present(f) \subseteq Kinds
  BY DEF Present
<1> QED
  BY <1>1, <1>2, FS_Subset, FS_CardinalityType

LEMMA RankOfKinds == Rank["db"] = 2 /\ Rank["access"] = 1 /\ Rank["wal"] = 0
BY Zenon DEF Rank, Kinds

LEMMA LastAccessType ==
  ASSUME NEW f \in [Kinds -> Nat]
  PROVE  /\ LastAccess(f) \in Nat
         /\ f["access"] # 0 => LastAccess(f) = f["access"]
BY DEF LastAccess, Kinds

\* What a pass takes next satisfies the rule of the pass, and no candidate was
\* used less recently.
LEMMA NextCandidateJudged ==
  ASSUME TypeOK, NEW p \in NextCandidate
  PROVE  /\ p \in Recorded
         /\ gc.pass = "missing" => gc.records[p].last + MissingGrace <= gc.now
         /\ gc.pass = "idle" => gc.records[p].last + IdleGrace <= gc.now
         /\ gc.pass = "quota" =>
              \A q \in Recorded \ (gc.exclude \cup gc.attempted) :
                gc.records[p].last <= gc.records[q].last
<1>1. p \in Candidates /\ \A q \in Candidates : gc.records[p].last <= gc.records[q].last
  BY DEF NextCandidate
<1>2. p \in Recorded
  BY <1>1 DEF Candidates
<1>3. gc.pass = "missing" => gc.records[p].last + MissingGrace <= gc.now
  BY <1>1 DEF Candidates
<1>4. gc.pass = "idle" => gc.records[p].last + IdleGrace <= gc.now
  BY <1>1 DEF Candidates
<1>5. ASSUME gc.pass = "quota",
             NEW q \in Recorded \ (gc.exclude \cup gc.attempted)
      PROVE  gc.records[p].last <= gc.records[q].last
  <2>1. q \in Candidates
    BY <1>1, <1>5 DEF Candidates
  <2> QED
    BY <1>1, <2>1
<1> QED
  BY <1>2, <1>3, <1>4, <1>5

LEMMA RecordedType ==
  ASSUME TypeOK, NEW p \in Recorded
  PROVE  p \in Projects /\ gc.records[p] \in Records
BY DEF TypeOK, Recorded

LEMMA WriteType ==
  ASSUME TypeOK, NEW p \in Projects, NEW k \in Kinds, Write(p, k)
  PROVE  /\ clock' \in Nat \ {0} /\ files' \in [Projects -> [Kinds -> Nat]]
         /\ files'[p] = [files[p] EXCEPT ![k] = clock']
         /\ \A q \in Projects : q # p => files'[q] = files[q]
BY CollectionAssumption DEF TypeOK, Write, Tick

-----------------------------------------------------------------------------
(* The steps of the users.                                                 *)

LEMMA OpenInv ==
  ASSUME Inv, NEW u \in Users, NEW p \in Projects, Open(u, p)
  PROVE  Inv'
<1> USE CollectionAssumption DEF userVars, Inv
<1>1. TypeOK'
  <2>1. clock' \in Nat \ {0} /\ files' \in [Projects -> [Kinds -> Nat]]
    BY WriteType DEF Open, TypeOK, Kinds
  <2> QED
    BY <2>1 DEF Open, TypeOK
<1>2. Locked'
  <2>1. \A q \in Projects : Exists(q) => Exists(q)'
    BY DEF Open, TypeOK, Write, Tick, Kinds, Exists
  <2>2. Exists(p)'
    BY DEF Open, TypeOK, Write, Tick, Kinds, Exists
  <2>3. \A q \in Projects : q # p => holders'[q] = holders[q]
    BY DEF Open, TypeOK
  <2> QED
    BY <2>1, <2>2, <2>3 DEF Locked, Open, TypeOK
<1>3. LeftoversFound'
  <2>1. Exists(p)'
    BY DEF Open, TypeOK, Write, Tick, Kinds, Exists
  <2>2. \A q \in Projects : q # p => files'[q] = files[q]
    BY DEF Open, TypeOK, Write, Tick
  <2>3. \A q \in Projects : q # p /\ q \in orphaned => q \in orphaned'
    BY DEF Open
  <2> QED
    BY <2>1, <2>2, <2>3 DEF LeftoversFound, Present, Exists
<1>4. \A q \in Projects : files'[q]["access"] = files[q]["access"]
  BY DEF Open, TypeOK, Write, Tick, Kinds
<1>5. \A q \in exclusive : files'[q] = files[q]
  BY DEF Open, TypeOK, Write, Tick, Kinds
<1>6. Marked'
  BY <1>4 DEF Marked, Open
<1>7. Judged'
  BY DEF Open, Judged, Judging, Recorded, Record
<1>8. Deleting'
  BY <1>5 DEF Open, Deleting, Judged, Judging, Record, Present
<1>9. Told'
  BY DEF Open, Told, Recorded, LastAccess, TypeOK, Write, Tick
<1> QED
  BY <1>1, <1>2, <1>3, <1>6, <1>7, <1>8, <1>9

LEMMA StoreInv ==
  ASSUME Inv, NEW u \in Users, NEW p \in Projects, NEW k \in Kinds, Store(u, p, k)
  PROVE  Inv'
<1> USE CollectionAssumption DEF userVars, Inv
<1>1. TypeOK'
  BY DEF Store, TypeOK, Write, Tick, Kinds
<1>2. Exists(p) /\ p \notin exclusive
  BY DEF Store, Locked, TypeOK
<1>3. \A q \in Projects : Exists(q) => Exists(q)'
  BY DEF Store, TypeOK, Write, Tick, Kinds, Exists
<1>4. Locked'
  BY <1>3 DEF Locked, Store
<1>5. \A q \in Projects : q # p => files'[q] = files[q]
  BY DEF Store, TypeOK, Write, Tick
<1>6. LeftoversFound'
  BY <1>2, <1>3, <1>5 DEF Store, LeftoversFound, Present, Exists
<1>7. \A q \in Projects : files'[q]["access"] = files[q]["access"]
  BY DEF Store, TypeOK, Write, Tick, Kinds
<1>8. Marked'
  BY <1>7 DEF Marked, Store
<1>9. Judged'
  BY DEF Store, Judged, Judging, Recorded, Record
<1>10. Deleting'
  BY <1>2, <1>5 DEF Store, Deleting, Judged, Judging, Record, Present, TypeOK
<1>11. Told'
  BY DEF Store, Told, Recorded, LastAccess, TypeOK, Write, Tick
<1> QED
  BY <1>1, <1>4, <1>6, <1>8, <1>9, <1>10, <1>11

LEMMA CloseInv ==
  ASSUME Inv, NEW u \in Users, NEW p \in Projects, Close(u, p)
  PROVE  Inv'
<1> USE DEF userVars, Inv
<1>1. TypeOK'
  BY DEF Close, TypeOK
<1>2. Locked'
  BY DEF Close, Locked, Exists, TypeOK
<1>3. LeftoversFound' /\ Marked'
  BY DEF Close, LeftoversFound, Marked, Present, Exists
<1>4. Judged' /\ Deleting'
  BY DEF Close, Judged, Deleting, Judging, Recorded, Record, Present
<1>5. Told'
  BY DEF Close, Told, Recorded, LastAccess
<1> QED
  BY <1>1, <1>2, <1>3, <1>4, <1>5

\* A snapshot is written beside a database or of an orphan.
LEMMA WriteSnapshotInv ==
  ASSUME Inv, NEW u \in Users, NEW p \in Projects, WriteSnapshot(u, p)
  PROVE  Inv'
<1> USE CollectionAssumption DEF Inv
<1>1. /\ clock' = clock + 1 /\ files' \in [Projects -> [Kinds -> Nat]]
      /\ \A q \in Projects : q # p => files'[q] = files[q]
      /\ \A q \in Projects : \A k \in {"db", "access"} : files'[q][k] = files[q][k]
      /\ p \notin exclusive
      /\ UNCHANGED <<holders, exclusive, touches, gc>>
  BY DEF WriteSnapshot, TypeOK, Write, Tick, Kinds
<1>2. TypeOK'
  BY <1>1 DEF TypeOK
<1>3. \A q \in Projects : Exists(q)' <=> Exists(q)
  BY <1>1 DEF Exists
<1>4. Locked' /\ Marked'
  BY <1>1, <1>3 DEF Locked, Marked
<1>5. LeftoversFound'
  <2>1. Exists(p) \/ p \in orphaned'
    BY DEF WriteSnapshot
  <2>2. orphaned \subseteq orphaned'
    BY DEF WriteSnapshot
  <2> QED
    BY <1>1, <1>3, <2>1, <2>2 DEF LeftoversFound, Present
<1>6. Judged'
  BY <1>1 DEF Judged, Judging, Recorded, Record
<1>7. Deleting'
  BY <1>1 DEF Deleting, Judged, Judging, Record, Present, TypeOK
<1>8. Told'
  BY <1>1 DEF Told, Recorded, LastAccess, TypeOK
<1> QED
  BY <1>2, <1>4, <1>5, <1>6, <1>7, <1>8

LEMMA TouchInv ==
  ASSUME Inv, NEW p \in Projects, Touch(p)
  PROVE  Inv'
<1> USE CollectionAssumption DEF userVars, Inv
<1>1. TypeOK'
  <2>1. clock' \in Nat \ {0} /\ files' \in [Projects -> [Kinds -> Nat]]
    BY WriteType DEF Touch, Kinds
  <2> QED
    BY <2>1 DEF Touch, TypeOK
<1>2. \A q \in Projects : Exists(q) <=> Exists(q)'
  BY DEF Touch, TypeOK, Write, Tick, Kinds, Exists
<1>3. Locked'
  BY <1>2 DEF Locked, Touch
<1>4. \A q \in Projects : q # p => files'[q] = files[q] /\ touches'[q] = touches[q]
  BY DEF Touch, TypeOK, Write, Tick
<1>5. LeftoversFound'
  BY <1>2, <1>4 DEF LeftoversFound, Present, Exists, Touch
<1>6. files'[p]["access"] = clock + 1 /\ touches'[p] = clock
  BY DEF Touch, TypeOK, Write, Tick, Kinds
<1>7. Marked'
  BY <1>4, <1>6 DEF Marked, TypeOK
<1>8. Judged'
  BY DEF Touch, Judged, Judging, Recorded, Record
<1>9. Deleting'
  BY <1>4 DEF Touch, Deleting, Judged, Judging, Record, Present, TypeOK
<1>10. Told'
  BY DEF Touch, Told, Recorded, LastAccess, TypeOK, Write, Tick
<1> QED
  BY <1>1, <1>3, <1>5, <1>7, <1>8, <1>9, <1>10

LEMMA WaitInv ==
  ASSUME Inv, Wait \/ Restart \/ UNCHANGED vars
  PROVE  Inv'
<1> USE CollectionAssumption DEF userVars, Inv, Restart, Wait, Tick, vars
<1>1. TypeOK'
  BY DEF TypeOK
<1>2. Locked' /\ LeftoversFound'
  BY DEF Locked, LeftoversFound, Exists, Present
<1>3. Marked'
  <2> SUFFICES ASSUME NEW p \in Projects, files[p]["access"] # 0
               PROVE  touches'[p] <= files[p]["access"]
    BY DEF Marked
  <2>1. touches'[p] \in {0, touches[p]}
    OBVIOUS
  <2> QED
    BY <2>1 DEF Marked, TypeOK, Kinds
<1>4. Judged'
  BY DEF Judged, Judging, Recorded, Record
<1>5. Deleting'
  <2>1. gc.at = "deleting" => gc.project \in Projects /\ Record \in Records
    BY RecordedType DEF Judged, Judging, Record
  <2>2. UNCHANGED <<files, gc>>
    OBVIOUS
  <2>3. gc.at = "deleting" => \A k \in Present(files[gc.project]) :
                                files[gc.project][k] = Record.files[k]
    BY DEF Deleting
  <2>4. gc.at = "deleting" /\ Record.files["access"] # 0 =>
          touches'[gc.project] <= Record.files["access"]
    BY <2>1 DEF Deleting, TypeOK, Records, Kinds
  <2> QED
    BY <2>2, <2>3, <2>4 DEF Deleting, Record, Present
<1>6. Told'
  BY DEF Told, Recorded, LastAccess, TypeOK
<1> QED
  BY <1>1, <1>2, <1>3, <1>4, <1>5, <1>6

-----------------------------------------------------------------------------
(* The steps of the collector.                                             *)

\* Where the collector moves, the users stand still: three parts of the invariant
\* are about them alone.
LEMMA UsersStill ==
  ASSUME Inv, UNCHANGED <<files, userVars, touches>>, exclusive' \subseteq exclusive
  PROVE  Locked' /\ LeftoversFound' /\ Marked'
BY DEF userVars, Inv, TypeOK, Locked, LeftoversFound, Marked, Present, Exists

LEMMA IdleType ==
  /\ Idle.at = "idle" /\ Idle.now = 0 /\ Idle.records = [p \in Projects |-> None]
  /\ Idle \in [at : Places, pass : {"none", "missing", "idle", "quota", "forget"},
               records : [Projects -> Records \cup {None}],
               exclude : SUBSET Projects, attempted : SUBSET Projects,
               projected : Int, now : Nat, project : Projects \cup {None}, dry : BOOLEAN]
BY DEF Idle, Places

\* Nothing is judged by a collector that is not between a lease and its release.
LEMMA Elsewhere ==
  ASSUME gc'.at \notin {"checking", "deleting", "ending"}
  PROVE  Judged' /\ Deleting'
BY DEF Judged, Judging, Deleting

LEMMA StartInv ==
  ASSUME Inv, NEW pass \in {"missing", "forget"}, NEW e \in SUBSET Projects,
         NEW p \in Projects \cup {None}, NEW dry \in BOOLEAN, Start(pass, e, p, dry)
  PROVE  Inv'
<1> USE DEF userVars, Inv
<1>1. gc' = [Idle EXCEPT !.at = "scanning", !.pass = pass, !.exclude = e,
                         !.project = p, !.dry = dry]
  BY DEF Start
<1>2. TypeOK'
  BY <1>1, IdleType DEF Start, TypeOK, Places
<1>3. gc'.at = "scanning" /\ gc'.now = 0 /\ gc'.records = [q \in Projects |-> None]
  BY <1>1, IdleType
<1>4. Judged' /\ Deleting'
  BY <1>3, Elsewhere
<1>5. Told'
  BY <1>3 DEF Start, Told, TypeOK, Recorded
<1> QED
  BY <1>2, <1>4, <1>5, UsersStill DEF Start

LEMMA ScanInv ==
  ASSUME Inv, NEW p \in Projects, NEW missing \in BOOLEAN, NEW issues \in BOOLEAN,
         Scan(p, missing, issues)
  PROVE  Inv'
<1> USE DEF userVars, Inv
<1> DEFINE r == [files |-> files[p], last |-> LastAccess(files[p]),
                 missing |-> missing, issues |-> issues]
           found == IF ~Exists(p) THEN None ELSE r
           size == IF Exists(p) THEN Cardinality(Present(files[p])) ELSE 0
<1>1. files[p] \in [Kinds -> Nat]
  BY DEF TypeOK
<1>2. r \in Records
  BY <1>1, LastAccessType DEF Records
<1>3. size \in Nat
  BY <1>1, PresentFinite
<1>4. found \in Records \cup {None}
  BY <1>2
<1>5. gc' = [gc EXCEPT !.attempted = @ \cup {p}, !.records[p] = found,
                       !.projected = @ + size]
  BY DEF Scan
<1> HIDE DEF found, size
<1>6. TypeOK'
  <2>1. gc' \in [at : Places, pass : {"none", "missing", "idle", "quota", "forget"},
                 records : [Projects -> Records \cup {None}],
                 exclude : SUBSET Projects, attempted : SUBSET Projects,
                 projected : Int, now : Nat, project : Projects \cup {None}, dry : BOOLEAN]
    <3>1. [gc.records EXCEPT ![p] = found] \in [Projects -> Records \cup {None}]
      BY <1>4 DEF TypeOK
    <3>2. gc.projected + size \in Int
      BY <1>3 DEF TypeOK
    <3>3. gc.attempted \cup {p} \in SUBSET Projects
      BY DEF TypeOK
    <3>4. gc' = [gc EXCEPT !.attempted = gc.attempted \cup {p},
                           !.records = [gc.records EXCEPT ![p] = found],
                           !.projected = gc.projected + size]
      BY <1>5 DEF TypeOK
    <3> QED
      BY <3>1, <3>2, <3>3, <3>4 DEF TypeOK
  <2> QED
    BY <2>1 DEF Scan, TypeOK
<1>7. gc'.at = "scanning" /\ gc'.now = gc.now /\ gc'.records = [gc.records EXCEPT ![p] = found]
  BY <1>5 DEF TypeOK, Scan
<1>8. Judged' /\ Deleting'
  BY <1>7, Elsewhere
<1>9. Told'
  <2>1. r.last = LastAccess(r.files)
    OBVIOUS
  <2>2. found # None => found.last = LastAccess(found.files)
    BY <2>1 DEF found
  <2>3. gc.records \in [Projects -> Records \cup {None}]
    BY DEF TypeOK
  <2> SUFFICES ASSUME NEW q \in Projects, gc'.records[q] # None
               PROVE  gc'.records[q].last = LastAccess(gc'.records[q].files)
    BY <1>7 DEF Told, Recorded, Scan
  <2>4. CASE q = p
    BY <1>7, <2>2, <2>3, <2>4
  <2>5. CASE q # p
    BY <1>7, <2>3, <2>5 DEF Told, Recorded
  <2> QED
    BY <2>4, <2>5
<1> QED
  BY <1>6, <1>8, <1>9, UsersStill DEF Scan

LEMMA PlanInv ==
  ASSUME Inv, Plan
  PROVE  Inv'
<1> USE DEF userVars, Inv
<1>1. TypeOK'
  BY DEF Plan, TypeOK, Places, Recorded
<1>2. gc'.at = "passing" /\ gc'.now = clock /\ gc'.records = gc.records /\ UNCHANGED clock
  BY DEF Plan, TypeOK
<1>3. Judged' /\ Deleting'
  BY <1>2, Elsewhere
<1>4. Told'
  BY <1>2 DEF Told, TypeOK, Recorded, LastAccess
<1> QED
  BY <1>1, <1>3, <1>4, UsersStill DEF Plan

LEMMA TakeInv ==
  ASSUME Inv, NEW p \in Projects, Take(p)
  PROVE  Inv'
<1> USE DEF userVars, Inv
<1>1. TypeOK'
  <2>1. \/ gc' = [gc EXCEPT !.attempted = @ \cup {p}, !.at = "checking", !.project = p]
        \/ gc' = [gc EXCEPT !.attempted = @ \cup {p}]
    BY DEF Take
  <2>2. exclusive' \subseteq exclusive \cup {p}
    BY DEF Take
  <2>3. gc' \in [at : Places, pass : {"none", "missing", "idle", "quota", "forget"},
                 records : [Projects -> Records \cup {None}],
                 exclude : SUBSET Projects, attempted : SUBSET Projects,
                 projected : Int, now : Nat, project : Projects \cup {None}, dry : BOOLEAN]
    <3>1. gc.attempted \cup {p} \in SUBSET Projects
      BY DEF TypeOK
    <3>2. CASE gc' = [gc EXCEPT !.attempted = gc.attempted \cup {p}, !.at = "checking",
                                !.project = p]
      BY <3>1, <3>2 DEF TypeOK, Places
    <3>3. CASE gc' = [gc EXCEPT !.attempted = gc.attempted \cup {p}]
      BY <3>1, <3>3 DEF TypeOK
    <3> QED
      BY <2>1, <3>2, <3>3
  <2> QED
    BY <2>2, <2>3 DEF Take, TypeOK
<1>2. gc'.now = gc.now /\ gc'.records = gc.records /\ gc'.pass = gc.pass
      /\ gc'.exclude = gc.exclude /\ gc'.attempted = gc.attempted \cup {p}
  BY DEF Take, TypeOK
<1>3. Told'
  BY <1>2 DEF Take, Told, Recorded, LastAccess
<1>4. CASE holders[p] = {} /\ p \notin exclusive
  <2>1. /\ gc'.at = "checking" /\ gc'.project = p /\ exclusive' = exclusive \cup {p}
        /\ UNCHANGED <<clock, files, userVars, touches>>
    BY <1>4 DEF Take, TypeOK
  <2>2. Locked' /\ LeftoversFound' /\ Marked'
    BY <1>4, <2>1 DEF Locked, LeftoversFound, Marked, Exists, Present
  <2>3. Deleting'
    BY <2>1 DEF Deleting
  <2>4. p \in NextCandidate
    BY DEF Take
  <2>5. Judged'
    BY <1>2, <2>1, <2>4, NextCandidateJudged DEF Judged, Recorded, Record
  <2> QED
    BY <1>1, <1>3, <2>2, <2>3, <2>5
<1>5. CASE ~(holders[p] = {} /\ p \notin exclusive)
  <2>1. gc'.at = "passing" /\ UNCHANGED <<clock, files, userVars, exclusive, touches>>
    BY <1>5 DEF Take, TypeOK
  <2>2. Judged' /\ Deleting'
    BY <2>1, Elsewhere
  <2> QED
    BY <1>1, <1>3, <2>1, <2>2, UsersStill
<1> QED
  BY <1>4, <1>5

LEMMA CheckInv ==
  ASSUME Inv, Check
  PROVE  Inv'
<1> USE DEF userVars, Inv
<1>1. gc.project \in exclusive /\ gc.project \in Recorded /\ gc.project \in Projects
      /\ Record \in Records
  BY RecordedType DEF Check, Judged, Judging, Record
<1>2. Cardinality(Present(Record.files)) \in Nat
  BY <1>1, PresentFinite DEF Records
<1>3. TypeOK'
  <2> DEFINE at == IF files[gc.project] = Record.files /\ ~gc.dry THEN "deleting" ELSE "ending"
             projected == IF files[gc.project] = Record.files /\ gc.dry
                            THEN gc.projected - Cardinality(Present(Record.files))
                            ELSE gc.projected
  <2>1. at \in Places /\ projected \in Int
    BY <1>2 DEF TypeOK, Places
  <2>2. gc' = [gc EXCEPT !.at = at, !.projected = projected]
    BY DEF Check, TypeOK
  <2> HIDE DEF at, projected
  <2> QED
    BY <2>1, <2>2 DEF Check, TypeOK
<1>4. /\ gc'.now = gc.now /\ gc'.records = gc.records /\ gc'.pass = gc.pass
      /\ gc'.exclude = gc.exclude /\ gc'.attempted = gc.attempted
      /\ gc'.project = gc.project /\ gc'.at \in {"deleting", "ending"}
      /\ gc'.at = "deleting" => files[gc.project] = Record.files
  BY DEF Check, TypeOK
<1>5. UNCHANGED <<clock, files, userVars, exclusive, touches>>
  BY DEF Check
<1>6. Judged'
  BY <1>4, <1>5 DEF Check, Judged, Judging, Recorded, Record
<1>7. Deleting'
  <2> SUFFICES ASSUME gc'.at = "deleting"
               PROVE  /\ \A k \in Present(files[gc.project]) :
                           files[gc.project][k] = Record.files[k]
                      /\ Record.files["access"] # 0 =>
                           touches[gc.project] <= Record.files["access"]
    BY <1>4, <1>5 DEF Deleting, Record, Present
  <2> QED
    BY <1>1, <1>4 DEF Marked
<1>8. Told'
  BY <1>4, <1>5 DEF Told, Recorded, LastAccess
<1> QED
  BY <1>3, <1>5, <1>6, <1>7, <1>8, UsersStill

\* The database is the last file that goes.
LEMMA UnlinkInv ==
  ASSUME Inv, NEW k \in Kinds, Unlink(k)
  PROVE  Inv'
<1> USE DEF userVars, Inv
<1> DEFINE p == gc.project
<1>1. /\ p \in exclusive /\ p \in Recorded /\ p \in Projects /\ holders[p] = {}
      /\ gc.at = "deleting"
  BY RecordedType DEF Unlink, Judged, Judging, Locked
<1>2. /\ files' = [files EXCEPT ![p][k] = 0]
      /\ UNCHANGED <<clock, userVars, exclusive, touches>>
  BY DEF Unlink
<1>3. /\ gc'.at = "deleting" /\ gc'.now = gc.now /\ gc'.records = gc.records
      /\ gc'.pass = gc.pass /\ gc'.exclude = gc.exclude /\ gc'.attempted = gc.attempted
      /\ gc'.project = p
  BY DEF Unlink, TypeOK
<1>4. TypeOK'
  <2>1. files' \in [Projects -> [Kinds -> Nat]]
    BY <1>1, <1>2 DEF TypeOK
  <2>2. gc' = [gc EXCEPT !.projected = gc.projected - 1]
    BY DEF Unlink
  <2>3. gc.projected - 1 \in Int
    BY DEF TypeOK
  <2> QED
    BY <1>2, <2>1, <2>2, <2>3 DEF TypeOK
<1>5. /\ \A q \in Projects : q # p => files'[q] = files[q]
      /\ \A m \in Kinds : files'[p][m] = IF m = k THEN 0 ELSE files[p][m]
  BY <1>1, <1>2 DEF TypeOK
<1>6. Locked'
  BY <1>1, <1>2, <1>5 DEF Locked, Exists
<1>7. LeftoversFound'
  <2>1. CASE k = "db"
    <3>1. \A m \in Kinds : files[p][m] # 0 => m = "db"
      BY <2>1, RankOfKinds DEF Unlink, Present, Kinds
    <3>2. \A m \in Kinds : files'[p][m] = 0
      BY <1>5, <2>1, <3>1
    <3> QED
      BY <1>2, <1>5, <3>2 DEF LeftoversFound, Present, Exists
  <2>2. CASE k # "db"
    <3>1. \A q \in Projects : files'[q]["db"] = files[q]["db"]
      BY <1>5, <2>2 DEF Kinds
    <3> QED
      BY <1>2, <1>5, <3>1 DEF LeftoversFound, Present, Exists
  <2> QED
    BY <2>1, <2>2
<1>8. Marked'
  BY <1>2, <1>5 DEF Marked, Kinds
<1>9. Judged'
  BY <1>1, <1>2, <1>3 DEF Judged, Judging, Recorded, Record
<1>10. Deleting'
  <2>1. \A m \in Kinds : files'[p][m] # 0 => files'[p][m] = gc.records[p].files[m]
    BY <1>1, <1>5 DEF Deleting, Present, Record
  <2>2. gc.records[p].files["access"] # 0 => touches[p] <= gc.records[p].files["access"]
    BY <1>1 DEF Deleting, Record
  <2> QED
    BY <1>2, <1>3, <2>1, <2>2 DEF Deleting, Present, Record
<1>11. Told'
  BY <1>2, <1>3 DEF Told, Recorded, LastAccess
<1> QED
  BY <1>4, <1>6, <1>7, <1>8, <1>9, <1>10, <1>11

LEMMA StopInv ==
  ASSUME Inv, Stop
  PROVE  Inv'
<1> USE DEF userVars, Inv
<1>1. TypeOK'
  BY DEF Stop, TypeOK, Places
<1>2. /\ gc'.at = "ending" /\ gc'.now = gc.now /\ gc'.records = gc.records
      /\ gc'.pass = gc.pass /\ gc'.exclude = gc.exclude /\ gc'.attempted = gc.attempted
      /\ gc'.project = gc.project
  BY DEF Stop, TypeOK
<1>3. Judged' /\ Deleting'
  BY <1>2 DEF Stop, Judged, Deleting, Judging, Recorded, Record
<1>4. Told'
  BY <1>2 DEF Stop, Told, Recorded, LastAccess
<1> QED
  BY <1>1, <1>3, <1>4, UsersStill DEF Stop

LEMMA ReleaseInv ==
  ASSUME Inv, Release
  PROVE  Inv'
<1> USE DEF userVars, Inv
<1>1. TypeOK'
  BY DEF Release, TypeOK, Places
<1>2. gc'.at = "passing" /\ gc'.now = gc.now /\ gc'.records = gc.records
  BY DEF Release, TypeOK
<1>3. Judged' /\ Deleting'
  BY <1>2, Elsewhere
<1>4. Told'
  BY <1>2 DEF Release, Told, Recorded, LastAccess
<1>5. exclusive' \subseteq exclusive
  BY DEF Release
<1> QED
  BY <1>1, <1>3, <1>4, <1>5, UsersStill DEF Release

LEMMA NextPassInv ==
  ASSUME Inv, NextPass
  PROVE  Inv'
<1> USE DEF userVars, Inv
<1>1. gc' \in {[gc EXCEPT !.pass = "idle", !.now = clock], [gc EXCEPT !.pass = "quota"], Idle}
  BY Zenon DEF NextPass
<1>2. TypeOK'
  BY <1>1, IdleType DEF NextPass, TypeOK
<1>3. /\ gc'.at \in {"idle", "passing"} /\ gc'.now \in {gc.now, clock, 0}
      /\ gc'.records \in {gc.records, [p \in Projects |-> None]}
  BY <1>1, IdleType DEF NextPass, TypeOK
<1>4. Judged' /\ Deleting'
  BY <1>3, Elsewhere
<1>5. Told'
  <2>1. gc'.now <= clock
    BY <1>3 DEF Told, TypeOK
  <2>2. CASE gc'.records = gc.records
    BY <2>1, <2>2 DEF NextPass, Told, Recorded, LastAccess
  <2>3. CASE gc'.records = [p \in Projects |-> None]
    BY <2>1, <2>3 DEF NextPass, Told, Recorded
  <2> QED
    BY <1>3, <2>2, <2>3
<1> QED
  BY <1>2, <1>4, <1>5, UsersStill DEF NextPass

LEMMA CrashInv ==
  ASSUME Inv, Crash
  PROVE  Inv'
<1> USE DEF userVars, Inv
<1>1. TypeOK'
  BY IdleType DEF Crash, TypeOK
<1>2. gc'.at = "idle" /\ gc'.now = 0 /\ gc'.records = [p \in Projects |-> None]
  BY IdleType DEF Crash
<1>3. Judged' /\ Deleting'
  BY <1>2, Elsewhere
<1>4. Told'
  BY <1>2 DEF Crash, Told, TypeOK, Recorded
<1>5. exclusive' \subseteq exclusive
  BY DEF Crash
<1> QED
  BY <1>1, <1>3, <1>4, <1>5, UsersStill DEF Crash

-----------------------------------------------------------------------------
(* Any step.                                                               *)

LEMMA InitInv == Init => Inv
<1> SUFFICES ASSUME Init
             PROVE  Inv
  OBVIOUS
<1>1. TypeOK
  BY IdleType DEF Init, TypeOK, Absent
<1>2. Locked /\ LeftoversFound /\ Marked
  BY DEF Init, Locked, LeftoversFound, Marked, Present, Absent, Kinds
<1>3. Judged /\ Deleting /\ Told
  BY IdleType DEF Init, Judged, Judging, Deleting, Told, Recorded
<1> QED
  BY <1>1, <1>2, <1>3 DEF Inv

LEMMA StepInv == Inv /\ [Next]_vars => Inv'
<1> SUFFICES ASSUME Inv, [Next]_vars
             PROVE  Inv'
  OBVIOUS
<1>1. ASSUME NEW u \in Users, NEW p \in Projects,
             Open(u, p) \/ Close(u, p) \/ WriteSnapshot(u, p) \/ \E k \in Kinds : Store(u, p, k)
      PROVE  Inv'
  BY <1>1, OpenInv, CloseInv, WriteSnapshotInv, StoreInv
<1>2. ASSUME NEW p \in Projects, Touch(p)
      PROVE  Inv'
  BY <1>2, TouchInv
<1>3. ASSUME NEW e \in {{}, Served}, NEW dry \in BOOLEAN, Start("missing", e, None, dry)
      PROVE  Inv'
  <2>1. e \in SUBSET Projects
    BY DEF Served
  <2> QED
    BY <1>3, <2>1, StartInv
<1>4. ASSUME NEW p \in Projects, Start("forget", {}, p, FALSE)
      PROVE  Inv'
  BY <1>4, StartInv
<1>5. ASSUME NEW p \in Projects, NEW missing \in BOOLEAN, NEW issues \in BOOLEAN,
             Scan(p, missing, issues)
      PROVE  Inv'
  BY <1>5, ScanInv
<1>6. ASSUME NEW p \in Projects, Take(p)
      PROVE  Inv'
  BY <1>6, TakeInv
<1>7. ASSUME NEW k \in Kinds, Unlink(k)
      PROVE  Inv'
  BY <1>7, UnlinkInv
<1>8. CASE Plan \/ Check \/ Stop \/ Release \/ NextPass \/ Crash
  BY <1>8, PlanInv, CheckInv, StopInv, ReleaseInv, NextPassInv, CrashInv
<1>9. CASE Wait \/ Restart \/ UNCHANGED vars
  BY <1>9, WaitInv
<1> QED
  BY <1>1, <1>2, <1>3, <1>4, <1>5, <1>6, <1>7, <1>8, <1>9 DEF Next

\* The inductive invariant holds in every behaviour of collector and users.
THEOREM CollectionInvariant == Spec => []Inv
<1>1. Init => Inv
  BY InitInv
<1>2. Inv /\ [Next]_vars => Inv'
  BY StepInv
<1> QED
  BY <1>1, <1>2, PTL DEF Spec

-----------------------------------------------------------------------------
(* What goes.                                                              *)

\* Only the deletion of a judged group takes a file away.
LEMMA OnlyUnlinkDeletes ==
  ASSUME Inv, [Next]_vars, NEW p \in Projects, NEW k \in Kinds, Deletes(p, k)
  PROVE  Unlink(k) /\ p = gc.project /\ UNCHANGED <<clock, touches, holders>>
<1> USE DEF userVars, Inv
<1>1. ~\E q \in Projects, m \in Kinds : Write(q, m)
  <2> SUFFICES ASSUME NEW q \in Projects, NEW m \in Kinds, Write(q, m)
               PROVE  FALSE
    OBVIOUS
  <2>1. clock' # 0 /\ files'[q] = [files[q] EXCEPT ![m] = clock']
        /\ (q # p => files'[p] = files[p])
    BY WriteType
  <2>2. files[q] \in [Kinds -> Nat]
    BY DEF TypeOK
  <2>3. files[p][k] # 0 /\ files'[p][k] = 0
    BY DEF Deletes
  <2> QED
    BY <2>1, <2>2, <2>3
<1>2. files' # files
  BY DEF Deletes
<1>3. PICK m \in Kinds : Unlink(m)
  BY <1>1, <1>2 DEF Next, vars, Open, Store, Close, WriteSnapshot, Touch, Wait, Start, Scan, Plan, Take,
                    Check, Stop, Release, NextPass, Crash, Restart, Kinds
<1>4. p = gc.project /\ k = m
  BY <1>3 DEF Unlink, Deletes, TypeOK
<1> QED
  BY <1>3, <1>4 DEF Unlink

\* The collector never deletes a file of a project that somebody has open.
THEOREM ActiveHoldersKept == Spec => InUseKept
<1>1. ASSUME Inv, [Next]_vars
      PROVE  [\A p \in Projects, k \in Kinds : Deletes(p, k) => holders[p] = {}]_vars
  BY <1>1, OnlyUnlinkDeletes DEF Inv, Unlink, Judged, Judging, Locked
<1> QED
  BY <1>1, CollectionInvariant, PTL DEF Spec, InUseKept

\* A deletion takes only files that are those of the inventory, and only while all
\* that is left of their group is.
THEOREM OnlyJudgedFilesGo == Spec => JudgedAsFound
<1>1. ASSUME Inv, [Next]_vars
      PROVE  [\A p \in Projects, k \in Kinds :
                Deletes(p, k) =>
                  \A m \in Present(files[p]) : files[p][m] = gc.records[p].files[m]]_vars
  BY <1>1, OnlyUnlinkDeletes DEF Inv, Unlink, Deleting, Record
<1> QED
  BY <1>1, CollectionInvariant, PTL DEF Spec, JudgedAsFound

\* An interrupted deletion leaves the database of the group to the last: what has no
\* database is a snapshot that was written after it.
THEOREM LeftoversAreFound == Spec => []LeftoversFound
<1>1. Inv => LeftoversFound
  BY DEF Inv
<1> QED
  BY <1>1, CollectionInvariant, PTL

\* A group the daemon has touched within the grace of the pass is not deleted by
\* it, and the quota takes the least recently used first.
THEOREM DeletionsAreRightful == Spec => RightfulDeletion
<1>1. ASSUME Inv, [Next]_vars, NEW p \in Projects, NEW k \in Kinds, Deletes(p, k)
      PROVE  /\ touches[p] # 0 /\ gc.records[p].files["access"] # 0 =>
                  /\ gc.pass = "missing" => touches[p] + MissingGrace <= clock
                  /\ gc.pass = "idle" => touches[p] + IdleGrace <= clock
             /\ gc.pass = "quota" =>
                  \A q \in Recorded \ (gc.exclude \cup gc.attempted) :
                    gc.records[p].last <= gc.records[q].last
  <2> USE <1>1 DEF Inv
  <2>1. gc.at = "deleting" /\ p = gc.project
    BY OnlyUnlinkDeletes DEF Unlink
  <2>2. p \in Recorded /\ gc.records[p] \in Records
    BY <2>1, RecordedType DEF Judged, Judging
  <2>3. gc.records[p].files["access"] # 0 =>
          /\ touches[p] <= gc.records[p].files["access"]
          /\ gc.records[p].last = gc.records[p].files["access"]
    BY <2>1, <2>2, LastAccessType DEF Deleting, Told, Record, Records
  <2>4. /\ gc.pass = "missing" => gc.records[p].last + MissingGrace <= gc.now
        /\ gc.pass = "idle" => gc.records[p].last + IdleGrace <= gc.now
        /\ gc.pass = "quota" =>
             \A q \in Recorded \ (gc.exclude \cup gc.attempted) :
               gc.records[p].last <= gc.records[q].last
    BY <2>1 DEF Judged, Judging, Record
  <2>5. gc.now <= clock /\ gc.now \in Nat /\ clock \in Nat /\ touches[p] \in Nat
        /\ gc.records[p].last \in Nat
    BY <2>2 DEF Told, TypeOK, Records
  <2> QED
    BY <2>3, <2>4, <2>5, CollectionAssumption
<1>2. Inv /\ [Next]_vars =>
        [\A p \in Projects, k \in Kinds :
           Deletes(p, k) =>
             /\ touches[p] # 0 /\ gc.records[p].files["access"] # 0 =>
                  /\ gc.pass = "missing" => touches[p] + MissingGrace <= clock
                  /\ gc.pass = "idle" => touches[p] + IdleGrace <= clock
             /\ gc.pass = "quota" =>
                  \A q \in Recorded \ (gc.exclude \cup gc.attempted) :
                    gc.records[p].last <= gc.records[q].last]_vars
  BY <1>1
<1> QED
  BY <1>2, CollectionInvariant, PTL DEF Spec, RightfulDeletion
=============================================================================
