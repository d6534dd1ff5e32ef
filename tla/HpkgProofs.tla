----------------------------- MODULE HpkgProofs -----------------------------
(***************************************************************************)
(* Proofs about the package manager of Hpkg.tla, for every set of packages, *)
(* paths and directories, every collection of archives and every number of  *)
(* failing system calls and kills.                                         *)
(***************************************************************************)
EXTENDS Hpkg, TLAPS

-----------------------------------------------------------------------------
(* The inductive invariant                                                 *)

Tx ==
  [do : Doing, name : Pkg \cup {"none"}, version : Nat, files : SUBSET Path,
   depends : SUBSET Pkg, prev : Record, toStage : SUBSET Path,
   staged : SUBSET Path, committed : SUBSET Path, aside : SUBSET Path,
   toStale : SUBSET Path, created : SUBSET Dir, unlisted : SUBSET Dir,
   dirty : BOOLEAN, file0 : [Path -> Datum], dirs0 : SUBSET Dir]

\* The fields of a transaction, one by one.
TxTypes(t) ==
  /\ t.do \in Doing /\ t.name \in Pkg \cup {"none"} /\ t.version \in Nat
  /\ t.files \in SUBSET Path /\ t.depends \in SUBSET Pkg /\ t.prev \in Record
  /\ t.toStage \in SUBSET Path /\ t.staged \in SUBSET Path
  /\ t.committed \in SUBSET Path /\ t.aside \in SUBSET Path
  /\ t.toStale \in SUBSET Path /\ t.created \in SUBSET Dir /\ t.unlisted \in SUBSET Dir
  /\ t.dirty \in BOOLEAN /\ t.file0 \in [Path -> Datum] /\ t.dirs0 \in SUBSET Dir

Plan == [do : {"none", "run", "undo"}, todo : Seq(Index), done : Seq(Pkg),
         dirty : BOOLEAN, db0 : [Pkg -> Record]]

Types ==
  /\ file \in [Path -> Datum] /\ staging \in [Path -> Datum]
  /\ backup \in [Path -> Datum]
  /\ dirs \in SUBSET Dir
  /\ db \in [Pkg -> Record]
  /\ tx \in Tx
  /\ repo \in Plan
  /\ suspect \in SUBSET Pkg /\ torn \in SUBSET Pkg
  /\ faults \in 0 .. MaxFaults /\ kills \in 0 .. MaxKills

\* Nothing is in place without the directories above it.
Tree(f, D) ==
  /\ \A d \in D : Above[d] \subseteq D
  /\ \A p \in Path : f[p] # Gone => Above[p] \subseteq D

Owners(r) == \A m, n \in Pkg : m # n => r[m].files \cap r[n].files = {}
Needs(r) == \A n \in Pkg : \A m \in r[n].depends : r[m] # NoRecord

\* The records of all packages but x tell what is on disk: S are the packages
\* that need not have their files, T the ones that may have more.
Rest(f, r, S, T, x) ==
  \A n \in Pkg \ {x} :
    /\ n \notin S => \A p \in r[n].files : f[p] = <<n, r[n].version>>
    /\ n \notin T => \A p \in Path : f[p][1] = n => p \in r[n].files

\* What hpkg_store_install checked when it began still holds.
Accepted(r, t) ==
  /\ t.name \in Pkg
  /\ t.prev = r[t.name]
  /\ t.version > t.prev.version
  /\ \A m \in t.depends : r[m] # NoRecord
  /\ \A n \in Pkg \ {t.name} : t.files \cap r[n].files = {}

\* The paths a transaction has dealt with.
Sets(t) ==
  /\ t.toStage \cup t.staged \cup t.committed \subseteq t.files
  /\ t.toStage \cap (t.staged \cup t.committed) = {}
  /\ t.staged \cap t.committed = {}
  /\ t.aside \subseteq t.prev.files
  /\ t.toStale \subseteq t.prev.files \ t.files

\* Where the data is: the new in staging or in place, the old in place or kept.
Copies(f, g, b, D, t) ==
  /\ \A p \in t.staged \cup t.aside : Above[p] \subseteq D
  /\ \A p \in t.staged : g[p] = Data(t)
  /\ \A p \in t.committed : f[p] = Data(t)
  /\ \A p \in t.aside : b[p] = t.file0[p]
  /\ \A p \in t.committed \ t.aside : t.file0[p] = Gone
  /\ \A p \in t.prev.files \ t.aside : t.file0[p] \in {Gone, f[p], b[p]}

\* The files a transaction began with agreed with the records.
Began(r, t, S, T) ==
  /\ \A p \in t.files \ t.prev.files : t.file0[p] = Gone
  /\ t.name \notin S => \A p \in t.prev.files : t.file0[p] = <<t.name, t.prev.version>>
  /\ \A n \in Pkg \ T : \A p \in Path : t.file0[p][1] = n => p \in r[n].files

\* What is not on the lists of a transaction is as it was.
Undoable(f, D, t, S, T) ==
  /\ ~t.dirty => /\ D = t.dirs0 \cup t.unlisted \cup t.created
                 /\ (t.dirs0 \cup t.unlisted) \cap t.created = {}
                 /\ \A d, e \in t.unlisted : d = e
  /\ ~(t.dirty /\ t.name \in S /\ t.name \in T) =>
       /\ \A p \in t.aside \ t.committed : f[p] = Gone
       /\ \A p \in Path \ (t.aside \cup t.committed) : f[p] = t.file0[p]

Open(f, g, b, D, r, t, S, T) ==
  /\ Accepted(r, t) /\ Sets(t) /\ Copies(f, g, b, D, t)
  /\ Began(r, t, S, T) /\ Undoable(f, D, t, S, T)

\* Until it fails a transaction is on its way to the new version.
Onward(f, t) ==
  /\ ~t.dirty /\ t.unlisted = {}
  /\ t.files = t.toStage \cup t.staged \cup t.committed
  /\ \A p \in t.prev.files \ t.files : p \in t.toStale \/ f[p] = Gone

Removing(f, r, t) ==
  /\ t.name \in Pkg /\ r[t.name] # NoRecord
  /\ \A m \in Pkg \ {t.name} : t.name \notin r[m].depends
  /\ t.toStage \subseteq r[t.name].files
  /\ \A p \in r[t.name].files \ t.toStage : f[p] = Gone

Underway(t) == t.do \in {"install", "undo"}
Busy(t) == IF Underway(t) THEN t.name ELSE "none"

TxInv ==
  /\ Underway(tx) => Open(file, staging, backup, dirs, db, tx, suspect, torn)
  /\ tx.do = "install" => Onward(file, tx)
  /\ tx.do = "remove" => Removing(file, db, tx)
  /\ AllOrNothing

\* A plan under way: what is left of it, what it has installed and the records
\* it began with.
RunInv(r, t, q) ==
  /\ \A i \in 1 .. Len(q.todo) - 1 : q.db0[q.todo[i].name] = NoRecord
  /\ q.todo # <<>> => \A i \in 1 .. Len(q.done) : q.db0[q.done[i]] = NoRecord
  /\ t.do # "idle" => q.todo # <<>> /\ t.name = q.todo[1].name /\ t.do # "remove"
  /\ \A n \in Pkg : \/ \E i \in 1 .. Len(q.done) : q.done[i] = n
                    \/ r[n] = q.db0[n]
                    \/ t.do \in {"discard", "ok"} /\ n = t.name

UndoInv(r, t, q) ==
  /\ \A i \in 1 .. Len(q.done) : q.db0[q.done[i]] = NoRecord
  /\ t.do \in {"idle", "remove", "ok", "failed"}
  /\ t.do # "idle" => q.done # <<>> /\ t.name = q.done[Len(q.done)]
  /\ t.do = "ok" => r[t.name] = NoRecord
  /\ ~q.dirty => \A n \in Pkg : \/ \E i \in 1 .. Len(q.done) : q.done[i] = n
                                \/ r[n] = q.db0[n]

RepoInv ==
  /\ repo.do = "run" => RunInv(db, tx, repo)
  /\ repo.do = "undo" => UndoInv(db, tx, repo)

\* What hpkg keeps between any two system calls.
IInv ==
  /\ Types
  /\ Tree(file, dirs)
  /\ Owners(db) /\ Needs(db)
  /\ Rest(file, db, suspect, torn, Busy(tx))
  /\ TxInv
  /\ RepoInv

-----------------------------------------------------------------------------
(* The end of a step of hpkg_store_install                                 *)

\* A transaction and the rest of the packages, t being the transaction.
Mid(f, g, b, D, r, t, S, T) ==
  Open(f, g, b, D, r, t, S, T) /\ Rest(f, r, S, T, t.name)

\* The transaction that no command has started has the type of one.
LEMMA NoTxType == NoTx \in Tx /\ NoTx.do = "idle"
BY ZenonT(20) DEF NoTx, Tx, Doing, NoRecord, Record, Datum

\* A transaction's fields have their types.
LEMMA TxFields == \A t \in Tx : TxTypes(t)
BY ZenonT(20) DEF Tx, TxTypes

\* roll_back, or its end: whatever it still has to undo, and when it has
\* nothing to undo and could undo all the rest, the files and the directories
\* are what they were and agree with the records.
LEMMA RolledBack ==
  ASSUME NEW t \in Tx, NEW f \in [Path -> Datum], NEW g, NEW b,
         NEW D \in SUBSET Dir, NEW r \in [Pkg -> Record],
         NEW S \in SUBSET Pkg, NEW T \in SUBSET Pkg,
         Mid(f, g, b, D, r, t, S, T)
  PROVE  LET u == RollBack(t) IN
         /\ u \in Tx /\ u.name = t.name
         /\ u.do \in {"undo", "failed"}
         /\ Underway(u) => Open(f, g, b, D, r, u, S, T)
         /\ u.do = "failed" /\ ~u.dirty =>
              f = u.file0 /\ D = u.dirs0 \cup u.unlisted /\ \A d, e \in u.unlisted : d = e
         /\ Rest(f, r, S, T, Busy(u))
<1> DEFINE u == RollBack(t)
<1>1. /\ u.do = IF NothingToUndo(t) THEN "failed" ELSE "undo"
      /\ u.name = t.name /\ u.version = t.version /\ u.files = t.files
      /\ u.depends = t.depends /\ u.prev = t.prev /\ u.toStage = t.toStage
      /\ u.staged = t.staged /\ u.committed = t.committed /\ u.aside = t.aside
      /\ u.toStale = t.toStale /\ u.created = t.created /\ u.dirty = t.dirty
      /\ u.file0 = t.file0 /\ u.dirs0 = t.dirs0 /\ u.unlisted = t.unlisted
  BY TxFields DEF RollBack, TxTypes
<1>2. u \in Tx
  BY ZenonT(20) DEF RollBack, Tx, Doing
<1> HIDE DEF u
<1>3. Open(f, g, b, D, r, u, S, T)
  <2>1. Accepted(r, u)
    BY <1>1, Zenon DEF Mid, Open, Accepted
  <2>2. Sets(u)
    BY <1>1, Zenon DEF Mid, Open, Sets
  <2>3. Copies(f, g, b, D, u)
    BY <1>1 DEF Mid, Open, Copies, Data
  <2>4. Began(r, u, S, T)
    BY <1>1, Zenon DEF Mid, Open, Began
  <2>5. Undoable(f, D, u, S, T)
    BY <1>1, Zenon DEF Mid, Open, Undoable
  <2> QED BY <2>1, <2>2, <2>3, <2>4, <2>5, Zenon DEF Open
<1>4. ASSUME u.do = "failed", ~(t.dirty /\ t.name \in S /\ t.name \in T)
      PROVE  f = t.file0
  <2>1. t.aside = {} /\ t.committed = {}
    BY <1>1, <1>4, Zenon DEF NothingToUndo
  <2>2. \A p \in Path : f[p] = t.file0[p]
    BY <2>1, <1>4, Zenon DEF Mid, Open, Undoable
  <2>3. t.file0 \in [Path -> Datum]
    BY TxFields, Zenon DEF TxTypes
  <2> QED BY <2>2, <2>3
<1>5. ASSUME u.do = "failed", ~t.dirty
      PROVE  D = t.dirs0 \cup t.unlisted /\ \A d, e \in t.unlisted : d = e
  BY <1>1, <1>5, Zenon DEF Mid, Open, Undoable, NothingToUndo
<1>6. Rest(f, r, S, T, Busy(u))
  <2>1. CASE u.do = "undo"
    BY <2>1, <1>1, Zenon DEF Mid, Busy, Underway
  <2>2. CASE u.do = "failed"
    <3>1. Busy(u) = "none"
      BY <2>2, Zenon DEF Busy, Underway
    <3>2. Rest(f, r, S, T, t.name) /\ Accepted(r, t) /\ Began(r, t, S, T)
      BY Zenon DEF Mid, Open
    <3>3. t.name \notin S => \A p \in r[t.name].files : f[p] = <<t.name, r[t.name].version>>
      BY <2>2, <1>4, <3>2, Zenon DEF Accepted, Began
    <3>4. t.name \notin T => \A p \in Path : f[p][1] = t.name => p \in r[t.name].files
      BY <2>2, <1>4, <3>2, Zenon DEF Accepted, Began
    <3> QED BY <3>1, <3>2, <3>3, <3>4, Zenon DEF Rest
  <2> QED BY <2>1, <2>2, <1>1, Zenon
<1> QED BY <1>1, <1>2, <1>3, <1>4, <1>5, <1>6, Zenon DEF u

\* Nothing of the plan changes while a transaction is under way and when it
\* fails.
LEMMA PlanWaits ==
  ASSUME RepoInv, Underway(tx), UNCHANGED <<db, repo>>, tx'.name = tx.name,
         tx'.do \in {"install", "undo", "failed"}
  PROVE  RepoInv'
<1>1. CASE repo.do = "run"
  BY <1>1, Zenon DEF RepoInv, RunInv, Underway
<1>2. CASE repo.do = "undo"
  BY <1>2, Zenon DEF RepoInv, UndoInv, Underway
<1> QED BY <1>1, <1>2, Zenon DEF RepoInv

\* A step after which hpkg_store_install rolls back, or goes on doing so.
LEMMA Backwards ==
  ASSUME IInv, Underway(tx), UNCHANGED <<db, repo>>,
         Types', Tree(file, dirs)',
         NEW t \in Tx, t.name = tx.name, tx' = RollBack(t),
         Mid(file', staging', backup', dirs', db, t, suspect', torn')
  PROVE  IInv'
<1>1. /\ file' \in [Path -> Datum] /\ dirs' \in SUBSET Dir /\ db \in [Pkg -> Record]
      /\ suspect' \in SUBSET Pkg /\ torn' \in SUBSET Pkg
  BY Zenon DEF IInv, Types
<1>2. /\ tx'.name = t.name /\ tx'.do \in {"undo", "failed"}
      /\ Underway(tx') => Open(file', staging', backup', dirs', db, tx', suspect', torn')
      /\ tx'.do = "failed" /\ ~tx'.dirty =>
           /\ file' = tx'.file0 /\ dirs' = tx'.dirs0 \cup tx'.unlisted
           /\ \A d, e \in tx'.unlisted : d = e
      /\ Rest(file', db, suspect', torn', Busy(tx'))
  BY <1>1, RolledBack, Zenon
<1>3. TxInv'
  BY <1>2, Zenon DEF TxInv, AllOrNothing
<1>4. RepoInv'
  BY <1>2, PlanWaits, Zenon DEF IInv
<1> QED BY <1>2, <1>3, <1>4, Zenon DEF IInv

\* A step after which hpkg_store_install goes on.
LEMMA Forwards ==
  ASSUME IInv, Underway(tx), UNCHANGED <<db, repo>>,
         Types', Tree(file, dirs)', tx'.name = tx.name, tx'.do = "install",
         Mid(file', staging', backup', dirs', db, tx', suspect', torn'),
         Onward(file', tx')
  PROVE  IInv'
<1>1. TxInv'
  BY Zenon DEF TxInv, AllOrNothing, Mid
<1>2. RepoInv'
  BY PlanWaits, Zenon DEF IInv
<1>3. Rest(file', db', suspect', torn', Busy(tx'))
  BY Zenon DEF Mid, Busy, Underway
<1> QED BY <1>1, <1>2, <1>3, Zenon DEF IInv

-----------------------------------------------------------------------------
(* The steps of hpkg_store_install                                         *)

\* What a step may use of the invariant.
LEMMA UnderwayFacts ==
  ASSUME IInv, Underway(tx)
  PROVE  /\ Types /\ Tree(file, dirs)
         /\ Mid(file, staging, backup, dirs, db, tx, suspect, torn)
         /\ tx \in Tx /\ tx.name \in Pkg
BY Zenon DEF IInv, TxInv, Mid, Open, Accepted, Busy, Types

\* u is about the same archive as t and began where t began.
Kept(u, t) ==
  /\ u.name = t.name /\ u.version = t.version /\ u.files = t.files
  /\ u.depends = t.depends /\ u.prev = t.prev
  /\ u.file0 = t.file0 /\ u.dirs0 = t.dirs0 /\ u.unlisted = t.unlisted

\* What was checked at the beginning does not depend on the progress.
LEMMA KeptFacts ==
  ASSUME NEW t, NEW u, Kept(u, t), NEW r, NEW S, NEW T, NEW S2, NEW T2,
         S \subseteq S2, T \subseteq T2, Accepted(r, t), Began(r, t, S, T)
  PROVE  Accepted(r, u) /\ Began(r, u, S2, T2)
BY Zenon DEF Kept, Accepted, Began

\* A system call of hpkg_store_install fails before the record is written and
\* leaves at most a file under the staging name of an entry not yet staged.
LEMMA GivesUp ==
  ASSUME IInv, Installing, Fault, tx' = RollBack(tx),
         UNCHANGED <<file, backup, dirs, db, repo, suspect, torn, kills>>,
         staging' \in [Path -> Datum], \A p \in tx.staged : staging'[p] = staging[p]
  PROVE  IInv'
<1>1. /\ Types /\ Tree(file, dirs) /\ tx \in Tx /\ Underway(tx)
      /\ Mid(file, staging, backup, dirs, db, tx, suspect, torn)
  BY UnderwayFacts, Zenon DEF Installing, Underway
<1>2. Mid(file', staging', backup', dirs', db, tx, suspect', torn')
  BY <1>1, Zenon DEF Mid, Open, Copies
<1>3. tx' \in Tx
  BY <1>1, <1>2, RolledBack, Zenon DEF Types
<1>4. Types' /\ Tree(file, dirs)'
  BY <1>1, <1>3, BoundAssumption DEF Types, Fault
<1> QED BY <1>1, <1>2, <1>4, Backwards, Zenon

\* make_parents notes every directory it makes in created before a file is put there.
LEMMA MakeParentStep == ASSUME IInv, MakeParent PROVE IInv'
<1>1. /\ Types /\ Tree(file, dirs) /\ tx \in Tx /\ tx.name \in Pkg
      /\ Underway(tx) /\ Onward(file, tx)
      /\ Mid(file, staging, backup, dirs, db, tx, suspect, torn)
  BY UnderwayFacts, Zenon DEF MakeParent, Staging, Installing, Underway, IInv, TxInv
<1>2. PICK p \in tx.toStage, d \in Dir :
        /\ Least(Above[p] \ dirs, d)
        /\ \/ /\ NoFault /\ dirs' = dirs \cup {d}
              /\ tx' = [tx EXCEPT !.created = tx.created \cup {d}]
           \/ Fault /\ UNCHANGED dirs /\ tx' = RollBack(tx)
           \/ /\ Fault /\ dirs' = dirs \cup {d}
              /\ tx' = RollBack([tx EXCEPT !.unlisted = tx.unlisted \cup {d}])
  BY Zenon DEF MakeParent
<1>3. UNCHANGED <<file, staging, backup, db, repo, suspect, torn, kills>>
  BY Zenon DEF MakeParent
<1>4. p \in Path /\ d \notin dirs /\ faults' \in 0 .. MaxFaults
  BY <1>1, <1>2, BoundAssumption, TxFields DEF TxTypes, Types, Least, Fault, NoFault
<1>5. Tree(file, dirs \cup {d})
  <2>1. Above[d] \subseteq Above[p] /\ \A e \in Above[d] : e \in Nat /\ d \in Nat /\ e < d
    BY <1>2, <1>4, PathAssumption, Zenon DEF Least
  <2>2. Above[d] \subseteq dirs
    BY <2>1, <1>2, <1>4 DEF Least
  <2> QED BY <2>2, <1>1, Zenon DEF Tree
<1>6. CASE Fault /\ UNCHANGED dirs /\ tx' = RollBack(tx)
  BY <1>1, <1>3, <1>6, GivesUp, Zenon DEF Types, MakeParent, Staging
<1>7. CASE /\ Fault /\ dirs' = dirs \cup {d}
           /\ tx' = RollBack([tx EXCEPT !.unlisted = tx.unlisted \cup {d}])
  <2> DEFINE t == [tx EXCEPT !.unlisted = tx.unlisted \cup {d}]
  <2>1. /\ t \in Tx /\ t.unlisted = {d}
        /\ t.name = tx.name /\ t.version = tx.version /\ t.files = tx.files
        /\ t.depends = tx.depends /\ t.prev = tx.prev
        /\ t.file0 = tx.file0 /\ t.dirs0 = tx.dirs0
        /\ t.toStage = tx.toStage /\ t.staged = tx.staged
        /\ t.committed = tx.committed /\ t.aside = tx.aside
        /\ t.toStale = tx.toStale /\ t.created = tx.created /\ t.dirty = tx.dirty
    <3>1. tx.unlisted \cup {d} = {d} /\ {d} \in SUBSET Dir
      BY <1>1, <1>2 DEF Onward
    <3> QED BY <3>1, <1>1, ZenonT(20) DEF Tx
  <2>2. tx' = RollBack(t)
    BY <1>7, Zenon
  <2> HIDE DEF t
  <2>3. Mid(file', staging', backup', dirs', db, t, suspect', torn')
    <3>1. Accepted(db, t) /\ Began(db, t, suspect, torn)
      BY <2>1, <1>1, Zenon DEF Mid, Open, Accepted, Began
    <3>2. Sets(t) /\ Rest(file, db, suspect, torn, t.name)
      BY <2>1, <1>1, Zenon DEF Mid, Open, Sets
    <3>3. Copies(file, staging, backup, dirs', t)
      BY <2>1, <1>1, <1>7 DEF Mid, Open, Copies, Data
    <3>4. Undoable(file, dirs', t, suspect, torn)
      BY <2>1, <1>1, <1>4, <1>7 DEF Mid, Open, Undoable, Onward
    <3> QED BY <3>1, <3>2, <3>3, <3>4, <1>3, Zenon DEF Mid, Open
  <2>4. tx' \in Tx
    <3>1. /\ file' \in [Path -> Datum] /\ dirs' \in SUBSET Dir /\ db \in [Pkg -> Record]
          /\ suspect' \in SUBSET Pkg /\ torn' \in SUBSET Pkg /\ t \in Tx
      BY <2>1, <1>1, <1>3, <1>7, Zenon DEF Types
    <3> QED BY <2>2, <2>3, <3>1, RolledBack, Zenon
  <2>5. Types' /\ Tree(file, dirs)'
    BY <2>4, <1>1, <1>3, <1>4, <1>5, <1>7, Zenon DEF Types
  <2> QED BY <2>1, <2>2, <2>3, <2>5, <1>1, <1>3, Backwards, Zenon
<1>8. CASE /\ NoFault /\ dirs' = dirs \cup {d}
           /\ tx' = [tx EXCEPT !.created = tx.created \cup {d}]
  <2>1. /\ tx' \in Tx /\ Kept(tx', tx) /\ tx'.do = "install"
        /\ tx'.created = tx.created \cup {d} /\ tx'.dirty = tx.dirty
        /\ tx'.toStage = tx.toStage /\ tx'.staged = tx.staged
        /\ tx'.committed = tx.committed /\ tx'.aside = tx.aside
        /\ tx'.toStale = tx.toStale
    BY <1>1, <1>8, ZenonT(20) DEF Tx, Kept, MakeParent, Staging, Installing
  <2>2. Mid(file', staging', backup', dirs', db, tx', suspect', torn')
    <3>1. Accepted(db, tx') /\ Began(db, tx', suspect, torn)
      BY <2>1, <1>1, KeptFacts, Zenon DEF Mid, Open
    <3>2. Sets(tx') /\ Rest(file, db, suspect, torn, tx'.name)
      BY <2>1, <1>1, Zenon DEF Mid, Open, Sets, Kept
    <3>3. Copies(file, staging, backup, dirs', tx')
      BY <2>1, <1>1, <1>8 DEF Mid, Open, Copies, Data, Kept
    <3>4. Undoable(file, dirs', tx', suspect, torn)
      BY <2>1, <1>1, <1>4, <1>8 DEF Mid, Open, Undoable, Onward, Kept
    <3> QED BY <3>1, <3>2, <3>3, <3>4, <1>3, Zenon DEF Mid, Open
  <2>3. Onward(file', tx')
    BY <2>1, <1>1, <1>3, Zenon DEF Onward, Kept
  <2>4. Types' /\ Tree(file, dirs)'
    BY <2>1, <1>1, <1>3, <1>4, <1>5, <1>8, Zenon DEF Types
  <2> QED BY <2>1, <2>2, <2>3, <2>4, <1>1, <1>3, Forwards, Zenon DEF Kept
<1> QED BY <1>2, <1>6, <1>7, <1>8, Zenon

\* stage_files notes a staged file with its entry; a failure leaves the rest to roll_back.
LEMMA StageFileStep == ASSUME IInv, StageFile PROVE IInv'
<1>1. /\ Types /\ Tree(file, dirs) /\ tx \in Tx /\ tx.name \in Pkg
      /\ Underway(tx) /\ Onward(file, tx)
      /\ Mid(file, staging, backup, dirs, db, tx, suspect, torn)
  BY UnderwayFacts, Zenon DEF StageFile, Staging, Installing, Underway, IInv, TxInv
<1>2. PICK p \in tx.toStage :
        /\ Above[p] \subseteq dirs
        /\ \/ /\ NoFault
              /\ staging' = [staging EXCEPT ![p] = Data(tx)]
              /\ tx' = [tx EXCEPT !.toStage = tx.toStage \ {p},
                                  !.staged = tx.staged \cup {p}]
           \/ /\ Fault
              /\ \E c \in {staging[p], Gone, Partial} :
                   staging' = [staging EXCEPT ![p] = c]
              /\ tx' = RollBack(tx)
  BY Zenon DEF StageFile
<1>3. UNCHANGED <<file, backup, dirs, db, repo, suspect, torn, kills>>
  BY Zenon DEF StageFile
<1>4. p \in Path /\ p \in tx.files /\ p \notin tx.staged
  BY <1>1, TxFields, Zenon DEF Mid, Open, Sets, TxTypes
<1>5. ASSUME Fault, tx' = RollBack(tx), NEW c \in {staging[p], Gone, Partial},
             staging' = [staging EXCEPT ![p] = c]
      PROVE  IInv'
  <2>1. c \in Datum
    BY <1>1, <1>4 DEF Types, Datum
  <2>2. staging' \in [Path -> Datum] /\ \A q \in tx.staged : staging'[q] = staging[q]
    BY <2>1, <1>1, <1>4, <1>5, TxFields, Zenon DEF Types, TxTypes
  <2> QED BY <2>2, <1>3, <1>5, GivesUp, Zenon DEF StageFile, Staging
<1>6. CASE /\ NoFault
           /\ staging' = [staging EXCEPT ![p] = Data(tx)]
           /\ tx' = [tx EXCEPT !.toStage = tx.toStage \ {p},
                               !.staged = tx.staged \cup {p}]
  <2>1. /\ tx' \in Tx /\ Kept(tx', tx) /\ tx'.do = "install"
        /\ tx'.toStage = tx.toStage \ {p} /\ tx'.staged = tx.staged \cup {p}
        /\ tx'.committed = tx.committed /\ tx'.aside = tx.aside
        /\ tx'.toStale = tx.toStale
        /\ tx'.created = tx.created /\ tx'.dirty = tx.dirty
    BY <1>1, <1>4, <1>6, ZenonT(20) DEF Tx, Kept, StageFile, Staging, Installing
  <2>3. Mid(file', staging', backup', dirs', db, tx', suspect', torn')
    <3>1. Accepted(db, tx') /\ Began(db, tx', suspect, torn)
      BY <2>1, <1>1, KeptFacts, Zenon DEF Mid, Open
    <3>2. Sets(tx') /\ Rest(file, db, suspect, torn, tx'.name)
      BY <2>1, <1>1, <1>4, Zenon DEF Mid, Open, Sets, Kept
    <3>3. Copies(file, staging', backup, dirs, tx')
      <4>1. \A q \in tx'.staged : staging'[q] = Data(tx')
        BY <2>1, <1>1, <1>4, <1>6, TxFields DEF Mid, Open, Copies, Data, Kept, Types, TxTypes
      <4> QED BY <4>1, <2>1, <1>1, <1>2 DEF Mid, Open, Copies, Data, Kept
    <3>4. Undoable(file, dirs, tx', suspect, torn)
      BY <2>1, <1>1, Zenon DEF Mid, Open, Undoable, Kept
    <3> QED BY <3>1, <3>2, <3>3, <3>4, <1>3, Zenon DEF Mid, Open
  <2>4. Onward(file', tx')
    BY <2>1, <1>1, <1>3, <1>4, Zenon DEF Onward, Kept
  <2>5. Data(tx) \in Datum
    BY <1>1, TxFields, Zenon DEF Data, Datum, TxTypes
  <2>6. Types' /\ Tree(file, dirs)'
    BY <2>1, <2>5, <1>1, <1>3, <1>6, Zenon DEF Types, NoFault
  <2> QED BY <2>1, <2>3, <2>4, <2>6, <1>1, <1>3, Forwards, Zenon DEF Kept
<1> QED BY <1>2, <1>5, <1>6, Zenon

\* move_aside: the old file is where it was until it is under the backup name.
LEMMA MovedAside ==
  ASSUME IInv, Installing, NEW p \in tx.prev.files, file[p] # Gone,
         p \notin tx.committed,
         NEW t \in Tx, Kept(t, tx), t.do = "install", t.toStage = tx.toStage,
         t.staged = tx.staged, t.committed = tx.committed, t.aside = tx.aside,
         t.created = tx.created, t.dirty = tx.dirty,
         t.toStale \in {tx.toStale, tx.toStale \ {p}},
         MoveAside(p, t),
         UNCHANGED <<staging, dirs, db, repo, suspect, torn, kills>>
  PROVE  IInv'
<1>1. /\ Types /\ Tree(file, dirs) /\ tx \in Tx /\ tx.name \in Pkg
      /\ Underway(tx) /\ Onward(file, tx) /\ Owners(db)
      /\ Mid(file, staging, backup, dirs, db, tx, suspect, torn)
  BY UnderwayFacts, Zenon DEF Installing, Underway, IInv, TxInv
<1>2. CASE Fault /\ UNCHANGED <<file, backup>> /\ tx' = RollBack(tx)
  BY <1>1, <1>2, GivesUp, Zenon DEF Types
<1>3. CASE /\ NoFault
           /\ backup' = [backup EXCEPT ![p] = file[p]]
           /\ file' = [file EXCEPT ![p] = Gone]
           /\ tx' = [t EXCEPT !.aside = t.aside \cup {p}]
  <2>1. p \in Path
    BY <1>1, TxFields, Zenon DEF TxTypes, Record
  <2>2. /\ tx' \in Tx /\ Kept(tx', tx) /\ tx'.do = "install"
        /\ tx'.toStage = tx.toStage /\ tx'.staged = tx.staged
        /\ tx'.committed = tx.committed /\ tx'.aside = tx.aside \cup {p}
        /\ tx'.toStale = t.toStale
        /\ tx'.created = tx.created /\ tx'.dirty = tx.dirty
    BY <1>1, <1>3, <2>1, ZenonT(20) DEF Tx, Kept
  <2>3. p \notin tx.aside /\ file[p] = tx.file0[p]
    BY <2>1, <1>1, Zenon DEF Mid, Open, Undoable, Onward
  <2>4. /\ file' \in [Path -> Datum] /\ file'[p] = Gone
        /\ \A q \in Path \ {p} : file'[q] = file[q]
    BY <2>1, <1>1, <1>3, Zenon DEF Types, Datum
  <2>5. /\ backup' \in [Path -> Datum] /\ backup'[p] = file[p]
        /\ \A q \in Path \ {p} : backup'[q] = backup[q]
    BY <2>1, <1>1, <1>3, Zenon DEF Types
  <2>6. Mid(file', staging', backup', dirs', db, tx', suspect', torn')
    <3>1. Accepted(db, tx') /\ Began(db, tx', suspect, torn)
      BY <2>2, <1>1, KeptFacts, Zenon DEF Mid, Open
    <3>2. Sets(tx')
      BY <2>2, <1>1, Zenon DEF Mid, Open, Sets, Kept
    <3>3. Copies(file', staging, backup', dirs, tx')
      <4>1. \A q \in tx'.staged \cup tx'.aside : Above[q] \subseteq dirs
        BY <2>1, <2>2, <1>1, Zenon DEF Mid, Open, Copies, Tree
      <4>2. \A q \in tx'.committed : file'[q] = Data(tx')
        BY <2>2, <2>4, <1>1, TxFields DEF Mid, Open, Copies, Data, Kept, TxTypes
      <4>3. \A q \in tx'.aside : backup'[q] = tx'.file0[q]
        BY <2>2, <2>3, <2>5, <1>1, TxFields DEF Mid, Open, Copies, Kept, TxTypes
      <4>4. \A q \in tx'.prev.files \ tx'.aside : tx'.file0[q] \in {Gone, file'[q], backup'[q]}
        BY <2>2, <2>4, <2>5, <1>1, TxFields, Zenon DEF Mid, Open, Copies, Kept, TxTypes, Record
      <4> QED BY <4>1, <4>2, <4>3, <4>4, <2>2, <1>1 DEF Mid, Open, Copies, Data, Kept
    <3>4. Undoable(file', dirs, tx', suspect, torn)
      BY <2>2, <2>4, <1>1, TxFields DEF Mid, Open, Undoable, Kept, TxTypes
    <3>5. Rest(file', db, suspect, torn, tx'.name)
      <4>1. \A n \in Pkg \ {tx.name} : p \notin db[n].files
        BY <1>1, Zenon DEF Mid, Open, Accepted, Owners
      <4>2. file'[p][1] \notin Pkg
        BY <2>4, ArchiveAssumption DEF Gone
      <4>3. \A n \in Pkg : db[n].files \subseteq Path
        BY <1>1, Zenon DEF Types, Record
      <4> QED BY <4>1, <4>2, <4>3, <2>2, <2>4, <1>1 DEF Mid, Rest, Kept
    <3> QED BY <3>1, <3>2, <3>3, <3>4, <3>5, Zenon DEF Mid, Open
  <2>7. Onward(file', tx')
    BY <2>2, <2>4, <1>1, TxFields DEF Onward, Kept, TxTypes, Record
  <2>8. Types' /\ Tree(file, dirs)'
    BY <2>2, <2>4, <2>5, <1>1, <1>3 DEF Types, Tree, NoFault
  <2> QED BY <2>2, <2>6, <2>7, <2>8, <1>1, Forwards, Zenon DEF Kept
<1> QED BY <1>2, <1>3, Zenon DEF MoveAside

\* commit_files moves an old file aside and notes that it did.
LEMMA CommitAsideStep == ASSUME IInv, CommitAside PROVE IInv'
<1>1. /\ tx \in Tx /\ Installing /\ Underway(tx) /\ Sets(tx)
  BY UnderwayFacts, Zenon DEF CommitAside, Committing, Installing, Underway, Mid, Open
<1>2. PICK p \in tx.staged : p \in tx.prev.files /\ file[p] # Gone /\ MoveAside(p, tx)
  BY Zenon DEF CommitAside
<1>3. p \notin tx.committed
  BY <1>1, Zenon DEF Sets
<1> QED BY <1>1, <1>2, <1>3, MovedAside, Zenon DEF CommitAside, Kept, Installing

\* The file an upgrade drops is moved aside as commit_files goes on.
LEMMA StaleAsideStep == ASSUME IInv, StaleAside PROVE IInv'
<1>1. /\ Types /\ Tree(file, dirs) /\ tx \in Tx /\ tx.name \in Pkg
      /\ Installing /\ Underway(tx) /\ Onward(file, tx)
      /\ Mid(file, staging, backup, dirs, db, tx, suspect, torn)
  BY UnderwayFacts, Zenon DEF StaleAside, Staling, Installing, Underway, IInv, TxInv
<1>2. PICK p \in tx.toStale :
        LET t == [tx EXCEPT !.toStale = tx.toStale \ {p}] IN
        IF file[p] # Gone THEN MoveAside(p, t)
        ELSE tx' = t /\ NoFault /\ UNCHANGED <<file, backup>>
  BY Zenon DEF StaleAside
<1> DEFINE t == [tx EXCEPT !.toStale = tx.toStale \ {p}]
<1>3. UNCHANGED <<staging, dirs, db, repo, suspect, torn, kills>>
  BY Zenon DEF StaleAside
<1>4. /\ t \in Tx /\ Kept(t, tx) /\ t.do = "install" /\ t.toStage = tx.toStage
      /\ t.staged = tx.staged /\ t.committed = tx.committed /\ t.aside = tx.aside
      /\ t.created = tx.created /\ t.dirty = tx.dirty
      /\ t.toStale = tx.toStale \ {p}
  BY <1>1, ZenonT(20) DEF Tx, Kept, Installing
<1>5. IF file[p] # Gone THEN MoveAside(p, t)
      ELSE tx' = t /\ NoFault /\ UNCHANGED <<file, backup>>
  BY <1>2, Zenon
<1> HIDE DEF t
<1>6. p \in tx.prev.files /\ p \notin tx.committed
  BY <1>1, Zenon DEF Mid, Open, Sets
<1>7. CASE file[p] # Gone
  BY <1>1, <1>3, <1>4, <1>5, <1>6, <1>7, MovedAside, Zenon
<1>8. CASE file[p] = Gone
  <2>1. tx' = t /\ NoFault /\ UNCHANGED <<file, backup>>
    BY <1>5, <1>8, Zenon
  <2>2. Accepted(db, t) /\ Began(db, t, suspect, torn)
    BY <1>1, <1>4, KeptFacts, Zenon DEF Mid, Open
  <2>3. /\ Sets(t) /\ Copies(file, staging, backup, dirs, t)
        /\ Undoable(file, dirs, t, suspect, torn) /\ Rest(file, db, suspect, torn, t.name)
    BY <1>1, <1>4 DEF Mid, Open, Sets, Copies, Undoable, Data, Kept
  <2>4. Onward(file, t)
    BY <1>1, <1>4, <1>8, Zenon DEF Onward, Kept
  <2>5. Types' /\ Tree(file, dirs)'
    BY <2>1, <1>1, <1>3, <1>4, Zenon DEF Types, NoFault
  <2> QED BY <2>1, <2>2, <2>3, <2>4, <2>5, <1>1, <1>3, <1>4, Forwards, Zenon DEF Mid, Open, Kept
<1> QED BY <1>7, <1>8, Zenon

\* commit_files renames the staged file into the place that is now free.
LEMMA CommitFileStep == ASSUME IInv, CommitFile PROVE IInv'
<1>1. /\ Types /\ Tree(file, dirs) /\ tx \in Tx /\ tx.name \in Pkg
      /\ Installing /\ Underway(tx) /\ Onward(file, tx)
      /\ Mid(file, staging, backup, dirs, db, tx, suspect, torn)
  BY UnderwayFacts, Zenon DEF CommitFile, Committing, Installing, Underway, IInv, TxInv
<1>2. PICK p \in tx.staged :
        /\ p \in tx.prev.files => file[p] = Gone
        /\ \/ /\ NoFault
              /\ file' = [file EXCEPT ![p] = staging[p]]
              /\ staging' = [staging EXCEPT ![p] = Gone]
              /\ tx' = [tx EXCEPT !.staged = tx.staged \ {p},
                                  !.committed = tx.committed \cup {p}]
           \/ Fault /\ UNCHANGED <<file, staging>> /\ tx' = RollBack(tx)
  BY Zenon DEF CommitFile
<1>3. UNCHANGED <<backup, dirs, db, repo, suspect, torn, kills>>
  BY Zenon DEF CommitFile
<1>4. CASE Fault /\ UNCHANGED <<file, staging>> /\ tx' = RollBack(tx)
  BY <1>1, <1>3, <1>4, GivesUp, Zenon DEF Types
<1>5. CASE /\ NoFault
           /\ file' = [file EXCEPT ![p] = staging[p]]
           /\ staging' = [staging EXCEPT ![p] = Gone]
           /\ tx' = [tx EXCEPT !.staged = tx.staged \ {p},
                               !.committed = tx.committed \cup {p}]
  <2>1. p \in Path /\ p \in tx.files /\ p \notin tx.committed
    BY <1>1, TxFields, Zenon DEF TxTypes, Mid, Open, Sets
  <2>2. /\ tx' \in Tx /\ Kept(tx', tx) /\ tx'.do = "install"
        /\ tx'.toStage = tx.toStage /\ tx'.staged = tx.staged \ {p}
        /\ tx'.committed = tx.committed \cup {p} /\ tx'.aside = tx.aside
        /\ tx'.toStale = tx.toStale
        /\ tx'.created = tx.created /\ tx'.dirty = tx.dirty
    BY <1>1, <1>5, <2>1, ZenonT(20) DEF Tx, Kept, Installing
  <2>3. p \notin tx.aside => tx.file0[p] = Gone
    <3>1. p \notin tx.aside => file[p] = tx.file0[p]
      BY <2>1, <1>1, Zenon DEF Mid, Open, Undoable, Onward
    <3> QED BY <3>1, <2>1, <1>1, <1>2, Zenon DEF Mid, Open, Began
  <2>4. staging[p] = Data(tx) /\ Above[p] \subseteq dirs /\ Data(tx) \in Datum
    BY <1>1, TxFields, Zenon DEF Mid, Open, Copies, Data, Datum, TxTypes
  <2>5. /\ file' \in [Path -> Datum] /\ file'[p] = Data(tx)
        /\ \A q \in Path \ {p} : file'[q] = file[q]
    BY <2>1, <2>4, <1>1, <1>5, Zenon DEF Types
  <2>6. staging' \in [Path -> Datum] /\ \A q \in Path \ {p} : staging'[q] = staging[q]
    BY <2>1, <1>1, <1>5, Zenon DEF Types, Datum
  <2>7. Mid(file', staging', backup', dirs', db, tx', suspect', torn')
    <3>1. Accepted(db, tx') /\ Began(db, tx', suspect, torn)
      BY <2>2, <1>1, KeptFacts, Zenon DEF Mid, Open
    <3>2. Sets(tx')
      BY <2>1, <2>2, <1>1, Zenon DEF Mid, Open, Sets, Kept
    <3>3. Copies(file', staging', backup, dirs, tx')
      <4>1. \A q \in tx'.staged : staging'[q] = Data(tx')
        BY <2>2, <2>6, <1>1, TxFields DEF Mid, Open, Copies, Data, Kept, TxTypes
      <4>2. \A q \in tx'.committed : file'[q] = Data(tx')
        BY <2>2, <2>5, <1>1, TxFields DEF Mid, Open, Copies, Data, Kept, TxTypes
      <4>3. \A q \in tx'.committed \ tx'.aside : tx'.file0[q] = Gone
        BY <2>2, <2>3, <1>1 DEF Mid, Open, Copies, Kept
      <4>4. \A q \in tx'.prev.files \ tx'.aside : tx'.file0[q] \in {Gone, file'[q], backup[q]}
        BY <2>2, <2>3, <2>5, <1>1, TxFields, Zenon DEF Mid, Open, Copies, Kept, TxTypes, Record
      <4> QED BY <4>1, <4>2, <4>3, <4>4, <2>2, <1>1, Zenon DEF Mid, Open, Copies, Kept
    <3>4. Undoable(file', dirs, tx', suspect, torn)
      BY <2>2, <2>5, <1>1, TxFields, Zenon DEF Mid, Open, Undoable, Kept, TxTypes
    <3>5. Rest(file', db, suspect, torn, tx'.name)
      <4>1. \A n \in Pkg \ {tx.name} : p \notin db[n].files
        BY <2>1, <1>1, Zenon DEF Mid, Open, Accepted
      <4>2. file'[p][1] = tx.name
        BY <2>5 DEF Data
      <4>3. \A n \in Pkg : db[n].files \subseteq Path
        BY <1>1, Zenon DEF Types, Record
      <4> QED BY <4>1, <4>2, <4>3, <2>2, <2>5, <1>1 DEF Mid, Rest, Kept
    <3> QED BY <3>1, <3>2, <3>3, <3>4, <3>5, <1>3, Zenon DEF Mid, Open
  <2>8. Onward(file', tx')
    BY <2>1, <2>2, <2>5, <1>1, TxFields DEF Onward, Kept, TxTypes, Record
  <2>9. Types' /\ Tree(file, dirs)'
    BY <2>2, <2>4, <2>5, <2>6, <1>1, <1>3, <1>5, Zenon DEF Types, Tree, NoFault
  <2> QED BY <2>2, <2>7, <2>8, <2>9, <1>1, <1>3, Forwards, Zenon DEF Kept
<1> QED BY <1>2, <1>4, <1>5, Zenon

\* The record is written when every file is in place and no old one is left: it
\* lists exactly the files of the package.
LEMMA WriteRecordStep == ASSUME IInv, WriteRecord PROVE IInv'
<1>1. /\ Types /\ Tree(file, dirs) /\ tx \in Tx /\ tx.name \in Pkg
      /\ Installing /\ Underway(tx) /\ Onward(file, tx)
      /\ Owners(db) /\ Needs(db) /\ RepoInv
      /\ Accepted(db, tx) /\ Sets(tx) /\ Began(db, tx, suspect, torn)
      /\ Mid(file, staging, backup, dirs, db, tx, suspect, torn)
  BY UnderwayFacts, Zenon DEF WriteRecord, Recording, Installing, Underway, IInv, TxInv, Mid, Open
<1>2. UNCHANGED <<file, staging, backup, dirs, repo, torn, kills>>
  BY Zenon DEF WriteRecord
<1>3. CASE Fault /\ tx' = RollBack(tx) /\ UNCHANGED <<db, suspect>>
  BY <1>1, <1>2, <1>3, GivesUp, Zenon DEF Types
<1>4. CASE /\ NoFault
           /\ db' = [db EXCEPT ![tx.name] = NewRecord]
           /\ tx' = [tx EXCEPT !.do = IF tx.aside = {} THEN "ok" ELSE "discard"]
           /\ suspect' = suspect \ {tx.name}
  <2>1. tx' \in Tx /\ tx'.name = tx.name /\ tx'.do \in {"ok", "discard"}
    BY <1>1, <1>4, ZenonT(20) DEF Tx, Doing
  <2>2. /\ NewRecord \in Record /\ NewRecord.version = tx.version
        /\ NewRecord.files = tx.files /\ NewRecord.depends = tx.depends
    BY <1>1, TxFields, Zenon DEF NewRecord, Record, TxTypes
  <2>3. NewRecord # NoRecord
    <3>1. tx.version \in Nat /\ tx.prev.version \in Nat /\ tx.version > tx.prev.version
      BY <1>1, TxFields, Zenon DEF Accepted, TxTypes, Record
    <3> QED BY <3>1, <2>2 DEF NoRecord
  <2>4. /\ db' \in [Pkg -> Record] /\ db'[tx.name] = NewRecord
        /\ \A n \in Pkg \ {tx.name} : db'[n] = db[n]
    BY <2>2, <1>1, <1>4, Zenon DEF Types
  <2>5. Owners(db')
    BY <2>2, <2>4, <1>1 DEF Owners, Accepted
  <2>6. Needs(db')
    <3>1. \A m \in Pkg : db[m] # NoRecord => db'[m] # NoRecord
      BY <2>3, <2>4, Zenon
    <3>2. tx.depends \subseteq Pkg /\ \A n \in Pkg : db[n].depends \subseteq Pkg
      BY <1>1, TxFields, Zenon DEF Types, TxTypes, Record
    <3> QED BY <3>1, <3>2, <2>2, <2>4, <1>1, Zenon DEF Needs, Accepted
  <2>7. Rest(file, db', suspect', torn, "none")
    <3>1. \A p \in tx.files : file[p] = <<tx.name, tx.version>>
      <4>1. tx.files = tx.committed
        BY <1>1, Zenon DEF WriteRecord, Recording, Onward
      <4> QED BY <4>1, <1>1, Zenon DEF Mid, Open, Copies, Data
    <3>2. ASSUME tx.name \notin torn, NEW p \in Path, file[p][1] = tx.name,
                 p \notin tx.files
          PROVE  FALSE
      <4>1. file[p] # Gone
        BY <3>2, <1>1, ArchiveAssumption DEF Gone
      <4>2. file[p] = tx.file0[p]
        BY <3>2, <4>1, <1>1, Zenon DEF Mid, Open, Undoable, Onward, Sets
      <4>3. p \in tx.prev.files
        BY <3>2, <4>2, <1>1, Zenon DEF Began, Accepted
      <4> QED BY <3>2, <4>1, <4>3, <1>1, Zenon DEF Onward, WriteRecord, Recording
    <3> QED BY <3>1, <3>2, <2>2, <2>4, <1>1, <1>4 DEF Rest, Mid
  <2>8. TxInv' /\ Busy(tx') = "none"
    BY <2>1, Zenon DEF TxInv, AllOrNothing, Underway, Busy
  <2>9. RepoInv'
    BY <2>1, <2>4, <1>1, <1>2, Zenon DEF RepoInv, RunInv, UndoInv, Installing
  <2>10. Types'
    BY <2>1, <2>4, <1>1, <1>2, <1>4, Zenon DEF Types, NoFault
  <2> QED BY <2>5, <2>6, <2>7, <2>8, <2>9, <2>10, <1>1, <1>2, Zenon DEF IInv
<1> QED BY <1>3, <1>4, Zenon DEF WriteRecord

\* discard_backups deletes what was moved aside once the new record is written.
LEMMA DiscardBackupStep == ASSUME IInv, DiscardBackup PROVE IInv'
<1>1. PICK p \in tx.aside :
        /\ \/ NoFault /\ backup' = [backup EXCEPT ![p] = Gone]
           \/ Fault /\ UNCHANGED backup
        /\ tx' = [tx EXCEPT !.aside = tx.aside \ {p},
                            !.do = IF tx.aside = {p} THEN "ok" ELSE "discard"]
  BY Zenon DEF DiscardBackup
<1>2. /\ tx.do = "discard" /\ Types
      /\ UNCHANGED <<file, staging, dirs, db, repo, suspect, torn, kills>>
  BY Zenon DEF DiscardBackup, IInv
<1>3. tx' \in Tx /\ tx'.name = tx.name /\ tx'.do \in {"ok", "discard"}
  BY <1>1, <1>2, ZenonT(20) DEF Types, Tx, Doing
<1>4. backup' \in [Path -> Datum] /\ faults' \in 0 .. MaxFaults
  BY <1>1, <1>2, BoundAssumption DEF Types, Datum, Fault, NoFault
<1>5. Types'
  BY <1>2, <1>3, <1>4, Zenon DEF Types
<1>6. TxInv' /\ Busy(tx') = "none" /\ Busy(tx) = "none"
  BY <1>2, <1>3, Zenon DEF TxInv, AllOrNothing, Underway, Busy
<1>7. RepoInv'
  BY <1>2, <1>3, Zenon DEF IInv, RepoInv, RunInv, UndoInv
<1> QED BY <1>2, <1>5, <1>6, <1>7, Zenon DEF IInv

-----------------------------------------------------------------------------
(* The steps of roll_back                                                  *)

\* More packages may be in doubt: nothing else changes.
LEMMA Doubted ==
  ASSUME NEW f, NEW r, NEW S, NEW T, NEW S2, NEW T2, NEW x,
         S \subseteq S2, T \subseteq T2, Rest(f, r, S, T, x)
  PROVE  Rest(f, r, S2, T2, x)
BY Zenon DEF Rest

\* The two outcomes of a rename or unlink of roll_back.  t is the transaction
\* without the path; a failure makes it dirty and the package doubtful.
LEMMA UndoneOrNot ==
  ASSUME IInv, tx.do = "undo", UNCHANGED <<dirs, db, repo, kills>>,
         NEW t \in Tx, Kept(t, tx), Sets(t), t.dirty = tx.dirty,
         t.created = tx.created,
         file' \in [Path -> Datum], staging' \in [Path -> Datum],
         backup' \in [Path -> Datum], Tree(file', dirs),
         Copies(file', staging', backup', dirs, t),
         \/ /\ NoFault /\ tx' = RollBack(t) /\ UNCHANGED <<suspect, torn>>
            /\ Undoable(file', dirs, t, suspect, torn)
            /\ Rest(file', db, suspect, torn, tx.name)
         \/ /\ Fault /\ UNCHANGED file
            /\ tx' = RollBack([t EXCEPT !.dirty = TRUE])
            /\ suspect' = suspect \cup {tx.name}
            /\ torn' = torn \cup {tx.name}
  PROVE  IInv'
<1>1. /\ Types /\ tx \in Tx /\ tx.name \in Pkg /\ Underway(tx)
      /\ Accepted(db, tx) /\ Began(db, tx, suspect, torn)
      /\ Rest(file, db, suspect, torn, tx.name)
  BY UnderwayFacts, Zenon DEF Underway, Mid, Open
<1>2. CASE /\ NoFault /\ tx' = RollBack(t) /\ UNCHANGED <<suspect, torn>>
           /\ Undoable(file', dirs, t, suspect, torn)
           /\ Rest(file', db, suspect, torn, tx.name)
  <2>1. Accepted(db, t) /\ Began(db, t, suspect, torn)
    BY <1>1, KeptFacts, Zenon
  <2>2. Mid(file', staging', backup', dirs', db, t, suspect', torn')
    BY <2>1, <1>2, Zenon DEF Mid, Open, Kept
  <2>3. tx' \in Tx
    BY <2>2, <1>1, <1>2, RolledBack, Zenon DEF Types
  <2>4. Types'
    BY <2>3, <1>1, <1>2, Zenon DEF Types, NoFault
  <2> QED BY <2>2, <2>4, <1>1, <1>2, Backwards, Zenon DEF Kept
<1>3. CASE /\ Fault /\ UNCHANGED file
           /\ tx' = RollBack([t EXCEPT !.dirty = TRUE])
           /\ suspect' = suspect \cup {tx.name}
           /\ torn' = torn \cup {tx.name}
  <2> DEFINE u == [t EXCEPT !.dirty = TRUE]
  <2>1. /\ u \in Tx /\ Kept(u, tx) /\ u.dirty = TRUE
        /\ u.toStage = t.toStage /\ u.staged = t.staged
        /\ u.committed = t.committed /\ u.aside = t.aside
        /\ u.toStale = t.toStale
    BY ZenonT(20) DEF Tx, Kept
  <2>2. tx' = RollBack(u)
    BY <1>3, Zenon
  <2> HIDE DEF u
  <2>3. Mid(file', staging', backup', dirs', db, u, suspect', torn')
    <3>1. Accepted(db, u) /\ Began(db, u, suspect', torn')
      BY <2>1, <1>1, <1>3, KeptFacts
    <3>2. Sets(u) /\ Copies(file', staging', backup', dirs, u)
      BY <2>1 DEF Sets, Copies, Data, Kept
    <3>3. Undoable(file', dirs, u, suspect', torn')
      BY <2>1, <1>3, Zenon DEF Undoable, Kept
    <3>4. Rest(file', db, suspect', torn', u.name)
      BY <2>1, <1>1, <1>3, Doubted DEF Kept
    <3> QED BY <3>1, <3>2, <3>3, <3>4, Zenon DEF Mid, Open
  <2>4. suspect' \in SUBSET Pkg /\ torn' \in SUBSET Pkg /\ faults' \in 0 .. MaxFaults
    BY <1>1, <1>3, BoundAssumption DEF Types, Fault
  <2>5. tx' \in Tx
    BY <2>1, <2>2, <2>3, <2>4, <1>1, RolledBack, Zenon DEF Types
  <2>6. Types'
    BY <2>4, <2>5, <1>1, Zenon DEF Types
  <2> QED BY <2>1, <2>2, <2>3, <2>6, <1>1, Backwards, Zenon DEF Kept
<1> QED BY <1>2, <1>3, Zenon

\* A backup goes back to its place: the file is the one the transaction found.
LEMMA RestoreStep ==
  ASSUME IInv, tx.do = "undo", NEW p \in tx.aside, p \notin tx.committed, Restore(p)
  PROVE  IInv'
<1>1. /\ Types /\ Tree(file, dirs) /\ tx \in Tx /\ tx.name \in Pkg /\ Owners(db)
      /\ Accepted(db, tx) /\ Sets(tx) /\ Copies(file, staging, backup, dirs, tx)
      /\ Began(db, tx, suspect, torn) /\ Undoable(file, dirs, tx, suspect, torn)
      /\ Rest(file, db, suspect, torn, tx.name)
  BY UnderwayFacts, Zenon DEF Underway, Mid, Open, IInv
<1> DEFINE t == [tx EXCEPT !.aside = tx.aside \ {p}]
<1>2. /\ UNCHANGED <<staging, dirs, db, repo, kills>>
      /\ \/ /\ NoFault /\ tx' = RollBack(t) /\ UNCHANGED <<suspect, torn>>
            /\ file' = [file EXCEPT ![p] = backup[p]]
            /\ backup' = [backup EXCEPT ![p] = Gone]
         \/ /\ Fault /\ UNCHANGED <<file, backup>>
            /\ tx' = RollBack([t EXCEPT !.dirty = TRUE])
            /\ suspect' = suspect \cup {tx.name}
            /\ torn' = torn \cup {tx.name}
  BY Zenon DEF Restore, UndoStep
<1>3. /\ t \in Tx /\ Kept(t, tx) /\ t.dirty = tx.dirty /\ t.created = tx.created
      /\ t.toStage = tx.toStage /\ t.staged = tx.staged
      /\ t.committed = tx.committed /\ t.aside = tx.aside \ {p}
      /\ t.toStale = tx.toStale
  BY <1>1, ZenonT(20) DEF Tx, Kept
<1> HIDE DEF t
<1>4. Sets(t)
  BY <1>1, <1>3, Zenon DEF Sets, Kept
<1>5. p \in Path /\ backup[p] = tx.file0[p] /\ Above[p] \subseteq dirs
  BY <1>1, TxFields, Zenon DEF Copies, TxTypes
<1>6. CASE Fault /\ UNCHANGED <<file, backup>>
  <2>1. Copies(file, staging, backup, dirs, t)
    BY <1>1, <1>3, <1>5 DEF Copies, Data, Kept
  <2>2. /\ file' \in [Path -> Datum] /\ staging' \in [Path -> Datum]
        /\ backup' \in [Path -> Datum]
    BY <1>1, <1>2, <1>6, Zenon DEF Types
  <2> QED BY <2>1, <2>2, <1>1, <1>2, <1>3, <1>4, <1>6, UndoneOrNot DEF Fault, NoFault, Types
<1>7. CASE /\ NoFault /\ tx' = RollBack(t) /\ UNCHANGED <<suspect, torn>>
           /\ file' = [file EXCEPT ![p] = backup[p]]
           /\ backup' = [backup EXCEPT ![p] = Gone]
  <2>1. /\ file' \in [Path -> Datum] /\ file'[p] = tx.file0[p]
        /\ \A q \in Path \ {p} : file'[q] = file[q]
    BY <1>1, <1>5, <1>7, Zenon DEF Types
  <2>2. /\ backup' \in [Path -> Datum]
        /\ \A q \in Path \ {p} : backup'[q] = backup[q]
    BY <1>1, <1>5, <1>7, Zenon DEF Types, Datum
  <2>3. Tree(file', dirs)
    BY <2>1, <1>1, <1>5, Zenon DEF Tree
  <2>4. Copies(file', staging', backup', dirs, t)
    <3>1. \A q \in t.committed : file'[q] = Data(t)
      BY <2>1, <1>1, <1>3, TxFields DEF Copies, Data, Kept, TxTypes
    <3>2. \A q \in t.aside : backup'[q] = t.file0[q]
      BY <2>2, <1>1, <1>3, TxFields, Zenon DEF Copies, Kept, TxTypes
    <3>3. \A q \in t.prev.files \ t.aside : t.file0[q] \in {Gone, file'[q], backup'[q]}
      BY <2>1, <2>2, <1>1, <1>3, TxFields, Zenon DEF Copies, Kept, TxTypes, Record
    <3> QED BY <3>1, <3>2, <3>3, <1>1, <1>2, <1>3 DEF Copies, Data, Kept
  <2>5. Undoable(file', dirs, t, suspect, torn)
    BY <2>1, <1>1, <1>3, TxFields DEF Undoable, Kept, TxTypes
  <2>6. Rest(file', db, suspect, torn, tx.name)
    <3>1. \A n \in Pkg \ {tx.name} : p \notin db[n].files
      BY <1>1, Zenon DEF Sets, Accepted, Owners
    <3>2. \A n \in Pkg \ torn : file'[p][1] = n => p \in db[n].files
      BY <2>1, <1>1, <1>5, Zenon DEF Began
    <3>3. \A n \in Pkg : db[n].files \subseteq Path
      BY <1>1, Zenon DEF Types, Record
    <3> QED BY <3>1, <3>2, <3>3, <2>1, <1>1, Zenon DEF Rest
  <2>7. staging' \in [Path -> Datum]
    BY <1>1, <1>2, Zenon DEF Types
  <2> QED BY <2>1, <2>2, <2>3, <2>4, <2>5, <2>6, <2>7, <1>2, <1>3, <1>4, <1>7, UndoneOrNot, Zenon
<1> QED BY <1>2, <1>6, <1>7, Zenon

\* roll_back moves a dropped file back.
LEMMA UndoStaleStep == ASSUME IInv, UndoStale PROVE IInv'
<1>1. Sets(tx)
  BY UnderwayFacts, Zenon DEF UndoStale, Underway, Mid, Open
<1>2. PICK p \in tx.aside \ tx.files : Restore(p)
  BY Zenon DEF UndoStale, StaleToUndo
<1>3. p \notin tx.committed
  BY <1>1, Zenon DEF Sets
<1> QED BY <1>2, <1>3, RestoreStep, Zenon DEF UndoStale

\* roll_back moves a replaced file back.
LEMMA UndoAsideStep == ASSUME IInv, UndoAside PROVE IInv'
<1>1. PICK p \in tx.aside \ tx.committed : Restore(p)
  BY Zenon DEF UndoAside
<1> QED BY <1>1, RestoreStep, Zenon DEF UndoAside

\* roll_back deletes a file the transaction put in place.
LEMMA UndoCommittedStep == ASSUME IInv, UndoCommitted PROVE IInv'
<1>1. /\ Types /\ Tree(file, dirs) /\ tx \in Tx /\ tx.name \in Pkg /\ tx.do = "undo"
      /\ Accepted(db, tx) /\ Sets(tx) /\ Copies(file, staging, backup, dirs, tx)
      /\ Undoable(file, dirs, tx, suspect, torn)
      /\ Rest(file, db, suspect, torn, tx.name)
  BY UnderwayFacts, Zenon DEF UndoCommitted, Underway, Mid, Open
<1>2. PICK p \in tx.committed :
        UndoStep(file' = [file EXCEPT ![p] = Gone], UNCHANGED file,
                 [tx EXCEPT !.committed = tx.committed \ {p}])
  BY Zenon DEF UndoCommitted
<1> DEFINE t == [tx EXCEPT !.committed = tx.committed \ {p}]
<1>3. \/ /\ NoFault /\ tx' = RollBack(t) /\ UNCHANGED <<suspect, torn>>
         /\ file' = [file EXCEPT ![p] = Gone]
      \/ /\ Fault /\ UNCHANGED file
         /\ tx' = RollBack([t EXCEPT !.dirty = TRUE])
         /\ suspect' = suspect \cup {tx.name}
         /\ torn' = torn \cup {tx.name}
  BY <1>2, Zenon DEF UndoStep
<1>4. /\ t \in Tx /\ Kept(t, tx) /\ t.dirty = tx.dirty /\ t.created = tx.created
      /\ t.toStage = tx.toStage /\ t.staged = tx.staged
      /\ t.committed = tx.committed \ {p} /\ t.aside = tx.aside
      /\ t.toStale = tx.toStale
  BY <1>1, ZenonT(20) DEF Tx, Kept
<1> HIDE DEF t
<1>5. UNCHANGED <<staging, backup, dirs, db, repo, kills>>
  BY Zenon DEF UndoCommitted
<1>6. Sets(t)
  BY <1>1, <1>4, Zenon DEF Sets, Kept
<1>7. p \in Path /\ p \in tx.files
  BY <1>1, TxFields, Zenon DEF TxTypes, Sets
<1>8. staging' \in [Path -> Datum] /\ backup' \in [Path -> Datum]
  BY <1>1, <1>5, Zenon DEF Types
<1>9. CASE /\ Fault /\ UNCHANGED file
           /\ tx' = RollBack([t EXCEPT !.dirty = TRUE])
           /\ suspect' = suspect \cup {tx.name}
           /\ torn' = torn \cup {tx.name}
  <2>1. Copies(file', staging', backup', dirs, t)
    BY <1>1, <1>4, <1>5, <1>9 DEF Copies, Data, Kept
  <2> QED BY <2>1, <1>1, <1>4, <1>5, <1>6, <1>8, <1>9, UndoneOrNot, Zenon DEF Types
<1>10. CASE /\ NoFault /\ tx' = RollBack(t) /\ UNCHANGED <<suspect, torn>>
            /\ file' = [file EXCEPT ![p] = Gone]
  <2>1. /\ file' \in [Path -> Datum] /\ file'[p] = Gone
        /\ \A q \in Path \ {p} : file'[q] = file[q]
    BY <1>1, <1>7, <1>10, Zenon DEF Types, Datum
  <2>2. Tree(file', dirs)
    BY <2>1, <1>1, Zenon DEF Tree
  <2>3. Copies(file', staging', backup', dirs, t)
    <3>1. \A q \in t.committed : file'[q] = Data(t)
      BY <2>1, <1>1, <1>4, TxFields, Zenon DEF Copies, Data, Kept, TxTypes
    <3>2. \A q \in t.prev.files \ t.aside : t.file0[q] \in {Gone, file'[q], backup'[q]}
      BY <2>1, <1>1, <1>4, <1>5, TxFields DEF Copies, Kept, TxTypes, Record
    <3> QED BY <3>1, <3>2, <1>1, <1>4, <1>5 DEF Copies, Data, Kept
  <2>4. Undoable(file', dirs, t, suspect, torn)
    BY <2>1, <1>1, <1>4, TxFields DEF Undoable, Copies, Kept, TxTypes
  <2>5. Rest(file', db, suspect, torn, tx.name)
    <3>1. \A n \in Pkg \ {tx.name} : p \notin db[n].files
      BY <1>1, <1>7, Zenon DEF Accepted
    <3>2. file'[p][1] \notin Pkg
      BY <2>1, ArchiveAssumption DEF Gone
    <3>3. \A n \in Pkg : db[n].files \subseteq Path
      BY <1>1, Zenon DEF Types, Record
    <3> QED BY <3>1, <3>2, <3>3, <2>1, <1>1 DEF Rest
  <2> QED BY <2>1, <2>2, <2>3, <2>4, <2>5, <1>1, <1>4, <1>5, <1>6, <1>8, <1>10, UndoneOrNot, Zenon
<1> QED BY <1>3, <1>9, <1>10, Zenon

\* roll_back deletes a staged file.
LEMMA UndoStagedStep == ASSUME IInv, UndoStaged PROVE IInv'
<1>1. /\ Types /\ Tree(file, dirs) /\ tx \in Tx /\ tx.name \in Pkg /\ tx.do = "undo"
      /\ Sets(tx) /\ Copies(file, staging, backup, dirs, tx)
      /\ Undoable(file, dirs, tx, suspect, torn)
      /\ Rest(file, db, suspect, torn, tx.name)
  BY UnderwayFacts, Zenon DEF UndoStaged, Underway, Mid, Open
<1>2. PICK p \in tx.staged :
        UndoStep(staging' = [staging EXCEPT ![p] = Gone], UNCHANGED staging,
                 [tx EXCEPT !.staged = tx.staged \ {p}])
  BY Zenon DEF UndoStaged
<1> DEFINE t == [tx EXCEPT !.staged = tx.staged \ {p}]
<1>3. \/ /\ NoFault /\ tx' = RollBack(t) /\ UNCHANGED <<suspect, torn>>
         /\ staging' = [staging EXCEPT ![p] = Gone]
      \/ /\ Fault /\ UNCHANGED staging
         /\ tx' = RollBack([t EXCEPT !.dirty = TRUE])
         /\ suspect' = suspect \cup {tx.name}
         /\ torn' = torn \cup {tx.name}
  BY <1>2, Zenon DEF UndoStep
<1>4. /\ t \in Tx /\ Kept(t, tx) /\ t.dirty = tx.dirty /\ t.created = tx.created
      /\ t.toStage = tx.toStage /\ t.staged = tx.staged \ {p}
      /\ t.committed = tx.committed /\ t.aside = tx.aside
      /\ t.toStale = tx.toStale
  BY <1>1, ZenonT(20) DEF Tx, Kept
<1> HIDE DEF t
<1>5. UNCHANGED <<file, backup, dirs, db, repo, kills>>
  BY Zenon DEF UndoStaged
<1>6. Sets(t)
  BY <1>1, <1>4, Zenon DEF Sets, Kept
<1>7. p \in Path
  BY <1>1, TxFields, Zenon DEF TxTypes
<1>8. /\ staging' \in [Path -> Datum] /\ backup' \in [Path -> Datum]
      /\ file' \in [Path -> Datum] /\ Tree(file', dirs)
      /\ \A q \in Path \ {p} : staging'[q] = staging[q]
  BY <1>1, <1>3, <1>5, <1>7, Zenon DEF Types, Datum
<1>9. Copies(file', staging', backup', dirs, t)
  <2>1. \A q \in t.staged : staging'[q] = Data(t)
    BY <1>1, <1>4, <1>8, TxFields DEF Copies, Data, Kept, TxTypes
  <2> QED BY <2>1, <1>1, <1>4, <1>5 DEF Copies, Data, Kept
<1>10. Undoable(file', dirs, t, suspect, torn)
  BY <1>1, <1>4, <1>5, Zenon DEF Undoable, Kept
<1>11. \/ /\ NoFault /\ tx' = RollBack(t) /\ UNCHANGED <<suspect, torn>>
          /\ Undoable(file', dirs, t, suspect, torn)
          /\ Rest(file', db, suspect, torn, tx.name)
       \/ /\ Fault /\ UNCHANGED file
          /\ tx' = RollBack([t EXCEPT !.dirty = TRUE])
          /\ suspect' = suspect \cup {tx.name}
          /\ torn' = torn \cup {tx.name}
  BY <1>1, <1>3, <1>5, <1>10, Zenon
<1> QED BY <1>1, <1>4, <1>5, <1>6, <1>8, <1>9, <1>11, UndoneOrNot, Zenon

\* roll_back removes the directories it had made, children before their parents.
LEMMA UndoDirectoryStep == ASSUME IInv, UndoDirectory PROVE IInv'
<1>1. /\ Types /\ Tree(file, dirs) /\ tx \in Tx /\ tx.name \in Pkg
      /\ Underway(tx) /\ Accepted(db, tx) /\ Sets(tx)
      /\ Copies(file, staging, backup, dirs, tx) /\ Began(db, tx, suspect, torn)
      /\ Undoable(file, dirs, tx, suspect, torn)
      /\ Rest(file, db, suspect, torn, tx.name)
  BY UnderwayFacts, Zenon DEF UndoDirectory, Underway, Mid, Open
<1>2. PICK d \in tx.created :
        LET t == [tx EXCEPT !.created = tx.created \ {d}] IN
        \/ NoFault /\ Empty(d) /\ dirs' = dirs \ {d} /\ tx' = RollBack(t)
        \/ /\ (~Empty(d) /\ NoFault) \/ Fault
           /\ UNCHANGED dirs
           /\ tx' = RollBack([t EXCEPT !.dirty = TRUE])
  BY Zenon DEF UndoDirectory
<1>3. /\ UNCHANGED <<file, staging, backup, db, repo, suspect, torn, kills>>
      /\ tx.staged = {} /\ tx.aside = {} /\ tx.committed = {}
  BY Zenon DEF UndoDirectory, StaleToUndo, EntriesToUndo
<1> DEFINE t == [tx EXCEPT !.created = tx.created \ {d}]
           u == [t EXCEPT !.dirty = TRUE]
<1>4. /\ t \in Tx /\ Kept(t, tx) /\ t.dirty = tx.dirty
      /\ t.created = tx.created \ {d}
      /\ t.toStage = tx.toStage /\ t.staged = tx.staged
      /\ t.committed = tx.committed /\ t.aside = tx.aside
      /\ t.toStale = tx.toStale
  BY <1>1, ZenonT(20) DEF Tx, Kept
<1>5. /\ u \in Tx /\ Kept(u, tx) /\ u.dirty = TRUE
      /\ u.toStage = tx.toStage /\ u.staged = tx.staged
      /\ u.committed = tx.committed /\ u.aside = tx.aside
      /\ u.toStale = tx.toStale
  BY <1>1, ZenonT(20) DEF Tx, Kept
<1>6. \/ NoFault /\ Empty(d) /\ dirs' = dirs \ {d} /\ tx' = RollBack(t)
      \/ NoFault /\ UNCHANGED dirs /\ tx' = RollBack(u)
      \/ Fault /\ UNCHANGED dirs /\ tx' = RollBack(u)
  BY <1>2, Zenon
<1> HIDE DEF t, u
<1>7. faults' \in 0 .. MaxFaults
  BY <1>1, <1>6, BoundAssumption DEF Types, Fault, NoFault
<1>8. CASE Empty(d) /\ dirs' = dirs \ {d} /\ tx' = RollBack(t)
  <2>1. Tree(file', dirs')
    BY <1>1, <1>3, <1>8, Zenon DEF Tree, Empty
  <2>2. Mid(file', staging', backup', dirs', db, t, suspect', torn')
    <3>1. Accepted(db, t) /\ Began(db, t, suspect, torn)
      BY <1>1, <1>4, KeptFacts, Zenon
    <3>2. Sets(t) /\ Rest(file, db, suspect, torn, t.name)
      BY <1>1, <1>4, Zenon DEF Sets, Kept
    <3>3. Copies(file, staging, backup, dirs', t)
      BY <1>1, <1>3, <1>4, Zenon DEF Copies, Data, Kept
    <3>4. Undoable(file, dirs', t, suspect, torn)
      BY <1>1, <1>4, <1>8 DEF Undoable, Kept
    <3> QED BY <3>1, <3>2, <3>3, <3>4, <1>3, Zenon DEF Mid, Open
  <2>3. dirs' \in SUBSET Dir
    BY <1>1, <1>8, Zenon DEF Types
  <2>4. tx' \in Tx
    BY <2>2, <2>3, <1>1, <1>3, <1>4, <1>8, RolledBack, Zenon DEF Types
  <2>5. Types'
    BY <2>3, <2>4, <1>1, <1>3, <1>7, Zenon DEF Types
  <2> QED BY <2>1, <2>2, <2>5, <1>1, <1>3, <1>4, <1>8, Backwards, Zenon DEF Kept
<1>9. CASE UNCHANGED dirs /\ tx' = RollBack(u)
  <2>1. Mid(file', staging', backup', dirs', db, u, suspect', torn')
    <3>1. Accepted(db, u) /\ Began(db, u, suspect, torn)
      BY <1>1, <1>5, KeptFacts, Zenon
    <3>2. Sets(u) /\ Rest(file, db, suspect, torn, u.name)
      BY <1>1, <1>5, Zenon DEF Sets, Kept
    <3>3. Copies(file, staging, backup, dirs, u)
      BY <1>1, <1>5 DEF Copies, Data, Kept
    <3>4. Undoable(file, dirs, u, suspect, torn)
      BY <1>1, <1>5 DEF Undoable, Kept
    <3> QED BY <3>1, <3>2, <3>3, <3>4, <1>3, <1>9, Zenon DEF Mid, Open
  <2>2. tx' \in Tx
    BY <2>1, <1>1, <1>3, <1>5, <1>9, RolledBack, Zenon DEF Types
  <2>3. Types' /\ Tree(file', dirs')
    BY <2>2, <1>1, <1>3, <1>7, <1>9, Zenon DEF Types
  <2> QED BY <2>1, <2>3, <1>1, <1>3, <1>5, <1>9, Backwards, Zenon DEF Kept
<1> QED BY <1>6, <1>8, <1>9, Zenon

-----------------------------------------------------------------------------
(* hpkg_store_remove                                                       *)

\* What a step of a removal may use of the invariant.
LEMMA RemovingFacts ==
  ASSUME IInv, tx.do = "remove"
  PROVE  /\ Types /\ Tree(file, dirs) /\ tx \in Tx /\ tx.name \in Pkg
         /\ Owners(db) /\ Needs(db) /\ RepoInv /\ Removing(file, db, tx)
         /\ Rest(file, db, suspect, torn, "none") /\ Busy(tx) = "none"
BY Zenon DEF IInv, TxInv, Removing, Busy, Underway, Types

\* A step of a removal that leaves the records alone.
LEMMA StillThere ==
  ASSUME RepoInv, tx.do = "remove", UNCHANGED <<db, repo>>, tx'.name = tx.name,
         tx'.do \in {"remove", "failed"}
  PROVE  RepoInv'
<1>1. CASE repo.do = "run"
  BY <1>1, Zenon DEF RepoInv, RunInv
<1>2. CASE repo.do = "undo"
  BY <1>2, Zenon DEF RepoInv, UndoInv
<1> QED BY <1>1, <1>2, Zenon DEF RepoInv

\* hpkg_store_remove deletes the files of the package.
LEMMA RemoveFileStep == ASSUME IInv, RemoveFile PROVE IInv'
<1>1. /\ Types /\ Tree(file, dirs) /\ tx \in Tx /\ tx.name \in Pkg
      /\ Owners(db) /\ Needs(db) /\ RepoInv /\ Removing(file, db, tx)
      /\ Rest(file, db, suspect, torn, "none") /\ tx.do = "remove"
  BY RemovingFacts, Zenon DEF RemoveFile
<1>2. PICK p \in tx.toStage :
        \/ /\ NoFault
           /\ file' = [file EXCEPT ![p] = Gone]
           /\ tx' = [tx EXCEPT !.toStage = tx.toStage \ {p}]
           /\ suspect' = suspect \cup {tx.name}
        \/ /\ Fault
           /\ tx' = [tx EXCEPT !.do = "failed", !.dirty = TRUE]
           /\ UNCHANGED <<file, suspect>>
  BY Zenon DEF RemoveFile
<1>3. UNCHANGED <<staging, backup, dirs, db, repo, torn, kills>>
  BY Zenon DEF RemoveFile
<1>4. CASE /\ Fault
           /\ tx' = [tx EXCEPT !.do = "failed", !.dirty = TRUE]
           /\ UNCHANGED <<file, suspect>>
  <2>1. tx' \in Tx /\ tx'.name = tx.name /\ tx'.do = "failed" /\ tx'.dirty = TRUE
    BY <1>1, <1>4, ZenonT(20) DEF Tx, Doing
  <2>2. Types'
    BY <2>1, <1>1, <1>3, <1>4, BoundAssumption DEF Types, Fault
  <2>3. TxInv' /\ Busy(tx') = "none"
    BY <2>1, Zenon DEF TxInv, AllOrNothing, Underway, Busy
  <2> QED BY <2>1, <2>2, <2>3, <1>1, <1>3, <1>4, StillThere, Zenon DEF IInv
<1>5. CASE /\ NoFault
           /\ file' = [file EXCEPT ![p] = Gone]
           /\ tx' = [tx EXCEPT !.toStage = tx.toStage \ {p}]
           /\ suspect' = suspect \cup {tx.name}
  <2>1. p \in Path /\ p \in db[tx.name].files
    BY <1>1, TxFields, Zenon DEF TxTypes, Removing
  <2>2. /\ tx' \in Tx /\ tx'.name = tx.name /\ tx'.do = "remove"
        /\ tx'.toStage = tx.toStage \ {p}
    BY <1>1, <1>5, ZenonT(20) DEF Tx
  <2>3. /\ file' \in [Path -> Datum] /\ file'[p] = Gone
        /\ \A q \in Path \ {p} : file'[q] = file[q]
    BY <2>1, <1>1, <1>5, Zenon DEF Types, Datum
  <2>4. Types' /\ Tree(file', dirs')
    BY <2>2, <2>3, <1>1, <1>3, <1>5, Zenon DEF Types, Tree, NoFault
  <2>5. Removing(file', db, tx')
    BY <2>2, <2>3, <1>1, Zenon DEF Removing, Types, Record
  <2>6. TxInv' /\ Busy(tx') = "none"
    BY <2>2, <2>5, <1>3, Zenon DEF TxInv, AllOrNothing, Underway, Busy
  <2>7. Rest(file', db, suspect', torn, "none")
    <3>1. \A n \in Pkg \ {tx.name} : p \notin db[n].files
      BY <2>1, <1>1, Zenon DEF Owners
    <3>2. file'[p][1] \notin Pkg
      BY <2>3, ArchiveAssumption DEF Gone
    <3>3. \A n \in Pkg : db[n].files \subseteq Path
      BY <1>1, Zenon DEF Types, Record
    <3> QED BY <3>1, <3>2, <3>3, <2>3, <1>1, <1>5 DEF Rest
  <2> QED BY <2>2, <2>4, <2>6, <2>7, <1>1, <1>3, StillThere, Zenon DEF IInv
<1> QED BY <1>2, <1>4, <1>5, Zenon

\* hpkg_store_remove removes the directories that have become empty.
LEMMA RemoveDirectoryStep == ASSUME IInv, RemoveDirectory PROVE IInv'
<1>1. /\ Types /\ Tree(file, dirs) /\ tx \in Tx /\ tx.name \in Pkg
      /\ Owners(db) /\ Needs(db) /\ RepoInv /\ Removing(file, db, tx)
      /\ Rest(file, db, suspect, torn, "none") /\ tx.do = "remove"
  BY RemovingFacts, Zenon DEF RemoveDirectory
<1>2. PICK d \in tx.created :
        /\ \/ NoFault /\ dirs' = IF Empty(d) THEN dirs \ {d} ELSE dirs
           \/ Fault /\ UNCHANGED dirs
        /\ tx' = [tx EXCEPT !.created = tx.created \ {d}]
  BY Zenon DEF RemoveDirectory
<1>3. UNCHANGED <<file, staging, backup, db, repo, suspect, torn, kills>>
  BY Zenon DEF RemoveDirectory
<1>4. /\ tx' \in Tx /\ tx'.name = tx.name /\ tx'.do = "remove"
      /\ tx'.toStage = tx.toStage
  BY <1>1, <1>2, ZenonT(20) DEF Tx
<1>5. dirs' = dirs \/ (Empty(d) /\ dirs' = dirs \ {d})
  BY <1>2, Zenon
<1>6. Tree(file', dirs')
  BY <1>1, <1>3, <1>5, Zenon DEF Tree, Empty
<1>7. faults' \in 0 .. MaxFaults
  BY <1>1, <1>2, BoundAssumption DEF Types, Fault, NoFault
<1>8. Types'
  BY <1>1, <1>3, <1>4, <1>5, <1>7, Zenon DEF Types
<1>9. TxInv' /\ Busy(tx') = "none"
  BY <1>1, <1>3, <1>4, Zenon DEF TxInv, AllOrNothing, Underway, Busy, Removing
<1> QED BY <1>1, <1>3, <1>4, <1>6, <1>8, <1>9, StillThere, Zenon DEF IInv

\* The record goes when no file of the package is left and nothing needs it.
LEMMA RemoveRecordStep == ASSUME IInv, RemoveRecord PROVE IInv'
<1>1. /\ Types /\ Tree(file, dirs) /\ tx \in Tx /\ tx.name \in Pkg
      /\ Owners(db) /\ Needs(db) /\ RepoInv /\ Removing(file, db, tx)
      /\ Rest(file, db, suspect, torn, "none") /\ tx.do = "remove"
      /\ tx.toStage = {}
  BY RemovingFacts, Zenon DEF RemoveRecord
<1>2. UNCHANGED <<file, staging, backup, dirs, repo, torn, kills>>
  BY Zenon DEF RemoveRecord
<1>3. CASE /\ Fault
           /\ tx' = [tx EXCEPT !.do = "failed", !.dirty = TRUE]
           /\ UNCHANGED <<db, suspect>>
  <2>1. tx' \in Tx /\ tx'.name = tx.name /\ tx'.do = "failed" /\ tx'.dirty = TRUE
    BY <1>1, <1>3, ZenonT(20) DEF Tx, Doing
  <2>2. Types'
    BY <2>1, <1>1, <1>2, <1>3, BoundAssumption DEF Types, Fault
  <2>3. TxInv' /\ Busy(tx') = "none"
    BY <2>1, Zenon DEF TxInv, AllOrNothing, Underway, Busy
  <2> QED BY <2>1, <2>2, <2>3, <1>1, <1>2, <1>3, StillThere, Zenon DEF IInv
<1>4. CASE /\ NoFault
           /\ db' = [db EXCEPT ![tx.name] = NoRecord]
           /\ tx' = [tx EXCEPT !.do = "ok"]
           /\ suspect' = suspect \ {tx.name}
  <2>1. tx' \in Tx /\ tx'.name = tx.name /\ tx'.do = "ok"
    BY <1>1, <1>4, ZenonT(20) DEF Tx, Doing
  <2>2. /\ db' \in [Pkg -> Record] /\ db'[tx.name] = NoRecord
        /\ \A n \in Pkg \ {tx.name} : db'[n] = db[n]
    BY <1>1, <1>4, Zenon DEF Types, Record, NoRecord
  <2>3. NoRecord.files = {} /\ NoRecord.depends = {}
    BY Zenon DEF NoRecord
  <2>4. Owners(db')
    BY <2>2, <2>3, <1>1, Zenon DEF Owners
  <2>5. Needs(db')
    <3>1. \A n \in Pkg : db[n].depends \subseteq Pkg
      BY <1>1, Zenon DEF Types, Record
    <3> QED BY <3>1, <2>2, <2>3, <1>1 DEF Needs, Removing
  <2>6. Rest(file, db', suspect', torn, "none")
    <3>1. ASSUME NEW p \in Path, file[p][1] = tx.name, tx.name \notin torn
          PROVE  FALSE
      <4>1. p \in db[tx.name].files
        BY <3>1, <1>1, ArchiveAssumption, Zenon DEF Rest
      <4>2. file[p] = Gone
        BY <4>1, <1>1, Zenon DEF Removing
      <4> QED BY <3>1, <4>2, <1>1, ArchiveAssumption DEF Gone
    <3> QED BY <3>1, <2>2, <2>3, <1>1, <1>4 DEF Rest
  <2>7. TxInv' /\ Busy(tx') = "none"
    BY <2>1, Zenon DEF TxInv, AllOrNothing, Underway, Busy
  <2>8. RepoInv'
    <3>1. CASE repo.do = "run"
      BY <3>1, <1>1, Zenon DEF RepoInv, RunInv
    <3>2. CASE repo.do = "undo"
      <4>1. repo.done \in Seq(Pkg)
        BY <1>1, Zenon DEF Types, Plan
      <4>2. /\ repo.done # <<>> /\ tx.name = repo.done[Len(repo.done)]
            /\ Len(repo.done) \in 1 .. Len(repo.done)
        BY <3>2, <4>1, <1>1 DEF RepoInv, UndoInv
      <4> QED BY <3>2, <4>2, <2>1, <2>2, <1>1, <1>2, Zenon DEF RepoInv, UndoInv
    <3> QED BY <3>1, <3>2, <1>2, Zenon DEF RepoInv
  <2>9. Types'
    BY <2>1, <2>2, <1>1, <1>2, <1>4, Zenon DEF Types, NoFault
  <2> QED BY <2>4, <2>5, <2>6, <2>7, <2>8, <2>9, <1>1, <1>2, Zenon DEF IInv
<1> QED BY <1>3, <1>4, Zenon DEF RemoveRecord

-----------------------------------------------------------------------------
(* The commands                                                            *)

\* Between two transactions every record is checked against the disk.
LEMMA IdleFacts ==
  ASSUME IInv, ~Underway(tx)
  PROVE  /\ Types /\ Tree(file, dirs) /\ Owners(db) /\ Needs(db) /\ RepoInv
         /\ Rest(file, db, suspect, torn, "none") /\ tx \in Tx
BY Zenon DEF IInv, Busy, Types

\* The transaction of an archive that was accepted.
LEMMA Started ==
  ASSUME IInv, tx.do = "idle", NEW a \in Archives, Accepts(a),
         tx' = NewTransaction(a), Bystanders, NoFault, UNCHANGED repo,
         repo.do # "undo",
         repo.do = "run" => repo.todo # <<>> /\ a.name = repo.todo[1].name
  PROVE  IInv'
<1>1. /\ Types /\ Tree(file, dirs) /\ Owners(db) /\ Needs(db) /\ RepoInv
      /\ Rest(file, db, suspect, torn, "none")
  BY IdleFacts, Zenon DEF Underway
<1>2. /\ a.name \in Pkg /\ a.version \in Nat /\ a.files \in SUBSET Path
      /\ a.depends \in SUBSET Pkg
  BY ArchiveAssumption, Zenon
<1>3. db[a.name] \in Record /\ db[a.name].files \in SUBSET Path /\ db[a.name].version \in Nat
  BY <1>1, <1>2, Zenon DEF Types, Record
<1>4. tx' = [do |-> "install", name |-> a.name, version |-> a.version,
             files |-> a.files, depends |-> a.depends, prev |-> db[a.name],
             toStage |-> a.files, staged |-> {}, committed |-> {},
             aside |-> {}, toStale |-> db[a.name].files \ a.files, created |-> {},
             unlisted |-> {}, dirty |-> FALSE, file0 |-> file, dirs0 |-> dirs]
  BY Zenon DEF NewTransaction, NoTx
<1>5. tx' \in Tx
  <2>1. /\ "install" \in Doing /\ a.name \in Pkg \cup {"none"} /\ FALSE \in BOOLEAN
        /\ {} \in SUBSET Path /\ {} \in SUBSET Dir
        /\ db[a.name].files \ a.files \in SUBSET Path
    BY <1>2, <1>3, Zenon DEF Doing
  <2>2. file \in [Path -> Datum] /\ dirs \in SUBSET Dir
    BY <1>1, Zenon DEF Types
  <2> QED BY <2>1, <2>2, <1>2, <1>3, NoTxType, ZenonT(20) DEF NewTransaction, Tx
<1>6. /\ tx'.do = "install" /\ tx'.name = a.name /\ tx'.version = a.version
      /\ tx'.files = a.files /\ tx'.depends = a.depends /\ tx'.prev = db[a.name]
      /\ tx'.toStage = a.files /\ tx'.staged = {} /\ tx'.committed = {}
      /\ tx'.aside = {} /\ tx'.toStale = db[a.name].files \ a.files
      /\ tx'.created = {} /\ tx'.unlisted = {} /\ tx'.dirty = FALSE
      /\ tx'.file0 = file /\ tx'.dirs0 = dirs
  BY <1>4
<1>7. UNCHANGED <<file, staging, backup, dirs, db, suspect, torn, kills, repo, faults>>
  BY Zenon DEF Bystanders, NoFault
<1>8. Open(file, staging, backup, dirs, db, tx', suspect, torn)
  <2>1. Accepted(db, tx')
    BY <1>2, <1>3, <1>6, Zenon
       DEF Accepted, Accepts, Newer, check_dependencies, check_conflicts, Installed
  <2>2. Sets(tx') /\ Undoable(file, dirs, tx', suspect, torn)
    BY <1>6, Zenon DEF Sets, Undoable
  <2>3. Copies(file, staging, backup, dirs, tx')
    BY <1>6, Zenon DEF Copies
  <2>4. Began(db, tx', suspect, torn)
    <3>1. \A p \in a.files \ db[a.name].files : file[p] = Gone
      BY Zenon DEF Accepts, check_conflicts
    <3> QED BY <3>1, <1>1, <1>2, <1>6, ArchiveAssumption DEF Began, Rest
  <2> QED BY <2>1, <2>2, <2>3, <2>4, Zenon DEF Open
<1>9. Onward(file, tx')
  BY <1>6, Zenon DEF Onward
<1>10. TxInv'
  BY <1>6, <1>7, <1>8, <1>9, Zenon DEF TxInv, AllOrNothing
<1>11. Rest(file, db, suspect, torn, Busy(tx'))
  BY <1>1, <1>6, ArchiveAssumption DEF Rest, Busy, Underway
<1>12. RepoInv'
  BY <1>1, <1>6, <1>7 DEF RepoInv, RunInv
<1>13. Types'
  BY <1>1, <1>5, <1>7, Zenon DEF Types
<1> QED BY <1>1, <1>7, <1>10, <1>11, <1>12, <1>13, Zenon DEF IInv

\* The transaction of a package that may be removed.
LEMMA RemovalStarted ==
  ASSUME IInv, tx.do = "idle", NEW n \in Pkg, Removable(n),
         tx' = NewRemoval(n), Bystanders, NoFault, UNCHANGED repo,
         repo.do # "run",
         repo.do = "undo" => repo.done # <<>> /\ n = repo.done[Len(repo.done)]
  PROVE  IInv'
<1>1. /\ Types /\ Tree(file, dirs) /\ Owners(db) /\ Needs(db) /\ RepoInv
      /\ Rest(file, db, suspect, torn, "none")
  BY IdleFacts, Zenon DEF Underway
<1>2. /\ db[n] \in Record /\ db[n].files \in SUBSET Path
      /\ db[n].dirs \in SUBSET Dir
  BY <1>1, Zenon DEF Types, Record
<1>3. NoRecord \in Record /\ [p \in Path |-> Gone] \in [Path -> Datum]
  BY Zenon DEF NoRecord, Record, Datum
<1>4. tx' = [do |-> "remove", name |-> n, version |-> 0, files |-> {},
             depends |-> {}, prev |-> NoRecord, toStage |-> db[n].files,
             staged |-> {}, committed |-> {}, aside |-> {}, toStale |-> {},
             created |-> db[n].dirs, unlisted |-> {}, dirty |-> FALSE,
             file0 |-> [p \in Path |-> Gone], dirs0 |-> {}]
  BY Zenon DEF NewRemoval, NoTx
<1>5. tx' \in Tx
  <2>1. /\ "remove" \in Doing /\ n \in Pkg \cup {"none"} /\ FALSE \in BOOLEAN
        /\ {} \in SUBSET Path /\ {} \in SUBSET Dir /\ {} \in SUBSET Pkg /\ 0 \in Nat
    BY Zenon DEF Doing
  <2> QED BY <2>1, <1>2, <1>3, NoTxType, ZenonT(20) DEF NewRemoval, Tx
<1>6. tx'.do = "remove" /\ tx'.name = n /\ tx'.toStage = db[n].files
  BY <1>4
<1>7. UNCHANGED <<file, staging, backup, dirs, db, suspect, torn, kills, repo, faults>>
  BY Zenon DEF Bystanders, NoFault
<1>8. Removing(file, db, tx')
  BY <1>6, Zenon DEF Removing, Removable, Installed
<1>9. TxInv' /\ Busy(tx') = "none"
  BY <1>6, <1>7, <1>8, Zenon DEF TxInv, AllOrNothing, Underway, Busy
<1>10. RepoInv'
  BY <1>1, <1>6, <1>7, Zenon DEF RepoInv, UndoInv
<1>11. Types'
  BY <1>1, <1>5, <1>7, Zenon DEF Types
<1> QED BY <1>1, <1>7, <1>9, <1>10, <1>11, Zenon DEF IInv

\* A transaction is over and only the plan is left to account for.
LEMMA Ended ==
  ASSUME IInv, ~Underway(tx), tx' = NoTx, Bystanders, faults' = faults,
         repo' \in Plan, RepoInv'
  PROVE  IInv'
<1>1. /\ Types /\ Tree(file, dirs) /\ Owners(db) /\ Needs(db)
      /\ Rest(file, db, suspect, torn, "none")
  BY IdleFacts, Zenon
<1>2. NoTx \in Tx /\ NoTx.do = "idle"
  BY NoTxType, Zenon
<1>3. Types'
  BY <1>1, <1>2, Zenon DEF Types, Bystanders
<1>4. TxInv' /\ Busy(tx') = "none"
  BY <1>2, Zenon DEF TxInv, AllOrNothing, Underway, Busy
<1> QED BY <1>1, <1>3, <1>4, Zenon DEF IInv, Bystanders

\* A new transaction begins from a state in which nothing is under way.
LEMMA InstallFileStep == ASSUME IInv, InstallFile PROVE IInv'
<1>1. PICK a \in Archives : Accepts(a) /\ tx' = NewTransaction(a)
  BY Zenon DEF InstallFile
<1> QED BY <1>1, Started, Zenon DEF InstallFile, Idle

\* So does a removal.
LEMMA RemoveStep == ASSUME IInv, Remove PROVE IInv'
<1>1. PICK n \in Pkg : Removable(n) /\ tx' = NewRemoval(n)
  BY DEF Remove
<1> QED BY <1>1, RemovalStarted, Zenon DEF Remove, Idle

\* A transaction that has ended leaves the old state or the new one.
LEMMA ReturnStep == ASSUME IInv, Return PROVE IInv'
<1>1. repo' \in Plan /\ RepoInv'
  BY Zenon DEF Return, IInv, Types, RepoInv
<1> QED BY <1>1, Ended, Zenon DEF Return, Underway, NoFault

\* A kill at any step leaves the record and the files it promises.
LEMMA KillStep == ASSUME IInv, Kill PROVE IInv'
<1>1. /\ Types /\ Tree(file, dirs) /\ Owners(db) /\ Needs(db)
      /\ Rest(file, db, suspect, torn, Busy(tx)) /\ tx \in Tx
  BY Zenon DEF IInv, Types
<1>2. NoTx \in Tx /\ NoTx.do = "idle"
  BY NoTxType, Zenon
<1>3. NoRepo \in Plan /\ NoRepo.do = "none"
  BY DEF NoRepo, Plan, NoRecord, Record
<1>4. UNCHANGED <<file, staging, backup, dirs, db, faults>>
  BY Zenon DEF Kill
<1>5. /\ tx' = NoTx /\ repo' = NoRepo /\ kills < MaxKills /\ kills' = kills + 1
      /\ suspect' = IF Underway(tx) THEN suspect \cup {tx.name} ELSE suspect
      /\ torn' = IF Underway(tx) THEN torn \cup {tx.name} ELSE torn
  BY Zenon DEF Kill, Underway
<1>6. Underway(tx) => tx.name \in Pkg
  BY UnderwayFacts, Zenon
<1>7. suspect' \in SUBSET Pkg /\ torn' \in SUBSET Pkg /\ kills' \in 0 .. MaxKills
  <2>1. CASE Underway(tx)
    BY <2>1, <1>1, <1>5, <1>6, BoundAssumption DEF Types
  <2>2. CASE ~Underway(tx)
    BY <2>2, <1>1, <1>5, BoundAssumption DEF Types
  <2> QED BY <2>1, <2>2, Zenon
<1>8. Types'
  BY <1>1, <1>2, <1>3, <1>4, <1>5, <1>7, Zenon DEF Types
<1>9. Rest(file, db, suspect', torn', "none")
  <2>1. CASE Underway(tx)
    BY <2>1, <1>1, <1>5, Zenon DEF Rest, Busy
  <2>2. CASE ~Underway(tx)
    BY <2>2, <1>1, <1>5, Zenon DEF Rest, Busy
  <2> QED BY <2>1, <2>2, Zenon
<1>10. TxInv' /\ Busy(tx') = "none" /\ RepoInv'
  BY <1>2, <1>3, <1>5, Zenon DEF TxInv, AllOrNothing, Underway, Busy, RepoInv
<1> QED BY <1>1, <1>4, <1>8, <1>9, <1>10, Zenon DEF IInv

\* A package whose files another program changed counts as suspect from then on.
LEMMA UserFileStep == ASSUME IInv, UserFile PROVE IInv'
<1>1. PICK p \in Path :
        /\ Above[p] \subseteq dirs
        /\ file' = [file EXCEPT ![p] = IF file[p] = Gone THEN User ELSE Gone]
        /\ suspect' = suspect \cup {n \in Pkg : p \in db[n].files}
  BY Zenon DEF UserFile
<1>2. /\ UNCHANGED <<staging, backup, dirs, db, tx, repo, torn, faults, kills>>
      /\ tx.do = "idle" /\ repo.do = "none"
  BY Zenon DEF UserFile, Idle
<1>3. /\ Types /\ Tree(file, dirs) /\ Owners(db) /\ Needs(db)
      /\ Rest(file, db, suspect, torn, "none")
  BY <1>2, IdleFacts, Zenon DEF Underway
<1>4. /\ file' \in [Path -> Datum] /\ file'[p] \in {Gone, User}
      /\ \A q \in Path \ {p} : file'[q] = file[q]
  BY <1>1, <1>3, Zenon DEF Types, Datum
<1>5. Types' /\ Tree(file', dirs')
  BY <1>1, <1>2, <1>3, <1>4, Zenon DEF Types, Tree
<1>6. Rest(file', db, suspect', torn, "none")
  <2>1. file'[p][1] \notin Pkg
    BY <1>4, ArchiveAssumption DEF Gone, User
  <2>2. \A n \in Pkg : db[n].files \subseteq Path
    BY <1>3, Zenon DEF Types, Record
  <2> QED BY <2>1, <2>2, <1>1, <1>3, <1>4 DEF Rest
<1>7. TxInv' /\ Busy(tx') = "none" /\ RepoInv'
  BY <1>2, Zenon DEF TxInv, AllOrNothing, Underway, Busy, RepoInv
<1> QED BY <1>2, <1>3, <1>5, <1>6, <1>7, Zenon DEF IInv

-----------------------------------------------------------------------------
(* The plan of install_from_repository                                     *)

\* An entry of a plan is one of the entries reached, and each missing
\* dependency of an entry comes before it.
Ordered(s, k, S) ==
  /\ s \in [1 .. k -> S]
  /\ \A i, j \in 1 .. k : s[i] = s[j] => i = j
  /\ \A i \in 1 .. k : \A m \in Missing(s[i]) : \E j \in 1 .. i - 1 : s[j].name = m

\* visit lists the requested package last and before it only packages that are
\* not installed: what is not on the way from the requested one is not listed.
LEMMA RequestedLast ==
  ASSUME NEW a \in Index, NEW k \in Nat, NEW s, Ordered(s, k, Reached({a})),
         NEW i \in 1 .. k - 1
  PROVE  s[i].name \in Pkg /\ db[s[i].name] = NoRecord
<1> DEFINE S == Reached({a})
<1>0. i \in 1 .. k /\ k \in 1 .. k /\ k # i /\ \A j \in 1 .. i : j \in 1 .. k /\ j # k
  OBVIOUS
<1>1. S \subseteq Index /\ a \in S /\ s \in [1 .. k -> S]
  BY Zenon DEF Reached, Ordered
<1>2. \A b \in Index : b.name \in Pkg
  BY ArchiveAssumption, Zenon
<1>3. ASSUME NEW R \in SUBSET Index, a \in R, Closed(R) PROVE S \subseteq R
  BY <1>3, Zenon DEF Reached
<1> HIDE DEF S
<1>4. S \subseteq {b \in Index : b = a \/ b.name \notin Installed}
  <2> DEFINE R == {b \in Index : b = a \/ b.name \notin Installed}
  <2>1. Closed(R)
    BY Zenon DEF Closed, Missing
  <2> QED BY <2>1, <1>3, Zenon
<1>5. s[i] # a
  <2>1. SUFFICES ASSUME s[i] = a PROVE FALSE
    BY Zenon
  <2> DEFINE R == {s[j] : j \in 1 .. i}
  <2>2. R \in SUBSET Index /\ a \in R
    <3>1. \A j \in 1 .. i : s[j] \in Index
      BY <1>0, <1>1, Zenon
    <3> QED BY <3>1, <2>1
  <2>3. Closed(R)
    <3>1. SUFFICES ASSUME NEW c \in R, NEW b \in Index, b.name \in Missing(c) PROVE b \in R
      BY Zenon DEF Closed
    <3>2. PICK j \in 1 .. i : c = s[j]
      BY Zenon
    <3>3. PICK l \in 1 .. j - 1 : s[l].name = b.name
      BY <3>1, <3>2 DEF Ordered
    <3>4. s[l] \in Index /\ l \in 1 .. i
      <4>1. l \in 1 .. i
        OBVIOUS
      <4> QED BY <4>1, <1>0, <1>1, Zenon
    <3>5. s[l] = b
      BY <3>3, <3>4, ArchiveAssumption, Zenon
    <3> QED BY <3>4, <3>5, Zenon
  <2>4. s[k] \in R
    BY <2>2, <2>3, <1>0, <1>1, <1>3, Zenon
  <2>5. PICK j \in 1 .. i : s[k] = s[j]
    BY <2>4, Zenon
  <2> QED BY <2>5, <1>0, Zenon DEF Ordered
<1>6. s[i] \in Index /\ s[i].name \notin Installed
  BY <1>0, <1>1, <1>4, <1>5, Zenon
<1> QED BY <1>2, <1>6, Zenon DEF Installed

\* A package of the plan is done: only the last one may have had a record.
LEMMA PlanMoves ==
  ASSUME NEW q \in Plan, NEW u \in Plan, NEW r, NEW t, NEW t2, RunInv(r, t, q),
         q.todo # <<>>, NEW n \in Pkg, n = q.todo[1].name,
         t.do \in {"discard", "ok"} => n = t.name,
         t2.do = "idle", u.db0 = q.db0, u.todo = Tail(q.todo),
         u.done = Append(q.done, n)
  PROVE  RunInv(r, t2, u)
<1>1. q.todo \in Seq(Index) /\ q.done \in Seq(Pkg)
  BY Zenon DEF Plan
<1>2. /\ Len(u.todo) = Len(q.todo) - 1
      /\ \A i \in 1 .. Len(q.todo) - 1 : u.todo[i] = q.todo[i + 1]
  BY <1>1
<1>3. /\ Len(u.done) = Len(q.done) + 1 /\ u.done[Len(q.done) + 1] = n
      /\ \A i \in 1 .. Len(q.done) : u.done[i] = q.done[i]
  BY <1>1
<1>4. Len(q.todo) \in Nat \ {0} /\ Len(q.done) \in Nat
  BY <1>1
<1>5. \A i \in 1 .. Len(u.todo) - 1 : u.db0[u.todo[i].name] = NoRecord
  BY <1>2, <1>4 DEF RunInv
<1>6. u.todo # <<>> => \A i \in 1 .. Len(u.done) : u.db0[u.done[i]] = NoRecord
  <2>1. u.todo # <<>> => q.db0[n] = NoRecord
    <3>1. u.todo # <<>> => 1 \in 1 .. Len(q.todo) - 1
      BY <1>1, <1>2, <1>4
    <3> QED BY <3>1, Zenon DEF RunInv
  <2> QED BY <2>1, <1>3, <1>4 DEF RunInv
<1>7. \A m \in Pkg : (\E i \in 1 .. Len(u.done) : u.done[i] = m) \/ r[m] = u.db0[m]
  <2>1. SUFFICES ASSUME NEW m \in Pkg, m # n
                 PROVE  (\E i \in 1 .. Len(u.done) : u.done[i] = m) \/ r[m] = u.db0[m]
    BY <1>3, <1>4
  <2>2. (\E i \in 1 .. Len(q.done) : q.done[i] = m) \/ r[m] = q.db0[m]
    BY <2>1, Zenon DEF RunInv
  <2> QED BY <2>2, <1>3, <1>4
<1> QED BY <1>5, <1>6, <1>7, Zenon DEF RunInv

\* install_from_repository goes on with the next package of its plan.
LEMMA RepoNextStep == ASSUME IInv, RepoNext PROVE IInv'
<1>1. /\ Types /\ Tree(file, dirs) /\ Owners(db) /\ Needs(db) /\ RepoInv
      /\ Rest(file, db, suspect, torn, "none")
      /\ repo.do = "run" /\ tx.do = "idle" /\ repo.todo # <<>> /\ Bystanders
  BY IdleFacts, Zenon DEF RepoNext, Underway
<1> DEFINE a == repo.todo[1]
<1>2. /\ repo \in Plan /\ repo.todo \in Seq(Index) /\ repo.done \in Seq(Pkg)
      /\ RunInv(db, tx, repo)
  BY <1>1, Zenon DEF Types, Plan, RepoInv
<1>3. a \in Index /\ a \in Archives /\ a.name \in Pkg /\ a = Head(repo.todo)
  BY <1>1, <1>2, ArchiveAssumption
<1>4. \/ /\ NoFault /\ Accepts(a) /\ tx' = NewTransaction(a) /\ UNCHANGED repo
      \/ /\ NoFault /\ UNCHANGED tx
         /\ repo' = [repo EXCEPT !.todo = Tail(repo.todo),
                                 !.done = Append(repo.done, a.name)]
      \/ /\ NoFault \/ Fault
         /\ UNCHANGED tx /\ repo' = [repo EXCEPT !.do = "undo"]
  BY <1>3, Zenon DEF RepoNext
<1> HIDE DEF a
<1>5. CASE NoFault /\ Accepts(a) /\ tx' = NewTransaction(a) /\ UNCHANGED repo
  BY <1>1, <1>3, <1>5, Started, Zenon DEF a
<1>6. ASSUME UNCHANGED tx, repo' \in Plan, RepoInv', faults' \in 0 .. MaxFaults
      PROVE  IInv'
  <2>1. Types'
    BY <1>1, <1>6, Zenon DEF Types, Bystanders
  <2>2. TxInv' /\ Busy(tx') = "none"
    BY <1>1, <1>6, Zenon DEF TxInv, AllOrNothing, Underway, Busy
  <2> QED BY <2>1, <2>2, <1>1, <1>6, Zenon DEF IInv, Bystanders
<1>7. CASE /\ NoFault /\ UNCHANGED tx
           /\ repo' = [repo EXCEPT !.todo = Tail(repo.todo),
                                   !.done = Append(repo.done, a.name)]
  <2>1. /\ repo' \in Plan /\ repo'.do = "run" /\ repo'.db0 = repo.db0
        /\ repo'.todo = Tail(repo.todo) /\ repo'.done = Append(repo.done, a.name)
    <3>1. Tail(repo.todo) \in Seq(Index) /\ Append(repo.done, a.name) \in Seq(Pkg)
      BY <1>1, <1>2, <1>3
    <3>2. repo' = [repo EXCEPT !.todo = Tail(repo.todo), !.done = Append(repo.done, a.name)]
      BY <1>1, <1>7, Zenon
    <3> QED BY <3>1, <3>2, <1>1, <1>2, Zenon DEF Plan
  <2>2. RunInv(db, tx, repo')
    BY <2>1, <1>1, <1>2, <1>3, PlanMoves, Zenon DEF a
  <2>3. RepoInv'
    BY <2>1, <2>2, <1>1, <1>7, Zenon DEF RepoInv, Bystanders
  <2> QED BY <2>1, <2>3, <1>1, <1>6, <1>7, Zenon DEF NoFault, Types
<1>8. CASE /\ NoFault \/ Fault
           /\ UNCHANGED tx /\ repo' = [repo EXCEPT !.do = "undo"]
  <2>1. /\ repo' \in Plan /\ repo'.do = "undo" /\ repo'.db0 = repo.db0
        /\ repo'.done = repo.done
    BY <1>2, <1>8, Zenon DEF Plan
  <2>2. RepoInv'
    BY <2>1, <1>1, <1>2, <1>8 DEF RepoInv, RunInv, UndoInv, Bystanders
  <2>3. faults' \in 0 .. MaxFaults
    BY <1>1, <1>8, BoundAssumption DEF Types, Fault, NoFault
  <2> QED BY <2>1, <2>2, <2>3, <1>6, <1>8, Zenon
<1> QED BY <1>4, <1>5, <1>7, <1>8, Zenon

\* A package of the plan is installed and noted, or the plan has failed.
LEMMA RepoInstalledStep == ASSUME IInv, RepoInstalled PROVE IInv'
<1>1. /\ Types /\ RepoInv /\ tx \in Tx /\ repo.do = "run"
      /\ tx.do \in {"ok", "failed"} /\ ~Underway(tx) /\ tx' = NoTx
      /\ Bystanders /\ faults' = faults
      /\ repo' = IF tx.do = "ok"
                   THEN [repo EXCEPT !.todo = Tail(repo.todo),
                                     !.done = Append(repo.done, tx.name)]
                   ELSE [repo EXCEPT !.do = "undo"]
  BY IdleFacts, Zenon DEF RepoInstalled, Underway, NoFault
<1>2. /\ repo \in Plan /\ repo.todo \in Seq(Index) /\ repo.done \in Seq(Pkg)
      /\ RunInv(db, tx, repo)
  BY <1>1, Zenon DEF Types, Plan, RepoInv
<1>3. repo.todo # <<>> /\ tx.name = repo.todo[1].name /\ tx.name \in Pkg
  <2>1. repo.todo # <<>> /\ tx.name = repo.todo[1].name
    BY <1>1, <1>2, Zenon DEF RunInv
  <2>2. repo.todo[1] \in Index
    BY <2>1, <1>2
  <2> QED BY <2>1, <2>2, ArchiveAssumption, Zenon
<1>4. NoTx.do = "idle"
  BY Zenon DEF NoTx
<1>5. CASE tx.do = "ok"
  <2>1. /\ repo' \in Plan /\ repo'.do = "run" /\ repo'.db0 = repo.db0
        /\ repo'.todo = Tail(repo.todo) /\ repo'.done = Append(repo.done, tx.name)
    <3>1. Tail(repo.todo) \in Seq(Index) /\ Append(repo.done, tx.name) \in Seq(Pkg)
      BY <1>1, <1>2, <1>3
    <3>2. repo' = [repo EXCEPT !.todo = Tail(repo.todo), !.done = Append(repo.done, tx.name)]
      BY <1>1, <1>5, Zenon
    <3> QED BY <3>1, <3>2, <1>1, <1>2, Zenon DEF Plan
  <2>2. RunInv(db, NoTx, repo')
    BY <2>1, <1>2, <1>3, <1>4, PlanMoves, Zenon
  <2>3. RepoInv'
    BY <2>1, <2>2, <1>1, Zenon DEF RepoInv, Bystanders
  <2> QED BY <2>1, <2>3, <1>1, Ended, Zenon
<1>6. CASE tx.do = "failed"
  <2>1. /\ repo' \in Plan /\ repo'.do = "undo" /\ repo'.db0 = repo.db0
        /\ repo'.done = repo.done
    BY <1>1, <1>2, <1>6, Zenon DEF Plan
  <2>2. RepoInv'
    BY <2>1, <1>1, <1>2, <1>3, <1>4, <1>6 DEF RepoInv, RunInv, UndoInv, Bystanders
  <2> QED BY <2>1, <2>2, <1>1, Ended, Zenon
<1> QED BY <1>1, <1>5, <1>6, Zenon

\* A package of the plan has been taken back, or could not be.
LEMMA PlanShrinks ==
  ASSUME NEW q \in Plan, NEW u \in Plan, NEW r, NEW t, NEW t2, UndoInv(r, t, q),
         q.done # <<>>, t2.do = "idle", u.db0 = q.db0,
         u.done = SubSeq(q.done, 1, Len(q.done) - 1),
         u.dirty \/ (~q.dirty /\ r[q.done[Len(q.done)]] = NoRecord)
  PROVE  UndoInv(r, t2, u)
<1> DEFINE k == Len(q.done)
<1>1. q.done \in Seq(Pkg) /\ k \in Nat \ {0}
  BY DEF Plan
<1>2. Len(u.done) = k - 1 /\ \A i \in 1 .. k - 1 : u.done[i] = q.done[i]
  BY <1>1
<1>3. q.db0[q.done[k]] = NoRecord
  BY <1>1 DEF UndoInv
<1> HIDE DEF k
<1>4. \A i \in 1 .. Len(u.done) : u.db0[u.done[i]] = NoRecord
  BY <1>1, <1>2 DEF UndoInv, k
<1>5. ASSUME ~u.dirty, NEW n \in Pkg
      PROVE  (\E i \in 1 .. Len(u.done) : u.done[i] = n) \/ r[n] = u.db0[n]
  <2>1. r[q.done[k]] = q.db0[q.done[k]]
    BY <1>3, <1>5, Zenon DEF k
  <2>2. (\E i \in 1 .. k : q.done[i] = n) \/ r[n] = q.db0[n]
    BY <1>5, Zenon DEF UndoInv, k
  <2>3. CASE \E i \in 1 .. k : q.done[i] = n
    <3>1. PICK i \in 1 .. k : q.done[i] = n
      BY <2>3, Zenon
    <3> QED BY <3>1, <2>1, <1>1, <1>2
  <2> QED BY <2>2, <2>3, Zenon
<1> QED BY <1>4, <1>5, Zenon DEF UndoInv

\* undo_installed removes what the plan installed, the last first.
LEMMA RepoUndoStep == ASSUME IInv, RepoUndo PROVE IInv'
<1>1. /\ Types /\ Tree(file, dirs) /\ Owners(db) /\ Needs(db) /\ RepoInv
      /\ Rest(file, db, suspect, torn, "none")
      /\ repo.do = "undo" /\ tx.do = "idle" /\ repo.done # <<>>
      /\ Bystanders /\ NoFault
  BY IdleFacts, Zenon DEF RepoUndo, Underway
<1> DEFINE n == repo.done[Len(repo.done)]
<1>2. /\ repo \in Plan /\ repo.done \in Seq(Pkg) /\ n \in Pkg
      /\ UndoInv(db, tx, repo)
  BY <1>1 DEF Types, Plan, RepoInv
<1>3. IF Removable(n)
        THEN tx' = NewRemoval(n) /\ UNCHANGED repo
        ELSE /\ repo' = [repo EXCEPT !.dirty = TRUE,
                           !.done = SubSeq(repo.done, 1, Len(repo.done) - 1)]
             /\ UNCHANGED tx
  BY Zenon DEF RepoUndo
<1>4. CASE Removable(n)
  BY <1>1, <1>2, <1>3, <1>4, RemovalStarted, Zenon
<1>5. CASE ~Removable(n)
  <2>1. SubSeq(repo.done, 1, Len(repo.done) - 1) \in Seq(Pkg)
    BY <1>1, <1>2
  <2>2. /\ repo' \in Plan /\ repo'.do = "undo" /\ repo'.db0 = repo.db0
        /\ repo'.done = SubSeq(repo.done, 1, Len(repo.done) - 1) /\ repo'.dirty = TRUE
    BY <2>1, <1>1, <1>2, <1>3, <1>5, Zenon DEF Plan
  <2>3. UndoInv(db, tx, repo')
    BY <2>2, <1>1, <1>2, PlanShrinks, Zenon
  <2>4. RepoInv' /\ UNCHANGED tx
    BY <2>2, <2>3, <1>1, <1>3, <1>5, Zenon DEF RepoInv, Bystanders
  <2>5. Types'
    BY <2>2, <2>4, <1>1, Zenon DEF Types, Bystanders, NoFault
  <2>6. TxInv' /\ Busy(tx') = "none"
    BY <2>4, <1>1, Zenon DEF TxInv, AllOrNothing, Underway, Busy
  <2> QED BY <2>4, <2>5, <2>6, <1>1, Zenon DEF IInv, Bystanders
<1> QED BY <1>4, <1>5, Zenon

\* A package that has been taken back is off the list.
LEMMA RepoUndoneStep == ASSUME IInv, RepoUndone PROVE IInv'
<1>1. /\ Types /\ RepoInv /\ tx \in Tx /\ repo.do = "undo"
      /\ tx.do \in {"ok", "failed"} /\ ~Underway(tx) /\ tx' = NoTx
      /\ Bystanders /\ faults' = faults
      /\ repo' = [repo EXCEPT !.dirty = repo.dirty \/ tx.do = "failed",
                              !.done = SubSeq(repo.done, 1, Len(repo.done) - 1)]
  BY IdleFacts, Zenon DEF RepoUndone, Underway, NoFault
<1>2. /\ repo \in Plan /\ repo.done \in Seq(Pkg) /\ UndoInv(db, tx, repo)
      /\ repo.dirty \in BOOLEAN
  BY <1>1, Zenon DEF Types, Plan, RepoInv
<1>3. repo.done # <<>> /\ tx.name = repo.done[Len(repo.done)]
  BY <1>1, <1>2, Zenon DEF UndoInv
<1>4. SubSeq(repo.done, 1, Len(repo.done) - 1) \in Seq(Pkg)
  BY <1>2, <1>3
<1>5. /\ repo' \in Plan /\ repo'.do = "undo" /\ repo'.db0 = repo.db0
      /\ repo'.done = SubSeq(repo.done, 1, Len(repo.done) - 1)
      /\ repo'.dirty = (repo.dirty \/ tx.do = "failed")
  BY <1>1, <1>2, <1>4, Zenon DEF Plan
<1>6. repo'.dirty \/ (~repo.dirty /\ db[repo.done[Len(repo.done)]] = NoRecord)
  BY <1>1, <1>2, <1>3, <1>5, Zenon DEF UndoInv
<1>7. NoTx.do = "idle"
  BY DEF NoTx
<1>8. UndoInv(db, NoTx, repo')
  BY <1>2, <1>3, <1>5, <1>6, <1>7, PlanShrinks, Zenon
<1>9. RepoInv'
  BY <1>1, <1>5, <1>8, Zenon DEF RepoInv, Bystanders
<1> QED BY <1>1, <1>5, <1>9, Ended, Zenon

\* Only the plan changes: it ends, or begins.
LEMMA PlanOnly ==
  ASSUME IInv, tx.do = "idle", UNCHANGED tx, Bystanders, NoFault,
         repo' \in Plan, RepoInv'
  PROVE  IInv'
<1>1. /\ Types /\ Tree(file, dirs) /\ Owners(db) /\ Needs(db)
      /\ Rest(file, db, suspect, torn, "none")
  BY IdleFacts, Zenon DEF Underway
<1>2. Types'
  BY <1>1, Zenon DEF Types, Bystanders, NoFault
<1>3. TxInv' /\ Busy(tx') = "none"
  BY Zenon DEF TxInv, AllOrNothing, Underway, Busy
<1> QED BY <1>1, <1>2, <1>3, Zenon DEF IInv, Bystanders

\* The plan is done, or everything it installed has been taken back.
LEMMA RepoEndStep == ASSUME IInv, RepoEnd PROVE IInv'
<1>1. NoRepo \in Plan /\ NoRepo.do = "none"
  BY DEF NoRepo, Plan, NoRecord, Record
<1>2. RepoInv'
  BY <1>1, Zenon DEF RepoInv, RepoEnd
<1> QED BY <1>1, <1>2, PlanOnly, Zenon DEF RepoEnd

INSTANCE FiniteSetTheorems

\* A plan is a sequence of entries of the index.
LEMMA PlanIsOrdered ==
  ASSUME NEW a \in Index, NEW s \in hpkg_repo_plan(a)
  PROVE  /\ s \in Seq(Index)
         /\ Len(s) \in Nat /\ Ordered(s, Len(s), Reached({a}))
<1> DEFINE S == Reached({a})
           k == Cardinality(S)
<1>1. S \subseteq Index
  BY Zenon DEF Reached
<1>2. k \in Nat
  BY <1>1, ArchiveAssumption, FS_Subset, FS_CardinalityType, ZenonT(20)
<1>3. /\ s \in [1 .. k -> S]
      /\ \A i \in DOMAIN s :
           /\ \A j \in DOMAIN s : s[i] = s[j] => i = j
           /\ \A m \in Missing(s[i]) : \E j \in 1 .. i - 1 : s[j].name = m
  BY Zenon DEF hpkg_repo_plan
<1> HIDE DEF S, k
<1>4. DOMAIN s = 1 .. k /\ s \in Seq(Index) /\ Len(s) = k
  BY <1>1, <1>2, <1>3, SMTT(30)
<1> QED BY <1>2, <1>3, <1>4, Zenon DEF Ordered, S

\* A plan begins with nothing installed by it.
LEMMA InstallFromRepositoryStep == ASSUME IInv, InstallFromRepository PROVE IInv'
<1>1. PICK a \in Index : \E s \in hpkg_repo_plan(a) :
        repo' = [NoRepo EXCEPT !.do = "run", !.todo = s, !.db0 = db]
  BY Zenon DEF InstallFromRepository
<1>2. PICK s \in hpkg_repo_plan(a) :
        repo' = [NoRepo EXCEPT !.do = "run", !.todo = s, !.db0 = db]
  BY <1>1, Zenon
<1>3. s \in Seq(Index) /\ Len(s) \in Nat /\ Ordered(s, Len(s), Reached({a}))
  BY PlanIsOrdered, Zenon
<1>4. tx.do = "idle" /\ UNCHANGED tx /\ Bystanders /\ NoFault /\ db \in [Pkg -> Record]
  BY Zenon DEF InstallFromRepository, Idle, IInv, Types
<1>5. repo' = [do |-> "run", todo |-> s, done |-> <<>>, dirty |-> FALSE, db0 |-> db]
  BY <1>2, Zenon DEF NoRepo
<1>6. /\ repo' \in Plan /\ repo'.do = "run" /\ repo'.todo = s /\ repo'.done = <<>>
      /\ repo'.db0 = db
  BY <1>3, <1>4, <1>5 DEF Plan
<1>7. \A i \in 1 .. Len(s) - 1 : db[s[i].name] = NoRecord
  BY <1>3, RequestedLast, Zenon
<1>8. RunInv(db, tx, repo')
  BY <1>4, <1>6, <1>7 DEF RunInv
<1>9. RepoInv'
  BY <1>4, <1>6, <1>8, Zenon DEF RepoInv, Bystanders
<1> QED BY <1>4, <1>6, <1>9, PlanOnly, Zenon

-----------------------------------------------------------------------------
(* The invariant and the properties                                        *)

\* The invariant holds on an empty system.
LEMMA InitHolds == ASSUME Init PROVE IInv
<1>1. NoTx \in Tx /\ NoTx.do = "idle"
  BY NoTxType, Zenon
<1>2. NoRepo \in Plan /\ NoRepo.do = "none"
  BY DEF NoRepo, Plan, NoRecord, Record
<1>3. /\ file \in [Path -> Datum] /\ staging \in [Path -> Datum]
      /\ backup \in [Path -> Datum]
  BY Zenon DEF Init, Datum
<1>4. db \in [Pkg -> Record] /\ \A n \in Pkg : db[n] = NoRecord
  BY Zenon DEF Init, NoRecord, Record
<1>5. 0 \in 0 .. MaxFaults /\ 0 \in 0 .. MaxKills
  BY BoundAssumption
<1>6. Types
  BY <1>1, <1>2, <1>3, <1>4, <1>5 DEF Types, Init
<1>7. Tree(file, dirs)
  BY Zenon DEF Tree, Init
<1>8. Owners(db) /\ Needs(db)
  BY <1>4 DEF Owners, Needs, NoRecord
<1>9. Rest(file, db, suspect, torn, Busy(tx))
  <2>1. \A p \in Path : file[p][1] \notin Pkg
    BY ArchiveAssumption, Zenon DEF Init, Gone
  <2> QED BY <2>1, <1>4 DEF Rest, NoRecord
<1>10. TxInv /\ RepoInv
  BY <1>1, <1>2, Zenon DEF Init, TxInv, AllOrNothing, Underway, RepoInv
<1> QED BY <1>6, <1>7, <1>8, <1>9, <1>10 DEF IInv

\* Every step of hpkg and of its surroundings preserves the invariant.
LEMMA NextHolds == ASSUME IInv, [Next]_vars PROVE IInv'
<1>1. CASE UNCHANGED vars
  BY <1>1, Zenon DEF vars, IInv, Types, TxInv, AllOrNothing, RepoInv
<1>2. CASE Next
  BY <1>2, InstallFileStep, RemoveStep, ReturnStep, MakeParentStep, StageFileStep,
     CommitAsideStep, CommitFileStep, StaleAsideStep, WriteRecordStep,
     DiscardBackupStep, UndoStaleStep, UndoCommittedStep, UndoAsideStep,
     UndoStagedStep, UndoDirectoryStep, RemoveFileStep, RemoveDirectoryStep,
     RemoveRecordStep, InstallFromRepositoryStep, RepoNextStep,
     RepoInstalledStep, RepoUndoStep, RepoUndoneStep, RepoEndStep, KillStep,
     UserFileStep, ZenonT(20) DEF Next
<1> QED BY <1>1, <1>2, Zenon

\* IInv is an inductive invariant of the package manager.
THEOREM Inductive == Spec => []IInv
BY InitHolds, NextHolds, PTL DEF Spec

\* What the invariant says about failed installations.
LEMMA FailureUndoneHolds == ASSUME IInv PROVE FailureUndone
<1>1. AllOrNothing
  BY DEF IInv, TxInv
<1>2. ASSUME repo.do = "undo", repo.done = <<>>, ~repo.dirty PROVE db = repo.db0
  <2>1. db \in [Pkg -> Record] /\ repo.db0 \in [Pkg -> Record]
    BY Zenon DEF IInv, Types, Plan
  <2>2. \A n \in Pkg : db[n] = repo.db0[n]
    BY <1>2 DEF IInv, RepoInv, UndoInv
  <2> QED BY <2>1, <2>2
<1> QED BY <1>1, <1>2, Zenon DEF FailureUndone, PlanUndone

\* What it says about records and files.
LEMMA RecordsTrueHolds == ASSUME IInv PROVE RecordsTrue
<1>1. ASSUME Underway(tx), NEW p \in tx.prev.files
      PROVE  tx.file0[p] \in {Gone, file[p], backup[p]}
  <2>1. Copies(file, staging, backup, dirs, tx)
    BY <1>1, UnderwayFacts, Zenon DEF Mid, Open
  <2> QED BY <2>1, <1>1, Zenon DEF Copies
<1>2. OldKept
  BY <1>1, Zenon DEF OldKept, Installing, Underway
<1>3. RecordExact
  BY ArchiveAssumption DEF RecordExact, IInv, Rest, Busy, Underway, Installed
<1>4. NoOrphans
  BY ArchiveAssumption DEF NoOrphans, IInv, Rest, Busy
<1> QED BY <1>2, <1>3, <1>4, Zenon DEF RecordsTrue

\* What it says about dependencies and ownership.
LEMMA DatabaseSoundHolds == ASSUME IInv PROVE DatabaseSound
<1>1. TypeOK
  <2>1. Types /\ Tree(file, dirs)
    BY Zenon DEF IInv
  <2>2. /\ tx.do \in Doing /\ tx.name \in Pkg \cup {"none"}
        /\ tx.toStage \cup tx.staged \cup tx.committed \subseteq Path
        /\ tx.aside \cup tx.toStale \subseteq Path
        /\ tx.created \subseteq Dir
    BY <2>1, TxFields DEF Types, TxTypes
  <2>3. repo.do \in {"none", "run", "undo"}
    BY <2>1, Zenon DEF Types, Plan
  <2> QED BY <2>1, <2>2, <2>3 DEF TypeOK, Types, Tree
<1>2. OwnedOnce
  BY Zenon DEF OwnedOnce, IInv, Owners
<1>3. DependsMet
  BY Zenon DEF DependsMet, IInv, Needs, Installed, Types, Record
<1> QED BY <1>1, <1>2, <1>3 DEF DatabaseSound

\* Whatever system call of hpkg_store_install fails, when roll_back could do
\* all it tried the files in place are the ones it found, and the directories
\* too but for one that make_parents could not list; and when undo_installed
\* could remove all it tried the database is the one the plan found.
THEOREM FailuresAreUndone == Spec => []FailureUndone
BY Inductive, FailureUndoneHolds, PTL

\* Between any two system calls of hpkg, so wherever it is killed: the old
\* files are kept until the new record is written, an installed package has
\* the files its record lists, and no file of a package is without a record,
\* but for the packages an earlier failure or kill left in doubt.
THEOREM RecordsAreTrue == Spec => []RecordsTrue
BY Inductive, RecordsTrueHolds, PTL

\* check_conflicts, check_dependencies, the planner and undo_installed keep one
\* owner to a file and every dependency installed.
THEOREM DatabaseIsSound == Spec => []DatabaseSound
BY Inductive, DatabaseSoundHolds, PTL

\* hpkg changes no file that no package owns, not in a failed or killed
\* installation either.
THEOREM LeavesUserFiles == Spec => UserFilesKept
<1>1. ASSUME IInv, [Next]_vars, NEW p \in Path \ Owned, ~Idle, file[p] = User
      PROVE  file'[p] = User
  <2> DEFINE Same == file'[p] = file[p]
  <2>1. /\ Types /\ (Underway(tx) => Accepted(db, tx) /\ Sets(tx))
        /\ (tx.do = "remove" => Removing(file, db, tx))
    BY <1>1, Zenon DEF IInv, TxInv, Open
  <2>2. \A n \in Pkg : p \notin db[n].files
    BY <1>1, Zenon DEF Owned
  <2>3. file \in [Path -> Datum] /\ p \in Path
    BY <2>1, Zenon DEF Types
  <2>4. Underway(tx) => p \notin tx.prev.files
    BY <2>1, <2>2 DEF Accepted
  <2>5. ASSUME NEW q, NEW t, q # p, MoveAside(q, t) PROVE Same
    BY <2>3, <2>5, Zenon DEF MoveAside
  <2>6. ASSUME NEW q, q # p, Restore(q) PROVE Same
    BY <2>3, <2>6 DEF Restore, UndoStep
  <2>7. CASE CommitAside
    <3>1. PICK q \in tx.staged : q \in tx.prev.files /\ MoveAside(q, tx)
      BY <2>7 DEF CommitAside
    <3> QED BY <3>1, <2>4, <2>5, <2>7, <1>1 DEF CommitAside, Committing, Installing, Underway
  <2>8. CASE StaleAside
    <3>1. Underway(tx)
      BY <2>8, Zenon DEF StaleAside, Staling, Installing, Underway
    <3>2. PICK q \in tx.toStale :
            LET t == [tx EXCEPT !.toStale = tx.toStale \ {q}] IN
            MoveAside(q, t) \/ UNCHANGED file
      BY <2>8, Zenon DEF StaleAside
    <3>3. q # p
      BY <3>1, <2>1, <2>4 DEF Sets
    <3> QED BY <3>2, <3>3, <2>5, <1>1, Zenon
  <2>9. CASE CommitFile
    <3>1. /\ Underway(tx) /\ Installing
          /\ Onward(file, tx) /\ Undoable(file, dirs, tx, suspect, torn)
          /\ Began(db, tx, suspect, torn)
      BY <2>9, <1>1 DEF CommitFile, Committing, Installing, Underway, IInv, TxInv, Open
    <3>2. PICK q \in tx.staged :
            file' = [file EXCEPT ![q] = staging[q]] \/ UNCHANGED file
      BY <2>9, Zenon DEF CommitFile
    <3>3. q # p
      <4>1. SUFFICES ASSUME p \in tx.staged PROVE FALSE
        BY Zenon
      <4>2. p \in tx.files /\ p \notin tx.committed /\ p \notin tx.aside
        BY <4>1, <3>1, <2>1, <2>4 DEF Sets
      <4>3. file[p] = tx.file0[p]
        BY <4>2, <3>1, <1>1 DEF Undoable, Onward
      <4>4. tx.file0[p] = Gone
        BY <4>2, <3>1, <2>4, Zenon DEF Began
      <4> QED BY <4>3, <4>4, <1>1 DEF Gone, User
    <3> QED BY <3>2, <3>3, <2>3, <1>1
  <2>10. CASE UndoStale \/ UndoAside
    <3>1. PICK q \in tx.aside : Restore(q)
      BY <2>10, Zenon DEF UndoStale, UndoAside, StaleToUndo
    <3>2. q # p
      BY <2>10, <2>1, <2>4 DEF Sets, UndoStale, UndoAside, Underway
    <3> QED BY <3>1, <3>2, <2>6, <1>1
  <2>11. CASE UndoCommitted
    <3>1. PICK q \in tx.committed : file' = [file EXCEPT ![q] = Gone] \/ UNCHANGED file
      BY <2>11 DEF UndoCommitted, UndoStep
    <3>2. file[q] = Data(tx) /\ tx.name \in Pkg
      BY <2>11, <1>1, UnderwayFacts, Zenon DEF UndoCommitted, Underway, Mid, Open, Copies
    <3>3. q # p
      BY <3>2, <1>1, ArchiveAssumption DEF Data, User
    <3> QED BY <3>1, <3>3, <2>3, <1>1, Zenon
  <2>12. CASE RemoveFile
    <3>1. PICK q \in tx.toStage : file' = [file EXCEPT ![q] = Gone] \/ UNCHANGED file
      BY <2>12, Zenon DEF RemoveFile
    <3>2. q # p
      BY <2>12, <2>1, <2>2, Zenon DEF RemoveFile, Removing
    <3> QED BY <3>1, <3>2, <2>3, <1>1
  <2>13. CASE UNCHANGED file
    BY <2>13, <1>1
  <2>14. \/ CommitAside \/ StaleAside \/ CommitFile \/ UndoStale \/ UndoAside
         \/ UndoCommitted \/ RemoveFile \/ UNCHANGED file
    BY <1>1, Zenon DEF Next, vars, Bystanders, InstallFile, Remove, Return, MakeParent,
       StageFile, WriteRecord, DiscardBackup, UndoStaged, UndoDirectory,
       RemoveDirectory, RemoveRecord, InstallFromRepository, RepoNext,
       RepoInstalled, RepoUndo, RepoUndone, RepoEnd, Kill, UserFile
  <2> QED BY <2>7, <2>8, <2>9, <2>10, <2>11, <2>12, <2>13, <2>14
<1>2. IInv /\ [Next]_vars =>
        [\A p \in Path \ Owned : ~Idle /\ file[p] = User => file'[p] = User]_vars
  BY <1>1
<1> QED BY <1>2, Inductive, PTL DEF Spec, UserFilesKept

\* hpkg_store_remove unlinks the record when no file of the package is left,
\* and hpkg_store_install replaces it only by that of a newer version.
THEOREM RecordGoesLast == Spec => RecordLast
<1>1. ASSUME IInv, [Next]_vars, NEW n \in Installed
      PROVE  \/ db'[n] = db[n]
             \/ db'[n] = NoRecord /\ \A p \in db[n].files : file[p] = Gone
             \/ db'[n].version > db[n].version
  <2>1. n \in Pkg /\ db \in [Pkg -> Record]
    BY <1>1, Zenon DEF Installed, IInv, Types
  <2>2. CASE UNCHANGED db
    BY <2>2
  <2>3. CASE WriteRecord
    <3>1. Accepted(db, tx)
      BY <2>3, <1>1, UnderwayFacts DEF WriteRecord, Recording, Installing, Underway, Mid, Open
    <3>2. UNCHANGED db \/ db' = [db EXCEPT ![tx.name] = NewRecord]
      BY <2>3, Zenon DEF WriteRecord
    <3>3. NewRecord.version = tx.version
      BY DEF NewRecord
    <3> QED BY <3>1, <3>2, <3>3, <2>1, Zenon DEF Accepted
  <2>4. CASE RemoveRecord
    <3>1. Removing(file, db, tx) /\ tx.toStage = {}
      BY <2>4, <1>1, RemovingFacts DEF RemoveRecord
    <3>2. UNCHANGED db \/ db' = [db EXCEPT ![tx.name] = NoRecord]
      BY <2>4, Zenon DEF RemoveRecord
    <3> QED BY <3>1, <3>2, <2>1, Zenon DEF Removing
  <2>5. WriteRecord \/ RemoveRecord \/ UNCHANGED db
    BY <1>1, ZenonT(30)
       DEF Next, vars, Bystanders, InstallFile, Remove, Return, MakeParent,
       StageFile, CommitAside, CommitFile, StaleAside, DiscardBackup, UndoStale,
       UndoCommitted, UndoAside, Restore, UndoStaged, UndoDirectory, RemoveFile,
       RemoveDirectory, InstallFromRepository, RepoNext, RepoInstalled, RepoUndo,
       RepoUndone, RepoEnd, Kill, UserFile
  <2> QED BY <2>2, <2>3, <2>4, <2>5
<1>2. IInv /\ [Next]_vars =>
        [\A n \in Installed :
           \/ db'[n] = db[n]
           \/ db'[n] = NoRecord /\ \A p \in db[n].files : file[p] = Gone
           \/ db'[n].version > db[n].version]_vars
  BY <1>1, Zenon
<1> QED BY <1>2, Inductive, PTL DEF Spec, RecordLast
=============================================================================
