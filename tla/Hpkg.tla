-------------------------------- MODULE Hpkg --------------------------------
(***************************************************************************)
(* The package manager of src/userspace/hpkg: the database and the files   *)
(* on disk (store.c), the commands (main.c) and the planner of repository  *)
(* installations (repo.c).  One step is one system call that changes the   *)
(* disk; any of them may fail, and the process may be killed between two.  *)
(*                                                                         *)
(* A path is a number, in the order of hpkg_path_compare, and so is a      *)
(* directory; the data of a file is the package and version it came from.  *)
(* A depends list is a set.                                                *)
(***************************************************************************)
EXTENDS Integers, Sequences, FiniteSets

CONSTANTS
  Pkg,        \* package names
  Path,       \* paths of files, numbers
  Dir,        \* directories that may have to be created, numbers
  Above,      \* [Path \cup Dir -> SUBSET Dir]: the directories above a name
  Archives,   \* the package files at hand
  Index,      \* the ones the repository index lists, one for a name
  MaxFaults,  \* bound on the failing system calls
  MaxKills    \* bound on the kills of hpkg

Gone == <<"none", 0>>
User == <<"user", 0>>
Partial == <<"partial", 0>>
NoRecord == [version |-> 0, files |-> {}, depends |-> {}, dirs |-> {}]

Data(a) == <<a.name, a.version>>

ASSUME PathAssumption ==
  /\ Path \subseteq Nat /\ Dir \subseteq Nat
  /\ Above \in [Path \cup Dir -> SUBSET Dir]
  /\ \A d \in Dir : \A e \in Above[d] : e < d
  /\ \A x \in Path \cup Dir : \A d \in Above[x] : Above[d] \subseteq Above[x]

ASSUME ArchiveAssumption ==
  /\ Archives \subseteq
       [name : Pkg, version : Nat \ {0}, files : SUBSET Path, depends : SUBSET Pkg]
  /\ Index \subseteq Archives /\ IsFiniteSet(Index)
  /\ \A a, b \in Index : a.name = b.name => a = b
  /\ Pkg \cap {"none", "user", "partial"} = {}

ASSUME BoundAssumption == MaxFaults \in Nat /\ MaxKills \in Nat

VARIABLES
  file,      \* [Path -> data]: the files in place
  staging,   \* [Path -> data]: the same names with .hpkg-new
  backup,    \* [Path -> data]: the same names with .hpkg-old
  dirs,      \* the directories that exist
  db,        \* [Pkg -> record], NoRecord when not installed
  tx,        \* the hpkg_store_install or hpkg_store_remove under way
  repo,      \* the install_from_repository under way
  suspect,   \* packages whose files need not match their record
  torn,      \* packages with an installation cut short and not undone
  faults, kills

disk == <<file, staging, backup, dirs, db>>
vars == <<file, staging, backup, dirs, db, tx, repo, suspect, torn, faults, kills>>

Datum == {Gone, User, Partial} \cup (Pkg \X Nat)
Installed == {n \in Pkg : db[n] # NoRecord}
Owned == UNION {db[n].files : n \in Pkg}

\* The Transaction of store.c, with what is left to do.  staged holds the
\* entries staged and not yet moved into place, unlisted a directory that was
\* made and could not be listed, file0 and dirs0 the files and the directories
\* at the start, dirty that something on the lists could not be undone.
NoTx ==
  [do |-> "idle", name |-> "none", version |-> 0, files |-> {}, depends |-> {},
   prev |-> NoRecord, toStage |-> {}, staged |-> {}, committed |-> {},
   aside |-> {}, toStale |-> {}, created |-> {}, unlisted |-> {}, dirty |-> FALSE,
   file0 |-> [p \in Path |-> Gone], dirs0 |-> {}]

NoRepo == [do |-> "none", todo |-> <<>>, done |-> <<>>, dirty |-> FALSE,
           db0 |-> [n \in Pkg |-> NoRecord]]

Init ==
  /\ file = [p \in Path |-> Gone]
  /\ staging = [p \in Path |-> Gone]
  /\ backup = [p \in Path |-> Gone]
  /\ dirs \in {D \in SUBSET Dir : \A d \in D : Above[d] \subseteq D}
  /\ db = [n \in Pkg |-> NoRecord]
  /\ tx = NoTx
  /\ repo = NoRepo
  /\ suspect = {}
  /\ torn = {}
  /\ faults = 0
  /\ kills = 0

\* A system call fails: a bounded number of them do.
Fault == faults < MaxFaults /\ faults' = faults + 1
NoFault == UNCHANGED faults

Least(S, x) == x \in S /\ \A y \in S : x <= y
Greatest(S, x) == x \in S /\ \A y \in S : y <= x

-----------------------------------------------------------------------------
(* hpkg_store_install                                                      *)

check_dependencies(a) == a.name \notin a.depends /\ a.depends \subseteq Installed

\* Mutant: only the database is looked at.
check_conflicts_Owners(a) ==
  \A p \in a.files : \A n \in Pkg \ {a.name} : p \notin db[n].files

\* Mutant: only the disk is looked at.
check_conflicts_Disk(a) ==
  \A p \in a.files : p \in db[a.name].files \/ file[p] = Gone

\* No entry belongs to another package, or exists without belonging to the
\* package being replaced.
check_conflicts(a) ==
  \A p \in a.files :
    /\ \A n \in Pkg \ {a.name} : p \notin db[n].files
    /\ p \in db[a.name].files \/ file[p] = Gone

\* install_archive: not installed, or installed in an older version.
Newer(a) == a.version > db[a.name].version

Accepts(a) == Newer(a) /\ check_dependencies(a) /\ check_conflicts(a)

NewTransaction(a) ==
  [NoTx EXCEPT !.do = "install", !.name = a.name, !.version = a.version,
               !.files = a.files, !.depends = a.depends, !.prev = db[a.name],
               !.toStage = a.files, !.toStale = db[a.name].files \ a.files,
               !.file0 = file, !.dirs0 = dirs]

Installing == tx.do = "install"
Staging == Installing /\ tx.toStage # {}
Committing == Installing /\ tx.toStage = {} /\ tx.staged # {}
Staling == Installing /\ tx.toStage = {} /\ tx.staged = {} /\ tx.toStale # {}

Recording == Installing /\ tx.toStage = {} /\ tx.staged = {} /\ tx.toStale = {}

NothingToUndo(t) == t.staged \cup t.committed \cup t.aside \cup t.created = {}

\* The rest of roll_back, or the return when there is no rest.
RollBack(t) == [t EXCEPT !.do = IF NothingToUndo(t) THEN "failed" ELSE "undo"]

\* make_parents for the next entry: one missing directory, outermost first.
\* When directory_list_add fails the directory is there, and roll_back does not
\* know of it.
MakeParent ==
  /\ Staging
  /\ \E p \in tx.toStage : \E d \in Dir :
       /\ Least(tx.toStage, p)
       /\ Least(Above[p] \ dirs, d)
       /\ \/ /\ NoFault
             /\ dirs' = dirs \cup {d}
             /\ tx' = [tx EXCEPT !.created = tx.created \cup {d}]
          \/ /\ Fault
             /\ UNCHANGED dirs
             /\ tx' = RollBack(tx)
          \/ /\ Fault
             /\ dirs' = dirs \cup {d}
             /\ tx' = RollBack([tx EXCEPT !.unlisted = tx.unlisted \cup {d}])
  /\ UNCHANGED <<file, staging, backup, db, repo, suspect, torn, kills>>

\* hpkg_write_file of the next entry under its staging name.  It fails before
\* the file is there, or after, and then the unlink may fail as well.
StageFile ==
  /\ Staging
  /\ \E p \in tx.toStage :
       /\ Least(tx.toStage, p)
       /\ Above[p] \subseteq dirs
       /\ \/ /\ NoFault
             /\ staging' = [staging EXCEPT ![p] = Data(tx)]
             /\ tx' = [tx EXCEPT !.toStage = tx.toStage \ {p},
                                 !.staged = tx.staged \cup {p}]
          \/ /\ Fault
             /\ \E c \in {staging[p], Gone, Partial} :
                  staging' = [staging EXCEPT ![p] = c]
             /\ tx' = RollBack(tx)
  /\ UNCHANGED <<file, backup, dirs, db, repo, suspect, torn, kills>>

\* move_aside of a path of the previous version that is there.
MoveAside(p, t) ==
  \/ /\ NoFault
     /\ backup' = [backup EXCEPT ![p] = file[p]]
     /\ file' = [file EXCEPT ![p] = Gone]
     /\ tx' = [t EXCEPT !.aside = t.aside \cup {p}]
  \/ /\ Fault
     /\ UNCHANGED <<file, backup>>
     /\ tx' = RollBack(tx)

\* commit_files, the entry it is at: the old file moves aside (there is
\* nothing to move when the rename finds no file).
CommitAside ==
  /\ Committing
  /\ \E p \in tx.staged :
       /\ Least(tx.staged, p)
       /\ p \in tx.prev.files /\ file[p] # Gone
       /\ MoveAside(p, tx)
  /\ UNCHANGED <<staging, dirs, db, repo, suspect, torn, kills>>

\* Mutant: the staged file may replace an old one that was not moved aside.
CommitFile_Over ==
  /\ Committing
  /\ \E p \in tx.staged :
       /\ Least(tx.staged, p)
       /\ NoFault
       /\ file' = [file EXCEPT ![p] = staging[p]]
       /\ staging' = [staging EXCEPT ![p] = Gone]
       /\ tx' = [tx EXCEPT !.staged = tx.staged \ {p},
                           !.committed = tx.committed \cup {p}]
  /\ UNCHANGED <<backup, dirs, db, repo, suspect, torn, kills>>

\* commit_files, the entry it is at: the staged file moves into place.
CommitFile ==
  /\ Committing
  /\ \E p \in tx.staged :
       /\ Least(tx.staged, p)
       /\ p \in tx.prev.files => file[p] = Gone
       /\ \/ /\ NoFault
             /\ file' = [file EXCEPT ![p] = staging[p]]
             /\ staging' = [staging EXCEPT ![p] = Gone]
             /\ tx' = [tx EXCEPT !.staged = tx.staged \ {p},
                                 !.committed = tx.committed \cup {p}]
          \/ /\ Fault
             /\ UNCHANGED <<file, staging>>
             /\ tx' = RollBack(tx)
  /\ UNCHANGED <<backup, dirs, db, repo, suspect, torn, kills>>

\* commit_files, its second loop: a file the new version no longer has.
StaleAside ==
  /\ Staling
  /\ \E p \in tx.toStale :
       LET t == [tx EXCEPT !.toStale = tx.toStale \ {p}] IN
       /\ Least(tx.toStale, p)
       /\ IF file[p] # Gone
            THEN MoveAside(p, t)
            ELSE tx' = t /\ NoFault /\ UNCHANGED <<file, backup>>
  /\ UNCHANGED <<staging, dirs, db, repo, suspect, torn, kills>>

NewRecord ==
  [version |-> tx.version, files |-> tx.files, depends |-> tx.depends,
   dirs |-> tx.prev.dirs \cup tx.created]

\* write_new_record and store_record: the record is written under a temporary
\* name, which hpkg_store_load_all skips, and takes effect with the rename.
WriteRecord ==
  /\ Recording
  /\ \/ /\ NoFault
        /\ db' = [db EXCEPT ![tx.name] = NewRecord]
        /\ tx' = [tx EXCEPT !.do = IF tx.aside = {} THEN "ok" ELSE "discard"]
        /\ suspect' = suspect \ {tx.name}
     \/ /\ Fault
        /\ tx' = RollBack(tx)
        /\ UNCHANGED <<db, suspect>>
  /\ UNCHANGED <<file, staging, backup, dirs, repo, torn, kills>>

\* discard_backups: one of them, those of entries first; a failure is only
\* reported.
DiscardBackup ==
  /\ tx.do = "discard"
  /\ \E p \in tx.aside :
       /\ \/ Least(tx.aside \cap tx.files, p)
          \/ tx.aside \cap tx.files = {} /\ Least(tx.aside, p)
       /\ \/ NoFault /\ backup' = [backup EXCEPT ![p] = Gone]
          \/ Fault /\ UNCHANGED backup
       /\ tx' = [tx EXCEPT !.aside = tx.aside \ {p},
                           !.do = IF tx.aside = {p} THEN "ok" ELSE "discard"]
  /\ UNCHANGED <<file, staging, dirs, db, repo, suspect, torn, kills>>

-----------------------------------------------------------------------------
(* roll_back                                                               *)

StaleToUndo == tx.aside \ tx.files
EntriesToUndo == tx.staged \cup tx.committed \cup (tx.aside \cap tx.files)

\* One rename or unlink of roll_back: done is what it does to the disk, t what
\* is left.  When it fails, roll_back goes on and is incomplete.
UndoStep(done, same, t) ==
  \/ /\ NoFault /\ done
     /\ tx' = RollBack(t)
     /\ UNCHANGED <<suspect, torn>>
  \/ /\ Fault /\ same
     /\ tx' = RollBack([t EXCEPT !.dirty = TRUE])
     /\ suspect' = suspect \cup {tx.name}
     /\ torn' = torn \cup {tx.name}

\* The backup of a path goes back to its place.
Restore(p) ==
  /\ UndoStep(/\ file' = [file EXCEPT ![p] = backup[p]]
              /\ backup' = [backup EXCEPT ![p] = Gone],
              UNCHANGED <<file, backup>>,
              [tx EXCEPT !.aside = tx.aside \ {p}])
  /\ UNCHANGED <<staging, dirs, db, repo, kills>>

UndoStale ==
  /\ tx.do = "undo"
  /\ \E p \in StaleToUndo : Greatest(StaleToUndo, p) /\ Restore(p)

UndoCommitted ==
  /\ tx.do = "undo" /\ StaleToUndo = {}
  /\ \E p \in tx.committed :
       /\ Greatest(EntriesToUndo, p)
       /\ UndoStep(file' = [file EXCEPT ![p] = Gone], UNCHANGED file,
                   [tx EXCEPT !.committed = tx.committed \ {p}])
  /\ UNCHANGED <<staging, backup, dirs, db, repo, kills>>

UndoAside ==
  /\ tx.do = "undo" /\ StaleToUndo = {}
  /\ \E p \in tx.aside \ tx.committed :
       Greatest(EntriesToUndo, p) /\ Restore(p)

UndoStaged ==
  /\ tx.do = "undo" /\ StaleToUndo = {}
  /\ \E p \in tx.staged \ tx.aside :
       /\ Greatest(EntriesToUndo, p)
       /\ UndoStep(staging' = [staging EXCEPT ![p] = Gone], UNCHANGED staging,
                   [tx EXCEPT !.staged = tx.staged \ {p}])
  /\ UNCHANGED <<file, backup, dirs, db, repo, kills>>

\* Nothing is left in directory d: no file under any of its names, no directory.
Empty(d) ==
  /\ \A p \in Path :
       d \in Above[p] => file[p] = Gone /\ staging[p] = Gone /\ backup[p] = Gone
  /\ \A e \in dirs : d \notin Above[e]

\* The rmdir of a directory the installation created; it fails when a leftover
\* is in it.
UndoDirectory ==
  /\ tx.do = "undo" /\ StaleToUndo = {} /\ EntriesToUndo = {}
  /\ \E d \in tx.created :
       LET t == [tx EXCEPT !.created = tx.created \ {d}] IN
       /\ Greatest(tx.created, d)
       /\ \/ NoFault /\ Empty(d) /\ dirs' = dirs \ {d} /\ tx' = RollBack(t)
          \/ /\ (~Empty(d) /\ NoFault) \/ Fault
             /\ UNCHANGED dirs
             /\ tx' = RollBack([t EXCEPT !.dirty = TRUE])
  /\ UNCHANGED <<file, staging, backup, db, repo, suspect, torn, kills>>

-----------------------------------------------------------------------------
(* hpkg_store_remove.  Its transaction uses toStage for the files and      *)
(* created for the directories still to be removed.                        *)

Removable(n) == n \in Installed /\ \A m \in Pkg \ {n} : n \notin db[m].depends

NewRemoval(n) ==
  [NoTx EXCEPT !.do = "remove", !.name = n, !.toStage = db[n].files,
               !.created = db[n].dirs]

\* The unlink of one file; one that is not there is passed over.  On a failure
\* the package stays in the database.
RemoveFile ==
  /\ tx.do = "remove"
  /\ \E p \in tx.toStage :
       /\ Least(tx.toStage, p)
       /\ \/ /\ NoFault
             /\ file' = [file EXCEPT ![p] = Gone]
             /\ tx' = [tx EXCEPT !.toStage = tx.toStage \ {p}]
             /\ suspect' = suspect \cup {tx.name}
          \/ /\ Fault
             /\ tx' = [tx EXCEPT !.do = "failed", !.dirty = TRUE]
             /\ UNCHANGED <<file, suspect>>
  /\ UNCHANGED <<staging, backup, dirs, db, repo, torn, kills>>

\* The rmdir of one directory, innermost first; it stays when something is in it.
RemoveDirectory ==
  /\ tx.do = "remove" /\ tx.toStage = {}
  /\ \E d \in tx.created :
       /\ Greatest(tx.created, d)
       /\ \/ NoFault /\ dirs' = IF Empty(d) THEN dirs \ {d} ELSE dirs
          \/ Fault /\ UNCHANGED dirs
       /\ tx' = [tx EXCEPT !.created = tx.created \ {d}]
  /\ UNCHANGED <<file, staging, backup, db, repo, suspect, torn, kills>>

\* Mutant: the record goes while files are still there.
RemoveRecord_First ==
  /\ tx.do = "remove" /\ NoFault
  /\ db' = [db EXCEPT ![tx.name] = NoRecord]
  /\ tx' = [tx EXCEPT !.do = "ok"]
  /\ suspect' = suspect \ {tx.name}
  /\ UNCHANGED <<file, staging, backup, dirs, repo, torn, kills>>

\* The unlink of the record, last.
RemoveRecord ==
  /\ tx.do = "remove" /\ tx.toStage = {} /\ tx.created = {}
  /\ \/ /\ NoFault
        /\ db' = [db EXCEPT ![tx.name] = NoRecord]
        /\ tx' = [tx EXCEPT !.do = "ok"]
        /\ suspect' = suspect \ {tx.name}
     \/ /\ Fault
        /\ tx' = [tx EXCEPT !.do = "failed", !.dirty = TRUE]
        /\ UNCHANGED <<db, suspect>>
  /\ UNCHANGED <<file, staging, backup, dirs, repo, torn, kills>>

-----------------------------------------------------------------------------
(* The commands: install_file, command_remove, install_from_repository     *)

Idle == tx.do = "idle" /\ repo.do = "none"
Bystanders == UNCHANGED <<file, staging, backup, dirs, db, suspect, torn, kills>>

\* hpkg install of an archive; refused, it changes nothing.
InstallFile ==
  /\ Idle
  /\ \E a \in Archives : Accepts(a) /\ tx' = NewTransaction(a)
  /\ Bystanders /\ NoFault /\ UNCHANGED repo

\* hpkg remove
Remove ==
  /\ Idle
  /\ \E n \in Pkg : Removable(n) /\ tx' = NewRemoval(n)
  /\ Bystanders /\ NoFault /\ UNCHANGED repo

Return ==
  /\ tx.do \in {"ok", "failed"} /\ repo.do = "none"
  /\ tx' = NoTx
  /\ Bystanders /\ NoFault /\ UNCHANGED repo

\* The entries hpkg_repo_plan reaches from S: the least set that has those of
\* the dependencies that are not installed.
Missing(a) == a.depends \ Installed
Closed(R) == \A a \in R, b \in Index : b.name \in Missing(a) => b \in R
Reached(S) == {b \in Index : \A R \in SUBSET Index : S \subseteq R /\ Closed(R) => b \in R}

\* The orders visit can produce for a: every missing dependency is listed and
\* comes first.  There is none when one is not in the index or on a cycle.
hpkg_repo_plan(a) ==
  LET S == Reached({a}) IN
  {s \in [1 .. Cardinality(S) -> S] :
     \A i \in DOMAIN s :
       /\ \A j \in DOMAIN s : s[i] = s[j] => i = j
       /\ \A m \in Missing(s[i]) : \E j \in 1 .. i - 1 : s[j].name = m}

\* hpkg install of a name.
InstallFromRepository ==
  /\ Idle
  /\ \E a \in Index : \E s \in hpkg_repo_plan(a) :
       repo' = [NoRepo EXCEPT !.do = "run", !.todo = s, !.db0 = db]
  /\ UNCHANGED tx /\ Bystanders /\ NoFault

\* The next package of the plan: its archive is opened (and may be missing or
\* damaged) and install_archive starts, refuses it, or finds it installed.
RepoNext ==
  /\ repo.do = "run" /\ tx.do = "idle" /\ repo.todo # <<>>
  /\ LET a == Head(repo.todo) IN
     \/ /\ NoFault /\ Accepts(a)
        /\ tx' = NewTransaction(a)
        /\ UNCHANGED repo
     \/ /\ NoFault /\ db[a.name].version = a.version
        /\ repo' = [repo EXCEPT !.todo = Tail(repo.todo),
                                !.done = Append(repo.done, a.name)]
        /\ UNCHANGED tx
     \/ /\ Fault \/ (~Accepts(a) /\ db[a.name].version # a.version /\ NoFault)
        /\ repo' = [repo EXCEPT !.do = "undo"]
        /\ UNCHANGED tx
  /\ Bystanders

\* Mutant: what the plan installed is not remembered.
RepoInstalled_Forgets ==
  /\ repo.do = "run" /\ tx.do \in {"ok", "failed"}
  /\ tx' = NoTx
  /\ repo' = IF tx.do = "ok" THEN [repo EXCEPT !.todo = Tail(repo.todo)]
                             ELSE [repo EXCEPT !.do = "undo"]
  /\ Bystanders /\ NoFault

RepoInstalled ==
  /\ repo.do = "run" /\ tx.do \in {"ok", "failed"}
  /\ tx' = NoTx
  /\ repo' = IF tx.do = "ok"
               THEN [repo EXCEPT !.todo = Tail(repo.todo),
                                 !.done = Append(repo.done, tx.name)]
               ELSE [repo EXCEPT !.do = "undo"]
  /\ Bystanders /\ NoFault

\* undo_installed: the packages of the plan already installed, the last first.
RepoUndo ==
  /\ repo.do = "undo" /\ tx.do = "idle" /\ repo.done # <<>>
  /\ LET n == repo.done[Len(repo.done)] IN
     IF Removable(n)
       THEN tx' = NewRemoval(n) /\ UNCHANGED repo
       ELSE /\ repo' = [repo EXCEPT !.dirty = TRUE,
                          !.done = SubSeq(repo.done, 1, Len(repo.done) - 1)]
            /\ UNCHANGED tx
  /\ Bystanders /\ NoFault

RepoUndone ==
  /\ repo.do = "undo" /\ tx.do \in {"ok", "failed"}
  /\ tx' = NoTx
  /\ repo' = [repo EXCEPT !.dirty = repo.dirty \/ tx.do = "failed",
                          !.done = SubSeq(repo.done, 1, Len(repo.done) - 1)]
  /\ Bystanders /\ NoFault

RepoEnd ==
  /\ tx.do = "idle"
  /\ \/ repo.do = "run" /\ repo.todo = <<>>
     \/ repo.do = "undo" /\ repo.done = <<>>
  /\ repo' = NoRepo
  /\ UNCHANGED tx /\ Bystanders /\ NoFault

-----------------------------------------------------------------------------
\* hpkg is killed between two system calls (a signal, the out-of-memory
\* killer); nothing resumes what it was doing.
Kill ==
  /\ ~Idle /\ kills < MaxKills
  /\ kills' = kills + 1
  /\ tx' = NoTx /\ repo' = NoRepo
  /\ suspect' = IF tx.do \in {"install", "undo"} THEN suspect \cup {tx.name} ELSE suspect
  /\ torn' = IF tx.do \in {"install", "undo"} THEN torn \cup {tx.name} ELSE torn
  /\ UNCHANGED <<file, staging, backup, dirs, db, faults>>

\* Another program writes a file where there is none, or deletes one.
UserFile ==
  /\ Idle
  /\ \E p \in Path :
       /\ Above[p] \subseteq dirs
       /\ file' = [file EXCEPT ![p] = IF file[p] = Gone THEN User ELSE Gone]
       /\ suspect' = suspect \cup {n \in Pkg : p \in db[n].files}
  /\ UNCHANGED <<staging, backup, dirs, db, tx, repo, torn, faults, kills>>

Next ==
  \/ InstallFile \/ Remove \/ Return
  \/ MakeParent \/ StageFile \/ CommitAside \/ CommitFile \/ StaleAside
  \/ WriteRecord \/ DiscardBackup
  \/ UndoStale \/ UndoCommitted \/ UndoAside \/ UndoStaged \/ UndoDirectory
  \/ RemoveFile \/ RemoveDirectory \/ RemoveRecord
  \/ InstallFromRepository \/ RepoNext \/ RepoInstalled \/ RepoUndo
  \/ RepoUndone \/ RepoEnd
  \/ Kill \/ UserFile

Spec == Init /\ [][Next]_vars

-----------------------------------------------------------------------------
(* Properties                                                              *)

Record == [version : Nat, files : SUBSET Path, depends : SUBSET Pkg,
           dirs : SUBSET Dir]
Doing == {"idle", "install", "discard", "undo", "remove", "ok", "failed"}

\* Types, and no directory or file without the directories above it.
TypeOK ==
  /\ file \in [Path -> Datum]
  /\ staging \in [Path -> Datum]
  /\ backup \in [Path -> Datum]
  /\ dirs \subseteq Dir /\ \A d \in dirs : Above[d] \subseteq dirs
  /\ \A p \in Path : file[p] # Gone => Above[p] \subseteq dirs
  /\ db \in [Pkg -> Record]
  /\ tx.do \in Doing /\ tx.name \in Pkg \cup {"none"}
  /\ tx.toStage \cup tx.staged \cup tx.committed \subseteq Path
  /\ tx.aside \cup tx.toStale \subseteq Path
  /\ tx.created \subseteq Dir
  /\ repo.do \in {"none", "run", "undo"}
  /\ suspect \subseteq Pkg /\ torn \subseteq Pkg
  /\ faults \in 0 .. MaxFaults /\ kills \in 0 .. MaxKills

\* store.h: a failed installation or upgrade leaves the previous state intact.
\* Whatever call failed, when roll_back could do all it tried every file in place
\* is what it was when hpkg_store_install began, and so are the directories but
\* for one that make_parents made and had no memory to list: that one stays,
\* although store.h says that any failure undoes what was done.  Nothing is said
\* of a staging name whose write and unlink both failed.
AllOrNothing ==
  tx.do = "failed" /\ ~tx.dirty =>
    /\ file = tx.file0 /\ dirs = tx.dirs0 \cup tx.unlisted
    /\ \A d, e \in tx.unlisted : d = e

\* As long as the new record is not written no file of the old version is
\* lost, not even when hpkg is killed there or roll_back fails: its data is in
\* place or under the backup name.
OldKept ==
  Installing \/ tx.do = "undo" =>
    \A p \in tx.prev.files :
      tx.file0[p] \in {Gone, file[p], backup[p]}

\* The record is written last: an installed package has every file its record
\* lists, with the data of its version, unless an upgrade or removal of it was
\* cut short or another program changed the file.
RecordExact ==
  \A n \in Installed \ suspect :
    tx.name # n \/ tx.do \in {"idle", "ok", "failed", "discard"} =>
      \A p \in db[n].files : file[p] = <<n, db[n].version>>

\* No file of a package is in place without belonging to an installed package,
\* unless an installation of it was killed or could not be undone.
NoOrphans ==
  \A p \in Path, n \in Pkg \ torn :
    file[p][1] = n /\ tx.name # n => p \in db[n].files

\* No path belongs to two packages (check_conflicts).
OwnedOnce == \A m, n \in Pkg : m # n => db[m].files \cap db[n].files = {}

\* What an installed package depends on is installed: installing refuses, the
\* planner orders and undo_installed removes accordingly.
DependsMet == \A n \in Pkg : db[n].depends \subseteq Installed

\* When install_from_repository has undone a failed plan the database is the
\* one it found, unless a removal failed.
PlanUndone ==
  repo.do = "undo" /\ repo.done = <<>> /\ ~repo.dirty => db = repo.db0

\* A failure undoes everything but an unlisted directory in one installation, and
\* every record in a plan of several.
FailureUndone == AllOrNothing /\ PlanUndone

\* Wherever hpkg is killed, the database and the files tell the same story: old
\* files are kept until the new record is, and records list what is there.
RecordsTrue == OldKept /\ RecordExact /\ NoOrphans

\* The database is consistent: types, one owner to a file, no missing dependency.
DatabaseSound == TypeOK /\ OwnedOnce /\ DependsMet

\* A file no package owns is never changed by hpkg.
UserFilesKept ==
  [][\A p \in Path \ Owned :
       ~Idle /\ file[p] = User => file'[p] = User]_vars

\* A record goes only when none of its files is in place (hpkg_store_remove
\* unlinks the record last), and stays as it is until a newer one replaces it.
RecordLast ==
  [][\A n \in Installed :
       \/ db'[n] = db[n]
       \/ db'[n] = NoRecord /\ \A p \in db[n].files : file[p] = Gone
       \/ db'[n].version > db[n].version]_vars
=============================================================================
