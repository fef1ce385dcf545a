--------------------------- MODULE ClientTheorems ---------------------------
(***************************************************************************)
(* Proofs about the other parts of Client, for any of the constants: the   *)
(* files the client owns are whole whatever fails between any two steps of *)
(* any number of commands, and so is an export beside which no other ran,  *)
(* its connections are protected as their layers ask, a catalogue that is  *)
(* ready has the evidence for it, and the plain client sends what was      *)
(* typed, completed and confirmed.                                         *)
(*                                                                         *)
(* How a text reads, and how it is formatted, are recursions over its      *)
(* lines and their tokens: their induction is RunAndHistoryTheorems'.      *)
(***************************************************************************)
EXTENDS RunAndHistoryTheorems

----------------------------------------------------------------------------
(* The client's files: what they hold, and what every process is in the middle of. *)

\* The configurations that there is something to migrate in, and every text a
\* configuration can have.
Old   == {t \in F!Handwritten : t.version = "old"}
Texts == F!Handwritten \cup {F!Template} \cup {F!Migrated(r) : r \in Old}

\* A backup has the whole of a text; a text that the client writes has its original in one.
Backed(r) == \E c \in Candidate : backup[c] = F!WholeFile(r)
Meant(t) == t = F!Template \/ \E r \in Old : t = F!Migrated(r) /\ Backed(r)

\* The files at the paths are whole, and a configuration is one that somebody meant.
ConfigInv ==
    config # F!NoFile =>
      \E t \in Texts : config = F!WholeFile(t) /\ (t \in F!Handwritten \/ Meant(t))
QueryInv == query # F!NoFile => query = F!WholeFile(F!Query)
\* A backup may be in part there, and in part on the disk.
BackupInv ==
    backup \in [Candidate -> {F!NoFile} \cup {F!Put(r, l, s) : r \in Old, l \in 0 .. 2, s \in 0 .. 2}]

\* The stages of an atomic write, and what is written to which path.
Stages(path, t) ==
    {[at |-> "reserve", path |-> path, text |-> t, temporary |-> F!NoFile],
     [at |-> "written", path |-> path, text |-> t, temporary |-> F!Put(t, t.length, 0)],
     [at |-> "synced", path |-> path, text |-> t, temporary |-> F!WholeFile(t)]}

Orders(path) == IF path = "config" THEN {t \in Texts : Meant(t)} ELSE {F!Query}
\* What a process is in the middle of: an atomic write, a migration that read a text, or the
\* copy of it that is not synced yet.
Writes(p) ==
    \E path \in {"config", "query"} : \E t \in Orders(path) : doing[p] \in Stages(path, t)
IsReading(p) == \E r \in Old : doing[p] = [at |-> "backup", read |-> r]
Copies(p) ==
    \E r \in Old, c \in Candidate :
      doing[p] = [at |-> "syncing", read |-> r, name |-> c] /\ backup[c] = F!Put(r, 2, 0)
Step(p) == doing[p] = F!Idle \/ Writes(p) \/ IsReading(p) \/ Copies(p)

\* Every process is in the middle of one of these.
StepInv == doing = [p \in Command |-> doing[p]] /\ \A p \in Command : Step(p)
\* No two processes write the same backup.
Alone ==
    \A p, q \in Command :
      doing[p].at = "syncing" /\ doing[q].at = "syncing" /\ doing[p].name = doing[q].name => p = q
\* The inductive invariant of the files.
Files ==
    /\ ConfigInv /\ QueryInv /\ BackupInv /\ StepInv /\ Alone
FilesInv == part = "files" => Files

\* A text is two pieces long, and what is migrated was written by hand.
LEMMA Lengths ==
    /\ \A t \in Texts : t.length = 2
    /\ \A t \in Old : t \in F!Handwritten /\ t \in Texts /\ t.version = "old"
  BY DEF Texts, Old, F!Handwritten, F!Text, F!Template, F!Migrated

\* A file is its three parts, and is not the absence of one.
LEMMA Shapes ==
    /\ \A t, l, s : l \in Nat => F!Put(t, l, s) # F!NoFile
    /\ \A t, l, s : F!Put(t, l, s).text = t /\ F!Put(t, l, s).length = l /\ F!Put(t, l, s).synced = s
    /\ \A t, l, s, u, m, v : F!Put(t, l, s) = F!Put(u, m, v) => t = u /\ l = m /\ s = v
    /\ F!Query.length = 2 /\ F!Template.length = 2
  BY DEF F!Put, F!NoFile, F!Text, F!Query, F!Template

\* What a power failure leaves of a file is what was synced, or more.
LEMMA Lefts ==
    /\ F!Left(F!NoFile) = {F!NoFile}
    /\ \A t : \A l, s \in Nat : F!Left(F!Put(t, l, s)) = {F!Put(t, n, n) : n \in s .. l}
  <1>1. F!Left(F!NoFile) = {F!NoFile}
    BY DEF F!Left, F!Exists
  <1>2. ASSUME NEW t, NEW l \in Nat, NEW s \in Nat
        PROVE  F!Left(F!Put(t, l, s)) = {F!Put(t, n, n) : n \in s .. l}
    BY Shapes DEF F!Left, F!Exists
  <1> QED
    BY <1>1, <1>2

\* It leaves a whole file whole.
LEMMA WholeLefts ==
    \A t : t.length \in Nat => F!Left(F!WholeFile(t)) = {F!WholeFile(t)}
  BY Lefts DEF F!WholeFile

\* A process stays where it is while what it relies on stays.
LEMMA Frame ==
    ASSUME NEW q \in Command, Step(q), doing'[q] = doing[q],
           \A r \in Old : Backed(r) => Backed(r)',
           doing[q].at = "syncing" => backup'[doing[q].name] = backup[doing[q].name]
    PROVE  Step(q)'
  <1>1. CASE doing[q] = F!Idle
    BY <1>1 DEF Step
  <1>2. CASE Writes(q)
    BY <1>2 DEF Step, Writes, Orders, Meant
  <1>3. CASE IsReading(q)
    BY <1>3 DEF Step, IsReading
  <1>4. CASE Copies(q)
    BY <1>4 DEF Step, Copies
  <1> QED
    BY <1>1, <1>2, <1>3, <1>4 DEF Step

\* Where a process is says what it does.
LEMMA Where ==
    ASSUME NEW p \in Command, Step(p)
    PROVE  /\ doing[p].at \in {"reserve", "written", "synced"} => Writes(p)
           /\ doing[p].at = "backup" => IsReading(p)
           /\ doing[p].at = "syncing" => Copies(p)
  <1>1. doing[p] = F!Idle => doing[p].at = "idle"
    BY DEF F!Idle
  <1>2. Writes(p) => doing[p].at \in {"reserve", "written", "synced"}
    BY DEF Writes, Stages
  <1>3. IsReading(p) => doing[p].at = "backup"
    BY DEF IsReading
  <1>4. Copies(p) => doing[p].at = "syncing"
    BY DEF Copies
  <1> QED
    BY <1>1, <1>2, <1>3, <1>4 DEF Step

\* A configuration stays meant while what is backed up stays so.
LEMMA ConfigStays ==
    ASSUME ConfigInv, UNCHANGED config, \A r \in Old : Backed(r) => Backed(r)'
    PROVE  ConfigInv'
  BY DEF ConfigInv, Meant

\* One process moves; the others stay where they are.
LEMMA OneMoves ==
    ASSUME Files, NEW p \in Command, NEW s, doing' = [doing EXCEPT ![p] = s],
           \A r \in Old : Backed(r) => Backed(r)',
           \A q \in Command \ {p} :
             doing[q].at = "syncing" => backup'[doing[q].name] = backup[doing[q].name],
           Step(p)'
    PROVE  StepInv'
  <1>1. doing' = [q \in Command |-> doing'[q]]
    BY DEF Files, StepInv
  <1>2. ASSUME NEW q \in Command \ {p} PROVE Step(q)'
    BY <1>2, Frame DEF Files, StepInv
  <1> QED
    BY <1>1, <1>2 DEF StepInv

\* A step of one process that leaves the backups alone.
LEMMA Quiet ==
    ASSUME Files, NEW p \in Command, NEW s, doing' = [doing EXCEPT ![p] = s],
           UNCHANGED backup, s.at # "syncing", Step(p)'
    PROVE  BackupInv' /\ StepInv' /\ Alone' /\ (UNCHANGED config => ConfigInv')
  <1>1. \A r \in Old : Backed(r) => Backed(r)'
    BY DEF Backed
  <1>2. StepInv'
    BY <1>1, OneMoves
  <1>3. Alone'
    BY DEF Files, StepInv, Alone
  <1>4. UNCHANGED config => ConfigInv'
    BY <1>1, ConfigStays DEF Files
  <1> QED
    BY <1>2, <1>3, <1>4 DEF Files, BackupInv

\* The steps of an atomic write.
LEMMA WritingSteps ==
    ASSUME Files, NEW p \in Command,
           F!WriteTemporary(p) \/ F!SyncTemporary(p) \/ F!Rename(p)
    PROVE  Files'
  <1>1. Step(p) /\ doing[p].at \in {"reserve", "written", "synced"}
    BY DEF Files, StepInv, F!WriteTemporary, F!SyncTemporary, F!Rename
  <1>2. PICK path \in {"config", "query"} : \E t \in Orders(path) : doing[p] \in Stages(path, t)
    BY <1>1, Where DEF Writes
  <1>3. PICK t \in Orders(path) : doing[p] \in Stages(path, t)
    BY <1>2
  <1>4. UNCHANGED backup => t \in Orders(path)'
    BY <1>3 DEF Orders, Meant, Backed
  <1>5. CASE F!WriteTemporary(p)
    <2> DEFINE w == [at |-> "written", path |-> path, text |-> t, temporary |-> F!Put(t, t.length, 0)]
    <2>1. doing[p] = [at |-> "reserve", path |-> path, text |-> t, temporary |-> F!NoFile]
      BY <1>3, <1>5 DEF F!WriteTemporary, Stages
    <2>2. doing' = [doing EXCEPT ![p] = w] /\ UNCHANGED <<config, query, backup>>
      BY <1>5, <2>1 DEF F!WriteTemporary, F!Goto, F!Stage, F!Put, F!WholeFile
    <2>3. Step(p)'
      BY <1>4, <2>2 DEF Files, StepInv, Step, Writes, Stages
    <2>4. w.at # "syncing"
      OBVIOUS
    <2> HIDE DEF w
    <2> QED
      BY <2>2, <2>3, <2>4, Quiet DEF Files, QueryInv
  <1>6. CASE F!SyncTemporary(p)
    <2> DEFINE w == [at |-> "synced", path |-> path, text |-> t, temporary |-> F!WholeFile(t)]
    <2>1. doing[p] = [at |-> "written", path |-> path, text |-> t, temporary |-> F!Put(t, t.length, 0)]
      BY <1>3, <1>6 DEF F!SyncTemporary, Stages
    <2>2. doing' = [doing EXCEPT ![p] = w] /\ UNCHANGED <<config, query, backup>>
      <3>1. F!Synced(F!Put(t, t.length, 0)) = F!WholeFile(t)
        BY Shapes DEF F!Synced, F!WholeFile
      <3>2. /\ doing[p].path = path /\ doing[p].text = t
            /\ F!Synced(doing[p].temporary) = F!WholeFile(t)
        BY <2>1, <3>1
      <3> QED
        BY <1>6, <3>2 DEF F!SyncTemporary, F!Goto, F!Stage
    <2>3. Step(p)'
      BY <1>4, <2>2 DEF Files, StepInv, Step, Writes, Stages
    <2>4. w.at # "syncing"
      OBVIOUS
    <2> HIDE DEF w
    <2> QED
      BY <2>2, <2>3, <2>4, Quiet DEF Files, QueryInv
  <1>7. CASE F!Rename(p)
    <2>1. doing[p].temporary = F!WholeFile(t) /\ doing[p].path = path
      BY <1>3, <1>7 DEF F!Rename, Stages
    <2>2. doing' = [doing EXCEPT ![p] = F!Idle] /\ UNCHANGED backup
      BY <1>7 DEF F!Rename, F!Done, F!Goto
    <2>3. F!Idle.at = "idle" /\ Step(p)'
      BY <2>2 DEF Files, StepInv, Step, F!Idle
    <2>4. BackupInv' /\ StepInv' /\ Alone' /\ (UNCHANGED config => ConfigInv')
      BY <2>2, <2>3, Quiet DEF Files
    <2>5. CASE path = "config"
      <3>1. config' = F!WholeFile(t) /\ query' = query
        BY <1>7, <2>1, <2>5 DEF F!Rename
      <3>2. t \in Texts /\ Meant(t)'
        BY <1>4, <2>2, <2>5 DEF Orders
      <3> QED
        BY <2>4, <3>1, <3>2 DEF Files, ConfigInv, QueryInv
    <2>6. CASE path = "query"
      <3>1. query' = F!WholeFile(F!Query) /\ config' = config
        BY <1>7, <2>1, <2>6 DEF F!Rename, Orders
      <3> QED
        BY <2>4, <3>1 DEF Files, QueryInv
    <2> QED
      BY <2>5, <2>6
  <1> QED
    BY <1>5, <1>6, <1>7

\* The commands begin.
LEMMA Starts ==
    ASSUME Files, NEW p \in Command,
           F!SaveQuery(p) \/ F!Migrate(p) \/ \E force \in BOOLEAN : F!ConfigInit(p, force)
    PROVE  Files'
  <1> DEFINE same == UNCHANGED <<config, query, backup>>
  <1>1. CASE F!SaveQuery(p)
    <2>1. doing' = [doing EXCEPT ![p] = F!Writing("query", F!Query)] /\ same
      BY <1>1 DEF F!SaveQuery, F!Goto
    <2>2. Step(p)' /\ F!Writing("query", F!Query).at = "reserve"
      BY <2>1 DEF Files, StepInv, Step, Writes, Orders, Stages, F!Writing, F!Stage
    <2> QED
      BY <2>1, <2>2, Quiet DEF Files, QueryInv
  <1>2. CASE F!Migrate(p)
    <2>1. PICK t \in Texts : config = F!WholeFile(t)
      BY <1>2 DEF F!Migrate, F!Exists, Files, ConfigInv
    <2>2. config.text = t /\ t.version = "old"
      BY <1>2, <2>1 DEF F!Migrate, F!WholeFile, F!Put
    <2>3. t \in Old
      BY <2>2 DEF Texts, Old, F!Template, F!Migrated, F!Text
    <2> DEFINE w == [at |-> "backup", read |-> t]
    <2>4. doing' = [doing EXCEPT ![p] = w] /\ same
      BY <1>2, <2>2 DEF F!Migrate, F!Goto
    <2>5. Step(p)' /\ w.at # "syncing"
      BY <2>3, <2>4 DEF Files, StepInv, Step, IsReading
    <2> HIDE DEF w
    <2> QED
      BY <2>4, <2>5, Quiet DEF Files, QueryInv
  <1>3. CASE \E force \in BOOLEAN : F!ConfigInit(p, force)
    <2>1. doing' = [doing EXCEPT ![p] = F!Writing("config", F!Template)] /\ same
      BY <1>3 DEF F!ConfigInit, F!Goto
    <2>2. F!Template \in Orders("config")'
      BY DEF Orders, Meant, Texts
    <2>3. Step(p)' /\ F!Writing("config", F!Template).at = "reserve"
      BY <2>1, <2>2 DEF Files, StepInv, Step, Writes, Stages, F!Writing, F!Stage
    <2> QED
      BY <2>1, <2>3, Quiet DEF Files, QueryInv
  <1> QED
    BY <1>1, <1>2, <1>3

\* One backup changes: a name that was free, or the one the process itself is writing.
BackupMove(p, s, c, v) ==
    /\ doing' = [doing EXCEPT ![p] = s]
    /\ backup' = [backup EXCEPT ![c] = v]
    /\ UNCHANGED <<config, query>>
    /\ backup[c] = F!NoFile \/ (doing[p].at = "syncing" /\ doing[p].name = c)
    /\ s.at = "syncing" => s.name = c
    /\ v \in {F!NoFile} \cup {F!Put(r, 2, n) : r \in Old, n \in {0, 2}}
    /\ (\A r \in Old : Backed(r) => Backed(r)') => Step(p)'

\* A backup that is not whole yet is of the process that writes it, and of no other.
LEMMA BackupMoves ==
    ASSUME Files, NEW p \in Command, NEW s, NEW c \in Candidate, NEW v, BackupMove(p, s, c, v)
    PROVE  Files'
  <1> USE DEF BackupMove
  <1>1. ASSUME NEW q \in Command \ {p}, doing[q].at = "syncing"
        PROVE  doing[q].name # c
    <2>1. PICK r \in Old, b \in Candidate :
            doing[q] = [at |-> "syncing", read |-> r, name |-> b] /\ backup[b] = F!Put(r, 2, 0)
      BY <1>1, Where DEF Files, StepInv, Copies
    <2>2. backup[b] # F!NoFile /\ doing[q].name = b
      BY <2>1, Shapes
    <2> QED
      BY <1>1, <2>2 DEF Files, Alone
  <1>2. \A r \in Old : backup[c] # F!WholeFile(r)
    <2>1. CASE backup[c] = F!NoFile
      BY <2>1, Lengths, Shapes DEF F!WholeFile
    <2>2. CASE doing[p].at = "syncing" /\ doing[p].name = c
      <3>1. PICK r \in Old, b \in Candidate :
              doing[p] = [at |-> "syncing", read |-> r, name |-> b] /\ backup[b] = F!Put(r, 2, 0)
        BY <2>2, Where DEF Files, StepInv, Copies
      <3>2. backup[c] = F!Put(r, 2, 0)
        BY <2>2, <3>1
      <3> QED
        BY <3>2, Lengths, Shapes DEF F!WholeFile
    <2> QED
      BY <2>1, <2>2
  <1>3. \A r \in Old : Backed(r) => Backed(r)'
    BY <1>2 DEF Backed, Files, BackupInv
  <1>4. ASSUME NEW q \in Command \ {p}, doing[q].at = "syncing"
        PROVE  backup'[doing[q].name] = backup[doing[q].name]
    <2>1. PICK r \in Old, b \in Candidate : doing[q] = [at |-> "syncing", read |-> r, name |-> b]
      BY <1>4, Where DEF Files, StepInv, Copies
    <2> QED
      BY <1>1, <1>4, <2>1 DEF Files, BackupInv
  <1>5. StepInv'
    <2>1. doing' = [doing EXCEPT ![p] = s]
      OBVIOUS
    <2>2. Step(p)'
      BY <1>3
    <2> HIDE DEF BackupMove
    <2> QED
      BY <1>3, <1>4, <2>1, <2>2, OneMoves
  <1>6. Alone'
    BY <1>1 DEF Files, StepInv, Alone
  <1>7. v \in {F!NoFile} \cup {F!Put(r, l, n) : r \in Old, l \in 0 .. 2, n \in 0 .. 2}
    OBVIOUS
  <1>8. BackupInv'
    BY <1>7 DEF Files, BackupInv
  <1>9. ConfigInv'
    BY <1>3, ConfigStays DEF Files
  <1>10. QueryInv'
    BY DEF Files, QueryInv
  <1> HIDE DEF BackupMove
  <1> QED
    BY <1>5, <1>6, <1>8, <1>9, <1>10 DEF Files

\* A backup is written and synced; only then is the migrated configuration written.
LEMMA BackupSteps ==
    ASSUME Files, NEW p \in Command, F!Backup(p) \/ F!SyncBackup(p)
    PROVE  Files'
  <1>1. CASE F!Backup(p)
    <2>1. PICK r \in Old : doing[p] = [at |-> "backup", read |-> r]
      BY <1>1, Where DEF F!Backup, Files, StepInv, IsReading
    <2>2. CASE F!Done(p) /\ UNCHANGED backup
      <3>1. doing' = [doing EXCEPT ![p] = F!Idle]
            /\ UNCHANGED <<config, query, backup>>
        BY <1>1, <2>2 DEF F!Backup, F!Done, F!Goto
      <3>2. F!Idle.at = "idle" /\ Step(p)'
        BY <3>1 DEF Files, StepInv, Step, F!Idle
      <3> QED
        BY <3>1, <3>2, Quiet DEF Files, QueryInv
    <2>3. CASE ~(F!Done(p) /\ UNCHANGED backup)
      <3>1. PICK c \in Candidate :
              /\ F!IsFree(c)
              /\ backup' = [backup EXCEPT ![c] = F!Put(r, r.length, 0)]
              /\ doing' = [doing EXCEPT ![p] = [at |-> "syncing", read |-> r, name |-> c]]
        BY <1>1, <2>1, <2>3 DEF F!Backup, F!Goto
      <3>2. r.length = 2 /\ backup[c] = F!NoFile
        BY <3>1, Lengths DEF F!IsFree, F!Exists
      <3>3. Step(p)'
        <4>1. doing'[p] = [at |-> "syncing", read |-> r, name |-> c]
          BY <3>1 DEF Files, StepInv
        <4>2. backup'[c] = F!Put(r, 2, 0)
          BY <3>1, <3>2 DEF Files, BackupInv
        <4> QED
          BY <4>1, <4>2 DEF Step, Copies
      <3>4. UNCHANGED <<config, query>>
        BY <1>1 DEF F!Backup
      <3> DEFINE s == [at |-> "syncing", read |-> r, name |-> c]
                 v == F!Put(r, 2, 0)
      <3>5. s.at = "syncing" /\ s.name = c
        OBVIOUS
      <3>6. /\ v \in {F!NoFile} \cup {F!Put(t, 2, n) : t \in Old, n \in {0, 2}}
            /\ doing' = [doing EXCEPT ![p] = s] /\ backup' = [backup EXCEPT ![c] = v]
        BY <3>1, <3>2
      <3>7. BackupMove(p, s, c, v)
        BY <3>2, <3>3, <3>4, <3>5, <3>6 DEF BackupMove
      <3> HIDE DEF s, v
      <3> QED
        BY <3>7, BackupMoves
    <2> QED
      BY <2>2, <2>3
  <1>2. CASE F!SyncBackup(p)
    <2>1. PICK r \in Old, c \in Candidate : doing[p] = [at |-> "syncing", read |-> r, name |-> c]
      BY <1>2, Where DEF F!SyncBackup, Files, StepInv, Copies
    <2> DEFINE s == F!Writing("config", F!Migrated(r))
    <2>2. /\ backup' = [backup EXCEPT ![c] = F!WholeFile(r)]
          /\ doing' = [doing EXCEPT ![p] = s]
          /\ UNCHANGED <<config, query>>
      BY <1>2, <2>1 DEF F!SyncBackup, F!Goto
    <2>3. Backed(r)'
      BY <2>2 DEF Backed, Files, BackupInv
    <2>4. F!Migrated(r) \in Orders("config")'
      BY <2>3 DEF Orders, Meant, Texts
    <2>5. Step(p)' /\ s.at = "reserve"
      BY <2>2, <2>4 DEF Files, StepInv, Step, Writes, Stages, F!Writing, F!Stage
    <2> DEFINE v == F!WholeFile(r)
    <2>6. v \in {F!NoFile} \cup {F!Put(t, 2, n) : t \in Old, n \in {0, 2}}
      BY Lengths DEF F!WholeFile
    <2>7. doing[p].at = "syncing" /\ doing[p].name = c /\ backup' = [backup EXCEPT ![c] = v]
      BY <2>1, <2>2
    <2>8. BackupMove(p, s, c, v)
      BY <2>2, <2>5, <2>6, <2>7 DEF BackupMove
    <2> HIDE DEF s, v
    <2> QED
      BY <2>8, BackupMoves
  <1> QED
    BY <1>1, <1>2

\* A call fails, or the process is killed, between any two steps.
LEMMA EndSteps ==
    ASSUME Files, NEW p \in Command, F!Fail(p) \/ F!Kill(p)
    PROVE  Files'
  <1>1. doing' = [doing EXCEPT ![p] = F!Idle] /\ UNCHANGED <<config, query>>
    BY DEF F!Fail, F!Kill, F!Done, F!Goto
  <1>2. F!Idle.at = "idle" /\ Step(p)'
    BY <1>1 DEF Files, StepInv, Step, F!Idle
  <1>3. CASE UNCHANGED backup
    BY <1>1, <1>2, <1>3, Quiet DEF Files, QueryInv
  <1>4. CASE ~UNCHANGED backup
    <2>1. doing[p].at = "syncing" /\ backup' = [backup EXCEPT ![doing[p].name] = F!NoFile]
      BY <1>4 DEF F!Fail, F!Kill
    <2>2. PICK r \in Old, c \in Candidate : doing[p] = [at |-> "syncing", read |-> r, name |-> c]
      BY <2>1, Where DEF Files, StepInv, Copies
    <2>3. doing[p].name = c /\ backup' = [backup EXCEPT ![c] = F!NoFile]
      BY <2>1, <2>2
    <2>4. BackupMove(p, F!Idle, c, F!NoFile)
      BY <1>1, <1>2, <2>1, <2>3 DEF BackupMove
    <2> QED
      BY <2>4, BackupMoves
  <1> QED
    BY <1>3, <1>4

\* A file that was synced is left as it was; what is left of another is a part of it.
LEMMA PowerFailureStep ==
    ASSUME Files, F!PowerFailure
    PROVE  Files'
  <1>1. doing' = [p \in Command |-> F!Idle]
    BY DEF F!PowerFailure
  <1>2. StepInv' /\ Alone'
    BY <1>1 DEF StepInv, Step, Alone, F!Idle
  <1>3. \A c \in Candidate : backup'[c] \in F!Left(backup[c])
    BY DEF F!PowerFailure
  <1>4. \A r \in Old : Backed(r) => Backed(r)'
    BY <1>3, Lengths, WholeLefts DEF Backed
  <1>5. ConfigInv'
    <2>1. config' \in F!Left(config)
      BY DEF F!PowerFailure
    <2>2. config' = config
      <3>1. CASE config = F!NoFile
        BY <2>1, <3>1, Lefts
      <3>2. CASE config # F!NoFile
        <4>1. PICK t \in Texts : config = F!WholeFile(t)
          BY <3>2 DEF Files, ConfigInv
        <4> QED
          BY <2>1, <4>1, Lengths, WholeLefts
      <3> QED
        BY <3>1, <3>2
    <2> QED
      BY <1>4, <2>2, ConfigStays DEF Files
  <1>6. QueryInv'
    <2>1. query' \in F!Left(query)
      BY DEF F!PowerFailure
    <2> QED
      BY <2>1, Lefts, WholeLefts, Shapes DEF Files, QueryInv
  <1>7. BackupInv'
    <2>1. ASSUME NEW c \in Candidate
          PROVE  backup'[c] \in {F!NoFile} \cup
                    {F!Put(r, l, s) : r \in Old, l \in 0 .. 2, s \in 0 .. 2}
      <3>1. CASE backup[c] = F!NoFile
        BY <1>3, <3>1, Lefts
      <3>2. CASE backup[c] # F!NoFile
        <4>1. PICK r \in Old, l \in 0 .. 2, s \in 0 .. 2 : backup[c] = F!Put(r, l, s)
          BY <3>2 DEF Files, BackupInv
        <4>2. PICK m \in s .. l : backup'[c] = F!Put(r, m, m)
          BY <1>3, <4>1, Lefts
        <4>3. m \in 0 .. 2
          OBVIOUS
        <4> QED
          BY <4>2, <4>3
      <3> QED
        BY <3>1, <3>2
    <2>2. PICK left \in [Candidate -> UNION {F!Left(backup[c]) : c \in Candidate}] : backup' = left
      BY DEF F!PowerFailure
    <2> QED
      BY <2>1, <2>2 DEF BackupInv
  <1> QED
    BY <1>2, <1>5, <1>6, <1>7 DEF Files

\* The user writes a configuration or removes it.
LEMMA EditStep ==
    ASSUME Files, F!Edit
    PROVE  Files'
  <1>1. UNCHANGED <<query, backup, doing>>
    BY DEF F!Edit
  <1>2. \A r \in Old : Backed(r) => Backed(r)'
    BY <1>1 DEF Backed
  <1>3. QueryInv' /\ BackupInv' /\ Alone'
    BY <1>1 DEF Files, QueryInv, BackupInv, Alone
  <1>4. StepInv'
    BY <1>1, <1>2, Frame DEF Files, StepInv
  <1>5. ConfigInv'
    BY DEF F!Edit, ConfigInv, Texts
  <1> QED
    BY <1>3, <1>4, <1>5 DEF Files

\* No command runs yet.
LEMMA FilesInit == Init => FilesInv
  <1> SUFFICES ASSUME F!Init PROVE Files
    BY DEF Init, FilesInv
  <1>1. ConfigInv /\ QueryInv
    BY DEF F!Init, ConfigInv, QueryInv, Texts
  <1>2. BackupInv
    BY DEF F!Init, BackupInv
  <1>3. StepInv /\ Alone
    BY DEF F!Init, StepInv, Step, Alone, F!Idle
  <1> QED
    BY <1>1, <1>2, <1>3 DEF Files

\* Every step of every command, every failure and every edit keeps the invariant.
LEMMA FilesStep == FilesInv /\ [Next]_vars => FilesInv'
  <1> SUFFICES ASSUME FilesInv, [Next]_vars, part' = "files"
               PROVE  Files'
    BY DEF FilesInv
  <1>1. CASE UNCHANGED vars
    <2>1. UNCHANGED <<config, query, backup, doing>> /\ part = "files"
      BY <1>1 DEF vars, files
    <2>2. \A r \in Old : Backed(r) => Backed(r)'
      BY <2>1 DEF Backed
    <2>3. StepInv'
      BY <2>1, <2>2, Frame DEF FilesInv, Files, StepInv
    <2>4. ConfigInv'
      BY <2>1, <2>2, ConfigStays DEF FilesInv, Files
    <2>5. QueryInv' /\ BackupInv' /\ Alone'
      BY <2>1 DEF FilesInv, Files, QueryInv, BackupInv, Alone
    <2> QED
      BY <2>3, <2>4, <2>5 DEF Files
  <1>2. CASE part = "files" /\ F!Next
    <2>1. Files
      BY <1>2 DEF FilesInv
    <2>2. CASE F!Edit
      BY <2>1, <2>2, EditStep
    <2>3. CASE F!PowerFailure
      BY <2>1, <2>3, PowerFailureStep
    <2>4. ASSUME NEW p \in Command,
                 F!WriteTemporary(p) \/ F!SyncTemporary(p) \/ F!Rename(p)
          PROVE  Files'
      BY <2>1, <2>4, WritingSteps
    <2>5. ASSUME NEW p \in Command,
                 F!SaveQuery(p) \/ F!Migrate(p) \/ \E force \in BOOLEAN : F!ConfigInit(p, force)
          PROVE  Files'
      BY <2>1, <2>5, Starts
    <2>6. ASSUME NEW p \in Command, F!Backup(p) \/ F!SyncBackup(p)
          PROVE  Files'
      BY <2>1, <2>6, BackupSteps
    <2>7. ASSUME NEW p \in Command, F!Fail(p) \/ F!Kill(p)
          PROVE  Files'
      BY <2>1, <2>7, EndSteps
    <2> QED
      BY <1>2, <2>2, <2>3, <2>4, <2>5, <2>6, <2>7 DEF F!Next
  <1> QED
    BY <1>1, <1>2 DEF Next

\* Whatever fails, is killed or loses power, between whichever steps of however many commands:
\* the configuration and a saved query are not at their paths or are complete (store.rs:5).
THEOREM FilesStayWhole == Spec => []FilesAreWhole
  <1>1. FilesInv => FilesAreWhole
    <2> SUFFICES ASSUME Files PROVE F!FilesAreWhole
      BY DEF FilesInv, FilesAreWhole
    <2>1. \A t : F!IsWhole(F!WholeFile(t))
      BY Shapes DEF F!IsWhole, F!WholeFile
    <2>2. F!IsWhole(F!NoFile)
      BY DEF F!IsWhole, F!Exists
    <2> QED
      BY <2>1, <2>2 DEF Files, ConfigInv, QueryInv, F!FilesAreWhole
  <1> QED
    BY FilesInit, FilesStep, <1>1, PTL DEF Spec

\* A configuration that was migrated has its original whole in a backup, also after a crash
\* and with other migrations in the same second, however many names there are (store.rs:8).
THEOREM OriginalIsBackedUp == Spec => []MigrationIsBackedUp
  <1>1. FilesInv => MigrationIsBackedUp
    <2> SUFFICES ASSUME Files, F!Exists(config), NEW h \in F!Handwritten,
                        config.text = F!Migrated(h), config.text \notin F!Handwritten
                 PROVE  \E c \in Candidate :
                          /\ F!Exists(backup[c]) /\ F!IsWhole(backup[c])
                          /\ backup[c].text.version = "old" /\ backup[c].text.of = config.text.of
      BY DEF FilesInv, MigrationIsBackedUp, F!MigrationIsBackedUp
    <2>1. PICK t \in Texts : config = F!WholeFile(t) /\ (t \in F!Handwritten \/ Meant(t))
      BY DEF Files, ConfigInv, F!Exists
    <2>2. config.text = t
      BY <2>1, Shapes DEF F!WholeFile
    <2>3. t # F!Template
      <3>1. h.of # "template"
        BY ClientAssumption DEF F!Handwritten, F!Text
      <3> QED
        BY <2>2, <3>1 DEF F!Migrated, F!Template, F!Text
    <2>4. PICK r \in Old : t = F!Migrated(r) /\ Backed(r)
      BY <2>1, <2>2, <2>3 DEF Meant
    <2>5. PICK c \in Candidate : backup[c] = F!WholeFile(r)
      BY <2>4 DEF Backed
    <2>6. r.length = 2 /\ r.version = "old" /\ config.text.of = r.of
      BY <2>2, <2>4, Lengths DEF F!Migrated, F!Text
    <2>7. F!Exists(backup[c]) /\ F!IsWhole(backup[c]) /\ backup[c].text = r
      BY <2>5, <2>6, Shapes DEF F!Exists, F!IsWhole, F!WholeFile
    <2> QED
      BY <2>6, <2>7
  <1> QED
    BY FilesInit, FilesStep, <1>1, PTL DEF Spec
----------------------------------------------------------------------------
(* The exports: what each of them has open, and what those alone with it know of its file. *)

\* An export is at one of these stages: it has written l of the k rows that it took of the n that
\* arrive, all of them before it renames.
Taken(p, stage, n, k, l, place) ==
    /\ exporter[p] = E!Handle(stage, E!Rows(p, n), k, l, place)
    /\ l <= k /\ k <= n /\ (stage = "renaming" => l = n)
IsAt(p) ==
    \E stage \in {"exporting", "renaming"}, place \in {"partial", "out", "gone"} :
      \E n, k, l \in Nat : Taken(p, stage, n, k, l, place)

\* An export beside which no other ran has the partial file to itself: what it wrote is there, and
\* on the disk before it renames.
Apart(p) ==
    /\ E!Others = {p} /\ exporter[p].file = "partial"
    /\ \E s \in Nat : /\ partial = E!Put(exporter[p].text, exporter[p].put, s)
                      /\ exporter[p].at = "renaming" => s = exporter[p].put

StagesInv == exporter = [p \in Command |-> exporter[p]]
             /\ \A p \in Command : exporter[p] = E!Idle \/ IsAt(p)
ApartInv == \A p \in E!Others : p \notin beside => Apart(p)
\* The file at the destination is whole, and nobody's still, unless its export ran beside another.
OutInv ==
    /\ \A p \in E!Others : exporter[p].file = "out" => mingled
    /\ ~mingled => out = E!NoFile \/ \E q \in Command, n \in Nat : out = E!WholeFile(E!Rows(q, n))
\* What an interrupted export said stays true until the next one opens.
SaidInv ==
    told.flush = "flushed" /\ told.alone =>
      E!Others = {} /\ partial # E!NoFile /\ partial.length = told.rows

\* The inductive invariant of the exports.
ExportsInv == StagesInv /\ ApartInv /\ OutInv /\ SaidInv

\* The parts of a handle, of a file and of a text.
LEMMA Handles ==
    /\ \A at_, t, k, l, f : LET h == E!Handle(at_, t, k, l, f)
                            IN h.at = at_ /\ h.text = t /\ h.rows = k /\ h.put = l /\ h.file = f
    /\ \A t, l, s : LET g == E!Put(t, l, s) IN g.text = t /\ g.length = l /\ g.synced = s
    /\ \A t, l, s : l \in Nat => E!Put(t, l, s) # E!NoFile
    /\ \A p, n : E!Rows(p, n).length = n
    /\ E!Idle.at = "idle"
  BY DEF E!Handle, E!Put, E!Rows, E!Idle, E!NoFile

\* Who exports is somewhere in it.
LEMMA ExportingIsAt ==
    ASSUME StagesInv, NEW p \in E!Others
    PROVE  p \in Command /\ IsAt(p)
  BY Handles DEF StagesInv, E!Others, E!Exporting

\* One that ran beside another is not alone now, and neither is any other.
LEMMA NoneIsApart ==
    ASSUME ExportsInv, NEW p \in E!Others, p \in beside
    PROVE  E!Others \subseteq beside
  BY DEF ExportsInv, ApartInv, Apart

\* What an export writes goes into its own text while it is alone with it.
LEMMA Writings ==
    ASSUME NEW p, Apart(p), NEW n \in Nat, E!WriteOut(p, n)
    PROVE  out' = out /\ \E s \in Nat : partial' = E!Put(exporter[p].text, n, s)
  <1>1. PICK s \in Nat : partial = E!Put(exporter[p].text, exporter[p].put, s)
    BY DEF Apart
  <1>2. partial.text = exporter[p].text /\ partial.synced = s
    BY <1>1, Handles
  <1>3. out' = out /\ partial' = E!Through(partial, p, n)
    BY DEF E!WriteOut, Apart
  <1>4. E!Through(partial, p, n) = E!Put(exporter[p].text, n, s)
    BY <1>2 DEF E!Through
  <1> QED
    BY <1>3, <1>4

\* A step of one export: it goes on or ends, and writes to no file but the one that it has open.
ExportMove(p, s) ==
    /\ exporter' = [exporter EXCEPT ![p] = s] /\ UNCHANGED <<beside, mingled>>
    /\ s = E!Idle \/ (IsAt(p)' /\ s.at \in {"exporting", "renaming"} /\ s.file = exporter[p].file
                      /\ (p \notin beside /\ E!Others' = {p} => Apart(p)'))
    /\ exporter[p].file # "out" => out' = out
    /\ \/ told' = told
       \/ told'.flush = "flushed" /\ told'.alone =>
            p \notin beside /\ s = E!Idle /\ partial' # E!NoFile /\ partial'.length = told'.rows

\* A move of one export that keeps to these terms keeps the invariant.
LEMMA ExportMoves ==
    ASSUME ExportsInv, NEW p \in E!Others, NEW s, ExportMove(p, s)
    PROVE  ExportsInv'
  <1>1. p \in Command /\ exporter' = [exporter EXCEPT ![p] = s]
        /\ exporter = [q \in Command |-> exporter[q]]
    BY DEF ExportMove, E!Others, ExportsInv, StagesInv
  <1>2. exporter'[p] = s /\ \A q \in Command : q # p => exporter'[q] = exporter[q]
    BY <1>1
  <1>3. StagesInv'
    <2>1. exporter' = [q \in Command |-> exporter'[q]]
      BY <1>1
    <2>2. \A q \in Command : q # p => (IsAt(q) => IsAt(q)')
      BY <1>2 DEF IsAt, Taken
    <2> QED
      BY <1>2, <2>1, <2>2 DEF StagesInv, ExportsInv, ExportMove
  <1>4. E!Others' = (IF s = E!Idle THEN E!Others \ {p} ELSE E!Others)
    <2>1. s # E!Idle => s.at \in {"exporting", "renaming"}
      BY DEF ExportMove
    <2>2. E!Idle.at \notin {"exporting", "renaming"}
      BY Handles
    <2>3. \A q \in Command : (q \in E!Others') <=> (exporter'[q].at \in {"exporting", "renaming"})
      BY DEF E!Others, E!Exporting
    <2>4. \A q \in Command : (q \in E!Others) <=> (exporter[q].at \in {"exporting", "renaming"})
      BY DEF E!Others, E!Exporting
    <2>5. E!Others' \subseteq Command /\ E!Others \subseteq Command
      BY DEF E!Others
    <2>6. \A q \in Command : (q \in E!Others') <=> (IF q = p THEN s # E!Idle ELSE q \in E!Others)
      BY <1>2, <2>1, <2>2, <2>3, <2>4
    <2> QED
      BY <1>1, <2>5, <2>6
  <1>5. ApartInv'
    <2> SUFFICES ASSUME NEW q \in E!Others', q \notin beside
                 PROVE  Apart(q)'
      BY DEF ApartInv, ExportMove
    <2>1. q \in E!Others /\ Apart(q)
      BY <1>4 DEF ExportsInv, ApartInv
    <2>2. q = p /\ E!Others = {p}
      BY <2>1 DEF Apart
    <2>3. s # E!Idle /\ E!Others' = {p}
      BY <1>4, <2>2
    <2> QED
      BY <2>2, <2>3 DEF ExportMove
  <1>6. OutInv'
    <2>1. \A q \in E!Others' : q \in E!Others /\ exporter'[q].file = exporter[q].file
      <3>1. \A q \in E!Others' : q \in E!Others /\ q \in Command /\ (q = p => s # E!Idle)
        BY <1>4 DEF E!Others
      <3> QED
        BY <1>2, <3>1 DEF ExportMove
    <2>2. ~mingled => exporter[p].file # "out"
      BY DEF ExportsInv, OutInv
    <2> QED
      BY <2>1, <2>2 DEF ExportsInv, OutInv, ExportMove
  <1>7. SaidInv'
    <2>1. CASE told' = told
      BY <2>1 DEF ExportsInv, SaidInv
    <2>2. CASE told' # told /\ told'.flush = "flushed" /\ told'.alone
      <3>1. p \notin beside /\ s = E!Idle /\ partial' # E!NoFile /\ partial'.length = told'.rows
        BY <2>2 DEF ExportMove
      <3>2. E!Others = {p}
        BY <3>1 DEF ExportsInv, ApartInv, Apart
      <3>3. E!Others' = {}
        BY <1>4, <3>1, <3>2
      <3> QED
        BY <3>1, <3>3 DEF SaidInv
    <2> QED
      BY <2>1, <2>2 DEF SaidInv
  <1> QED
    BY <1>3, <1>5, <1>6, <1>7 DEF ExportsInv

\* An export opens: it is alone, or from now on neither it nor those that run are.
LEMMA ExportOpens ==
    ASSUME ExportsInv, NEW p \in Command, NEW n \in 0 .. MaxRows, NEW force \in BOOLEAN,
           E!ExportOpen(p, n, force)
    PROVE  ExportsInv'
  <1> DEFINE h == E!Handle("exporting", E!Rows(p, n), 0, 0, "partial")
  <1>1. /\ exporter' = [exporter EXCEPT ![p] = h] /\ exporter = [q \in Command |-> exporter[q]]
        /\ partial' = E!Put(E!Rows(p, n), 0, 0) /\ told' = E!Untold
        /\ beside' = IF E!Others = {} THEN beside \ {p} ELSE beside \cup E!Others \cup {p}
        /\ UNCHANGED <<out, mingled>> /\ exporter[p] = E!Idle
    BY DEF E!ExportOpen, E!Goto, ExportsInv, StagesInv
  <1>2. h.at = "exporting" /\ h.file = "partial" /\ h.text = E!Rows(p, n) /\ h.put = 0
    BY Handles
  <1>3. n \in Nat
    BY ClientAssumption
  <1>4. exporter'[p] = h /\ \A q \in Command : q # p => exporter'[q] = exporter[q]
    BY <1>1
  <1>5. StagesInv'
    <2>1. exporter' = [q \in Command |-> exporter'[q]]
      BY <1>1
    <2>2. \A q \in Command : q # p => (IsAt(q) => IsAt(q)')
      BY <1>4 DEF IsAt, Taken
    <2>3. IsAt(p)'
      <3>1. Taken(p, "exporting", n, 0, 0, "partial")'
        BY <1>3, <1>4 DEF Taken
      <3> QED
        BY <1>3, <3>1 DEF IsAt
    <2> QED
      BY <1>4, <2>1, <2>2, <2>3 DEF StagesInv, ExportsInv
  <1> HIDE DEF h
  <1>6. E!Others' = E!Others \cup {p}
    <2>1. \A q \in Command : (q \in E!Others') <=> (exporter'[q].at \in {"exporting", "renaming"})
      BY DEF E!Others, E!Exporting
    <2>2. \A q \in Command : (q \in E!Others) <=> (exporter[q].at \in {"exporting", "renaming"})
      BY DEF E!Others, E!Exporting
    <2>3. E!Others' \subseteq Command /\ E!Others \subseteq Command
      BY DEF E!Others
    <2>4. \A q \in Command : (q \in E!Others') <=> (q = p \/ q \in E!Others)
      BY <1>2, <1>4, <2>1, <2>2
    <2> QED
      BY <2>3, <2>4
  <1>7. ApartInv'
    <2>1. CASE E!Others = {}
      <3>1. E!Others' = {p}
        BY <1>6, <2>1
      <3>2. Apart(p)'
        BY <1>1, <1>2, <1>4, <3>1 DEF Apart
      <3> QED
        BY <3>1, <3>2 DEF ApartInv
    <2>2. CASE E!Others # {}
      BY <1>1, <1>6, <2>2 DEF ApartInv
    <2> QED
      BY <2>1, <2>2
  <1>8. OutInv'
    <2>1. \A q \in E!Others' : exporter'[q].file = "out" => q \in E!Others /\ exporter[q].file = "out"
      <3>1. \A q \in E!Others' : q = p \/ (q \in E!Others /\ q \in Command)
        BY <1>6 DEF E!Others
      <3> QED
        BY <1>2, <1>4, <3>1
    <2> QED
      BY <1>1, <2>1 DEF ExportsInv, OutInv
  <1>9. SaidInv'
    BY <1>1 DEF SaidInv, E!Untold
  <1> QED
    BY <1>5, <1>7, <1>8, <1>9 DEF ExportsInv

\* An export takes a row, syncs, ends without a rename, or is interrupted.
LEMMA ExportSteps ==
    ASSUME ExportsInv, NEW p \in Command,
           \/ E!ExportRow(p) \/ E!ExportSync(p) \/ E!ExportRenameFails(p)
           \/ E!ExportAbandon(p) \/ E!ExportFails(p) \/ E!Kill(p)
    PROVE  ExportsInv'
  <1>1. p \in E!Others
    BY DEF E!ExportRow, E!ExportSync, E!ExportRenameFails, E!ExportAbandon, E!ExportFails, E!Kill,
           E!Others, E!Exporting
  <1>2. PICK stage \in {"exporting", "renaming"}, place \in {"partial", "out", "gone"},
             n, k, l \in Nat : Taken(p, stage, n, k, l, place)
    BY <1>1, ExportingIsAt DEF IsAt, ExportsInv
  <1>3. /\ exporter[p].at = stage /\ exporter[p].text = E!Rows(p, n) /\ exporter[p].rows = k
        /\ exporter[p].put = l /\ exporter[p].file = place /\ exporter[p].text.length = n
        /\ l <= k /\ k <= n
    BY <1>2, Handles DEF Taken
  <1>4. p \notin beside => Apart(p)
    BY <1>1 DEF ExportsInv, ApartInv
  <1>5. \A m : place # "out" /\ E!WriteOut(p, m) => out' = out
    BY <1>3 DEF E!WriteOut
  <1>6. \A m \in l .. k + 1 : m \in Nat
    OBVIOUS
  <1>7. E!Exporting(p) /\ exporter = [q \in Command |-> exporter[q]]
    BY <1>1 DEF E!Others, ExportsInv, StagesInv
  <1>8. CASE E!ExportRow(p)
    <2>1. PICK m \in l .. k + 1 :
            /\ E!WriteOut(p, m)
            /\ exporter' = [exporter EXCEPT ![p] =
                              E!Handle("exporting", E!Rows(p, n), k + 1, m, place)]
      BY <1>3, <1>8 DEF E!ExportRow, E!Goto
    <2> DEFINE h == E!Handle("exporting", E!Rows(p, n), k + 1, m, place)
    <2>2. k < n /\ UNCHANGED <<told, beside, mingled>>
      BY <1>3, <1>8 DEF E!ExportRow, E!ghosts
    <2>3. exporter'[p] = h
      BY <1>7, <2>1
    <2>4. IsAt(p)'
      <3>1. Taken(p, "exporting", n, k + 1, m, place)'
        BY <2>2, <2>3 DEF Taken
      <3>2. k + 1 \in Nat /\ m \in Nat
        OBVIOUS
      <3> QED
        BY <3>1, <3>2 DEF IsAt
    <2>5. h.at = "exporting" /\ h.file = place /\ h.text = E!Rows(p, n) /\ h.put = m
      BY Handles
    <2>6. p \notin beside /\ E!Others' = {p} => Apart(p)'
      <3> HAVE p \notin beside /\ E!Others' = {p}
      <3>1. place = "partial" /\ \E s \in Nat : partial' = E!Put(E!Rows(p, n), m, s)
        BY <1>3, <1>4, <1>6, <2>1, Writings DEF Apart
      <3> HIDE DEF h
      <3> QED
        BY <2>3, <2>5, <3>1 DEF Apart
    <2>7. exporter' = [exporter EXCEPT ![p] = h]
      BY <2>1
    <2> HIDE DEF h
    <2>8. ExportMove(p, h)
      BY <1>3, <1>5, <2>1, <2>2, <2>4, <2>5, <2>6, <2>7 DEF ExportMove
    <2> QED
      BY <1>1, <2>8, ExportMoves
  <1>9. CASE E!ExportSync(p)
    <2> DEFINE h == E!Handle("renaming", E!Rows(p, n), n, n, place)
    <2>1. /\ k = n
          /\ partial' = (IF place = "partial" THEN E!Synced(E!Through(partial, p, n)) ELSE partial)
          /\ out' = (IF place = "out" THEN E!Synced(E!Through(out, p, n)) ELSE out)
          /\ exporter' = [exporter EXCEPT ![p] = h]
          /\ UNCHANGED <<told, beside, mingled>>
      BY <1>3, <1>9 DEF E!ExportSync, E!Goto, E!ghosts
    <2>2. exporter'[p] = h
      BY <1>7, <2>1
    <2>3. IsAt(p)'
      <3>1. Taken(p, "renaming", n, n, n, place)'
        BY <2>2 DEF Taken
      <3> QED
        BY <3>1 DEF IsAt
    <2>4. h.at = "renaming" /\ h.file = place /\ h.text = E!Rows(p, n) /\ h.put = n
      BY Handles
    <2>5. p \notin beside /\ E!Others' = {p} => Apart(p)'
      <3> HAVE p \notin beside /\ E!Others' = {p}
      <3>1. place = "partial" /\ partial.text = E!Rows(p, n)
        BY <1>3, <1>4, Handles DEF Apart
      <3>2. E!Through(partial, p, n) = E!Put(E!Rows(p, n), n, partial.synced)
        BY <1>3, <3>1 DEF E!Through
      <3>3. partial' = E!Put(E!Rows(p, n), n, n)
        BY <2>1, <3>1, <3>2, Handles DEF E!Synced
      <3> HIDE DEF h
      <3> QED
        BY <2>2, <2>4, <3>1, <3>3 DEF Apart
    <2> HIDE DEF h
    <2>6. ExportMove(p, h)
      BY <1>3, <2>1, <2>3, <2>4, <2>5 DEF ExportMove
    <2> QED
      BY <1>1, <2>6, ExportMoves
  <1>10. CASE E!ExportRenameFails(p) \/ E!Kill(p)
    <2>1. exporter' = [exporter EXCEPT ![p] = E!Idle] /\ UNCHANGED <<out, told, beside, mingled>>
      BY <1>10 DEF E!ExportRenameFails, E!Kill, E!Done, E!Goto, E!ghosts
    <2>2. ExportMove(p, E!Idle)
      BY <2>1 DEF ExportMove
    <2> QED
      BY <1>1, <2>2, ExportMoves
  <1>11. CASE E!ExportFails(p)
    <2>1. exporter' = [exporter EXCEPT ![p] = E!Idle] /\ UNCHANGED <<told, beside, mingled>>
      BY <1>11 DEF E!ExportFails, E!Done, E!Goto, E!ghosts
    <2>2. \E m : E!WriteOut(p, m)
      BY <1>11 DEF E!ExportFails
    <2>3. ExportMove(p, E!Idle)
      BY <1>3, <1>5, <2>1, <2>2 DEF ExportMove
    <2> QED
      BY <1>1, <2>3, ExportMoves
  <1>12. CASE E!ExportAbandon(p)
    <2>1. exporter' = [exporter EXCEPT ![p] = E!Idle] /\ UNCHANGED <<beside, mingled>>
      BY <1>12 DEF E!ExportAbandon, E!Done, E!Goto, E!ghosts
    <2>2. \E m : E!WriteOut(p, m)
      BY <1>12 DEF E!ExportAbandon
    <2>3. \/ /\ E!WriteOut(p, k)
             /\ told' = [flush |-> "flushed", rows |-> k, alone |-> p \notin beside]
          \/ told' = [flush |-> "unconfirmed", rows |-> k, alone |-> p \notin beside]
      BY <1>3, <1>12 DEF E!ExportAbandon
    <2>4. told'.flush = "flushed" /\ told'.alone =>
            p \notin beside /\ partial' # E!NoFile /\ partial'.length = told'.rows
      <3> HAVE told'.flush = "flushed" /\ told'.alone
      <3>1. E!WriteOut(p, k) /\ told'.rows = k
        BY <2>3
      <3>2. p \notin beside
        <4>1. told'.alone = (p \notin beside)
          <5>1. CASE told' = [flush |-> "flushed", rows |-> k, alone |-> p \notin beside]
            BY <5>1
          <5>2. CASE told' = [flush |-> "unconfirmed", rows |-> k, alone |-> p \notin beside]
            BY <5>2
          <5> QED
            BY <2>3, <5>1, <5>2
        <4> QED
          BY <4>1
      <3>3. PICK s \in Nat : partial' = E!Put(E!Rows(p, n), k, s)
        BY <1>3, <1>4, <3>1, <3>2, Writings
      <3> QED
        BY <3>1, <3>2, <3>3, Handles
    <2>5. ExportMove(p, E!Idle)
      BY <1>3, <1>5, <2>1, <2>2, <2>4 DEF ExportMove
    <2> QED
      BY <1>1, <2>5, ExportMoves
  <1> QED
    BY <1>8, <1>9, <1>10, <1>11, <1>12

\* Only one that ran beside another renames a file that somebody still writes.
LEMMA RenameStep ==
    ASSUME ExportsInv, NEW p \in Command, E!ExportRename(p)
    PROVE  ExportsInv'
  <1>1. p \in E!Others /\ exporter[p].at = "renaming"
    BY DEF E!ExportRename, E!Others, E!Exporting
  <1>2. /\ out' = partial /\ mingled' = (p \in beside) /\ UNCHANGED <<told, beside>>
        /\ exporter' = [q \in Command |-> IF q = p THEN E!Idle
                          ELSE IF E!Exporting(q) THEN [exporter[q] EXCEPT !.file = E!Moved(@)]
                          ELSE exporter[q]]
    BY DEF E!ExportRename
  <1>3. exporter'[p] = E!Idle
    BY <1>2
  <1>4. ASSUME NEW q \in E!Others, q # p
        PROVE  IsAt(q)' /\ exporter'[q].at \in {"exporting", "renaming"}
    <2>1. PICK stage \in {"exporting", "renaming"}, place \in {"partial", "out", "gone"},
               n, k, l \in Nat : Taken(q, stage, n, k, l, place)
      BY ExportingIsAt DEF IsAt, ExportsInv
    <2>2. exporter'[q] = [exporter[q] EXCEPT !.file = E!Moved(@)]
      BY <1>2, <1>4 DEF E!Others
    <2>3. exporter'[q] = E!Handle(stage, E!Rows(q, n), k, l, E!Moved(place))
      BY <2>1, <2>2 DEF Taken, E!Handle
    <2>4. E!Moved(place) \in {"partial", "out", "gone"}
      BY DEF E!Moved
    <2>5. Taken(q, stage, n, k, l, E!Moved(place))'
      BY <2>1, <2>3 DEF Taken
    <2>6. IsAt(q)'
      BY <2>4, <2>5 DEF IsAt
    <2> QED
      BY <2>3, <2>6, Handles
  <1>5. ASSUME NEW q \in Command, q \notin E!Others
        PROVE  exporter'[q] = exporter[q] /\ exporter[q] = E!Idle
    <2>1. ~E!Exporting(q) /\ q # p
      BY <1>1, <1>5 DEF E!Others
    <2>2. exporter'[q] = exporter[q]
      BY <1>2, <2>1
    <2>3. IsAt(q) => E!Exporting(q)
      BY Handles DEF IsAt, Taken, E!Exporting
    <2> QED
      BY <2>1, <2>2, <2>3 DEF ExportsInv, StagesInv
  <1>6. StagesInv'
    <2>1. exporter' = [q \in Command |-> exporter'[q]]
      BY <1>2
    <2> QED
      BY <1>3, <1>4, <1>5, <2>1 DEF StagesInv
  <1>7. E!Others' = E!Others \ {p}
    <2>1. \A q \in Command : (q \in E!Others') <=> (exporter'[q].at \in {"exporting", "renaming"})
      BY DEF E!Others, E!Exporting
    <2>2. E!Others' \subseteq Command /\ E!Others \subseteq Command
      BY DEF E!Others
    <2>3. \A q \in Command : (q \in E!Others') <=> (q \in E!Others /\ q # p)
      BY <1>3, <1>4, <1>5, <2>1, Handles
    <2> QED
      BY <2>2, <2>3
  <1>8. SaidInv'
    BY <1>1, <1>2 DEF ExportsInv, SaidInv
  <1>9. CASE p \in beside
    <2>1. E!Others \subseteq beside
      BY <1>1, <1>9, NoneIsApart
    <2>2. ApartInv'
      BY <1>2, <1>7, <2>1 DEF ApartInv
    <2>3. OutInv'
      BY <1>2, <1>9 DEF OutInv
    <2> QED
      BY <1>6, <1>8, <2>2, <2>3 DEF ExportsInv
  <1>10. CASE p \notin beside
    <2>1. Apart(p)
      BY <1>1, <1>10 DEF ExportsInv, ApartInv
    <2>2. E!Others' = {}
      BY <1>7, <2>1 DEF Apart
    <2>3. PICK stage \in {"exporting", "renaming"}, place \in {"partial", "out", "gone"},
               n, k, l \in Nat : Taken(p, stage, n, k, l, place)
      BY <1>1, ExportingIsAt DEF IsAt, ExportsInv
    <2>4. stage = "renaming" /\ exporter[p].text = E!Rows(p, n) /\ exporter[p].put = n
      BY <1>1, <2>3, Handles DEF Taken
    <2>5. partial = E!Put(E!Rows(p, n), n, n)
      BY <1>1, <2>1, <2>4 DEF Apart
    <2>6. out' = E!WholeFile(E!Rows(p, n))
      BY <1>2, <2>5, Handles DEF E!WholeFile
    <2>7. ApartInv' /\ OutInv'
      BY <2>2, <2>6 DEF ApartInv, OutInv
    <2> QED
      BY <1>6, <1>8, <2>7 DEF ExportsInv
  <1> QED
    BY <1>9, <1>10

\* The power fails, or the user removes the export: nobody has it open then.
LEMMA LossStep ==
    ASSUME ExportsInv, E!PowerFailure \/ E!Edit
    PROVE  ExportsInv'
  <1>1. CASE E!PowerFailure
    <2>1. /\ exporter' = [p \in Command |-> E!Idle] /\ told' = E!Untold
          /\ out' \in E!Left(out) /\ UNCHANGED <<beside, mingled>>
      BY <1>1 DEF E!PowerFailure, E!ghosts
    <2>2. E!Others' = {}
      BY <2>1, Handles DEF E!Others, E!Exporting
    <2>3. StagesInv' /\ ApartInv'
      BY <2>1, <2>2 DEF StagesInv, ApartInv
    <2>4. SaidInv'
      BY <2>1 DEF SaidInv, E!Untold
    <2>5. E!Left(E!NoFile) = {E!NoFile}
      BY DEF E!Left, E!Exists
    <2>6. ASSUME NEW q, NEW n \in Nat
          PROVE  E!Left(E!WholeFile(E!Rows(q, n))) = {E!WholeFile(E!Rows(q, n))}
      <3> DEFINE t == E!Rows(q, n)
      <3>1. t.length = n /\ E!WholeFile(t) = E!Put(t, n, n)
        BY Handles DEF E!WholeFile
      <3> HIDE DEF t
      <3>2. E!Left(E!Put(t, n, n)) = {E!Put(t, m, m) : m \in n .. n}
        BY Handles DEF E!Left, E!Exists
      <3>3. n .. n = {n}
        OBVIOUS
      <3> QED
        BY <3>1, <3>2, <3>3 DEF t
    <2>7. OutInv'
      BY <2>1, <2>2, <2>5, <2>6 DEF ExportsInv, OutInv
    <2> QED
      BY <2>3, <2>4, <2>7 DEF ExportsInv
  <1>2. CASE E!Edit
    <2>1. /\ out' = E!NoFile /\ UNCHANGED <<partial, told, beside, mingled>>
          /\ exporter' = [q \in Command |-> IF E!Exporting(q) /\ exporter[q].file = "out"
                                            THEN [exporter[q] EXCEPT !.file = "gone"]
                                            ELSE exporter[q]]
      BY <1>2 DEF E!Edit, E!ghosts
    <2>2. ASSUME NEW q \in E!Others, exporter[q].file = "out"
          PROVE  /\ IsAt(q)' /\ exporter'[q].file # "out"
                 /\ exporter'[q].at \in {"exporting", "renaming"}
      <3>1. PICK stage \in {"exporting", "renaming"}, place \in {"partial", "out", "gone"},
                 n, k, l \in Nat : Taken(q, stage, n, k, l, place)
        BY ExportingIsAt DEF IsAt, ExportsInv
      <3>2. exporter'[q] = [exporter[q] EXCEPT !.file = "gone"]
        BY <2>1, <2>2 DEF E!Others
      <3>3. exporter'[q] = E!Handle(stage, E!Rows(q, n), k, l, "gone")
        BY <3>1, <3>2 DEF Taken, E!Handle
      <3>4. Taken(q, stage, n, k, l, "gone")'
        BY <3>1, <3>3 DEF Taken
      <3>5. IsAt(q)'
        BY <3>4 DEF IsAt
      <3> QED
        BY <3>3, <3>5, Handles
    <2>3. ASSUME NEW q \in Command, q \notin E!Others \/ exporter[q].file # "out"
          PROVE  exporter'[q] = exporter[q]
      BY <2>1, <2>3 DEF E!Others
    <2>4. StagesInv'
      <3>1. exporter' = [q \in Command |-> exporter'[q]]
        BY <2>1
      <3>2. \A q \in Command : exporter'[q] = exporter[q] => (IsAt(q) => IsAt(q)')
        BY DEF IsAt, Taken
      <3> QED
        BY <2>2, <2>3, <3>1, <3>2 DEF ExportsInv, StagesInv
    <2>5. E!Others' = E!Others
      <3>1. \A q \in Command : (q \in E!Others') <=> (exporter'[q].at \in {"exporting", "renaming"})
        BY DEF E!Others, E!Exporting
      <3>2. \A q \in Command : (q \in E!Others) <=> (exporter[q].at \in {"exporting", "renaming"})
        BY DEF E!Others, E!Exporting
      <3>3. E!Others' \subseteq Command /\ E!Others \subseteq Command
        BY DEF E!Others
      <3>4. \A q \in Command : (q \in E!Others') <=> (q \in E!Others)
        BY <2>2, <2>3, <3>1, <3>2
      <3> QED
        BY <3>3, <3>4
    <2>6. ApartInv'
      <3> SUFFICES ASSUME NEW q \in E!Others', q \notin beside
                   PROVE  Apart(q)'
        BY <2>1 DEF ApartInv
      <3>1. Apart(q) /\ q \in Command
        BY <2>5 DEF ExportsInv, ApartInv, E!Others
      <3>2. exporter'[q] = exporter[q]
        BY <2>3, <3>1 DEF Apart
      <3> QED
        BY <2>1, <2>5, <3>1, <3>2 DEF Apart
    <2>7. OutInv'
      <3>1. \A q \in E!Others' : exporter'[q].file # "out"
        <4>1. \A q \in E!Others' : q \in E!Others /\ q \in Command
          BY <2>5 DEF E!Others
        <4> QED
          BY <2>2, <2>3, <4>1
      <3> QED
        BY <2>1, <3>1 DEF OutInv
    <2>8. SaidInv'
      BY <2>1, <2>5 DEF ExportsInv, SaidInv
    <2> QED
      BY <2>4, <2>6, <2>7, <2>8 DEF ExportsInv
  <1> QED
    BY <1>1, <1>2

\* Of the parts of the client, the invariant is about its exports.
OfExports == part = "exports" => ExportsInv

\* No export runs yet.
LEMMA ExportsStart == Init => OfExports
  <1> SUFFICES ASSUME E!Init PROVE ExportsInv
    BY DEF Init, OfExports
  <1>1. E!Others = {}
    BY Handles DEF E!Init, E!Others, E!Exporting
  <1> QED
    BY <1>1 DEF E!Init, ExportsInv, StagesInv, ApartInv, OutInv, SaidInv, E!Untold

\* A step of the client is one of its exports' or leaves them.
LEMMA ExportsMove == OfExports /\ [Next]_vars => OfExports'
  <1> SUFFICES ASSUME OfExports, [Next]_vars, part' = "exports"
               PROVE  ExportsInv'
    BY DEF OfExports
  <1>1. CASE UNCHANGED vars
    <2>1. ExportsInv /\ UNCHANGED <<out, partial, exporter, told, beside, mingled>>
      BY <1>1 DEF vars, exports, OfExports
    <2>2. E!Others' = E!Others
      BY <2>1 DEF E!Others, E!Exporting
    <2>3. StagesInv'
      BY <2>1 DEF ExportsInv, StagesInv, IsAt, Taken
    <2>4. ApartInv'
      BY <2>1, <2>2 DEF ExportsInv, ApartInv, Apart
    <2>5. OutInv' /\ SaidInv'
      BY <2>1, <2>2 DEF ExportsInv, OutInv, SaidInv
    <2> QED
      BY <2>3, <2>4, <2>5 DEF ExportsInv
  <1>2. CASE part = "exports" /\ E!Next
    <2>1. ExportsInv
      BY <1>2 DEF OfExports
    <2>2. CASE E!Edit \/ E!PowerFailure
      BY <2>1, <2>2, LossStep
    <2>3. ASSUME NEW p \in Command,
                 \/ E!ExportRow(p) \/ E!ExportSync(p) \/ E!ExportRenameFails(p)
                 \/ E!ExportAbandon(p) \/ E!ExportFails(p) \/ E!Kill(p)
          PROVE  ExportsInv'
      BY <2>1, <2>3, ExportSteps
    <2>4. ASSUME NEW p \in Command, E!ExportRename(p)
          PROVE  ExportsInv'
      BY <2>1, <2>4, RenameStep
    <2>5. ASSUME NEW p \in Command, NEW force \in BOOLEAN, NEW n \in 0 .. MaxRows,
                 E!ExportOpen(p, n, force)
          PROVE  ExportsInv'
      BY <2>1, <2>5, ExportOpens
    <2> QED
      BY <1>2, <2>2, <2>3, <2>4, <2>5 DEF E!Next
  <1> QED
    BY <1>1, <1>2 DEF Next

\* However many processes export to a destination, whatever they leave, fails or loses power: the
\* file there is complete unless the export that put it there ran beside another, and the rows that
\* an interrupted one says are in its partial file are in it, with the same exception
\* (export.rs:7 and 11).
THEOREM ExportsAreTold == Spec => []ExportsAreAsTold
  <1>1. OfExports => ExportsAreAsTold
    <2> SUFFICES ASSUME ExportsInv PROVE E!ExportsAreAsTold
      BY DEF OfExports, ExportsAreAsTold
    <2>1. E!IsWhole(E!NoFile)
      BY DEF E!IsWhole, E!Exists
    <2>2. \A t : E!IsWhole(E!WholeFile(t))
      BY Handles DEF E!IsWhole, E!WholeFile
    <2> QED
      BY <2>1, <2>2 DEF ExportsInv, OutInv, SaidInv, E!ExportsAreAsTold, E!Exists
  <1> QED
    BY ExportsStart, ExportsMove, <1>1, PTL DEF Spec

----------------------------------------------------------------------------
(* The targets: what each stage knows of the one that it is about. *)

\* A target says all of its fields.
Whole(t) ==
    t = [host |-> t.host, user |-> t.user, sslmode |-> t.sslmode, password |-> t.password,
         auth |-> t.auth, read_only |-> t.read_only]

\* Some layer says how much protection is asked for.
ModeIsAsked == \E layer \in {args, text, T!Service, env} : T!Says(layer, "sslmode")

\* What was resolved from the layers as they are.
Resolves(t) ==
    /\ Whole(t)
    /\ T!IsLocal(t.host) \/ t.sslmode = "verify-full" \/ ModeIsAsked
    /\ T!Says(args, "read_only") => t.read_only

\* What is proved to a server that a provider identifies.
IsFetched(t) == t.auth # "none" => t.password = "token" /\ T!RequiresTls(t.sslmode)

\* The connection that was opened last.
IsOpened ==
    /\ Resolves(target) /\ Resolves(opened.target) /\ IsFetched(opened.target)
    /\ opened.target = [target EXCEPT !.password = opened.target.password,
                                      !.read_only = opened.target.read_only]
    /\ T!Accepts(opened.target.sslmode, opened.server)
    /\ opened.tells \in T!Tells(opened.target.sslmode, opened.server)

\* The inductive invariant of the targets: what each stage knows of the target, and what was
\* opened with it.
TargetsInv ==
    /\ at \in {"start", "picker", "resolve", "authenticate"} => opened = T!NotOpened
    /\ at \in {"authenticate", "reach", "connect", "ask"} => Resolves(target)
    /\ at \in {"reach", "connect"} => IsFetched(target)
    /\ at = "ask" => /\ opened # T!NotOpened
                     /\ failure = "authentication" /\ target.auth = "none"
    /\ opened # T!NotOpened => IsOpened

\* What is resolved from the layers stays resolved while they are as they are.
LEMMA LayersStay ==
    ASSUME UNCHANGED <<args, text, env>>
    PROVE  /\ T!Service' = T!Service /\ ModeIsAsked' = ModeIsAsked
           /\ \A t : Resolves(t)' = Resolves(t)
  <1>1. T!Service' = T!Service
    BY DEF T!Service, T!ServiceName, T!FirstOf, T!Says
  <1>2. ModeIsAsked' = ModeIsAsked
    BY <1>1 DEF ModeIsAsked, T!Says
  <1>3. ASSUME NEW t PROVE Resolves(t)' = Resolves(t)
    BY <1>2 DEF Resolves, Whole, T!Says, T!IsLocal
  <1> QED
    BY <1>1, <1>2, <1>3

\* A value that is not the default comes from a layer that says it.
LEMMA FirstOfSays ==
    ASSUME NEW a, NEW b, NEW c, NEW d, NEW key, NEW otherwise,
           T!FirstOf(<<a>> \o <<b, c, d>>, key, otherwise) # otherwise
    PROVE  \E layer \in {a, b, c, d} : T!Says(layer, key)
  <1> DEFINE layers == <<a>> \o <<b, c, d>>
             saying == {i \in DOMAIN layers : T!Says(layers[i], key)}
             i == CHOOSE i \in saying : \A j \in saying : i <= j
  <1>1. <<a>> \in Seq({a, b, c, d}) /\ <<b, c, d>> \in Seq({a, b, c, d})
    OBVIOUS
  <1>2. layers \in Seq({a, b, c, d})
    BY <1>1
  <1>3. \A n \in DOMAIN layers : layers[n] \in {a, b, c, d}
    BY <1>2
  <1>4. saying # {}
    BY DEF T!FirstOf
  <1> QED
    BY <1>3, <1>4

\* What resolve() returns is resolved: the mode is verify-full where nothing asks otherwise.
LEMMA ResolvedResolves == Resolves(T!Resolved)
  <1> DEFINE t == T!Resolved
  <1>1. Whole(t)
    BY DEF Whole, T!Resolved
  <1>2. t.sslmode = T!Mode /\ t.host = T!Host
    BY DEF T!Resolved
  <1>3. T!Says(args, "read_only") => t.read_only
    BY DEF T!Resolved
  <1>4. T!IsLocal(T!Host) \/ T!Mode = "verify-full" \/ ModeIsAsked
    <2>1. ASSUME ~T!IsLocal(T!Host), T!Mode # "verify-full" PROVE ModeIsAsked
      <3>1. T!FirstOf(<<args>> \o <<text, T!Service, env>>, "sslmode", "verify-full") # "verify-full"
        BY <2>1 DEF T!Mode, T!Layers
      <3> QED
        BY <3>1, FirstOfSays DEF ModeIsAsked
    <2> QED
      BY <2>1
  <1> QED
    BY <1>1, <1>2, <1>3, <1>4 DEF Resolves

\* A target that is opened is accepted by the server that answers, and told as it is; the
\* password is asked for only after a server has refused one.
LEMMA Opens ==
    ASSUME NEW t, T!Open(t), Resolves(target), Resolves(t), IsFetched(t),
           t = [target EXCEPT !.password = t.password, !.read_only = t.read_only],
           UNCHANGED <<args, text, env, target>>
    PROVE  /\ opened' # T!NotOpened => IsOpened'
           /\ failure' = "authentication" => opened' # T!NotOpened
  <1>1. Resolves(target)' /\ Resolves(t)'
    BY LayersStay
  <1>2. CASE opened' = T!NotOpened
    BY <1>2 DEF T!Open, T!NotOpened
  <1>3. CASE opened' # T!NotOpened
    <2>1. PICK peer \in T!ServersAt(t.host) :
            /\ T!Accepts(t.sslmode, peer)
            /\ \E tells \in T!Tells(t.sslmode, peer) :
                 opened' = [target |-> t, what |-> "session", server |-> peer,
                            tells |-> tells]
      BY <1>3 DEF T!Open
    <2>2. PICK tells \in T!Tells(t.sslmode, peer) :
            opened' = [target |-> t, what |-> "session", server |-> peer, tells |-> tells]
      BY <2>1
    <2>3. opened'.target = t /\ opened'.server = peer /\ opened'.tells = tells
      BY <2>2
    <2>4. Resolves(opened.target)'
      BY <1>1, <2>3 DEF Resolves, Whole
    <2>5. IsFetched(opened.target)'
      BY <2>3 DEF IsFetched
    <2>6. T!Accepts(opened.target.sslmode, opened.server)'
      BY <2>1, <2>3 DEF T!Accepts, T!Verifies
    <2>7. (opened.tells \in T!Tells(opened.target.sslmode, opened.server))'
      BY <2>2, <2>3 DEF T!Tells
    <2>8. (opened.target = [target EXCEPT !.password = opened.target.password,
                                         !.read_only = opened.target.read_only])'
      BY <2>3
    <2> QED
      BY <1>1, <1>3, <2>4, <2>5, <2>6, <2>7, <2>8 DEF IsOpened
  <1> QED
    BY <1>2, <1>3

\* No connection is of no kind.
LEMMA ModesApart == T!NotOpened.what = "nothing"
  BY DEF T!NotOpened

\* What for_object_tree() makes of a target.
LEMMA ReadOnly ==
    ASSUME NEW t, Whole(t), NEW b
    PROVE  [t EXCEPT !.read_only = b] =
             [host |-> t.host, user |-> t.user, sslmode |-> t.sslmode, password |-> t.password,
              auth |-> t.auth, read_only |-> b]
  BY DEF Whole

\* A step that opens nothing and resolves nothing leaves what was opened.
LEMMA Unmoved ==
    ASSUME TargetsInv, UNCHANGED <<args, text, env, target, opened>>
    PROVE  /\ opened' # T!NotOpened => IsOpened'
           /\ Resolves(target)' = Resolves(target)
  <1>1. Resolves(target)' = Resolves(target) /\ Resolves(opened.target)' = Resolves(opened.target)
    BY LayersStay DEF Resolves, Whole
  <1>2. IsOpened' = IsOpened
    BY <1>1 DEF IsOpened, IsFetched, T!Accepts, T!Verifies, T!Tells, T!RequiresTls
  <1> QED
    BY <1>1, <1>2 DEF TargetsInv, T!NotOpened

\* Every step of the resolution, the authentication and the connection keeps the invariant.
LEMMA TargetsStep ==
    ASSUME TargetsInv, T!Next
    PROVE  TargetsInv'
  <1>1. CASE T!Choose
    <2>1. at = "start" /\ opened' = T!NotOpened
      BY <1>1 DEF T!Choose, TargetsInv
    <2>2. at' \in {"picker", "left", "failed", "resolve"}
      BY <1>1 DEF T!Choose, T!FailsWith, T!Failed
    <2> QED
      BY <2>1, <2>2 DEF TargetsInv, T!NotOpened
  <1>2. CASE T!Resolve
    <2>1. at = "resolve" /\ opened' = T!NotOpened /\ UNCHANGED <<args, text, env>>
      BY <1>2 DEF T!Resolve, TargetsInv
    <2>2. CASE T!IsRefused
      <3>1. at' \in {"left", "failed"}
        BY <1>2, <2>2 DEF T!Resolve, T!FailsWith, T!Failed
      <3> QED
        BY <2>1, <3>1 DEF TargetsInv, T!NotOpened
    <2>3. CASE ~T!IsRefused
      <3>1. at' = "authenticate" /\ target' = T!Resolved
        BY <1>2, <2>3 DEF T!Resolve
      <3>2. Resolves(T!Resolved)
        BY ResolvedResolves
      <3>3. Resolves(target)'
        BY <2>1, <3>1, <3>2, LayersStay DEF Resolves, Whole
      <3> QED
        BY <2>1, <3>1, <3>3 DEF TargetsInv, T!NotOpened
    <2> QED
      BY <2>2, <2>3
  <1>3. CASE T!Authenticate
    <2>1. /\ at = "authenticate" /\ opened' = T!NotOpened /\ UNCHANGED <<args, text, env>>
          /\ Resolves(target)
      BY <1>3 DEF T!Authenticate, TargetsInv
    <2>2. CASE at' \in {"left", "failed"}
      BY <2>1, <2>2 DEF TargetsInv, T!NotOpened
    <2>3. CASE at' \notin {"left", "failed"}
      <3>1. at' \in {"reach", "connect"}
        BY <1>3, <2>3 DEF T!Authenticate, T!Proven, T!FailsWith, T!Failed
      <3>2. \/ UNCHANGED target /\ target.auth = "none"
            \/ T!RequiresTls(target.sslmode) /\ target' = [target EXCEPT !.password = "token"]
        BY <1>3, <2>3 DEF T!Authenticate, T!IsProvided, T!FailsWith, T!Failed
      <3>3. CASE UNCHANGED target /\ target.auth = "none"
        <4>1. Resolves(target)' /\ IsFetched(target)'
          BY <2>1, <3>3, LayersStay DEF Resolves, Whole, IsFetched
        <4> QED
          BY <2>1, <3>1, <4>1 DEF TargetsInv, T!NotOpened
      <3>4. CASE T!RequiresTls(target.sslmode) /\ target' = [target EXCEPT !.password = "token"]
        <4>1. target' = [host |-> target.host, user |-> target.user, sslmode |-> target.sslmode,
                         password |-> "token", auth |-> target.auth,
                         read_only |-> target.read_only]
          BY <2>1, <3>4 DEF Resolves, Whole
        <4>2. Resolves(target')
          BY <2>1, <4>1 DEF Resolves, Whole
        <4>3. Resolves(target)'
          BY <2>1, <4>2, LayersStay DEF Resolves, Whole
        <4>4. IsFetched(target)'
          BY <3>4, <4>1 DEF IsFetched, T!RequiresTls
        <4> QED
          BY <2>1, <3>1, <4>3, <4>4 DEF TargetsInv, T!NotOpened
      <3> QED
        BY <3>2, <3>3, <3>4
    <2> QED
      BY <2>2, <2>3
  <1>4. CASE T!Reach
    <2>1. at = "reach" /\ at' \in {"connect", "left"} /\ UNCHANGED <<args, text, env, target, opened>>
      BY <1>4 DEF T!Reach
    <2>2. IsFetched(target)'
      BY <2>1 DEF TargetsInv, IsFetched, T!RequiresTls
    <2> QED
      BY <2>1, <2>2, Unmoved DEF TargetsInv
  <1>5. CASE T!Connect
    <2>1. /\ at = "connect" /\ T!Open(target) /\ UNCHANGED <<args, text, env, target>>
          /\ Resolves(target) /\ IsFetched(target)
      BY <1>5 DEF T!Connect, TargetsInv
    <2>2. at' \in {"left", "failed", "connected", "ask"}
      BY <1>5 DEF T!Connect, T!After, T!Established, T!Failed
    <2>3. at' = "ask" => failure' = "authentication" /\ target.auth = "none"
      BY <1>5 DEF T!Connect, T!After, T!Established, T!Failed, T!Asks
    <2>4. target = [target EXCEPT !.password = target.password, !.read_only = target.read_only]
      BY <2>1 DEF Resolves, Whole
    <2>5. /\ opened' # T!NotOpened => IsOpened'
          /\ failure' = "authentication" => opened' # T!NotOpened
      BY <2>1, <2>4, Opens
    <2>6. Resolves(target)'
      BY <2>1, LayersStay DEF Resolves, Whole
    <2> QED
      BY <2>1, <2>2, <2>3, <2>5, <2>6 DEF TargetsInv, T!NotOpened
  <1>6. CASE T!Answer
    <2> DEFINE t == [target EXCEPT !.password = "typed"]
    <2>1. /\ at = "ask" /\ T!Open(t) /\ UNCHANGED <<args, text, env, target>>
          /\ Resolves(target) /\ target.auth = "none"
      BY <1>6 DEF T!Answer, TargetsInv
    <2>2. at' \in {"left", "failed", "connected", "ask"}
      BY <1>6 DEF T!Answer, T!After, T!Established, T!Failed
    <2>3. at' = "ask" => failure' = "authentication"
      BY <1>6 DEF T!Answer, T!After, T!Established, T!Failed, T!Asks
    <2>4. t = [host |-> target.host, user |-> target.user, sslmode |-> target.sslmode,
               password |-> "typed", auth |-> target.auth, read_only |-> target.read_only]
      BY <2>1 DEF Resolves, Whole
    <2>5. Resolves(t) /\ IsFetched(t)
      BY <2>1, <2>4 DEF Resolves, Whole, IsFetched
    <2>6. t = [target EXCEPT !.password = t.password, !.read_only = t.read_only]
      BY <2>1, <2>4 DEF Resolves, Whole
    <2> HIDE DEF t
    <2>7. /\ opened' # T!NotOpened => IsOpened'
          /\ failure' = "authentication" => opened' # T!NotOpened
      BY <2>1, <2>5, <2>6, Opens
    <2>8. Resolves(target)'
      BY <2>1, LayersStay DEF Resolves, Whole
    <2> QED
      BY <2>1, <2>2, <2>3, <2>7, <2>8 DEF TargetsInv, T!NotOpened
  <1>7. CASE T!Decline
    <2>1. at' \in {"left", "failed"} /\ UNCHANGED <<args, text, env, target, opened>>
      BY <1>7 DEF T!Decline, T!Failed
    <2> QED
      BY <2>1, Unmoved DEF TargetsInv
  <1>8. CASE T!OpenTree
    <2> DEFINE t == [opened.target EXCEPT !.read_only = TRUE]
    <2>1. /\ at' = "connected" /\ opened # T!NotOpened /\ UNCHANGED <<args, text, env, target>>
          /\ IsOpened
      BY <1>8, ModesApart DEF T!OpenTree, TargetsInv
    <2>2. PICK peer \in T!ServersAt(t.host) :
            /\ T!Accepts(t.sslmode, peer)
            /\ \E tells \in T!Tells(t.sslmode, peer) :
                 opened' = [target |-> t, what |-> "tree", server |-> peer, tells |-> tells]
      BY <1>8 DEF T!OpenTree
    <2>3. PICK tells \in T!Tells(t.sslmode, peer) :
            opened' = [target |-> t, what |-> "tree", server |-> peer, tells |-> tells]
      BY <2>2
    <2>4. opened'.target = t /\ opened'.server = peer /\ opened'.tells = tells
      BY <2>3
    <2>5. Whole(opened.target) /\ Whole(target)
      BY <2>1 DEF IsOpened, Resolves
    <2>6. t = [host |-> opened.target.host, user |-> opened.target.user,
               sslmode |-> opened.target.sslmode, password |-> opened.target.password,
               auth |-> opened.target.auth, read_only |-> TRUE]
      BY <2>5, ReadOnly
    <2>7. Resolves(t) /\ IsFetched(t)
      BY <2>1, <2>6 DEF IsOpened, Resolves, Whole, IsFetched
    <2>8. t = [target EXCEPT !.password = t.password, !.read_only = t.read_only]
      BY <2>1, <2>5, <2>6 DEF IsOpened, Whole
    <2> HIDE DEF t
    <2>9. Resolves(target)' /\ Resolves(opened.target)'
      BY <2>1, <2>4, <2>7, LayersStay DEF Resolves, Whole, IsOpened
    <2>10. IsFetched(opened.target)'
      BY <2>4, <2>7 DEF IsFetched
    <2>11. T!Accepts(opened.target.sslmode, opened.server)'
      BY <2>2, <2>4 DEF T!Accepts, T!Verifies
    <2>12. (opened.tells \in T!Tells(opened.target.sslmode, opened.server))'
      BY <2>3, <2>4 DEF T!Tells
    <2>13. (opened.target = [target EXCEPT !.password = opened.target.password,
                                          !.read_only = opened.target.read_only])'
      BY <2>1, <2>4, <2>8
    <2>14. IsOpened'
      BY <2>9, <2>10, <2>11, <2>12, <2>13 DEF IsOpened
    <2> QED
      BY <2>1, <2>14 DEF TargetsInv
  <1>9. ASSUME NEW profile, T!Pick(profile)
        PROVE  TargetsInv'
    BY <1>9 DEF T!Pick, TargetsInv, T!NotOpened
  <1> QED
    BY <1>1, <1>2, <1>3, <1>4, <1>5, <1>6, <1>7, <1>8, <1>9 DEF T!Next

\* The invariant says what the property does.
LEMMA TargetsTold ==
    ASSUME TargetsInv
    PROVE  T!OpenedAsAsked
  <1>1. at = "ask" => opened # T!NotOpened /\ failure = "authentication" /\ target.auth = "none"
    BY DEF TargetsInv
  <1>2. ASSUME opened # T!NotOpened
        PROVE  LET t == opened.target
               IN /\ <<t.host, t.user, t.sslmode, t.auth>> =
                        <<target.host, target.user, target.sslmode, target.auth>>
                  /\ \/ T!IsLocal(t.host) \/ opened.server = "trusted"
                     \/ \E layer \in {args, text, T!Service, env} : T!Says(layer, "sslmode")
                  /\ t.sslmode = "verify-ca" => opened.server \in {"trusted", "misnamed"}
                  /\ t.auth # "none" =>
                        t.password = "token" /\ T!IsEncrypted(t.sslmode, opened.server)
                  /\ opened.tells # "unknown" =>
                        (opened.tells = "active") = T!IsEncrypted(t.sslmode, opened.server)
                  /\ T!Says(args, "read_only") => t.read_only
    <2> DEFINE t == opened.target
    <2>1. IsOpened
      BY <1>2 DEF TargetsInv
    <2>2. <<t.host, t.user, t.sslmode, t.auth>> =
            <<target.host, target.user, target.sslmode, target.auth>>
      BY <2>1 DEF IsOpened, Resolves, Whole
    <2>3. /\ T!IsLocal(t.host) \/ t.sslmode = "verify-full" \/ ModeIsAsked
          /\ T!Says(args, "read_only") => t.read_only
          /\ T!Accepts(t.sslmode, opened.server)
          /\ opened.tells \in T!Tells(t.sslmode, opened.server)
          /\ t.auth # "none" => t.password = "token" /\ T!RequiresTls(t.sslmode)
      BY <2>1 DEF IsOpened, Resolves, IsFetched
    <2> HIDE DEF t
    <2>4. t.sslmode = "verify-full" => opened.server = "trusted"
      BY <2>3 DEF T!Accepts, T!Verifies, T!RequiresTls
    <2>5. t.sslmode = "verify-ca" => opened.server \in {"trusted", "misnamed"}
      BY <2>3 DEF T!Accepts, T!Verifies, T!RequiresTls
    <2>6. T!RequiresTls(t.sslmode) => T!IsEncrypted(t.sslmode, opened.server)
      BY <2>3 DEF T!Accepts, T!RequiresTls, T!IsEncrypted
    <2>7. opened.tells # "unknown" =>
            (opened.tells = "active") = T!IsEncrypted(t.sslmode, opened.server)
      BY <2>3 DEF T!Tells, T!IsEncrypted
    <2> QED
      BY <2>2, <2>3, <2>4, <2>5, <2>6, <2>7 DEF ModeIsAsked, t
  <1> QED
    BY <1>1, <1>2 DEF T!OpenedAsAsked

\* Of the parts of the client, the invariant is about its targets.
OfTargets == part = "targets" => TargetsInv

\* Nothing is resolved or opened before the program starts.
LEMMA TargetsStart == Init => OfTargets
  BY DEF Init, OfTargets, TargetsInv, T!Init, T!NotOpened

\* A step of the client is one of its targets' or leaves them.
LEMMA TargetsMove == OfTargets /\ [Next]_vars => OfTargets'
  <1> SUFFICES ASSUME OfTargets, [Next]_vars, part' = "targets"
               PROVE  TargetsInv'
    BY DEF OfTargets
  <1>1. CASE UNCHANGED vars
    <2>1. TargetsInv /\ UNCHANGED <<at, args, text, env, target, opened, failure>>
      BY <1>1 DEF vars, targets, OfTargets
    <2> QED
      BY <2>1, Unmoved DEF TargetsInv, IsFetched, T!RequiresTls, T!NotOpened
  <1>2. CASE part = "targets" /\ T!Next
    BY <1>2, TargetsStep DEF OfTargets
  <1> QED
    BY <1>1, <1>2 DEF Next

\* Every connection is protected as its layers ask: the server is the one that was named
\* unless a layer asked for less, a provider's token goes only where the connection is
\* encrypted, and the tree opens what the session opened, whatever the profiles, services,
\* environments, password files and attempts (target.rs:668, cloud.rs:245).
THEOREM ConnectionsAreAsAsked == Spec => []OpenedAsAsked
  <1>1. OfTargets => OpenedAsAsked
    BY TargetsTold DEF OfTargets, OpenedAsAsked
  <1> QED
    BY TargetsStart, TargetsMove, <1>1, PTL DEF Spec

----------------------------------------------------------------------------
(* The release files: what a catalogue is, and what is read in it. *)

\* The states of a record and the rows of its targets.
States == R!Status \cup {"draft"}
RowStates == {"covered", "absent", "blocked"}

\* A record has a row for each target and the states that it went through.
IsRecord(r) ==
    /\ {"rows", "history"} \subseteq DOMAIN r
    /\ r.rows \in [Target -> RowStates]
    /\ r.history \in Seq(States) /\ r.history # << >>

\* The inductive invariant of the release files: only records are aggregated and reviewed.
ReleaseInv == catalogue # R!NoFile => IsRecord(catalogue)

\* generate() and aggregate() write records.
LEMMA NewRecords ==
    ASSUME NEW revision, NEW state, NEW artefacts, NEW blockers
    PROVE  IsRecord(R!NewRecord(revision, state, artefacts, blockers))
  <1> DEFINE r == R!NewRecord(revision, state, artefacts, blockers)
  <1>1. r.rows = [t \in Target |-> IF t \in DOMAIN artefacts THEN "covered" ELSE "absent"]
    BY DEF R!NewRecord
  <1>2. r.history \in {R!Unblocked, Append(R!Unblocked, "blocked")}
    BY DEF R!NewRecord
  <1>3. {"rows", "history"} \subseteq DOMAIN r
    BY DEF R!NewRecord
  <1>4. r.history \in Seq(States) /\ r.history # << >>
    <2>1. R!Unblocked \in Seq(States) /\ R!Unblocked # << >> /\ "blocked" \in States
      BY DEF R!Unblocked, States, R!Status
    <2>2. /\ Append(R!Unblocked, "blocked") \in Seq(States)
          /\ Append(R!Unblocked, "blocked") # << >>
      BY <2>1
    <2> QED
      BY <1>2, <2>1, <2>2
  <1> QED
    BY <1>1, <1>3, <1>4 DEF IsRecord, RowStates

\* Whatever a review notes, a record is still one.
LEMMA ReviewedRecords ==
    ASSUME NEW r, IsRecord(r), NEW s \in R!Reviewed(r)
    PROVE  IsRecord(s)
  <1>1. ASSUME NEW q, IsRecord(q), NEW notes
        PROVE  IsRecord(R!Noted(q, notes))
    BY <1>1 DEF IsRecord, R!Noted
  <1>2. ASSUME NEW x \in R!Status
        PROVE  IsRecord(R!Moved(r, x))
    <2>1. R!Moved(r, x).history = Append(r.history, x)
      BY DEF R!Moved, IsRecord
    <2>2. R!Moved(r, x).rows = r.rows /\ DOMAIN R!Moved(r, x) = DOMAIN r
      BY DEF R!Moved, IsRecord
    <2>3. Append(r.history, x) \in Seq(States) /\ Append(r.history, x) # << >>
      BY DEF IsRecord, States
    <2> QED
      BY <2>1, <2>2, <2>3 DEF IsRecord
  <1>3. ASSUME NEW t \in Target,
               s = R!Withheld(r, t)
        PROVE  IsRecord(s)
    <2>1. s.rows = [r.rows EXCEPT ![t] = "blocked"] /\ s.history = r.history /\ DOMAIN s = DOMAIN r
      BY <1>3 DEF IsRecord, R!Withheld
    <2>2. s.rows \in [Target -> RowStates]
      BY <2>1 DEF IsRecord, RowStates
    <2> QED
      BY <2>1, <2>2 DEF IsRecord
  <1>4. ASSUME NEW t \in DOMAIN r.artefacts, NEW b,
               s = R!Resummed(r, t, b)
        PROVE  IsRecord(s)
    <2>1. s.rows = r.rows /\ s.history = r.history /\ DOMAIN s = DOMAIN r
      BY <1>4 DEF IsRecord, R!Resummed
    <2> QED
      BY <2>1 DEF IsRecord
  <1>5. \/ \E x \in R!Status, notes \in {{}, R!Notes} : s = R!Noted(R!Moved(r, x), notes)
        \/ \E n \in R!Notes : s = R!Noted(r, R!Notes \ {n})
        \/ \E t \in Target : s = R!Withheld(r, t)
        \/ \E t \in DOMAIN r.artefacts, b \in R!Bytes : s = R!Resummed(r, t, b)
    BY DEF R!Reviewed
  <1>6. CASE \E x \in R!Status, notes \in {{}, R!Notes} : s = R!Noted(R!Moved(r, x), notes)
    BY <1>1, <1>2, <1>6
  <1>7. CASE \E n \in R!Notes : s = R!Noted(r, R!Notes \ {n})
    BY <1>1, <1>7
  <1> QED
    BY <1>3, <1>4, <1>5, <1>6, <1>7

\* Every command and every edit leaves a catalogue that is a record.
LEMMA ReleaseStep ==
    ASSUME ReleaseInv, R!Next
    PROVE  ReleaseInv'
  <1>1. CASE R!Aggregate
    <2>1. \E q, v, a, b : catalogue' = R!NewRecord(q, v, a, b)
      BY <1>1 DEF R!Aggregate
    <2> QED
      BY <2>1, NewRecords DEF ReleaseInv, IsRecord
  <1>2. CASE R!Review
    <2>1. IsRecord(catalogue) /\ catalogue' \in R!Reviewed(catalogue)
      BY <1>2 DEF R!Review, ReleaseInv
    <2>2. IsRecord(catalogue')
      BY <2>1, ReviewedRecords
    <2> QED
      BY <2>2 DEF ReleaseInv, IsRecord
  <1>3. CASE R!Discard
    BY <1>3 DEF R!Discard, ReleaseInv, R!NoFile, IsRecord
  <1>4. CASE UNCHANGED catalogue
    BY <1>4 DEF ReleaseInv, R!NoFile, IsRecord
  <1>5. UNCHANGED catalogue \/ R!Aggregate \/ R!Review \/ R!Discard
    BY DEF R!Next, R!Generate, R!Build, R!Checkout, R!Collect
  <1> QED
    BY <1>1, <1>2, <1>3, <1>4, <1>5

\* A chain of states that validate_state_history() lets pass and that ends at a publishable
\* state has been ready and never blocked: nothing leads from blocked to ready.
LEMMA Histories ==
    ASSUME NEW r, IsRecord(r), R!validate_state_history(r) = {}, r.status \in R!Publishable
    PROVE  R!Was(r, "ready") /\ ~R!Was(r, "blocked")
  <1> DEFINE h == r.history
             n == Len(h)
  <1>1. h \in Seq(States) /\ n \in Nat \ {0} /\ DOMAIN h = 1 .. n
    BY DEF IsRecord
  <1>2. /\ Head(h) = "draft" /\ h[n] = r.status
        /\ \A i \in 1 .. n - 1 : <<h[i], h[i + 1]>> \in R!valid_transition
    BY DEF R!validate_state_history, R!When
  <1>3. h[1] = "draft"
    BY <1>1, <1>2
  <1> HIDE DEF h, n
  <1>4. ASSUME NEW i \in 1 .. n
        PROVE  h[i] # "blocked"
    <2>1. CASE i = n
      BY <1>2, <2>1 DEF R!Publishable
    <2>2. CASE i # n
      <3>1. i \in 1 .. n - 1
        BY <1>1, <2>2
      <3> QED
        BY <1>2, <3>1 DEF R!valid_transition
    <2> QED
      BY <2>1, <2>2
  <1>5. \E i \in 1 .. n : h[i] = "ready"
    <2>1. CASE r.status = "ready"
      BY <1>1, <1>2, <2>1
    <2>2. CASE r.status = "published"
      <3>1. n # 1
        BY <1>2, <1>3, <2>2
      <3>2. n - 1 \in 1 .. n - 1 /\ (n - 1) + 1 = n
        BY <1>1, <3>1
      <3>3. <<h[n - 1], h[n]>> \in R!valid_transition
        BY <1>2, <3>2
      <3>4. h[n - 1] = "ready"
        BY <1>2, <2>2, <3>3 DEF R!valid_transition
      <3> QED
        BY <1>1, <3>2, <3>4
    <2> QED
      BY <2>1, <2>2 DEF R!Publishable
  <1> QED
    BY <1>1, <1>4, <1>5 DEF R!Was, h

\* What check() lets pass.
LEMMA Checks ==
    ASSUME ReleaseInv, R!check(catalogue, bundle)
    PROVE  R!ReadyIsWhole
  <1> DEFINE r == catalogue
             b == bundle
  <1>1. IsRecord(r)
    BY DEF R!check, ReleaseInv
  <1>2. /\ R!validate_artefacts(r) = {} /\ R!validate_evidence(r, b) = {}
        /\ R!validate_bindings(r) = {} /\ R!validate_state_history(r) = {}
        /\ R!Readiness(r) = {} /\ R!Claim(r) = {}
    BY DEF R!check, R!validate_record
  <1>3. r.status \in R!Publishable /\ r.authorised /\ \A t \in Target : r.rows[t] # "absent"
    BY <1>2 DEF R!Claim, R!When, R!validate_supported_target_matrix
  <1>4. r.evidence = "complete"
    BY <1>2 DEF R!Readiness, R!When
  <1>5. b # R!NoFile
    BY <1>2 DEF R!validate_evidence
  <1>6. R!validate_evidence_bundle(r, b) = {}
    BY <1>2, <1>4, <1>5 DEF R!validate_evidence
  <1>7. /\ b.revision = r.revision /\ DOMAIN b.artefacts = DOMAIN r.artefacts
        /\ \A t \in DOMAIN r.artefacts : b.artefacts[t] = r.artefacts[t]
    BY <1>6 DEF R!validate_evidence_bundle, R!validate_evidence_artefacts, R!When
  <1>8. ASSUME NEW t \in DOMAIN r.artefacts
        PROVE  r.artefacts[t].revision = r.revision
    <2> DEFINE Of(u) ==
                 LET a == r.artefacts[u]
                 IN R!When(a.revision # r.revision, "source_revision does not match") \cup
                    R!When(a.sum = 0, "has no checksum")
    <2>1. UNION {Of(u) : u \in DOMAIN r.artefacts} \subseteq R!validate_artefacts(r)
      BY DEF R!validate_artefacts
    <2>2. Of(t) = {}
      BY <1>2, <2>1
    <2> QED
      BY <2>2 DEF R!When
  <1>9. ASSUME NEW t \in Target
        PROVE  (r.rows[t] = "covered") <=> (t \in DOMAIN r.artefacts)
    <2>1. (CASE r.rows[t] = "covered" /\ t \notin DOMAIN r.artefacts
                    -> {"covered target has no artefact"}
             [] r.rows[t] # "covered" /\ t \in DOMAIN r.artefacts
                    -> {"target must not have an artefact"}
             [] OTHER -> {}) \subseteq R!validate_bindings(r)
      BY DEF R!validate_bindings
    <2> QED
      BY <1>2, <2>1
  <1>10. \A t \in Target : r.rows[t] \in {"covered", "blocked"}
    BY <1>1, <1>3 DEF IsRecord, RowStates
  <1>11. R!Was(r, "ready") /\ ~R!Was(r, "blocked")
    BY <1>1, <1>2, <1>3, Histories
  <1> QED
    BY <1>3, <1>5, <1>7, <1>8, <1>9, <1>10, <1>11 DEF R!ReadyIsWhole

\* Of the parts of the client, the invariant is about its releases.
OfRelease == part = "release" => ReleaseInv

\* No catalogue is there before the first command.
LEMMA ReleaseStart == Init => OfRelease
  BY DEF Init, OfRelease, ReleaseInv, R!Init

\* A step of the client is one of its release files' or leaves them.
LEMMA ReleaseMove == OfRelease /\ [Next]_vars => OfRelease'
  <1> SUFFICES ASSUME OfRelease, [Next]_vars, part' = "release"
               PROVE  ReleaseInv'
    BY DEF OfRelease
  <1>1. CASE UNCHANGED vars
    BY <1>1 DEF vars, release, OfRelease, ReleaseInv, R!NoFile, IsRecord
  <1>2. CASE part = "release" /\ R!Next
    BY <1>2, ReleaseStep DEF OfRelease
  <1> QED
    BY <1>1, <1>2 DEF Next

\* A catalogue that check() passes has been ready and never blocked, is authorised, and has
\* for each target a row that its evidence bundle agrees with, however many targets, archives
\* and edits by hand there are (release.rs:5).
THEOREM ReadyHasEvidence == Spec => []ReadyIsWhole
  <1>1. OfRelease => ReadyIsWhole
    <2> SUFFICES ASSUME ReleaseInv PROVE R!ReadyIsWhole
      BY DEF OfRelease, ReadyIsWhole
    <2>1. CASE R!check(catalogue, bundle)
      BY <2>1, Checks
    <2>2. CASE ~R!check(catalogue, bundle)
      BY <2>2 DEF R!ReadyIsWhole
    <2> QED
      BY <2>1, <2>2
  <1> QED
    BY ReleaseStart, ReleaseMove, <1>1, PTL DEF Spec

----------------------------------------------------------------------------
(* The clients without a screen: the list of completions. *)

\* A line that is read ends the list, makes it, or changes neither it nor the lines it is for;
\* no other step has to do with it.
LEMMA ListFollows ==
    ASSUME L!ListIsOfTheseLines, [L!Next]_clients
    PROVE  L!ListIsOfTheseLines'
  <1>1. list' = L!Nothing \/ list' = reader' \/ UNCHANGED <<list, reader>>
    <2>1. CASE UNCHANGED clients
      BY <2>1 DEF clients
    <2>2. CASE L!Connect \/ L!Password \/ L!EndOfInput \/ L!GiveValues \/ L!CancelValues
      BY <2>2 DEF L!Connect, L!Password, L!EndOfInput, L!GiveValues, L!CancelValues
    <2>3. ASSUME NEW line, L!Feed(line)
          PROVE  list' = L!Nothing \/ UNCHANGED <<list, reader>>
      BY <2>3 DEF L!Feed, L!Outdated
    <2>4. ASSUME NEW meta, L!Meta(meta)
          PROVE  list' = L!Nothing \/ list' = reader' \/ UNCHANGED <<list, reader>>
      BY <2>4 DEF L!Meta
    <2>5. CASE L!Format \/ L!Use
      BY <2>5 DEF L!Format, L!Use
    <2>6. ASSUME NEW answer, L!Confirm(answer)
          PROVE  UNCHANGED <<list, reader>>
      BY <2>6 DEF L!Confirm
    <2>7. ASSUME NEW status, L!Run(status) \/ L!QueryRun(status)
          PROVE  UNCHANGED <<list, reader>>
      BY <2>7 DEF L!Run, L!QueryRun
    <2>8. ASSUME NEW t, L!QueryRead(t)
          PROVE  UNCHANGED <<list, reader>>
      BY <2>8 DEF L!QueryRead
    <2>9. CASE L!QueryConnect \/ L!QueryWrite
      BY <2>9 DEF L!QueryConnect, L!QueryWrite
    <2> QED
      BY <2>1, <2>2, <2>3, <2>4, <2>5, <2>6, <2>7, <2>8, <2>9 DEF L!Next, L!MetaAsSql
  <1> QED
    BY <1>1 DEF L!ListIsOfTheseLines

\* Whatever is typed, formatted, completed and run: a numbered list of completions is of the
\* very lines that a choice from it would be put into (plain.rs:360).
THEOREM ListsAreOfTheseLines == Spec => []ListIsOfTheseLines
  <1>1. Init => ListIsOfTheseLines
    BY DEF Init, L!Init, ListIsOfTheseLines, L!ListIsOfTheseLines
  <1>2. ListIsOfTheseLines /\ [Next]_vars => ListIsOfTheseLines'
    <2> SUFFICES ASSUME ListIsOfTheseLines, [Next]_vars, part' = "lines"
                 PROVE  L!ListIsOfTheseLines'
      BY DEF ListIsOfTheseLines
    <2>1. part = "lines" /\ [L!Next]_clients
      BY DEF Next, vars
    <2> QED
      BY <2>1, ListFollows DEF ListIsOfTheseLines
  <1> QED
    BY <1>1, <1>2, PTL DEF Spec

----------------------------------------------------------------------------
(* What is read in lines: values that follow from one another. *)

\* Values that follow as long as they are values.
Tracks(f, base, make, n, V) ==
    f[0] = base /\ \A k \in 1 .. n : f[k - 1] \in V => f[k] = make[k][f[k - 1]]

\* They are the same.
LEMMA ChosenFollows ==
    ASSUME NEW V, NEW base, NEW N \in Nat, NEW make, NEW g, \A k \in 0 .. N : g[k] \in V,
           Follows(g, base, make, N), NEW f, Tracks(f, base, make, N, V)
    PROVE  f[N] = g[N]
  <1> DEFINE S == {k \in Nat : k <= N => f[k] = g[k]}
  <1>1. 0 \in S
    BY DEF Follows, Tracks
  <1>2. ASSUME NEW k \in Nat, k \in S
        PROVE  k + 1 \in S
    <2> SUFFICES ASSUME k + 1 <= N PROVE f[k + 1] = g[k + 1]
      OBVIOUS
    <2>1. k + 1 \in 1 .. N /\ (k + 1) - 1 = k /\ k \in 0 .. N /\ f[k] = g[k]
      BY <1>2
    <2>2. f[k] \in V
      BY <2>1
    <2> QED
      BY <2>1, <2>2 DEF Follows, Tracks
  <1> HIDE DEF S
  <1>3. N \in S
    BY <1>1, <1>2, Induction
  <1> QED
    BY <1>3 DEF S

----------------------------------------------------------------------------
(* What is typed: reading on past it. *)

\* What the lines are made of.
Token == L!Candidates \cup {"command", ":name"} \cup UNION {{l[i] : i \in 1 .. Len(l)} : l \in Typed}

\* What is typed is made of tokens; candidates, names and commands are among them.
LEMMA LinesAreOfTokens ==
    /\ Typed \subseteq Seq(Token)
    /\ L!Candidates \subseteq Token /\ {"word", "command", ":name"} \subseteq Token
  <1>1. ASSUME NEW l \in Typed PROVE l \in Seq(Token)
    <2>1. l \in Seq(STRING)
      BY ClientAssumption
    <2>2. l \in Seq(Range(l))
      BY <2>1, SeqOfRange
    <2>3. Range(l) = {l[i] : i \in 1 .. Len(l)}
      BY <2>1, RangeEquality
    <2>4. Range(l) \subseteq Token
      BY <2>3 DEF Token
    <2> QED
      BY <2>2, <2>4, SeqMonotonic
  <1>2. L!Candidates \subseteq Token /\ {"word", "command", ":name"} \subseteq Token
    BY DEF Token, L!Candidates
  <1> QED
    BY <1>1, <1>2

\* What is known past some of a text.  A literal that is open has something in it.
Seen ==
    {s \in [open : BOOLEAN, comment : BOOLEAN, body : BOOLEAN, does : SUBSET L!Words,
            ended : BOOLEAN, named : BOOLEAN] : s.open => s.body}

\* After a token the lexer is in a state that a text can leave, and in no comment unless the
\* token opens one or it was in one.
LEMMA PastIsSeen ==
    ASSUME NEW s \in Seen, NEW token \in Token
    PROVE  /\ L!Past(token, s) \in Seen
           /\ ~s.comment /\ token # "--" => ~L!Past(token, s).comment
           /\ [s EXCEPT !.comment = FALSE] \in Seen
           /\ [s EXCEPT !.comment = FALSE].comment = FALSE
           /\ ~s.comment => [s EXCEPT !.comment = FALSE] = s
  <1> DEFINE Lexes(r) == r \in Seen /\ (~s.comment /\ token # "--" => ~r.comment)
  <1>1. Lexes(L!Past(token, s))
    <2>1. CASE s.comment
      BY <2>1 DEF L!Past
    <2> DEFINE d == IF s.body THEN s.does ELSE s.does \cup {"write"}
    <2>2. CASE ~s.comment /\ token = "quote"
      <3>1. L!Past(token, s) = [s EXCEPT !.open = ~s.open, !.body = TRUE, !.does = d]
        BY <2>2 DEF L!Past, L!Words
      <3>2. d \in SUBSET L!Words
        BY DEF Seen, L!Words
      <3> HIDE DEF d
      <3> QED
        BY <2>2, <3>1, <3>2 DEF Seen
    <2>3. CASE ~s.comment /\ token = ";" /\ ~s.open
      BY <2>3 DEF L!Past, Seen
    <2>4. CASE ~s.comment /\ token = "--" /\ ~s.open
      BY <2>4 DEF L!Past, Seen
    <2>5. CASE ~s.comment /\ token \in L!Words /\ ~s.open
      BY <2>5 DEF L!Past, Seen, L!Words
    <2>6. CASE ~s.comment /\ token # "quote" /\ (s.open \/ token \notin L!Words \cup {";", "--"})
      <3> DEFINE e == IF s.body \/ s.open THEN s.does ELSE s.does \cup {"write"}
                 m == s.named \/ (token = ":name" /\ ~s.open)
      <3>1. L!Past(token, s) = [s EXCEPT !.body = TRUE, !.does = e, !.named = m]
        BY <2>6 DEF L!Past, L!Words
      <3>2. e \in SUBSET L!Words /\ m \in BOOLEAN
        BY DEF Seen, L!Words
      <3> HIDE DEF e, m
      <3> QED
        BY <2>6, <3>1, <3>2 DEF Seen
    <2> QED
      BY <2>1, <2>2, <2>3, <2>4, <2>5, <2>6
  <1>3. /\ [s EXCEPT !.comment = FALSE] \in Seen /\ [s EXCEPT !.comment = FALSE].comment = FALSE
        /\ ~s.comment => [s EXCEPT !.comment = FALSE] = s
    BY DEF Seen
  <1> QED
    BY <1>1, <1>3

\* Past the tokens of a line, one after the other.
Tokenwise(line) ==
    [n \in 1 .. Len(line) |-> [v \in Seen |-> L!Past(line[n], v)]]

\* The tokens of a line are read one after the other: there are such states, from where the
\* line starts.
LEMMA TokensFollow ==
    ASSUME NEW line \in Seq(Token), NEW s \in Seen
    PROVE  \E f \in [0 .. Len(line) -> Seen] :
             Follows(f, s, Tokenwise(line), Len(line)) /\ L!PastTokens(line, s) = f[Len(line)]
  <1> DEFINE N == Len(line)
             Is(f) == f = [n \in 0 .. N |-> IF n = 0 THEN s ELSE L!Past(line[n], f[n - 1])]
             r == CHOOSE f : Is(f)
  <1>1. N \in Nat /\ \A n \in 1 .. N : line[n] \in Token
    OBVIOUS
  <1>2. Tokenwise(line) \in [1 .. N -> [Seen -> Seen]]
    BY <1>1, PastIsSeen DEF Tokenwise
  <1>3. \A n \in 1 .. N : \A v \in Seen : Tokenwise(line)[n][v] = L!Past(line[n], v)
    BY DEF Tokenwise
  <1>4. L!PastTokens(line, s) = r[N]
    BY DEF L!PastTokens
  <1> HIDE DEF N
  <1>5. PICK g \in [0 .. N -> Seen] : Follows(g, s, Tokenwise(line), N)
    BY <1>1, <1>2, Recursion
  <1>6. Is(g)
    <2>1. g[0] = s /\ \A n \in 1 .. N : n - 1 \in 0 .. N /\ g[n] = L!Past(line[n], g[n - 1])
      BY <1>1, <1>3, <1>5 DEF Follows
    <2>2. \A n \in 0 .. N : n # 0 => n \in 1 .. N
      BY <1>1
    <2> QED
      BY <2>1, <2>2
  <1>7. Is(r)
    <2> HIDE DEF Is
    <2> QED
      BY <1>6
  <1> HIDE DEF r
  <1>8. r[0] = s /\ \A n \in 1 .. N : r[n] = L!Past(line[n], r[n - 1])
    <2>1. 0 \in 0 .. N /\ \A n \in 1 .. N : n \in 0 .. N /\ n # 0
      BY <1>1
    <2> QED
      BY <1>7, <2>1
  <1>9. r[N] = g[N]
    <2>1. Tracks(r, s, Tokenwise(line), N, Seen)
      BY <1>3, <1>8 DEF Tracks
    <2>2. \A k \in 0 .. N : g[k] \in Seen
      BY <1>5
    <2> HIDE DEF Is
    <2> QED
      BY <1>1, <1>5, <2>1, <2>2, ChosenFollows
  <1> QED
    BY <1>4, <1>5, <1>9 DEF N

\* A sequence with one more at its end.
LEMMA OneLonger ==
    ASSUME NEW S, NEW seq \in Seq(S), NEW e \in S
    PROVE  /\ Append(seq, e) \in Seq(S) /\ Len(seq) \in Nat
           /\ Len(Append(seq, e)) = Len(seq) + 1 /\ Append(seq, e)[Len(seq) + 1] = e
           /\ \A k \in 1 .. Len(seq) : Append(seq, e)[k] = seq[k]
  BY AppendProperties

\* After a line's tokens the lexer is in a state that a text can leave,
LEMMA PastIsAmongSeen ==
    ASSUME NEW line \in Seq(Token), NEW s \in Seen
    PROVE  L!PastTokens(line, s) \in Seen
  <1>1. PICK f \in [0 .. Len(line) -> Seen] : L!PastTokens(line, s) = f[Len(line)]
    BY TokensFollow
  <1>2. Len(line) \in 0 .. Len(line)
    OBVIOUS
  <1> QED
    BY <1>1, <1>2

\* the same one when there are none,
LEMMA PastNone == \A s \in Seen : L!PastTokens(<<>>, s) = s
  <1> TAKE s \in Seen
  <1>1. <<>> \in Seq(Token) /\ Len(<<>>) = 0
    BY EmptySeq
  <1>2. PICK f \in [0 .. 0 -> Seen] :
             Follows(f, s, Tokenwise(<<>>), 0) /\ L!PastTokens(<<>>, s) = f[0]
    BY <1>1, TokensFollow
  <1> QED
    BY <1>2 DEF Follows

\* and one more token is read from where the others left it.
LEMMA PastOneMore ==
    ASSUME NEW line \in Seq(Token), NEW s \in Seen, NEW t \in Token
    PROVE  /\ L!PastTokens(line, s) \in Seen
           /\ L!PastTokens(Append(line, t), s) = L!Past(t, L!PastTokens(line, s))
  <1> DEFINE more == Append(line, t)
             N == Len(line)
  <1>1. /\ more \in Seq(Token) /\ N \in Nat /\ Len(more) = N + 1 /\ more[N + 1] = t
        /\ \A k \in 1 .. N : more[k] = line[k]
    <2>1. N \in Nat
      OBVIOUS
    <2>2. more \in Seq(Token)
      BY OneLonger
    <2>3. Len(more) = N + 1
      BY OneLonger
    <2>4. more[N + 1] = t
      BY OneLonger
    <2>5. \A k \in 1 .. N : more[k] = line[k]
      BY OneLonger
    <2> HIDE DEF more, N
    <2> QED
      BY <2>1, <2>2, <2>3, <2>4, <2>5
  <1>2. PICK f \in [0 .. N -> Seen] :
             Follows(f, s, Tokenwise(line), N) /\ L!PastTokens(line, s) = f[N]
    BY TokensFollow
  <1>3. PICK g \in [0 .. N + 1 -> Seen] :
             Follows(g, s, Tokenwise(more), N + 1) /\ L!PastTokens(more, s) = g[N + 1]
    BY <1>1, TokensFollow
  <1> HIDE DEF more, N
  <1>4. \A k \in 1 .. N : Tokenwise(more)[k] = Tokenwise(line)[k]
    <2>1. \A k \in 1 .. N : k \in 1 .. Len(more) /\ k \in 1 .. Len(line)
      BY <1>1 DEF N
    <2> QED
      BY <1>1, <2>1 DEF Tokenwise
  <1>5. Follows(g, s, Tokenwise(line), N)
    <2>1. \A k \in 1 .. N : k \in 1 .. N + 1
      BY <1>1
    <2> QED
      BY <1>3, <1>4, <2>1 DEF Follows
  <1>6. g[N] = f[N]
    BY <1>1, <1>2, <1>5, RecursionAgrees
  <1>7. g[N + 1] = L!Past(t, g[N])
    <2>1. N + 1 \in 1 .. N + 1 /\ N + 1 \in 1 .. Len(more) /\ (N + 1) - 1 = N /\ N \in 0 .. N + 1
      BY <1>1
    <2>2. g[N] \in Seen
      BY <2>1
    <2>3. Tokenwise(more)[N + 1][g[N]] = L!Past(more[N + 1], g[N])
      BY <2>1, <2>2 DEF Tokenwise
    <2> QED
      BY <1>1, <1>3, <2>1, <2>3 DEF Follows
  <1>8. f[N] \in Seen
    BY <1>1
  <1> QED
    BY <1>2, <1>3, <1>6, <1>7, <1>8 DEF more, N

\* A comment goes on to the end of its line.
Tidy(line) == line \in Seq(Token) /\ \A i \in 1 .. Len(line) : line[i] = "--" => i = Len(line)

\* Past a line that has no comment, none is open.
LEMMA NoCommentIsOpen ==
    ASSUME NEW line \in Seq(Token), \A i \in 1 .. Len(line) : line[i] # "--",
           NEW s \in Seen, ~s.comment
    PROVE  ~L!PastTokens(line, s).comment
  <1> DEFINE N == Len(line)
  <1>1. N \in Nat /\ \A k \in 1 .. N : line[k] \in Token
    OBVIOUS
  <1>2. PICK f \in [0 .. N -> Seen] :
             Follows(f, s, Tokenwise(line), N) /\ L!PastTokens(line, s) = f[N]
    BY TokensFollow
  <1> DEFINE S == {n \in Nat : n <= N => ~f[n].comment}
  <1>3. 0 \in S
    BY <1>2 DEF Follows
  <1>4. ASSUME NEW n \in Nat, n \in S PROVE n + 1 \in S
    <2> SUFFICES ASSUME n + 1 <= N PROVE ~f[n + 1].comment
      OBVIOUS
    <2>1. n + 1 \in 1 .. N /\ (n + 1) - 1 = n /\ n \in 0 .. N /\ ~f[n].comment
      BY <1>1, <1>4
    <2>2. f[n] \in Seen
      BY <2>1
    <2>3. f[n + 1] = L!Past(line[n + 1], f[n])
      <3>1. Tokenwise(line)[n + 1][f[n]] = L!Past(line[n + 1], f[n])
        BY <2>1, <2>2 DEF Tokenwise
      <3> QED
        BY <1>2, <2>1, <3>1 DEF Follows
    <2>4. line[n + 1] \in Token /\ line[n + 1] # "--"
      BY <1>1, <2>1
    <2>5. ~L!Past(line[n + 1], f[n]).comment
      BY <2>1, <2>2, <2>4, PastIsSeen
    <2> QED
      BY <2>3, <2>5
  <1> HIDE DEF S, N
  <1>5. N \in S
    BY <1>1, <1>3, <1>4, Induction
  <1> QED
    BY <1>1, <1>2, <1>5 DEF S

----------------------------------------------------------------------------
(* Scripts: reading on past their lines. *)

Scripts == Seq(Seq(Token))

\* What is known between the lines of a text.
Between == {s \in Seen : ~s.comment}

\* Behind the end of a line no comment is open.
LEMMA PastLineIsBetween ==
    ASSUME NEW line \in Seq(Token), NEW s \in Seen
    PROVE  L!PastLine(line, s) \in Between
  <1>2. L!PastTokens(line, s) \in Seen
    BY PastIsAmongSeen
  <1> DEFINE r == L!PastTokens(line, s)
  <1> HIDE DEF r
  <1>3. r \in Seen
    BY <1>2 DEF r
  <1>4. [r EXCEPT !.comment = FALSE] \in Seen /\ [r EXCEPT !.comment = FALSE].comment = FALSE
    BY <1>3 DEF Seen
  <1> QED
    BY <1>4 DEF L!PastLine, Between, r

\* Nor is one where a text starts.
LEMMA StartIsBetween == L!Start \in Between
  BY DEF L!Start, Between, Seen

Linewise(script) ==
    [n \in 1 .. Len(script) |-> [v \in Between |-> L!PastLine(script[n], v)]]

\* The lines of a text are read one after the other: there are such states.
LEMMA LinesFollow ==
    ASSUME NEW script \in Scripts
    PROVE  \E f \in [0 .. Len(script) -> Between] :
             /\ Follows(f, L!Start, Linewise(script), Len(script))
             /\ L!Lexed(script) = f[Len(script)]
  <1> DEFINE N == Len(script)
             Is(f) == f = [n \in 0 .. N |-> IF n = 0 THEN L!Start ELSE L!PastLine(script[n], f[n - 1])]
             r == CHOOSE f : Is(f)
  <1>1. N \in Nat /\ \A n \in 1 .. N : script[n] \in Seq(Token)
    BY DEF Scripts
  <1>2. Linewise(script) \in [1 .. N -> [Between -> Between]]
    BY <1>1, PastLineIsBetween DEF Linewise, Between
  <1>3. \A n \in 1 .. N : \A v \in Between : Linewise(script)[n][v] = L!PastLine(script[n], v)
    BY DEF Linewise
  <1>4. L!Lexed(script) = r[N]
    BY DEF L!Lexed
  <1> HIDE DEF N
  <1>5. PICK g \in [0 .. N -> Between] : Follows(g, L!Start, Linewise(script), N)
    BY <1>1, <1>2, StartIsBetween, Recursion
  <1>6. Is(g)
    <2>3. \A n \in 1 .. N : n - 1 \in 0 .. N
      BY <1>1
    <2>4. \A n \in 1 .. N : g[n - 1] \in Between
      BY <1>5, <2>3
    <2>1. /\ g[0] = L!Start
          /\ \A n \in 1 .. N : n - 1 \in 0 .. N /\ g[n] = L!PastLine(script[n], g[n - 1])
      BY <1>3, <1>5, <2>3, <2>4 DEF Follows
    <2>2. \A n \in 0 .. N : n # 0 => n \in 1 .. N
      BY <1>1
    <2> QED
      BY <2>1, <2>2
  <1>7. Is(r)
    <2> HIDE DEF Is
    <2> QED
      BY <1>6
  <1> HIDE DEF r
  <1>8. r[0] = L!Start /\ \A n \in 1 .. N : r[n] = L!PastLine(script[n], r[n - 1])
    <2>1. 0 \in 0 .. N /\ \A n \in 1 .. N : n \in 0 .. N /\ n # 0
      BY <1>1
    <2> QED
      BY <1>7, <2>1
  <1>9. r[N] = g[N]
    <2>1. Tracks(r, L!Start, Linewise(script), N, Between)
      BY <1>3, <1>8 DEF Tracks
    <2>2. \A k \in 0 .. N : g[k] \in Between
      BY <1>5
    <2> HIDE DEF Is
    <2> QED
      BY <1>1, <1>5, <2>1, <2>2, ChosenFollows
  <1> QED
    BY <1>4, <1>5, <1>9 DEF N

\* A text without lines leaves the lexer where it starts,
LEMMA NothingIsLexed == L!Lexed(<<>>) = L!Start
  <1>1. <<>> \in Scripts /\ Len(<<>>) = 0
    BY EmptySeq DEF Scripts
  <1>2. PICK f \in [0 .. 0 -> Between] :
             Follows(f, L!Start, Linewise(<<>>), 0) /\ L!Lexed(<<>>) = f[0]
    BY <1>1, LinesFollow
  <1> QED
    BY <1>2 DEF Follows

\* and one more line is read from where the others left it.
LEMMA OneMoreLine ==
    ASSUME NEW script \in Scripts, NEW line \in Seq(Token)
    PROVE  /\ L!Lexed(script) \in Between
           /\ L!Lexed(Append(script, line)) = L!PastLine(line, L!Lexed(script))
  <1> DEFINE more == Append(script, line)
             N == Len(script)
  <1>1. /\ more \in Scripts /\ N \in Nat /\ Len(more) = N + 1 /\ more[N + 1] = line
        /\ \A k \in 1 .. N : more[k] = script[k]
    BY AppendProperties DEF Scripts
  <1>2. PICK f \in [0 .. N -> Between] :
             Follows(f, L!Start, Linewise(script), N) /\ L!Lexed(script) = f[N]
    BY LinesFollow
  <1>3. PICK g \in [0 .. N + 1 -> Between] :
             Follows(g, L!Start, Linewise(more), N + 1) /\ L!Lexed(more) = g[N + 1]
    BY <1>1, LinesFollow
  <1> HIDE DEF more, N
  <1>4. \A k \in 1 .. N : Linewise(more)[k] = Linewise(script)[k]
    BY <1>1 DEF Linewise, N
  <1>5. Follows(g, L!Start, Linewise(script), N)
    <2>1. \A k \in 1 .. N : k \in 1 .. N + 1
      BY <1>1
    <2> QED
      BY <1>3, <1>4, <2>1 DEF Follows
  <1>6. g[N] = f[N]
    BY <1>1, <1>2, <1>5, RecursionAgrees
  <1>7. g[N + 1] = L!PastLine(line, g[N])
    <2>1. N + 1 \in 1 .. N + 1 /\ N + 1 \in 1 .. Len(more) /\ (N + 1) - 1 = N /\ N \in 0 .. N + 1
      BY <1>1
    <2>2. g[N] \in Between
      BY <2>1
    <2>3. Linewise(more)[N + 1][g[N]] = L!PastLine(more[N + 1], g[N])
      BY <2>1, <2>2 DEF Linewise
    <2> QED
      BY <1>1, <1>3, <2>1, <2>3 DEF Follows
  <1>8. f[N] \in Between
    BY <1>1
  <1> QED
    BY <1>2, <1>3, <1>6, <1>7, <1>8 DEF more, N

----------------------------------------------------------------------------
(* What is formatted, and what is completed: reading on past a text that was changed. *)

Closed(s) == [s EXCEPT !.comment = FALSE]

\* A sequence that is not empty is its last and what comes before.
LEMMA FrontAndLast ==
    ASSUME NEW S, NEW seq \in Seq(S), seq # <<>>
    PROVE  /\ L!Front(seq) \in Seq(S) /\ L!Last(seq) \in S /\ seq = Append(L!Front(seq), L!Last(seq))
           /\ Len(seq) \in Nat /\ Len(seq) # 0 /\ Len(L!Front(seq)) = Len(seq) - 1
           /\ \A k \in 1 .. Len(L!Front(seq)) : L!Front(seq)[k] = seq[k]
  <1> DEFINE N == Len(seq)
             before == SubSeq(seq, 1, N - 1)
  <1>1. N \in Nat /\ N # 0 /\ N - 1 \in Nat
    BY EmptySeq
  <1>2. /\ before \in Seq(S) /\ Len(before) = N - 1 /\ \A k \in 1 .. N - 1 : before[k] = seq[k]
        /\ seq[N] \in S
    <2>1. 1 \in 1 .. N + 1 /\ N - 1 \in 1 - 1 .. N /\ N \in 1 .. N
      BY <1>1
    <2>2. before \in Seq(S) /\ Len(before) = (N - 1) - 1 + 1 /\ \A k \in 1 .. (N - 1) - 1 + 1 : before[k] = seq[1 + k - 1]
      <3> DEFINE M == N - 1
      <3>4. M \in Int /\ 1 \in Int /\ \A i \in 1 .. M : seq[i] \in S
        BY <1>1, ElementOfSeq
      <3> HIDE DEF M
      <3>1. before \in Seq(S)
        BY <3>4, SubSeqProperties DEF M
      <3>2. Len(before) = IF 1 <= N - 1 THEN (N - 1) - 1 + 1 ELSE 0
        BY <3>4, SubSeqProperties DEF M
      <3>3. \A k \in 1 .. (N - 1) - 1 + 1 : before[k] = seq[1 + k - 1]
        <4>1. \A k \in 1 .. M - 1 + 1 : SubSeq(seq, 1, M)[k] = seq[1 + k - 1]
          BY <3>4, SubSeqProperties
        <4> QED
          BY <4>1 DEF M
      <3> HIDE DEF before, N
      <3> QED
        BY <1>1, <3>1, <3>2, <3>3
    <2>3. seq[N] \in S
      BY <2>1, ElementOfSeq
    <2>4. (N - 1) - 1 + 1 = N - 1 /\ \A k \in 1 .. N - 1 : 1 + k - 1 = k
      BY <1>1
    <2> HIDE DEF before, N
    <2> QED
      BY <2>2, <2>3, <2>4
  <1>3. seq = Append(before, seq[N])
    <2> DEFINE A_ == Append(before, seq[N])
    <2>1. /\ A_ \in Seq(S) /\ Len(A_) = (N - 1) + 1 /\ A_[(N - 1) + 1] = seq[N]
          /\ \A k \in 1 .. N - 1 : A_[k] = before[k]
      BY <1>2, OneLonger
    <2>2. Len(A_) = Len(seq) /\ \A k \in 1 .. Len(seq) : A_[k] = seq[k]
      <3> HIDE DEF A_, before
      <3>1. Len(A_) = N /\ A_[N] = seq[N]
        BY <1>1, <2>1
      <3>2. \A k \in 1 .. N - 1 : A_[k] = seq[k]
        BY <1>2, <2>1
      <3>3. \A k \in 1 .. N : k = N \/ k \in 1 .. N - 1
        BY <1>1
      <3> QED
        BY <3>1, <3>2, <3>3
    <2>3. seq \in Seq(S) /\ A_ \in Seq(S)
      BY <2>1
    <2> HIDE DEF A_, before
    <2> QED
      BY <2>2, <2>3, SeqEqual DEF A_
  <1> QED
    BY <1>1, <1>2, <1>3 DEF L!Front, L!Last

\* A token more at the end of the last line.
LEMMA OneMoreToken ==
    ASSUME NEW done \in Scripts, done # <<>>, Tidy(L!Last(done)),
           L!Last(done) # <<>> => L!Last(L!Last(done)) # "--", NEW t \in Token
    PROVE  /\ Append(L!Front(done), Append(L!Last(done), t)) \in Scripts
           /\ Tidy(Append(L!Last(done), t)) /\ Append(L!Last(done), t) # <<>>
           /\ L!Lexed(done) \in Between
           /\ L!Lexed(Append(L!Front(done), Append(L!Last(done), t)))
                = Closed(L!Past(t, L!Lexed(done)))
  <1> DEFINE before == L!Front(done)
             e == L!Last(done)
             b == L!Lexed(before)
             p == L!PastTokens(e, b)
  <1>1. before \in Scripts /\ e \in Seq(Token) /\ done = Append(before, e)
    BY FrontAndLast DEF Scripts
  <1>2. Append(e, t) \in Seq(Token)
    BY <1>1, OneLonger
  <1>3. e = <<>> \/ (Len(e) \in Nat /\ Len(e) # 0 /\ L!Last(e) = e[Len(e)])
    BY <1>1, FrontAndLast DEF L!Last
  <1>4. \A i \in 1 .. Len(e) : e[i] # "--"
    BY <1>3 DEF Tidy
  <1>5. Tidy(Append(e, t)) /\ Append(e, t) # <<>>
    <2>1. Len(Append(e, t)) = Len(e) + 1
      BY <1>1, OneLonger
    <2>2. \A i \in 1 .. Len(e) : Append(e, t)[i] = e[i]
      BY <1>1, OneLonger
    <2>3. Len(e) \in Nat
      BY <1>1
    <2>4. \A i \in 1 .. Len(e) + 1 : i = Len(e) + 1 \/ i \in 1 .. Len(e)
      BY <2>3
    <2>5. Append(e, t) # <<>>
      BY <1>1, AppendProperties
    <2> HIDE DEF e
    <2> QED
      BY <1>2, <1>4, <2>1, <2>2, <2>4, <2>5 DEF Tidy
  <1>6. b \in Between
    BY <1>1, OneMoreLine
  <1>7. b \in Seen /\ ~b.comment
    BY <1>6 DEF Between
  <1>8. L!Lexed(done) = L!PastLine(e, b)
    BY <1>1, OneMoreLine
  <1>9. p \in Seen /\ ~p.comment
    BY <1>1, <1>4, <1>7, PastIsAmongSeen, NoCommentIsOpen
  <1>10. L!Lexed(done) = p /\ L!Lexed(done) \in Between
    <2>1. [p EXCEPT !.comment = FALSE] = p
      BY <1>9 DEF Seen
    <2> QED
      BY <1>8, <1>9, <2>1 DEF L!PastLine, Between
  <1>11. L!Lexed(Append(before, Append(e, t))) = L!PastLine(Append(e, t), b)
    BY <1>1, <1>2, OneMoreLine
  <1>12. L!PastTokens(Append(e, t), b) = L!Past(t, p)
    BY <1>1, <1>7, PastOneMore
  <1>13. Append(before, Append(e, t)) \in Scripts
    BY <1>1, <1>2, OneLonger DEF Scripts
  <1> HIDE DEF before, e, b, p
  <1>14. L!Lexed(Append(before, Append(e, t))) = Closed(L!Past(t, L!Lexed(done)))
    BY <1>10, <1>11, <1>12 DEF L!PastLine, Closed
  <1> QED
    BY <1>5, <1>10, <1>13, <1>14 DEF before, e

\* The shortest sequences.
LEMMA OneIsASequence ==
    ASSUME NEW S, NEW e \in S
    PROVE  /\ <<>> \in Seq(S) /\ <<e>> \in Seq(S) /\ <<e>> = Append(<<>>, e)
           /\ <<e>> # <<>>
  OBVIOUS

\* A line of one token.
LEMMA OneToken ==
    ASSUME NEW t \in Token, NEW b \in Between
    PROVE  /\ <<t>> \in Seq(Token) /\ Tidy(<<t>>) /\ <<t>> # <<>>
           /\ L!PastLine(<<t>>, b) = Closed(L!Past(t, b))
  <1>1. <<>> \in Seq(Token) /\ <<t>> = Append(<<>>, t) /\ <<t>> \in Seq(Token)
    BY OneIsASequence
  <1>2. Tidy(<<t>>) /\ <<t>> # <<>>
    BY <1>1 DEF Tidy
  <1>3. b \in Seen
    BY DEF Between
  <1>4. L!PastTokens(<<t>>, b) = L!Past(t, b)
    <2>1. L!PastTokens(Append(<<>>, t), b) = L!Past(t, L!PastTokens(<<>>, b))
      BY <1>1, <1>3, PastOneMore
    <2> QED
      BY <1>1, <1>3, <2>1, PastNone
  <1> QED
    BY <1>1, <1>2, <1>4 DEF L!PastLine, Closed

\* The text that is being written has no empty line, and comments to the ends of lines.
TidyText(done) == done \in Scripts /\ \A i \in 1 .. Len(done) : done[i] # <<>> /\ Tidy(done[i])

\* A token is written into a text, on its last line or a new one,
LEMMA RenderedIsText ==
    ASSUME NEW done \in Scripts, NEW t \in Token
    PROVE  L!Rendered(done, t) \in Scripts
  <1>1. <<t>> \in Seq(Token)
    BY OneIsASequence
  <1>2. Append(done, <<t>>) \in Scripts
    BY <1>1, OneLonger DEF Scripts
  <1>3. done # <<>> => Append(L!Front(done), Append(L!Last(done), t)) \in Scripts
    <2> HAVE done # <<>>
    <2>1. L!Front(done) \in Seq(Seq(Token)) /\ L!Last(done) \in Seq(Token)
      BY FrontAndLast DEF Scripts
    <2>2. Append(L!Last(done), t) \in Seq(Token)
      BY <2>1, OneLonger
    <2> QED
      BY <2>1, <2>2, OneLonger DEF Scripts
  <1> QED
    BY <1>2, <1>3 DEF L!Rendered

\* and the text then reads as it did, with that token behind, and is tidy still.
LEMMA RenderedReadsOn ==
    ASSUME NEW done, TidyText(done), NEW t \in Token
    PROVE  /\ TidyText(L!Rendered(done, t))
           /\ L!Lexed(L!Rendered(done, t)) = Closed(L!Past(t, L!Lexed(done)))
  <1> DEFINE Good(r) == TidyText(r) /\ L!Lexed(r) = Closed(L!Past(t, L!Lexed(done)))
  <1>1. done \in Scripts /\ Len(done) \in Nat
    BY DEF TidyText, Scripts
  <1>2. Good(Append(done, <<t>>))
    <2>1. L!Lexed(done) \in Between
      <3>1. <<t>> \in Seq(Token)
        BY OneIsASequence
      <3> QED
        BY <1>1, <3>1, OneMoreLine
    <2>2. L!Lexed(Append(done, <<t>>)) = Closed(L!Past(t, L!Lexed(done)))
      BY <1>1, <2>1, OneToken, OneMoreLine
    <2>3. TidyText(Append(done, <<t>>))
      <3>1. <<t>> \in Seq(Token) /\ Tidy(<<t>>) /\ <<t>> # <<>>
        BY <2>1, OneToken
      <3> DEFINE r == Append(done, <<t>>)
      <3>2. /\ r \in Scripts /\ Len(r) = Len(done) + 1 /\ r[Len(done) + 1] = <<t>>
            /\ \A i \in 1 .. Len(done) : r[i] = done[i]
        <4>1. r \in Seq(Seq(Token))
          BY <1>1, <3>1, OneLonger DEF Scripts
        <4>2. Len(r) = Len(done) + 1
          BY <1>1, <3>1, OneLonger DEF Scripts
        <4>3. r[Len(done) + 1] = <<t>>
          BY <1>1, <3>1, OneLonger DEF Scripts
        <4>4. \A i \in 1 .. Len(done) : r[i] = done[i]
          BY <1>1, <3>1, OneLonger DEF Scripts
        <4> QED
          BY <4>1, <4>2, <4>3, <4>4 DEF Scripts
      <3>3. \A i \in 1 .. Len(done) + 1 : i = Len(done) + 1 \/ i \in 1 .. Len(done)
        BY <1>1
      <3> HIDE DEF r
      <3>4. TidyText(r)
        BY <3>1, <3>2, <3>3 DEF TidyText
      <3> QED
        BY <3>4 DEF r
    <2> QED
      BY <2>2, <2>3
  <1>3. ASSUME done # <<>>, L!Last(L!Last(done)) # "--"
        PROVE  Good(Append(L!Front(done), Append(L!Last(done), t)))
    <2> DEFINE before == L!Front(done)
               e == L!Last(done)
               r == Append(before, Append(e, t))
    <2>1. /\ before \in Scripts /\ Len(before) = Len(done) - 1 /\ Len(done) # 0
          /\ \A i \in 1 .. Len(before) : before[i] = done[i]
      BY <1>1, <1>3, FrontAndLast DEF Scripts
    <2>2. Tidy(e)
      <3>1. Len(done) \in 1 .. Len(done)
        BY <1>1, <2>1
      <3> QED
        BY <3>1 DEF TidyText, L!Last
    <2>3. /\ r \in Scripts /\ Tidy(Append(e, t)) /\ Append(e, t) # <<>>
          /\ L!Lexed(r) = Closed(L!Past(t, L!Lexed(done)))
      BY <1>1, <1>3, <2>2, OneMoreToken
    <2>4. Append(e, t) \in Seq(Token)
      BY <2>3 DEF Tidy
    <2> HIDE DEF e, before
    <2>5. /\ Len(r) = Len(before) + 1 /\ r[Len(before) + 1] = Append(e, t)
          /\ \A i \in 1 .. Len(before) : r[i] = before[i]
      <3> DEFINE u == Append(e, t)
      <3>4. r = Append(before, u) /\ u \in Seq(Token) /\ before \in Seq(Seq(Token))
        BY <2>1, <2>4 DEF Scripts
      <3> HIDE DEF u, r
      <3>1. Len(r) = Len(before) + 1
        BY <3>4, OneLonger
      <3>2. r[Len(before) + 1] = u
        BY <3>4, OneLonger
      <3>3. \A i \in 1 .. Len(before) : r[i] = before[i]
        BY <3>4, OneLonger
      <3> QED
        BY <3>1, <3>2, <3>3 DEF u
    <2>6. Len(before) \in Nat /\ \A i \in 1 .. Len(before) : i \in 1 .. Len(done)
      BY <1>1, <2>1
    <2>7. \A i \in 1 .. Len(before) + 1 : i = Len(before) + 1 \/ i \in 1 .. Len(before)
      BY <2>6
    <2> HIDE DEF r
    <2>8. TidyText(r)
      BY <2>1, <2>3, <2>5, <2>6, <2>7 DEF TidyText
    <2> QED
      BY <2>3, <2>8 DEF r, e, before
  <1> HIDE DEF Good
  <1>4. Good(L!Rendered(done, t))
    BY <1>2, <1>3 DEF L!Rendered, L!EndsItsLine
  <1> QED
    BY <1>4 DEF Good

Tokenrender(line) ==
    [n \in 1 .. Len(line) |-> [d \in Scripts |-> L!Rendered(d, line[n])]]

\* The tokens of a line are written one after the other: there are such texts.
LEMMA RenderingFollows ==
    ASSUME NEW done \in Scripts, NEW line \in Seq(Token)
    PROVE  \E f \in [0 .. Len(line) -> Scripts] :
             /\ f[0] = done /\ \A n \in 1 .. Len(line) : f[n] = L!Rendered(f[n - 1], line[n])
             /\ L!RenderedLine(done, line) = f[Len(line)]
  <1> DEFINE N == Len(line)
             Is(f) == f = [n \in 0 .. N |-> IF n = 0 THEN done ELSE L!Rendered(f[n - 1], line[n])]
             r == CHOOSE f : Is(f)
  <1>1. N \in Nat /\ \A n \in 1 .. N : line[n] \in Token
    OBVIOUS
  <1>2. Tokenrender(line) \in [1 .. N -> [Scripts -> Scripts]]
    BY <1>1, RenderedIsText DEF Tokenrender
  <1>3. \A n \in 1 .. N : \A v \in Scripts : Tokenrender(line)[n][v] = L!Rendered(v, line[n])
    BY DEF Tokenrender
  <1>4. L!RenderedLine(done, line) = r[N]
    BY DEF L!RenderedLine
  <1> HIDE DEF N
  <1>5. PICK g \in [0 .. N -> Scripts] : Follows(g, done, Tokenrender(line), N)
    BY <1>1, <1>2, Recursion
  <1>6. g[0] = done /\ \A n \in 1 .. N : n - 1 \in 0 .. N /\ g[n] = L!Rendered(g[n - 1], line[n])
    <2>1. \A n \in 1 .. N : n - 1 \in 0 .. N
      BY <1>1
    <2>2. \A n \in 1 .. N : g[n - 1] \in Scripts
      BY <1>5, <2>1
    <2> QED
      BY <1>3, <1>5, <2>1, <2>2 DEF Follows
  <1>7. Is(r)
    <2>1. \A n \in 0 .. N : n # 0 => n \in 1 .. N
      BY <1>1
    <2>2. Is(g)
      BY <1>6, <2>1
    <2> HIDE DEF Is
    <2> QED
      BY <2>2
  <1> HIDE DEF r
  <1>8. r[0] = done /\ \A n \in 1 .. N : r[n] = L!Rendered(r[n - 1], line[n])
    <2>1. 0 \in 0 .. N /\ \A n \in 1 .. N : n \in 0 .. N /\ n # 0
      BY <1>1
    <2> QED
      BY <1>7, <2>1
  <1>9. r[N] = g[N]
    <2>1. Tracks(r, done, Tokenrender(line), N, Scripts)
      BY <1>3, <1>8 DEF Tracks
    <2>2. \A k \in 0 .. N : g[k] \in Scripts
      BY <1>5
    <2> HIDE DEF Is
    <2> QED
      BY <1>1, <1>5, <2>1, <2>2, ChosenFollows
  <1> QED
    BY <1>4, <1>5, <1>6, <1>9 DEF N

\* A formatted line reads as the line.
LEMMA LineReadsOn ==
    ASSUME NEW done, TidyText(done), NEW line, Tidy(line)
    PROVE  /\ TidyText(L!RenderedLine(done, line))
           /\ L!Lexed(L!RenderedLine(done, line)) = L!PastLine(line, L!Lexed(done))
  <1> DEFINE N == Len(line)
             b == L!Lexed(done)
  <1>1. line \in Seq(Token) /\ N \in Nat /\ \A n \in 1 .. N : line[n] \in Token
    BY DEF Tidy
  <1>2. done \in Scripts
    BY DEF TidyText
  <1>3. b \in Seen /\ ~b.comment
    <2>1. b \in Between
      BY <1>1, <1>2, OneMoreLine
    <2> QED
      BY <2>1 DEF Between
  <1>4. PICK f \in [0 .. N -> Scripts] :
             /\ f[0] = done /\ \A n \in 1 .. N : f[n] = L!Rendered(f[n - 1], line[n])
             /\ L!RenderedLine(done, line) = f[N]
    BY <1>1, <1>2, RenderingFollows
  <1>5. PICK g \in [0 .. N -> Seen] :
             Follows(g, b, Tokenwise(line), N) /\ L!PastTokens(line, b) = g[N]
    BY <1>1, <1>3, TokensFollow
  <1> DEFINE Same(n) == /\ TidyText(f[n]) /\ L!Lexed(f[n]) = Closed(g[n])
                        /\ n < N => ~g[n].comment
             S == {n \in Nat : n <= N => Same(n)}
  <1>6. 0 \in S
    <2>1. g[0] = b
      BY <1>5 DEF Follows
    <2>2. Closed(b) = b
      BY <1>3 DEF Closed, Seen
    <2> QED
      BY <1>3, <1>4, <2>1, <2>2
  <1>7. ASSUME NEW n \in Nat, n \in S PROVE n + 1 \in S
    <2> SUFFICES ASSUME n + 1 <= N PROVE Same(n + 1)
      OBVIOUS
    <2>1. n + 1 \in 1 .. N /\ (n + 1) - 1 = n /\ n \in 0 .. N /\ n < N /\ n <= N
      BY <1>1
    <2>2. Same(n)
      BY <1>7, <2>1
    <2>3. g[n] \in Seen /\ line[n + 1] \in Token
      BY <1>1, <2>1
    <2>4. g[n + 1] = L!Past(line[n + 1], g[n])
      <3>1. Tokenwise(line)[n + 1][g[n]] = L!Past(line[n + 1], g[n])
        BY <2>1, <2>3 DEF Tokenwise
      <3> QED
        BY <1>5, <2>1, <3>1 DEF Follows
    <2>5. f[n + 1] = L!Rendered(f[n], line[n + 1])
      BY <1>4, <2>1
    <2>6. ~g[n].comment /\ Closed(g[n]) = g[n]
      BY <2>1, <2>2, <2>3 DEF Closed, Seen
    <2> DEFINE t == line[n + 1]
    <2>7. TidyText(f[n]) /\ t \in Token /\ L!Lexed(f[n]) = g[n]
      BY <2>2, <2>3, <2>6
    <2>8. n + 1 < N => t # "--"
      BY <2>1 DEF Tidy
    <2> HIDE DEF t
    <2>9. TidyText(L!Rendered(f[n], t)) /\ L!Lexed(L!Rendered(f[n], t)) = Closed(L!Past(t, g[n]))
      BY <2>7, RenderedReadsOn
    <2>10. n + 1 < N => ~L!Past(t, g[n]).comment
      BY <2>3, <2>6, <2>7, <2>8, PastIsSeen
    <2> QED
      BY <2>4, <2>5, <2>9, <2>10 DEF t
  <1> HIDE DEF S, N, b
  <1>8. N \in S
    BY <1>1, <1>6, <1>7, Induction
  <1>9. Same(N)
    BY <1>1, <1>8 DEF S
  <1> QED
    BY <1>4, <1>5, <1>9 DEF N, b, L!PastLine, Closed

\* What is typed: a comment goes on to the end of its line.
TypedText(script) == script \in Scripts /\ \A i \in 1 .. Len(script) : Tidy(script[i])

Linerender(script) ==
    [n \in 1 .. Len(script) |-> [d \in Scripts |-> L!RenderedLine(d, script[n])]]

\* A formatted line leaves a text.
LEMMA RenderedLineIsText ==
    ASSUME NEW done \in Scripts, NEW line \in Seq(Token)
    PROVE  L!RenderedLine(done, line) \in Scripts
  <1>1. PICK f \in [0 .. Len(line) -> Scripts] : L!RenderedLine(done, line) = f[Len(line)]
    BY RenderingFollows
  <1>2. Len(line) \in 0 .. Len(line)
    OBVIOUS
  <1> QED
    BY <1>1, <1>2

\* The lines of a text are formatted one after the other: there are such texts.
LEMMA FormattingFollows ==
    ASSUME NEW script \in Scripts
    PROVE  \E f \in [0 .. Len(script) -> Scripts] :
             /\ f[0] = <<>> /\ \A n \in 1 .. Len(script) : f[n] = L!RenderedLine(f[n - 1], script[n])
             /\ L!Reformatted(script) = f[Len(script)]
  <1> DEFINE N == Len(script)
             Is(f) == f = [n \in 0 .. N |-> IF n = 0 THEN <<>>
                                            ELSE L!RenderedLine(f[n - 1], script[n])]
             r == CHOOSE f : Is(f)
  <1>1. N \in Nat /\ (\A n \in 1 .. N : script[n] \in Seq(Token)) /\ <<>> \in Scripts
    BY DEF Scripts
  <1>2. Linerender(script) \in [1 .. N -> [Scripts -> Scripts]]
    BY <1>1, RenderedLineIsText DEF Linerender
  <1>3. \A n \in 1 .. N : \A v \in Scripts : Linerender(script)[n][v] = L!RenderedLine(v, script[n])
    BY DEF Linerender
  <1>4. L!Reformatted(script) = r[N]
    BY DEF L!Reformatted
  <1> HIDE DEF N
  <1>5. PICK g \in [0 .. N -> Scripts] : Follows(g, <<>>, Linerender(script), N)
    BY <1>1, <1>2, Recursion
  <1>6. g[0] = <<>> /\ \A n \in 1 .. N : n - 1 \in 0 .. N /\ g[n] = L!RenderedLine(g[n - 1], script[n])
    <2>1. \A n \in 1 .. N : n - 1 \in 0 .. N
      BY <1>1
    <2>2. \A n \in 1 .. N : g[n - 1] \in Scripts
      BY <1>5, <2>1
    <2> QED
      BY <1>3, <1>5, <2>1, <2>2 DEF Follows
  <1>7. Is(r)
    <2>1. \A n \in 0 .. N : n # 0 => n \in 1 .. N
      BY <1>1
    <2>2. Is(g)
      BY <1>6, <2>1
    <2> HIDE DEF Is
    <2> QED
      BY <2>2
  <1> HIDE DEF r
  <1>8. r[0] = <<>> /\ \A n \in 1 .. N : r[n] = L!RenderedLine(r[n - 1], script[n])
    <2>1. 0 \in 0 .. N /\ \A n \in 1 .. N : n \in 0 .. N /\ n # 0
      BY <1>1
    <2> QED
      BY <1>7, <2>1
  <1>9. r[N] = g[N]
    <2>1. Tracks(r, <<>>, Linerender(script), N, Scripts)
      BY <1>3, <1>8 DEF Tracks
    <2>2. \A k \in 0 .. N : g[k] \in Scripts
      BY <1>5
    <2> HIDE DEF Is
    <2> QED
      BY <1>1, <1>5, <2>1, <2>2, ChosenFollows
  <1> QED
    BY <1>4, <1>5, <1>6, <1>9 DEF N

\* A formatted text reads as the text.
THEOREM FormattedReadsTheSame ==
    ASSUME NEW script, TypedText(script)
    PROVE  TypedText(L!Reformatted(script)) /\ L!Lexed(L!Reformatted(script)) = L!Lexed(script)
  <1> DEFINE N == Len(script)
  <1>1. script \in Scripts /\ N \in Nat /\ \A n \in 1 .. N : Tidy(script[n])
    BY DEF TypedText, Scripts
  <1>2. PICK f \in [0 .. N -> Scripts] :
             /\ f[0] = <<>> /\ \A n \in 1 .. N : f[n] = L!RenderedLine(f[n - 1], script[n])
             /\ L!Reformatted(script) = f[N]
    BY <1>1, FormattingFollows
  <1>3. PICK g \in [0 .. N -> Between] :
             Follows(g, L!Start, Linewise(script), N) /\ L!Lexed(script) = g[N]
    BY <1>1, LinesFollow
  <1> DEFINE Same(n) == TidyText(f[n]) /\ L!Lexed(f[n]) = g[n]
             S == {n \in Nat : n <= N => Same(n)}
  <1>4. 0 \in S
    <2>1. g[0] = L!Start /\ f[0] = <<>>
      BY <1>2, <1>3 DEF Follows
    <2>2. TidyText(<<>>)
      BY DEF TidyText, Scripts
    <2> QED
      BY <2>1, <2>2, NothingIsLexed
  <1>5. ASSUME NEW n \in Nat, n \in S PROVE n + 1 \in S
    <2> SUFFICES ASSUME n + 1 <= N PROVE Same(n + 1)
      OBVIOUS
    <2>1. n + 1 \in 1 .. N /\ (n + 1) - 1 = n /\ n \in 0 .. N /\ n <= N
      BY <1>1
    <2>2. TidyText(f[n]) /\ L!Lexed(f[n]) = g[n] /\ g[n] \in Between /\ Tidy(script[n + 1])
      BY <1>1, <1>5, <2>1
    <2>3. g[n + 1] = L!PastLine(script[n + 1], g[n])
      <3>1. Linewise(script)[n + 1][g[n]] = L!PastLine(script[n + 1], g[n])
        BY <2>1, <2>2 DEF Linewise
      <3> QED
        BY <1>3, <2>1, <3>1 DEF Follows
    <2>4. f[n + 1] = L!RenderedLine(f[n], script[n + 1])
      BY <1>2, <2>1
    <2> QED
      BY <2>2, <2>3, <2>4, LineReadsOn
  <1> HIDE DEF S, N
  <1>6. N \in S
    BY <1>1, <1>4, <1>5, Induction
  <1>7. TidyText(f[N]) /\ L!Lexed(f[N]) = g[N]
    BY <1>1, <1>6 DEF S
  <1>8. TypedText(f[N])
    BY <1>7 DEF TidyText, TypedText
  <1> QED
    BY <1>2, <1>3, <1>7, <1>8

----------------------------------------------------------------------------
(* What the plain client sends. *)

Sending == {"confirm", "values", "running"}

\* Behind no line end there is one candidate.  What is typed so far reads as it was typed and
\* completed, formatted or not.  A statement that is being sent is complete, nothing of it is still
\* being typed, and it reads as it was typed; past the confirmation the answer was what it needs,
\* and past the check of `query` it is allowed.
TypedInv ==
    /\ tail = "cut" => \E c \in L!Candidates : reader = << <<c>> >>
    /\ TypedText(reader)
    /\ reader # <<>> => typed = L!Lexed(reader)
    /\ awaits \in Sending =>
         reader = <<>> /\ sql \in Scripts /\ L!IsComplete(sql) /\ typed = L!Lexed(sql)
    /\ awaits \in Sending \ {"confirm"} /\ L!Guarded(sql) => L!Accepts(sql, answered)
    /\ awaits \in {"open", "executing"} /\ L!Guarded(sql) => way.allow

\* Nothing is typed when the clients start,
LEMMA TypedInit == L!Init => TypedInv
  <1>1. TypedText(<<>>)
    BY DEF TypedText, Scripts
  <1> QED
    BY <1>1 DEF L!Init, TypedInv, Sending

\* Nothing more is typed.
LEMMA NothingIsTyped ==
    ASSUME TypedInv, UNCHANGED <<reader, typed, tail>>,
           awaits' \notin Sending \cup {"open", "executing"}
    PROVE  TypedInv'
  BY DEF TypedInv

\* One line more.
LEMMA OneLineIsTyped ==
    ASSUME NEW script, TypedText(script), NEW line, Tidy(line)
    PROVE  /\ TypedText(Append(script, line))
           /\ L!Lexed(Append(script, line)) = L!PastLine(line, L!Lexed(script))
  <1> DEFINE r == Append(script, line)
  <1>1. script \in Scripts /\ script \in Seq(Seq(Token)) /\ line \in Seq(Token) /\ Len(script) \in Nat
    BY DEF TypedText, Tidy, Scripts
  <1>2. L!Lexed(r) = L!PastLine(line, L!Lexed(script))
    BY <1>1, OneMoreLine
  <1>3. r \in Seq(Seq(Token))
    BY <1>1, OneLonger
  <1>4. Len(r) = Len(script) + 1
    BY <1>1, OneLonger
  <1>5. r[Len(script) + 1] = line
    BY <1>1, OneLonger
  <1>6. \A i \in 1 .. Len(script) : r[i] = script[i]
    BY <1>1, OneLonger
  <1>7. \A i \in 1 .. Len(script) + 1 : i = Len(script) + 1 \/ i \in 1 .. Len(script)
    BY <1>1
  <1> HIDE DEF r
  <1>8. TypedText(r)
    BY <1>3, <1>4, <1>5, <1>6, <1>7 DEF TypedText, Scripts
  <1> QED
    BY <1>2, <1>8 DEF r

\* A text of one line.
LEMMA OneLineAlone ==
    ASSUME NEW line, Tidy(line)
    PROVE  TypedText(<<line>>)
  <1>1. TypedText(<<>>) /\ <<line>> = Append(<<>>, line)
    BY DEF TypedText, Scripts
  <1> QED
    BY <1>1, OneLineIsTyped

\* A line behind a token that begins no comment, or in place of its first.
LEMMA GluedIsTidy ==
    ASSUME NEW t \in Token, t # "--", NEW line, Tidy(line)
    PROVE  Tidy(<<t>> \o line) /\ (line # <<>> => Tidy(<<t>> \o Tail(line)))
  <1>1. ASSUME NEW m, Tidy(m)
        PROVE  Tidy(<<t>> \o m)
    <2> DEFINE g == <<t>> \o m
    <2>1. m \in Seq(Token) /\ <<t>> \in Seq(Token) /\ Len(<<t>>) = 1 /\ Len(m) \in Nat
      BY <1>1 DEF Tidy
    <2>2. g \in Seq(Token)
      BY <2>1, ConcatProperties
    <2>3. Len(g) = 1 + Len(m)
      BY <2>1, ConcatProperties
    <2>4. \A i \in 1 .. 1 + Len(m) : g[i] = IF i <= 1 THEN <<t>>[i] ELSE m[i - 1]
      BY <2>1, ConcatProperties
    <2> HIDE DEF g
    <2>5. ASSUME NEW i \in 1 .. Len(g), g[i] = "--"
          PROVE  i = Len(g)
      <3>1. i # 1
        BY <2>4, <2>5
      <3>2. i - 1 \in 1 .. Len(m) /\ g[i] = m[i - 1]
        BY <2>1, <2>3, <2>4, <3>1
      <3> QED
        BY <1>1, <2>1, <2>3, <2>5, <3>2 DEF Tidy
    <2> QED
      BY <2>2, <2>5 DEF Tidy, g
  <1>2. ASSUME line # <<>>
        PROVE  Tidy(Tail(line))
    <2>1. line \in Seq(Token) /\ Len(line) \in Nat
      BY DEF Tidy
    <2>2. Tail(line) \in Seq(Token)
      BY <1>2, <2>1, HeadTailProperties
    <2>3. Len(Tail(line)) = Len(line) - 1
      BY <1>2, <2>1, HeadTailProperties
    <2>4. \A i \in 1 .. Len(Tail(line)) : Tail(line)[i] = line[i + 1]
      BY <1>2, <2>1, HeadTailProperties
    <2>5. ASSUME NEW i \in 1 .. Len(Tail(line)), Tail(line)[i] = "--"
          PROVE  i = Len(Tail(line))
      <3>1. i + 1 \in 1 .. Len(line) /\ line[i + 1] = "--"
        BY <2>1, <2>3, <2>4, <2>5
      <3> QED
        BY <2>1, <2>3, <3>1 DEF Tidy
    <2> QED
      BY <2>2, <2>5 DEF Tidy
  <1> QED
    BY <1>1, <1>2

\* a line that is fed reads as it was typed,
LEMMA FeedKeeps ==
    ASSUME TypedInv, NEW line, Tidy(line), L!Feed(line)
    PROVE  TypedInv'
  <1>1. awaits = "line" /\ UNCHANGED way
    BY DEF L!Feed, L!Ask
  <1>2. TypedText(reader) /\ (reader # <<>> => typed = L!Lexed(reader))
    BY DEF TypedInv
  <1>3. CASE reader = <<>> /\ L!OnlyBlank(<<line>>)
    BY <1>1, <1>2, <1>3 DEF L!Feed, TypedInv, Sending
  <1>4. CASE ~(reader = <<>> /\ L!OnlyBlank(<<line>>))
    <2>1. PICK more \in L!Fed(line) :
            /\ IF L!IsComplete(more)
               THEN /\ reader' = <<>> /\ sql' = more
                    /\ awaits' = IF L!Guarded(more) THEN "confirm" ELSE L!Values(more)
               ELSE reader' = more /\ UNCHANGED <<awaits, sql>>
            /\ tail' = "open"
            /\ typed' = IF reader = <<>> \/ tail = "cut" THEN L!Lexed(more)
                        ELSE L!PastLine(line, typed)
      BY <1>4 DEF L!Feed
    <2>2. TypedText(more) /\ typed' = L!Lexed(more)
      <3>1. CASE tail # "cut"
        <4>1. more = Append(reader, line)
          BY <3>1 DEF L!Fed
        <4> QED
          BY <1>2, <2>1, <3>1, <4>1, OneLineIsTyped
      <3>2. CASE tail = "cut"
        <4>1. PICK c \in L!Candidates : reader = << <<c>> >>
          BY <3>2 DEF TypedInv
        <4>2. L!Last(reader) = <<c>>
          BY <4>1 DEF L!Last
        <4>3. \A t \in L!Candidates : t \in Token /\ t # "--"
          BY LinesAreOfTokens DEF L!Candidates, L!Words
        <4>4. \/ more = << <<c>> \o line >>
              \/ line # <<>> /\ \E t \in L!Candidates : more = << <<t>> \o Tail(line) >>
          BY <2>1, <3>2, <4>2 DEF L!Fed
        <4>5. TypedText(more)
          BY <4>3, <4>4, GluedIsTidy, OneLineAlone
        <4> QED
          BY <2>1, <3>2, <4>5
      <3> QED
        BY <3>1, <3>2
    <2>3. CASE L!IsComplete(more)
      <3>1. more \in Scripts /\ TypedText(<<>>)
        BY <2>2 DEF TypedText, Scripts
      <3>2. awaits' \in Sending
        BY <2>1, <2>3 DEF Sending, L!Values
      <3>3. awaits' # "confirm" => ~L!Guarded(sql)'
        BY <1>1, <2>1, <2>3 DEF L!Guarded
      <3> QED
        BY <2>1, <2>2, <2>3, <3>1, <3>2, <3>3 DEF TypedInv, L!IsComplete, Sending
    <2>4. CASE ~L!IsComplete(more)
      BY <1>1, <2>1, <2>2, <2>4 DEF TypedInv, Sending
    <2> QED
      BY <2>3, <2>4
  <1> QED
    BY <1>3, <1>4

\* a formatted buffer reads as it did,
LEMMA FormatKeeps ==
    ASSUME TypedInv, L!Format
    PROVE  TypedInv'
  <1>1. /\ awaits' = "line" /\ reader # <<>> /\ reader' = L!Reformatted(reader)
        /\ tail' = "flush" /\ UNCHANGED typed
    BY DEF L!Format, L!Ask
  <1>2. TypedText(reader') /\ L!Lexed(reader') = L!Lexed(reader)
    BY <1>1, FormattedReadsTheSame DEF TypedInv
  <1> QED
    BY <1>1, <1>2 DEF TypedInv, Sending

\* A candidate in place of a word, or of its own where no comment is open, leaves a line
\* without a token behind a comment,
LEMMA CompletedIsTidy ==
    ASSUME NEW line, Tidy(line), line # <<>> => L!Last(line) # "--", NEW c \in L!Completed(line)
    PROVE  Tidy(c)
  <1>1. line \in Seq(Token)
    BY DEF Tidy
  <1>2. line # <<>> => /\ L!Front(line) \in Seq(Token) /\ Len(line) \in Nat
                       /\ L!Last(line) = line[Len(line)]
                       /\ Len(L!Front(line)) = Len(line) - 1
                       /\ \A k \in 1 .. Len(L!Front(line)) : L!Front(line)[k] = line[k]
    BY <1>1, FrontAndLast DEF L!Last
  <1>3. ASSUME NEW m \in Seq(Token), \A i \in 1 .. Len(m) : m[i] # "--", NEW t \in Token
        PROVE  Tidy(Append(m, t))
    <2>1. /\ Append(m, t) \in Seq(Token) /\ Len(m) \in Nat /\ Len(Append(m, t)) = Len(m) + 1
          /\ \A i \in 1 .. Len(m) : Append(m, t)[i] = m[i]
      BY <1>3, AppendProperties
    <2> QED
      BY <1>3, <2>1 DEF Tidy
  <1>4. \A t : L!Replacements(t) \subseteq Token
    BY LinesAreOfTokens DEF L!Replacements
  <1>5. ASSUME NEW t \in Token, c = Append(line, t)
        PROVE  Tidy(c)
    <2>1. CASE line = <<>>
      <3>1. \A i \in 1 .. Len(line) : line[i] # "--"
        BY <2>1
      <3> QED
        BY <1>1, <1>3, <1>5, <3>1
    <2>2. CASE line # <<>>
      <3>1. \A i \in 1 .. Len(line) : line[i] # "--"
        BY <1>2, <2>2 DEF Tidy
      <3> QED
        BY <1>1, <1>3, <1>5, <3>1
    <2> QED
      BY <2>1, <2>2
  <1>6. ASSUME line # <<>>, NEW t \in Token, c = Append(L!Front(line), t)
        PROVE  Tidy(c)
    <2>1. \A i \in 1 .. Len(L!Front(line)) : L!Front(line)[i] # "--"
      BY <1>2, <1>6 DEF Tidy
    <2> QED
      BY <1>2, <1>3, <1>6, <2>1
  <1>7. \/ line # <<>> /\ \E t \in L!Replacements(L!Last(line)) : c = Append(L!Front(line), t)
        \/ \E t \in L!Candidates : c = Append(line, t)
    BY DEF L!Completed
  <1> QED
    BY <1>4, <1>5, <1>6, <1>7, LinesAreOfTokens

\* so that a completed text is one that can be typed.
LEMMA UseKeeps ==
    ASSUME TypedInv, L!Use
    PROVE  TypedInv'
  <1>1. awaits' = "line" /\ typed' = L!Lexed(reader)'
    BY DEF L!Use, L!Ask
  <1>2. \A t \in L!Candidates : t \in Token
    BY LinesAreOfTokens
  <1>3. CASE reader = <<>>
    <2>1. PICK t \in L!Candidates : reader' = << <<t>> >>
      BY <1>3 DEF L!Use
    <2>2. Tidy(<<t>>)
      BY <1>2, StartIsBetween, OneToken
    <2>3. TypedText(reader')
      BY <2>1, <2>2, OneLineAlone
    <2> QED
      BY <1>1, <2>1, <2>3 DEF TypedInv, Sending
  <1>4. CASE reader # <<>>
    <2> DEFINE before == L!Front(reader)
               e == L!Last(reader)
    <2>1. reader \in Scripts /\ \A i \in 1 .. Len(reader) : Tidy(reader[i])
      BY DEF TypedInv, TypedText
    <2>2. /\ before \in Scripts /\ Len(reader) \in Nat /\ Len(reader) # 0
          /\ Len(before) = Len(reader) - 1
          /\ \A i \in 1 .. Len(before) : before[i] = reader[i]
      BY <1>4, <2>1, FrontAndLast DEF Scripts
    <2>3. e = reader[Len(reader)] /\ Tidy(e)
      BY <2>1, <2>2 DEF L!Last
    <2>4. e # <<>> => L!Last(e) # "--"
      <3>1. e # <<>> => ~L!OnlyBlank(reader)
        BY <2>1, <2>2, <2>3 DEF L!OnlyBlank, Scripts
      <3>2. ~L!InLiteralOrComment(reader)
        BY <1>4 DEF L!Use, L!IsCommand
      <3> QED
        BY <3>1, <3>2 DEF L!InLiteralOrComment, L!EndsWith
    <2>5. TypedText(before)
      <3>1. \A i \in 1 .. Len(before) : i \in 1 .. Len(reader)
        BY <2>2
      <3> QED
        BY <2>1, <2>2, <3>1 DEF TypedText
    <2>6. PICK c \in L!Completed(e) : reader' = Append(before, c)
      BY <1>4 DEF L!Use
    <2>7. TypedText(reader')
      BY <2>3, <2>4, <2>5, <2>6, CompletedIsTidy, OneLineIsTyped
    <2>8. ASSUME tail' = "cut"
          PROVE  \E t \in L!Candidates : reader' = << <<t>> >>
      <3>1. tail = "cut"
        BY <1>4, <2>8 DEF L!Use
      <3>2. PICK t \in L!Candidates : reader = << <<t>> >>
        BY <3>1 DEF TypedInv
      <3>3. e = <<t>> /\ before = <<>>
        BY <3>2 DEF L!Last, L!Front
      <3>4. L!Last(e) = t /\ L!Front(e) = <<>> /\ e # <<>>
        BY <3>3 DEF L!Last, L!Front
      <3>5. L!Replacements(t) = L!Candidates /\ L!Candidates # {}
        BY <3>2 DEF L!Replacements, L!Candidates, L!Words
      <3>6. \E u \in L!Candidates : c = Append(<<>>, u)
        BY <2>6, <3>1, <3>4, <3>5 DEF L!Completed
      <3> QED
        BY <2>6, <3>3, <3>6
    <2> QED
      BY <1>1, <2>7, <2>8 DEF TypedInv, Sending
  <1> QED
    BY <1>3, <1>4

\* and no other step changes what was typed or what it became.
LEMMA TypedNext ==
    ASSUME TypedInv, [L!Next]_clients
    PROVE  TypedInv'
  <1>1. CASE UNCHANGED clients
    BY <1>1 DEF clients, TypedInv, L!Guarded
  <1>2. CASE L!Connect \/ L!Password \/ L!EndOfInput \/ L!QueryWrite
    <2>1. UNCHANGED <<reader, typed, tail>> /\ awaits' \notin Sending \cup {"open", "executing"}
      BY <1>2 DEF L!Connect, L!Password, L!EndOfInput, L!QueryWrite, L!Leave, Sending
    <2> QED
      BY <2>1, NothingIsTyped
  <1>3. ASSUME NEW line \in Typed, L!Feed(line)
        PROVE  TypedInv'
    <2>1. Tidy(line)
      BY LinesAreOfTokens, ClientAssumption DEF Tidy
    <2> QED
      BY <1>3, <2>1, FeedKeeps
  <1>4. ASSUME NEW meta, L!MetaAsSql(meta)
        PROVE  TypedInv'
    <2>1. "command" \in Token
      BY LinesAreOfTokens
    <2>2. Tidy(<<"command">>)
      BY <2>1, StartIsBetween, OneToken
    <2> QED
      BY <1>4, <2>2, FeedKeeps DEF L!MetaAsSql
  <1>5. ASSUME NEW meta, L!Meta(meta)
        PROVE  TypedInv'
    <2>1. UNCHANGED <<reader, typed, tail>> /\ awaits' \notin Sending \cup {"open", "executing"}
      BY <1>5 DEF L!Meta, L!Ask, L!Leave, Sending
    <2> QED
      BY <2>1, NothingIsTyped
  <1>6. ASSUME NEW answer, L!Confirm(answer)
        PROVE  TypedInv'
    <2>1. /\ awaits = "confirm" /\ answered' = answer /\ UNCHANGED <<way, reader, sql, typed, tail>>
          /\ awaits' = IF L!Accepts(sql, answer) THEN L!Values(sql) ELSE "line"
      BY <1>6 DEF L!Confirm
    <2>2. L!Values(sql) \in {"values", "running"}
      BY DEF L!Values
    <2> QED
      BY <2>1, <2>2 DEF TypedInv, Sending, L!Guarded
  <1>7. CASE L!GiveValues \/ L!CancelValues
    BY <1>7 DEF L!GiveValues, L!CancelValues, TypedInv, Sending, L!Guarded
  <1>8. ASSUME NEW status, L!Run(status) \/ L!QueryRun(status)
        PROVE  TypedInv'
    <2>1. UNCHANGED <<reader, typed, tail>> /\ awaits' \notin Sending \cup {"open", "executing"}
      BY <1>8 DEF L!Run, L!QueryRun, Sending
    <2> QED
      BY <2>1, NothingIsTyped
  <1>9. ASSUME NEW t, L!QueryRead(t)
        PROVE  TypedInv'
    <2>1. /\ UNCHANGED <<reader, typed, tail, way>> /\ sql' = t
          /\ awaits' = "left" \/ (awaits' = "open" /\ ~(L!Guarded(t) /\ ~way.allow))
      BY <1>9 DEF L!QueryRead, L!Leave
    <2>2. L!Guarded(sql)' = L!Guarded(t)
      BY <2>1 DEF L!Guarded
    <2> QED
      BY <2>1, <2>2 DEF TypedInv, Sending
  <1>10. CASE L!Format \/ L!Use
    BY <1>10, FormatKeeps, UseKeeps
  <1>11. CASE L!QueryConnect
    <2>1. /\ UNCHANGED <<reader, typed, tail, way, sql>> /\ awaits = "open"
          /\ awaits' \in {"executing", "left"}
      BY <1>11 DEF L!QueryConnect, L!Leave
    <2> QED
      BY <2>1 DEF TypedInv, Sending, L!Guarded
  <1> QED
    BY <1>1, <1>2, <1>3, <1>4, <1>5, <1>6, <1>7, <1>8, <1>9, <1>10, <1>11 DEF L!Next

\* Whatever is typed, completed, formatted and answered: what the plain client sends is whole,
\* reads as the lines and the completions in them made it, and was confirmed with the answer that
\* it needs before it can change a production target; `query` connects with a statement that can
\* only when it is allowed (plain.rs:80 and 455, format.rs:1, cli/mod.rs:1101).
THEOREM WhatIsSentIsWhole == Spec => []SentIsWholeAndConfirmed
  <1> DEFINE Inv == part = "lines" => TypedInv
  <1>1. Init => Inv
    BY TypedInit DEF Init
  <1>2. Inv /\ [Next]_vars => Inv'
    <2> SUFFICES ASSUME Inv, [Next]_vars, part' = "lines" PROVE TypedInv'
      OBVIOUS
    <2>1. part = "lines" /\ [L!Next]_clients
      BY DEF Next, vars
    <2> QED
      BY <2>1, TypedNext
  <1>3. Inv => SentIsWholeAndConfirmed
    <2> SUFFICES ASSUME TypedInv, awaits = "running"
                 PROVE  /\ ~L!Lexed(sql).open /\ L!IsComplete(sql) /\ L!Lexed(sql) = typed
                        /\ L!Guarded(sql) => L!Accepts(sql, answered)
      BY DEF SentIsWholeAndConfirmed, L!SentIsWholeAndConfirmed, TypedInv
    <2>1. sql \in Scripts /\ L!IsComplete(sql) /\ typed = L!Lexed(sql)
      BY DEF TypedInv, Sending
    <2>2. L!Lexed(sql) \in Seen
      <3>1. <<"word">> \in Seq(Token)
        BY LinesAreOfTokens, OneIsASequence
      <3>2. L!Lexed(sql) \in Between
        BY <2>1, <3>1, OneMoreLine
      <3> QED
        BY <3>2 DEF Between
    <2>3. ~L!Lexed(sql).open
      BY <2>1, <2>2 DEF Seen, L!IsComplete
    <2> QED
      BY <2>1, <2>3 DEF TypedInv, Sending
  <1> QED
    BY <1>1, <1>2, <1>3, PTL DEF Spec
=============================================================================
