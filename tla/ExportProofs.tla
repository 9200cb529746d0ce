----------------------------- MODULE ExportProofs -----------------------------
(***************************************************************************)
(* What `dbctx inspect` never does to the files of a directory, for any    *)
(* number of commands at once, any artifacts, tables and migrations.       *)
(*                                                                         *)
(* The inductive invariant says why looking at the five documents and the  *)
(* directory tables/ is enough to know that no file is in the way: a table *)
(* file exists only when tables/ does, because export() creates the        *)
(* directory first.                                                        *)
(***************************************************************************)
EXTENDS Export, TLAPS

Writes == {TablesDir} \cup [file : Files, of : Labels(setting)]

\* Every write of a table file follows the creation of tables/.
DirectoryFirst(plan, made) ==
    \A i \in DOMAIN plan :
        \/ made
        \/ plan[i].file \in TopLevel
        \/ \E j \in 1 .. i : plan[j] = TablesDir

-----------------------------------------------------------------------------
(* The plan of an export. *)

\* One sequence after another keeps what holds of both.
LEMMA Concatenated ==
    ASSUME NEW S, NEW a \in Seq(S), NEW b \in Seq(S)
    PROVE  /\ a \o b \in Seq(S)
           /\ \A i \in DOMAIN (a \o b) :
                \/ i \in DOMAIN a /\ (a \o b)[i] = a[i]
                \/ i - Len(a) \in DOMAIN b /\ (a \o b)[i] = b[i - Len(a)]
           /\ \A i \in DOMAIN a : i \in DOMAIN (a \o b) /\ (a \o b)[i] = a[i]
OBVIOUS

\* A document at the top of the directory.
LEMMA TopLevelWrite ==
    ASSUME NEW f \in TopLevel
    PROVE  Artifact(f) \in Writes /\ Artifact(f).file \in TopLevel
BY DEF Artifact, Writes, Labels, Files

\* A list of such documents, behind anything, changes nothing about the order.
LEMMA DirectoryStaysFirst ==
    ASSUME NEW a \in Seq(Writes), DirectoryFirst(a, FALSE),
           NEW b \in Seq(Writes), \A i \in DOMAIN b : b[i].file \in TopLevel
    PROVE  a \o b \in Seq(Writes) /\ DirectoryFirst(a \o b, FALSE)
<1>1. a \o b \in Seq(Writes)
  OBVIOUS
<1>2. ASSUME NEW i \in DOMAIN (a \o b)
      PROVE  (a \o b)[i].file \in TopLevel \/ \E j \in 1 .. i : (a \o b)[j] = TablesDir
  <2>1. CASE i \in DOMAIN a /\ (a \o b)[i] = a[i]
    <3>1. a[i].file \in TopLevel \/ \E j \in 1 .. i : a[j] = TablesDir
      BY <2>1 DEF DirectoryFirst
    <3>2. \A j \in 1 .. i : j \in DOMAIN a /\ (a \o b)[j] = a[j]
      BY <2>1
    <3> QED
      BY <2>1, <3>1, <3>2
  <2>2. CASE i - Len(a) \in DOMAIN b /\ (a \o b)[i] = b[i - Len(a)]
    BY <2>2
  <2> QED
    BY <2>1, <2>2, Concatenated
<1> QED
  BY <1>1, <1>2 DEF DirectoryFirst

\* What the tables of a schema are written to.
LEMMA TableFilesAreWrites ==
    ASSUME NEW s \in Schemas, setting.tablesOf[s] \in Seq(ToSet(setting.tablesOf[s]))
    PROVE  TableFiles(s) \in Seq(Writes)
<1> DEFINE of == setting.tablesOf[s]
<1>1. \A i \in DOMAIN of : of[i] \in Tables
  BY DEF Tables, TablesOf, ToSet
<1>2. ASSUME NEW t \in Tables
      PROVE  TableArtifact(t) \in Writes
  BY DEF TableArtifact, Writes, Labels, Files, Tables
<1>3. \A i \in DOMAIN of : TableArtifact(of[i]) \in Writes
  BY <1>1, <1>2
<1>4. /\ Len(of) \in Nat /\ DOMAIN of = 1 .. Len(of)
      /\ TableFiles(s) = [i \in 1 .. Len(of) |-> TableArtifact(of[i])]
  BY DEF TableFiles
<1> HIDE DEF of
<1> QED
  BY <1>3, <1>4

\* Every plan consists of writes, the directory before the files in it.
LEMMA PlanIsOrdered ==
    ASSUME NEW select, NEW s \in Schemas,
           setting.tablesOf[s] \in Seq(ToSet(setting.tablesOf[s]))
    PROVE  Plan(select, s) \in Seq(Writes) /\ DirectoryFirst(Plan(select, s), FALSE)
<1> DEFINE documents == <<Artifact(SchemaJson), Artifact(RelationshipsJson), Artifact(MetadataJson)>>
           files == <<TablesDir>> \o TableFiles(s)
           json == documents \o IF "tables" \in select THEN files ELSE <<>>
           markdown == IF "markdown" \in select THEN <<Artifact(SchemaMd)>> ELSE <<>>
           mermaid == IF "mermaid" \in select THEN <<Artifact(GraphMmd)>> ELSE <<>>
           first == IF "json" \in select THEN json ELSE <<>>
<1>1. Plan(select, s) = first \o markdown \o mermaid
  BY DEF Plan
<1>2. documents \in Seq(Writes) /\ \A i \in DOMAIN documents : documents[i].file \in TopLevel
  BY TopLevelWrite DEF TopLevel
<1>3. files \in Seq(Writes) /\ files[1] = TablesDir /\ 1 \in DOMAIN files
  <2>1. TablesDir \in Writes
    BY DEF TablesDir, Writes, Labels
  <2> QED
    BY <2>1, TableFilesAreWrites
<1>4. <<>> \in Seq(Writes) /\ DirectoryFirst(<<>>, FALSE)
  BY DEF DirectoryFirst
<1>5. documents \o files \in Seq(Writes) /\ DirectoryFirst(documents \o files, FALSE)
  <2> HIDE DEF documents, files
  <2>1. ASSUME NEW i \in DOMAIN (documents \o files)
        PROVE  \/ (documents \o files)[i].file \in TopLevel
               \/ \E j \in 1 .. i : (documents \o files)[j] = TablesDir
    <3>1. CASE i \in DOMAIN documents /\ (documents \o files)[i] = documents[i]
      BY <3>1, <1>2
    <3>2. CASE i - Len(documents) \in DOMAIN files
      <4>1. (documents \o files)[Len(documents) + 1] = files[1]
        BY <1>2, <1>3
      <4> QED
        BY <3>2, <4>1, <1>2, <1>3
    <3> QED
      BY <3>1, <3>2, <1>2, <1>3, Concatenated
  <2> QED
    BY <1>2, <1>3, <2>1 DEF DirectoryFirst
<1>6. documents \o <<>> \in Seq(Writes) /\ DirectoryFirst(documents \o <<>>, FALSE)
  <2> HIDE DEF documents
  <2> QED
    BY <1>2, <1>4, DirectoryStaysFirst DEF DirectoryFirst
<1>7. first \in Seq(Writes) /\ DirectoryFirst(first, FALSE)
  <2> HIDE DEF documents, files
  <2> QED
    BY <1>4, <1>5, <1>6
<1>8. /\ markdown \in Seq(Writes) /\ \A i \in DOMAIN markdown : markdown[i].file \in TopLevel
      /\ mermaid \in Seq(Writes) /\ \A i \in DOMAIN mermaid : mermaid[i].file \in TopLevel
  BY TopLevelWrite DEF TopLevel
<1> HIDE DEF first, markdown, mermaid
<1> QED
  BY <1>1, <1>7, <1>8, DirectoryStaysFirst, ZenonT(60)

-----------------------------------------------------------------------------
(* The inductive invariant. *)

PCs == {"idle", "inspecting", "exporting", "writing", "ok", "refused", "failed"}
OptionRecords == [overwrite : BOOLEAN, stdout : BOOLEAN,
                  select : setting.selections \cup {{}}]
Directories == [files : [Files -> Content], tables : BOOLEAN]

\* The directories of which every file is still there.
Earlier == {d \in Directories : \A f \in Files : d.files[f] # Absent => fs[f] # Absent}

Typed ==
    /\ setting \in Settings
    /\ schema \in Schemas
    /\ fs \in [Files -> Content]
    /\ tables \in BOOLEAN
    /\ pc \in [Procs -> PCs]
    /\ options \in [Procs -> OptionRecords]
    /\ database \in [Procs -> Schemas]
    /\ todo \in [Procs -> Seq(Writes)]
    /\ open \in [Procs -> BOOLEAN]
    /\ before \in [Procs -> Directories]

\* A file beside the five documents is a table's, and it is in tables/.
FilesInTables == \A f \in Files \ TopLevel : fs[f] # Absent => tables

\* A process writes only while it is writing, and then it was told to.
WritesWhenTold ==
    \A p \in Procs :
        /\ todo[p] # <<>> => pc[p] = "writing"
        /\ open[p] => /\ pc[p] = "writing" /\ todo[p] # <<>>
                      /\ Item(p) # TablesDir /\ fs[Item(p).file] # Absent
        /\ pc[p] = "writing" => ToDirectory(p)
        /\ DirectoryFirst(todo[p], tables)

\* Files stay, and a process that may not replace any found none when it began.
BeforeIsKept ==
    \A p \in Procs :
        /\ before[p] \in Earlier
        /\ pc[p] = "writing" /\ ~options[p].overwrite =>
                \A f \in Files : before[p].files[f] = Absent

\* Nothing but a process of its own changes the directory of one that is alone.
AloneIsQuiet ==
    \A p \in Procs : Alone(p) /\ (pc[p] \in {"inspecting", "exporting", "refused"}
                                  \/ (pc[p] = "ok" /\ ~ToDirectory(p)))
        => before[p] = Directory

IInv == Typed /\ FilesInTables /\ WritesWhenTold /\ BeforeIsKept /\ AloneIsQuiet

\* As long as the setting stays, so does all that is defined by it.
LEMMA SettingKeeps ==
    ASSUME setting' = setting
    PROVE  /\ Procs' = Procs /\ Files' = Files /\ Writes' = Writes
           /\ Content' = Content /\ Directories' = Directories /\ OptionRecords' = OptionRecords /\ Tables' = Tables
BY DEF Procs, Files, Tables, TablesOf, table_file_name, FileOf, TablesDir, Writes, Labels, Content, Directories, OptionRecords

\* A document is not the absence of one.
LEMMA DocumentsExist ==
    ASSUME Typed, NEW s \in Schemas, NEW w \in Writes
    PROVE  Document(s, w) \in Content /\ Document(s, w) # Absent
<1>1. Document(s, w) \in [schema : Schemas, of : Labels(setting)]
  BY DEF Document, Writes, TablesDir, Labels
<1> QED
  BY <1>1, AbsentAssumption DEF Typed, Content

\* A write that is due to a file is to one of the files, in a directory that is there.
LEMMA DueWrite ==
    ASSUME IInv, NEW p \in Procs, todo[p] # <<>>, Item(p) # TablesDir
    PROVE  /\ Item(p) \in Writes /\ Item(p).file \in Files
           /\ Item(p).file \notin TopLevel => tables
<1>1. todo[p] \in Seq(Writes) /\ 1 \in DOMAIN todo[p] /\ Item(p) = todo[p][1]
  BY DEF IInv, Typed, Item
<1>2. DirectoryFirst(todo[p], tables)
  BY DEF IInv, WritesWhenTold
<1> QED
  BY <1>1, <1>2 DEF DirectoryFirst, Writes

\* What is left of a plan once its first write was made.
LEMMA RestOfPlan ==
    ASSUME NEW plan \in Seq(Writes), plan # <<>>, NEW made, DirectoryFirst(plan, made)
    PROVE  /\ Tail(plan) \in Seq(Writes)
           /\ plan[1] # TablesDir => DirectoryFirst(Tail(plan), made)
           /\ DirectoryFirst(Tail(plan), TRUE)
<1>1. Tail(plan) \in Seq(Writes) /\ \A i \in DOMAIN Tail(plan) :
            i + 1 \in DOMAIN plan /\ Tail(plan)[i] = plan[i + 1]
  OBVIOUS
<1>2. ASSUME plan[1] # TablesDir, NEW i \in DOMAIN Tail(plan)
      PROVE  \/ made \/ Tail(plan)[i].file \in TopLevel
             \/ \E j \in 1 .. i : Tail(plan)[j] = TablesDir
  <2>1. \A j \in 1 .. (i + 1) : plan[j] = TablesDir =>
            j - 1 \in 1 .. i /\ j - 1 \in DOMAIN Tail(plan) /\ Tail(plan)[j - 1] = plan[j]
    BY <1>1, <1>2
  <2>2. \/ made \/ plan[i + 1].file \in TopLevel
        \/ \E j \in 1 .. (i + 1) : plan[j] = TablesDir
    BY <1>1 DEF DirectoryFirst
  <2> QED
    BY <1>1, <2>1, <2>2
<1> QED
  BY <1>1, <1>2 DEF DirectoryFirst

\* The first step of every command finds the directory as Init has it.
THEOREM Initially == Init => IInv
<1> SUFFICES ASSUME Init PROVE IInv
  OBVIOUS
<1>1. NoOptions \in OptionRecords /\ NoDatabase \in Schemas /\ <<>> \in Seq(Writes)
  BY DEF Init, NoOptions, NoDatabase, OptionRecords
<1>2. Typed /\ NoDirectory \in Earlier
  BY <1>1 DEF Init, Typed, Content, PCs, NoDirectory, Directories, Earlier
<1>3. FilesInTables /\ BeforeIsKept /\ AloneIsQuiet
  BY <1>2 DEF Init, FilesInTables, BeforeIsKept, AloneIsQuiet, NoDirectory, Directory
<1>4. WritesWhenTold
  BY DEF Init, WritesWhenTold, DirectoryFirst
<1> QED
  BY <1>2, <1>3, <1>4 DEF IInv

\* Nothing of it depends on anything but the variables.
LEMMA Stutters ==
    ASSUME IInv, UNCHANGED vars
    PROVE  IInv'
<1>1. Typed'
  BY SettingKeeps DEF vars, proc, IInv, Typed
<1>2. FilesInTables'
  BY SettingKeeps DEF vars, IInv, FilesInTables, TopLevel
<1>3. WritesWhenTold'
  BY SettingKeeps DEF vars, proc, IInv, WritesWhenTold, ToDirectory, Item, DirectoryFirst, TopLevel,
                      TablesDir
<1>4. BeforeIsKept'
  BY SettingKeeps DEF vars, proc, IInv, BeforeIsKept, Earlier
<1>5. AloneIsQuiet'
  BY SettingKeeps DEF vars, proc, IInv, AloneIsQuiet, Alone, ToDirectory, Directory
<1> QED
  BY <1>1, <1>2, <1>3, <1>4, <1>5 DEF IInv

\* Steps that touch no file and write nothing: what has to be shown of them is
\* how a process comes to stand where it does.
LEMMA QuietStep ==
    ASSUME IInv, setting' = setting, fs' = fs, tables' = tables, todo' = todo, open' = open,
           schema' \in Schemas, pc' \in [Procs -> PCs], options' \in [Procs -> OptionRecords],
           database' \in [Procs -> Schemas], before' \in [Procs -> Earlier],
           \A p \in Procs : pc'[p] = "writing" <=> pc[p] = "writing",
           \A p \in Procs : pc[p] = "writing" =>
               options'[p] = options[p] /\ before'[p] = before[p],
           AloneIsQuiet'
    PROVE  IInv'
<1>1. Typed'
  BY SettingKeeps DEF IInv, Typed, Earlier
<1>2. FilesInTables'
  BY SettingKeeps DEF IInv, FilesInTables, TopLevel
<1>3. WritesWhenTold'
  BY SettingKeeps DEF IInv, WritesWhenTold, Item, ToDirectory, DirectoryFirst, TopLevel, TablesDir
<1>4. BeforeIsKept'
  BY SettingKeeps DEF IInv, BeforeIsKept, Earlier
<1> QED
  BY <1>1, <1>2, <1>3, <1>4 DEF IInv

\* A migration, the start of a command, its inspection, standard output, a
\* refusal, and the end of a command that was read.
LEMMA QuietActions ==
    ASSUME IInv,
           \/ Migrate
           \/ \E p \in Procs : Start(p) \/ Inspect(p) \/ WriteStdout(p) \/ Refuse(p) \/ Reap(p)
    PROVE  IInv'
<1>1. CASE Migrate
  <2>1. AloneIsQuiet'
    BY <1>1, SettingKeeps DEF Migrate, proc, IInv, AloneIsQuiet, Alone, ToDirectory, Directory
  <2> QED
    BY <1>1, <2>1, QuietStep DEF Migrate, proc, IInv, Typed, BeforeIsKept
<1>2. ASSUME NEW p \in Procs, Start(p)
      PROVE  IInv'
  <2>1. Options \subseteq OptionRecords
    BY DEF Options, OptionRecords
  <2>2. options' \in [Procs -> OptionRecords] /\ pc' \in [Procs -> PCs]
    BY <1>2, <2>1 DEF Start, IInv, Typed, PCs
  <2>3. before' \in [Procs -> Earlier] /\ before'[p] = Directory
    BY <1>2 DEF Start, IInv, Typed, BeforeIsKept, Earlier, Directories, Directory
  <2>4. AloneIsQuiet'
    BY <1>2, <2>3, SettingKeeps
       DEF Start, IInv, Typed, AloneIsQuiet, Alone, ToDirectory, Directory
  <2> QED
    BY <1>2, <2>2, <2>3, <2>4, QuietStep DEF Start, IInv, Typed
<1>3. ASSUME NEW p \in Procs, Inspect(p) \/ WriteStdout(p) \/ Refuse(p)
      PROVE  IInv'
  <2>1. /\ pc' \in [Procs -> PCs] /\ database' \in [Procs -> Schemas]
        /\ UNCHANGED <<setting, fs, tables, todo, open, schema, options, before>>
        /\ pc[p] \in {"inspecting", "exporting"} /\ pc'[p] # "writing"
        /\ \A q \in Procs \ {p} : pc'[q] = pc[q]
    BY <1>3 DEF Inspect, WriteStdout, Refuse, IInv, Typed, PCs
  <2>2. AloneIsQuiet'
    BY <2>1, SettingKeeps DEF IInv, AloneIsQuiet, Alone, ToDirectory, Directory
  <2>3. before \in [Procs -> Earlier]
    BY DEF IInv, Typed, BeforeIsKept
  <2> QED
    BY <2>1, <2>2, <2>3, QuietStep DEF IInv, Typed
<1>4. ASSUME NEW p \in Procs, Reap(p)
      PROVE  IInv'
  <2>1. NoOptions \in OptionRecords /\ NoDatabase \in Schemas
    BY DEF IInv, Typed, NoOptions, NoDatabase, OptionRecords
  <2>2. /\ pc' \in [Procs -> PCs] /\ options' \in [Procs -> OptionRecords]
        /\ database' \in [Procs -> Schemas]
    BY <1>4, <2>1 DEF Reap, IInv, Typed, PCs
  <2>3. NoDirectory \in Earlier
    BY DEF NoDirectory, Earlier, Directories, Content
  <2>5. before' \in [Procs -> Earlier]
    BY <1>4, <2>3 DEF Reap, IInv, Typed, BeforeIsKept
  <2>4. AloneIsQuiet'
    BY <1>4, SettingKeeps DEF Reap, IInv, Typed, AloneIsQuiet, Alone, ToDirectory, Directory
  <2> QED
    BY <1>4, <2>2, <2>4, <2>5, QuietStep DEF Reap, IInv, Typed
<1> QED
  BY <1>1, <1>2, <1>3, <1>4

\* A command that writes is not quiet, and no other is alone.
LEMMA NobodyIsQuiet ==
    ASSUME IInv, NEW p \in Procs, setting' = setting,
           pc' \in [Procs -> PCs], pc'[p] \in {"writing", "failed"} \/ (pc'[p] = "ok" /\ ToDirectory(p)')
    PROVE  AloneIsQuiet'
BY SettingKeeps DEF AloneIsQuiet, Alone

\* Accept keeps the invariant of the directory.
LEMMA AcceptKeeps ==
    ASSUME IInv, NEW p \in Procs, Accept(p)
    PROVE  IInv'
<1> DEFINE plan == Plan(options[p].select, database[p])
<1>1. plan \in Seq(Writes) /\ DirectoryFirst(plan, FALSE)
  BY SettingsAssumption, PlanIsOrdered DEF IInv, Typed
<1>2. DirectoryFirst(plan, tables)
  BY <1>1 DEF DirectoryFirst
<1> HIDE DEF plan
<1>3. /\ pc' = [pc EXCEPT ![p] = "writing"] /\ todo' = [todo EXCEPT ![p] = plan]
      /\ UNCHANGED <<setting, schema, fs, tables, options, database, open, before>>
      /\ pc[p] = "exporting" /\ ToDirectory(p)
      /\ options[p].overwrite \/ ~any_output_exists
  BY DEF Accept, plan
<1>4. Typed'
  BY <1>1, <1>3, SettingKeeps DEF IInv, Typed, PCs
<1>5. FilesInTables'
  BY <1>3, SettingKeeps DEF IInv, FilesInTables, TopLevel
<1>6. WritesWhenTold'
  <2>1. ~open[p]
    BY <1>3 DEF IInv, WritesWhenTold
  <2>2. ToDirectory(p)' /\ DirectoryFirst(todo[p], tables)' /\ ~open'[p] /\ pc'[p] = "writing"
    BY <1>2, <1>3, <2>1 DEF IInv, Typed, ToDirectory, DirectoryFirst, TopLevel, TablesDir
  <2>3. \A q \in Procs \ {p} : todo'[q] = todo[q] /\ pc'[q] = pc[q] /\ open'[q] = open[q]
                               /\ options'[q] = options[q]
    BY <1>3 DEF IInv, Typed
  <2> QED
    BY <1>3, <2>2, <2>3, SettingKeeps
       DEF IInv, WritesWhenTold, ToDirectory, DirectoryFirst, Item, TopLevel, TablesDir
<1>7. BeforeIsKept'
  <2>1. ~options[p].overwrite => \A f \in Files : before[p].files[f] = Absent
    BY <1>3 DEF any_output_exists, IInv, Typed, FilesInTables, BeforeIsKept, Earlier
  <2> QED
    BY <1>3, <2>1, SettingKeeps DEF IInv, Typed, BeforeIsKept, Earlier
<1>8. AloneIsQuiet'
  BY <1>3, <1>4, NobodyIsQuiet, SettingKeeps DEF IInv, Typed
<1> QED
  BY <1>4, <1>5, <1>6, <1>7, <1>8 DEF IInv

\* Steps of a process that writes: files and directories stay, its own list of
\* writes stays in order, and it goes on writing or has finished or failed.
LEMMA WriterStep ==
    ASSUME IInv, NEW p \in Procs, UNCHANGED <<setting, schema, options, database, before>>,
           fs' \in [Files -> Content], \A f \in Files : fs[f] # Absent => fs'[f] # Absent,
           \A f \in Files \ TopLevel : fs'[f] # Absent => tables',
           tables' \in BOOLEAN, tables => tables',
           NEW at \in PCs, pc' = [pc EXCEPT ![p] = at],
           NEW rest \in Seq(Writes), todo' = [todo EXCEPT ![p] = rest],
           NEW opened \in BOOLEAN, open' = [open EXCEPT ![p] = opened],
           DirectoryFirst(rest, tables'), rest # <<>> => at = "writing",
           opened => at = "writing" /\ rest # <<>> /\ Head(rest) # TablesDir
                     /\ fs'[Head(rest).file] # Absent,
           at = "failed" \/ (at \in {"writing", "ok"} /\ pc[p] = "writing")
    PROVE  IInv'
<1>1. Typed'
  BY SettingKeeps DEF IInv, Typed
<1>2. FilesInTables'
  BY SettingKeeps DEF FilesInTables, TopLevel
<1>3. WritesWhenTold'
  <2>1. pc'[p] = at /\ todo'[p] = rest /\ open'[p] = opened
    BY DEF IInv, Typed
  <2>2. \A q \in Procs \ {p} : todo'[q] = todo[q] /\ pc'[q] = pc[q] /\ open'[q] = open[q]
    BY DEF IInv, Typed
  <2>3. DirectoryFirst(todo[p], tables)'
    BY <2>1 DEF DirectoryFirst, TopLevel, TablesDir
  <2>4. ASSUME NEW q \in Procs \ {p}
        PROVE  /\ DirectoryFirst(todo[q], tables)'
               /\ open[q] => fs'[Item(q).file] # Absent
    <3>1. DirectoryFirst(todo[q], tables)
      BY DEF IInv, WritesWhenTold
    <3>2. open[q] => Item(q).file \in Files /\ fs[Item(q).file] # Absent
      BY DueWrite DEF IInv, WritesWhenTold
    <3> QED
      BY <2>2, <3>1, <3>2 DEF DirectoryFirst, TopLevel, TablesDir
  <2>5. at = "writing" => ToDirectory(p)'
    BY DEF IInv, WritesWhenTold, ToDirectory
  <2> QED
    BY <2>1, <2>2, <2>3, <2>4, <2>5, SettingKeeps
       DEF IInv, WritesWhenTold, ToDirectory, Item, TablesDir
<1>4. BeforeIsKept'
  <2>1. Earlier \subseteq Earlier'
    BY SettingKeeps DEF Earlier
  <2>2. \A q \in Procs : pc'[q] = "writing" => pc[q] = "writing"
    BY DEF IInv, Typed
  <2> QED
    BY <2>1, <2>2, SettingKeeps DEF IInv, BeforeIsKept
<1>5. AloneIsQuiet'
  <2>1. pc'[p] = at /\ pc' \in [Procs -> PCs] /\ (at = "ok" => ToDirectory(p)')
    BY DEF IInv, Typed, WritesWhenTold, ToDirectory
  <2> QED
    BY <2>1, NobodyIsQuiet
<1> QED
  BY <1>1, <1>2, <1>3, <1>4, <1>5 DEF IInv

\* What is so of a process that has something to write.
LEMMA Writer ==
    ASSUME IInv, NEW p \in Procs, pc[p] = "writing"
    PROVE  /\ todo[p] \in Seq(Writes) /\ DirectoryFirst(todo[p], tables)
           /\ pc = [pc EXCEPT ![p] = "writing"] /\ "writing" \in PCs
           /\ open = [open EXCEPT ![p] = open[p]] /\ open[p] \in BOOLEAN
           /\ todo = [todo EXCEPT ![p] = todo[p]]
BY DEF IInv, Typed, WritesWhenTold, PCs

\* CreateTablesDir keeps the invariant of the directory.
LEMMA CreateTablesDirKeeps ==
    ASSUME IInv, NEW p \in Procs, CreateTablesDir(p)
    PROVE  IInv'
<1> DEFINE rest == Tail(todo[p])
<1>1. rest \in Seq(Writes) /\ DirectoryFirst(rest, TRUE)
  BY RestOfPlan, Writer DEF CreateTablesDir
<1>2. ~open[p]
  BY DEF CreateTablesDir, IInv, WritesWhenTold
<1> HIDE DEF rest
<1>3. /\ pc' = [pc EXCEPT ![p] = "writing"] /\ todo' = [todo EXCEPT ![p] = rest]
      /\ open' = [open EXCEPT ![p] = FALSE] /\ tables' = TRUE
      /\ UNCHANGED <<setting, schema, options, database, before, fs>>
      /\ pc[p] = "writing" /\ "writing" \in PCs
  BY <1>2, Writer DEF CreateTablesDir, rest
<1>4. fs \in [Files -> Content]
  BY DEF IInv, Typed
<1> QED
  BY <1>1, <1>3, <1>4, WriterStep

\* Open keeps the invariant of the directory.
LEMMA OpenKeeps ==
    ASSUME IInv, NEW p \in Procs, Open(p)
    PROVE  IInv'
<1> DEFINE file == Item(p).file
<1>1. /\ file \in Files /\ (file \notin TopLevel => tables)
      /\ Partial \in Content /\ Partial # Absent
  BY DueWrite, AbsentAssumption DEF Open, Content
<1>2. /\ fs' \in [Files -> Content] /\ fs'[file] # Absent
      /\ \A f \in Files : fs[f] # Absent => fs'[f] # Absent
      /\ \A f \in Files \ TopLevel : fs'[f] # Absent => tables'
  BY <1>1 DEF Open, IInv, Typed, FilesInTables
<1>3. /\ pc' = [pc EXCEPT ![p] = "writing"] /\ todo' = [todo EXCEPT ![p] = todo[p]]
      /\ open' = [open EXCEPT ![p] = TRUE] /\ todo[p] \in Seq(Writes)
      /\ pc[p] = "writing" /\ "writing" \in PCs /\ tables' \in BOOLEAN
      /\ DirectoryFirst(todo[p], tables')
  BY Writer DEF Open, IInv, Typed
<1>4. /\ todo[p] # <<>> /\ Head(todo[p]) # TablesDir /\ Head(todo[p]).file = file
      /\ UNCHANGED <<setting, schema, tables, options, database, before>>
  BY DEF Open, Item
<1> HIDE DEF file
<1> QED
  BY <1>2, <1>3, <1>4, WriterStep

\* Write keeps the invariant of the directory.
LEMMA WriteKeeps ==
    ASSUME IInv, NEW p \in Procs, Write(p)
    PROVE  IInv'
<1> DEFINE file == Item(p).file
           rest == Tail(todo[p])
<1>1. /\ todo[p] # <<>> /\ Item(p) # TablesDir /\ pc[p] = "writing" /\ Item(p) = todo[p][1]
      /\ file \in Files /\ fs[file] # Absent /\ Item(p) \in Writes
  BY DueWrite DEF Write, IInv, Typed, WritesWhenTold, Item
<1>2. PICK content \in Content \ {Absent} : fs' = [fs EXCEPT ![file] = content]
  <2>1. Document(database[p], Item(p)) \in Content \ {Absent}
    BY <1>1, DocumentsExist DEF IInv, Typed
  <2>2. Partial \in Content \ {Absent}
    BY AbsentAssumption DEF Content
  <2> QED
    BY <2>1, <2>2 DEF Write
<1>3. /\ fs' \in [Files -> Content]
      /\ \A f \in Files : fs'[f] # Absent <=> fs[f] # Absent
  BY <1>1, <1>2 DEF IInv, Typed
<1>4. rest \in Seq(Writes) /\ DirectoryFirst(rest, tables)
  BY <1>1, Writer, RestOfPlan
<1> HIDE DEF file, rest
<1>5. /\ pc' = [pc EXCEPT ![p] = "writing"] /\ todo' = [todo EXCEPT ![p] = rest]
      /\ open' = [open EXCEPT ![p] = FALSE] /\ tables' = tables
      /\ UNCHANGED <<setting, schema, options, database, before>>
      /\ "writing" \in PCs
  BY <1>1, Writer DEF Write, rest
<1>6. tables \in BOOLEAN /\ \A f \in Files \ TopLevel : fs'[f] # Absent => tables
  BY <1>3 DEF IInv, Typed, FilesInTables
<1> QED
  BY <1>1, <1>3, <1>4, <1>5, <1>6, WriterStep

\* End keeps the invariant of the directory.
LEMMA EndKeeps ==
    ASSUME IInv, NEW p \in Procs, Succeed(p) \/ Stop(p)
    PROVE  IInv'
<1> DEFINE rest == <<>>
<1>1. PICK at \in PCs : /\ pc' = [pc EXCEPT ![p] = at]
                        /\ at = "failed" \/ (at \in {"writing", "ok"} /\ pc[p] = "writing")
  BY DEF Succeed, Stop, PCs
<1>2. todo' = [todo EXCEPT ![p] = rest] /\ open' = [open EXCEPT ![p] = FALSE]
  BY DEF Succeed, Stop, IInv, Typed, WritesWhenTold
<1>3. /\ rest \in Seq(Writes) /\ DirectoryFirst(rest, tables') /\ (rest # <<>> => at = "writing")
      /\ fs' \in [Files -> Content] /\ tables' \in BOOLEAN
      /\ \A f \in Files \ TopLevel : fs'[f] # Absent => tables'
      /\ UNCHANGED <<setting, schema, options, database, before, fs, tables>>
  BY DEF Succeed, Stop, IInv, Typed, FilesInTables, DirectoryFirst
<1> HIDE DEF rest
<1> QED
  BY <1>1, <1>2, <1>3, WriterStep

\* Every step keeps the invariant.
THEOREM Step == IInv /\ [Next]_vars => IInv'
<1> SUFFICES ASSUME IInv, [Next]_vars PROVE IInv'
  OBVIOUS
<1>1. CASE UNCHANGED vars
  BY <1>1, Stutters
<1>2. CASE Migrate
  BY <1>2, QuietActions
<1>3. ASSUME NEW p \in Procs,
             Start(p) \/ Inspect(p) \/ WriteStdout(p) \/ Refuse(p) \/ Reap(p)
      PROVE  IInv'
  BY <1>3, QuietActions
<1>4. ASSUME NEW p \in Procs,
             Accept(p) \/ CreateTablesDir(p) \/ Open(p) \/ Write(p) \/ Succeed(p) \/ Stop(p)
      PROVE  IInv'
  BY <1>4, AcceptKeeps, CreateTablesDirKeeps, OpenKeeps, WriteKeeps, EndKeeps
<1> QED
  BY <1>1, <1>2, <1>3, <1>4 DEF Next

\* The invariant holds of every reachable state.
THEOREM Invariant == Spec => []IInv
BY Initially, Step, PTL DEF Spec

-----------------------------------------------------------------------------
(* The theorems. *)

\* The values of the variables are of their types: no step leaves a file with a
\* content no command could have written, or writes with no file under it.
THEOREM TypeCorrect == Spec => []TypeOK
<1>1. IInv => TypeOK
  <2> SUFFICES ASSUME IInv PROVE TypeOK
    OBVIOUS
  <2>1. \A p \in Procs : options[p].overwrite \in BOOLEAN /\ options[p].stdout \in BOOLEAN
    BY DEF IInv, Typed, OptionRecords
  <2>2. \A w \in Writes : w.file \in Files \cup {<<"tables">>}
    BY DEF Writes, TablesDir
  <2>3. \A p \in Procs : \A i \in DOMAIN todo[p] : todo[p][i] \in Writes
    BY DEF IInv, Typed
  <2> QED
    BY <2>1, <2>2, <2>3 DEF IInv, Typed, WritesWhenTold, TypeOK, PCs, Directories
<1> QED
  BY <1>1, Invariant, PTL

\* A command that was refused, or that only prints, leaves the directory as it
\* found it, the contents of its files included, for any schema, tables and
\* artifacts.
THEOREM RefusalWritesNothing == Spec => []RefusedWritesNothing
<1>1. IInv => RefusedWritesNothing
  BY DEF IInv, AloneIsQuiet, RefusedWritesNothing
<1> QED
  BY <1>1, Invariant, PTL

\* Without --overwrite no file that was there is ever truncated, however many
\* commands write to the directory and wherever they were stopped.
THEOREM EarlierFilesAreKept == Spec => EarlierFilesKept
<1>1. IInv /\ [Next]_vars =>
        [\A p \in Procs : Opens(p) /\ ~options[p].overwrite =>
            before[p].files[Item(p).file] = Absent]_vars
  <2> SUFFICES ASSUME IInv, Next, NEW p \in Procs, Opens(p), ~options[p].overwrite
               PROVE  before[p].files[Item(p).file] = Absent
    BY DEF vars
  <2>1. ASSUME NEW q \in Procs, Write(q) \/ Stop(q)
        PROVE  open'[p] => open[p]
    BY <2>1 DEF Write, Stop, IInv, Typed
  <2>2. ASSUME NEW q \in Procs, Open(q)
        PROVE  open'[p] => open[p] \/ q = p
    BY <2>2 DEF Open, IInv, Typed
  <2>3. ASSUME NEW q \in Procs, ~(Write(q) \/ Stop(q) \/ Open(q)),
               Start(q) \/ Inspect(q) \/ WriteStdout(q) \/ Refuse(q) \/ Accept(q)
               \/ CreateTablesDir(q) \/ Open(q) \/ Write(q) \/ Succeed(q) \/ Stop(q) \/ Reap(q)
        PROVE  open' = open
    BY <2>3 DEF Start, Inspect, WriteStdout, Refuse, Accept, CreateTablesDir, Succeed, Reap
  <2>4. Migrate => open' = open
    BY DEF Migrate, proc
  <2>5. Open(p)
    BY <2>1, <2>2, <2>3, <2>4 DEF Next, Opens
  <2> QED
    BY <2>5, DueWrite DEF Open, IInv, BeforeIsKept
<1> QED
  BY <1>1, Invariant, PTL DEF Spec, EarlierFilesKept

-----------------------------------------------------------------------------
(* A command that has the directory to itself and succeeds, for any earlier *)
(* files and migrations, as long as no two tables of a schema share a file. *)
(*                                                                         *)
(* Its invariant follows the writes: those made are whole and stay, because *)
(* no two of a plan go to one file, and without --overwrite there is no    *)
(* file but those.                                                         *)

\* No two documents of a plan go to one file.
Apart(plan) ==
    \A i, j \in DOMAIN plan :
        plan[i] # TablesDir /\ plan[j] # TablesDir /\ plan[i].file = plan[j].file => i = j

\* Neither do those of two plans.
Strangers(a, b) ==
    \A i \in DOMAIN a, j \in DOMAIN b :
        a[i] = TablesDir \/ b[j] = TablesDir \/ a[i].file # b[j].file

PlanOf(p) == Plan(options[p].select, database[p])

\* How many of its writes a command has made.
Made(p) == Len(PlanOf(p)) - Len(todo[p])

Progress(p) ==
    LET plan == PlanOf(p)  k == Made(p)
    IN  /\ k \in 0 .. Len(plan)
        /\ \A i \in DOMAIN todo[p] : todo[p][i] = plan[k + i]
        /\ \A i \in 1 .. k : plan[i] # TablesDir =>
                fs[plan[i].file] = Document(database[p], plan[i])
        /\ open[p] => fs[Item(p).file] = Partial
        /\ ~options[p].overwrite =>
            \A f \in Files : fs[f] # Absent =>
                \/ \E i \in 1 .. k : plan[i] # TablesDir /\ plan[i].file = f
                \/ open[p] /\ Item(p).file = f

SInv == \A p \in Procs : Alone(p) /\ (pc[p] = "writing" \/ Wrote(p)) => Progress(p)

-----------------------------------------------------------------------------
(* Plans. *)

\* Two lists of writes, each without two to one file and none to a file of the other, make one.
LEMMA ApartTogether ==
    ASSUME NEW S, NEW a \in Seq(S), NEW b \in Seq(S), Apart(a), Apart(b), Strangers(a, b)
    PROVE  Apart(a \o b)
<1> SUFFICES ASSUME NEW i \in DOMAIN (a \o b), NEW j \in DOMAIN (a \o b),
                    (a \o b)[i] # TablesDir, (a \o b)[j] # TablesDir,
                    (a \o b)[i].file = (a \o b)[j].file
             PROVE  i = j
  BY DEF Apart
<1>1. /\ \/ i \in DOMAIN a /\ (a \o b)[i] = a[i]
         \/ i - Len(a) \in DOMAIN b /\ (a \o b)[i] = b[i - Len(a)]
      /\ \/ j \in DOMAIN a /\ (a \o b)[j] = a[j]
         \/ j - Len(a) \in DOMAIN b /\ (a \o b)[j] = b[j - Len(a)]
  BY Concatenated
<1>2. CASE i \in DOMAIN a /\ (a \o b)[i] = a[i] /\ j \in DOMAIN a /\ (a \o b)[j] = a[j]
  BY <1>2 DEF Apart
<1>3. CASE i \in DOMAIN a /\ (a \o b)[i] = a[i] /\ j - Len(a) \in DOMAIN b /\ (a \o b)[j] = b[j - Len(a)]
  BY <1>3 DEF Strangers
<1>4. CASE i - Len(a) \in DOMAIN b /\ (a \o b)[i] = b[i - Len(a)] /\ j \in DOMAIN a /\ (a \o b)[j] = a[j]
  BY <1>4 DEF Strangers
<1>5. CASE i - Len(a) \in DOMAIN b /\ (a \o b)[i] = b[i - Len(a)]
           /\ j - Len(a) \in DOMAIN b /\ (a \o b)[j] = b[j - Len(a)]
  <2>1. i - Len(a) = j - Len(a)
    BY <1>5 DEF Apart
  <2> QED
    BY <2>1
<1> QED
  BY <1>1, <1>2, <1>3, <1>4, <1>5

\* Who is a stranger to both is one to the two together.
LEMMA StrangersTogether ==
    ASSUME NEW S, NEW a \in Seq(S), NEW b \in Seq(S), NEW c \in Seq(S),
           Strangers(a, c), Strangers(b, c)
    PROVE  Strangers(a \o b, c)
BY Concatenated DEF Strangers

\* The tables' files are not at the top of the directory.
LEMMA TablesBelow ==
    ASSUME setting \in Settings, NEW t \in Tables
    PROVE  table_file_name(t) \notin TopLevel
<1>1. t.schema \in Seq(STRING) /\ t.name \in Seq(STRING)
  BY NamesAssumption DEF Tables
<1> DEFINE Texts == STRING \cup {"."}
<1>2. PICK rest \in Seq(Texts) : table_file_name(t) = <<"tables">> \o rest
  <2>1. t.schema \in Seq(Texts) /\ t.name \in Seq(Texts) /\ <<".">> \in Seq(Texts)
    BY <1>1
  <2>2. t.schema \o <<".">> \o t.name \in Seq(Texts)
    BY <2>1
  <2> QED
    BY <2>1, <2>2 DEF table_file_name, FileOf
<1> HIDE DEF Texts
<1>3. table_file_name(t)[1] = "tables"
  BY <1>2
<1> QED
  BY <1>3 DEF TopLevel, SchemaJson, RelationshipsJson, MetadataJson, SchemaMd, GraphMmd

\* The files of the tables are different ones, and none is in the directory itself.
LEMMA TableFilesApart ==
    ASSUME setting \in Settings, NEW s \in Schemas
    PROVE  /\ Apart(TableFiles(s))
           /\ \A i \in DOMAIN TableFiles(s) : TableFiles(s)[i].file \notin TopLevel
<1> DEFINE of == setting.tablesOf[s]
<1>1. /\ DOMAIN TableFiles(s) = DOMAIN of
      /\ \A i \in DOMAIN of : TableFiles(s)[i].file = table_file_name(of[i])
  BY DEF TableFiles, TableArtifact
<1>2. \A i \in DOMAIN of : of[i] \in Tables
  BY DEF Tables, TablesOf, ToSet
<1>3. \A i, j \in DOMAIN of : table_file_name(of[i]) = table_file_name(of[j]) => i = j
  BY NamesAssumption DEF table_file_name
<1> HIDE DEF of
<1> QED
  BY <1>1, <1>2, <1>3, TablesBelow DEF Apart

\* No two writes of a plan are to one file.
LEMMA PlanIsApart ==
    ASSUME setting \in Settings, NEW select, NEW s \in Schemas
    PROVE  Apart(Plan(select, s))
<1> DEFINE documents == <<Artifact(SchemaJson), Artifact(RelationshipsJson), Artifact(MetadataJson)>>
           files == IF "tables" \in select THEN <<TablesDir>> \o TableFiles(s) ELSE <<>>
           json == documents \o files
           markdown == IF "markdown" \in select THEN <<Artifact(SchemaMd)>> ELSE <<>>
           mermaid == IF "mermaid" \in select THEN <<Artifact(GraphMmd)>> ELSE <<>>
           first == IF "json" \in select THEN json ELSE <<>>
<1>1. Plan(select, s) = first \o markdown \o mermaid
  BY DEF Plan
<1>2. /\ documents \in Seq(Writes) /\ markdown \in Seq(Writes) /\ mermaid \in Seq(Writes)
      /\ <<>> \in Seq(Writes)
  BY TopLevelWrite DEF TopLevel
<1>3. /\ Len(documents) = 3
      /\ documents[1].file = SchemaJson /\ documents[2].file = RelationshipsJson
      /\ documents[3].file = MetadataJson
      /\ \A i \in DOMAIN markdown : i = 1 /\ markdown[i].file = SchemaMd
      /\ \A i \in DOMAIN mermaid : i = 1 /\ mermaid[i].file = GraphMmd
  <2>1. /\ Len(documents) = 3
        /\ documents[1].file = SchemaJson /\ documents[2].file = RelationshipsJson
        /\ documents[3].file = MetadataJson
    BY DEF Artifact
  <2>2. \A f : \A i \in DOMAIN <<Artifact(f)>> : i = 1 /\ <<Artifact(f)>>[i].file = f
    BY DEF Artifact
  <2>3. \A i \in DOMAIN markdown : i = 1 /\ markdown[i].file = SchemaMd
    BY <2>2
  <2>4. \A i \in DOMAIN mermaid : i = 1 /\ mermaid[i].file = GraphMmd
    BY <2>2
  <2> HIDE DEF documents, markdown, mermaid
  <2> QED
    BY <2>1, <2>3, <2>4
<1>4. /\ SchemaJson # RelationshipsJson /\ SchemaJson # MetadataJson
      /\ RelationshipsJson # MetadataJson /\ SchemaMd # GraphMmd
      /\ \A f \in {SchemaJson, RelationshipsJson, MetadataJson} : f # SchemaMd /\ f # GraphMmd
  <2>1. /\ SchemaJson[1] = "schema.json" /\ RelationshipsJson[1] = "relationships.json"
        /\ MetadataJson[1] = "metadata.json" /\ SchemaMd[1] = "schema.md" /\ GraphMmd[1] = "graph.mmd"
    BY DEF SchemaJson, RelationshipsJson, MetadataJson, SchemaMd, GraphMmd
  <2> QED
    BY <2>1
<1>5. /\ files \in Seq(Writes) /\ Apart(files)
      /\ \A i \in DOMAIN files : files[i] = TablesDir \/ files[i].file \notin TopLevel
  <2>1. TableFiles(s) \in Seq(Writes) /\ TablesDir \in Writes
    BY SettingsAssumption, TableFilesAreWrites DEF TablesDir, Writes, Labels
  <2>2. /\ Apart(<<TablesDir>>) /\ Strangers(<<TablesDir>>, TableFiles(s))
        /\ <<TablesDir>> \in Seq(Writes)
    <3>1. \A i \in DOMAIN <<TablesDir>> : <<TablesDir>>[i] = TablesDir
      OBVIOUS
    <3>2. <<TablesDir>> \in Seq(Writes)
      BY <2>1
    <3> QED
      BY <3>1, <3>2 DEF Apart, Strangers
  <2>3. Apart(<<TablesDir>> \o TableFiles(s)) /\ <<TablesDir>> \o TableFiles(s) \in Seq(Writes)
    <3> DEFINE a == <<TablesDir>>
               b == TableFiles(s)
    <3>1. a \in Seq(Writes) /\ b \in Seq(Writes) /\ Apart(a) /\ Apart(b) /\ Strangers(a, b)
      BY <2>1, <2>2, TableFilesApart
    <3> HIDE DEF a, b
    <3>2. Apart(a \o b) /\ a \o b \in Seq(Writes)
      BY <3>1, ApartTogether
    <3> QED
      BY <3>2 DEF a, b
  <2>4. \A i \in DOMAIN (<<TablesDir>> \o TableFiles(s)) :
            \/ (<<TablesDir>> \o TableFiles(s))[i] = TablesDir
            \/ (<<TablesDir>> \o TableFiles(s))[i].file \notin TopLevel
    BY <2>1, <2>2, Concatenated, TableFilesApart
  <2>5. Apart(<<>>)
    BY DEF Apart
  <2> QED
    BY <1>2, <2>3, <2>4, <2>5
<1> HIDE DEF documents, files, markdown, mermaid
<1>6. Apart(documents) /\ Apart(markdown) /\ Apart(mermaid) /\ Apart(<<>>)
  BY <1>2, <1>3, <1>4 DEF Apart
<1>7. /\ Strangers(documents, files) /\ Strangers(documents, markdown)
      /\ Strangers(documents, mermaid) /\ Strangers(files, markdown)
      /\ Strangers(files, mermaid) /\ Strangers(markdown, mermaid)
  BY <1>2, <1>3, <1>4, <1>5 DEF Strangers, TopLevel
<1>8. json \in Seq(Writes) /\ Apart(json) /\ Strangers(json, markdown) /\ Strangers(json, mermaid)
  BY <1>2, <1>5, <1>6, <1>7, ApartTogether, StrangersTogether
<1> HIDE DEF json
<1>9. first \in Seq(Writes) /\ Apart(first) /\ Strangers(first, markdown) /\ Strangers(first, mermaid)
  BY <1>2, <1>6, <1>8 DEF Strangers
<1> HIDE DEF first
<1>10. /\ Apart(first \o markdown) /\ first \o markdown \in Seq(Writes)
       /\ Strangers(first \o markdown, mermaid)
  BY <1>2, <1>6, <1>7, <1>9, ApartTogether, StrangersTogether
<1> QED
  BY <1>1, <1>2, <1>6, <1>10, ApartTogether


-----------------------------------------------------------------------------
(* The steps of a command that has the directory to itself. *)

\* What a plan is, of a command whose state is as it should be.
LEMMA PlanOfCommand ==
    ASSUME IInv, NEW p \in Procs
    PROVE  /\ PlanOf(p) \in Seq(Writes) /\ Apart(PlanOf(p)) /\ Len(PlanOf(p)) \in Nat
           /\ todo[p] \in Seq(Writes) /\ Len(todo[p]) \in Nat
<1>1. /\ setting \in Settings /\ database[p] \in Schemas /\ todo[p] \in Seq(Writes)
  BY DEF IInv, Typed
<1>2. PlanOf(p) \in Seq(Writes)
  BY <1>1, SettingsAssumption, PlanIsOrdered DEF PlanOf
<1>3. Apart(PlanOf(p))
  BY <1>1, PlanIsApart DEF PlanOf
<1> QED
  BY <1>1, <1>2, <1>3

\* A state is known by its files, its list and its options.
LEMMA ProgressKept ==
    ASSUME NEW p \in Procs, Progress(p), setting' = setting, fs' = fs,
           todo'[p] = todo[p], open'[p] = open[p], options'[p] = options[p],
           database'[p] = database[p]
    PROVE  Progress(p)'
<1>1. PlanOf(p)' = PlanOf(p) /\ Made(p)' = Made(p) /\ Files' = Files
  BY SettingKeeps DEF PlanOf, Made, Plan, TableFiles, TableArtifact, table_file_name, FileOf,
     Artifact, TablesDir, SchemaJson, RelationshipsJson, MetadataJson, SchemaMd, GraphMmd
<1> QED
  BY <1>1 DEF Progress, Item, Document, TablesDir

\* A plan does not change while it is carried out.
LEMMA PlanStays ==
    ASSUME NEW p \in Procs, UNCHANGED <<setting, options, database>>
    PROVE  PlanOf(p)' = PlanOf(p)
BY DEF PlanOf, Plan, TableFiles, TableArtifact, table_file_name, FileOf,
   Artifact, TablesDir, SchemaJson, RelationshipsJson, MetadataJson, SchemaMd, GraphMmd

\* Accept keeps the progress along the plan.
LEMMA AcceptProgresses ==
    ASSUME IInv, NEW p \in Procs, Alone(p), Accept(p)
    PROVE  Progress(p)'
<1>1. /\ todo'[p] = PlanOf(p) /\ UNCHANGED <<setting, options, database, fs, open>>
      /\ pc[p] = "exporting" /\ ToDirectory(p) /\ (options[p].overwrite \/ ~any_output_exists)
  BY DEF Accept, PlanOf, IInv, Typed
<1>2. PlanOf(p)' = PlanOf(p) /\ PlanOf(p) \in Seq(Writes) /\ Len(PlanOf(p)) \in Nat
  BY <1>1, PlanStays, PlanOfCommand
<1>3. Made(p)' = 0
  <2>1. Made(p)' = Len(PlanOf(p)) - Len(PlanOf(p))
    BY <1>1, <1>2 DEF Made
  <2>2. \A n \in Nat : n - n = 0
    OBVIOUS
  <2> QED
    BY <1>2, <2>1, <2>2
<1>4. ~open[p]
  <2>1. open[p] => pc[p] = "writing"
    BY DEF IInv, WritesWhenTold
  <2>2. pc[p] # "writing"
    BY <1>1
  <2> QED
    BY <2>1, <2>2
<1>5. ~options[p].overwrite => \A f \in Files : fs[f] = Absent
  BY <1>1 DEF any_output_exists, IInv, FilesInTables
<1> QED
  BY <1>1, <1>2, <1>3, <1>4, <1>5, SettingKeeps DEF Progress

\* The next write of a plan, and what is left after it.
LEMMA NextWrite ==
    ASSUME IInv, NEW p \in Procs, Progress(p), todo[p] # <<>>
    PROVE  /\ Made(p) + 1 \in 1 .. Len(PlanOf(p)) /\ PlanOf(p)[Made(p) + 1] = Item(p)
           /\ Len(PlanOf(p)) - Len(Tail(todo[p])) = Made(p) + 1
           /\ \A i \in DOMAIN Tail(todo[p]) : Tail(todo[p])[i] = PlanOf(p)[Made(p) + 1 + i]
<1> DEFINE n == Len(PlanOf(p))
           m == Len(todo[p])
           k == Made(p)
           rest == Tail(todo[p])
<1>1. /\ m \in Nat \ {0} /\ n \in Nat /\ k \in 0 .. n
      /\ todo[p] \in Seq(Writes)
      /\ \A i \in 1 .. m : todo[p][i] = PlanOf(p)[k + i]
  BY PlanOfCommand DEF Progress
<1>2. /\ Len(rest) = m - 1 /\ Item(p) = todo[p][1]
      /\ \A i \in DOMAIN rest : i \in Nat /\ i + 1 \in 1 .. m /\ rest[i] = todo[p][i + 1]
  BY <1>1 DEF Item
<1>3. k = n - m
  BY DEF Made
<1> HIDE DEF n, m, k, rest
<1>4. ASSUME NEW i \in DOMAIN rest
      PROVE  rest[i] = PlanOf(p)[k + 1 + i]
  <2>1. rest[i] = PlanOf(p)[k + (i + 1)]
    BY <1>1, <1>2
  <2>2. k + (i + 1) = k + 1 + i
    BY <1>1, <1>2
  <2> QED
    BY <2>1, <2>2
<1>5. k + 1 \in 1 .. n /\ n - Len(rest) = k + 1 /\ 1 \in 1 .. m
  BY <1>1, <1>2, <1>3
<1>6. PlanOf(p)[k + 1] = Item(p)
  BY <1>1, <1>2, <1>5
<1> QED
  BY <1>4, <1>5, <1>6 DEF n, m, k, rest

\* CreateTablesDir keeps the progress along the plan.
LEMMA CreateTablesDirProgresses ==
    ASSUME IInv, NEW p \in Procs, Progress(p), CreateTablesDir(p)
    PROVE  Progress(p)'
<1>1. /\ todo[p] # <<>> /\ Item(p) = TablesDir /\ todo'[p] = Tail(todo[p]) /\ ~open[p]
      /\ UNCHANGED <<setting, options, database, fs, open>>
  BY DEF CreateTablesDir, IInv, Typed, WritesWhenTold
<1> DEFINE plan == PlanOf(p)
           k == Made(p)
<1>2. PlanOf(p)' = plan /\ Files' = Files
  BY <1>1, PlanStays, SettingKeeps
<1>3. /\ k + 1 \in 1 .. Len(plan) /\ plan[k + 1] = TablesDir /\ Made(p)' = k + 1
      /\ \A i \in DOMAIN todo'[p] : todo'[p][i] = plan[k + 1 + i]
  BY <1>1, <1>2, NextWrite DEF Made
<1>4. /\ k \in 0 .. Len(plan) /\ Len(plan) \in Nat
      /\ \A i \in 1 .. k : plan[i] # TablesDir => fs[plan[i].file] = Document(database[p], plan[i])
      /\ ~options[p].overwrite => \A f \in Files : fs[f] # Absent =>
            \E i \in 1 .. k : plan[i] # TablesDir /\ plan[i].file = f
  BY <1>1, PlanOfCommand DEF Progress
<1> HIDE DEF plan, k
<1>5. \A i \in 1 .. (k + 1) : i \in 1 .. k \/ plan[i] = TablesDir
  BY <1>3, <1>4
<1>6. \A i \in 1 .. k : i \in 1 .. (k + 1)
  BY <1>4
<1>7. k + 1 \in 0 .. Len(plan)
  BY <1>3, <1>4
<1> QED
  BY <1>1, <1>2, <1>3, <1>4, <1>5, <1>6, <1>7 DEF Progress, Document, TablesDir

\* Open keeps the progress along the plan.
LEMMA OpenProgresses ==
    ASSUME IInv, NEW p \in Procs, Progress(p), Open(p)
    PROVE  Progress(p)'
<1> DEFINE plan == PlanOf(p)
           k == Made(p)
           file == Item(p).file
<1>1. /\ todo[p] # <<>> /\ Item(p) # TablesDir /\ open'[p] /\ ~open[p] /\ file \in Files
      /\ fs' = [fs EXCEPT ![file] = Partial] /\ fs \in [Files -> Content]
      /\ UNCHANGED <<setting, options, database, todo>>
  BY DueWrite DEF Open, IInv, Typed
<1>2. PlanOf(p)' = plan /\ Files' = Files /\ Made(p)' = k /\ Item(p)' = Item(p)
  BY <1>1, PlanStays, SettingKeeps DEF Made, Item
<1>3. /\ k + 1 \in 1 .. Len(plan) /\ plan[k + 1] = Item(p)
      /\ k \in 0 .. Len(plan) /\ Len(plan) \in Nat /\ Apart(plan) /\ DOMAIN plan = 1 .. Len(plan)
      /\ \A i \in DOMAIN todo[p] : todo[p][i] = plan[k + i]
      /\ \A i \in 1 .. k : plan[i] # TablesDir => fs[plan[i].file] = Document(database[p], plan[i])
      /\ ~options[p].overwrite => \A f \in Files : fs[f] # Absent =>
            \E i \in 1 .. k : plan[i] # TablesDir /\ plan[i].file = f
  BY <1>1, NextWrite, PlanOfCommand DEF Progress
<1> HIDE DEF plan, k
<1>4. \A i \in 1 .. k : plan[i] # TablesDir => plan[i].file # file
  <2>1. \A i \in 1 .. k : i \in DOMAIN plan /\ i # k + 1
    BY <1>3
  <2> QED
    BY <1>1, <1>3, <2>1 DEF Apart
<1>5. /\ fs'[file] = Partial /\ \A g : g # file => fs'[g] = fs[g]
      /\ \A f \in Files : f # file /\ fs'[f] # Absent => fs[f] # Absent
  BY <1>1
<1>6. \A i \in 1 .. k : plan[i] # TablesDir => fs'[plan[i].file] = Document(database[p], plan[i])
  BY <1>3, <1>4, <1>5
<1>7. ~options[p].overwrite => \A f \in Files : fs'[f] # Absent =>
        \/ \E i \in 1 .. k : plan[i] # TablesDir /\ plan[i].file = f
        \/ file = f
  BY <1>3, <1>5
<1> QED
  BY <1>1, <1>2, <1>3, <1>5, <1>6, <1>7 DEF Progress, Document, TablesDir

\* Write keeps the progress along the plan.
LEMMA WriteProgresses ==
    ASSUME IInv, NEW p \in Procs, Progress(p), Write(p)
    PROVE  Progress(p)'
<1> DEFINE plan == PlanOf(p)
           k == Made(p)
           file == Item(p).file
           document == Document(database[p], Item(p))
<1>1. /\ todo[p] # <<>> /\ Item(p) # TablesDir /\ open[p] /\ ~open'[p] /\ file \in Files
      /\ todo'[p] = Tail(todo[p]) /\ fs \in [Files -> Content]
      /\ UNCHANGED <<setting, options, database>>
  BY DueWrite DEF Write, IInv, Typed, WritesWhenTold
<1>2. fs' = [fs EXCEPT ![file] = document]
  <2>1. fs[file] = Partial
    BY <1>1 DEF Progress
  <2> QED
    BY <2>1 DEF Write
<1>3. PlanOf(p)' = plan /\ Files' = Files
  BY <1>1, PlanStays, SettingKeeps
<1>4. Made(p)' = k + 1 /\ \A i \in DOMAIN todo'[p] : todo'[p][i] = plan[k + 1 + i]
  BY <1>1, <1>3, NextWrite DEF Made
<1>5. /\ k + 1 \in 1 .. Len(plan) /\ plan[k + 1] = Item(p)
      /\ k \in 0 .. Len(plan) /\ Len(plan) \in Nat /\ Apart(plan) /\ DOMAIN plan = 1 .. Len(plan)
      /\ \A i \in 1 .. k : plan[i] # TablesDir => fs[plan[i].file] = Document(database[p], plan[i])
      /\ ~options[p].overwrite => \A f \in Files : fs[f] # Absent =>
            \/ \E i \in 1 .. k : plan[i] # TablesDir /\ plan[i].file = f
            \/ file = f
  BY <1>1, NextWrite, PlanOfCommand DEF Progress
<1>6. /\ fs'[file] = document /\ \A g : g # file => fs'[g] = fs[g]
  BY <1>1, <1>2
<1> HIDE DEF plan, k, document
<1>7. /\ \A i \in 1 .. (k + 1) : i \in DOMAIN plan /\ (i \in 1 .. k \/ i = k + 1)
      /\ \A i \in 1 .. k : i \in 1 .. (k + 1)
      /\ k + 1 \in 1 .. (k + 1) /\ k + 1 \in 0 .. Len(plan)
  BY <1>5
<1>8. ASSUME NEW i \in 1 .. (k + 1), plan[i] # TablesDir
      PROVE  fs'[plan[i].file] = Document(database[p], plan[i])
  <2>1. CASE i = k + 1
    BY <1>5, <1>6, <2>1 DEF document
  <2>2. CASE i # k + 1
    <3>1. i \in 1 .. k /\ plan[i].file # file
      BY <1>1, <1>5, <1>7, <1>8, <2>2 DEF Apart
    <3> QED
      BY <1>5, <1>6, <1>8, <3>1
  <2> QED
    BY <2>1, <2>2
<1>9. ~options[p].overwrite => \A f \in Files : fs'[f] # Absent =>
        \E i \in 1 .. (k + 1) : plan[i] # TablesDir /\ plan[i].file = f
  <2>1. \A f \in Files : f # file => fs'[f] = fs[f]
    BY <1>6
  <2>2. plan[k + 1] # TablesDir /\ plan[k + 1].file = file
    BY <1>1, <1>5
  <2> QED
    BY <1>5, <1>7, <2>1, <2>2
<1> QED
  BY <1>1, <1>3, <1>4, <1>7, <1>8, <1>9 DEF Progress, Document, TablesDir

\* A command that is alone follows its plan.
LEMMA AloneProgresses ==
    ASSUME IInv, SInv, Next, NEW p \in Procs, Alone(p), setting' = setting,
           pc'[p] = "writing" \/ Wrote(p)'
    PROVE  Progress(p)'
<1>1. Procs = {p}
  BY DEF Alone
<1>2. CASE Migrate
  <2>1. UNCHANGED <<setting, fs, tables, proc>>
    BY <1>2 DEF Migrate
  <2>2. pc[p] = "writing" \/ Wrote(p)
    BY <2>1 DEF proc, Wrote, ToDirectory
  <2>3. Progress(p)
    BY <2>2 DEF SInv
  <2> QED
    BY <2>1, <2>3, ProgressKept DEF proc
<1>3. CASE Start(p) \/ Inspect(p) \/ Refuse(p) \/ Stop(p) \/ Reap(p)
  <2>1. pc'[p] \in {"inspecting", "exporting", "refused", "failed", "idle"}
    BY <1>3 DEF Start, Inspect, Refuse, Stop, Reap, IInv, Typed
  <2> QED
    BY <2>1 DEF Wrote
<1>4. CASE WriteStdout(p)
  <2>1. pc'[p] = "ok" /\ ~ToDirectory(p)'
    BY <1>4 DEF WriteStdout, ToDirectory, IInv, Typed
  <2> QED
    BY <2>1 DEF Wrote
<1>5. CASE Accept(p)
  BY <1>5, AcceptProgresses
<1>6. CASE CreateTablesDir(p) \/ Open(p) \/ Write(p)
  <2>1. pc[p] = "writing"
    BY <1>6 DEF CreateTablesDir, Open, Write
  <2>2. Progress(p)
    BY <2>1 DEF SInv
  <2> QED
    BY <1>6, <2>2, CreateTablesDirProgresses, OpenProgresses, WriteProgresses
<1>7. CASE Succeed(p)
  <2>1. pc[p] = "writing" /\ UNCHANGED <<setting, fs, options, database, todo, open>>
    BY <1>7 DEF Succeed
  <2>2. Progress(p)
    BY <2>1 DEF SInv
  <2> QED
    BY <2>1, <2>2, ProgressKept
<1> QED
  BY <1>1, <1>2, <1>3, <1>4, <1>5, <1>6, <1>7 DEF Next

\* Every step keeps the progress of a process that is alone.
THEOREM SuccessStep == IInv /\ SInv /\ [Next]_vars => SInv'
<1> SUFFICES ASSUME IInv, SInv, [Next]_vars PROVE SInv'
  OBVIOUS
<1>1. setting' = setting
  BY DEF Next, vars, Migrate, Start, Inspect, WriteStdout, Refuse, Accept, CreateTablesDir, Open,
         Write, Succeed, Stop, Reap
<1>2. Procs' = Procs
  BY <1>1, SettingKeeps
<1> SUFFICES ASSUME NEW p \in Procs, Alone(p), pc'[p] = "writing" \/ Wrote(p)'
             PROVE  Progress(p)'
  BY <1>2 DEF SInv, Alone
<1>3. CASE Next
  BY <1>1, <1>3, AloneProgresses
<1>4. CASE UNCHANGED vars
  <2>1. pc[p] = "writing" \/ Wrote(p)
    BY <1>4 DEF vars, proc, Wrote, ToDirectory
  <2>2. Progress(p)
    BY <2>1 DEF SInv
  <2> QED
    BY <1>4, <2>2, ProgressKept DEF vars, proc
<1> QED
  BY <1>3, <1>4

\* A process that is alone has always done the first writes of its plan, and no others.
THEOREM SuccessInvariant == Spec => []SInv
<1>1. Init => SInv
  BY DEF Init, SInv, Wrote
<1> QED
  BY <1>1, Initially, Step, SuccessStep, PTL DEF Spec

-----------------------------------------------------------------------------
(* The theorems. *)

\* A command that has succeeded has carried out its plan.
LEMMA PlanCarriedOut ==
    ASSUME IInv, SInv, NEW p \in Procs, Alone(p), Wrote(p)
    PROVE  /\ \A i \in DOMAIN PlanOf(p) : PlanOf(p)[i] # TablesDir =>
                fs[PlanOf(p)[i].file] = Document(database[p], PlanOf(p)[i])
           /\ ~options[p].overwrite => \A f \in Files : fs[f] # Absent =>
                \E i \in DOMAIN PlanOf(p) : PlanOf(p)[i] # TablesDir /\ PlanOf(p)[i].file = f
<1>1. Progress(p)
  BY DEF SInv
<1>2. todo[p] = <<>> /\ ~open[p]
  BY DEF IInv, WritesWhenTold, Wrote
<1>3. Len(PlanOf(p)) \in Nat /\ DOMAIN PlanOf(p) = 1 .. Len(PlanOf(p))
  BY PlanOfCommand
<1>4. Made(p) = Len(PlanOf(p))
  BY <1>2, <1>3 DEF Made
<1> QED
  BY <1>1, <1>2, <1>3, <1>4 DEF Progress

\* A command that succeeds alone has left every document it selected, whole and
\* of the schema it inspected, whatever happened to the schema since.
THEOREM SuccessIsAlwaysComplete == Spec => []SuccessIsComplete
<1>1. IInv /\ SInv => SuccessIsComplete
  BY PlanCarriedOut DEF SuccessIsComplete, PlanOf
<1> QED
  BY <1>1, Invariant, SuccessInvariant, PTL

\* And without --overwrite nothing else, whatever stopped commands left before.
THEOREM FreshSuccessIsAlwaysExact == Spec => []FreshSuccessIsExact
<1>1. IInv /\ SInv => FreshSuccessIsExact
  <2> SUFFICES ASSUME IInv, SInv, NEW p \in Procs, Alone(p), Wrote(p), ~options[p].overwrite,
                      NEW f \in Files, fs[f] # Absent
               PROVE  \E a \in ToSet(Plan(options[p].select, database[p])) :
                            a.file = f /\ fs[f] = Document(database[p], a)
    BY DEF FreshSuccessIsExact
  <2>1. PICK i \in DOMAIN PlanOf(p) : PlanOf(p)[i] # TablesDir /\ PlanOf(p)[i].file = f
    BY PlanCarriedOut
  <2>2. fs[f] = Document(database[p], PlanOf(p)[i])
    BY <2>1, PlanCarriedOut
  <2> QED
    BY <2>1, <2>2 DEF ToSet, PlanOf
<1> QED
  BY <1>1, Invariant, SuccessInvariant, PTL

=============================================================================
