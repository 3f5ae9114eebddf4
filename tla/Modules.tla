------------------------------ MODULE Modules ------------------------------
(***************************************************************************)
(* core/runtime/modules.py and "pygo module": several processes, each with *)
(* a ModuleManager whose table was read from the modules directory when    *)
(* the process began, work on that directory.  A module on disk is a       *)
(* directory with a manifest (its name need not be the directory's), other *)
(* files and perhaps the marker .enabled; copytree and rmtree go file by   *)
(* file, and whatever has a manifest is loaded.  Processes may be killed   *)
(* between any two steps, and an operation may raise.  Hooks are the       *)
(* application's; only when they run matters here.                         *)
(***************************************************************************)
EXTENDS Dicts, FiniteSets

CONSTANTS
    Procs,          \* processes with a manager
    DirNames,       \* directory names under modules/
    Sources,        \* Sources[s] = [name: manifest name, marked: has .enabled]
    NoJob,          \* the process is not inside install or uninstall
    MaxOps          \* bound: installs and uninstalls begun

\* What the files of a directory come from: a source or, the marker, touch.
Files == {"manifest", "rest", "marker"}
Absent == "absent"
Touched == "touched"
Contents == DOMAIN Sources \cup {Absent, Touched}

FilesOf(s) == {f \in Files : f = "marker" => Sources[s].marked}
CopyOf(s, f) == IF f = "marker" THEN Touched ELSE s
NoFiles == [f \in Files |-> Absent]

InstallJob == [at : {"make", "copy", "load"}, dir : DirNames, src : DOMAIN Sources,
               left : SUBSET Files]
ModNames == {Sources[s].name : s \in DOMAIN Sources}
RemoveJob == [at : {"remove"}, dir : DirNames, name : ModNames, left : SUBSET Files]

ASSUME ModulesAssumption ==
    /\ NoJob \notin InstallJob \cup RemoveJob
    /\ {Absent, Touched} \cap DOMAIN Sources = {}

VARIABLES
    disk,       \* directory -> what each of Files comes from
    up,         \* processes that are running
    table,      \* table[p]: _modules, manifest name -> [dir, enabled]
    job,        \* job[p]: the install or uninstall in progress
    outdated,   \* history: since p loaded, another process changed the disk
                \* or an operation of p raised
    twice,      \* history: manifest names once found in two directories
    broken,     \* history: directories whose install or uninstall was cut short
    cut,        \* history: directories removed while a copy was in progress
    ops         \* installs and uninstalls begun

modVars == <<disk, up, table, job, outdated, twice, broken, cut, ops>>

ModInit ==
    /\ disk = EmptyDict
    /\ up = {}
    /\ table = [p \in Procs |-> EmptyDict]
    /\ job = [p \in Procs |-> NoJob]
    /\ outdated = [p \in Procs |-> FALSE]
    /\ twice = {} /\ broken = {} /\ cut = {} /\ ops = 0

\* The directories _load_modules takes, with their manifest names.
Loadable(dirs) == {d \in DOMAIN dirs : dirs[d]["manifest"] # Absent}
NameOf(dirs, d) == Sources[dirs[d]["manifest"]].name
Names(dirs) == {NameOf(dirs, d) : d \in Loadable(dirs)}
Marked(dirs, d) == dirs[d]["marker"] # Absent

JobAt(p, where) == job[p] # NoJob /\ job[p].at = where
Copying(p, d) == JobAt(p, "copy") /\ job[p].dir = d
Removing(p, d) == JobAt(p, "remove") /\ job[p].dir = d

\* p changes the disk.
Write(p, dirs) ==
    /\ disk' = dirs
    /\ outdated' = [q \in Procs |-> outdated[q] \/ q # p]
    /\ twice' = twice \cup {NameOf(dirs, d) : d \in
                   {d \in Loadable(dirs) : \E e \in Loadable(dirs) \ {d} :
                                              NameOf(dirs, e) = NameOf(dirs, d)}}

\* The tables _load_modules can make out of old: of directories with the
\* same manifest name any may come last; entries of old never go away.
Loads(old, dirs) ==
    {t \in [DOMAIN old \cup Names(dirs) ->
               {[dir |-> d, enabled |-> b] : d \in DirNames, b \in BOOLEAN}] :
        \A n \in DOMAIN t :
            IF n \in Names(dirs)
            THEN /\ t[n].dir \in Loadable(dirs) /\ NameOf(dirs, t[n].dir) = n
                 /\ t[n].enabled = Marked(dirs, t[n].dir)
            ELSE t[n] = old[n]}

Idle(p) == p \in up /\ job[p] = NoJob

\* A process begins: ModuleManager().
ProcessBegins(p) ==
    /\ p \notin up
    /\ up' = up \cup {p}
    /\ table' \in {[table EXCEPT ![p] = t] : t \in Loads(EmptyDict, disk)}
    /\ outdated' = [outdated EXCEPT ![p] = FALSE]
    /\ UNCHANGED <<disk, job, twice, broken, cut, ops>>

\* The operation of p in progress leaves its directory as it is.
CutShort(p) ==
    /\ job' = [job EXCEPT ![p] = NoJob]
    /\ broken' = broken \cup {d \in DirNames : Copying(p, d) \/ Removing(p, d)}

\* A process ends or is killed.
Kill(p) ==
    /\ p \in up
    /\ up' = up \ {p}
    /\ table' = [table EXCEPT ![p] = EmptyDict]
    /\ CutShort(p)
    /\ UNCHANGED <<disk, outdated, twice, cut, ops>>

\* copytree or rmtree raises; nothing is undone, and the table stays.
OperationRaises(p) ==
    /\ JobAt(p, "copy") \/ JobAt(p, "remove")
    /\ outdated' = [outdated EXCEPT ![p] = TRUE]
    /\ CutShort(p)
    /\ UNCHANGED <<disk, up, table, twice, cut, ops>>

BeginOperation(p) ==
    /\ Idle(p)
    /\ ops < MaxOps /\ ops' = ops + 1

\* install, the test of the destination (FileExistsError otherwise)
InstallCheck(p, s, d) ==
    /\ BeginOperation(p)
    /\ d \notin DOMAIN disk
    /\ job' = [job EXCEPT ![p] = [at |-> "make", dir |-> d, src |-> s, left |-> {}]]
    /\ UNCHANGED <<disk, up, table, outdated, twice, broken, cut>>

MakeDirectory(p, made) ==
    LET d == job[p].dir IN
    /\ JobAt(p, "make")
    /\ IF made
       THEN /\ Write(p, IF d \in DOMAIN disk THEN disk ELSE Put(disk, d, NoFiles))
            /\ job' = [job EXCEPT ![p] = [at |-> "copy", dir |-> d, src |-> job[p].src,
                                          left |-> FilesOf(job[p].src)]]
            /\ broken' = broken \ {d}
       ELSE /\ job' = [job EXCEPT ![p] = NoJob]
            /\ UNCHANGED <<disk, outdated, twice, broken>>
    /\ UNCHANGED <<up, table, cut, ops>>

\* A copytree that goes on in a directory that is there.
InstallMakesOver(p) == MakeDirectory(p, TRUE)

\* copytree makes the directory; when another process was faster it raises.
InstallMakes(p) == MakeDirectory(p, JobAt(p, "make") /\ job[p].dir \notin DOMAIN disk)

\* copytree copies one of the files, in any order, into whatever directory
\* has that name by now.
InstallCopies(p, f) ==
    LET d == job[p].dir IN
    /\ JobAt(p, "copy") /\ f \in job[p].left /\ d \in DOMAIN disk
    /\ Write(p, [disk EXCEPT ![d][f] = CopyOf(job[p].src, f)])
    /\ job' = [job EXCEPT ![p].left = @ \ {f}]
    /\ UNCHANGED <<up, table, broken, cut, ops>>

\* copytree returns only when every file was copied.
InstallCopied(p) ==
    /\ JobAt(p, "copy") /\ job[p].left = {} /\ job[p].dir \in DOMAIN disk
    /\ job' = [job EXCEPT ![p].at = "load"]
    /\ UNCHANGED <<disk, up, table, outdated, twice, broken, cut, ops>>

\* on_install is looked up in the table of before the copy, where a new
\* module is not; then _load_modules.
InstallLoads(p) ==
    /\ JobAt(p, "load")
    /\ table' \in {[table EXCEPT ![p] = t] : t \in Loads(table[p], disk)}
    /\ job' = [job EXCEPT ![p] = NoJob]
    /\ UNCHANGED <<disk, up, outdated, twice, broken, cut, ops>>

\* enable and disable look at the table only.  touch raises when the
\* directory is gone; unlink is skipped when the marker is.
SetMarker(p, n, on, marked) ==
    LET d == table[p][n].dir IN
    /\ Idle(p)
    /\ n \in DOMAIN table[p] /\ table[p][n].enabled # on
    /\ on => d \in DOMAIN disk
    /\ IF d \in DOMAIN disk
       THEN Write(p, [disk EXCEPT ![d]["marker"] = IF marked THEN Touched ELSE Absent])
       ELSE UNCHANGED <<disk, outdated, twice>>
    /\ table' = [table EXCEPT ![p][n].enabled = on]
    /\ UNCHANGED <<up, job, broken, cut, ops>>

Enable(p, n) == SetMarker(p, n, TRUE, TRUE)

DisableKeepsMarker(p, n) == SetMarker(p, n, FALSE, TRUE)

Disable(p, n) == SetMarker(p, n, FALSE, FALSE)

\* uninstall: rmtree lists the files (and raises when there is no directory) ...
Uninstall(p, n) ==
    LET d == table[p][n].dir IN
    /\ BeginOperation(p)
    /\ n \in DOMAIN table[p] /\ d \in DOMAIN disk
    /\ job' = [job EXCEPT ![p] = [at |-> "remove", dir |-> d, name |-> n,
                                  left |-> {f \in Files : disk[d][f] # Absent}]]
    /\ UNCHANGED <<disk, up, table, outdated, twice, broken, cut>>

\* ... removes them one by one ...
UninstallRemoves(p, f) ==
    LET d == job[p].dir IN
    /\ JobAt(p, "remove") /\ f \in job[p].left /\ d \in DOMAIN disk
    /\ Write(p, [disk EXCEPT ![d][f] = Absent])
    /\ job' = [job EXCEPT ![p].left = @ \ {f}]
    /\ UNCHANGED <<up, table, broken, cut, ops>>

\* ... and the directory, if it is empty; then the entry goes.
UninstallEnds(p) ==
    LET d == job[p].dir IN
    /\ JobAt(p, "remove") /\ job[p].left = {} /\ d \in DOMAIN disk /\ disk[d] = NoFiles
    /\ Write(p, Drop(disk, {d}))
    /\ table' = [table EXCEPT ![p] = Drop(@, {job[p].name})]
    /\ job' = [job EXCEPT ![p] = NoJob]
    /\ cut' = IF \E q \in Procs : Copying(q, d) THEN cut \cup {d} ELSE cut
    /\ UNCHANGED <<up, broken, ops>>

ModNext ==
    \E p \in Procs :
        \/ ProcessBegins(p) \/ Kill(p) \/ OperationRaises(p)
        \/ \E s \in DOMAIN Sources, d \in DirNames : InstallCheck(p, s, d)
        \/ InstallMakes(p) \/ InstallCopied(p) \/ InstallLoads(p)
        \/ \E f \in Files : InstallCopies(p, f) \/ UninstallRemoves(p, f)
        \/ \E n \in DOMAIN table[p] : Enable(p, n) \/ Disable(p, n) \/ Uninstall(p, n)
        \/ UninstallEnds(p)

\* The modules whose routes get_routes and whose models get_models answer.
Served(p) == {n \in DOMAIN table[p] : table[p][n].enabled}

-----------------------------------------------------------------------------
(* Properties *)

Complete(d) == disk[d]["manifest"] # Absent /\ disk[d]["rest"] = disk[d]["manifest"]

\* An operation on the directory is in progress, or one was cut short.
Unfinished(d) ==
    d \in broken \cup cut \/ \E q \in Procs : Copying(q, d) \/ Removing(q, d)

\* Between its operations a manager that no other process has overtaken, and of whose
\* operations none has raised, lists exactly the modules whose manifest is on disk, and
\* get_routes and get_models serve exactly those that are enabled there; manifest names
\* that two directories claim are the exception.  A module that it lists is complete,
\* unless its install or removal is in progress in another process or was cut short.
ManagerAgrees ==
    \A p \in up :
        job[p] = NoJob /\ ~outdated[p] =>
            /\ DOMAIN table[p] \ twice = Names(disk) \ twice
            /\ Served(p) \ twice =
                  {NameOf(disk, d) : d \in {d \in Loadable(disk) : Marked(disk, d)}} \ twice
            /\ \A n \in DOMAIN table[p] :
                  /\ n \notin twice => NameOf(disk, table[p][n].dir) = n
                  /\ Complete(table[p][n].dir) \/ Unfinished(table[p][n].dir)

\* Two installs never mix: the files that come into a directory have the source of those
\* that are there, whatever other processes have tested before and wherever one of them
\* stops.  The exception is a directory that was removed, through the table of another
\* process, in the middle of a copy.
InstallNeverClobbers ==
    [][\A d \in (DOMAIN disk \cap DOMAIN disk') \ cut : \A f, g \in {"manifest", "rest"} :
          disk[d][f] # Absent /\ disk'[d][g] # Absent => disk'[d][g] = disk[d][f]]_modVars

-----------------------------------------------------------------------------
(* The inductive invariant *)

IsTable(t) ==
    DOMAIN t \subseteq ModNames /\ t \in [DOMAIN t -> [dir : DirNames, enabled : BOOLEAN]]

ModTypeOK ==
    /\ DOMAIN disk \subseteq DirNames
    /\ disk \in [DOMAIN disk -> [Files -> Contents]]
    /\ \A d \in DOMAIN disk : {disk[d]["manifest"], disk[d]["rest"]} \subseteq DOMAIN Sources \cup {Absent}
    /\ up \subseteq Procs
    /\ table = [p \in Procs |-> table[p]]
    /\ \A p \in Procs : IsTable(table[p])
    /\ job \in [Procs -> InstallJob \cup RemoveJob \cup {NoJob}]
    /\ outdated \in [Procs -> BOOLEAN]
    /\ \A p \in Procs : job[p] # NoJob => p \in up

\* A process that copies has made its directory and is the only one that copies there,
\* and what it has copied is there unless somebody removes it.
CopyInv ==
    \A p \in Procs, d \in DirNames :
        Copying(p, d) /\ d \notin cut =>
            /\ d \in DOMAIN disk
            /\ \A q \in Procs : Copying(q, d) => q = p
            /\ \A f \in {"manifest", "rest"} :
                  /\ disk[d][f] \in {Absent, job[p].src}
                  /\ \/ f \in job[p].left \/ disk[d][f] # Absent
                     \/ d \in broken \/ \E q \in Procs : Removing(q, d)

CompleteInv == \A d \in DOMAIN disk : Complete(d) \/ Unfinished(d)

TwiceInv ==
    \A d, e \in Loadable(disk) :
        d # e /\ NameOf(disk, d) = NameOf(disk, e) => NameOf(disk, d) \in twice

\* Where p makes, copies, loads or removes a module.
OwnDir(p, d) == Copying(p, d) \/ Removing(p, d) \/ (JobAt(p, "load") /\ job[p].dir = d)

\* What a table that nobody has overtaken says is on disk, and it says all there is, but
\* for the directory that p works in: that is in no entry when it comes and in one when it goes.
Agrees(p) ==
    /\ \A n \in DOMAIN table[p] :
          LET d == table[p][n].dir IN
          \/ Removing(p, d) /\ job[p].name = n
          \/ /\ ~Copying(p, d) /\ ~Removing(p, d)
             /\ d \in Loadable(disk) /\ NameOf(disk, d) = n
             /\ table[p][n].enabled = Marked(disk, d)
    /\ \A d \in Loadable(disk) :
          NameOf(disk, d) \notin twice /\ ~OwnDir(p, d) =>
              /\ NameOf(disk, d) \in DOMAIN table[p]
              /\ ~(JobAt(p, "remove") /\ job[p].name = NameOf(disk, d))

AgreeInv == \A p \in up : ~outdated[p] => Agrees(p)

\* The files of a directory come from one source.
SourceInv ==
    \A d \in DOMAIN disk \ cut :
        \/ Absent \in {disk[d]["manifest"], disk[d]["rest"]}
        \/ disk[d]["manifest"] = disk[d]["rest"]

ModIInv == ModTypeOK /\ CopyInv /\ CompleteInv /\ TwiceInv /\ AgreeInv
=============================================================================
