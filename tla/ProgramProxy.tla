---------------------------- MODULE ProgramProxy ----------------------------
(***************************************************************************)
(* The list of programs and their start through the proxy                  *)
(* (program_proxy.rs, app_binding/macos.rs).  Commands run on threads of   *)
(* their own.  The list is guarded by its revision, compared again under   *)
(* the lock of the handles; a start looks at the system first, takes the   *)
(* configuration permit and reserves its entry.  On macOS the system opens *)
(* an application: the permit is given back before, the answer may come    *)
(* after the command has ended.  Every call may fail: the list, the        *)
(* resolution of a binding, the connection to the core, a spawn, a write.  *)
(* capabilities.rs switches the commands off in the present build          *)
(* (ProgramProxySwitch); what is said here is about the code behind it.    *)
(***************************************************************************)
EXTENDS Integers, Sequences, FiniteSets

CONSTANTS
  Commands, Entries, Apps,
  ProgramProxySwitch,                 \* PROGRAM_PROXY of capabilities.rs
  Lists,                              \* the list at the start, for each system
  Cores,                              \* its states, for each system: a port, or 0
  MaxSaves, MaxProcs, MaxTries     \* bounds of the counters

VARIABLES
  host,     \* "macos" | "windows"; Linux starts its programs as Windows does,
              \* and so does macOS an executable that is no application
  doc,        \* proxy-programs.json: revision, an old schema or none, the
              \* application of each entry and the entries still known by the
              \* path of a program that the catalogue may know
  handles,    \* children: what is known of the process of an entry
  procs,      \* the processes started so far
  tries,      \* LAUNCH_ATTEMPTS: requests to open an application
  core,       \* the port of the core that runs, 0 if none does
  holder,     \* who has the configuration permit
  command

programVars == <<host, doc, handles, procs, tries, core, holder, command>>

Nothing == [is |-> "none", of |-> 0]
Reserved == [is |-> "reserved", of |-> 0]

Goto(c, step) == command' = [command EXCEPT ![c].at = step]
Shows(c) == command' = [command EXCEPT ![c] = [at |-> "snapshot"]]
Ends(c) == command' = [command EXCEPT ![c] = [at |-> "idle"]]
At(c, step) == command[c].at = step

Present(d) == {e \in Entries : d.app[e] \in Apps}
Running(app) == {i \in DOMAIN procs : procs[i].alive /\ procs[i].app = app}
Pending(app) == {t \in DOMAIN tries : tries[t].status = "pending" /\ tries[t].app = app}

\* RunningProgram::alive turns the answer to a request into a handle
Answer(h) ==
  IF h.is = "waiting" /\ tries[h.of].status = "done"
    THEN [is |-> "running", of |-> tries[h.of].proc] ELSE h
Alive(h) ==
  \/ h.is = "reserved"
  \/ h.is = "waiting" /\ tries[h.of].status # "failed"
       /\ (tries[h.of].status = "done" => procs[tries[h.of].proc].alive)
  \/ h.is = "running" /\ procs[h.of].alive

\* the snapshot that ends a command drops the handles of what has ended, unless
\* the list cannot be read; a dead handle that stays counts for nothing
Shown(hs) == [e \in Entries |-> IF Alive(hs[e]) THEN Answer(hs[e]) ELSE Nothing]

Snapshot(c) ==
  /\ At(c, "snapshot") /\ Ends(c)
  /\ handles' \in {handles, Shown(handles)}
  /\ UNCHANGED <<host, doc, procs, tries, core, holder>>

ProgramInit ==
  /\ host \in {"macos", "windows"} /\ doc \in Lists[host]
  /\ handles = [e \in Entries |-> Nothing]
  /\ procs = <<>> /\ tries = <<>> /\ core \in Cores[host] /\ holder = "nobody"
  /\ command = [c \in Commands |-> [at |-> "idle"]]

----------------------------------------------------------------------------
\* require_program_proxy is the first thing every command does
Required(c) == At(c, "idle") /\ ProgramProxySwitch

\* list_proxy_programs: a list of an old schema is brought to the present one,
\* entries found in the catalogue are bound to it
List(c) ==
  /\ Required(c)
  /\ \E found \in SUBSET doc.paths :
       IF found = {} /\ ~doc.old THEN Shows(c)
       ELSE /\ doc.rev < MaxSaves
            /\ command' = [command EXCEPT ![c] =
                 [at |-> "migrate", new |-> [doc EXCEPT !.rev = @ + 1, !.old = FALSE,
                                                        !.paths = @ \ found]]]
  /\ UNCHANGED <<host, doc, handles, procs, tries, core, holder>>

IsCurrent(c) == doc.rev + 1 = command[c].new.rev

\* unless the list was edited meanwhile; a read or write that fails ends it
Migrate(c) ==
  /\ At(c, "migrate")
  /\ \/ doc' = (IF IsCurrent(c) THEN command[c].new ELSE doc) /\ Shows(c)
     \/ UNCHANGED doc /\ Ends(c)
  /\ UNCHANGED <<host, handles, procs, tries, core, holder>>

\* update_document: an entry is added or replaced, the next revision
Updated(e, app, byPath) ==
  [rev |-> doc.rev + 1, old |-> FALSE, app |-> [doc.app EXCEPT ![e] = app],
   paths |-> IF byPath THEN doc.paths \union {e} ELSE doc.paths \ {e}]

\* save_proxy_program: a new entry or an edit of one that is there
Save(c) ==
  /\ Required(c) /\ doc.rev < MaxSaves
  /\ \E e \in Entries, app \in Apps, byPath \in BOOLEAN :
       /\ doc.app[e] # "deleted" /\ (byPath => host = "windows")
       /\ command' = [command EXCEPT ![c] =
            [at |-> "save", new |-> Updated(e, app, byPath)]]
  /\ UNCHANGED <<host, doc, handles, procs, tries, core, holder>>

\* the revision is compared under the lock; the write may fail
Write(c) ==
  /\ At(c, "save")
  /\ \/ IsCurrent(c) /\ doc' = command[c].new /\ Shows(c)
     \/ UNCHANGED doc /\ Ends(c)
  /\ UNCHANGED <<host, handles, procs, tries, core, holder>>

\* delete_proxy_program, under the lock: the handle goes, the process stays.  A
\* write that fails changes nothing.
Delete(c) ==
  /\ Required(c) /\ doc.rev < MaxSaves
  /\ \E e \in Present(doc) :
       /\ doc' = [doc EXCEPT !.rev = @ + 1, !.app[e] = "deleted", !.paths = @ \ {e}]
       /\ handles' = [handles EXCEPT ![e] = Nothing]
  /\ Shows(c)
  /\ UNCHANGED <<host, procs, tries, core, holder>>

----------------------------------------------------------------------------
\* launch_proxy_program: the entry is read and its application resolved
Launch(c) ==
  /\ Required(c)
  /\ \E e \in Present(doc) :
       command' = [command EXCEPT ![c] =
         [at |-> "look", entry |-> e, app |-> doc.app[e], rev |-> doc.rev]]
  /\ UNCHANGED <<host, doc, handles, procs, tries, core, holder>>

\* an instance that runs already would not get the proxy
Look(c) ==
  /\ At(c, "look")
  /\ IF Running(command[c].app) = {} THEN Goto(c, "permit") ELSE Ends(c)
  /\ UNCHANGED <<host, doc, handles, procs, tries, core, holder>>

\* Takes the permit, which it does not wait for, finds the core running, and
\* reserves the entry under the lock.  A core that does not answer, a list that
\* cannot be read or has changed ends the command.  macOS takes long to open an
\* application: the permit is given back.
Reserve(c) ==
  /\ At(c, "permit")
  /\ LET e == command[c].entry
     IN  \/ /\ holder = "nobody" /\ core # 0 /\ doc.rev = command[c].rev
            /\ IF Alive(handles[e])
                 THEN handles' = [handles EXCEPT ![e] = Answer(@)] /\ Ends(c) /\ UNCHANGED holder
                 ELSE /\ handles' = [handles EXCEPT ![e] = Reserved]
                      /\ command' = [command EXCEPT ![c] =
                           [at |-> "start", entry |-> e, app |-> @.app, port |-> core]]
                      /\ holder' = IF host = "windows" THEN c ELSE holder
         \/ Ends(c) /\ UNCHANGED <<handles, holder>>
  /\ UNCHANGED <<host, doc, procs, tries, core>>

\* the variables of the environment, or the arguments, name the port
Process(app, by, port) == [app |-> app, by |-> by, port |-> port, alive |-> TRUE]
With(c, step, handle) ==
  command' = [command EXCEPT ![c] = [at |-> step, entry |-> @.entry, handle |-> handle]]

Spawn(c) ==
  /\ At(c, "start") /\ host = "windows" /\ Len(procs) < MaxProcs
  /\ holder' = "nobody"
  /\ \/ /\ procs' = Append(procs, Process(command[c].app, command[c].entry, command[c].port))
        /\ With(c, "store", [is |-> "running", of |-> Len(procs) + 1])
     \/ UNCHANGED procs /\ With(c, "store", Nothing)
  /\ UNCHANGED <<host, doc, handles, tries, core>>

\* a deletion meanwhile is not undone; a failure gives the entry back
Store(c) ==
  /\ At(c, "store")
  /\ LET e == command[c].entry
         got == command[c].handle
     IN  IF got = Nothing THEN handles' = [handles EXCEPT ![e] = Nothing] /\ Ends(c)
         ELSE /\ handles' = [handles EXCEPT ![e] = IF @ = Nothing THEN @ ELSE got]
              /\ Shows(c)
  /\ UNCHANGED <<host, doc, procs, tries, core, holder>>

----------------------------------------------------------------------------
\* launch_with_wait, on macOS: the application is resolved, no instance may run
MacLook(c) ==
  /\ At(c, "start") /\ host = "macos"
  /\ \/ Running(command[c].app) = {} /\ Goto(c, "begin")
     \/ With(c, "store", Nothing)
  /\ UNCHANGED <<host, doc, handles, procs, tries, core, holder>>

\* begin_attempt takes one request for an application at a time, and refuses
\* while too many wait
MacBegin(c) ==
  /\ At(c, "begin")
  /\ \/ /\ Pending(command[c].app) = {} /\ Len(tries) < MaxTries
        /\ tries' = Append(tries, [app |-> command[c].app, by |-> command[c].entry,
             port |-> command[c].port, status |-> "pending", asked |-> FALSE, since |-> 0,
             proc |-> 0])
        /\ With(c, "again", [is |-> "waiting", of |-> Len(tries) + 1])
     \/ UNCHANGED tries /\ With(c, "store", Nothing)
  /\ UNCHANGED <<host, doc, handles, procs, core, holder>>

\* looks again, then asks the system
MacAsk(c) ==
  /\ At(c, "again")
  /\ LET t == command[c].handle.of
     IN  IF Running(tries[t].app) # {}
           THEN tries' = [tries EXCEPT ![t].status = "failed"] /\ With(c, "store", Nothing)
           ELSE /\ tries' = [tries EXCEPT ![t].asked = TRUE, ![t].since = Len(procs)]
                /\ Goto(c, "wait")
  /\ UNCHANGED <<host, doc, handles, procs, core, holder>>

MacAnswered(c) ==
  /\ At(c, "wait")
  /\ LET try == tries[command[c].handle.of]
     IN  /\ try.status # "pending"
         /\ With(c, "store", IF try.status = "failed" THEN Nothing
                             ELSE [is |-> "running", of |-> try.proc])
  /\ UNCHANGED <<host, doc, handles, procs, tries, core, holder>>

\* LAUNCH_WAIT is over: the receipt stays with the entry
MacTimeout(c) ==
  /\ At(c, "wait") /\ Goto(c, "store")
  /\ UNCHANGED <<host, doc, handles, procs, tries, core, holder>>

\* The system starts the application, or takes an instance that runs.
SystemOpens(t) ==
  /\ tries[t].asked /\ tries[t].status = "pending" /\ tries[t].proc = 0
  /\ IF Running(tries[t].app) = {}
       THEN /\ Len(procs) < MaxProcs
            /\ procs' = Append(procs, Process(tries[t].app, tries[t].by, tries[t].port))
            /\ tries' = [tries EXCEPT ![t].proc = Len(procs) + 1]
       ELSE /\ UNCHANGED procs
            /\ \E i \in Running(tries[t].app) : tries' = [tries EXCEPT ![t].proc = i]
  /\ UNCHANGED <<host, doc, handles, core, holder, command>>

\* the completion: an older instance is not the one that was asked for, one
\* that has ended has no record
SystemAnswers(t) ==
  /\ tries[t].asked /\ tries[t].status = "pending"
  /\ \E status \in {"done", "failed"} :
       /\ status = "done" =>
            tries[t].proc > tries[t].since /\ procs[tries[t].proc].alive
       /\ tries' = [tries EXCEPT ![t].status = status, ![t].since = 0,
                                 ![t].proc = IF status = "done" THEN @ ELSE 0]
  /\ UNCHANGED <<host, doc, handles, procs, core, holder, command>>

----------------------------------------------------------------------------
\* what others do: programs are started and end; the core is stopped and
\* started at another port under the permit; it dies under none
Starts ==
  /\ Len(procs) < MaxProcs
  /\ \E app \in Apps :
       /\ host = "macos" => Running(app) = {}
       /\ procs' = Append(procs, Process(app, "user", 0))
  /\ UNCHANGED <<host, doc, handles, tries, core, holder, command>>
Quits ==
  /\ \E i \in DOMAIN procs : procs[i].alive /\ procs' = [procs EXCEPT ![i].alive = FALSE]
  /\ UNCHANGED <<host, doc, handles, tries, core, holder, command>>
Configure ==
  /\ holder = "nobody"
  /\ core' \in Cores[host] /\ core' # core
  /\ UNCHANGED <<host, doc, handles, procs, tries, holder, command>>
CoreDies ==
  /\ core # 0 /\ 0 \in Cores[host] /\ core' = 0
  /\ UNCHANGED <<host, doc, handles, procs, tries, holder, command>>

ProgramNext ==
  \/ \E c \in Commands :
       \/ Snapshot(c) \/ List(c) \/ Migrate(c) \/ Save(c) \/ Write(c) \/ Delete(c)
       \/ Launch(c) \/ Look(c) \/ Reserve(c) \/ Spawn(c) \/ Store(c)
       \/ MacLook(c) \/ MacBegin(c) \/ MacAsk(c) \/ MacAnswered(c) \/ MacTimeout(c)
  \/ \E t \in DOMAIN tries : SystemOpens(t) \/ SystemAnswers(t)
  \/ Starts \/ Quits \/ Configure \/ CoreDies

ProgramTypeOK ==
  /\ host \in {"macos", "windows"} /\ doc.paths \subseteq Entries /\ doc.old \in BOOLEAN
  /\ doc.app \in [Entries -> Apps \union {"unborn", "deleted"}] /\ doc.rev \in 0..MaxSaves
  /\ handles \in [Entries -> [is : {"none", "reserved"}, of : {0}]
                               \union [is : {"waiting"}, of : DOMAIN tries]
                               \union [is : {"running"}, of : DOMAIN procs]]
  /\ \A i \in DOMAIN procs : procs[i] \in
       [app : Apps, by : Entries \union {"user"}, port : Cores[host] \union {0},
        alive : BOOLEAN]
  /\ core \in Cores[host] /\ holder \in Commands \union {"nobody"}

----------------------------------------------------------------------------
\* A second click starts no second process, whoever else edits or starts: an
\* application that lives was started at most once for its entry.
EntryRunsOnce ==
  \A i, j \in DOMAIN procs :
    /\ procs[i].alive /\ procs[j].alive /\ procs[i].app = procs[j].app
    /\ procs[i].by = procs[j].by /\ procs[i].by # "user"
    => i = j

\* A deleted entry is not resurrected by a start that ends late; on macOS a
\* late answer reaches the entry it belongs to, and no process two of them.
HandlesAreOwn ==
  /\ \A e \in Entries : handles[e] # Nothing => e \in Present(doc)
  /\ \A e \in Entries : handles[e].is = "running" => procs[handles[e].of].by \in {e, "user"}
  /\ \A e, f \in Entries : handles[e].is = "running" /\ handles[e] = handles[f] => e = f

\* Nothing that was saved is lost to a command that read the list before; what
\* is started under the permit gets the port of the core, if that has not died.
ProgramStepOK ==
  /\ doc' # doc => /\ doc'.rev = doc.rev + 1
                   /\ Cardinality({e \in Entries : doc'.app[e] # doc.app[e]}) <= 1
  /\ host = "windows" /\ procs' # procs =>
       \A i \in DOMAIN procs' \ DOMAIN procs : procs'[i].by \in Entries =>
         core \in {0, procs'[i].port}
=============================================================================
