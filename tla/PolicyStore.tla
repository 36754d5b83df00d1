---------------------------- MODULE PolicyStore ----------------------------
(***************************************************************************)
(* The policy directory and who uses it: the policy daemon with its        *)
(* PolicyCache and inotify watch (policy/utils.py, parser.py's file        *)
(* loaders), processes of the policy admin API (policy/admin.py), called   *)
(* as qubes-policy-editor does, and somebody who writes files in place.    *)
(*                                                                         *)
(* A file's content is a record: whether its syntax is right, which files  *)
(* it includes, and a version.  Included files include nothing themselves. *)
(***************************************************************************)
EXTENDS Integers, Sequences, FiniteSets

CONSTANTS
    PolicyFile,                \* files of policy.d with a proper name
    BadFile,                   \* ... with a name only the admin API accepts
    Include,                   \* files of policy.d/include
    Contents,                  \* what is written to files
    Initial,                   \* the directory to start from
    Admin,                     \* processes of the admin API
    None,
    Workloads                  \* what may happen in one behaviour, see below

\* requests to the admin API by some processes, about some files and with some
\* contents, writes in place, and whether the policy daemon is running
ASSUME WorkloadsAssumption ==
    \A w \in Workloads : /\ w.requests \in Nat /\ w.edits \in Nat /\ w.admins \subseteq Admin
                         /\ w.contents \subseteq Contents /\ w.daemon \in BOOLEAN

\* "!include" names files of the include directory only.
ASSUME StoreAssumption ==
    /\ Contents \subseteq [ok : BOOLEAN, inc : SUBSET Include, version : Nat]
    /\ Include \cap (PolicyFile \cup BadFile) = {}
    /\ None \notin Admin

VARIABLES
    dir,                       \* the content of each file
    temp,                      \* the content of "!" + its name
    lock,                      \* who holds the lock of the directory
    admin,                     \* the state of each admin process
    cache,                     \* the PolicyCache, and a load under way
    watching,                  \* initialize_watcher() was called
    events,                    \* inotify events wait to be read
    missed,                    \* a change before the watch, after the load began
    used                       \* requests and edits so far, and the workload

vars == <<dir, temp, lock, admin, cache, watching, events, missed, used>>

-----------------------------------------------------------------------------
(* The directory *)

Path == PolicyFile \cup BadFile \cup Include
IsPolicy(p) == p \notin Include
Empty == [ok |-> TRUE, inc |-> {}, version |-> 0]
Absent == [ok |-> TRUE, inc |-> {}, version |-> -1]
Present(d, p) == d[p] # Absent
Fits(p, c) == p \in Include => c.inc = {}

\* filter_filepaths() raises AccessDenied for a ".policy" file with other
\* characters in its name, RENAME_PREFIX among them.
NamesOk(d, t) == \A p \in Path : IsPolicy(p) => ~Present(t, p) /\ (p \in BadFile => ~Present(d, p))

\* What loading a directory reads, and whether it succeeds.
Read(d, p) == {p} \cup d[p].inc
Files(d) == UNION {Read(d, p) : p \in {p \in Path : IsPolicy(p) /\ Present(d, p)}}
Parses(d) == \A p \in Files(d) : Present(d, p) /\ d[p].ok
Loadable(d, t) == NamesOk(d, t) /\ Parses(d)
Snapshot(d) == {<<p, d[p]>> : p \in Files(d)}

Content == Contents \cup {Empty, Absent}

\* The policy that is there at first is in order.
ASSUME InitialAssumption ==
    /\ Initial \in [Path -> Content]
    /\ \A p \in Path : Fits(p, Initial[p])
    /\ Parses(Initial)

\* A change of the directory: an event if it is watched
Change(d, t) ==
    /\ dir' = d /\ temp' = t
    /\ events' = (events \/ watching)
    /\ missed' = (missed \/ ~watching)
NoChange == UNCHANGED <<dir, temp, events, missed>>

-----------------------------------------------------------------------------
(* The cache *)

\* pc: "load" and "read" load the policy, for the constructor or a request;
\* "watch" comes after the constructor; "denied" is a request that is refused
\* because the policy cannot be loaded; "dead" a daemon that is not running.
Init ==
    /\ dir = Initial
    /\ temp = [p \in Path |-> Absent]
    /\ lock = None
    /\ admin = [a \in Admin |-> [pc |-> "idle", op |-> "", path |-> None, any |-> FALSE,
                                 seen |-> Absent, known |-> FALSE, data |-> Absent]]
    /\ \E w \in Workloads : used = [requests |-> 0, edits |-> 0, work |-> w]
    /\ cache = [pc |-> IF used.work.daemon THEN "load" ELSE "dead", outdated |-> FALSE,
                policy |-> {}, todo |-> {}, loaded |-> {}]
    /\ watching = FALSE /\ events = FALSE /\ missed = FALSE

adminVars == <<lock, admin, used>>
Cache(upd) == cache' = upd /\ UNCHANGED <<adminVars, watching>> /\ NoChange

LoadFails_forgetting(c) ==
    [c EXCEPT !.pc = IF watching THEN "denied" ELSE "dead", !.todo = {}, !.loaded = {}, !.outdated = FALSE]
\* An exception leaves get_policy() with the policy still outdated.
LoadFails(c) == [c EXCEPT !.pc = IF watching THEN "denied" ELSE "dead", !.todo = {}, !.loaded = {}]

\* load_policy_dir(): the names first
load_policy_dir ==
    /\ cache.pc = "load"
    /\ Cache(IF NamesOk(dir, temp)
             THEN [cache EXCEPT !.pc = "read", !.loaded = {},
                                !.todo = {p \in Path : IsPolicy(p) /\ Present(dir, p)}]
             ELSE LoadFails(cache))

\* load_policy_file(), a file at a time, included ones next, and again for each
\* "!include"; a file that is gone and a syntax error end the load.
load_policy_file ==
    /\ cache.pc = "read"
    /\ cache.todo # {}
    /\ LET first == IF cache.todo \cap Include # {} THEN cache.todo \cap Include ELSE cache.todo
           p == CHOOSE p \in first : TRUE
       IN  Cache(IF Present(dir, p) /\ dir[p].ok
                 THEN [cache EXCEPT !.todo = (@ \ {p}) \cup dir[p].inc,
                                    !.loaded = @ \cup {<<p, dir[p]>>}]
                 ELSE LoadFails(cache))

\* The loaded policy is stored; only then outdated is reset.
load_done ==
    /\ cache.pc = "read"
    /\ cache.todo = {}
    /\ Cache([cache EXCEPT !.pc = IF watching THEN "idle" ELSE "watch", !.policy = cache.loaded,
                           !.loaded = {}, !.outdated = FALSE])

initialize_watcher ==
    /\ cache.pc = "watch"
    /\ watching' = TRUE
    /\ cache' = [cache EXCEPT !.pc = "idle"]
    /\ UNCHANGED adminVars /\ NoChange

process_events_ignored ==
    /\ cache.pc = "idle"
    /\ events
    /\ events' = FALSE
    /\ UNCHANGED <<cache, adminVars, watching, dir, temp, missed>>
\* PolicyWatcher.process_*()
process_events ==
    /\ cache.pc = "idle"
    /\ events
    /\ events' = FALSE
    /\ cache' = [cache EXCEPT !.outdated = TRUE]
    /\ UNCHANGED <<adminVars, watching, dir, temp, missed>>

\* A request to the policy daemon: get_policy(); evaluation is elsewhere
\* (PolicyEvaluation).
get_policy ==
    /\ cache.pc = "idle"
    /\ Cache(IF cache.outdated THEN [cache EXCEPT !.pc = "load"] ELSE cache)
denied ==
    /\ cache.pc = "denied"
    /\ Cache([cache EXCEPT !.pc = "idle"])

-----------------------------------------------------------------------------
(* The admin API *)

Goes(a, upd) == admin' = [admin EXCEPT ![a] = upd] /\ UNCHANGED <<cache, watching, used>>
Ends(a) == Goes(a, [admin[a] EXCEPT !.pc = "idle"]) /\ lock' = None

\* A client calls: policy.Get first, then Replace or Remove with the token it
\* got ("new" if there was no file), or either with "any" and no Get.
request(a, op, p, any, c) ==
    /\ admin[a].pc = "idle"
    /\ a \in used.work.admins /\ used.requests < used.work.requests
    /\ p \in used.work.paths /\ c \in used.work.contents /\ Fits(p, c)
    /\ op # "get" /\ ~any => admin[a].known /\ admin[a].path = p
    /\ admin' = [admin EXCEPT ![a] = [admin[a] EXCEPT !.pc = "lock", !.op = op, !.path = p, !.any = any,
                                                      !.data = IF op = "replace" THEN c ELSE Absent,
                                                      !.known = (op # "get" /\ @)]]
    /\ used' = [used EXCEPT !.requests = @ + 1]
    /\ UNCHANGED <<cache, watching, lock>> /\ NoChange

lock_directory_shared(a) ==
    /\ admin[a].pc = "lock"
    /\ lock' = a
    /\ Goes(a, [admin[a] EXCEPT !.pc = IF admin[a].op = "get" THEN "get" ELSE "check"])
    /\ NoChange
lock_directory(a) ==
    /\ admin[a].pc = "lock"
    /\ lock = None
    /\ lock' = a
    /\ Goes(a, [admin[a] EXCEPT !.pc = IF admin[a].op = "get" THEN "get" ELSE "check"])
    /\ NoChange

\* _common_get(): a token is as good as the content.
common_get(a) ==
    /\ admin[a].pc = "get"
    /\ Goes(a, [admin[a] EXCEPT !.pc = "idle", !.seen = dir[admin[a].path], !.known = TRUE])
    /\ lock' = None
    /\ NoChange

check_token(a) ==
    /\ admin[a].pc = "check"
    /\ LET r == admin[a] IN
       IF (r.any \/ dir[r.path] = r.seen) /\ (r.op = "remove" => Present(dir, r.path))
       THEN Goes(a, [r EXCEPT !.pc = "validate"]) /\ UNCHANGED lock
       ELSE Ends(a)
    /\ NoChange

ValidChange_of_file_only(p, c) == NamesOk(dir, temp) /\ c.ok
\* _validate(): the directory with the change applied.  The new file's own
\* name is not checked.
ValidChange(p, c) == NamesOk(dir, temp) /\ Parses([dir EXCEPT ![p] = c])
validate(a) ==
    /\ admin[a].pc = "validate"
    /\ LET r == admin[a] IN
       IF ValidChange(r.path, r.data)
       THEN Goes(a, [r EXCEPT !.pc = IF r.op = "replace" THEN "write" ELSE "unlink"]) /\ UNCHANGED lock
       ELSE Ends(a)
    /\ NoChange

write_temp(a) ==
    /\ admin[a].pc = "write"
    /\ Change(dir, [temp EXCEPT ![admin[a].path] = admin[a].data])
    /\ Goes(a, [admin[a] EXCEPT !.pc = "rename"])
    /\ UNCHANGED lock
rename(a) ==
    /\ admin[a].pc = "rename"
    /\ LET p == admin[a].path IN Change([dir EXCEPT ![p] = temp[p]], [temp EXCEPT ![p] = Absent])
    /\ Ends(a)
unlink(a) ==
    /\ admin[a].pc = "unlink"
    /\ Change([dir EXCEPT ![admin[a].path] = Absent], temp)
    /\ Ends(a)

\* The lock goes with the process, the temporary file stays.
crash(a) ==
    /\ admin[a].pc \notin {"idle", "lock"}
    /\ Ends(a)
    /\ NoChange

\* Somebody writes a file without the API: it is emptied, then written.
edit(p, c) ==
    /\ used.edits < used.work.edits
    /\ p \in used.work.paths /\ c \in used.work.contents \cup {Empty} /\ Fits(p, c)
    /\ Change([dir EXCEPT ![p] = c], temp)
    /\ used' = [used EXCEPT !.edits = @ + 1]
    /\ UNCHANGED <<lock, admin, cache, watching>>

-----------------------------------------------------------------------------

Daemon ==
    \/ load_policy_dir
    \/ load_policy_file
    \/ load_done
    \/ initialize_watcher
    \/ process_events
    \/ get_policy
    \/ denied

AdminProcess(a) ==
    \/ lock_directory(a)
    \/ common_get(a)
    \/ check_token(a)
    \/ validate(a)
    \/ write_temp(a)
    \/ rename(a)
    \/ unlink(a)

Next ==
    \/ Daemon
    \/ \E a \in Admin : AdminProcess(a)
    \/ \E a \in Admin, op \in {"get", "replace", "remove"}, p \in Path, any \in BOOLEAN, c \in Contents :
          request(a, op, p, any, c)
    \/ \E a \in Admin : crash(a)
    \/ \E p \in Path, c \in Contents \cup {Empty} : edit(p, c)
    \/ cache.pc = "dead" /\ UNCHANGED vars

Spec == Init /\ [][Next]_vars

\* The daemon runs, and is asked again and again.
Fairness ==
    /\ WF_vars(load_policy_dir \/ load_policy_file \/ load_done \/ initialize_watcher \/ denied)
    /\ WF_vars(process_events)
    /\ WF_vars(get_policy)
    /\ \A a \in Admin : WF_vars(AdminProcess(a))
FairSpec == Spec /\ Fairness

-----------------------------------------------------------------------------
(* Properties *)

AdminState ==
    [pc : {"idle", "lock", "get", "check", "validate", "write", "rename", "unlink"},
     op : {"", "get", "replace", "remove"}, path : Path \cup {None}, any : BOOLEAN,
     seen : Content, known : BOOLEAN, data : Content]
CacheState ==
    [pc : {"load", "read", "watch", "idle", "denied", "dead"}, outdated : BOOLEAN,
     policy : SUBSET (Path \X Content), todo : SUBSET Path, loaded : SUBSET (Path \X Content)]

\* Every variable has its type.
TypeOK ==
    /\ dir \in [Path -> Content] /\ temp \in [Path -> Content]
    /\ lock \in Admin \cup {None}
    /\ admin \in [Admin -> AdminState]
    /\ cache \in CacheState
    /\ watching \in BOOLEAN /\ events \in BOOLEAN /\ missed \in BOOLEAN
    /\ used \in [requests : Nat, edits : Nat, work : Workloads]

\* Unless it is marked outdated, or an event that will mark it waits, the
\* cached policy is what is in the directory: no change during a load, or after
\* a load that failed, is lost.  (One between the first load and the watch is.)
CacheFresh ==
    cache.pc = "idle" /\ ~cache.outdated /\ ~events /\ ~missed => cache.policy = Snapshot(dir)

\* The tokens "prevent race conditions when removing or replacing a file": up
\* to the moment a file is replaced or removed it is the one the client saw,
\* unless it was written without the API.
TokenHolds ==
    used.edits = 0 => \A a \in Admin :
        admin[a].pc \in {"validate", "write", "rename", "unlink"} /\ ~admin[a].any =>
            dir[admin[a].path] = admin[a].seen

\* "All changes (Replace / Remove) are be validated to check if they will not
\* introduce errors": whatever is requested of two processes at a time, and
\* wherever one of them is killed, the directory loads at every moment.
\* (Names apart: a temporary file may be left behind, and the API accepts
\* names that filter_filepaths() does not.)
StaysLoadable == used.edits = 0 => Parses(dir)

\* When the changes stop, the policy in force is what is in the directory.
EventuallyInForce ==
    <>[](missed \/ cache.pc = "dead" \/ ~Loadable(dir, temp) \/ cache.policy = Snapshot(dir))
=============================================================================
