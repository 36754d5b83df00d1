------------------------- MODULE PolicyStoreProofs -------------------------
(***************************************************************************)
(* Safety of the policy directory and the policy cache, for any files,     *)
(* contents, processes of the admin API and workloads.                     *)
(***************************************************************************)
EXTENDS PolicyStore, TLAPS

\* Most leaves are first-order reasoning, which is Zenon's; a leaf that needs
\* arithmetic, or functions and records taken apart, names SMT.
USE Zenon

Changing == {"write", "rename", "unlink"}
After(a) == [dir EXCEPT ![admin[a].path] = admin[a].data]

\* One admin process at a time is past lock_directory(), and while it holds
\* the lock it is about to make the change that was validated.
AdminInv ==
    /\ \A a \in Admin :
          /\ admin[a].pc \notin {"idle", "lock"} => lock = a
          /\ admin[a].pc # "idle" => admin[a].path \in Path /\ Fits(admin[a].path, admin[a].data)
          /\ admin[a].pc = "rename" => temp[admin[a].path] = admin[a].data
          /\ admin[a].op # "replace" => admin[a].data = Absent
          /\ admin[a].pc = "unlink" => admin[a].op # "replace"
          /\ admin[a].pc \in Changing /\ used.edits = 0 => Parses(After(a))
    /\ \A p \in Path : Fits(p, dir[p]) /\ Fits(p, temp[p])
    /\ TokenHolds
    /\ StaysLoadable

\* What was read of an unchanged directory, and is still to be read, is what
\* a load reads of it.
Reading ==
    /\ \A f \in cache.loaded : f[1] \in Files(dir) /\ f[2] = dir[f[1]]
    /\ cache.todo \subseteq Files(dir)
    /\ \A p \in Path : IsPolicy(p) /\ Present(dir, p) =>
          p \in cache.todo \/ <<p, dir[p]>> \in cache.loaded
    /\ \A f \in cache.loaded : \A i \in f[2].inc : i \in cache.todo \/ <<i, dir[i]>> \in cache.loaded

\* Events are read only between loads, so that a load without events or a
\* missed change saw the directory as it is.
CacheInv ==
    /\ cache.pc \in {"idle", "denied"} => watching
    /\ cache.pc = "watch" => ~watching
    /\ watching /\ cache.pc \in {"load", "read", "denied"} => cache.outdated
    /\ ~events /\ ~missed =>
          /\ cache.pc = "read" => Reading
          /\ cache.pc = "watch" => cache.policy = Snapshot(dir)
    /\ CacheFresh

IInv == TypeOK /\ AdminInv /\ CacheInv

-----------------------------------------------------------------------------

\* The invariant holds when the daemon starts.
LEMMA InitInv == Init => IInv
<1> SUFFICES ASSUME Init PROVE IInv
  OBVIOUS
<1>1. TypeOK
  <2>1. used \in [requests : Nat, edits : Nat, work : Workloads]
    <3>1. PICK w \in Workloads : used = [requests |-> 0, edits |-> 0, work |-> w]
      BY DEF Init
    <3> QED
      BY <3>1
  <2>2. cache \in CacheState
    BY DEF Init, CacheState
  <2>3. admin \in [Admin -> AdminState]
    BY DEF Init, AdminState, Content
  <2> QED
    BY <2>1, <2>2, <2>3, InitialAssumption DEF Init, TypeOK, Content
<1>2. AdminInv
  BY InitialAssumption DEF Init, AdminInv, TokenHolds, StaysLoadable, Fits, Absent, Changing
<1>3. CacheInv
  BY DEF Init, CacheInv, CacheFresh
<1> QED
  BY <1>1, <1>2, <1>3 DEF IInv

\* A step of somebody else that changes the directory is seen as an event, or
\* was missed for good.
LEMMA CacheKept ==
  ASSUME CacheInv, TypeOK, UNCHANGED <<cache, watching>>,
         NoChange \/ \E d, t : Change(d, t)
  PROVE  CacheInv'
<1>1. CASE NoChange
  BY <1>1, SMT DEF NoChange, CacheInv, CacheFresh, Reading, Files, Snapshot, Read, Present
<1>2. CASE \E d, t : Change(d, t)
  <2>1. events' \/ missed'
    BY <1>2 DEF Change, TypeOK
  <2> QED
    BY <2>1 DEF CacheInv, CacheFresh
<1> QED
  BY <1>1, <1>2

\* The daemon leaves the directory and the admin processes alone.
LEMMA AdminKept ==
  ASSUME AdminInv, UNCHANGED <<adminVars, dir, temp>>
  PROVE  AdminInv'
BY SMT DEF adminVars, AdminInv, TokenHolds, StaysLoadable, After, Parses, Files, Read, Present

\* At its end a load has read the directory.
LEMMA LoadComplete ==
  ASSUME TypeOK, Reading, cache.todo = {}
  PROVE  cache.loaded = Snapshot(dir)
<1>1. ASSUME NEW f \in cache.loaded PROVE f \in Snapshot(dir)
  <2>1. f = <<f[1], f[2]>>
    BY SMT DEF TypeOK, CacheState
  <2> QED
    BY <2>1 DEF Reading, Snapshot
<1>2. ASSUME NEW p \in Files(dir) PROVE <<p, dir[p]>> \in cache.loaded
  <2>1. PICK q \in Path : IsPolicy(q) /\ Present(dir, q) /\ p \in Read(dir, q)
    BY DEF Files
  <2>2. <<q, dir[q]>> \in cache.loaded
    BY <2>1 DEF Reading
  <2>3. CASE p = q
    BY <2>2, <2>3
  <2>4. CASE p \in dir[q].inc
    BY <2>2, <2>4 DEF Reading
  <2> QED
    BY <2>1, <2>3, <2>4 DEF Read
<1> QED
  BY <1>1, <1>2 DEF Snapshot

\* The policy daemon's steps keep the invariant.
LEMMA DaemonStep == IInv /\ Daemon => IInv'
<1> SUFFICES ASSUME IInv, Daemon PROVE IInv'
  OBVIOUS
<1> USE DEF IInv
<1>1. AdminInv'
  <2>1. UNCHANGED <<adminVars, dir, temp>>
    BY DEF Daemon, load_policy_dir, load_policy_file, load_done, initialize_watcher,
       process_events, get_policy, denied, Cache, NoChange
  <2> QED
    BY <2>1, AdminKept
<1>2. CASE load_policy_dir
  <2>1. /\ UNCHANGED <<adminVars, watching, dir, temp, events, missed>>
        /\ cache.pc = "load"
        /\ cache' = IF NamesOk(dir, temp)
                    THEN [cache EXCEPT !.pc = "read", !.loaded = {},
                                       !.todo = {p \in Path : IsPolicy(p) /\ Present(dir, p)}]
                    ELSE LoadFails(cache)
    BY <1>2 DEF load_policy_dir, Cache, NoChange
  <2>2. cache' \in CacheState
    BY <2>1 DEF TypeOK, CacheState, LoadFails
  <2>3. {p \in Path : IsPolicy(p) /\ Present(dir, p)} \subseteq Files(dir)
    BY DEF Files, Read
  <2>4. cache'.pc = "read" => Reading'
    BY <2>1, <2>3, SMT DEF Reading, LoadFails, TypeOK, CacheState, Files, Read, Present
  <2>5. CacheInv'
    BY <2>1, <2>4 DEF CacheInv, CacheFresh, LoadFails, TypeOK, CacheState
  <2> QED
    BY <1>1, <2>1, <2>2, <2>5 DEF TypeOK, adminVars
<1>3. CASE load_policy_file
  <2>1. PICK p \in cache.todo :
        cache' = IF Present(dir, p) /\ dir[p].ok
                 THEN [cache EXCEPT !.todo = (@ \ {p}) \cup dir[p].inc,
                                    !.loaded = @ \cup {<<p, dir[p]>>}]
                 ELSE LoadFails(cache)
    BY <1>3 DEF load_policy_file, Cache
  <2>2. /\ UNCHANGED <<adminVars, watching, dir, temp, events, missed>>
        /\ cache.pc = "read"
    BY <1>3 DEF load_policy_file, Cache, NoChange
  <2>3. p \in Path /\ dir[p] \in Content /\ dir[p].inc \subseteq Include
    BY StoreAssumption, SMT DEF TypeOK, CacheState, Content, Empty, Absent
  <2>4. cache' \in CacheState
    <3>1. <<p, dir[p]>> \in Path \X Content /\ dir[p].inc \subseteq Path
      BY <2>3 DEF Path
    <3>2. LoadFails(cache) \in CacheState
      BY DEF TypeOK, CacheState, LoadFails
    <3>3. CASE Present(dir, p) /\ dir[p].ok
      <4> DEFINE todo == (cache.todo \ {p}) \cup dir[p].inc
                 loaded == cache.loaded \cup {<<p, dir[p]>>}
      <4>1. todo \in SUBSET Path /\ loaded \in SUBSET (Path \X Content)
        BY <3>1 DEF TypeOK, CacheState
      <4>2. cache' = [cache EXCEPT !.todo = todo, !.loaded = loaded]
        BY <2>1, <3>3
      <4> HIDE DEF todo, loaded
      <4> QED
        BY <4>1, <4>2 DEF TypeOK, CacheState
    <3> QED
      BY <2>1, <3>2, <3>3
  <2>5. ASSUME Reading, cache'.pc = "read" PROVE Reading'
    <3>1. /\ cache'.todo = (cache.todo \ {p}) \cup dir[p].inc
          /\ cache'.loaded = cache.loaded \cup {<<p, dir[p]>>}
      BY <2>1, <2>5 DEF LoadFails, TypeOK, CacheState
    <3>2. p \in Files(dir)
      BY <2>5 DEF Reading
    <3>3. dir[p].inc \subseteq Files(dir)
      <4>1. PICK q \in Path : IsPolicy(q) /\ Present(dir, q) /\ p \in Read(dir, q)
        BY <3>2 DEF Files
      <4>2. CASE p = q
        BY <4>1, <4>2 DEF Files, Read
      <4>3. CASE p # q
        <5>1. p \in Include
          BY <4>1, <4>3, StoreAssumption, SMT DEF Read, TypeOK, Content, Empty, Absent
        <5> QED
          BY <2>3, <5>1 DEF AdminInv, Fits
      <4> QED
        BY <4>2, <4>3
    <3>4. ASSUME NEW i, i \in cache.todo \/ <<i, dir[i]>> \in cache.loaded
          PROVE  i \in cache'.todo \/ <<i, dir[i]>> \in cache'.loaded
      BY <3>1, <3>4
    <3>5. ASSUME NEW i \in dir[p].inc
          PROVE  i \in cache'.todo \/ <<i, dir[i]>> \in cache'.loaded
      BY <3>1
    <3>6. Files(dir)' = Files(dir)
      BY <2>2 DEF Files, Read, Present
    <3>7. \A f \in cache'.loaded : f[1] \in Files(dir) /\ f[2] = dir[f[1]]
      BY <2>5, <3>1, <3>2, SMT DEF Reading
    <3>8. cache'.todo \subseteq Files(dir)
      BY <2>5, <3>1, <3>3 DEF Reading
    <3>9. \A q \in Path : IsPolicy(q) /\ Present(dir, q) =>
             q \in cache'.todo \/ <<q, dir[q]>> \in cache'.loaded
      BY <2>5, <3>4 DEF Reading
    <3>10. \A f \in cache'.loaded : \A i \in f[2].inc :
             i \in cache'.todo \/ <<i, dir[i]>> \in cache'.loaded
      BY <2>5, <3>1, <3>4, <3>5, SMT DEF Reading
    <3> QED
      BY <2>2, <3>6, <3>7, <3>8, <3>9, <3>10 DEF Reading, Present
  <2>6. cache'.pc \in {"read", "denied", "dead"} /\ cache'.outdated = cache.outdated
    BY <2>1, <2>2 DEF TypeOK, CacheState, LoadFails
  <2>7. cache'.pc = "denied" => watching
    BY <2>1, <2>2 DEF TypeOK, CacheState, LoadFails
  <2>8. CacheInv'
    BY <2>2, <2>5, <2>6, <2>7 DEF CacheInv, CacheFresh
  <2> QED
    BY <1>1, <2>2, <2>4, <2>8 DEF TypeOK, adminVars
<1>4. CASE load_done
  <2>1. /\ UNCHANGED <<adminVars, watching, dir, temp, events, missed>>
        /\ cache.pc = "read" /\ cache.todo = {}
        /\ cache' = [cache EXCEPT !.pc = IF watching THEN "idle" ELSE "watch", !.policy = cache.loaded,
                                  !.loaded = {}, !.outdated = FALSE]
    BY <1>4 DEF load_done, Cache, NoChange
  <2>2. cache' \in CacheState /\ cache'.pc = (IF watching THEN "idle" ELSE "watch")
        /\ cache'.policy = cache.loaded
    BY <2>1 DEF TypeOK, CacheState
  <2>3. Snapshot(dir)' = Snapshot(dir)
    BY <2>1 DEF Snapshot, Files, Read, Present
  <2>4. ~events /\ ~missed => cache'.policy = Snapshot(dir)
    BY <2>1, <2>2, LoadComplete DEF CacheInv
  <2>5. CacheInv'
    BY <2>1, <2>2, <2>3, <2>4, SMT DEF CacheInv, CacheFresh
  <2> QED
    BY <1>1, <2>1, <2>2, <2>5 DEF TypeOK, adminVars
<1>5. CASE initialize_watcher
  <2>1. /\ UNCHANGED <<adminVars, dir, temp, events, missed>>
        /\ cache.pc = "watch" /\ watching' = TRUE
        /\ cache' = [cache EXCEPT !.pc = "idle"]
    BY <1>5 DEF initialize_watcher, NoChange
  <2>2. cache' \in CacheState /\ cache'.pc = "idle" /\ cache'.policy = cache.policy
    BY <2>1 DEF TypeOK, CacheState
  <2>3. Snapshot(dir)' = Snapshot(dir)
    BY <2>1 DEF Snapshot, Files, Read, Present
  <2>4. CacheInv'
    BY <2>1, <2>2, <2>3 DEF CacheInv, CacheFresh
  <2> QED
    BY <1>1, <2>1, <2>2, <2>4 DEF TypeOK, adminVars
<1>6. CASE process_events
  <2>1. /\ UNCHANGED <<adminVars, watching, dir, temp, missed>>
        /\ cache.pc = "idle" /\ events' = FALSE
        /\ cache' = [cache EXCEPT !.outdated = TRUE]
    BY <1>6 DEF process_events
  <2>2. cache' \in CacheState /\ cache'.pc = "idle" /\ cache'.outdated
    BY <2>1 DEF TypeOK, CacheState
  <2>3. CacheInv'
    BY <2>1, <2>2 DEF CacheInv, CacheFresh
  <2> QED
    BY <1>1, <2>1, <2>2, <2>3 DEF TypeOK, adminVars
<1>7. CASE get_policy \/ denied
  <2>1. /\ UNCHANGED <<adminVars, watching, dir, temp, events, missed>>
        /\ cache' \in {cache, [cache EXCEPT !.pc = "load"], [cache EXCEPT !.pc = "idle"]}
        /\ cache' # cache => cache.pc \in {"idle", "denied"} /\ cache.outdated
    BY <1>7 DEF get_policy, denied, Cache, NoChange, CacheInv
  <2>2. CASE cache' = cache
    BY <1>1, <2>1, <2>2, CacheKept DEF TypeOK, adminVars, NoChange
  <2>3. CASE cache' # cache
    <3>1. cache' \in CacheState /\ cache'.pc \in {"load", "idle"} /\ cache'.outdated
      BY <2>1, <2>3 DEF TypeOK, CacheState
    <3>2. CacheInv'
      BY <2>1, <2>3, <3>1 DEF CacheInv, CacheFresh
    <3> QED
      BY <1>1, <2>1, <3>1, <3>2 DEF TypeOK, adminVars
  <2> QED
    BY <2>2, <2>3
<1> QED
  BY <1>2, <1>3, <1>4, <1>5, <1>6, <1>7 DEF Daemon

-----------------------------------------------------------------------------
(* The admin API *)

\* What a step leaves alone of another process's record keeps what it is about
\* to do valid, as long as the file it is about does not change.
LEMMA Types ==
  ASSUME TypeOK, NEW a \in Admin
  PROVE  /\ admin[a] \in AdminState
         /\ \A r \in AdminState : [admin EXCEPT ![a] = r] \in [Admin -> AdminState]
BY DEF TypeOK

\* A step that changes no file keeps what holds of every process, if it does
\* of the one that takes it.
LEMMA ProcessKept ==
  ASSUME IInv, NEW a \in Admin, NEW r \in AdminState, admin' = [admin EXCEPT ![a] = r],
         UNCHANGED <<dir, temp>>, used'.edits = used.edits,
         \A b \in Admin \ {a} : lock = b => lock' = b,
         r.pc \notin {"idle", "lock"} => lock' = a,
         r.pc # "idle" => r.path \in Path /\ Fits(r.path, r.data),
         r.pc = "rename" => temp[r.path] = r.data,
         r.op # "replace" => r.data = Absent,
         r.pc = "unlink" => r.op # "replace",
         r.pc \in Changing /\ used.edits = 0 => Parses([dir EXCEPT ![r.path] = r.data]),
         r.pc \in Changing \cup {"validate"} /\ ~r.any /\ used.edits = 0 => dir[r.path] = r.seen
  PROVE  AdminInv'
<1>1. \A b \in Admin : admin'[b] = IF b = a THEN r ELSE admin[b]
  BY DEF IInv, TypeOK
<1>2. \A d : Parses(d)' = Parses(d)
  BY DEF Parses, Files, Read, Present
<1>3. ASSUME NEW b \in Admin
      PROVE  /\ admin'[b].pc \notin {"idle", "lock"} => lock' = b
             /\ admin'[b].pc # "idle" => admin'[b].path \in Path /\ Fits(admin'[b].path, admin'[b].data)
             /\ admin'[b].pc = "rename" => temp'[admin'[b].path] = admin'[b].data
             /\ admin'[b].op # "replace" => admin'[b].data = Absent
             /\ admin'[b].pc = "unlink" => admin'[b].op # "replace"
             /\ admin'[b].pc \in Changing /\ used'.edits = 0 => Parses(After(b)')
             /\ used'.edits = 0 /\ admin'[b].pc \in {"validate", "write", "rename", "unlink"}
                   /\ ~admin'[b].any => dir'[admin'[b].path] = admin'[b].seen
  <2>1. CASE b = a
    BY <1>1, <2>1 DEF After, Changing
  <2>2. CASE b # a
    <3>1. admin'[b] = admin[b] /\ After(b)' = After(b)
      BY <1>1, <2>2 DEF After
    <3>2. lock = b => lock' = b
      BY <2>2
    <3> QED
      BY <3>1, <3>2 DEF IInv, AdminInv, TokenHolds
  <2> QED
    BY <2>1, <2>2
<1> QED
  BY <1>2, <1>3 DEF IInv, AdminInv, TokenHolds, StaysLoadable

\* The steps of an admin API call keep it.
LEMMA AdminStep ==
  ASSUME IInv, NEW a \in Admin, AdminProcess(a) \/ crash(a)
  PROVE  IInv'
<1> DEFINE r == admin[a]
<1> USE DEF IInv
<1>t. r \in AdminState /\ \A s \in AdminState : [admin EXCEPT ![a] = s] \in [Admin -> AdminState]
  BY Types
<1>a. /\ r.pc \notin {"idle", "lock"} => lock = a
      /\ r.pc # "idle" => r.path \in Path /\ Fits(r.path, r.data)
      /\ r.pc = "rename" => temp[r.path] = r.data
      /\ r.op # "replace" => r.data = Absent
      /\ r.pc = "unlink" => r.op # "replace"
      /\ r.pc \in Changing /\ used.edits = 0 => Parses([dir EXCEPT ![r.path] = r.data])
      /\ used.edits = 0 /\ r.pc \in Changing \cup {"validate"} /\ ~r.any => dir[r.path] = r.seen
  BY DEF AdminInv, TokenHolds, After, Changing
\* A step that changes no file.
<1>1. ASSUME NEW s \in AdminState, admin' = [admin EXCEPT ![a] = s],
             UNCHANGED <<cache, watching, used, dir, temp, events, missed>>,
             lock' \in {lock, None, a}, lock' # lock => lock \in {None, a},
             s.pc \notin {"idle", "lock"} => lock' = a,
             s.pc # "idle" => s.path = r.path /\ r.pc # "idle",
             s.op = r.op, s.data = r.data,
             s.pc # "rename", s.pc = "unlink" => s.op # "replace",
             s.pc \in Changing /\ used.edits = 0 => Parses([dir EXCEPT ![s.path] = s.data]),
             s.pc \in Changing \cup {"validate"} /\ ~s.any /\ used.edits = 0 => dir[s.path] = s.seen
      PROVE  IInv'
  <2>1. TypeOK'
    BY <1>t, <1>1 DEF TypeOK
  <2>2. CacheInv'
    BY <1>1, CacheKept DEF NoChange
  <2>3. \A b \in Admin \ {a} : lock = b => lock' = b
    BY <1>1, StoreAssumption
  <2>4. AdminInv'
    BY <1>a, <1>1, <2>3, ProcessKept
  <2> QED
    BY <2>1, <2>2, <2>4
<1>2. CASE lock_directory(a)
  <2> DEFINE s == [r EXCEPT !.pc = IF r.op = "get" THEN "get" ELSE "check"]
  <2>1. s \in AdminState /\ s.pc \in {"get", "check"} /\ s.path = r.path /\ s.op = r.op /\ s.data = r.data
    BY <1>t DEF AdminState
  <2>2. /\ r.pc = "lock" /\ lock = None /\ lock' = a /\ admin' = [admin EXCEPT ![a] = s]
        /\ UNCHANGED <<cache, watching, used, dir, temp, events, missed>>
    BY <1>2 DEF lock_directory, Goes, NoChange
  <2> HIDE DEF s
  <2> QED
    BY <1>1, <2>1, <2>2 DEF Changing
<1>3. CASE common_get(a)
  <2> DEFINE s == [r EXCEPT !.pc = "idle", !.seen = dir[r.path], !.known = TRUE]
  <2>1. /\ r.pc = "get" /\ lock' = None /\ admin' = [admin EXCEPT ![a] = s]
        /\ UNCHANGED <<cache, watching, used, dir, temp, events, missed>>
    BY <1>3 DEF common_get, Goes, NoChange
  <2>2. dir[r.path] \in Content
    BY <1>a, <2>1 DEF TypeOK
  <2>3. s \in AdminState /\ s.pc = "idle" /\ s.path = r.path /\ s.op = r.op /\ s.data = r.data
    BY <1>t, <2>2 DEF AdminState
  <2>4. lock = a
    BY <1>a, <2>1
  <2> HIDE DEF s
  <2> QED
    BY <1>1, <2>1, <2>3, <2>4 DEF Changing
\* The request is over, whatever came of it.
<1>4. CASE Ends(a) /\ NoChange /\ r.pc \notin {"idle", "lock"}
  <2> DEFINE s == [r EXCEPT !.pc = "idle"]
  <2>1. /\ lock' = None /\ admin' = [admin EXCEPT ![a] = s]
        /\ UNCHANGED <<cache, watching, used, dir, temp, events, missed>>
    BY <1>4 DEF Ends, Goes, NoChange
  <2>2. s \in AdminState /\ s.pc = "idle" /\ s.path = r.path /\ s.op = r.op /\ s.data = r.data
    BY <1>t DEF AdminState
  <2>3. lock = a
    BY <1>a, <1>4
  <2> HIDE DEF s
  <2> QED
    BY <1>1, <2>1, <2>2, <2>3 DEF Changing
<1>5. CASE check_token(a)
  <2>1. r.pc = "check" /\ NoChange
    BY <1>5 DEF check_token
  <2>2. CASE (r.any \/ dir[r.path] = r.seen) /\ (r.op = "remove" => Present(dir, r.path))
    <3> DEFINE s == [r EXCEPT !.pc = "validate"]
    <3>1. /\ admin' = [admin EXCEPT ![a] = s] /\ lock' = lock
          /\ UNCHANGED <<cache, watching, used, dir, temp, events, missed>>
      BY <1>5, <2>2 DEF check_token, Goes, NoChange
    <3>2. /\ s \in AdminState /\ s.pc = "validate" /\ s.path = r.path /\ s.op = r.op
          /\ s.data = r.data /\ s.any = r.any /\ s.seen = r.seen
      BY <1>t DEF AdminState
    <3>3. lock = a
      BY <1>a, <2>1
    <3> HIDE DEF s
    <3> QED
      BY <1>1, <2>1, <2>2, <3>1, <3>2, <3>3 DEF Changing
  <2> QED
    BY <1>4, <1>5, <2>1, <2>2 DEF check_token
<1>6. CASE validate(a)
  <2>1. r.pc = "validate" /\ NoChange
    BY <1>6 DEF validate
  <2>2. CASE ValidChange(r.path, r.data)
    <3> DEFINE s == [r EXCEPT !.pc = IF r.op = "replace" THEN "write" ELSE "unlink"]
    <3>1. /\ admin' = [admin EXCEPT ![a] = s] /\ lock' = lock
          /\ UNCHANGED <<cache, watching, used, dir, temp, events, missed>>
      BY <1>6, <2>2 DEF validate, Goes, NoChange
    <3>2. /\ s \in AdminState /\ s.pc \in {"write", "unlink"} /\ s.path = r.path /\ s.op = r.op
          /\ s.data = r.data /\ s.any = r.any /\ s.seen = r.seen
          /\ s.pc = "unlink" => s.op # "replace"
      BY <1>t DEF AdminState
    <3>3. lock = a
      BY <1>a, <2>1
    <3>4. Parses([dir EXCEPT ![s.path] = s.data])
      BY <2>2, <3>2 DEF ValidChange
    <3>5. ~s.any /\ used.edits = 0 => dir[s.path] = s.seen
      BY <1>a, <2>1, <3>2 DEF Changing
    <3> HIDE DEF s
    <3> QED
      BY <1>1, <2>1, <3>1, <3>2, <3>3, <3>4, <3>5
  <2> QED
    BY <1>4, <1>6, <2>1, <2>2 DEF validate
<1>7. CASE crash(a)
  BY <1>4, <1>7 DEF crash
\* A step that changes a file, with the lock held.
<1>8. ASSUME r.pc \in Changing, NEW s \in AdminState, admin' = [admin EXCEPT ![a] = s],
             UNCHANGED <<cache, watching, used>>, lock' \in {a, None}, Change(dir', temp'),
             dir' \in [Path -> Content], temp' \in [Path -> Content],
             \A p \in Path : Fits(p, dir'[p]) /\ Fits(p, temp'[p]),
             s.path = r.path /\ s.op = r.op /\ s.data = r.data,
             \/ s.pc = "idle"
             \/ /\ s.pc = "rename" /\ r.pc = "write" /\ lock' = a /\ dir' = dir
                /\ temp'[r.path] = r.data /\ s.any = r.any /\ s.seen = r.seen,
             used.edits = 0 => Parses(dir')
      PROVE  IInv'
  <2>1. TypeOK'
    BY <1>t, <1>8 DEF TypeOK, Change
  <2>2. CacheInv'
    BY <1>8, CacheKept
  <2>3. lock = a
    BY <1>a, <1>8 DEF Changing
  <2>4. \A b \in Admin \ {a} : admin'[b] = admin[b] /\ admin[b].pc \in {"idle", "lock"}
    BY <1>8, <2>3 DEF AdminInv, TypeOK
  <2>5. admin'[a] = s
    BY <1>8 DEF TypeOK
  <2>6. \A d : Parses(d)' = Parses(d')
    BY DEF Parses, Files, Read, Present
  <2>7. StaysLoadable'
    BY <1>8 DEF StaysLoadable, Parses, Files, Read, Present
  <2>8. ASSUME NEW b \in Admin
        PROVE  /\ admin'[b].pc \notin {"idle", "lock"} => lock' = b
               /\ admin'[b].pc # "idle" => admin'[b].path \in Path /\ Fits(admin'[b].path, admin'[b].data)
               /\ admin'[b].pc = "rename" => temp'[admin'[b].path] = admin'[b].data
               /\ admin'[b].op # "replace" => admin'[b].data = Absent
               /\ admin'[b].pc = "unlink" => admin'[b].op # "replace"
               /\ admin'[b].pc \in Changing /\ used'.edits = 0 => Parses(After(b))'
               /\ used'.edits = 0 /\ admin'[b].pc \in {"validate", "write", "rename", "unlink"}
                     /\ ~admin'[b].any => dir'[admin'[b].path] = admin'[b].seen
    <3>1. CASE b # a
      BY <2>4, <3>1 DEF AdminInv, Changing
    <3>2. CASE b = a
      <4>1. CASE s.pc = "idle"
        BY <1>a, <1>8, <2>5, <3>2, <4>1 DEF Changing
      <4>2. CASE s.pc = "rename"
        <5>1. /\ lock' = a /\ dir' = dir /\ temp'[r.path] = r.data /\ s.any = r.any
              /\ s.seen = r.seen /\ r.pc = "write"
          BY <1>8, <4>2
        <5>2. After(a)' = After(a)
          BY <1>8, <2>5, <5>1 DEF After
        <5>3. used.edits = 0 => Parses(After(a))
          BY <1>a, <5>1 DEF After, Changing
        <5>4. used.edits = 0 => Parses(After(a))'
          BY <1>8, <5>2, <5>3 DEF Parses, Files, Read, Present
        <5> QED
          BY <1>a, <1>8, <2>5, <3>2, <4>2, <5>1, <5>4 DEF Changing
      <4> QED
        BY <1>8, <4>1, <4>2
    <3> QED
      BY <3>1, <3>2
  <2>9. AdminInv'
    BY <1>8, <2>7, <2>8 DEF AdminInv, TokenHolds
  <2> QED
    BY <2>1, <2>2, <2>9
<1>9. CASE write_temp(a)
  <2> DEFINE s == [r EXCEPT !.pc = "rename"]
  <2>1. /\ r.pc = "write" /\ admin' = [admin EXCEPT ![a] = s] /\ UNCHANGED <<cache, watching, used, lock>>
        /\ dir' = dir /\ temp' = [temp EXCEPT ![r.path] = r.data] /\ Change(dir', temp')
    BY <1>9 DEF write_temp, Goes, Change
  <2>2. /\ s \in AdminState /\ s.pc = "rename" /\ s.path = r.path /\ s.op = r.op /\ s.data = r.data
        /\ s.any = r.any /\ s.seen = r.seen
    BY <1>t DEF AdminState
  <2>3. r.path \in Path /\ r.data \in Content /\ Fits(r.path, r.data) /\ lock = a
    BY <1>t, <1>a, <2>1 DEF AdminState
  <2>4. dir' \in [Path -> Content] /\ temp' \in [Path -> Content] /\ temp'[r.path] = r.data
    BY <2>1, <2>3 DEF TypeOK
  <2>5. \A p \in Path : Fits(p, dir'[p]) /\ Fits(p, temp'[p])
    BY <2>1, <2>3 DEF AdminInv, TypeOK
  <2>6. used.edits = 0 => Parses(dir')
    BY <2>1 DEF AdminInv, StaysLoadable
  <2> HIDE DEF s
  <2> QED
    BY <1>8, <2>1, <2>2, <2>3, <2>4, <2>5, <2>6 DEF Changing
<1>10. CASE rename(a) \/ unlink(a)
  <2> DEFINE s == [r EXCEPT !.pc = "idle"]
  <2>1. /\ r.pc \in {"rename", "unlink"} /\ admin' = [admin EXCEPT ![a] = s] /\ lock' = None
        /\ UNCHANGED <<cache, watching, used>> /\ Change(dir', temp')
    BY <1>10 DEF rename, unlink, Ends, Goes, Change
  <2>2. s \in AdminState /\ s.pc = "idle" /\ s.path = r.path /\ s.op = r.op /\ s.data = r.data
    BY <1>t DEF AdminState
  <2>3. r.path \in Path /\ r.data \in Content /\ Fits(r.path, r.data)
    BY <1>t, <1>a, <2>1 DEF AdminState
  <2>4. dir' = [dir EXCEPT ![r.path] = r.data] /\ temp' \in {temp, [temp EXCEPT ![r.path] = Absent]}
    BY <1>a, <1>10 DEF rename, unlink, Change
  <2>5. dir' \in [Path -> Content] /\ temp' \in [Path -> Content]
    BY <2>3, <2>4 DEF TypeOK, Content
  <2>6. \A p \in Path : Fits(p, dir'[p]) /\ Fits(p, temp'[p])
    BY <2>3, <2>4, SMT DEF AdminInv, TypeOK, Fits, Absent
  <2>7. used.edits = 0 => Parses(dir')
    BY <1>a, <2>1, <2>4 DEF Changing
  <2> HIDE DEF s
  <2> QED
    BY <1>8, <2>1, <2>2, <2>5, <2>6, <2>7 DEF Changing
<1> QED
  BY <1>2, <1>3, <1>5, <1>6, <1>7, <1>9, <1>10 DEF AdminProcess

\* So does a new call ...
LEMMA RequestStep ==
  ASSUME IInv, NEW a \in Admin, NEW op \in {"get", "replace", "remove"}, NEW p \in Path,
         NEW any \in BOOLEAN, NEW c \in Contents, request(a, op, p, any, c)
  PROVE  IInv'
<1> DEFINE r == admin[a]
           s == [r EXCEPT !.pc = "lock", !.op = op, !.path = p, !.any = any,
                          !.data = IF op = "replace" THEN c ELSE Absent,
                          !.known = (op # "get" /\ @)]
<1>1. /\ admin' = [admin EXCEPT ![a] = s] /\ r.pc = "idle" /\ Fits(p, c)
      /\ used' = [used EXCEPT !.requests = @ + 1]
      /\ UNCHANGED <<cache, watching, lock, dir, temp, events, missed>>
  BY DEF request, NoChange
<1>2. r \in AdminState /\ \A q \in AdminState : [admin EXCEPT ![a] = q] \in [Admin -> AdminState]
  BY Types DEF IInv
<1>3. /\ s \in AdminState /\ s.pc = "lock" /\ s.op = op /\ s.path = p
      /\ s.data = IF op = "replace" THEN c ELSE Absent
  <2> DEFINE d == IF op = "replace" THEN c ELSE Absent
             k == op # "get" /\ r.known
  <2>1. d \in Content /\ k \in BOOLEAN
    BY DEF Content
  <2>2. s = [r EXCEPT !.pc = "lock", !.op = op, !.path = p, !.any = any, !.data = d, !.known = k]
    BY <1>2 DEF AdminState
  <2> HIDE DEF d, k
  <2>3. /\ s \in AdminState /\ s.pc = "lock" /\ s.op = op /\ s.path = p /\ s.data = d
    BY <1>2, <2>1, <2>2, ZenonT(30) DEF AdminState
  <2> QED
    BY <2>3 DEF d
<1>4. used' \in [requests : Nat, edits : Nat, work : Workloads] /\ used'.edits = used.edits
  BY <1>1, SMT DEF IInv, TypeOK
<1> HIDE DEF s
<1>5. TypeOK'
  BY <1>1, <1>2, <1>3, <1>4 DEF IInv, TypeOK
<1>6. CacheInv'
  BY <1>1, CacheKept DEF IInv, NoChange
<1>7. Fits(s.path, s.data)
  BY <1>1, <1>3, SMT DEF Fits, Absent
<1>8. AdminInv'
  BY <1>1, <1>3, <1>4, <1>7, ProcessKept DEF Changing
<1> QED
  BY <1>5, <1>6, <1>8 DEF IInv

\* ... and a change made to the directory by hand.
LEMMA EditStep ==
  ASSUME IInv, NEW p \in Path, NEW c \in Contents \cup {Empty}, edit(p, c)
  PROVE  IInv'
<1>1. /\ Change([dir EXCEPT ![p] = c], temp) /\ Fits(p, c)
      /\ used' = [used EXCEPT !.edits = @ + 1]
      /\ UNCHANGED <<lock, admin, cache, watching>>
  BY DEF edit
<1>2. dir' = [dir EXCEPT ![p] = c] /\ temp' = temp
  BY <1>1 DEF Change
<1>3. used' \in [requests : Nat, edits : Nat, work : Workloads] /\ used'.edits # 0
  BY <1>1, SMT DEF IInv, TypeOK
<1>4. TypeOK'
  BY <1>1, <1>2, <1>3 DEF IInv, TypeOK, Content, Change
<1>5. CacheInv'
  BY <1>1, CacheKept DEF IInv
<1>6. \A q \in Path : Fits(q, dir'[q]) /\ Fits(q, temp'[q])
  BY <1>1, <1>2 DEF IInv, AdminInv, TypeOK
<1>7. AdminInv'
  BY <1>1, <1>2, <1>3, <1>6 DEF IInv, AdminInv, TokenHolds, StaysLoadable
<1> QED
  BY <1>4, <1>5, <1>7 DEF IInv

\* Every step keeps the invariant.
LEMMA NextInv == IInv /\ [Next]_vars => IInv'
<1> SUFFICES ASSUME IInv, [Next]_vars PROVE IInv'
  OBVIOUS
<1>1. CASE UNCHANGED vars
  <2>1. UNCHANGED <<dir, temp, adminVars, cache, watching, events, missed>>
    BY <1>1 DEF vars, adminVars
  <2>2. TypeOK'
    BY <2>1 DEF IInv, TypeOK, adminVars
  <2>3. AdminInv' /\ CacheInv'
    BY <2>1, AdminKept, CacheKept DEF IInv, NoChange
  <2> QED
    BY <2>2, <2>3 DEF IInv
<1> QED
  BY <1>1, DaemonStep, AdminStep, RequestStep, EditStep DEF Next

-----------------------------------------------------------------------------
(* Theorems *)

\* For any files, contents and requests: a file is what the client saw when it
\* asked for the token, up to the moment it is replaced or removed.
THEOREM TokenCorrect == Spec => []TokenHolds
<1>1. IInv => TokenHolds
  BY DEF IInv, AdminInv
<1> QED
  BY <1>1, InitInv, NextInv, PTL DEF Spec

\* No sequence of requests, and no crash between two of their steps, leaves a
\* directory that does not load.
THEOREM DirectoryCorrect == Spec => []StaysLoadable
<1>1. IInv => StaysLoadable
  BY DEF IInv, AdminInv
<1> QED
  BY <1>1, InitInv, NextInv, PTL DEF Spec

\* A cached policy that is not marked outdated, with no event waiting, is what
\* is in the directory, whatever changed while it was read.
THEOREM CacheCorrect == Spec => []CacheFresh
<1>1. IInv => CacheFresh
  BY DEF IInv, CacheInv
<1> QED
  BY <1>1, InitInv, NextInv, PTL DEF Spec

=============================================================================
