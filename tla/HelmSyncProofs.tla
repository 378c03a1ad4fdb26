---------------------------- MODULE HelmSyncProofs ----------------------------
(***************************************************************************)
(* Theorems of HelmSync, for every number of Applications, objects,        *)
(* branches, clusters, handlers and events.  They are about the calls that *)
(* had the manager to themselves; the invariant says of any such call what *)
(* it has found and done so far, and that nobody undid it.                 *)
(***************************************************************************)
EXTENDS HelmSync, TLAPS

(***************************************************************************)
(* Types.                                                                  *)
(***************************************************************************)
ProcPc == {"idle", "fetch", "target", "list", "render", "retarget", "record", "prune",
           "object", "install", "wait", "uninstall", "leftover", "clear", "hook",
           "remove"}

ClearPcs == {"uninstall", "leftover", "clear", "hook", "remove"}

ProcType ==
    [pc : ProcPc, op : {"sync", "clear"}, app : Apps \cup {None}, forced : BOOLEAN,
     final : BOOLEAN, manifest : SUBSET Objs, todo : SUBSET Objs, old : SUBSET Objs,
     where : Clusters \cup {None}, alone : BOOLEAN]

CloneType == [branch : Branches, chart : SUBSET Objs]

ReleaseType == [status : {"absent", "pending", "deployed"}, chart : SUBSET Objs]

\* What users, servers and the file system of the process hold.
ServersOK ==
    /\ head \in [Apps -> [Branches -> SUBSET Objs]]
    /\ target \in [Apps -> Branches]
    /\ clones \in [Apps -> CloneType \cup {None}]
    /\ release \in [Clusters -> [Apps -> ReleaseType]]
    /\ live \in [Clusters -> SUBSET Objs]
    /\ records \subseteq Apps \X Objs
    /\ app \in [Apps -> {"live", "deleting", "gone"}]

\* A goroutine in the manager has its Application, and from setTargetClient on the
\* manager has a client.
CallOK(r, client) ==
    /\ r.pc # "idle" => r.app \in Apps
    /\ r.pc \notin {"idle", "fetch", "target"} => client \in Clusters
    /\ r.pc = "wait" => r.where \in Clusters

CallsOK ==
    /\ helmClient \in Clusters \cup {None}
    /\ proc \in [Procs -> ProcType]
    /\ \A p \in Procs : CallOK(proc[p], helmClient)

TypeInv == ServersOK /\ CallsOK

LEMMA IdleProcType ==
    /\ IdleProc \in ProcType /\ IdleProc.pc = "idle"
    /\ \A client : CallOK(IdleProc, client)
BY DEF IdleProc, ProcType, ProcPc, CallOK

(***************************************************************************)
(* What a step does to the goroutines.                                     *)
(***************************************************************************)
Others(p) == \A q \in Procs \ {p} : proc'[q] = proc[q]

\* The call of p ends, or the process with all calls.
Ends(p) == proc'[p] = IdleProc /\ Others(p)
Dies == \A q \in Procs : proc'[q] = IdleProc

\* The call goes on, as r.
GoesOn(p, r) == proc' = [proc EXCEPT ![p] = r]

\* What a call has from its beginning.
SameCall(r, s) ==
    /\ r.app = s.app /\ r.forced = s.forced /\ r.final = s.final /\ r.alone = s.alone

LEMMA EndsOK ==
    ASSUME CallsOK, NEW p \in Procs, Return(p), UNCHANGED helmClient
    PROVE  CallsOK' /\ Ends(p)
BY IdleProcType DEF CallsOK, Return, Ends, Others

LEMMA DiesOK ==
    ASSUME Die
    PROVE  CallsOK' /\ Dies /\ helmClient' = None /\ \A a \in Apps : clones'[a] = None
BY IdleProcType DEF CallsOK, Die, Dies

LEMMA PanicOK ==
    ASSUME CallsOK, NEW p \in Procs, Panic(p)
    PROVE  /\ CallsOK'
           /\ \/ Ends(p) /\ UNCHANGED <<clones, helmClient>>
              \/ Dies /\ \A a \in Apps : clones'[a] = None
<1>1. CASE p \in Handlers
  BY <1>1, EndsOK DEF Panic
<1>2. CASE p \notin Handlers
  BY <1>2, DiesOK DEF Panic
<1> QED  BY <1>1, <1>2

LEMMA GoesOnOK ==
    ASSUME CallsOK, NEW p \in Procs, NEW r \in ProcType, GoesOn(p, r),
           helmClient' \in Clusters \/ UNCHANGED helmClient, CallOK(r, helmClient')
    PROVE  CallsOK' /\ proc'[p] = r /\ Others(p)
<1>1. proc'[p] = r /\ Others(p) /\ proc' \in [Procs -> ProcType]
  BY DEF CallsOK, GoesOn, Others
<1>2. \A q \in Procs \ {p} : CallOK(proc'[q], helmClient')
  BY <1>1 DEF CallsOK, CallOK, Others
<1> QED  BY <1>1, <1>2 DEF CallsOK

\* Goto, to a place where no more is known than before.
Moves(p, pc) == proc'[p] = [proc[p] EXCEPT !.pc = pc] /\ Others(p)

LEMMA GotoOK ==
    ASSUME CallsOK, NEW p \in Procs, NEW pc \in ProcPc, Goto(p, pc),
           ~At(p, "idle"), pc # "wait",
           helmClient' \in Clusters \/ UNCHANGED helmClient,
           pc \notin {"idle", "fetch", "target"} => helmClient' \in Clusters
    PROVE  CallsOK' /\ Moves(p, pc)
<1> DEFINE r == [proc[p] EXCEPT !.pc = pc]
<1>1. proc[p] \in ProcType /\ CallOK(proc[p], helmClient)
  BY DEF CallsOK
<1>2. r \in ProcType /\ r.pc = pc /\ r.app = proc[p].app
  BY <1>1 DEF ProcType
<1>3. CallOK(r, helmClient')
  BY <1>1, <1>2 DEF CallOK, At
<1>4. GoesOn(p, r)
  BY DEF Goto, GoesOn
<1> HIDE DEF r
<1>5. CallsOK' /\ proc'[p] = r /\ Others(p)
  BY <1>2, <1>3, <1>4, GoesOnOK
<1> QED  BY <1>5 DEF Moves, r

\* Steps that leave the goroutines alone.
LEMMA CallsStay == CallsOK /\ UNCHANGED <<proc, helmClient>> => CallsOK'
BY DEF CallsOK

(***************************************************************************)
(* Type correctness, and what each step does.                              *)
(***************************************************************************)
\* Everything but the goroutines' program counters stays.
NoServers == UNCHANGED <<userVars, clusterVars, clones, app>>

LEMMA ServersStay == ServersOK /\ NoServers => ServersOK'
BY DEF ServersOK, NoServers, userVars, clusterVars

LEMMA UserType ==
    ASSUME TypeInv, NEW a \in Apps,
           \/ \E b \in Branches, chart \in SUBSET ObjsOf[a] : GitPush(a, b, chart)
           \/ \E b \in Branches : EditTarget(a, b)
           \/ DeleteApp(a)
    PROVE  TypeInv'
<1>1. CallsOK'
  BY CallsStay DEF TypeInv, GitPush, EditTarget, DeleteApp
<1>2. ASSUME NEW b \in Branches, NEW chart \in SUBSET ObjsOf[a], GitPush(a, b, chart)
      PROVE  ServersOK'
  BY <1>2, DistinctObjects DEF TypeInv, ServersOK, GitPush, clusterVars
<1>3. ASSUME NEW b \in Branches, EditTarget(a, b)
      PROVE  ServersOK'
  BY <1>3 DEF TypeInv, ServersOK, EditTarget, clusterVars
<1>4. ASSUME DeleteApp(a)
      PROVE  ServersOK'
  BY <1>4 DEF TypeInv, ServersOK, DeleteApp, clusterVars, userVars
<1> QED  BY <1>1, <1>2, <1>3, <1>4 DEF TypeInv

\* When the process dies the clones are gone.
LEMMA ClonesGo ==
    ASSUME ServersOK, Die, UNCHANGED <<userVars, clusterVars, app>>
    PROVE  ServersOK'
BY DEF ServersOK, Die, userVars, clusterVars

LEMMA PanicServers ==
    ASSUME ServersOK, NEW p \in Procs, Panic(p),
           UNCHANGED <<userVars, clusterVars, app>>
    PROVE  ServersOK'
<1>1. CASE p \in Handlers
  BY <1>1, ServersStay DEF Panic, NoServers
<1>2. CASE p \notin Handlers
  BY <1>2, ClonesGo DEF Panic
<1> QED  BY <1>1, <1>2

LEMMA CrashDoes ==
    ASSUME TypeInv, Crash
    PROVE  TypeInv' /\ Dies /\ \A a \in Apps : clones'[a] = None
BY DiesOK, ClonesGo DEF TypeInv, Crash

LEMMA CallFailsDoes ==
    ASSUME TypeInv, NEW p \in Procs, CallFails(p)
    PROVE  /\ TypeInv' /\ ~At(p, "idle")
           /\ \/ Ends(p) /\ UNCHANGED clones
              \/ Dies /\ \A a \in Apps : clones'[a] = None
<1>1. CASE Return(p) /\ UNCHANGED <<clones, helmClient>>
  <2>1. CallsOK' /\ Ends(p)
    BY <1>1, EndsOK DEF TypeInv
  <2>2. ServersOK'
    BY <1>1, ServersStay DEF TypeInv, CallFails, NoServers
  <2> QED  BY <1>1, <2>1, <2>2 DEF TypeInv, CallFails, At
<1>2. CASE proc[p].pc \in {"render", "install", "uninstall"} /\ Panic(p)
  BY <1>2, PanicOK, PanicServers DEF TypeInv, CallFails, At
<1> QED  BY <1>1, <1>2 DEF CallFails

\* A call comes in: those under way are not alone any more.
LEMMA CheckSyncDoes ==
    ASSUME TypeInv, NEW p \in Procs, NEW a \in Apps, CheckSync(p, a)
    PROVE  /\ TypeInv' /\ At(p, "idle")
           /\ proc'[p].pc = "fetch" /\ proc'[p].op = "sync"
           /\ proc'[p].final => p = Worker
           /\ proc'[p].alone => \A q \in Procs : At(q, "idle")
           /\ \A q \in Procs \ {p} :
                \/ At(q, "idle") /\ proc'[q] = IdleProc
                \/ ~At(q, "idle") /\ proc'[q] = [proc[q] EXCEPT !.alone = FALSE]
<1> DEFINE forced == p \in Handlers
           final  == p = Worker /\ app[a] = "deleting"
           alone  == \A x \in Procs : At(x, "idle")
           r == [IdleProc EXCEPT !.pc = "fetch", !.app = a, !.forced = forced,
                                 !.final = final, !.alone = alone]
<1>1. /\ r \in ProcType /\ r.pc = "fetch" /\ r.op = "sync" /\ r.app = a
      /\ r.final => p = Worker
      /\ r.alone => \A q \in Procs : At(q, "idle")
  <2>1. forced \in BOOLEAN /\ final \in BOOLEAN /\ alone \in BOOLEAN
    OBVIOUS
  <2>2. (final => p = Worker) /\ (alone => \A q \in Procs : At(q, "idle"))
    OBVIOUS
  <2> HIDE DEF forced, final, alone
  <2>3. /\ r \in ProcType /\ r.pc = "fetch" /\ r.op = "sync" /\ r.app = a
        /\ r.final = final /\ r.alone = alone
    BY <2>1 DEF IdleProc, ProcType, ProcPc
  <2> QED  BY <2>2, <2>3
<1>2. /\ proc'[p] = r /\ DOMAIN proc' = Procs
      /\ \A q \in Procs \ {p} :
           \/ At(q, "idle") /\ proc'[q] = IdleProc
           \/ ~At(q, "idle") /\ proc'[q] = [proc[q] EXCEPT !.alone = FALSE]
      /\ proc' = [q \in Procs |-> proc'[q]]
  <2> DEFINE f(q) == CASE q = p -> r
                       [] q # p /\ ~At(q, "idle") -> [proc[q] EXCEPT !.alone = FALSE]
                       [] OTHER -> IdleProc
  <2>1. proc' = [q \in Procs |-> f(q)]
    BY Zenon DEF CheckSync
  <2>2. f(p) = r
    BY Zenon
  <2>3. ASSUME NEW q \in Procs \ {p}
        PROVE  \/ At(q, "idle") /\ f(q) = IdleProc
               \/ ~At(q, "idle") /\ f(q) = [proc[q] EXCEPT !.alone = FALSE]
    BY <2>3, Zenon
  <2> HIDE DEF f
  <2> QED  BY <2>1, <2>2, <2>3
<1>3. ServersOK' /\ UNCHANGED helmClient
  BY ServersStay DEF CheckSync, NoServers, TypeInv
<1> HIDE DEF r
<1>4. CallOK(r, helmClient)
  BY <1>1 DEF CallOK
<1>5. ASSUME NEW q \in Procs
      PROVE  proc'[q] \in ProcType /\ CallOK(proc'[q], helmClient)
  <2>1. CASE q = p
    BY <1>1, <1>2, <1>4, <2>1
  <2>2. CASE proc'[q] = IdleProc
    BY <2>2, IdleProcType
  <2>3. CASE proc'[q] = [proc[q] EXCEPT !.alone = FALSE]
    BY <2>3 DEF TypeInv, CallsOK, ProcType, CallOK
  <2> QED  BY <1>2, <2>1, <2>2, <2>3
<1>6. proc' \in [Procs -> ProcType]
  BY <1>2, <1>5
<1> QED  BY <1>1, <1>2, <1>3, <1>5, <1>6 DEF TypeInv, CallsOK, CheckSync

FetchEffect(p) ==
    /\ At(p, "fetch") /\ UNCHANGED <<helmClient, release, live, records>>
    /\ \/ Ends(p) /\ UNCHANGED clones
       \/ /\ Moves(p, "target") /\ clones'[proc[p].app] # None
          /\ \E b \in Branches : clones'[proc[p].app].chart = head[proc[p].app][b]
          /\ \A a \in Apps \ {proc[p].app} : clones'[a] = clones[a]

LEMMA FetchDoes ==
    ASSUME TypeInv, NEW p \in Procs, Fetch(p)
    PROVE  TypeInv' /\ FetchEffect(p)
<1> DEFINE a == proc[p].app
<1>1. At(p, "fetch") /\ a \in Apps
  BY DEF Fetch, TypeInv, CallsOK, CallOK, At
<1>2. ASSUME NEW b \in Branches,
             clones' = [clones EXCEPT ![a] = [branch |-> b, chart |-> head[a][b]]],
             Goto(p, "target")
      PROVE  TypeInv' /\ FetchEffect(p)
  <2> DEFINE c == [branch |-> b, chart |-> head[a][b]]
  <2>1. c \in CloneType /\ c.chart = head[a][b]
    BY <1>1, <1>2 DEF TypeInv, ServersOK, CloneType
  <2>2. c # None
    BY <2>1, NoneAssumption DEF CloneType
  <2> HIDE DEF c
  <2>3. /\ clones' = [clones EXCEPT ![a] = c] /\ clones \in [Apps -> CloneType \cup {None}]
        /\ clones' \in [Apps -> CloneType \cup {None}]
    BY <1>2, <2>1 DEF TypeInv, ServersOK, c
  <2>4. ServersOK'
    BY <2>3 DEF Fetch, userVars, clusterVars, TypeInv, ServersOK
  <2>5. CallsOK' /\ Moves(p, "target")
    BY <1>1, <1>2, GotoOK DEF TypeInv, Fetch, ProcPc, At
  <2>6. clones'[a] = c /\ \A x \in Apps \ {a} : clones'[x] = clones[x]
    BY <1>1, <2>3
  <2> QED  BY <1>1, <2>1, <2>2, <2>4, <2>5, <2>6
           DEF TypeInv, FetchEffect, Fetch, userVars, clusterVars
<1>3. CASE Clone(p) /\ Goto(p, "target")
  <2>1. target[a] \in Branches
    BY <1>1 DEF TypeInv, ServersOK
  <2> QED  BY <1>2, <1>3, <2>1 DEF Clone
<1>4. CASE Pull(p) /\ Goto(p, "target")
  BY <1>2, <1>4, DefaultAssumption DEF Pull
<1>5. CASE PullRefused(p) /\ Return(p)
  <2>1. UNCHANGED clones /\ NoServers
    BY <1>5 DEF PullRefused, Fetch, NoServers
  <2>2. ServersOK' /\ CallsOK' /\ Ends(p)
    BY <1>5, <2>1, ServersStay, EndsOK DEF TypeInv, Fetch
  <2> QED  BY <1>1, <2>1, <2>2 DEF TypeInv, FetchEffect, Fetch, clusterVars
<1> QED  BY <1>3, <1>4, <1>5 DEF Fetch

SetTargetClientEffect(p) ==
    /\ UNCHANGED <<clones, release, live, records>>
    /\ helmClient' = DestOf[proc[p].app]
    /\ \/ At(p, "target") /\ proc[p].op = "sync" /\ Moves(p, "list")
       \/ At(p, "target") /\ proc[p].op # "sync" /\ Moves(p, "uninstall")
       \/ At(p, "retarget") /\ Moves(p, "record")

LEMMA SetTargetClientDoes ==
    ASSUME TypeInv, NEW p \in Procs, SetTargetClient(p)
    PROVE  TypeInv' /\ SetTargetClientEffect(p)
<1>1. ~At(p, "idle") /\ helmClient' \in Clusters
  BY HomeAssumption DEF SetTargetClient, TypeInv, CallsOK, CallOK, At
<1>2. ServersOK'
  BY ServersStay DEF SetTargetClient, NoServers, TypeInv
<1>3. ASSUME NEW pc \in {"list", "uninstall", "record"}, Goto(p, pc)
      PROVE  CallsOK' /\ Moves(p, pc)
  BY <1>1, <1>3, GotoOK DEF TypeInv, ProcPc
<1> QED  BY <1>2, <1>3 DEF SetTargetClient, SetTargetClientEffect, TypeInv, clusterVars

\* The call goes on at pc with manifest m, objects t to record and records o to check.
Continues(p, pc, m, t, o) ==
    /\ proc'[p].pc = pc /\ proc'[p].manifest = m /\ proc'[p].todo = t /\ proc'[p].old = o
    /\ SameCall(proc'[p], proc[p]) /\ proc'[p].op = proc[p].op
    /\ Others(p)

LEMMA ContinuesOK ==
    ASSUME CallsOK, NEW p \in Procs, proc[p].pc \notin {"idle", "fetch", "target"},
           UNCHANGED helmClient,
           NEW r \in ProcType, GoesOn(p, r), r.pc # "wait",
           SameCall(r, proc[p]), r.op = proc[p].op
    PROVE  CallsOK' /\ Continues(p, r.pc, r.manifest, r.todo, r.old)
<1>1. CallOK(proc[p], helmClient)
  BY DEF CallsOK
<1>2. CallOK(r, helmClient')
  BY <1>1 DEF CallOK, SameCall
<1>3. CallsOK' /\ proc'[p] = r /\ Others(p)
  BY <1>2, GoesOnOK
<1> QED  BY <1>3 DEF Continues

GetDeployResourceListEffect(p) ==
    LET r == proc[p] IN
    /\ UNCHANGED <<clones, helmClient, release, live, records>>
    /\ \/ At(p, "list") /\ Continues(p, "render", r.manifest, r.todo, RecordsOf(r.app))
       \/ At(p, "leftover") /\ Continues(p, "clear", r.manifest, r.todo, RecordsOf(r.app))

LEMMA GetDeployResourceListDoes ==
    ASSUME TypeInv, NEW p \in Procs, GetDeployResourceList(p)
    PROVE  TypeInv' /\ GetDeployResourceListEffect(p)
<1>1. ServersOK' /\ UNCHANGED <<clones, helmClient, release, live, records>>
  BY ServersStay DEF GetDeployResourceList, NoServers, TypeInv, clusterVars
<1>2. proc[p] \in ProcType /\ RecordsOf(proc[p].app) \in SUBSET Objs
  BY DEF TypeInv, CallsOK, RecordsOf
<1>3. PICK pc \in {"render", "clear"} :
        /\ proc' = [proc EXCEPT ![p].pc = pc, ![p].old = RecordsOf(proc[p].app)]
        /\ pc = "render" => At(p, "list")
        /\ pc = "clear" => At(p, "leftover")
  BY DEF GetDeployResourceList
<1> DEFINE r == [proc[p] EXCEPT !.pc = pc, !.old = RecordsOf(proc[p].app)]
<1>4. /\ r \in ProcType /\ r.pc = pc /\ r.manifest = proc[p].manifest
      /\ r.todo = proc[p].todo /\ r.old = RecordsOf(proc[p].app)
      /\ SameCall(r, proc[p]) /\ r.op = proc[p].op
  BY <1>2 DEF ProcType, ProcPc, SameCall
<1>5. GoesOn(p, r)
  BY <1>3 DEF GoesOn
<1> HIDE DEF r
<1>6. CallsOK' /\ Continues(p, pc, proc[p].manifest, proc[p].todo, RecordsOf(proc[p].app))
  BY <1>1, <1>3, <1>4, <1>5, ContinuesOK DEF TypeInv, At
<1> QED  BY <1>1, <1>3, <1>6 DEF TypeInv, GetDeployResourceListEffect

\* The ends of a call that helm refuses.
BreaksOff(p) ==
    /\ UNCHANGED <<release, live, records>>
    /\ \/ Ends(p) /\ UNCHANGED <<clones, helmClient>>
       \/ Dies /\ \A a \in Apps : clones'[a] = None

LEMMA PanicBreaksOff ==
    ASSUME TypeInv, NEW p \in Procs, Panic(p), UNCHANGED <<userVars, clusterVars, app>>
    PROVE  TypeInv' /\ BreaksOff(p)
BY PanicOK, PanicServers DEF TypeInv, BreaksOff, clusterVars

ObjectFromManifestEffect(p) ==
    LET chart == clones[proc[p].app].chart IN
    /\ At(p, "render")
    /\ \/ /\ CanInstall(p) /\ UNCHANGED <<clones, helmClient, release, live, records>>
          /\ \E pc \in {"record", "retarget"} : Continues(p, pc, chart, chart, proc[p].old)
       \/ ~CanInstall(p) /\ BreaksOff(p)

LEMMA ObjectFromManifestDoes ==
    ASSUME TypeInv, NEW p \in Procs, ObjectFromManifest(p)
    PROVE  TypeInv' /\ ObjectFromManifestEffect(p)
<1> DEFINE chart == clones[proc[p].app].chart
<1>1. /\ At(p, "render") /\ proc[p] \in ProcType /\ proc[p].app \in Apps
      /\ UNCHANGED <<userVars, clusterVars, app>>
  BY DEF ObjectFromManifest, TypeInv, CallsOK, CallOK, At
<1>2. CASE ~CanInstall(p) /\ Panic(p)
  BY <1>1, <1>2, PanicBreaksOff DEF ObjectFromManifestEffect
<1>3. CASE CanInstall(p) /\ ~(~CanInstall(p) /\ Panic(p))
  <2>1. chart \in SUBSET Objs
    BY <1>1, <1>3 DEF CanInstall, TypeInv, ServersOK, CloneType
  <2>2. PICK pc \in {"record", "retarget"} :
          proc' = [proc EXCEPT ![p].pc = pc, ![p].manifest = chart, ![p].todo = chart]
    BY <1>3 DEF ObjectFromManifest
  <2> DEFINE r == [proc[p] EXCEPT !.pc = pc, !.manifest = chart, !.todo = chart]
  <2>3. GoesOn(p, r)
    BY <2>2 DEF GoesOn
  <2> HIDE DEF chart
  <2>4. /\ r \in ProcType /\ r.pc = pc /\ r.manifest = chart /\ r.todo = chart
        /\ r.old = proc[p].old /\ SameCall(r, proc[p]) /\ r.op = proc[p].op
    BY <1>1, <2>1 DEF ProcType, ProcPc, SameCall
  <2> HIDE DEF r
  <2>5. UNCHANGED <<clones, helmClient>>
    BY <1>3 DEF ObjectFromManifest
  <2>6. CallsOK' /\ Continues(p, pc, chart, chart, proc[p].old)
    BY <1>1, <2>3, <2>4, <2>5, ContinuesOK DEF TypeInv, At
  <2>7. ServersOK'
    BY <1>1, <2>5, ServersStay DEF NoServers, TypeInv
  <2> QED  BY <1>1, <1>3, <2>5, <2>6, <2>7
           DEF TypeInv, ObjectFromManifestEffect, chart, clusterVars
<1> QED  BY <1>2, <1>3 DEF ObjectFromManifest

\* The end of a Sync: of the call, or of its first half.
TurnsToClear(p) ==
    /\ proc[p].final /\ proc'[p].pc = "target" /\ proc'[p].op = "clear"
    /\ SameCall(proc'[p], proc[p]) /\ Others(p)

LEMMA EndOfSyncOK ==
    ASSUME CallsOK, NEW p \in Procs, ~At(p, "idle"), EndOfSync(p), UNCHANGED helmClient
    PROVE  CallsOK' /\ (Ends(p) \/ TurnsToClear(p))
<1>1. CASE ~proc[p].final
  BY <1>1, EndsOK DEF EndOfSync
<1>2. CASE proc[p].final
  <2> DEFINE r == [proc[p] EXCEPT !.op = "clear", !.pc = "target", !.where = None,
                                  !.manifest = {}, !.old = {}]
  <2>1. proc[p] \in ProcType /\ CallOK(proc[p], helmClient)
    BY DEF CallsOK
  <2>2. r \in ProcType /\ r.pc = "target" /\ r.op = "clear" /\ SameCall(r, proc[p])
    BY <2>1 DEF ProcType, ProcPc, SameCall
  <2>3. GoesOn(p, r)
    BY <1>2 DEF EndOfSync, GoesOn
  <2> HIDE DEF r
  <2>4. CallOK(r, helmClient')
    BY <2>1, <2>2 DEF CallOK, SameCall, At
  <2>5. CallsOK' /\ proc'[p] = r /\ Others(p)
    BY <2>2, <2>3, <2>4, GoesOnOK
  <2> QED  BY <1>2, <2>2, <2>5 DEF TurnsToClear
<1> QED  BY <1>1, <1>2

\* A step of p that changes nothing but records.
RecordsOnly == UNCHANGED <<clones, helmClient, release, live>>

LEMMA RecordsOnlyOK ==
    ASSUME ServersOK, UNCHANGED <<userVars, clones, release, live, app>>,
           records' \subseteq Apps \X Objs
    PROVE  ServersOK'
BY DEF ServersOK, userVars

\* The records of a that are left when o is added or taken away.
LEMMA RecordsChange ==
    ASSUME NEW a \in Apps, NEW o \in Objs
    PROVE  /\ records' = records \cup {<<a, o>>} => RecordsOf(a)' = RecordsOf(a) \cup {o}
           /\ records' = records \ {<<a, o>>} => RecordsOf(a)' = RecordsOf(a) \ {o}
BY DEF RecordsOf

UpdateDeployResourceEffect(p, o) ==
    LET r == proc[p] IN
    /\ At(p, "record") /\ o \in r.todo /\ RecordsOnly
    /\ RecordsOf(r.app)' = RecordsOf(r.app) \cup {o}
    /\ Continues(p, "record", r.manifest, r.todo \ {o}, r.old)

LEMMA UpdateDeployResourceDoes ==
    ASSUME TypeInv, NEW p \in Procs, NEW o \in Objs, UpdateDeployResource(p, o)
    PROVE  TypeInv' /\ UpdateDeployResourceEffect(p, o)
<1> DEFINE r == [proc[p] EXCEPT !.todo = @ \ {o}]
<1>1. At(p, "record") /\ proc[p] \in ProcType /\ proc[p].app \in Apps
  BY DEF UpdateDeployResource, TypeInv, CallsOK, CallOK, At
<1>2. /\ r \in ProcType /\ r.pc = "record" /\ r.manifest = proc[p].manifest
      /\ r.todo = proc[p].todo \ {o} /\ r.old = proc[p].old
      /\ SameCall(r, proc[p]) /\ r.op = proc[p].op
  BY <1>1 DEF ProcType, SameCall, At
<1>3. GoesOn(p, r) /\ UNCHANGED helmClient
  BY DEF UpdateDeployResource, GoesOn
<1> HIDE DEF r
<1>4. CallsOK' /\ Continues(p, "record", proc[p].manifest, proc[p].todo \ {o}, proc[p].old)
  BY <1>1, <1>2, <1>3, ContinuesOK DEF TypeInv, At
<1>5. ServersOK'
  BY <1>1, RecordsOnlyOK DEF UpdateDeployResource, TypeInv, ServersOK
<1>6. RecordsOf(proc[p].app)' = RecordsOf(proc[p].app) \cup {o}
  BY <1>1, <1>4, RecordsChange DEF UpdateDeployResource, Continues, SameCall
<1> QED  BY <1>1, <1>4, <1>5, <1>6
         DEF TypeInv, UpdateDeployResourceEffect, UpdateDeployResource, RecordsOnly

EndOfManifestEffect(p) ==
    LET r == proc[p]
        stale == r.old \ r.manifest IN
    /\ UNCHANGED <<clones, helmClient, release, live, records>>
    /\ \/ At(p, "record") /\ r.todo = {} /\ stale # {} /\ Moves(p, "prune")
       \/ /\ At(p, "prune") \/ (At(p, "record") /\ r.todo = {})
          /\ stale = {}
          /\ \/ Installs(p) /\ Moves(p, "install")
             \/ ~Installs(p) /\ (Ends(p) \/ TurnsToClear(p))

LEMMA EndOfManifestDoes ==
    ASSUME TypeInv, NEW p \in Procs, EndOfManifest(p)
    PROVE  TypeInv' /\ EndOfManifestEffect(p)
<1> DEFINE stale == proc[p].old \ proc[p].manifest
<1>1. /\ ServersOK' /\ UNCHANGED <<clones, helmClient, release, live, records>>
      /\ proc[p].pc \in {"record", "prune"} /\ helmClient \in Clusters
  BY ServersStay DEF EndOfManifest, NoServers, TypeInv, clusterVars, At, CallsOK, CallOK
<1>2. \/ /\ At(p, "record") /\ proc[p].todo = {} /\ stale # {} /\ Goto(p, "prune")
      \/ /\ At(p, "prune") \/ (At(p, "record") /\ proc[p].todo = {})
         /\ stale = {} /\ Installs(p) /\ Goto(p, "install")
      \/ /\ At(p, "prune") \/ (At(p, "record") /\ proc[p].todo = {})
         /\ stale = {} /\ ~Installs(p) /\ EndOfSync(p)
  <2>1. CASE stale = {}
    BY <2>1, Zenon DEF EndOfManifest
  <2>2. CASE stale # {}
    <3>1. At(p, "record") /\ proc[p].todo = {}
      BY <2>2 DEF EndOfManifest
    <3> QED  BY <2>2, <3>1, Zenon DEF EndOfManifest
  <2> QED  BY <2>1, <2>2
<1>3. ASSUME NEW pc \in {"prune", "install"}, Goto(p, pc)
      PROVE  CallsOK' /\ Moves(p, pc)
  BY <1>1, <1>3, GotoOK DEF TypeInv, ProcPc, At
<1>4. ASSUME EndOfSync(p)
      PROVE  CallsOK' /\ (Ends(p) \/ TurnsToClear(p))
  BY <1>1, <1>4, EndOfSyncOK DEF TypeInv, At
<1> HIDE DEF stale
<1>5. CallsOK'
  BY <1>2, <1>3, <1>4
<1>6. EndOfManifestEffect(p)
  BY <1>1, <1>2, <1>3, <1>4 DEF EndOfManifestEffect, stale
<1> QED  BY <1>1, <1>5, <1>6 DEF TypeInv

DeleteDeployResourceEffect(p, o) ==
    LET r == proc[p] IN
    /\ At(p, "prune") /\ o \in r.old \ r.manifest /\ RecordsOnly
    /\ \/ Ends(p)
       \/ /\ Continues(p, "object", r.manifest, {o}, r.old)
          /\ RecordsOf(r.app)' = RecordsOf(r.app) \ {o}

LEMMA DeleteDeployResourceDoes ==
    ASSUME TypeInv, NEW p \in Procs, NEW o \in Objs, DeleteDeployResource(p, o)
    PROVE  TypeInv' /\ DeleteDeployResourceEffect(p, o)
<1> DEFINE r == [proc[p] EXCEPT !.pc = "object", !.todo = {o}]
<1>1. At(p, "prune") /\ proc[p] \in ProcType /\ proc[p].app \in Apps
  BY DEF DeleteDeployResource, TypeInv, CallsOK, CallOK, At
<1>2. ServersOK'
  BY RecordsOnlyOK DEF DeleteDeployResource, TypeInv, ServersOK
<1>3. CASE Return(p)
  BY <1>1, <1>2, <1>3, EndsOK
     DEF TypeInv, DeleteDeployResource, DeleteDeployResourceEffect, RecordsOnly
<1>4. CASE proc' = [proc EXCEPT ![p].pc = "object", ![p].todo = {o}]
  <2>1. /\ r \in ProcType /\ r.pc = "object" /\ r.manifest = proc[p].manifest
        /\ r.todo = {o} /\ r.old = proc[p].old
        /\ SameCall(r, proc[p]) /\ r.op = proc[p].op
    BY <1>1 DEF ProcType, ProcPc, SameCall
  <2>2. GoesOn(p, r) /\ UNCHANGED helmClient
    BY <1>4 DEF DeleteDeployResource, GoesOn
  <2> HIDE DEF r
  <2>3. CallsOK' /\ Continues(p, "object", proc[p].manifest, {o}, proc[p].old)
    BY <1>1, <2>1, <2>2, ContinuesOK DEF TypeInv, At
  <2>4. RecordsOf(proc[p].app)' = RecordsOf(proc[p].app) \ {o}
    BY <1>1, <2>3, RecordsChange DEF DeleteDeployResource, Continues, SameCall
  <2> QED  BY <1>1, <1>2, <2>3, <2>4
           DEF TypeInv, DeleteDeployResource, DeleteDeployResourceEffect, RecordsOnly
<1> QED  BY <1>3, <1>4 DEF DeleteDeployResource

DeleteDeprecatedEffect(p) ==
    LET r == proc[p] IN
    /\ At(p, "object") /\ UNCHANGED <<clones, helmClient, release, records>>
    /\ \A c \in Clusters : live'[c] \subseteq live[c]
    /\ Continues(p, "prune", r.manifest, {}, r.old \ r.todo)

LEMMA DeleteDeprecatedDoes ==
    ASSUME TypeInv, NEW p \in Procs, DeleteDeprecated(p)
    PROVE  TypeInv' /\ DeleteDeprecatedEffect(p)
<1> DEFINE r == [proc[p] EXCEPT !.pc = "prune", !.old = @ \ proc[p].todo, !.todo = {}]
<1>1. At(p, "object") /\ proc[p] \in ProcType
  BY DEF DeleteDeprecated, TypeInv, CallsOK, At
<1>2. /\ r \in ProcType /\ r.pc = "prune" /\ r.manifest = proc[p].manifest
      /\ r.todo = {} /\ r.old = proc[p].old \ proc[p].todo
      /\ SameCall(r, proc[p]) /\ r.op = proc[p].op
  BY <1>1 DEF ProcType, ProcPc, SameCall
<1>3. GoesOn(p, r) /\ UNCHANGED helmClient
  BY DEF DeleteDeprecated, GoesOn
<1> HIDE DEF r
<1>4. CallsOK' /\ Continues(p, "prune", proc[p].manifest, {}, proc[p].old \ proc[p].todo)
  BY <1>1, <1>2, <1>3, ContinuesOK DEF TypeInv, At
<1>5. /\ live' \in [Clusters -> SUBSET Objs]
      /\ \A c \in Clusters : live'[c] \subseteq live[c]
  BY HomeAssumption DEF DeleteDeprecated, TypeInv, ServersOK
<1>6. ServersOK'
  BY <1>5 DEF DeleteDeprecated, TypeInv, ServersOK, userVars
<1> QED  BY <1>1, <1>4, <1>5, <1>6 DEF TypeInv, DeleteDeprecated, DeleteDeprecatedEffect

\* The chart of a's release in cluster c becomes chart, its status s.
Releases(c, a, s, chart) ==
    /\ live' = [live EXCEPT ![c] = (@ \ release[c][a].chart) \cup chart]
    /\ release' = [release EXCEPT ![c][a] = [status |-> s, chart |-> chart]]

Released(c, a, s, chart) ==
    /\ live' \in [Clusters -> SUBSET Objs]
    /\ release' \in [Clusters -> [Apps -> ReleaseType]]
    /\ live'[c] = (live[c] \ release[c][a].chart) \cup chart
    /\ release'[c][a] = [status |-> s, chart |-> chart]
    /\ \A d \in Clusters, b \in Apps :
         d # c \/ b # a => release'[d][b] = release[d][b]
    /\ \A d \in Clusters \ {c} : live'[d] = live[d]

LEMMA ReleasesOK ==
    ASSUME ServersOK, NEW c \in Clusters, NEW a \in Apps, NEW chart \in SUBSET Objs,
           NEW s \in {"absent", "pending", "deployed"}, Releases(c, a, s, chart)
    PROVE  Released(c, a, s, chart)
<1>1. [status |-> s, chart |-> chart] \in ReleaseType
  BY DEF ReleaseType
<1>2. /\ live \in [Clusters -> SUBSET Objs]
      /\ release \in [Clusters -> [Apps -> ReleaseType]]
  BY DEF ServersOK
<1>3. /\ live' \in [Clusters -> SUBSET Objs]
      /\ live'[c] = (live[c] \ release[c][a].chart) \cup chart
      /\ \A d \in Clusters \ {c} : live'[d] = live[d]
  BY <1>2 DEF Releases
<1>4. /\ release' \in [Clusters -> [Apps -> ReleaseType]]
      /\ release'[c][a] = [status |-> s, chart |-> chart]
      /\ \A d \in Clusters, b \in Apps :
           d # c \/ b # a => release'[d][b] = release[d][b]
  BY <1>1, <1>2 DEF Releases
<1> QED  BY <1>3, <1>4 DEF Released

InstallHelmChartEffect(p) ==
    LET a == proc[p].app IN
    /\ At(p, "install")
    /\ \/ /\ CanInstall(p) /\ UNCHANGED <<clones, helmClient, records>>
          /\ Releases(helmClient, a, "pending", clones[a].chart)
          /\ proc'[p].pc = "wait" /\ proc'[p].where = helmClient
          /\ proc'[p].manifest = proc[p].manifest
          /\ SameCall(proc'[p], proc[p]) /\ proc'[p].op = proc[p].op /\ Others(p)
       \/ ~CanInstall(p) /\ BreaksOff(p)

LEMMA InstallHelmChartDoes ==
    ASSUME TypeInv, NEW p \in Procs, InstallHelmChart(p)
    PROVE  TypeInv' /\ InstallHelmChartEffect(p)
<1> DEFINE a == proc[p].app
           r == [proc[p] EXCEPT !.pc = "wait", !.where = helmClient]
<1>1. /\ At(p, "install") /\ proc[p] \in ProcType /\ a \in Apps
      /\ helmClient \in Clusters
  BY DEF InstallHelmChart, TypeInv, CallsOK, CallOK, At
<1>2. CASE ~CanInstall(p)
  <2>1. Panic(p) /\ UNCHANGED <<userVars, clusterVars, app>>
    BY <1>2 DEF InstallHelmChart, clusterVars
  <2> QED  BY <1>1, <1>2, <2>1, PanicBreaksOff DEF InstallHelmChartEffect
<1>3. CASE CanInstall(p)
  <2>1. /\ Releases(helmClient, a, "pending", clones[a].chart)
        /\ proc' = [proc EXCEPT ![p].pc = "wait", ![p].where = helmClient]
        /\ UNCHANGED <<userVars, clones, helmClient, records, app>>
    BY <1>3 DEF InstallHelmChart, Releases
  <2>2. clones[a].chart \in SUBSET Objs
    BY <1>1, <1>3 DEF CanInstall, TypeInv, ServersOK, CloneType
  <2>3. /\ live' \in [Clusters -> SUBSET Objs]
        /\ release' \in [Clusters -> [Apps -> ReleaseType]]
    BY <1>1, <2>1, <2>2, ReleasesOK DEF TypeInv, Released
  <2>4. ServersOK'
    BY <2>1, <2>3 DEF TypeInv, ServersOK, userVars
  <2>5. /\ r \in ProcType /\ r.pc = "wait" /\ r.where = helmClient
        /\ r.manifest = proc[p].manifest
        /\ SameCall(r, proc[p]) /\ r.op = proc[p].op
    BY <1>1 DEF ProcType, ProcPc, SameCall
  <2>6. GoesOn(p, r)
    BY <2>1 DEF GoesOn
  <2> HIDE DEF r
  <2>7. CallOK(r, helmClient')
    BY <1>1, <2>1, <2>5 DEF CallOK, SameCall
  <2>8. CallsOK' /\ proc'[p] = r /\ Others(p)
    BY <2>1, <2>5, <2>6, <2>7, GoesOnOK DEF TypeInv
  <2> QED  BY <1>1, <1>3, <2>1, <2>4, <2>5, <2>8 DEF TypeInv, InstallHelmChartEffect
<1> QED  BY <1>2, <1>3

InstallEndEffect(p) ==
    LET a == proc[p].app
        c == proc[p].where IN
    /\ At(p, "wait")
    /\ \/ /\ release[c][a].status = "pending"
          /\ UNCHANGED <<clones, helmClient, live, records>>
          /\ release'[c][a] = [status |-> "deployed", chart |-> release[c][a].chart]
          /\ \A d \in Clusters, b \in Apps : release'[d][b].chart = release[d][b].chart
          /\ Ends(p) \/ TurnsToClear(p)
       \/ release[c][a].status # "pending" /\ BreaksOff(p)

LEMMA InstallEndDoes ==
    ASSUME TypeInv, NEW p \in Procs, InstallEnd(p)
    PROVE  TypeInv' /\ InstallEndEffect(p)
<1> DEFINE a == proc[p].app
           c == proc[p].where
<1>1. At(p, "wait") /\ a \in Apps /\ c \in Clusters
  BY DEF InstallEnd, TypeInv, CallsOK, CallOK, At
<1>2. CASE release[c][a].status # "pending"
  <2>1. Panic(p) /\ UNCHANGED <<userVars, clusterVars, app>>
    BY <1>2 DEF InstallEnd, clusterVars
  <2> QED  BY <1>1, <1>2, <2>1, PanicBreaksOff DEF InstallEndEffect
<1>3. CASE release[c][a].status = "pending"
  <2>1. /\ release' = [release EXCEPT ![c][a].status = "deployed"]
        /\ EndOfSync(p) /\ UNCHANGED <<userVars, clones, helmClient, live, records, app>>
    BY <1>3 DEF InstallEnd
  <2>2. release \in [Clusters -> [Apps -> ReleaseType]]
    BY DEF TypeInv, ServersOK
  <2>3. /\ release' \in [Clusters -> [Apps -> ReleaseType]]
        /\ release'[c][a] = [status |-> "deployed", chart |-> release[c][a].chart]
        /\ \A d \in Clusters, b \in Apps : release'[d][b].chart = release[d][b].chart
    <3> DEFINE s == [release[c][a] EXCEPT !.status = "deployed"]
    <3>1. /\ s \in ReleaseType /\ s = [status |-> "deployed", chart |-> release[c][a].chart]
          /\ s.chart = release[c][a].chart
      BY <1>1, <2>2 DEF ReleaseType
    <3>2. release' = [release EXCEPT ![c][a] = s]
      BY <2>1
    <3> HIDE DEF s
    <3> QED  BY <1>1, <2>2, <3>1, <3>2
  <2>4. ServersOK'
    BY <2>1, <2>3 DEF TypeInv, ServersOK, userVars
  <2>5. CallsOK' /\ (Ends(p) \/ TurnsToClear(p))
    BY <1>1, <2>1, EndOfSyncOK DEF TypeInv, At
  <2> QED  BY <1>1, <1>3, <2>1, <2>3, <2>4, <2>5 DEF TypeInv, InstallEndEffect
<1> QED  BY <1>2, <1>3

UninstallReleaseEffect(p) ==
    LET a == proc[p].app IN
    /\ At(p, "uninstall")
    /\ \/ release[helmClient][a].status = "absent" /\ BreaksOff(p)
       \/ /\ release[helmClient][a].status # "absent"
          /\ Releases(helmClient, a, "absent", {}) /\ Moves(p, "leftover")
          /\ UNCHANGED <<clones, helmClient, records>>

LEMMA UninstallReleaseDoes ==
    ASSUME TypeInv, NEW p \in Procs, UninstallRelease(p)
    PROVE  TypeInv' /\ UninstallReleaseEffect(p)
<1> DEFINE a == proc[p].app
<1>1. At(p, "uninstall") /\ a \in Apps /\ helmClient \in Clusters
  BY DEF UninstallRelease, TypeInv, CallsOK, CallOK, At
<1>2. CASE release[helmClient][a].status = "absent"
  <2>1. Panic(p) /\ UNCHANGED <<userVars, clusterVars, app>>
    BY <1>2 DEF UninstallRelease, clusterVars
  <2> QED  BY <1>1, <1>2, <2>1, PanicBreaksOff DEF UninstallReleaseEffect
<1>3. CASE release[helmClient][a].status # "absent"
  <2>1. /\ release' = [release EXCEPT ![helmClient][a] = Absent]
        /\ live' = [live EXCEPT ![helmClient] = @ \ release[helmClient][a].chart]
        /\ Goto(p, "leftover")
        /\ UNCHANGED <<userVars, clones, helmClient, records, app>>
    BY <1>3 DEF UninstallRelease
  <2>2. Releases(helmClient, a, "absent", {})
    BY <2>1 DEF Releases, Absent
  <2>3. /\ live' \in [Clusters -> SUBSET Objs]
        /\ release' \in [Clusters -> [Apps -> ReleaseType]]
    BY <1>1, <2>2, ReleasesOK DEF TypeInv, Released
  <2>4. ServersOK'
    BY <2>1, <2>3 DEF TypeInv, ServersOK, userVars
  <2>5. CallsOK' /\ Moves(p, "leftover")
    BY <1>1, <2>1, GotoOK DEF TypeInv, ProcPc, At
  <2> QED  BY <1>1, <1>3, <2>1, <2>2, <2>4, <2>5 DEF TypeInv, UninstallReleaseEffect
<1> QED  BY <1>2, <1>3

ClearDeployResourceEffect(p, o) ==
    LET r == proc[p] IN
    /\ At(p, "clear") /\ RecordsOnly
    /\ \/ Ends(p)
       \/ /\ Continues(p, "clear", r.manifest, r.todo, r.old \ {o})
          /\ RecordsOf(r.app)' = RecordsOf(r.app) \ {o}

LEMMA ClearDeployResourceDoes ==
    ASSUME TypeInv, NEW p \in Procs, NEW o \in Objs, ClearDeployResource(p, o)
    PROVE  TypeInv' /\ ClearDeployResourceEffect(p, o)
<1> DEFINE r == [proc[p] EXCEPT !.old = @ \ {o}]
<1>1. At(p, "clear") /\ proc[p] \in ProcType /\ proc[p].app \in Apps
  BY DEF ClearDeployResource, TypeInv, CallsOK, CallOK, At
<1>2. ServersOK'
  BY RecordsOnlyOK DEF ClearDeployResource, TypeInv, ServersOK
<1>3. CASE Return(p)
  BY <1>1, <1>2, <1>3, EndsOK
     DEF TypeInv, ClearDeployResource, ClearDeployResourceEffect, RecordsOnly
<1>4. CASE proc' = [proc EXCEPT ![p].old = @ \ {o}]
  <2>1. /\ r \in ProcType /\ r.pc = "clear" /\ r.manifest = proc[p].manifest
        /\ r.todo = proc[p].todo /\ r.old = proc[p].old \ {o}
        /\ SameCall(r, proc[p]) /\ r.op = proc[p].op
    BY <1>1 DEF ProcType, SameCall, At
  <2>2. GoesOn(p, r) /\ UNCHANGED helmClient
    BY <1>4 DEF ClearDeployResource, GoesOn
  <2> HIDE DEF r
  <2>3. CallsOK' /\ Continues(p, "clear", proc[p].manifest, proc[p].todo, proc[p].old \ {o})
    BY <1>1, <2>1, <2>2, ContinuesOK DEF TypeInv, At
  <2>4. RecordsOf(proc[p].app)' = RecordsOf(proc[p].app) \ {o}
    BY <1>1, <2>3, RecordsChange DEF ClearDeployResource, Continues, SameCall
  <2> QED  BY <1>1, <1>2, <2>3, <2>4
           DEF TypeInv, ClearDeployResource, ClearDeployResourceEffect, RecordsOnly
<1> QED  BY <1>3, <1>4 DEF ClearDeployResource

EndOfClearEffect(p) ==
    /\ At(p, "clear") /\ proc[p].old = {} /\ Moves(p, "hook")
    /\ UNCHANGED <<clones, helmClient, release, live, records>>

LEMMA EndOfClearDoes ==
    ASSUME TypeInv, NEW p \in Procs, EndOfClear(p)
    PROVE  TypeInv' /\ EndOfClearEffect(p)
<1>1. ServersOK' /\ At(p, "clear") /\ helmClient \in Clusters /\ UNCHANGED helmClient
  BY ServersStay DEF EndOfClear, NoServers, TypeInv, CallsOK, CallOK, At
<1>2. CallsOK' /\ Moves(p, "hook")
  BY <1>1, GotoOK DEF TypeInv, EndOfClear, ProcPc, At
<1> QED  BY <1>1, <1>2 DEF TypeInv, EndOfClear, EndOfClearEffect, clusterVars

ClearGitRepoEffect(p) ==
    LET a == proc[p].app IN
    /\ At(p, "hook") /\ Moves(p, "remove")
    /\ clones'[a] = None /\ \A b \in Apps \ {a} : clones'[b] = clones[b]
    /\ UNCHANGED <<helmClient, release, live, records>>

LEMMA ClearGitRepoDoes ==
    ASSUME TypeInv, NEW p \in Procs, ClearGitRepo(p)
    PROVE  TypeInv' /\ ClearGitRepoEffect(p)
<1> DEFINE a == proc[p].app
<1>1. At(p, "hook") /\ a \in Apps /\ helmClient \in Clusters
  BY DEF ClearGitRepo, TypeInv, CallsOK, CallOK, At
<1>2. CallsOK' /\ Moves(p, "remove")
  BY <1>1, GotoOK DEF ClearGitRepo, TypeInv, ProcPc, At
<1>3. clones'[a] = None /\ \A b \in Apps \ {a} : clones'[b] = clones[b]
  BY <1>1 DEF ClearGitRepo, TypeInv, ServersOK
<1>4. ServersOK'
  BY <1>1 DEF ClearGitRepo, TypeInv, ServersOK, userVars, clusterVars
<1> QED  BY <1>1, <1>2, <1>3, <1>4
         DEF TypeInv, ClearGitRepo, ClearGitRepoEffect, clusterVars

RemoveFinalizerEffect(p) ==
    /\ At(p, "remove") /\ Ends(p)
    /\ UNCHANGED <<clones, helmClient, release, live, records>>

LEMMA RemoveFinalizerDoes ==
    ASSUME TypeInv, NEW p \in Procs, RemoveFinalizer(p)
    PROVE  TypeInv' /\ RemoveFinalizerEffect(p)
<1>1. CallsOK' /\ Ends(p)
  BY EndsOK DEF RemoveFinalizer, TypeInv
<1>2. ServersOK'
  BY DEF RemoveFinalizer, TypeInv, ServersOK, userVars, clusterVars
<1> QED  BY <1>1, <1>2
         DEF TypeInv, RemoveFinalizer, RemoveFinalizerEffect, clusterVars

\* Every variable keeps its type, and what a call has to have it has.
LEMMA TypeStep == TypeInv /\ [Next]_vars => TypeInv'
<1> SUFFICES ASSUME TypeInv, [Next]_vars
             PROVE  TypeInv'
  OBVIOUS
<1>1. ASSUME NEW p \in Procs, SyncStep(p)
      PROVE  TypeInv'
  BY <1>1, FetchDoes, SetTargetClientDoes, GetDeployResourceListDoes,
     ObjectFromManifestDoes, UpdateDeployResourceDoes, DeleteDeployResourceDoes,
     EndOfManifestDoes, DeleteDeprecatedDoes, InstallHelmChartDoes, InstallEndDoes
     DEF SyncStep
<1>2. ASSUME NEW p \in Procs, ClearStep(p)
      PROVE  TypeInv'
  BY <1>2, UninstallReleaseDoes, EndOfClearDoes, ClearGitRepoDoes,
     RemoveFinalizerDoes, ClearDeployResourceDoes DEF ClearStep
<1>3. CASE UNCHANGED vars
  BY <1>3, ServersStay, CallsStay DEF vars, NoServers, userVars, clusterVars, TypeInv
<1> QED  BY <1>1, <1>2, <1>3, UserType, CrashDoes, CallFailsDoes, CheckSyncDoes
         DEF Next, UserStep

LEMMA TypeInit == Init => TypeInv
<1> SUFFICES ASSUME Init
             PROVE  TypeInv
  OBVIOUS
<1>1. CallsOK
  BY IdleProcType DEF Init, CallsOK
<1>2. Absent \in ReleaseType
  BY DEF Absent, ReleaseType
<1>3. \A a \in Apps : ObjsOf[a] \in SUBSET Objs
  BY DistinctObjects
<1>4. ServersOK
  BY <1>2, <1>3, DefaultAssumption DEF Init, ServersOK
<1> QED  BY <1>1, <1>4 DEF TypeInv

(***************************************************************************)
(* The steps, by who takes them.                                           *)
(***************************************************************************)
CallFailsEffect(p) ==
    /\ ~At(p, "idle") /\ UNCHANGED <<release, live, records>>
    /\ \/ Ends(p) /\ UNCHANGED clones
       \/ Dies /\ \A a \in Apps : clones'[a] = None

\* A step of the call that p carries out.
Works(p) ==
    \/ FetchEffect(p) \/ SetTargetClientEffect(p) \/ GetDeployResourceListEffect(p)
    \/ ObjectFromManifestEffect(p) \/ EndOfManifestEffect(p) \/ DeleteDeprecatedEffect(p)
    \/ InstallHelmChartEffect(p) \/ InstallEndEffect(p) \/ UninstallReleaseEffect(p)
    \/ EndOfClearEffect(p) \/ ClearGitRepoEffect(p) \/ RemoveFinalizerEffect(p)
    \/ CallFailsEffect(p)
    \/ \E o \in Objs : \/ UpdateDeployResourceEffect(p, o)
                       \/ DeleteDeployResourceEffect(p, o)
                       \/ ClearDeployResourceEffect(p, o)

LEMMA WorkDoes ==
    ASSUME TypeInv, NEW p \in Procs, SyncStep(p) \/ ClearStep(p) \/ CallFails(p)
    PROVE  Works(p)
<1>1. CASE SyncStep(p)
  BY <1>1, FetchDoes, SetTargetClientDoes, GetDeployResourceListDoes,
     ObjectFromManifestDoes, UpdateDeployResourceDoes, DeleteDeployResourceDoes,
     EndOfManifestDoes, DeleteDeprecatedDoes, InstallHelmChartDoes, InstallEndDoes
     DEF SyncStep, Works
<1>2. CASE ClearStep(p)
  BY <1>2, UninstallReleaseDoes, EndOfClearDoes, ClearGitRepoDoes,
     RemoveFinalizerDoes, ClearDeployResourceDoes DEF ClearStep, Works
<1>3. CASE CallFails(p)
  BY <1>3, CallFailsDoes DEF CallFails, CallFailsEffect, Works, clusterVars
<1> QED  BY <1>1, <1>2, <1>3

\* A call that comes in finds its goroutine idle; those under way are not alone
\* any more.
ComesIn(p) ==
    /\ UNCHANGED <<clones, helmClient, release, live, records>>
    /\ At(p, "idle") /\ proc'[p].pc = "fetch" /\ proc'[p].op = "sync"
    /\ proc'[p].final => p = Worker
    /\ proc'[p].alone => \A q \in Procs : At(q, "idle")
    /\ \A q \in Procs \ {p} :
         \/ At(q, "idle") /\ proc'[q] = IdleProc
         \/ ~At(q, "idle") /\ proc'[q] = [proc[q] EXCEPT !.alone = FALSE]

\* The process dies and leaves what is outside of it.
DiesAlone ==
    Dies /\ (\A a \in Apps : clones'[a] = None) /\ UNCHANGED <<release, live, records>>

Kept == UNCHANGED <<proc, clones, helmClient, release, live, records>>

LEMMA Steps ==
    ASSUME TypeInv, [Next]_vars
    PROVE  Kept \/ DiesAlone \/ \E p \in Procs : Works(p) \/ ComesIn(p)
<1>1. CASE UserStep \/ UNCHANGED vars
  BY <1>1 DEF UserStep, GitPush, EditTarget, DeleteApp, vars, Kept, clusterVars
<1>2. CASE Crash
  BY <1>2, CrashDoes DEF Crash, DiesAlone, clusterVars
<1>3. ASSUME NEW p \in Procs, NEW a \in Apps, CheckSync(p, a)
      PROVE  ComesIn(p)
  BY <1>3, CheckSyncDoes DEF CheckSync, ComesIn, clusterVars
<1> QED  BY <1>1, <1>2, <1>3, WorkDoes DEF Next

\* A step of p leaves the other goroutines alone, or ends the process.
LEMMA MovesSame ==
    ASSUME TypeInv, NEW p \in Procs, NEW pc, Moves(p, pc)
    PROVE  /\ Others(p) /\ proc'[p].pc = pc /\ proc'[p].op = proc[p].op
           /\ proc'[p].manifest = proc[p].manifest /\ proc'[p].todo = proc[p].todo
           /\ proc'[p].old = proc[p].old /\ SameCall(proc'[p], proc[p])
BY DEF TypeInv, CallsOK, ProcType, Moves, SameCall

LEMMA WorkLeavesOthers ==
    ASSUME TypeInv, NEW p \in Procs, Works(p)
    PROVE  /\ ~At(p, "idle")
           /\ Dies \/ Ends(p) \/ (Others(p) /\ SameCall(proc'[p], proc[p]))
<1>1. ~At(p, "idle")
  BY DEF Works, FetchEffect, SetTargetClientEffect, GetDeployResourceListEffect,
     ObjectFromManifestEffect, EndOfManifestEffect, DeleteDeprecatedEffect,
     InstallHelmChartEffect, InstallEndEffect, UninstallReleaseEffect, EndOfClearEffect,
     ClearGitRepoEffect, RemoveFinalizerEffect, CallFailsEffect, UpdateDeployResourceEffect,
     DeleteDeployResourceEffect, ClearDeployResourceEffect, At
<1>2. \/ Dies \/ Ends(p) \/ (Others(p) /\ SameCall(proc'[p], proc[p]))
      \/ \E pc \in ProcPc : Moves(p, pc)
  BY DEF Works, FetchEffect, SetTargetClientEffect, GetDeployResourceListEffect,
     ObjectFromManifestEffect, EndOfManifestEffect, DeleteDeprecatedEffect,
     InstallHelmChartEffect, InstallEndEffect, UninstallReleaseEffect, EndOfClearEffect,
     ClearGitRepoEffect, RemoveFinalizerEffect, CallFailsEffect, UpdateDeployResourceEffect,
     DeleteDeployResourceEffect, ClearDeployResourceEffect, Continues, TurnsToClear,
     BreaksOff, ProcPc
<1> QED  BY <1>1, <1>2, MovesSame

(***************************************************************************)
(* One call at a time.                                                     *)
(***************************************************************************)
\* While a call has the manager to itself no other goroutine is in it.
Exclusive ==
    \A p, q \in Procs : p # q /\ ~At(p, "idle") /\ proc[p].alone => At(q, "idle")

\* Only the worker finalizes, and the steps of Clear are taken in a Clear.
WorkerFinalizes ==
    \A p \in Procs :
        /\ proc[p].final \/ proc[p].op = "clear" => p = Worker
        /\ proc[p].pc \in ClearPcs => proc[p].op = "clear"

LEMMA ExclusiveStep ==
    ASSUME TypeInv, Exclusive, [Next]_vars
    PROVE  Exclusive'
<1> SUFFICES ASSUME NEW p \in Procs, NEW q \in Procs, p # q,
                    proc'[p].pc # "idle", proc'[p].alone
             PROVE  proc'[q].pc = "idle"
  BY DEF Exclusive, At
<1>1. CASE Kept
  BY <1>1 DEF Kept, Exclusive, At
<1>2. CASE DiesAlone
  BY <1>2, IdleProcType DEF DiesAlone, Dies
<1>3. ASSUME NEW r \in Procs, ComesIn(r)
      PROVE  proc'[q].pc = "idle"
  <2>1. ASSUME NEW x \in Procs \ {r}, proc'[x].pc # "idle"
        PROVE  ~proc'[x].alone
    <3>1. proc'[x] = [proc[x] EXCEPT !.alone = FALSE]
      BY <1>3, <2>1, IdleProcType DEF ComesIn
    <3> QED  BY <3>1 DEF TypeInv, CallsOK, ProcType
  <2>2. p = r
    BY <2>1
  <2> QED  BY <1>3, <2>2, IdleProcType DEF ComesIn
<1>4. ASSUME NEW r \in Procs, Works(r)
      PROVE  proc'[q].pc = "idle"
  <2>1. CASE Dies
    BY <2>1, IdleProcType DEF Dies
  <2>2. CASE Others(r) /\ (proc'[r] = IdleProc \/ SameCall(proc'[r], proc[r]))
    <3>1. ~At(p, "idle") /\ proc[p].alone
      BY <1>4, <2>2, WorkLeavesOthers, IdleProcType DEF Others, SameCall, At
    <3>2. At(q, "idle")
      BY <3>1 DEF Exclusive
    <3> QED  BY <1>4, <2>2, <3>2, WorkLeavesOthers, IdleProcType DEF Others, At
  <2> QED  BY <1>4, <2>1, <2>2, WorkLeavesOthers DEF Ends
<1> QED  BY <1>1, <1>2, <1>3, <1>4, Steps

WorkerCall(p) ==
    /\ proc[p].final \/ proc[p].op = "clear" => p = Worker
    /\ proc[p].pc \in ClearPcs => proc[p].op = "clear"

LEMMA WorkerCallWorks ==
    ASSUME TypeInv, NEW p \in Procs, WorkerCall(p), Works(p)
    PROVE  WorkerCall(p)'
<1> USE DEF WorkerCall, ClearPcs, At
<1>1. proc[p].op \in {"sync", "clear"}
  BY DEF TypeInv, CallsOK, ProcType
<1>2. CASE Dies \/ Ends(p)
  BY <1>2 DEF Dies, Ends, IdleProc
<1>3. CASE TurnsToClear(p)
  BY <1>3 DEF TurnsToClear, SameCall
<1>4. ASSUME NEW pc \in ProcPc, Moves(p, pc),
             pc \in ClearPcs => proc[p].op = "clear"
      PROVE  WorkerCall(p)'
  BY <1>4, MovesSame DEF SameCall
<1>5. ASSUME SameCall(proc'[p], proc[p]), proc'[p].op = proc[p].op,
             proc'[p].pc \in ClearPcs
               => proc[p].op = "clear"
      PROVE  WorkerCall(p)'
  BY <1>5 DEF SameCall
<1>6. ASSUME NEW pc \in ProcPc, NEW m, NEW t, NEW o, Continues(p, pc, m, t, o),
             pc \in ClearPcs => proc[p].op = "clear"
      PROVE  WorkerCall(p)'
  BY <1>5, <1>6 DEF Continues
<1>7. CASE \/ FetchEffect(p) \/ SetTargetClientEffect(p) \/ EndOfManifestEffect(p)
           \/ UninstallReleaseEffect(p) \/ EndOfClearEffect(p)
           \/ ClearGitRepoEffect(p) \/ RemoveFinalizerEffect(p)
           \/ InstallEndEffect(p) \/ CallFailsEffect(p)
  BY <1>1, <1>2, <1>3, <1>4, <1>7
     DEF FetchEffect, SetTargetClientEffect, EndOfManifestEffect, InstallEndEffect,
         UninstallReleaseEffect, EndOfClearEffect, ClearGitRepoEffect,
         RemoveFinalizerEffect, CallFailsEffect,
         BreaksOff, ProcPc
<1>8. CASE InstallHelmChartEffect(p)
  BY <1>2, <1>5, <1>8 DEF InstallHelmChartEffect, BreaksOff
<1>9. CASE \/ GetDeployResourceListEffect(p) \/ ObjectFromManifestEffect(p)
           \/ DeleteDeprecatedEffect(p)
  BY <1>2, <1>6, <1>9
     DEF GetDeployResourceListEffect, ObjectFromManifestEffect, DeleteDeprecatedEffect,
         BreaksOff, ProcPc
<1>10. CASE \E o \in Objs : \/ UpdateDeployResourceEffect(p, o)
                            \/ DeleteDeployResourceEffect(p, o)
                            \/ ClearDeployResourceEffect(p, o)
  BY <1>2, <1>6, <1>10
     DEF UpdateDeployResourceEffect, DeleteDeployResourceEffect,
         ClearDeployResourceEffect, ProcPc
<1> QED  BY <1>7, <1>8, <1>9, <1>10 DEF Works

LEMMA WorkerFinalizesStep ==
    ASSUME TypeInv, WorkerFinalizes, [Next]_vars
    PROVE  WorkerFinalizes'
<1> SUFFICES ASSUME NEW q \in Procs
             PROVE  WorkerCall(q)'
  BY DEF WorkerFinalizes, WorkerCall
<1>1. WorkerCall(q)
  BY DEF WorkerFinalizes, WorkerCall
<1>2. CASE Kept \/ proc'[q] = proc[q]
  BY <1>1, <1>2 DEF Kept, WorkerCall
<1>3. CASE proc'[q] = IdleProc
  BY <1>3 DEF WorkerCall, ClearPcs, IdleProc
<1>4. ASSUME NEW p \in Procs, ComesIn(p)
      PROVE  WorkerCall(q)'
  <2>1. CASE proc'[q] = [proc[q] EXCEPT !.alone = FALSE]
    BY <1>1, <2>1 DEF WorkerCall, TypeInv, CallsOK, ProcType
  <2>2. CASE q = p
    BY <1>4, <2>2 DEF WorkerCall, ClearPcs, ComesIn
  <2> QED  BY <1>3, <1>4, <2>1, <2>2 DEF ComesIn
<1>5. ASSUME NEW p \in Procs, Works(p)
      PROVE  WorkerCall(q)'
  <2>1. CASE q = p
    BY <1>1, <1>5, <2>1, WorkerCallWorks
  <2>2. CASE q # p
    BY <1>2, <1>3, <1>5, <2>2, WorkLeavesOthers DEF Others, Dies, Ends
  <2> QED  BY <2>1, <2>2
<1> QED  BY <1>2, <1>3, <1>4, <1>5, Steps DEF DiesAlone, Dies

(***************************************************************************)
(* Charts, releases and objects.                                           *)
(***************************************************************************)
\* The chart of an Application renders to objects of its own.
OwnCharts ==
    /\ \A a \in Apps, b \in Branches : head[a][b] \in SUBSET ObjsOf[a]
    /\ \A a \in Apps : clones[a] # None => clones[a].chart \in SUBSET ObjsOf[a]

\* The objects in a cluster are of the releases in it.
LiveIsReleased ==
    \A c \in Clusters, a \in Apps : live[c] \cap ObjsOf[a] \subseteq release[c][a].chart

LEMMA HeadStays ==
    ASSUME [Next]_vars
    PROVE  \/ UNCHANGED head
           \/ \E a \in Apps, b \in Branches :
                \E chart \in SUBSET ObjsOf[a] : head' = [head EXCEPT ![a][b] = chart]
<1>1. ASSUME NEW p \in Procs, SyncStep(p) \/ ClearStep(p) \/ CallFails(p)
      PROVE  UNCHANGED head
  BY <1>1 DEF SyncStep, ClearStep, CallFails, Fetch, SetTargetClient,
     GetDeployResourceList, ObjectFromManifest, UpdateDeployResource,
     DeleteDeployResource, EndOfManifest, DeleteDeprecated, InstallHelmChart,
     InstallEnd, UninstallRelease, EndOfClear, ClearGitRepo, RemoveFinalizer,
     ClearDeployResource, userVars
<1> QED  BY <1>1 DEF Next, UserStep, GitPush, EditTarget, DeleteApp, Crash, CheckSync,
            vars, userVars

\* A clone stays, goes or is made of the head of a branch.
LEMMA ClonesChange ==
    ASSUME TypeInv, [Next]_vars, NEW a \in Apps
    PROVE  \/ clones'[a] = clones[a] \/ clones'[a] = None
           \/ \E b \in Branches : clones'[a].chart = head[a][b]
<1>1. ASSUME NEW p \in Procs, Works(p)
      PROVE  \/ clones'[a] = clones[a] \/ clones'[a] = None
             \/ \E b \in Branches : clones'[a].chart = head[a][b]
  BY <1>1 DEF Works, FetchEffect, SetTargetClientEffect, GetDeployResourceListEffect,
     ObjectFromManifestEffect, EndOfManifestEffect, DeleteDeprecatedEffect,
     InstallHelmChartEffect, InstallEndEffect, UninstallReleaseEffect, EndOfClearEffect,
     ClearGitRepoEffect, RemoveFinalizerEffect, CallFailsEffect, UpdateDeployResourceEffect,
     DeleteDeployResourceEffect, ClearDeployResourceEffect, BreaksOff, RecordsOnly
<1> QED  BY <1>1, Steps DEF Kept, DiesAlone, ComesIn

LEMMA OwnChartsStep ==
    ASSUME TypeInv, OwnCharts, [Next]_vars
    PROVE  OwnCharts'
<1>1. \A a \in Apps, b \in Branches : head'[a][b] \in SUBSET ObjsOf[a]
  <2>1. CASE UNCHANGED head
    BY <2>1 DEF OwnCharts
  <2>2. ASSUME NEW a \in Apps, NEW b \in Branches, NEW chart \in SUBSET ObjsOf[a],
               head' = [head EXCEPT ![a][b] = chart]
        PROVE  \A x \in Apps, y \in Branches : head'[x][y] \in SUBSET ObjsOf[x]
    <3> SUFFICES ASSUME NEW x \in Apps, NEW y \in Branches
                 PROVE  head'[x][y] \in SUBSET ObjsOf[x]
      OBVIOUS
    <3>1. head'[x][y] = head[x][y] \/ (x = a /\ head'[x][y] = chart)
      BY <2>2 DEF TypeInv, ServersOK
    <3> QED  BY <3>1 DEF OwnCharts
  <2> QED  BY <2>1, <2>2, HeadStays
<1>2. \A a \in Apps : clones'[a] # None => clones'[a].chart \in SUBSET ObjsOf[a]
  BY ClonesChange DEF OwnCharts
<1> QED  BY <1>1, <1>2 DEF OwnCharts

\* What a step does to releases and objects.
LEMMA LiveChanges ==
    ASSUME TypeInv, OwnCharts, [Next]_vars
    PROVE  \/ /\ \A c \in Clusters, a \in Apps : release'[c][a].chart = release[c][a].chart
              /\ \A c \in Clusters : live'[c] \subseteq live[c]
           \/ \E c \in Clusters, a \in Apps, s \in {"absent", "pending", "deployed"} :
                \E chart \in SUBSET ObjsOf[a] : Releases(c, a, s, chart)
<1>1. CASE UNCHANGED <<release, live>>
  BY <1>1
<1>2. ASSUME NEW p \in Procs, InstallHelmChartEffect(p) \/ UninstallReleaseEffect(p),
             ~UNCHANGED <<release, live>>
      PROVE  \E c \in Clusters, a \in Apps, s \in {"absent", "pending", "deployed"} :
                \E chart \in SUBSET ObjsOf[a] : Releases(c, a, s, chart)
  <2>1. proc[p].app \in Apps /\ helmClient \in Clusters
    BY <1>2 DEF InstallHelmChartEffect, UninstallReleaseEffect, TypeInv, CallsOK, CallOK, At
  <2>2. CASE InstallHelmChartEffect(p)
    <3>1. /\ CanInstall(p)
          /\ Releases(helmClient, proc[p].app, "pending", clones[proc[p].app].chart)
      BY <1>2, <2>2 DEF InstallHelmChartEffect, BreaksOff
    <3>2. clones[proc[p].app].chart \in SUBSET ObjsOf[proc[p].app]
      BY <2>1, <3>1 DEF CanInstall, OwnCharts
    <3> QED  BY <2>1, <3>1, <3>2
  <2>3. CASE UninstallReleaseEffect(p)
    BY <1>2, <2>1, <2>3 DEF UninstallReleaseEffect, BreaksOff
  <2> QED  BY <1>2, <2>2, <2>3
<1>3. ASSUME NEW p \in Procs, DeleteDeprecatedEffect(p) \/ InstallEndEffect(p)
      PROVE  /\ \A c \in Clusters, a \in Apps : release'[c][a].chart = release[c][a].chart
             /\ \A c \in Clusters : live'[c] \subseteq live[c]
  BY <1>3 DEF DeleteDeprecatedEffect, InstallEndEffect, BreaksOff
<1>4. ASSUME NEW p \in Procs, Works(p)
      PROVE  \/ UNCHANGED <<release, live>>
             \/ InstallHelmChartEffect(p) \/ UninstallReleaseEffect(p)
             \/ DeleteDeprecatedEffect(p) \/ InstallEndEffect(p)
  BY <1>4 DEF Works, FetchEffect, SetTargetClientEffect, GetDeployResourceListEffect,
     ObjectFromManifestEffect, EndOfManifestEffect, EndOfClearEffect,
     ClearGitRepoEffect, RemoveFinalizerEffect, CallFailsEffect, UpdateDeployResourceEffect,
     DeleteDeployResourceEffect, ClearDeployResourceEffect, BreaksOff, RecordsOnly
<1> QED  BY <1>1, <1>2, <1>3, <1>4, Steps DEF Kept, DiesAlone, ComesIn

LEMMA LiveIsReleasedStep ==
    ASSUME TypeInv, OwnCharts, LiveIsReleased, [Next]_vars
    PROVE  LiveIsReleased'
<1>1. ASSUME NEW c \in Clusters, NEW a \in Apps, NEW s \in {"absent", "pending", "deployed"},
             NEW chart \in SUBSET ObjsOf[a], Releases(c, a, s, chart)
      PROVE  LiveIsReleased'
  <2> SUFFICES ASSUME NEW d \in Clusters, NEW b \in Apps
               PROVE  live'[d] \cap ObjsOf[b] \subseteq release'[d][b].chart
    BY DEF LiveIsReleased
  <2>1. live[d] \cap ObjsOf[b] \subseteq release[d][b].chart
    BY DEF LiveIsReleased
  <2>2. chart \in SUBSET Objs
    BY DistinctObjects
  <2>3. /\ live'[c] = (live[c] \ release[c][a].chart) \cup chart
        /\ release'[c][a] = [status |-> s, chart |-> chart]
        /\ d # c \/ b # a => release'[d][b] = release[d][b]
        /\ d # c => live'[d] = live[d]
    <3>1. Released(c, a, s, chart)
      BY <1>1, <2>2, ReleasesOK DEF TypeInv
    <3> QED  BY <3>1 DEF Released
  <2>4. b # a => ObjsOf[b] \cap chart = {}
    BY DistinctObjects
  <2>5. CASE d = c /\ b = a
    BY <2>1, <2>3, <2>5
  <2>6. CASE d = c /\ b # a
    BY <2>1, <2>3, <2>4, <2>6
  <2>7. CASE d # c
    BY <2>1, <2>3, <2>7
  <2> QED  BY <2>5, <2>6, <2>7
<1>2. CASE /\ \A c \in Clusters, a \in Apps : release'[c][a].chart = release[c][a].chart
           /\ \A c \in Clusters : live'[c] \subseteq live[c]
  BY <1>2 DEF LiveIsReleased
<1> QED  BY <1>1, <1>2, LiveChanges

(***************************************************************************)
(* What a call that had the manager to itself knows.                       *)
(***************************************************************************)
\* The clone it fetched is there, the manager talks to the cluster the Application
\* names, and the dry run is of that clone.
KnowsClone(p) ==
    LET a == proc[p].app IN
    /\ proc[p].pc = "fetch" => proc[p].op = "sync"
    /\ proc[p].pc = "target" /\ proc[p].op = "sync" => clones[a] # None
    /\ proc[p].pc \in {"list", "render", "retarget", "record", "prune", "object",
                       "install", "wait"} => clones[a] # None
    /\ proc[p].pc \in {"list", "render", "retarget", "record", "prune", "object",
                       "install", "uninstall"} => helmClient = DestOf[a]
    /\ proc[p].pc \in {"retarget", "record", "prune", "object", "install", "wait"}
         => proc[p].manifest = clones[a].chart
    /\ proc[p].pc = "remove" => clones[a] = None

\* The records are those it found, with what it has added and without what it has
\* taken away.
KnowsRecords(p) ==
    LET r == proc[p]
        R == RecordsOf(r.app) IN
    /\ r.pc = "render" => R = r.old
    /\ r.pc \in {"retarget", "record"} => R \cup r.todo = r.old \cup r.manifest
    /\ r.pc = "prune" => R = r.old \cup r.manifest
    /\ r.pc = "object" => R = (r.old \ r.todo) \cup r.manifest
    /\ r.pc \in {"install", "wait"} => R = r.manifest
    /\ r.pc = "clear" => R \subseteq r.old
    /\ r.pc \in {"hook", "remove"} => R = {}

\* The release is as it left it.
KnowsRelease(p) ==
    LET a == proc[p].app
        d == DestOf[a]
        m == proc[p].manifest IN
    /\ proc[p].pc = "wait" => /\ proc[p].where = d /\ m \subseteq live[d]
                              /\ release[d][a] = [status |-> "pending", chart |-> m]
    /\ proc[p].pc \in {"target", "uninstall"} /\ proc[p].op = "clear" /\ a \in AutoSync
         => release[d][a].status # "absent"
    /\ proc[p].pc \in {"leftover", "clear", "hook", "remove"} => release[d][a] = Absent

Knows(p) == KnowsClone(p) /\ KnowsRecords(p) /\ KnowsRelease(p)

AloneKnows == \A p \in Procs : ~At(p, "idle") /\ proc[p].alone => Knows(p)

LEMMA IdleKnows ==
    ASSUME NEW p \in Procs, Dies \/ Ends(p)
    PROVE  Knows(p)'
BY DEF Dies, Ends, IdleProc, Knows, KnowsClone, KnowsRecords, KnowsRelease

LEMMA RecordsStay == ASSUME NEW a, UNCHANGED records
                     PROVE  RecordsOf(a)' = RecordsOf(a)
BY DEF RecordsOf

\* The finalizer begins: of an Application that is synced by policy there is a release.
LEMMA KnowsToClear ==
    ASSUME NEW p \in Procs, TurnsToClear(p),
           proc[p].app \in AutoSync
             => release'[DestOf[proc[p].app]][proc[p].app].status # "absent"
    PROVE  Knows(p)'
<1>1. /\ proc'[p].pc = "target" /\ proc'[p].op = "clear"
      /\ proc'[p].app = proc[p].app
  BY DEF TurnsToClear, SameCall
<1> QED  BY <1>1 DEF Knows, KnowsClone, KnowsRecords, KnowsRelease

LEMMA FetchKnows ==
    ASSUME TypeInv, NEW p \in Procs, Knows(p), FetchEffect(p)
    PROVE  Knows(p)'
<1>1. CASE Ends(p)
  BY <1>1, IdleKnows
<1>2. CASE Moves(p, "target") /\ clones'[proc[p].app] # None
  <2>1. /\ proc'[p].pc = "target" /\ proc'[p].op = "sync"
        /\ proc'[p].app = proc[p].app /\ clones'[proc[p].app] # None
    BY <1>2, MovesSame DEF FetchEffect, Knows, KnowsClone, SameCall, At
  <2> QED  BY <2>1 DEF Knows, KnowsClone, KnowsRecords, KnowsRelease
<1> QED  BY <1>1, <1>2 DEF FetchEffect

\* What a call keeps when it moves on.
Keeps(p) ==
    /\ proc'[p].manifest = proc[p].manifest /\ proc'[p].todo = proc[p].todo
    /\ proc'[p].old = proc[p].old /\ proc'[p].op = proc[p].op
    /\ proc'[p].app = proc[p].app

LEMMA SetTargetClientKnows ==
    ASSUME TypeInv, NEW p \in Procs, Knows(p), SetTargetClientEffect(p)
    PROVE  Knows(p)'
<1>1. PICK pc \in {"list", "uninstall", "record"} :
        /\ proc'[p].pc = pc /\ Keeps(p)
        /\ pc = "list" => At(p, "target") /\ proc[p].op = "sync"
        /\ pc = "uninstall" => At(p, "target")
        /\ pc = "record" => At(p, "retarget")
  BY MovesSame DEF SetTargetClientEffect, SameCall, Keeps
<1>2. RecordsOf(proc[p].app)' = RecordsOf(proc[p].app)
  BY <1>1, RecordsStay DEF SetTargetClientEffect, Keeps
<1>3. KnowsClone(p)'
  BY <1>1 DEF SetTargetClientEffect, Keeps, Knows, KnowsClone, At
<1>4. KnowsRecords(p)'
  BY <1>1, <1>2 DEF Keeps, Knows, KnowsRecords, At
<1>5. KnowsRelease(p)'
  BY <1>1 DEF SetTargetClientEffect, Keeps, Knows, KnowsRelease, At
<1> QED  BY <1>3, <1>4, <1>5 DEF Knows

LEMMA GetDeployResourceListKnows ==
    ASSUME TypeInv, NEW p \in Procs, Knows(p), GetDeployResourceListEffect(p)
    PROVE  Knows(p)'
<1>1. PICK pc \in {"render", "clear"} :
        /\ proc'[p].pc = pc /\ proc'[p].app = proc[p].app
        /\ proc'[p].old = RecordsOf(proc[p].app)
        /\ pc = "render" => At(p, "list")
        /\ pc = "clear" => At(p, "leftover")
  BY DEF GetDeployResourceListEffect, Continues, SameCall
<1>2. RecordsOf(proc[p].app)' = RecordsOf(proc[p].app)
  BY <1>1, RecordsStay DEF GetDeployResourceListEffect
<1>3. KnowsClone(p)'
  BY <1>1 DEF GetDeployResourceListEffect, Knows, KnowsClone, At
<1>4. KnowsRecords(p)'
  BY <1>1, <1>2 DEF Knows, KnowsRecords, At
<1>5. KnowsRelease(p)'
  BY <1>1 DEF GetDeployResourceListEffect, Knows, KnowsRelease, At
<1> QED  BY <1>3, <1>4, <1>5 DEF Knows

LEMMA ObjectFromManifestKnows ==
    ASSUME TypeInv, NEW p \in Procs, Knows(p), ObjectFromManifestEffect(p)
    PROVE  Knows(p)'
<1> DEFINE chart == clones[proc[p].app].chart
<1>1. CASE BreaksOff(p)
  BY <1>1, IdleKnows DEF BreaksOff
<1>2. CASE ~BreaksOff(p)
  <2>1. PICK pc \in {"record", "retarget"} :
          /\ proc'[p].pc = pc /\ proc'[p].app = proc[p].app
          /\ proc'[p].manifest = chart /\ proc'[p].todo = chart
          /\ proc'[p].old = proc[p].old
    BY <1>2 DEF ObjectFromManifestEffect, Continues, SameCall
  <2>2. UNCHANGED <<clones, helmClient, records>> /\ At(p, "render")
    BY <1>2 DEF ObjectFromManifestEffect
  <2>3. RecordsOf(proc[p].app)' = RecordsOf(proc[p].app)
    BY <2>1, <2>2, RecordsStay
  <2>4. KnowsClone(p)'
    BY <2>1, <2>2 DEF Knows, KnowsClone, At
  <2>5. KnowsRecords(p)'
    BY <2>1, <2>2, <2>3 DEF Knows, KnowsRecords, At
  <2>6. KnowsRelease(p)'
    BY <2>1 DEF KnowsRelease
  <2> QED  BY <2>4, <2>5, <2>6 DEF Knows
<1> QED  BY <1>1, <1>2

LEMMA UpdateDeployResourceKnows ==
    ASSUME TypeInv, NEW p \in Procs, NEW o \in Objs, Knows(p),
           UpdateDeployResourceEffect(p, o)
    PROVE  Knows(p)'
<1>1. /\ proc'[p].pc = "record" /\ proc'[p].app = proc[p].app
      /\ proc'[p].manifest = proc[p].manifest /\ proc'[p].todo = proc[p].todo \ {o}
      /\ proc'[p].old = proc[p].old
      /\ At(p, "record") /\ o \in proc[p].todo /\ UNCHANGED <<clones, helmClient>>
      /\ RecordsOf(proc[p].app)' = RecordsOf(proc[p].app) \cup {o}
  BY DEF UpdateDeployResourceEffect, RecordsOnly, Continues, SameCall
<1>2. KnowsClone(p)'
  BY <1>1 DEF Knows, KnowsClone, At
<1>3. KnowsRecords(p)'
  BY <1>1 DEF Knows, KnowsRecords, At
<1>4. KnowsRelease(p)'
  BY <1>1 DEF KnowsRelease
<1> QED  BY <1>2, <1>3, <1>4 DEF Knows

LEMMA DeleteDeployResourceKnows ==
    ASSUME TypeInv, NEW p \in Procs, NEW o \in Objs, Knows(p),
           DeleteDeployResourceEffect(p, o)
    PROVE  Knows(p)'
<1>1. CASE Ends(p)
  BY <1>1, IdleKnows
<1>2. CASE ~Ends(p)
  <2>1. /\ proc'[p].pc = "object" /\ proc'[p].app = proc[p].app
        /\ proc'[p].manifest = proc[p].manifest /\ proc'[p].todo = {o}
        /\ proc'[p].old = proc[p].old
        /\ At(p, "prune") /\ o \in proc[p].old \ proc[p].manifest
        /\ UNCHANGED <<clones, helmClient>>
        /\ RecordsOf(proc[p].app)' = RecordsOf(proc[p].app) \ {o}
    BY <1>2 DEF DeleteDeployResourceEffect, RecordsOnly, Continues, SameCall
  <2>2. KnowsClone(p)'
    BY <2>1 DEF Knows, KnowsClone, At
  <2>3. KnowsRecords(p)'
    BY <2>1 DEF Knows, KnowsRecords, At
  <2>4. KnowsRelease(p)'
    BY <2>1 DEF KnowsRelease
  <2> QED  BY <2>2, <2>3, <2>4 DEF Knows
<1> QED  BY <1>1, <1>2

LEMMA DeleteDeprecatedKnows ==
    ASSUME TypeInv, NEW p \in Procs, Knows(p), DeleteDeprecatedEffect(p)
    PROVE  Knows(p)'
<1>1. /\ proc'[p].pc = "prune" /\ proc'[p].app = proc[p].app
      /\ proc'[p].manifest = proc[p].manifest
      /\ proc'[p].old = proc[p].old \ proc[p].todo
      /\ At(p, "object") /\ UNCHANGED <<clones, helmClient, records>>
  BY DEF DeleteDeprecatedEffect, Continues, SameCall
<1>2. RecordsOf(proc[p].app)' = RecordsOf(proc[p].app)
  BY <1>1, RecordsStay
<1>3. KnowsClone(p)'
  BY <1>1 DEF Knows, KnowsClone, At
<1>4. KnowsRecords(p)'
  BY <1>1, <1>2 DEF Knows, KnowsRecords, At
<1>5. KnowsRelease(p)'
  BY <1>1 DEF KnowsRelease
<1> QED  BY <1>3, <1>4, <1>5 DEF Knows

\* The records are those of the manifest by the time of the installation.
LEMMA EndOfManifestKnows ==
    ASSUME TypeInv, NEW p \in Procs, Knows(p), EndOfManifestEffect(p)
    PROVE  Knows(p)'
<1>1. CASE Ends(p)
  BY <1>1, IdleKnows
<1>2. CASE ~Installs(p) /\ TurnsToClear(p)
  BY <1>2, KnowsToClear DEF Installs
<1>3. ASSUME NEW pc \in {"prune", "install"}, Moves(p, pc),
             pc = "prune" => At(p, "record") /\ proc[p].todo = {},
             pc = "install" => /\ At(p, "prune") \/ (At(p, "record") /\ proc[p].todo = {})
                               /\ proc[p].old \ proc[p].manifest = {}
      PROVE  Knows(p)'
  <2>1. proc'[p].pc = pc /\ Keeps(p)
    BY <1>3, MovesSame DEF SameCall, Keeps
  <2>2. UNCHANGED <<clones, helmClient, records>>
    BY DEF EndOfManifestEffect
  <2>3. RecordsOf(proc[p].app)' = RecordsOf(proc[p].app)
    BY <2>1, <2>2, RecordsStay DEF Keeps
  <2>4. KnowsClone(p)'
    BY <1>3, <2>1, <2>2 DEF Keeps, Knows, KnowsClone, At
  <2>5. KnowsRecords(p)'
    <3>1. RecordsOf(proc[p].app) = proc[p].old \cup proc[p].manifest
      BY <1>3 DEF Knows, KnowsRecords, At
    <3>2. pc = "install" => RecordsOf(proc[p].app) = proc[p].manifest
      BY <1>3, <3>1
    <3> QED  BY <2>1, <2>3, <3>1, <3>2 DEF Keeps, KnowsRecords
  <2>6. KnowsRelease(p)'
    BY <2>1 DEF KnowsRelease
  <2> QED  BY <2>4, <2>5, <2>6 DEF Knows
<1> QED  BY <1>1, <1>2, <1>3 DEF EndOfManifestEffect

LEMMA InstallHelmChartKnows ==
    ASSUME TypeInv, OwnCharts, NEW p \in Procs, Knows(p), InstallHelmChartEffect(p)
    PROVE  Knows(p)'
<1> DEFINE a == proc[p].app
           chart == clones[a].chart
<1>1. CASE BreaksOff(p)
  BY <1>1, IdleKnows DEF BreaksOff
<1>2. CASE ~BreaksOff(p)
  <2>1. /\ proc'[p].pc = "wait" /\ proc'[p].app = a /\ proc'[p].where = helmClient
        /\ proc'[p].manifest = proc[p].manifest
        /\ At(p, "install") /\ CanInstall(p) /\ UNCHANGED <<clones, helmClient, records>>
        /\ Releases(helmClient, a, "pending", chart)
    BY <1>2 DEF InstallHelmChartEffect, SameCall
  <2>2. a \in Apps /\ helmClient \in Clusters
    BY <2>1 DEF TypeInv, CallsOK, CallOK, At
  <2>3. helmClient = DestOf[a] /\ proc[p].manifest = chart /\ clones[a] # None
    BY <2>1 DEF Knows, KnowsClone, At
  <2>4. chart \in SUBSET Objs
    BY <2>2, <2>3, DistinctObjects DEF OwnCharts
  <2>5. Released(helmClient, a, "pending", chart)
    BY <2>1, <2>2, <2>4, ReleasesOK DEF TypeInv
  <2>6. RecordsOf(a)' = RecordsOf(a)
    BY <2>1, RecordsStay
  <2>7. KnowsClone(p)'
    BY <2>1, <2>3 DEF Knows, KnowsClone, At
  <2>8. KnowsRecords(p)'
    BY <2>1, <2>6 DEF Knows, KnowsRecords, At
  <2>9. KnowsRelease(p)'
    <3>1. chart \subseteq live'[helmClient]
      BY <2>5 DEF Released
    <3>2. release'[helmClient][a] = [status |-> "pending", chart |-> chart]
      BY <2>5 DEF Released
    <3> HIDE DEF a, chart
    <3>3. proc[p].app = a /\ proc'[p].manifest = chart
      BY <2>1, <2>3 DEF a
    <3> QED  BY <2>1, <2>3, <3>1, <3>2, <3>3 DEF KnowsRelease
  <2> QED  BY <2>7, <2>8, <2>9 DEF Knows
<1> QED  BY <1>1, <1>2

LEMMA InstallEndKnows ==
    ASSUME TypeInv, NEW p \in Procs, Knows(p), InstallEndEffect(p)
    PROVE  Knows(p)'
<1>1. CASE BreaksOff(p) \/ Ends(p)
  BY <1>1, IdleKnows DEF BreaksOff
<1>2. CASE ~BreaksOff(p) /\ ~Ends(p)
  <2>1. /\ TurnsToClear(p) /\ At(p, "wait")
        /\ release'[proc[p].where][proc[p].app].status = "deployed"
    BY <1>2 DEF InstallEndEffect
  <2>2. proc[p].where = DestOf[proc[p].app]
    BY <2>1 DEF Knows, KnowsRelease, At
  <2> QED  BY <2>1, <2>2, KnowsToClear
<1> QED  BY <1>1, <1>2

LEMMA UninstallReleaseKnows ==
    ASSUME TypeInv, NEW p \in Procs, Knows(p), UninstallReleaseEffect(p)
    PROVE  Knows(p)'
<1> DEFINE a == proc[p].app
<1>1. CASE BreaksOff(p)
  BY <1>1, IdleKnows DEF BreaksOff
<1>2. CASE ~BreaksOff(p)
  <2>1. /\ proc'[p].pc = "leftover" /\ proc'[p].app = a /\ At(p, "uninstall")
        /\ Releases(helmClient, a, "absent", {})
    BY <1>2, MovesSame DEF UninstallReleaseEffect, SameCall
  <2>2. a \in Apps /\ helmClient \in Clusters /\ helmClient = DestOf[a]
    BY <2>1 DEF TypeInv, CallsOK, CallOK, At, Knows, KnowsClone
  <2>3. Released(helmClient, a, "absent", {})
    BY <2>1, <2>2, ReleasesOK DEF TypeInv
  <2>4. release'[DestOf[a]][a] = Absent
    BY <2>2, <2>3 DEF Released, Absent
  <2> QED  BY <2>1, <2>4 DEF Knows, KnowsClone, KnowsRecords, KnowsRelease
<1> QED  BY <1>1, <1>2

LEMMA ClearDeployResourceKnows ==
    ASSUME TypeInv, NEW p \in Procs, NEW o \in Objs, Knows(p),
           ClearDeployResourceEffect(p, o)
    PROVE  Knows(p)'
<1>1. CASE Ends(p)
  BY <1>1, IdleKnows
<1>2. CASE ~Ends(p)
  <2>1. /\ proc'[p].pc = "clear" /\ proc'[p].app = proc[p].app
        /\ proc'[p].old = proc[p].old \ {o}
        /\ At(p, "clear") /\ UNCHANGED <<clones, helmClient, release>>
        /\ RecordsOf(proc[p].app)' = RecordsOf(proc[p].app) \ {o}
    BY <1>2 DEF ClearDeployResourceEffect, RecordsOnly, Continues, SameCall
  <2>2. KnowsRecords(p)'
    BY <2>1 DEF Knows, KnowsRecords, At
  <2>3. KnowsClone(p)' /\ KnowsRelease(p)'
    BY <2>1 DEF Knows, KnowsClone, KnowsRelease, At
  <2> QED  BY <2>2, <2>3 DEF Knows
<1> QED  BY <1>1, <1>2

LEMMA EndOfClearKnows ==
    ASSUME TypeInv, NEW p \in Procs, Knows(p), EndOfClearEffect(p)
    PROVE  Knows(p)'
<1>1. /\ proc'[p].pc = "hook" /\ proc'[p].app = proc[p].app
      /\ At(p, "clear") /\ proc[p].old = {} /\ UNCHANGED <<release, records>>
  BY MovesSame DEF EndOfClearEffect, SameCall
<1>2. RecordsOf(proc[p].app)' = RecordsOf(proc[p].app)
  BY <1>1, RecordsStay
<1>3. KnowsRecords(p)'
  BY <1>1, <1>2 DEF Knows, KnowsRecords, At
<1>4. KnowsClone(p)' /\ KnowsRelease(p)'
  BY <1>1 DEF Knows, KnowsClone, KnowsRelease, At
<1> QED  BY <1>3, <1>4 DEF Knows

LEMMA ClearGitRepoKnows ==
    ASSUME TypeInv, NEW p \in Procs, Knows(p), ClearGitRepoEffect(p)
    PROVE  Knows(p)'
<1>1. /\ proc'[p].pc = "remove" /\ proc'[p].app = proc[p].app
      /\ At(p, "hook") /\ clones'[proc[p].app] = None /\ UNCHANGED <<release, records>>
  BY MovesSame DEF ClearGitRepoEffect, SameCall
<1>2. RecordsOf(proc[p].app)' = RecordsOf(proc[p].app)
  BY <1>1, RecordsStay
<1>3. KnowsRecords(p)'
  BY <1>1, <1>2 DEF Knows, KnowsRecords, At
<1>4. KnowsClone(p)' /\ KnowsRelease(p)'
  BY <1>1 DEF Knows, KnowsClone, KnowsRelease, At
<1> QED  BY <1>3, <1>4 DEF Knows

LEMMA WorkKnows ==
    ASSUME TypeInv, OwnCharts, NEW p \in Procs, Knows(p), Works(p)
    PROVE  Knows(p)'
<1>1. CASE CallFailsEffect(p) \/ RemoveFinalizerEffect(p)
  BY <1>1, IdleKnows DEF CallFailsEffect, RemoveFinalizerEffect
<1> QED  BY <1>1, FetchKnows, SetTargetClientKnows, GetDeployResourceListKnows,
            ObjectFromManifestKnows, UpdateDeployResourceKnows, DeleteDeployResourceKnows,
            EndOfManifestKnows, DeleteDeprecatedKnows, InstallHelmChartKnows,
            InstallEndKnows, UninstallReleaseKnows, EndOfClearKnows, ClearGitRepoKnows,
            ClearDeployResourceKnows DEF Works

LEMMA AloneKnowsStep ==
    ASSUME TypeInv, OwnCharts, Exclusive, AloneKnows, [Next]_vars
    PROVE  AloneKnows'
<1> SUFFICES ASSUME NEW p \in Procs, proc'[p].pc # "idle", proc'[p].alone
             PROVE  Knows(p)'
  BY DEF AloneKnows, At
<1>1. CASE Kept
  <2>1. Knows(p)
    BY <1>1 DEF Kept, AloneKnows, At
  <2>2. RecordsOf(proc[p].app)' = RecordsOf(proc[p].app)
    BY <1>1, RecordsStay DEF Kept
  <2> QED  BY <1>1, <2>1, <2>2 DEF Kept, Knows, KnowsClone, KnowsRecords, KnowsRelease
<1>2. CASE Dies
  BY <1>2, IdleKnows
<1>3. ASSUME NEW q \in Procs, ComesIn(q)
      PROVE  Knows(p)'
  <2>1. CASE p = q
    BY <1>3, <2>1 DEF ComesIn, Knows, KnowsClone, KnowsRecords, KnowsRelease
  <2>2. CASE p # q
    <3>1. proc'[p] = [proc[p] EXCEPT !.alone = FALSE]
      BY <1>3, <2>2, IdleProcType DEF ComesIn
    <3> QED  BY <3>1 DEF TypeInv, CallsOK, ProcType
  <2> QED  BY <2>1, <2>2
<1>4. ASSUME NEW q \in Procs, Works(q), ~Dies, ~Ends(p)
      PROVE  Knows(p)'
  <2>1. /\ ~At(q, "idle")
        /\ proc'[q] = IdleProc \/ SameCall(proc'[q], proc[q])
        /\ Others(q)
    BY <1>4, WorkLeavesOthers DEF Ends
  <2>2. p = q
    <3>1. ASSUME p # q
          PROVE  ~At(p, "idle") /\ proc[p].alone
      BY <2>1, <3>1 DEF Others, At
    <3> QED  BY <2>1, <3>1 DEF Exclusive
  <2>3. Knows(p)
    BY <2>1, <2>2, IdleProcType DEF AloneKnows, SameCall
  <2> QED  BY <1>4, <2>2, <2>3, WorkKnows
<1>5. CASE Ends(p)
  BY <1>5, IdleProcType DEF Ends
<1> QED  BY <1>1, <1>2, <1>3, <1>4, <1>5, Steps DEF DiesAlone

(***************************************************************************)
(* The invariant.                                                          *)
(***************************************************************************)
EventsCount == events \in Nat

HelmInv ==
    /\ TypeInv /\ EventsCount /\ OwnCharts /\ LiveIsReleased
    /\ Exclusive /\ WorkerFinalizes /\ AloneKnows

LEMMA EventsStep ==
    ASSUME EventsCount, [Next]_vars
    PROVE  EventsCount'
<1>1. events' = events \/ events' = events + 1
  BY DEF Next, UserStep, SyncStep, ClearStep, GitPush, EditTarget, DeleteApp, Crash,
     CallFails, CheckSync, Fetch, SetTargetClient, GetDeployResourceList,
     ObjectFromManifest, UpdateDeployResource, DeleteDeployResource, EndOfManifest,
     DeleteDeprecated, InstallHelmChart, InstallEnd, UninstallRelease, EndOfClear,
     ClearGitRepo, RemoveFinalizer, ClearDeployResource, Event, vars
<1> QED  BY <1>1 DEF EventsCount

LEMMA InvInit == Init => HelmInv
<1> SUFFICES ASSUME Init
             PROVE  HelmInv
  OBVIOUS
<1>1. \A p \in Procs : proc[p] = IdleProc
  BY DEF Init
<1>2. Exclusive /\ WorkerFinalizes /\ AloneKnows
  BY <1>1 DEF Exclusive, WorkerFinalizes, ClearPcs, AloneKnows, At, IdleProc
<1>3. OwnCharts /\ LiveIsReleased /\ EventsCount
  BY DistinctObjects DEF Init, OwnCharts, LiveIsReleased, EventsCount
<1> QED  BY <1>2, <1>3, TypeInit DEF HelmInv

LEMMA InvStep == HelmInv /\ [Next]_vars => HelmInv'
BY TypeStep, EventsStep, OwnChartsStep, LiveIsReleasedStep, ExclusiveStep,
   WorkerFinalizesStep, AloneKnowsStep DEF HelmInv

LEMMA Invariant == Spec => []HelmInv
BY InvInit, InvStep, PTL DEF Spec

(***************************************************************************)
(* Theorems.                                                               *)
(***************************************************************************)
\* Every variable keeps its type; a goroutine that is in the manager has an
\* Application, one that helm works for has a client, and one that waits for an
\* installation the cluster it began in.
THEOREM TypeCorrect == Spec => []TypeInv
<1>1. HelmInv => TypeInv
  BY DEF HelmInv
<1> QED  BY <1>1, Invariant, PTL

\* A step at which a call that has the manager to itself ends or goes on is its own.
LEMMA OwnStep ==
    ASSUME HelmInv, [Next]_vars, NEW p \in Procs, ~At(p, "idle"), proc[p].alone,
           ~Kept, ~DiesAlone, ~\E q \in Procs : ComesIn(q)
    PROVE  Works(p)
<1>1. PICK q \in Procs : Works(q)
  BY Steps DEF HelmInv
<1>2. ~At(q, "idle")
  BY <1>1, WorkLeavesOthers DEF HelmInv
<1> QED  BY <1>1, <1>2 DEF HelmInv, Exclusive

\* The releases change as a call that had the manager to itself ends its
\* installation.
LEMMA InstallationEnds ==
    ASSUME HelmInv, [Next]_vars, NEW p \in Procs, At(p, "wait"), proc[p].alone,
           release' # release
    PROVE  /\ release'[DestOf[proc[p].app]][proc[p].app]
                = [status |-> "deployed", chart |-> proc[p].manifest]
           /\ proc[p].manifest = live[DestOf[proc[p].app]] \cap ObjsOf[proc[p].app]
           /\ RecordsOf(proc[p].app) = proc[p].manifest
<1> DEFINE a == proc[p].app
           d == DestOf[a]
           m == proc[p].manifest
<1>1. ~Kept /\ ~DiesAlone /\ ~\E q \in Procs : ComesIn(q)
  BY DEF Kept, DiesAlone, ComesIn
<1>2. Works(p)
  BY <1>1, OwnStep DEF At
<1>3. InstallEndEffect(p) /\ ~BreaksOff(p)
  BY <1>2 DEF Works, At, FetchEffect, SetTargetClientEffect, GetDeployResourceListEffect,
     ObjectFromManifestEffect, EndOfManifestEffect, DeleteDeprecatedEffect,
     InstallHelmChartEffect, UninstallReleaseEffect, EndOfClearEffect,
     ClearGitRepoEffect, RemoveFinalizerEffect, CallFailsEffect, UpdateDeployResourceEffect,
     DeleteDeployResourceEffect, ClearDeployResourceEffect, BreaksOff
<1>4. Knows(p) /\ a \in Apps
  BY DEF HelmInv, AloneKnows, TypeInv, CallsOK, CallOK, At
<1>5. /\ proc[p].where = d /\ m \subseteq live[d] /\ RecordsOf(a) = m
      /\ release[d][a] = [status |-> "pending", chart |-> m]
      /\ clones[a] # None /\ m = clones[a].chart
  BY <1>4 DEF Knows, KnowsClone, KnowsRecords, KnowsRelease, At
<1>6. d \in Clusters
  BY <1>4, HomeAssumption
<1>7. m \in SUBSET ObjsOf[a]
  BY <1>4, <1>5 DEF HelmInv, OwnCharts
<1>8. live[d] \cap ObjsOf[a] \subseteq m
  BY <1>4, <1>5, <1>6 DEF HelmInv, LiveIsReleased
<1>9. release'[d][a] = [status |-> "deployed", chart |-> m]
  BY <1>3, <1>5 DEF InstallEndEffect
<1>10. m = live[d] \cap ObjsOf[a]
  BY <1>5, <1>7, <1>8
<1> QED  BY <1>5, <1>9, <1>10

\* A Sync that had the manager to itself leaves the release, the objects and the
\* DeployResources in agreement with what its dry run returned, in the cluster the
\* Application names: objectFromManifest and installHelmChart read the same clone,
\* and every way from the one to the other goes over records made and taken away.
THEOREM InstallsMatch == Spec => InstallsWhatWasRecorded
<1> DEFINE Agrees ==
        \A p \in Procs :
            /\ At(p, "wait") /\ proc[p].alone
            /\ release' # release
            => LET a == proc[p].app
                   m == proc[p].manifest IN
               /\ release'[DestOf[a]][a] = [status |-> "deployed", chart |-> m]
               /\ m = live[DestOf[a]] \cap ObjsOf[a]
               /\ RecordsOf(a) = m
<1>1. HelmInv /\ [Next]_vars => [Agrees]_vars
  BY InstallationEnds
<1> QED  BY <1>1, InvInit, InvStep, PTL DEF Spec, InstallsWhatWasRecorded

LEMMA FinalizerGoes ==
    ASSUME HelmInv, [Next]_vars, NEW a \in Apps, app'[a] = "gone", app[a] # "gone",
           proc[Worker].alone
    PROVE  /\ release[DestOf[a]][a] = Absent
           /\ live[DestOf[a]] \cap ObjsOf[a] = {}
           /\ RecordsOf(a) = {} /\ clones[a] = None
<1>1. PICK p \in Procs : RemoveFinalizer(p)
  <2>1. ASSUME NEW p \in Procs, SyncStep(p) \/ CallFails(p)
        PROVE  UNCHANGED app
    BY <2>1 DEF SyncStep, CallFails, Fetch, SetTargetClient, GetDeployResourceList,
       ObjectFromManifest, UpdateDeployResource, DeleteDeployResource, EndOfManifest,
       DeleteDeprecated, InstallHelmChart, InstallEnd
  <2>2. ASSUME NEW p \in Procs, ClearStep(p), ~RemoveFinalizer(p)
        PROVE  UNCHANGED app
    BY <2>2 DEF ClearStep, UninstallRelease, EndOfClear, ClearGitRepo, ClearDeployResource
  <2>3. app'[a] = app[a] \/ \E p \in Procs : RemoveFinalizer(p)
    <3>1. CASE UserStep
      BY <3>1 DEF UserStep, GitPush, EditTarget, DeleteApp, HelmInv, TypeInv, ServersOK
    <3> QED  BY <2>1, <2>2, <3>1 DEF Next, Crash, CheckSync, vars
  <2> QED  BY <2>3
<1>2. At(p, "remove") /\ proc[p].app = a
  BY <1>1 DEF RemoveFinalizer, HelmInv, TypeInv, ServersOK
<1>3. p = Worker
  BY <1>2 DEF HelmInv, WorkerFinalizes, ClearPcs, At
<1>4. Knows(p)
  BY <1>2, <1>3 DEF HelmInv, AloneKnows, At
<1>5. release[DestOf[a]][a] = Absent /\ RecordsOf(a) = {} /\ clones[a] = None
  BY <1>2, <1>4 DEF Knows, KnowsClone, KnowsRecords, KnowsRelease, At
<1>6. live[DestOf[a]] \cap ObjsOf[a] \subseteq {}
  BY <1>5, HomeAssumption DEF HelmInv, LiveIsReleased, Absent
<1> QED  BY <1>2, <1>5, <1>6

\* finalizeApp takes the finalizer away from an Application of which neither the
\* release nor an object, a record or the clone is left, whatever failed or died
\* before: UninstallRelease must have succeeded in this call, and the records it
\* then listed it has deleted.
THEOREM FinalizerLeavesNothing == Spec => FinalizedIsClean
<1> DEFINE Clean ==
        \A a \in Apps :
            app'[a] = "gone" /\ app[a] # "gone" /\ proc[Worker].alone
              => /\ release[DestOf[a]][a] = Absent
                 /\ live[DestOf[a]] \cap ObjsOf[a] = {}
                 /\ RecordsOf(a) = {} /\ clones[a] = None
<1>1. HelmInv /\ [Next]_vars => [Clean]_vars
  BY FinalizerGoes
<1> QED  BY <1>1, InvInit, InvStep, PTL DEF Spec, FinalizedIsClean

\* A failing call and a crash are counted.
LEMMA FailuresCount ==
    ASSUME HelmInv, UNCHANGED events
    PROVE  ~Crash /\ \A p \in Procs : ~CallFails(p)
BY DEF Crash, CallFails, Event, HelmInv, EventsCount

LEMMA CallDies ==
    ASSUME HelmInv, [Next]_vars, NEW p \in Procs,
           proc[p].pc \in {"render", "install", "wait", "uninstall"},
           proc'[p] = IdleProc, UNCHANGED <<release, events>>, proc[p].alone
    PROVE  \/ Stuck(proc[p].app)
           \/ proc[p].app \notin AutoSync /\ At(p, "uninstall")
<1> DEFINE a == proc[p].app
           d == DestOf[a]
<1>1. /\ Knows(p) /\ a \in Apps /\ d \in Clusters
      /\ \A x \in Procs : x # p => At(x, "idle")
  BY HomeAssumption DEF HelmInv, AloneKnows, Exclusive, TypeInv, CallsOK, CallOK, At
<1>2. PICK q \in Procs : SyncStep(q) \/ ClearStep(q)
  <2>1. ~UserStep /\ ~UNCHANGED vars
    BY IdleProcType DEF UserStep, GitPush, EditTarget, DeleteApp, vars
  <2>2. ASSUME NEW x \in Procs, NEW b \in Apps, CheckSync(x, b)
        PROVE  FALSE
    <3>1. p # x /\ ~At(p, "idle")
      BY <2>2, CheckSyncDoes DEF HelmInv, At
    <3>2. proc'[p] = [proc[p] EXCEPT !.alone = FALSE]
      BY <2>2, <3>1, CheckSyncDoes DEF HelmInv
    <3> QED  BY <3>1, <3>2, IdleProcType DEF HelmInv, TypeInv, CallsOK, ProcType, At
  <2> QED  BY <2>1, <2>2, FailuresCount DEF Next
<1>3. q = p
  <2>1. ~At(q, "idle")
    BY <1>2, WorkDoes, WorkLeavesOthers DEF HelmInv
  <2> QED  BY <1>1, <2>1
<1>4. \/ ObjectFromManifestEffect(p) \/ InstallHelmChartEffect(p)
      \/ InstallEndEffect(p) \/ UninstallReleaseEffect(p)
  <2>1. \/ ObjectFromManifest(p) \/ InstallHelmChart(p)
        \/ InstallEnd(p) \/ UninstallRelease(p)
    BY <1>2, <1>3 DEF SyncStep, ClearStep, Fetch, SetTargetClient, GetDeployResourceList,
       UpdateDeployResource, DeleteDeployResource, EndOfManifest, DeleteDeprecated,
       EndOfClear, ClearGitRepo, RemoveFinalizer,
     ClearDeployResource, At
  <2> QED  BY <2>1, ObjectFromManifestDoes, InstallHelmChartDoes, InstallEndDoes,
              UninstallReleaseDoes DEF HelmInv
<1>5. ASSUME proc[p].pc \in {"render", "install"}, ~CanInstall(p)
      PROVE  Stuck(a)
  <2>1. release[d][a].status = "pending"
    BY <1>1, <1>5 DEF Knows, KnowsClone, CanInstall
  <2>2. \A x \in Procs : ~At(x, "wait")
    BY <1>1, <1>5 DEF At
  <2> QED  BY <1>1, <2>1, <2>2 DEF Stuck
<1>6. CASE ObjectFromManifestEffect(p)
  BY <1>5, <1>6, IdleProcType DEF ObjectFromManifestEffect, Continues, At
<1>7. CASE InstallHelmChartEffect(p)
  BY <1>5, <1>7, IdleProcType DEF InstallHelmChartEffect, At
<1>8. CASE InstallEndEffect(p)
  <2>1. proc[p].where = d /\ release[d][a].status = "pending"
    BY <1>1, <1>8 DEF Knows, KnowsRelease, InstallEndEffect, At
  <2>2. release'[d][a].status = "deployed"
    BY <1>8, <2>1 DEF InstallEndEffect
  <2> QED  BY <2>1, <2>2
<1>9. CASE UninstallReleaseEffect(p)
  <2>1. At(p, "uninstall") /\ release[helmClient][a].status = "absent"
    BY <1>9, MovesSame, IdleProcType DEF UninstallReleaseEffect, HelmInv
  <2>2. helmClient = d /\ proc[p].op = "clear"
    BY <1>1, <2>1 DEF Knows, KnowsClone, HelmInv, WorkerFinalizes, ClearPcs, At
  <2> QED  BY <1>1, <2>1, <2>2 DEF Knows, KnowsRelease, At
<1> QED  BY <1>4, <1>6, <1>7, <1>8, <1>9

\* The manager panics where helm fails, and that ends the process.  Without a failing
\* call it does so only where a broken off installation has left the release pending,
\* or where the Application deleted is synced by hand and was never installed.
THEOREM DeathsAreKnown == Spec => DiesOnlyOf
<1> DEFINE Known ==
        \A p \in Procs :
            /\ proc[p].pc \in {"render", "install", "wait", "uninstall"}
            /\ proc'[p] = IdleProc /\ UNCHANGED <<release, events>> /\ proc[p].alone
            => \/ Stuck(proc[p].app)
               \/ proc[p].app \notin AutoSync /\ At(p, "uninstall")
<1>1. HelmInv /\ [Next]_vars => [Known]_vars
  BY CallDies
<1> QED  BY <1>1, InvInit, InvStep, PTL DEF Spec, DiesOnlyOf
=============================================================================
