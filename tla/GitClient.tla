----------------------------- MODULE GitClient ------------------------------
(***************************************************************************)
(* The calls of a git.Client (pkg/git/github, pkg/git/gitlab) against one  *)
(* repository that others change between its requests: paged listings      *)
(* (pkg/git/http.go, linkparser.go), commit statuses in each server's own  *)
(* vocabulary, and manifests that are listed directory by directory and    *)
(* then read one by one.                                                   *)
(*                                                                         *)
(* Each HTTP request is a step.  One call is under way at a time; what     *)
(* other clients do meanwhile is done by the environment.                  *)
(***************************************************************************)
EXTENDS Integers, Sequences, FiniteSets, SequencesExt

CONSTANTS Files, Dirs, Contents, Contexts,
          Root,        \* Spec.Source.Path
          DirOf,       \* per file: its directory
          ParentOf,    \* per directory but Root: the one it is in
          None,
          PageSize,    \* entries per page: per_page=100
          TreePage,    \* entries of a GitLab tree listing, which has one page
          MaxEvents    \* bound: changes made to the repository

ASSUME PageAssumption == PageSize \in Nat \ {0} /\ TreePage \in Nat \ {0}
ASSUME ContentsAssumption == Contents # {}

VARIABLES api,         \* which server: "github" or "gitlab"
          hooks,       \* its webhooks, oldest first, by ID
          statuses,    \* its commit statuses, in the order it lists them
          wrote,       \* per context: the status set last, None if by others
          tree,        \* per file of the branch: its content, or None
          call,        \* the client's call under way
          since,       \* what has been there since the call began
          events

vars == <<api, hooks, statuses, wrote, tree, call, since, events>>

\* CommitStatusState.
States == {"pending", "success", "failure", "error"}
\* The states of GitLab that stand for them.
GitlabStates == {"running", "success", "failed"}

Idle == [op |-> "idle", page |-> 0, got |-> <<>>, kind |-> None,
         dirs |-> {}, infos |-> {}, objs |-> {}]

\* since.ids: the webhooks, since.files: the files there all the time;
\* since.seen: the contents a file has had; since.moved: entries of the list
\* asked for were removed or, among the statuses, written; since.cut: a directory
\* had more than a page.
Since == [ids |-> ToSet(hooks), files |-> {f \in Files : tree[f] # None},
          seen |-> {<<f, tree[f]>> : f \in {g \in Files : tree[g] # None}}, moved |-> FALSE, cut |-> FALSE]

NoSince == [ids |-> {}, files |-> {}, seen |-> {}, moved |-> FALSE, cut |-> FALSE]

Event == events < MaxEvents /\ events' = events + 1

InCall == call.op \notin {"idle", "listed", "manifests"}

(***************************************************************************)
(* Other clients of the repository.                                        *)
(***************************************************************************)
FirstIds == <<1, 2>>
NewId == Len(FirstIds) + events + 1

HookDeleted(i) ==
    /\ Event
    /\ hooks' = RemoveAt(hooks, i)
    /\ since' = IF InCall THEN [since EXCEPT !.ids = @ \ {hooks[i]},
                                             !.moved = @ \/ call.op = "hooks"]
                          ELSE since
    /\ UNCHANGED <<api, statuses, wrote, tree, call>>

HookAdded ==
    /\ Event
    /\ hooks' = Append(hooks, NewId)
    /\ UNCHANGED <<api, statuses, wrote, tree, call, since>>

\* A commit to the branch gives a file a content or removes it.
GitPush(f, x) ==
    /\ tree[f] # x /\ Event
    /\ tree' = [tree EXCEPT ![f] = x]
    /\ since' = IF InCall THEN [since EXCEPT !.seen = @ \cup ({f} \X {x} \ {<<f, None>>}),
                                             !.files = IF x = None THEN @ \ {f} ELSE @]
                          ELSE since
    /\ UNCHANGED <<api, hooks, statuses, wrote, call>>

\* The list of a commit's statuses once one is written.  GitHub logs them,
\* newest first.  GitLab changes one that is running in place and refuses to
\* run it again; one that has ended gives way to a new one.
Written(ctx, raw) ==
    LET old == {j \in DOMAIN statuses : statuses[j].context = ctx}
        i   == CHOOSE j \in old : TRUE    \* GitLab's only one
        new == [context |-> ctx, state |-> raw] IN
    CASE api = "github" -> <<new>> \o statuses
      [] api = "gitlab" /\ old = {} -> Append(statuses, new)
      [] api = "gitlab" /\ old # {} /\ statuses[i].state = "running" ->
            [statuses EXCEPT ![i] = new]
      [] api = "gitlab" /\ old # {} /\ statuses[i].state # "running" ->
            Append(RemoveAt(statuses, i), new)

StatusByOthers(ctx, raw) ==
    /\ raw \in (IF api = "github" THEN States ELSE GitlabStates) /\ Event
    /\ statuses' = Written(ctx, raw)
    /\ wrote' = [wrote EXCEPT ![ctx] = None]
    /\ since' = IF InCall THEN [since EXCEPT !.moved = @ \/ call.op = "statuses"] ELSE since
    /\ UNCHANGED <<api, hooks, tree, call>>

(***************************************************************************)
(* The client.  A call begins, is answered page by page, and may fail.     *)
(***************************************************************************)
At(op) == call.op = op

Begin(op) ==
    /\ At("idle")
    /\ call' = [Idle EXCEPT !.op = op, !.page = 1,
                            !.dirs = IF op = "infos" THEN {Root} ELSE {}]
    /\ since' = Since
    /\ UNCHANGED <<api, hooks, statuses, wrote, tree, events>>

Return ==
    /\ call' = Idle /\ since' = NoSince
    /\ UNCHANGED <<api, hooks, statuses, wrote, tree, events>>

\* Mutant of RequestFails: what was collected is returned.
RequestFailsPartly ==
    /\ InCall
    /\ call' = [call EXCEPT !.op = "listed", !.kind = call.op]
    /\ UNCHANGED <<api, hooks, statuses, wrote, tree, since, events>>

\* A request is refused: the error goes up, what was collected is dropped.
RequestFails == InCall /\ Return

\* The caller has its result.
EndOfCall == ~InCall /\ ~At("idle") /\ Return

\* The answer's Link header has an entry rel="next".
NextLink(all) == PageSize * call.page < Len(all)

\* GetPaginatedRequest: accumulate, then follow rel="next" while there is one.
GetPaginatedRequest ==
    LET all == IF At("hooks") THEN hooks ELSE statuses
        end == PageSize * call.page
        got == call.got \o SubSeq(all, end - PageSize + 1,
                                  IF end < Len(all) THEN end ELSE Len(all)) IN
    /\ call.op \in {"hooks", "statuses"}
    /\ call' = IF NextLink(all)
                 THEN [call EXCEPT !.got = got, !.page = @ + 1]
                 ELSE [call EXCEPT !.got = got, !.kind = call.op, !.op = "listed"]
    /\ UNCHANGED <<api, hooks, statuses, wrote, tree, since, events>>

\* What ListCommitStatuses makes of the pages: GitHub's first entry of a context
\* is its newest, GitLab's states are translated.
FirstOfContext(got) ==
    {got[i] : i \in {j \in DOMAIN got :
                       \A k \in 1..(j - 1) : got[k].context # got[j].context}}

CommitState(raw) ==
    CASE raw = "running" -> "pending" [] raw = "failed" -> "failure" [] OTHER -> raw

\* Mutant of CommitStatuses: a context is not filtered.
CommitStatusesAll(got) == {[s EXCEPT !.state = CommitState(@)] : s \in ToSet(got)}

CommitStatuses(got) ==
    IF api = "github" THEN FirstOfContext(got)
    ELSE {[s EXCEPT !.state = CommitState(@)] : s \in ToSet(got)}

\* SetCommitStatus.
StatusRequest(state) ==
    CASE api = "github" -> state
      [] api = "gitlab" /\ state = "pending" -> "running"
      [] api = "gitlab" /\ state \in {"failure", "error"} -> "failed"
      [] OTHER -> state

SetCommitStatus(ctx, state) ==
    /\ At("idle") /\ Event
    /\ statuses' = Written(ctx, StatusRequest(state))
    /\ wrote' = [wrote EXCEPT ![ctx] = state]
    /\ UNCHANGED <<api, hooks, tree, call, since>>

RegisterWebhook == At("idle") /\ HookAdded

DeleteWebhook(i) == At("idle") /\ HookDeleted(i)

\* A directory and those it is in: what is reached by going up from it.
Above(d) ==
    {e \in Dirs : \A S \in SUBSET Dirs :
                    d \in S /\ (\A x \in S \ {Root} : ParentOf[x] \in S) => e \in S}

\* The directories are a tree.
ASSUME TreeAssumption ==
    /\ Root \in Dirs /\ ParentOf \in [Dirs \ {Root} -> Dirs] /\ DirOf \in [Files -> Dirs]
    /\ \A d \in Dirs : Root \in Above(d)

\* GetManifestInfos: one request per directory, at the branch's present head.
Under(d) == {f \in Files : tree[f] # None /\ d \in Above(DirOf[f])}

Entries(d) ==
    {[type |-> "file", name |-> f] : f \in {g \in Under(d) : DirOf[g] = d}} \cup
    {[type |-> "dir", name |-> e] : e \in {x \in Dirs \ {Root} : ParentOf[x] = d /\ Under(x) # {}}}

\* A tree listing of GitLab ends with its first page; which entries that has is
\* left open.
Shown(d) ==
    IF api = "github" \/ Cardinality(Entries(d)) <= TreePage THEN {Entries(d)}
    ELSE {s \in SUBSET Entries(d) : Cardinality(s) = TreePage}

\* GitHub is given the file's address to download, GitLab the ID of its blob.
Info(f) == <<f, IF api = "github" THEN None ELSE tree[f]>>

\* Mutant of GetManifestInfos: directories are passed over.
GetManifestInfosFlat(d) ==
    /\ At("infos") /\ d \in call.dirs
    /\ call' = [call EXCEPT !.dirs = {}, !.op = "read",
                  !.infos = {Info(e.name) : e \in {x \in Entries(d) : x.type = "file"}}]
    /\ UNCHANGED <<api, hooks, statuses, wrote, tree, since, events>>

GetManifestInfos(d) ==
    /\ At("infos") /\ d \in call.dirs
    /\ IF Entries(d) = {}
         THEN Return    \* 404
         ELSE \E s \in Shown(d) :
                LET dirs == (call.dirs \ {d}) \cup {e.name : e \in {x \in s : x.type = "dir"}} IN
                /\ call' = [call EXCEPT
                       !.dirs = dirs, !.op = IF dirs = {} THEN "read" ELSE "infos",
                       !.infos = @ \cup {Info(e.name) : e \in {x \in s : x.type = "file"}}]
                /\ since' = [since EXCEPT !.cut = @ \/ s # Entries(d)]
                /\ UNCHANGED <<api, hooks, statuses, wrote, tree, events>>

\* What is answered: the file as it is now, or the blob.
Content(info) == IF api = "github" THEN tree[info[1]] ELSE info[2]

\* Mutant of ObjectFromManifest: the answer's code is not looked at.
ObjectFromAnyAnswer(info) ==
    /\ At("read") /\ info \in call.infos
    /\ call' = [call EXCEPT !.infos = @ \ {info}, !.objs = @ \cup {<<info[1],
                                                 Content(info)>>}]
    /\ UNCHANGED <<api, hooks, statuses, wrote, tree, since, events>>

\* The address may have another content by now, or none; a blob stays.
ObjectFromManifest(info) ==
    LET x == Content(info) IN
    /\ At("read") /\ info \in call.infos
    /\ IF x = None
         THEN Return    \* 404
         ELSE /\ call' = [call EXCEPT !.infos = @ \ {info}, !.objs = @ \cup {<<info[1], x>>}]
              /\ UNCHANGED <<api, hooks, statuses, wrote, tree, since, events>>

EndOfManifests ==
    /\ At("read") /\ call.infos = {}
    /\ call' = [call EXCEPT !.op = "manifests"]
    /\ UNCHANGED <<api, hooks, statuses, wrote, tree, since, events>>

(***************************************************************************)
(* The specification.                                                      *)
(***************************************************************************)
Init ==
    /\ api \in {"github", "gitlab"}
    /\ hooks = FirstIds /\ statuses = <<>>
    /\ wrote = [c \in Contexts |-> None]
    /\ tree \in [Files -> {CHOOSE x \in Contents : TRUE, None}]
    /\ call = Idle /\ since = NoSince /\ events = 0

OthersStep ==
    \/ HookAdded
    \/ \E i \in DOMAIN hooks : HookDeleted(i)
    \/ \E f \in Files, x \in Contents \cup {None} : GitPush(f, x)
    \/ \E c \in Contexts, s \in States \cup GitlabStates : StatusByOthers(c, s)

ClientStep ==
    \/ \E op \in {"hooks", "statuses", "infos"} : Begin(op)
    \/ RequestFails \/ EndOfCall
    \/ GetPaginatedRequest \/ RegisterWebhook
    \/ \E i \in DOMAIN hooks : DeleteWebhook(i)
    \/ \E c \in Contexts, s \in States : SetCommitStatus(c, s)
    \/ \E d \in Dirs : GetManifestInfos(d)
    \/ \E info \in call.infos : ObjectFromManifest(info)
    \/ EndOfManifests

Next == OthersStep \/ ClientStep

Spec == Init /\ [][Next]_vars

(***************************************************************************)
(* Properties.                                                             *)
(***************************************************************************)
\* A ListWebhook that succeeds has every webhook, once, that was there all the
\* time, unless another one was deleted between two pages: clearWebhook and
\* setWebhookRegisteredCond rely on that.
ListsAllHooks ==
    At("listed") /\ call.kind = "hooks"
      => IsInjective(call.got) /\ (since.moved \/ since.ids \subseteq ToSet(call.got))

\* What SetCommitStatus has set, ListCommitStatuses returns, once per context and
\* with failure and error alike on GitLab, if nobody writes during the call.
StatusIsListed ==
    At("listed") /\ call.kind = "statuses" /\ ~since.moved
      => \A c \in Contexts :
            wrote[c] # None
              => {s.state : s \in {t \in CommitStatuses(call.got) : t.context = c}}
                   = {IF api = "gitlab" THEN CommitState(StatusRequest(wrote[c])) ELSE wrote[c]}

\* A Sync's listing misses no manifest that was there all the time, however the
\* others come and go between the requests, as long as directories fit a page:
\* what it misses, Sync deletes from the cluster.
ManifestsAreComplete ==
    At("manifests") /\ ~since.cut
      => \A f \in since.files : \E x \in Contents : <<f, x>> \in call.objs

\* What it reads is what the file held at some time since the listing began, and
\* nothing for a file that did not exist.
ManifestsAreGenuine == At("manifests") => call.objs \subseteq since.seen
=============================================================================
