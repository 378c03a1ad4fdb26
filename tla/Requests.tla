------------------------------ MODULE Requests ------------------------------
(***************************************************************************)
(* The two HTTP servers of the process and what asks them to sync: the     *)
(* webhook server (pkg/server, pkg/dispatcher) with the parsers of GitHub  *)
(* and GitLab deliveries (pkg/git/<server>/parser.go, webhook.go), and the *)
(* aggregated API server's sync request with its authorizer                *)
(* (internal/apiserver, pkg/apiserver).                                    *)
(*                                                                         *)
(* What happens in a repository is sent as a delivery in its server's own  *)
(* words; handlers of several requests run side by side, look up users,    *)
(* branches and pull requests while these change, and the Application may  *)
(* go or be made again meanwhile.  A forced sync reads the branch in one   *)
(* step here and applies or fails in another: what it does between is      *)
(* modelled in GitClient, PlainYamlSync and HelmSync.                      *)
(*                                                                         *)
(* One Application, its repository, one pull request in it.  Users are     *)
(* told apart only as the author of what an event is about and others.     *)
(***************************************************************************)
EXTENDS Integers, Sequences, FiniteSets

CONSTANTS Labels, Handlers, None,
          MaxEvents    \* bound: what happens in the repository, deletions and
                       \* changes of the permission, API requests, crashes

ASSUME NoneAssumption == None \notin [previous : SUBSET Labels, current : SUBSET Labels]

VARIABLES api,         \* the repository's server: "github" or "gitlab"
          tip,         \* the commit its target branch is at
          pull,        \* its pull request
          hook,        \* the secret its webhook signs with; 0: no webhook
          net,         \* deliveries on their way
          app,         \* the Application: whether it is there, Status.Secrets
          allowed,     \* whether the user of the API may update it
          req,         \* the handlers
          seen,        \* the commit that was last synced
          missed,      \* history: commits whose delivery ended in an error or was
                       \* lost, and those that an older sync took back
          events

vars == <<api, tip, pull, hook, net, app, allowed, req, seen, missed, events>>
repoVars == <<api, tip, pull, hook>>
appVars  == <<app, allowed>>

Servers     == {"github", "gitlab"}
PushKinds   == {"push", "topic", "tag", "deleted"}
PullKinds   == {"opened", "closed", "merged", "reopened", "synchronize",
                "labeled", "unlabeled", "edited", "assigned"}
ReviewKinds == {"approved", "unapproved", "commented", "dismissed"}
NoteKinds   == {"comment", "commentEdited", "reviewComment", "reviewCommentEdited"}
\* git.Webhook, as far as it is told apart here.
EventTypes  == {"pull_request", "push", "issue_comment", "pull_request_review",
                "pull_request_review_comment"}
PullStates  == {"open", "closed", "merged"}
Webhooks ==
    [type : {"push"}, sha : Nat \ {0}]
    \cup [type : {"pull_request"}, state : PullStates, base : Nat, head : Nat,
          action : PullKinds \cup {"update", "merge"}, labels : SUBSET Labels,
          changed : SUBSET Labels]
    \cup [type : EventTypes \ {"push", "pull_request"},
          pr : [state : PullStates, base : Nat, head : Nat] \cup {None},
          review : {"approved", "changes_requested", "commented", ""}]

\* A delivery: what happened, the repository as it was then, the secret.
Delivery(kind, sha, was, label, onPull) ==
    [id |-> events, kind |-> kind, sha |-> sha, pr |-> was, base |-> tip',
     label |-> label, onPull |-> onPull, secret |-> hook]

Idle == [pc |-> "idle", from |-> "none", d |-> None, secret |-> 0, fault |-> "none",
         was |-> FALSE, todo |-> <<>>, got |-> None, event |-> None, read |-> 0]

At(h, pc) == req[h].pc = pc
Goto(h, pc) == req' = [req EXCEPT ![h].pc = pc]

Event == events < MaxEvents /\ events' = events + 1

\* The commits of the target branch a delivery tells of.
Tells(d) == IF d.kind = "push" THEN {d.sha} ELSE {}
IsDelivery(h) == req[h].from = "git"

(***************************************************************************)
(* What happens in the repository (the git server, not this code).         *)
(***************************************************************************)
\* Every happening is one delivery, or several, if there is a webhook.
Send(ds) ==
    /\ Event
    /\ net' = IF hook = 0 THEN net ELSE net \cup ds
    /\ missed' = IF hook = 0 THEN missed \cup UNION {Tells(d) : d \in ds} ELSE missed
    /\ UNCHANGED <<api, hook, app, allowed, req, seen>>

Pushed ==
    /\ tip' = tip + 1
    /\ UNCHANGED pull
    /\ Send({Delivery("push", tip', pull, None, FALSE)})

\* Nothing the operator deploys moves: a tag, or a branch that is deleted.
RefChanged(kind) ==
    /\ kind \in {"tag", "deleted"}
    /\ UNCHANGED <<tip, pull>>
    /\ Send({Delivery(kind, IF kind = "deleted" THEN 0 ELSE tip, pull, None, FALSE)})

\* The branch of the pull request is pushed to.
TopicPushed ==
    /\ pull.state = "open"
    /\ pull' = [pull EXCEPT !.head = @ + 1]
    /\ UNCHANGED tip
    /\ Send({Delivery("topic", pull'.head, pull', None, FALSE),
             Delivery("synchronize", 0, pull', None, TRUE)})

PullMoved(kind, state) ==
    /\ <<kind, pull.state, state>> \in {<<"opened", "none", "open">>,
            <<"closed", "open", "closed">>, <<"reopened", "closed", "open">>,
            <<"edited", "open", "open">>, <<"assigned", "open", "open">>}
    /\ pull' = [pull EXCEPT !.state = state]
    /\ UNCHANGED tip
    /\ Send({Delivery(kind, 0, pull', None, TRUE)})

Merged ==
    /\ pull.state = "open"
    /\ pull' = [pull EXCEPT !.state = "merged"]
    /\ tip' = tip + 1
    /\ Send({Delivery("merged", 0, pull', None, TRUE),
             Delivery("push", tip', pull', None, FALSE)})

Labelled(l) ==
    /\ pull.state = "open"
    /\ pull' = [pull EXCEPT !.labels = IF l \in @ THEN @ \ {l} ELSE @ \cup {l}]
    /\ UNCHANGED tip
    /\ Send({Delivery(IF l \in pull.labels THEN "unlabeled" ELSE "labeled",
                      0, pull', l, TRUE)})

\* Only GitHub has reviews that merely comment, dismisses reviews, and tells comments
\* of a review from others.
Reviewed(kind) ==
    /\ kind \in ReviewKinds /\ pull.state = "open"
    /\ kind \in {"commented", "dismissed"} => api = "github"
    /\ UNCHANGED <<tip, pull>>
    /\ Send({Delivery(kind, 0, pull, None, TRUE)})

Noted(kind, onPull) ==
    /\ kind \in NoteKinds \cup {"other"}
    /\ kind \in {"reviewComment", "reviewCommentEdited"} => api = "github" /\ onPull
    /\ onPull => pull.state # "none"
    /\ UNCHANGED <<tip, pull>>
    /\ Send({Delivery(kind, 0, pull, None, onPull)})

Dropped(d) ==
    /\ d \in net
    /\ net' = net \ {d}
    /\ missed' = missed \cup Tells(d)
    /\ UNCHANGED <<api, tip, pull, hook, app, allowed, req, seen, events>>

(***************************************************************************)
(* The Application and the user's permission.                              *)
(***************************************************************************)
\* Its finalizer may fail to delete the webhook.
AppDeleted ==
    /\ app.there /\ Event
    /\ app' = [app EXCEPT !.there = FALSE]
    /\ hook' = 0 \/ UNCHANGED hook
    /\ UNCHANGED <<api, tip, pull, net, allowed, req, seen, missed>>

\* A new Application has a new secret, and registers a webhook unless one with
\* its address is left.
AppCreated ==
    /\ ~app.there
    /\ app' = [there |-> TRUE, secret |-> app.secret + 1]
    /\ hook' = IF hook = 0 THEN app'.secret ELSE hook
    /\ UNCHANGED <<api, tip, pull, net, allowed, req, seen, missed, events>>

RightsChanged ==
    /\ Event
    /\ allowed' = ~allowed
    /\ req' = [h \in Handlers |-> IF req[h].from = "api" /\ allowed'
                                 THEN [req[h] EXCEPT !.was = TRUE] ELSE req[h]]
    /\ UNCHANGED <<repoVars, net, app, seen, missed>>

(***************************************************************************)
(* What a delivery says, in the words of its server.                       *)
(***************************************************************************)
GithubBody(d) ==
    [event  |-> CASE d.kind \in PushKinds -> "push"
                  [] d.kind \in PullKinds -> "pull_request"
                  [] d.kind \in ReviewKinds -> "pull_request_review"
                  [] d.kind \in {"comment", "commentEdited"} -> "issue_comment"
                  [] d.kind = "other" -> "issues"
                  [] OTHER -> "pull_request_review_comment",
     sha    |-> d.sha,
     action |-> CASE d.kind = "merged" -> "closed"
                  [] d.kind \in PullKinds \ {"merged"} -> d.kind
                  [] d.kind \in ReviewKinds \ {"dismissed"} -> "submitted"
                  [] d.kind = "dismissed" -> "dismissed"
                  [] d.kind \in {"comment", "reviewComment"} -> "created"
                  [] d.kind \in {"commentEdited", "reviewCommentEdited"} -> "edited"
                  [] OTHER -> "",
     state  |-> CASE d.kind \in PullKinds ->
                       IF d.pr.state = "open" THEN "open" ELSE "closed"
                  [] d.kind = "unapproved" -> "changes_requested"
                  [] d.kind \in ReviewKinds \ {"unapproved"} -> d.kind
                  [] OTHER -> ""]

GitlabBody(d) ==
    [event  |-> CASE d.kind = "tag" -> "Tag Push Hook"
                  [] d.kind \in PushKinds \ {"tag"} -> "Push Hook"
                  [] d.kind \in PullKinds \cup ReviewKinds -> "Merge Request Hook"
                  [] d.kind \in NoteKinds -> "Note Hook"
                  [] OTHER -> "Issue Hook",
     sha    |-> d.sha,
     state  |-> CASE ~d.onPull -> ""
                  [] d.onPull /\ d.pr.state = "open" -> "opened"
                  [] OTHER -> d.pr.state,
     oldrev |-> d.kind = "synchronize",
     action |-> CASE d.kind = "opened" -> "open"
                  [] d.kind = "closed" -> "close"
                  [] d.kind = "merged" -> "merge"
                  [] d.kind = "reopened" -> "reopen"
                  [] d.kind \in PullKinds \ {"opened", "closed", "merged", "reopened"}
                       -> "update"
                  [] d.kind \in {"approved", "unapproved"} -> d.kind
                  [] OTHER -> "",
     labels |-> IF d.kind \notin {"labeled", "unlabeled"} THEN None
                ELSE [previous |-> (d.pr.labels \ {d.label})
                                   \cup (IF d.kind = "labeled" THEN {} ELSE {d.label}),
                      current  |-> d.pr.labels],
     edited |-> d.kind = "commentEdited"]

(***************************************************************************)
(* The parsers: which deliveries they leave out, what they look up on the  *)
(* server and whether they go on without it, and the event they return.    *)
(***************************************************************************)
\* A push that deletes a branch or a tag has a commit 0000...0000.
NoCommit(b) == b.sha = 0

User(fatal)   == [of |-> "user", fatal |-> fatal]
Branch        == [of |-> "branch", fatal |-> TRUE]
PullRequest   == [of |-> "pull", fatal |-> TRUE]
Unless(cond, lookups) == IF cond THEN <<>> ELSE lookups

GithubIgnores(b) ==
    \/ b.event = "push" /\ NoCommit(b)
    \/ b.event \in {"issue_comment", "pull_request_review_comment"} /\ b.action # "created"
    \/ b.event = "pull_request_review" /\ b.action # "submitted"
    \/ b.event \notin EventTypes

\* getSenderAuthor, which goes on without what it cannot look up.
GithubSenderAuthor(own) == <<User(FALSE)>> \o Unless(own, <<User(FALSE)>>)

\* Mutant of GithubLookups: a push is given up when its sender is unknown.
GithubLookupsStrict(d, b, own) ==
    CASE b.event = "push" -> <<User(TRUE)>>
      [] b.event = "issue_comment" ->
            Unless(~d.onPull, <<PullRequest>>) \o GithubSenderAuthor(own)
      [] OTHER -> GithubSenderAuthor(own)

GithubLookups(d, b, own) ==
    CASE b.event = "push" -> <<User(FALSE)>>
      [] b.event = "issue_comment" ->
            Unless(~d.onPull, <<PullRequest>>) \o GithubSenderAuthor(own)
      [] OTHER -> GithubSenderAuthor(own)

PullOf(d) == [state |-> IF d.pr.state = "open" THEN "open" ELSE "closed",
              base |-> d.base, head |-> d.pr.head]

GithubEvent(d, b, got) ==
    CASE b.event = "push" -> [type |-> "push", sha |-> b.sha]
      [] b.event = "pull_request" ->
            [type |-> "pull_request", state |-> b.state, base |-> d.base,
             head |-> d.pr.head, action |-> b.action, labels |-> d.pr.labels,
             changed |-> IF b.action \in {"labeled", "unlabeled"} THEN {d.label} ELSE {}]
      [] b.event = "issue_comment" ->
            [type |-> b.event, pr |-> IF d.onPull THEN got.pull ELSE None, review |-> ""]
      [] b.event = "pull_request_review" ->
            [type |-> b.event, pr |-> PullOf(d), review |-> b.state]
      [] b.event = "pull_request_review_comment" ->
            [type |-> b.event, pr |-> PullOf(d), review |-> ""]

GitlabIgnores(b) ==
    \/ b.event \in {"Push Hook", "Tag Push Hook"} /\ NoCommit(b)
    \/ b.event = "Note Hook" /\ b.edited
    \/ b.event = "Issue Hook"

\* getSenderAuthor, which takes the sender from the delivery.
GitlabSenderAuthor(own) == Unless(own, <<User(TRUE)>>)

GitlabLookups(d, b, own) ==
    CASE b.event \in {"Push Hook", "Tag Push Hook"} -> <<User(FALSE)>>
      [] b.event = "Note Hook" ->
            GitlabSenderAuthor(own) \o Unless(~d.onPull, <<User(FALSE), Branch>>)
      [] b.action \in {"approved", "unapproved"} ->
            GitlabSenderAuthor(own) \o <<User(FALSE), Branch>>
      [] OTHER -> GitlabSenderAuthor(own) \o <<Branch>>

GitlabState(s) == IF s = "opened" THEN "open" ELSE s

\* diffLabels: the labels on one side only, and whether some were added.
DiffLabels(l) ==
    [diff |-> (l.previous \ l.current) \cup (l.current \ l.previous),
     isUnlabeled |-> l.current \ l.previous # {}]

\* Mutant of GitlabAction: new commits are not told from other updates.
GitlabActionNoOldRev(b) ==
    CASE b.action = "close" -> "closed"
      [] b.action = "open" -> "opened"
      [] b.action = "reopen" -> "reopened"
      [] b.action = "update" /\ b.labels # None ->
            IF DiffLabels(b.labels).isUnlabeled THEN "unlabeled" ELSE "labeled"
      [] OTHER -> b.action

GitlabAction(b) ==
    CASE b.action = "close" -> "closed"
      [] b.action = "open" -> "opened"
      [] b.action = "reopen" -> "reopened"
      [] b.action = "update" /\ b.oldrev -> "synchronize"
      [] b.action = "update" /\ ~b.oldrev /\ b.labels # None ->
            IF DiffLabels(b.labels).isUnlabeled THEN "unlabeled" ELSE "labeled"
      [] OTHER -> b.action

GitlabEvent(d, b, got) ==
    LET pr == [state |-> GitlabState(b.state), base |-> got.branch, head |-> d.pr.head] IN
    CASE b.event \in {"Push Hook", "Tag Push Hook"} -> [type |-> "push", sha |-> b.sha]
      [] b.event = "Note Hook" ->
            [type |-> "issue_comment", pr |-> IF d.onPull THEN pr ELSE None, review |-> ""]
      [] b.action \in {"approved", "unapproved"} ->
            [type |-> "pull_request_review", pr |-> pr,
             review |-> IF b.action = "approved" THEN "approved" ELSE "changes_requested"]
      [] OTHER ->
            [type |-> "pull_request", state |-> pr.state, base |-> pr.base,
             head |-> pr.head, action |-> GitlabAction(b), labels |-> d.pr.labels,
             changed |-> IF b.labels # None /\ ~b.oldrev THEN DiffLabels(b.labels).diff ELSE {}]

Ignores(d) == IF api = "github" THEN GithubIgnores(GithubBody(d))
                                ELSE GitlabIgnores(GitlabBody(d))
Lookups(d, own) == IF api = "github" THEN GithubLookups(d, GithubBody(d), own)
                                     ELSE GitlabLookups(d, GitlabBody(d), own)
Parsed(d, got) == IF api = "github" THEN GithubEvent(d, GithubBody(d), got)
                                    ELSE GitlabEvent(d, GitlabBody(d), got)

(***************************************************************************)
(* The webhook server.                                                     *)
(***************************************************************************)
unchangedBySteps == <<api, tip, pull, hook, app, allowed, events>>

\* The request has been answered; if it failed, its delivery has had no effect.
EndOfRequest(h, failed) ==
    /\ req' = [req EXCEPT ![h] = Idle]
    /\ missed' = IF failed /\ IsDelivery(h) THEN missed \cup Tells(req[h].d)
                                             ELSE missed

\* ServeHTTP reads the body of a request to /webhook/<namespace>/<name>, or
\* answers that it cannot.
ServeHTTP(h, d) ==
    /\ At(h, "idle") /\ d \in net
    /\ net' = net \ {d}
    /\ \/ /\ req' = [req EXCEPT ![h] = [Idle EXCEPT !.pc = "get", !.from = "git", !.d = d]]
          /\ UNCHANGED missed
       \/ missed' = missed \cup Tells(d) /\ UNCHANGED req
    /\ UNCHANGED <<unchangedBySteps, seen>>

\* Both servers read the Application they are asked about: 400 without one.
GetApplication(h) ==
    /\ At(h, "get")
    /\ \/ /\ app.there
          /\ req' = [req EXCEPT ![h].secret = app.secret,
                                ![h].pc = IF IsDelivery(h) THEN "parse" ELSE "sync"]
          /\ UNCHANGED missed
       \/ ~app.there /\ EndOfRequest(h, TRUE)
    /\ UNCHANGED <<unchangedBySteps, net, seen>>

\* Validate: GitHub signs the body with the secret, GitLab sends the secret.
Validate(d, secret) == d.secret = secret

\* GetGitCli fails if it cannot read the token.  ParseWebhook then checks the
\* delivery against the secret the Application had; 500 in both cases.  A
\* delivery that is ignored is answered with 200.
ParseWebhook(h) ==
    /\ At(h, "parse")
    /\ LET d == req[h].d IN
       \/ EndOfRequest(h, TRUE)
       \/ Validate(d, req[h].secret) /\ Ignores(d) /\ EndOfRequest(h, FALSE)
       \/ /\ Validate(d, req[h].secret) /\ ~Ignores(d)
          /\ \E own \in BOOLEAN :
                req' = [req EXCEPT ![h].pc = "lookup", ![h].todo = Lookups(d, own),
                                   ![h].got = [branch |-> 0, pull |-> None]]
          /\ UNCHANGED missed
    /\ UNCHANGED <<unchangedBySteps, net, seen>>

\* One request to the git server while parsing; it may fail.
Lookup(h) ==
    /\ At(h, "lookup") /\ req[h].todo # <<>>
    /\ LET next == Head(req[h].todo) IN
       \/ req' = [req EXCEPT ![h].todo = Tail(@),
                    ![h].got.branch = IF next.of = "branch" THEN tip ELSE @,
                    ![h].got.pull = IF next.of = "pull"
                                    THEN [state |-> IF pull.state = "open" THEN "open" ELSE "closed",
                                          base |-> tip, head |-> pull.head]
                                    ELSE @]
       \/ ~next.fatal /\ req' = [req EXCEPT ![h].todo = Tail(@)]
       \* The whole delivery is answered with 500, which loses no push.
       \/ next.fatal /\ req' = [req EXCEPT ![h] = Idle]
    /\ UNCHANGED <<unchangedBySteps, net, seen, missed>>

\* HandleEvent: the event goes to the plugins of its type.
HandleEvent(h) ==
    /\ At(h, "lookup") /\ req[h].todo = <<>>
    /\ req' = [req EXCEPT ![h].pc = "plugin", ![h].event = Parsed(req[h].d, req[h].got)]
    /\ UNCHANGED <<unchangedBySteps, net, seen, missed>>

\* The one plugin is the Dispatcher, for pushes; others are answered with 200.
Handle(h) ==
    /\ At(h, "plugin")
    /\ \/ req[h].event.type = "push" /\ Goto(h, "sync") /\ UNCHANGED missed
       \/ req[h].event.type # "push" /\ EndOfRequest(h, FALSE)
    /\ UNCHANGED <<unchangedBySteps, net, seen>>

\* CheckSync(app, forced = true), beside others of its kind, reads the branch once
\* it runs, whatever commit the delivery told of.
CheckSync(h) ==
    /\ At(h, "sync")
    /\ req' = [req EXCEPT ![h].pc = "apply", ![h].read = tip]
    /\ UNCHANGED <<unchangedBySteps, net, seen, missed>>

\* It applies what it has read, which takes back what another has read and applied
\* since; or it returns an error, here with nothing applied.  Both servers log that
\* and answer with 200.
Apply(h) ==
    /\ At(h, "apply")
    /\ \/ /\ seen' = req[h].read
          /\ req' = [req EXCEPT ![h] = Idle]
          /\ missed' = missed \cup (req[h].read + 1)..seen
       \/ UNCHANGED seen /\ EndOfRequest(h, TRUE)
    /\ UNCHANGED <<unchangedBySteps, net>>

(***************************************************************************)
(* The aggregated API server.                                              *)
(***************************************************************************)
\* What may be wrong with a PUT of .../applications/<name>/sync: no client
\* certificate, no X-Remote-User or X-Remote-Group; or it ends in a slash, which
\* the wrapper routes as well.
Faults == {"none", "certificate", "header", "slash"}

RequestSync(h, fault) ==
    /\ At(h, "idle") /\ Event
    /\ req' = [req EXCEPT ![h] = [Idle EXCEPT !.pc = "authorize", !.from = "api",
                                              !.was = allowed, !.fault = fault]]
    /\ UNCHANGED <<repoVars, net, appVars, seen, missed>>

\* reviewAccess: 403 if it returns an error.
ReviewAccess(h) == req[h].fault \notin {"header", "slash"} /\ allowed

\* Mutant of Authorize: the peer certificate is not asked for.
AuthorizeAnyPeer(h) ==
    /\ At(h, "authorize")
    /\ \/ EndOfRequest(h, TRUE)
       \/ ReviewAccess(h) /\ Goto(h, "get") /\ UNCHANGED missed
    /\ UNCHANGED <<unchangedBySteps, net, seen>>

\* Authorize; the SubjectAccessReview may fail too.
Authorize(h) ==
    /\ At(h, "authorize")
    /\ \/ EndOfRequest(h, TRUE)
       \/ /\ req[h].fault # "certificate" /\ ReviewAccess(h)
          /\ Goto(h, "get") /\ UNCHANGED missed
    /\ UNCHANGED <<unchangedBySteps, net, seen>>

\* The process dies, with its requests.
Crash ==
    /\ Event
    /\ req' = [h \in Handlers |-> Idle]
    /\ missed' = missed \cup UNION {Tells(req[h].d) : h \in {g \in Handlers : IsDelivery(g)}}
    /\ UNCHANGED <<repoVars, net, appVars, seen>>

(***************************************************************************)
(* The whole.                                                              *)
(***************************************************************************)
Init ==
    /\ api \in Servers
    /\ tip = 1 /\ seen = 1
    /\ pull \in {[state |-> s, head |-> 1, labels |-> {}] : s \in {"none", "open"}}
    /\ hook = 1
    /\ net = {} /\ missed = {}
    /\ app = [there |-> TRUE, secret |-> 1]
    /\ allowed \in BOOLEAN
    /\ req = [h \in Handlers |-> Idle]
    /\ events = 0

RepositoryStep ==
    \/ Pushed
    \/ \E kind \in {"tag", "deleted"} : RefChanged(kind)
    \/ TopicPushed \/ Merged
    \/ \E kind \in PullKinds, s \in {"open", "closed"} : PullMoved(kind, s)
    \/ \E l \in Labels : Labelled(l)
    \/ \E kind \in ReviewKinds : Reviewed(kind)
    \/ \E kind \in NoteKinds \cup {"other"}, onPull \in BOOLEAN : Noted(kind, onPull)
    \/ \E d \in net : Dropped(d)

ObjectStep == AppDeleted \/ AppCreated \/ RightsChanged

Step(h) ==
    \/ GetApplication(h) \/ ParseWebhook(h) \/ Lookup(h)
    \/ HandleEvent(h) \/ Handle(h) \/ CheckSync(h) \/ Apply(h) \/ Authorize(h)

Receive == \E h \in Handlers, d \in net : ServeHTTP(h, d)

Next ==
    \/ RepositoryStep \/ ObjectStep \/ Receive \/ Crash
    \/ \E h \in Handlers : Step(h)
    \/ \E h \in Handlers, fault \in Faults : RequestSync(h, fault)

\* A delivery that is not lost arrives; a goroutine that can go on does.
Fairness == WF_vars(Receive) /\ \A h \in Handlers : WF_vars(Step(h))

Spec == Init /\ [][Next]_vars /\ Fairness

(***************************************************************************)
(* Properties.                                                             *)
(***************************************************************************)
\* The actions a pull request event may bear.  Both parsers have the words of
\* git_types.go for the first four kinds, GitHub's has them for labels too.  GitLab's
\* says of labels only that they changed: diffLabels takes those added for removed.
\* A merge, an edit and the rest keep the word of their server.
ActionsFor(d) ==
    CASE d.kind \in {"opened", "closed", "reopened", "synchronize"} -> {d.kind}
      [] d.kind \in {"labeled", "unlabeled"} ->
            IF api = "github" THEN {d.kind} ELSE {"labeled", "unlabeled"}
      [] d.kind = "merged" -> IF api = "github" THEN {"closed"} ELSE {"merge"}
      [] OTHER             -> IF api = "github" THEN {d.kind} ELSE {"update"}

\* What is merged is closed on GitHub.
StateFor(d) == CASE d.pr.state = "open" -> "open"
                 [] d.pr.state = "merged" /\ api = "gitlab" -> "merged"
                 [] OTHER -> "closed"

ReviewFor(d) == IF d.kind = "unapproved" THEN "changes_requested" ELSE d.kind

\* The event the plugins get is about what happened: it is of that kind, a pull
\* request's action, state and changed labels and a review's verdict are those, as
\* far as its server's parser tells them (ActionsFor, StateFor), and its commits are
\* those of that time or, where the parser looked them up later, of a time between
\* that and now.  (ParseWebhook, parser.go of both clients)
EventsTellWhatHappened ==
    \A h \in Handlers : At(h, "plugin") =>
        LET d == req[h].d
            e == req[h].event
            Since(pr) == pr.head \in d.pr.head..pull.head /\ pr.base \in d.base..tip IN
        /\ e \in Webhooks
        /\ e.type = "push" => d.kind \in {"push", "topic", "tag"} /\ e.sha = d.sha
        /\ e.type = "pull_request" =>
              /\ d.kind \in PullKinds /\ Since(e)
              /\ e.action \in ActionsFor(d) /\ e.state = StateFor(d)
              /\ e.changed = IF d.kind \in {"labeled", "unlabeled"} THEN {d.label} ELSE {}
        /\ e.type = "pull_request_review" =>
              /\ d.kind \in ReviewKinds \ {"dismissed"} /\ Since(e.pr)
              /\ e.review = ReviewFor(d)
        /\ e.type \in {"issue_comment", "pull_request_review_comment"} =>
              /\ d.kind \in {"comment", "reviewComment"}
              /\ IF d.onPull THEN Since(e.pr) ELSE e.pr = None

\* A sync is forced only by a commit that was pushed, told in a delivery with
\* the secret of the Application that is synced, or for a user who was allowed
\* to update that Application at some time since asking, in a request that came
\* with a certificate, the user's name and groups and the path the review is about.
\* (handler_webhook.go, dispatcher.go, authorize.go, deploy.go)
ForcedSyncsAreAsked ==
    \A h \in Handlers : At(h, "sync") =>
        IF IsDelivery(h)
        THEN req[h].d.kind \in PushKinds \ {"deleted"} /\ req[h].d.secret = req[h].secret
        ELSE req[h].was /\ req[h].fault = "none"

\* Every commit of the target branch comes to be in a forced sync of the
\* Application, unless its delivery was lost with the connection or the process,
\* was answered with an error because there was no such Application, no token or
\* another secret, or the sync it forced failed: nothing else that fails while a
\* push is parsed, and no order of deliveries, keeps it from being synced.  It stays
\* so unless a forced sync that had read the branch before applies after.
\* (handler_webhook.go, parser.go, dispatcher.go)
EveryPushIsSynced ==
    \A n \in 1..(MaxEvents + 1) : (tip >= n) ~> (seen >= n \/ n \in missed)
=============================================================================
