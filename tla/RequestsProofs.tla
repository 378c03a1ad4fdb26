--------------------------- MODULE RequestsProofs ---------------------------
(***************************************************************************)
(* Theorems of Requests, for any number of handlers, of labels and of      *)
(* things that happen in the repository.                                   *)
(***************************************************************************)
EXTENDS Requests, SequenceTheorems, TLAPS

(***************************************************************************)
(* The values of the variables.                                            *)
(***************************************************************************)
Kinds == PushKinds \cup PullKinds \cup ReviewKinds \cup NoteKinds \cup {"other"}

PullType == [state : PullStates \cup {"none"}, head : Nat, labels : SUBSET Labels]

DeliveryType ==
    [id : Nat, kind : Kinds, sha : Nat, pr : PullType, base : Nat,
     label : Labels \cup {None}, onPull : BOOLEAN, secret : Nat]

LookupType == [of : {"user", "branch", "pull"}, fatal : BOOLEAN]

GotType ==
    [branch : Nat,
     pull : [state : {"open", "closed"}, base : Nat, head : Nat] \cup {None}]

RequestType ==
    [pc : {"idle", "authorize", "get", "parse", "lookup", "plugin", "sync", "apply"},
     from : {"none", "git", "api"}, d : DeliveryType \cup {None}, secret : Nat,
     fault : Faults, was : BOOLEAN, todo : Seq(LookupType), got : GotType \cup {None},
     event : Webhooks \cup {None}, read : Nat]

TypeOK ==
    /\ api \in Servers /\ tip \in Nat /\ pull \in PullType /\ hook \in Nat
    /\ app \in [there : BOOLEAN, secret : Nat] /\ allowed \in BOOLEAN
    /\ req \in [Handlers -> RequestType]
    /\ events \in Nat

(***************************************************************************)
(* What deliveries and requests are like.                                  *)
(***************************************************************************)
GithubKinds == {"commented", "dismissed", "reviewComment", "reviewCommentEdited"}

\* What a delivery says fits what happened; the branches have moved on since.
WellFormed(d) ==
    /\ d.kind = "deleted" => d.sha = 0
    /\ d.kind \in PullKinds \cup ReviewKinds => d.onPull
    /\ d.kind \in GithubKinds =>
         api = "github" /\ d.onPull
    /\ d.onPull => d.pr.state # "none"
    /\ d.kind \in PullKinds \ {"merged"} => d.pr.state \in {"open", "closed"}
    /\ d.kind = "labeled" => d.label \in d.pr.labels
    /\ d.kind = "unlabeled" => d.label \in Labels \ d.pr.labels
    /\ d.pr.head <= pull.head /\ d.base <= tip

DeliveriesFit == \A d \in net : d \in DeliveryType /\ WellFormed(d)

\* What a parser needs to have looked up, and what it may then find.
WantsBranch(d) == api = "gitlab" /\ d.kind \notin PushKinds /\ d.onPull
WantsPull(d) == api = "github" /\ d.kind = "comment" /\ d.onPull

BranchOf(d) == d.base..tip
PullsOf(d) == [state : {"open", "closed"}, base : d.base..tip, head : d.pr.head..pull.head]

Has(todo, x) == \E i \in 1..Len(todo) : todo[i] = x

\* It has it or is going to look it up.
LooksUp(r) ==
    /\ WantsBranch(r.d) => Has(r.todo, Branch) \/ r.got.branch \in BranchOf(r.d)
    /\ WantsPull(r.d) => Has(r.todo, PullRequest) \/ r.got.pull \in PullsOf(r.d)

\* What EventsTellWhatHappened says of one event.
Since(d, pr) == pr.head \in d.pr.head..pull.head /\ pr.base \in d.base..tip

Told(d, e) ==
    /\ e \in Webhooks
    /\ e.type = "push" => d.kind \in {"push", "topic", "tag"} /\ e.sha = d.sha
    /\ e.type = "pull_request" =>
          /\ d.kind \in PullKinds /\ Since(d, e)
          /\ e.action \in ActionsFor(d) /\ e.state = StateFor(d)
          /\ e.changed = IF d.kind \in {"labeled", "unlabeled"} THEN {d.label} ELSE {}
    /\ e.type = "pull_request_review" =>
          /\ d.kind \in ReviewKinds \ {"dismissed"} /\ Since(d, e.pr)
          /\ e.review = ReviewFor(d)
    /\ e.type \in {"issue_comment", "pull_request_review_comment"} =>
          /\ d.kind \in {"comment", "reviewComment"}
          /\ IF d.onPull THEN Since(d, e.pr) ELSE e.pr = None

\* A handler knows where its request comes from, has checked the secret of a
\* delivery it parses, and certificate, headers and rights of a user it syncs for.
Good(r) ==
    /\ r.pc \in {"parse", "lookup", "plugin"} => r.from = "git"
    /\ r.pc \in {"get", "sync"} => r.from \in {"git", "api"}
    /\ r.from = "git" => r.d \in DeliveryType /\ WellFormed(r.d)
    /\ r.pc \in {"lookup", "plugin", "sync"} /\ r.from = "git" => r.d.secret = r.secret
    /\ r.pc = "lookup" => ~Ignores(r.d) /\ r.got \in GotType /\ LooksUp(r)
    /\ r.pc = "plugin" => Told(r.d, r.event)
    /\ r.pc = "sync" /\ r.from = "git" => r.d.kind \in PushKinds \ {"deleted"}
    /\ r.pc = "authorize" => r.from = "api" /\ (allowed => r.was)
    /\ r.pc \in {"get", "sync"} /\ r.from = "api" => r.was /\ r.fault = "none"

Handled(h) == Good(req[h])

Inv == TypeOK /\ DeliveriesFit /\ \A h \in Handlers : Handled(h)

(***************************************************************************)
(* The parsers.                                                            *)
(***************************************************************************)
LEMMA HasConcat ==
    ASSUME NEW s \in Seq(LookupType), NEW t \in Seq(LookupType), NEW x,
           Has(s, x) \/ Has(t, x)
    PROVE  s \o t \in Seq(LookupType) /\ Has(s \o t, x)
<1>1. /\ s \o t \in Seq(LookupType) /\ Len(s \o t) = Len(s) + Len(t)
      /\ \A i \in 1..(Len(s) + Len(t)) :
           (s \o t)[i] = IF i <= Len(s) THEN s[i] ELSE t[i - Len(s)]
  BY ConcatProperties
<1>2. Len(s) \in Nat /\ Len(t) \in Nat
  OBVIOUS
<1>3. CASE Has(s, x)
  <2>1. PICK i \in 1..Len(s) : s[i] = x
    BY <1>3 DEF Has
  <2>2. i \in 1..(Len(s) + Len(t)) /\ i <= Len(s)
    BY <1>2
  <2> QED  BY <1>1, <2>1, <2>2 DEF Has
<1>4. CASE Has(t, x)
  <2>1. PICK i \in 1..Len(t) : t[i] = x
    BY <1>4 DEF Has
  <2>2. /\ i + Len(s) \in 1..(Len(s) + Len(t)) /\ ~(i + Len(s) <= Len(s))
        /\ (i + Len(s)) - Len(s) = i
    BY <1>2
  <2> QED  BY <1>1, <2>1, <2>2 DEF Has
<1> QED  BY <1>1, <1>3, <1>4

LEMMA LookupTypes ==
    /\ \A fatal \in BOOLEAN : User(fatal) \in LookupType
    /\ Branch \in LookupType /\ PullRequest \in LookupType
    /\ \A own \in BOOLEAN : /\ GithubSenderAuthor(own) \in Seq(LookupType)
                            /\ GitlabSenderAuthor(own) \in Seq(LookupType)
<1>1. /\ \A fatal \in BOOLEAN : User(fatal) \in LookupType
      /\ Branch \in LookupType /\ PullRequest \in LookupType
  BY DEF User, Branch, PullRequest, LookupType
<1>2. ASSUME NEW own \in BOOLEAN
      PROVE  /\ GithubSenderAuthor(own) \in Seq(LookupType)
             /\ GitlabSenderAuthor(own) \in Seq(LookupType)
  <2>1. /\ <<User(FALSE)>> \in Seq(LookupType) /\ <<User(TRUE)>> \in Seq(LookupType)
        /\ <<>> \in Seq(LookupType)
    <3> DEFINE soft == User(FALSE)
               hard == User(TRUE)
    <3>1. soft \in LookupType /\ hard \in LookupType
      BY DEF User, LookupType
    <3> HIDE DEF soft, hard
    <3>2. /\ <<soft>> \in Seq(LookupType) /\ <<hard>> \in Seq(LookupType)
          /\ <<>> \in Seq(LookupType)
      BY <3>1
    <3> QED  BY <3>2 DEF soft, hard
  <2>2. \A s, t \in Seq(LookupType) : s \o t \in Seq(LookupType)
    OBVIOUS
  <2>3. CASE own
    BY <2>1, <2>2, <2>3 DEF GithubSenderAuthor, GitlabSenderAuthor, Unless
  <2>4. CASE ~own
    BY <2>1, <2>2, <2>4 DEF GithubSenderAuthor, GitlabSenderAuthor, Unless
  <2> QED  BY <2>3, <2>4
<1> QED  BY <1>1, <1>2

\* What a parser needs it looks up.
LEMMA LookupsDo ==
    ASSUME NEW d \in DeliveryType, WellFormed(d), api \in Servers, NEW own \in BOOLEAN,
           ~Ignores(d)
    PROVE  /\ Lookups(d, own) \in Seq(LookupType)
           /\ WantsBranch(d) => Has(Lookups(d, own), Branch)
           /\ WantsPull(d) => Has(Lookups(d, own), PullRequest)
<1>1. d.kind \in Kinds /\ d.onPull \in BOOLEAN
  BY DEF DeliveryType
<1>2. /\ <<>> \in Seq(LookupType) /\ <<Branch>> \in Seq(LookupType)
      /\ <<User(FALSE), Branch>> \in Seq(LookupType) /\ <<PullRequest>> \in Seq(LookupType)
      /\ <<User(FALSE)>> \in Seq(LookupType)
      /\ Has(<<Branch>>, Branch) /\ Has(<<User(FALSE), Branch>>, Branch)
      /\ Has(<<PullRequest>>, PullRequest)
  <2>1. User(FALSE) \in LookupType /\ Branch \in LookupType /\ PullRequest \in LookupType
    BY LookupTypes
  <2>2. \A x : Has(<<x>>, x)
    <3> SUFFICES ASSUME NEW x
                 PROVE  Has(<<x>>, x)
      OBVIOUS
    <3>1. <<x>>[1] = x /\ 1 \in 1..Len(<<x>>)
      OBVIOUS
    <3> QED  BY <3>1 DEF Has
  <2>3. Has(<<User(FALSE), Branch>>, Branch)
    <3>1. <<User(FALSE), Branch>>[2] = Branch /\ 2 \in 1..Len(<<User(FALSE), Branch>>)
      OBVIOUS
    <3> QED  BY <3>1 DEF Has
  <2>4. /\ <<>> \in Seq(LookupType) /\ <<Branch>> \in Seq(LookupType)
        /\ <<User(FALSE), Branch>> \in Seq(LookupType)
        /\ <<PullRequest>> \in Seq(LookupType) /\ <<User(FALSE)>> \in Seq(LookupType)
    <3> DEFINE soft == User(FALSE)
    <3>1. soft \in LookupType
      BY <2>1
    <3> HIDE DEF soft
    <3>2. /\ <<>> \in Seq(LookupType) /\ <<Branch>> \in Seq(LookupType)
          /\ <<soft, Branch>> \in Seq(LookupType)
          /\ <<PullRequest>> \in Seq(LookupType) /\ <<soft>> \in Seq(LookupType)
      BY <2>1, <3>1
    <3> QED  BY <3>2 DEF soft
  <2> QED  BY <2>2, <2>3, <2>4
<1>3. CASE api = "github"
  <2> DEFINE b == GithubBody(d)
             sender == GithubSenderAuthor(own)
  <2>1. /\ Lookups(d, own) = GithubLookups(d, b, own) /\ ~WantsBranch(d)
        /\ d.kind = "comment" => b.event = "issue_comment"
    BY <1>3 DEF Lookups, WantsBranch, GithubBody, PushKinds, PullKinds, ReviewKinds
  <2>2. sender \in Seq(LookupType)
    BY LookupTypes
  <2> HIDE DEF b, sender
  <2>3. <<PullRequest>> \o sender \in Seq(LookupType) /\ <<>> \o sender \in Seq(LookupType)
    BY <1>2, <2>2, ConcatProperties
  <2>4. Has(<<PullRequest>> \o sender, PullRequest)
    BY <1>2, <2>2, HasConcat
  <2>5. GithubLookups(d, b, own) \in Seq(LookupType)
    BY <1>1, <1>2, <2>2, <2>3 DEF GithubLookups, Unless, sender
  <2>6. WantsPull(d) => GithubLookups(d, b, own) = <<PullRequest>> \o sender
    BY <2>1 DEF GithubLookups, Unless, WantsPull, sender
  <2> QED  BY <2>1, <2>4, <2>5, <2>6
<1>4. CASE api = "gitlab"
  <2> DEFINE b == GitlabBody(d)
             sender == GitlabSenderAuthor(own)
             last == <<User(FALSE), Branch>>
  <2>1. /\ Lookups(d, own) = GitlabLookups(d, b, own) /\ ~WantsPull(d)
        /\ b.event \in {"Push Hook", "Tag Push Hook"} <=> d.kind \in PushKinds
        /\ b.event = "Note Hook" <=> d.kind \in NoteKinds
        /\ b.action \in {"approved", "unapproved"} => d.kind \in ReviewKinds
    <3>1. Lookups(d, own) = GitlabLookups(d, b, own) /\ ~WantsPull(d)
      BY <1>4 DEF Lookups, WantsPull
    <3>2. b.event = CASE d.kind = "tag" -> "Tag Push Hook"
                      [] d.kind \in PushKinds \ {"tag"} -> "Push Hook"
                      [] d.kind \in PullKinds \cup ReviewKinds -> "Merge Request Hook"
                      [] d.kind \in NoteKinds -> "Note Hook"
                      [] OTHER -> "Issue Hook"
      BY DEF GitlabBody
    <3>3. b.action \in {"approved", "unapproved"} => d.kind \in ReviewKinds
      BY <1>1 DEF GitlabBody, Kinds, PushKinds, PullKinds, ReviewKinds, NoteKinds
    <3> HIDE DEF b
    <3>4. /\ b.event \in {"Push Hook", "Tag Push Hook"} <=> d.kind \in PushKinds
          /\ b.event = "Note Hook" <=> d.kind \in NoteKinds
      BY <3>2 DEF PushKinds, PullKinds, ReviewKinds, NoteKinds
    <3> QED  BY <3>1, <3>3, <3>4
  <2>2. sender \in Seq(LookupType)
    BY LookupTypes
  <2> HIDE DEF b, sender, last
  <2>3. /\ sender \o last \in Seq(LookupType) /\ Has(sender \o last, Branch)
        /\ sender \o <<Branch>> \in Seq(LookupType) /\ Has(sender \o <<Branch>>, Branch)
        /\ sender \o <<>> \in Seq(LookupType)
    BY <1>2, <2>2, HasConcat, ConcatProperties DEF last
  <2>4. \/ GitlabLookups(d, b, own) \in {sender \o last, sender \o <<Branch>>}
        \/ GitlabLookups(d, b, own) = <<User(FALSE)>>
             /\ b.event \in {"Push Hook", "Tag Push Hook"}
        \/ GitlabLookups(d, b, own) = sender \o <<>> /\ ~d.onPull
    <3>1. CASE d.kind \in PushKinds
      <4>1. b.event # "Note Hook" /\ b.action \notin {"approved", "unapproved"}
        BY <2>1, <3>1 DEF PushKinds, ReviewKinds, NoteKinds
      <4> QED  BY <2>1, <3>1, <4>1 DEF GitlabLookups
    <3>2. CASE d.kind \in NoteKinds
      <4>1. /\ b.event \notin {"Push Hook", "Tag Push Hook"}
            /\ b.action \notin {"approved", "unapproved"}
        BY <2>1, <3>2 DEF PushKinds, ReviewKinds, NoteKinds
      <4>2. GitlabLookups(d, b, own) = sender \o Unless(~d.onPull, last)
        BY <2>1, <3>2, <4>1 DEF GitlabLookups, sender, last
      <4> QED  BY <1>1, <4>2 DEF Unless
    <3>3. CASE d.kind \notin PushKinds \cup NoteKinds
      <4>1. b.event \notin {"Push Hook", "Tag Push Hook", "Note Hook"}
        BY <2>1, <3>3
      <4>2. CASE b.action \in {"approved", "unapproved"}
        BY <4>1, <4>2 DEF GitlabLookups, sender, last
      <4>3. CASE b.action \notin {"approved", "unapproved"}
        BY <4>1, <4>3 DEF GitlabLookups, sender
      <4> QED  BY <4>2, <4>3
    <3> QED  BY <3>1, <3>2, <3>3
  <2> QED  BY <1>2, <2>1, <2>3, <2>4 DEF WantsBranch
<1> QED  BY <1>3, <1>4 DEF Servers

\* The events of GitHub's parser.
LEMMA GithubTold ==
    ASSUME NEW d \in DeliveryType, NEW got \in GotType, TypeOK, WellFormed(d),
           api = "github", ~Ignores(d), WantsPull(d) => got.pull \in PullsOf(d)
    PROVE  Told(d, Parsed(d, got))
<1> DEFINE b == GithubBody(d)
           e == Parsed(d, got)
<1>1. /\ d.kind \in Kinds /\ d.onPull \in BOOLEAN /\ d.sha \in Nat /\ d.base \in Nat
      /\ d.pr \in PullType /\ d.label \in Labels \cup {None}
  BY DEF DeliveryType
<1>2. /\ d.pr.state \in PullStates \cup {"none"} /\ d.pr.head \in Nat
      /\ d.pr.labels \in SUBSET Labels
  BY <1>1 DEF PullType
<1>3. pull.head \in Nat /\ tip \in Nat /\ d.pr.head <= pull.head /\ d.base <= tip
  BY DEF TypeOK, PullType, WellFormed
<1>4. e = GithubEvent(d, b, got) /\ ~GithubIgnores(b)
  BY DEF Parsed, Ignores
<1>5. b.sha = d.sha
  BY DEF GithubBody
<1>6. /\ PullOf(d).state \in {"open", "closed"} /\ PullOf(d).base = d.base
      /\ PullOf(d).head = d.pr.head
      /\ PullOf(d) \in [state : PullStates, base : Nat, head : Nat]
      /\ Since(d, PullOf(d))
  BY <1>1, <1>2, <1>3 DEF PullOf, PullStates, Since
<1> SUFFICES Told(d, e)
  OBVIOUS
<1> HIDE DEF e
<1>7. CASE d.kind \in PushKinds
  <2>1. b.event = "push"
    BY <1>7 DEF GithubBody, PushKinds, PullKinds, ReviewKinds
  <2>2. e = [type |-> "push", sha |-> d.sha] /\ d.sha # 0
    BY <1>4, <1>5, <2>1 DEF GithubEvent, GithubIgnores, NoCommit
  <2>3. d.kind # "deleted"
    BY <2>2 DEF WellFormed
  <2>4. e \in Webhooks
    BY <1>1, <2>2 DEF Webhooks
  <2> QED  BY <1>7, <2>2, <2>3, <2>4 DEF Told, PushKinds
<1>8. CASE d.kind \in PullKinds
  <2>1. /\ b.event = "pull_request"
        /\ b.action = IF d.kind = "merged" THEN "closed" ELSE d.kind
        /\ b.state = IF d.pr.state = "open" THEN "open" ELSE "closed"
    BY <1>8 DEF GithubBody, PushKinds, PullKinds, ReviewKinds
  <2>2. /\ b.action \in PullKinds
        /\ b.action \in {"labeled", "unlabeled"} <=> d.kind \in {"labeled", "unlabeled"}
        /\ b.action \in ActionsFor(d) /\ b.state = StateFor(d)
    BY <1>8, <2>1 DEF ActionsFor, StateFor, PullKinds
  <2>3. e = [type |-> "pull_request", state |-> b.state, base |-> d.base,
             head |-> d.pr.head, action |-> b.action, labels |-> d.pr.labels,
             changed |-> IF b.action \in {"labeled", "unlabeled"} THEN {d.label} ELSE {}]
    <3> HIDE DEF b
    <3> QED  BY <1>4, <2>1 DEF GithubEvent
  <2>4. d.kind \in {"labeled", "unlabeled"} => d.label \in Labels
    BY <1>2 DEF WellFormed
  <2> HIDE DEF b
  <2>5. e \in Webhooks
    BY <1>1, <1>2, <2>1, <2>2, <2>3, <2>4 DEF Webhooks, PullStates
  <2>6. Since(d, e)
    BY <1>1, <1>2, <1>3, <2>3 DEF Since
  <2> QED  BY <1>8, <2>1, <2>2, <2>3, <2>5, <2>6 DEF Told
<1>9. CASE d.kind \in ReviewKinds
  <2>1. /\ b.event = "pull_request_review"
        /\ b.action = "submitted" => d.kind # "dismissed"
        /\ b.state = ReviewFor(d)
    BY <1>9 DEF GithubBody, PushKinds, PullKinds, ReviewKinds, ReviewFor
  <2> HIDE DEF b
  <2>2. /\ e = [type |-> "pull_request_review", pr |-> PullOf(d), review |-> b.state]
        /\ d.kind # "dismissed"
    BY <1>4, <2>1 DEF GithubEvent, GithubIgnores
  <2>3. b.state \in {"approved", "changes_requested", "commented"}
    BY <1>9, <2>1, <2>2 DEF ReviewFor, ReviewKinds
  <2>4. e \in Webhooks
    BY <1>6, <2>2, <2>3 DEF Webhooks, EventTypes
  <2> QED  BY <1>6, <1>9, <2>1, <2>2, <2>4 DEF Told
<1>10. CASE d.kind \in {"comment", "commentEdited"}
  <2>1. /\ b.event = "issue_comment"
        /\ b.action = "created" => d.kind = "comment"
    BY <1>10 DEF GithubBody, PushKinds, PullKinds, ReviewKinds
  <2> HIDE DEF b
  <2>2. /\ e = [type |-> "issue_comment", pr |-> IF d.onPull THEN got.pull ELSE None,
                review |-> ""]
        /\ d.kind = "comment"
    BY <1>4, <2>1 DEF GithubEvent, GithubIgnores
  <2>3. d.onPull => /\ got.pull \in [state : PullStates, base : Nat, head : Nat]
                    /\ Since(d, got.pull)
    <3> SUFFICES ASSUME d.onPull
                 PROVE  /\ got.pull \in [state : PullStates, base : Nat, head : Nat]
                        /\ Since(d, got.pull)
      OBVIOUS
    <3>1. got.pull \in PullsOf(d)
      BY <2>2 DEF WantsPull
    <3> QED  BY <1>1, <1>2, <1>3, <3>1 DEF PullsOf, Since, PullStates
  <2>4. e \in Webhooks
    BY <2>2, <2>3 DEF Webhooks, EventTypes
  <2> QED  BY <1>1, <2>2, <2>3, <2>4 DEF Told
<1>11. CASE d.kind \in {"reviewComment", "reviewCommentEdited"}
  <2>1. /\ b.event = "pull_request_review_comment"
        /\ b.action = "created" => d.kind = "reviewComment"
    BY <1>11 DEF GithubBody, PushKinds, PullKinds, ReviewKinds
  <2> HIDE DEF b
  <2>2. /\ e = [type |-> "pull_request_review_comment", pr |-> PullOf(d), review |-> ""]
        /\ d.kind = "reviewComment"
    BY <1>4, <2>1 DEF GithubEvent, GithubIgnores
  <2>3. e \in Webhooks /\ d.onPull
    BY <1>6, <2>2 DEF Webhooks, EventTypes, WellFormed, GithubKinds
  <2> QED  BY <1>6, <2>2, <2>3 DEF Told
<1>12. CASE d.kind = "other"
  <2>1. b.event = "issues"
    BY <1>12 DEF GithubBody, PushKinds, PullKinds, ReviewKinds
  <2> HIDE DEF b
  <2> QED  BY <1>4, <2>1 DEF GithubIgnores, EventTypes
<1> QED  BY <1>1, <1>7, <1>8, <1>9, <1>10, <1>11, <1>12 DEF Kinds, NoteKinds

\* What GitLab says of labels tells the one that was added or removed.
LEMMA GitlabLabels ==
    ASSUME NEW d \in DeliveryType, WellFormed(d)
    PROVE  LET l == GitlabBody(d).labels IN
           /\ d.kind \notin {"labeled", "unlabeled"} => l = None
           /\ d.kind \in {"labeled", "unlabeled"} =>
                l # None /\ d.label \in Labels /\ DiffLabels(l).diff = {d.label}
<1> DEFINE l == GitlabBody(d).labels
           rest == (d.pr.labels \ {d.label}) \cup
                     (IF d.kind = "labeled" THEN {} ELSE {d.label})
<1>1. l = IF d.kind \notin {"labeled", "unlabeled"} THEN None
          ELSE [previous |-> rest, current |-> d.pr.labels]
  BY DEF GitlabBody
<1>2. d.pr.labels \in SUBSET Labels
  BY DEF DeliveryType, PullType
<1>3. d.kind \in {"labeled", "unlabeled"} => d.label \in Labels /\ rest \in SUBSET Labels
  BY <1>2 DEF WellFormed
<1>4. /\ d.kind = "labeled" => (rest \ d.pr.labels) \cup (d.pr.labels \ rest) = {d.label}
      /\ d.kind = "unlabeled" => (rest \ d.pr.labels) \cup (d.pr.labels \ rest) = {d.label}
  BY DEF WellFormed
<1> HIDE DEF l, rest
<1>5. d.kind \in {"labeled", "unlabeled"} => l # None /\ DiffLabels(l).diff = {d.label}
  <2> SUFFICES ASSUME d.kind \in {"labeled", "unlabeled"}
               PROVE  l # None /\ DiffLabels(l).diff = {d.label}
    OBVIOUS
  <2>1. l = [previous |-> rest, current |-> d.pr.labels]
    BY <1>1
  <2>2. l \in [previous : SUBSET Labels, current : SUBSET Labels]
    BY <1>2, <1>3, <2>1
  <2>3. l # None
    BY <2>2, NoneAssumption
  <2> QED  BY <1>4, <2>1, <2>3 DEF DiffLabels
<1> QED  BY <1>1, <1>3, <1>5 DEF l

\* The action of a merge request event.
LEMMA GitlabActions ==
    ASSUME NEW d \in DeliveryType, WellFormed(d), api = "gitlab", d.kind \in PullKinds
    PROVE  /\ GitlabBody(d).action \notin {"approved", "unapproved"}
           /\ GitlabAction(GitlabBody(d)) \in PullKinds \cup {"update", "merge"}
           /\ GitlabAction(GitlabBody(d)) \in ActionsFor(d)
<1> DEFINE b == GitlabBody(d)
<1>1. /\ d.kind = "opened" => b.action = "open"
      /\ d.kind = "closed" => b.action = "close"
      /\ d.kind = "merged" => b.action = "merge"
      /\ d.kind = "reopened" => b.action = "reopen"
      /\ d.kind \in {"synchronize", "labeled", "unlabeled", "edited", "assigned"}
           => b.action = "update"
  BY DEF GitlabBody, PullKinds
<1>2. b.oldrev <=> d.kind = "synchronize"
  BY DEF GitlabBody
<1>3. /\ d.kind \notin {"labeled", "unlabeled"} => b.labels = None
      /\ d.kind \in {"labeled", "unlabeled"} => b.labels # None
  BY GitlabLabels
<1> HIDE DEF b
<1> USE DEF PullKinds
<1>4. CASE d.kind \in {"opened", "closed", "reopened"}
  BY <1>1, <1>4 DEF GitlabAction, ActionsFor, b
<1>5. CASE d.kind = "merged"
  BY <1>1, <1>5 DEF GitlabAction, ActionsFor, b
<1>6. CASE d.kind = "synchronize"
  BY <1>1, <1>2, <1>6 DEF GitlabAction, ActionsFor, b
<1>7. CASE d.kind \in {"labeled", "unlabeled"}
  <2>1. b.action = "update" /\ ~b.oldrev /\ b.labels # None
    BY <1>1, <1>2, <1>3, <1>7
  <2>2. GitlabAction(b) \in {"labeled", "unlabeled"}
    BY <2>1 DEF GitlabAction
  <2> QED  BY <1>7, <2>1, <2>2 DEF ActionsFor, b
<1>8. CASE d.kind \in {"edited", "assigned"}
  BY <1>1, <1>2, <1>3, <1>8 DEF GitlabAction, ActionsFor, b
<1> QED  BY <1>4, <1>5, <1>6, <1>7, <1>8

\* The events of GitLab's parser.
LEMMA GitlabTold ==
    ASSUME NEW d \in DeliveryType, NEW got \in GotType, TypeOK, WellFormed(d),
           api = "gitlab", ~Ignores(d), WantsBranch(d) => got.branch \in BranchOf(d)
    PROVE  Told(d, Parsed(d, got))
<1> DEFINE b == GitlabBody(d)
           e == Parsed(d, got)
           pr == [state |-> GitlabState(b.state), base |-> got.branch, head |-> d.pr.head]
<1>1. /\ d.kind \in Kinds /\ d.onPull \in BOOLEAN /\ d.sha \in Nat /\ d.base \in Nat
      /\ d.pr \in PullType
  BY DEF DeliveryType
<1>2. /\ d.pr.state \in PullStates \cup {"none"} /\ d.pr.head \in Nat
      /\ d.pr.labels \in SUBSET Labels
  BY <1>1 DEF PullType
<1>3. /\ pull.head \in Nat /\ tip \in Nat /\ d.pr.head <= pull.head /\ d.base <= tip
      /\ got.branch \in Nat
  BY DEF TypeOK, PullType, WellFormed, GotType
<1>4. e = GitlabEvent(d, b, got) /\ ~GitlabIgnores(b)
  BY DEF Parsed, Ignores
<1>5. b.sha = d.sha
  BY DEF GitlabBody
<1>6. ASSUME d.onPull, d.kind \notin PushKinds
      PROVE  /\ pr.state = d.pr.state /\ pr.state \in PullStates
             /\ pr \in [state : PullStates, base : Nat, head : Nat]
             /\ Since(d, pr)
  <2>1. d.pr.state \in PullStates
    BY <1>2, <1>6 DEF WellFormed
  <2>2. b.state = IF d.pr.state = "open" THEN "opened" ELSE d.pr.state
    BY <1>6 DEF GitlabBody
  <2>3. GitlabState(b.state) = d.pr.state
    BY <2>1, <2>2 DEF GitlabState, PullStates
  <2>4. got.branch \in BranchOf(d)
    BY <1>6 DEF WantsBranch
  <2> QED  BY <1>1, <1>2, <1>3, <2>1, <2>3, <2>4 DEF Since, BranchOf
<1> SUFFICES Told(d, e)
  OBVIOUS
<1> HIDE DEF e
<1>7. CASE d.kind \in PushKinds
  <2>1. b.event \in {"Push Hook", "Tag Push Hook"}
    BY <1>7 DEF GitlabBody, PushKinds, PullKinds, ReviewKinds, NoteKinds
  <2>2. b.action \notin {"approved", "unapproved"}
    BY <1>7 DEF GitlabBody, PushKinds
  <2> HIDE DEF b
  <2>3. e = [type |-> "push", sha |-> d.sha] /\ d.sha # 0
    BY <1>4, <1>5, <2>1, <2>2 DEF GitlabEvent, GitlabIgnores, NoCommit, b
  <2>4. d.kind # "deleted"
    BY <2>3 DEF WellFormed
  <2>5. e \in Webhooks
    BY <1>1, <2>3 DEF Webhooks
  <2> QED  BY <1>7, <2>3, <2>4, <2>5 DEF Told, PushKinds
<1>8. CASE d.kind \in PullKinds
  <2>1. b.event = "Merge Request Hook"
    BY <1>8 DEF GitlabBody, PushKinds, PullKinds, ReviewKinds, NoteKinds
  <2>2. /\ b.action \notin {"approved", "unapproved"}
        /\ GitlabAction(b) \in PullKinds \cup {"update", "merge"}
        /\ GitlabAction(b) \in ActionsFor(d)
    BY <1>8, GitlabActions
  <2>3. d.onPull /\ d.kind \notin PushKinds
    BY <1>8 DEF WellFormed, PushKinds, PullKinds
  <2>4. b.oldrev <=> d.kind = "synchronize"
    BY DEF GitlabBody
  <2>5. /\ d.kind \notin {"labeled", "unlabeled"} => b.labels = None
        /\ d.kind \in {"labeled", "unlabeled"} =>
             /\ b.labels # None /\ d.label \in Labels
             /\ DiffLabels(b.labels).diff = {d.label}
    BY GitlabLabels
  <2> DEFINE changed == IF b.labels # None /\ ~b.oldrev THEN DiffLabels(b.labels).diff ELSE {}
  <2>6. changed = IF d.kind \in {"labeled", "unlabeled"} THEN {d.label} ELSE {}
    BY <2>4, <2>5
  <2>7. /\ pr.state = d.pr.state /\ pr.state \in PullStates
        /\ Since(d, pr)
    BY <1>6, <2>3
  <2> HIDE DEF pr, b, changed
  <2>8. e = [type |-> "pull_request", state |-> pr.state, base |-> pr.base,
             head |-> pr.head, action |-> GitlabAction(b), labels |-> d.pr.labels,
             changed |-> changed]
    BY <1>4, <2>1, <2>2 DEF GitlabEvent, pr, changed
  <2>9. pr.base \in Nat /\ pr.head \in Nat
    BY <1>2, <1>3 DEF pr
  <2>10. e \in Webhooks
    BY <1>2, <2>2, <2>5, <2>6, <2>7, <2>8, <2>9 DEF Webhooks
  <2>11. Since(d, e)
    BY <2>7, <2>8 DEF Since
  <2>12. pr.state = StateFor(d)
    BY <2>7 DEF StateFor, PullStates
  <2> QED  BY <1>8, <2>2, <2>6, <2>7, <2>8, <2>10, <2>11, <2>12 DEF Told
<1>9. CASE d.kind \in ReviewKinds
  <2>1. d.kind \in {"approved", "unapproved"} /\ d.onPull /\ d.kind \notin PushKinds
    BY <1>9 DEF WellFormed, GithubKinds, ReviewKinds, PushKinds
  <2>2. b.event = "Merge Request Hook" /\ b.action = d.kind
    BY <2>1 DEF GitlabBody, PushKinds, PullKinds, ReviewKinds, NoteKinds
  <2>3. pr \in [state : PullStates, base : Nat, head : Nat] /\ Since(d, pr)
    BY <1>6, <2>1
  <2> HIDE DEF pr, b
  <2>4. e = [type |-> "pull_request_review", pr |-> pr,
             review |-> IF d.kind = "approved" THEN "approved" ELSE "changes_requested"]
    BY <1>4, <2>1, <2>2 DEF GitlabEvent, pr
  <2>5. e \in Webhooks
    BY <2>3, <2>4 DEF Webhooks, EventTypes
  <2> QED  BY <2>1, <2>3, <2>4, <2>5 DEF Told, ReviewFor, ReviewKinds
<1>10. CASE d.kind \in NoteKinds
  <2>1. /\ b.event = "Note Hook" /\ (b.edited <=> d.kind = "commentEdited")
        /\ b.action \notin {"approved", "unapproved"} /\ d.kind \notin PushKinds
    BY <1>10 DEF GitlabBody, PushKinds, PullKinds, ReviewKinds, NoteKinds
  <2>2. d.onPull => /\ pr \in [state : PullStates, base : Nat, head : Nat]
                    /\ Since(d, pr)
    BY <1>6, <2>1
  <2> HIDE DEF pr, b
  <2>3. d.kind = "comment"
    BY <1>4, <1>10, <2>1 DEF GitlabIgnores, WellFormed, GithubKinds, NoteKinds
  <2>4. e = [type |-> "issue_comment", pr |-> IF d.onPull THEN pr ELSE None, review |-> ""]
    BY <1>4, <2>1 DEF GitlabEvent, pr
  <2>5. e \in Webhooks
    BY <1>1, <2>2, <2>4 DEF Webhooks, EventTypes
  <2> QED  BY <1>1, <2>2, <2>3, <2>4, <2>5 DEF Told
<1>11. CASE d.kind = "other"
  <2>1. b.event = "Issue Hook"
    BY <1>11 DEF GitlabBody, PushKinds, PullKinds, ReviewKinds, NoteKinds
  <2> HIDE DEF b
  <2> QED  BY <1>4, <2>1 DEF GitlabIgnores
<1> QED  BY <1>1, <1>7, <1>8, <1>9, <1>10, <1>11 DEF Kinds

\* Only what was pushed becomes a push.
LEMMA ParsedIsTold ==
    ASSUME NEW d \in DeliveryType, NEW got \in GotType, TypeOK, WellFormed(d), ~Ignores(d),
           WantsPull(d) => got.pull \in PullsOf(d),
           WantsBranch(d) => got.branch \in BranchOf(d)
    PROVE  Told(d, Parsed(d, got))
BY GithubTold, GitlabTold DEF TypeOK, Servers

(***************************************************************************)
(* What other steps leave of this.                                         *)
(***************************************************************************)
\* The branches only move on.
MovesOn ==
    /\ api' = api
    /\ tip' \in Nat /\ tip <= tip' /\ pull' \in PullType /\ pull.head <= pull'.head

LEMMA FitsStill ==
    ASSUME TypeOK, MovesOn, NEW d \in DeliveryType, WellFormed(d)
    PROVE  WellFormed(d)'
<1>1. d.pr.head \in Nat /\ d.base \in Nat /\ pull.head \in Nat /\ tip \in Nat
      /\ pull'.head \in Nat /\ tip' \in Nat
  BY DEF DeliveryType, PullType, TypeOK, MovesOn
<1> QED  BY <1>1 DEF WellFormed, MovesOn

LEMMA HandledStill ==
    ASSUME TypeOK, MovesOn, NEW h \in Handlers, Handled(h), req'[h] = req[h],
           allowed' => allowed
    PROVE  Handled(h)'
<1> DEFINE r == req[h]
<1>1. /\ r \in RequestType
      /\ r.pc \in {"idle", "authorize", "get", "parse", "lookup", "plugin", "sync", "apply"}
  BY DEF TypeOK, RequestType
<1>2. pull.head \in Nat /\ tip \in Nat /\ pull'.head \in Nat /\ tip' \in Nat
  BY DEF PullType, TypeOK, MovesOn
<1>3. CASE r.from = "git"
  <2>1. /\ r.d \in DeliveryType /\ WellFormed(r.d)
        /\ r.d.pr.head \in Nat /\ r.d.base \in Nat
    BY <1>3 DEF Handled, Good, DeliveryType, PullType
  <2>2. WellFormed(r.d)'
    BY <1>2, <2>1 DEF WellFormed, MovesOn
  <2>3. Ignores(r.d)' <=> Ignores(r.d)
    BY DEF Ignores, MovesOn
  <2>4. LooksUp(r) /\ r.got \in GotType => LooksUp(r)'
    <3>1. BranchOf(r.d) \subseteq BranchOf(r.d)' /\ PullsOf(r.d) \subseteq PullsOf(r.d)'
      BY <1>2, <2>1 DEF BranchOf, PullsOf, MovesOn
    <3>2. /\ WantsBranch(r.d)' <=> WantsBranch(r.d)
          /\ WantsPull(r.d)' <=> WantsPull(r.d)
      BY DEF WantsBranch, WantsPull, MovesOn
    <3>3. Has(r.todo, Branch)' <=> Has(r.todo, Branch)
      BY DEF Has, Branch
    <3>4. Has(r.todo, PullRequest)' <=> Has(r.todo, PullRequest)
      BY DEF Has, PullRequest
    <3> QED  BY <3>1, <3>2, <3>3, <3>4 DEF LooksUp
  <2>5. Told(r.d, r.event) => Told(r.d, r.event)'
    <3>1. ActionsFor(r.d)' = ActionsFor(r.d) /\ StateFor(r.d)' = StateFor(r.d)
      BY DEF ActionsFor, StateFor, MovesOn
    <3>2. /\ r.d.pr.head..pull.head \subseteq r.d.pr.head..pull'.head
          /\ r.d.base..tip \subseteq r.d.base..tip'
      BY <1>2, <2>1 DEF MovesOn
    <3>3. \A pr : Since(r.d, pr) =>
            pr.head \in r.d.pr.head..pull'.head /\ pr.base \in r.d.base..tip'
      BY <3>2 DEF Since
    <3> QED  BY <3>1, <3>3 DEF Told, Since, ReviewFor
  <2> QED  BY <1>3, <2>1, <2>2, <2>3, <2>4, <2>5 DEF Handled, Good
<1>4. CASE r.from # "git"
  BY <1>4 DEF Handled, Good
<1> QED  BY <1>3, <1>4

\* A step of one handler, after which its request is r.
LEMMA HandlerDoes ==
    ASSUME Inv, NEW h \in Handlers, NEW r \in RequestType, req' = [req EXCEPT ![h] = r],
           UNCHANGED <<api, tip, pull, hook, app, allowed>>, events' \in Nat,
           net' \subseteq net, Good(r)
    PROVE  Inv'
<1>1. TypeOK
  BY DEF Inv
<1>2. TypeOK'
  BY <1>1 DEF TypeOK
<1>3. MovesOn
  BY <1>1 DEF TypeOK, MovesOn, PullType
<1>4. DeliveriesFit'
  BY <1>1, <1>3, FitsStill DEF Inv, DeliveriesFit
<1>5. ASSUME NEW g \in Handlers
      PROVE  Handled(g)'
  <2>1. CASE g # h
    <3>1. req'[g] = req[g] /\ Handled(g)
      BY <1>1, <2>1 DEF TypeOK, Inv
    <3> QED  BY <1>1, <1>3, <3>1, HandledStill
  <2>2. CASE g = h
    <3>1. req'[h] = r
      BY <1>1 DEF TypeOK
    <3>2. WellFormed(req[h].d)' <=> WellFormed(r.d)
      BY <3>1 DEF WellFormed
    <3>3. Ignores(req[h].d)' <=> Ignores(r.d)
      BY <3>1 DEF Ignores
    <3>4. LooksUp(req[h])' <=> LooksUp(r)
      BY <3>1 DEF LooksUp, WantsBranch, WantsPull, BranchOf, PullsOf, Has, Branch, PullRequest
    <3>5. Told(req[h].d, req[h].event)' <=> Told(r.d, r.event)
      BY <3>1 DEF Told, Since, ActionsFor, StateFor, ReviewFor
    <3> QED  BY <2>2, <3>1, <3>2, <3>3, <3>4, <3>5 DEF Handled, Good
  <2> QED  BY <2>1, <2>2
<1> QED  BY <1>2, <1>4, <1>5 DEF Inv

LEMMA IdleIsGood == Idle \in RequestType /\ Good(Idle)
<1>1. <<>> \in Seq(LookupType)
  OBVIOUS
<1>2. Idle \in RequestType
  BY <1>1 DEF Idle, RequestType, Faults
<1> QED  BY <1>2 DEF Idle, Good

(***************************************************************************)
(* The steps of the handlers.                                              *)
(***************************************************************************)
LEMMA ReceiveKeeps ==
    ASSUME Inv, Receive
    PROVE  Inv'
<1>1. PICK h \in Handlers, d \in net : ServeHTTP(h, d)
  BY DEF Receive
<1>2. /\ d \in net /\ net' = net \ {d} /\ UNCHANGED <<api, tip, pull, hook, app, allowed>>
      /\ events' = events
  BY <1>1 DEF ServeHTTP, unchangedBySteps
<1>3. d \in DeliveryType /\ WellFormed(d) /\ events' \in Nat /\ net' \subseteq net /\ TypeOK
  BY <1>2 DEF Inv, DeliveriesFit, TypeOK
<1>4. CASE req' = [req EXCEPT ![h] = [Idle EXCEPT !.pc = "get", !.from = "git", !.d = d]]
  <2> DEFINE r == [Idle EXCEPT !.pc = "get", !.from = "git", !.d = d]
  <2>1. r \in RequestType
    <3>1. Idle \in RequestType
      BY IdleIsGood
    <3> QED  BY <1>3, <3>1 DEF RequestType
  <2>2. r.pc = "get" /\ r.from = "git" /\ r.d = d
    BY DEF Idle
  <2> HIDE DEF r
  <2>3. Good(r)
    BY <1>3, <2>2 DEF Good
  <2> QED  BY <1>2, <1>3, <1>4, <2>1, <2>3, HandlerDoes DEF r
<1>5. CASE UNCHANGED req
  <2>1. MovesOn /\ TypeOK'
    BY <1>2, <1>3, <1>5 DEF TypeOK, MovesOn, PullType
  <2>2. \A g \in Handlers : Handled(g)'
    BY <1>2, <1>3, <1>5, <2>1, HandledStill DEF Inv
  <2>3. DeliveriesFit'
    BY <1>3, <2>1, FitsStill DEF Inv, DeliveriesFit
  <2> QED  BY <2>1, <2>2, <2>3 DEF Inv
<1> QED  BY <1>1, <1>4, <1>5 DEF ServeHTTP

LEMMA RequestKeeps ==
    ASSUME Inv, NEW h \in Handlers, NEW fault \in Faults, RequestSync(h, fault)
    PROVE  Inv'
<1> DEFINE r == [Idle EXCEPT !.pc = "authorize", !.from = "api", !.was = allowed,
                             !.fault = fault]
<1>1. /\ req' = [req EXCEPT ![h] = r] /\ UNCHANGED <<api, tip, pull, hook, app, allowed>>
      /\ events' = events + 1 /\ net' = net
  BY DEF RequestSync, Event, repoVars, appVars
<1>2. events' \in Nat /\ allowed \in BOOLEAN
  BY <1>1 DEF Inv, TypeOK
<1>3. r \in RequestType
  <2>1. Idle \in RequestType
    BY IdleIsGood
  <2> QED  BY <1>2, <2>1 DEF RequestType
<1>4. r.pc = "authorize" /\ r.from = "api" /\ r.was = allowed
  BY DEF Idle
<1> HIDE DEF r
<1>5. Good(r)
  BY <1>4 DEF Good
<1> QED  BY <1>1, <1>2, <1>3, <1>5, HandlerDoes

\* A step of a handler that goes on with r.
LEMMA GoesOn ==
    ASSUME Inv, NEW h \in Handlers, UNCHANGED <<unchangedBySteps, net>>,
           NEW r \in RequestType, req' = [req EXCEPT ![h] = r], Good(r)
    PROVE  Inv'
<1>1. events' \in Nat /\ net' \subseteq net
  BY DEF unchangedBySteps, Inv, TypeOK
<1>2. UNCHANGED <<api, tip, pull, hook, app, allowed>>
  BY DEF unchangedBySteps
<1> QED  BY <1>1, <1>2, HandlerDoes

\* A step of a handler whose request ends.
LEMMA Ends ==
    ASSUME Inv, NEW h \in Handlers, UNCHANGED <<unchangedBySteps, net>>,
           req' = [req EXCEPT ![h] = Idle]
    PROVE  Inv'
BY IdleIsGood, GoesOn

LEMMA GetKeeps ==
    ASSUME Inv, NEW h \in Handlers, GetApplication(h)
    PROVE  Inv'
<1> DEFINE q == req[h]
           pc == IF q.from = "git" THEN "parse" ELSE "sync"
           r == [q EXCEPT !.secret = app.secret, !.pc = pc]
<1>1. /\ q \in RequestType /\ Good(q) /\ q.pc = "get" /\ app.secret \in Nat
      /\ req \in [Handlers -> RequestType]
  BY DEF Inv, TypeOK, Handled, GetApplication, At
<1>2. UNCHANGED <<unchangedBySteps, net>>
  BY DEF GetApplication
<1>3. CASE req' = [req EXCEPT ![h].secret = app.secret,
                              ![h].pc = IF IsDelivery(h) THEN "parse" ELSE "sync"]
  <2>1. req' = [req EXCEPT ![h] = r]
    BY <1>1, <1>3 DEF IsDelivery
  <2>2. r \in RequestType
    BY <1>1 DEF RequestType
  <2>3. /\ r.pc = pc /\ r.from = q.from /\ r.d = q.d /\ r.was = q.was
        /\ r.fault = q.fault
    BY <1>1 DEF RequestType
  <2> HIDE DEF r
  <2>4. Good(r)
    BY <1>1, <2>3 DEF Good
  <2> QED  BY <1>2, <2>1, <2>2, <2>4, GoesOn
<1>4. CASE EndOfRequest(h, TRUE)
  BY <1>2, <1>4, Ends DEF EndOfRequest
<1> QED  BY <1>3, <1>4 DEF GetApplication

LEMMA ParseKeeps ==
    ASSUME Inv, NEW h \in Handlers, ParseWebhook(h)
    PROVE  Inv'
<1> DEFINE q == req[h]
<1>1. /\ q \in RequestType /\ Good(q) /\ q.pc = "parse"
      /\ req \in [Handlers -> RequestType] /\ TypeOK
  BY DEF Inv, TypeOK, Handled, ParseWebhook, At
<1>2. UNCHANGED <<unchangedBySteps, net>>
  BY DEF ParseWebhook
<1>3. q.from = "git" /\ q.d \in DeliveryType /\ WellFormed(q.d)
  BY <1>1 DEF Good
<1>4. ASSUME Validate(q.d, q.secret), ~Ignores(q.d), NEW own \in BOOLEAN,
             req' = [req EXCEPT ![h].pc = "lookup", ![h].todo = Lookups(q.d, own),
                                ![h].got = [branch |-> 0, pull |-> None]]
      PROVE  Inv'
  <2> DEFINE todo == Lookups(q.d, own)
             got  == [branch |-> 0, pull |-> None]
             r == [q EXCEPT !.pc = "lookup", !.todo = todo, !.got = got]
  <2>1. /\ todo \in Seq(LookupType) /\ (WantsBranch(q.d) => Has(todo, Branch))
        /\ WantsPull(q.d) => Has(todo, PullRequest)
    BY <1>1, <1>3, <1>4, LookupsDo DEF TypeOK
  <2>2. got \in GotType
    BY DEF GotType
  <2> HIDE DEF todo, got
  <2>3. req' = [req EXCEPT ![h] = r]
    BY <1>1, <1>4 DEF todo, got
  <2>4. r \in RequestType
    BY <1>1, <2>1, <2>2 DEF RequestType
  <2>5. /\ r.pc = "lookup" /\ r.from = q.from /\ r.d = q.d /\ r.secret = q.secret
        /\ r.todo = todo /\ r.got = got
    BY <1>1 DEF RequestType
  <2> HIDE DEF r
  <2>6. LooksUp(r)
    BY <2>1, <2>5 DEF LooksUp
  <2>7. Good(r)
    BY <1>3, <1>4, <2>2, <2>5, <2>6 DEF Good, Validate
  <2> QED  BY <1>2, <2>3, <2>4, <2>7, GoesOn
<1>5. CASE EndOfRequest(h, TRUE) \/ EndOfRequest(h, FALSE)
  BY <1>2, <1>5, Ends DEF EndOfRequest
<1> QED  BY <1>4, <1>5 DEF ParseWebhook

LEMMA HasTail ==
    ASSUME NEW s \in Seq(LookupType), s # <<>>
    PROVE  /\ Tail(s) \in Seq(LookupType) /\ Head(s) \in LookupType
           /\ \A x : Has(s, x) /\ Head(s) # x => Has(Tail(s), x)
<1>1. /\ Tail(s) \in Seq(LookupType) /\ Len(Tail(s)) = Len(s) - 1
      /\ Head(s) = s[1] /\ Head(s) \in LookupType /\ Len(s) \in Nat
      /\ \A i \in 1..(Len(s) - 1) : Tail(s)[i] = s[i + 1]
  BY HeadTailProperties
<1>2. ASSUME NEW x, Has(s, x), Head(s) # x
      PROVE  Has(Tail(s), x)
  <2>1. PICK i \in 1..Len(s) : s[i] = x
    BY <1>2 DEF Has
  <2>2. i - 1 \in 1..(Len(s) - 1) /\ (i - 1) + 1 = i
    BY <1>1, <1>2, <2>1
  <2>3. Tail(s)[i - 1] = x
    BY <1>1, <2>1, <2>2
  <2> QED  BY <1>1, <2>2, <2>3 DEF Has
<1> QED  BY <1>1, <1>2

LEMMA LookupKeeps ==
    ASSUME Inv, NEW h \in Handlers, Lookup(h)
    PROVE  Inv'
<1> DEFINE q == req[h]
           next == Head(q.todo)
           rest == Tail(q.todo)
<1>1. /\ q \in RequestType /\ Good(q) /\ q.pc = "lookup" /\ q.todo # <<>>
      /\ req \in [Handlers -> RequestType] /\ TypeOK
  BY DEF Inv, TypeOK, Handled, Lookup, At
<1>2. UNCHANGED <<unchangedBySteps, net>>
  BY DEF Lookup
<1>3. /\ q.from = "git" /\ q.d \in DeliveryType /\ WellFormed(q.d)
      /\ q.got \in GotType /\ LooksUp(q) /\ q.todo \in Seq(LookupType)
  BY <1>1 DEF Good, RequestType
<1>4. /\ rest \in Seq(LookupType)
      /\ \A x : Has(q.todo, x) /\ next # x => Has(rest, x)
  BY <1>1, <1>3, HasTail
<1>5. ASSUME NEW got \in GotType,
             Has(q.todo, Branch) /\ next = Branch /\ WantsBranch(q.d)
               => got.branch \in BranchOf(q.d),
             Has(q.todo, PullRequest) /\ next = PullRequest /\ WantsPull(q.d)
               => got.pull \in PullsOf(q.d),
             WantsBranch(q.d) /\ q.got.branch \in BranchOf(q.d)
               => got.branch \in BranchOf(q.d),
             WantsPull(q.d) /\ q.got.pull \in PullsOf(q.d) => got.pull \in PullsOf(q.d),
             req' = [req EXCEPT ![h] = [q EXCEPT !.todo = rest, !.got = got]]
      PROVE  Inv'
  <2> DEFINE r == [q EXCEPT !.todo = rest, !.got = got]
  <2> HIDE DEF rest
  <2>1. r \in RequestType
    BY <1>1, <1>4 DEF RequestType
  <2>2. /\ r.pc = q.pc /\ r.from = q.from /\ r.d = q.d /\ r.secret = q.secret
        /\ r.todo = rest /\ r.got = got
    BY <1>1 DEF RequestType
  <2> HIDE DEF r, next
  <2>3. LooksUp(r)
    BY <1>3, <1>4, <1>5, <2>2 DEF LooksUp
  <2>4. Good(r)
    BY <1>1, <1>3, <2>2, <2>3 DEF Good
  <2> QED  BY <1>2, <1>5, <2>1, <2>4, GoesOn DEF r
<1>6. CASE ~next.fatal /\ req' = [req EXCEPT ![h].todo = Tail(@)]
  <2>1. req' = [req EXCEPT ![h] = [q EXCEPT !.todo = rest, !.got = q.got]]
    <3>1. [q EXCEPT !.todo = rest, !.got = q.got] = [q EXCEPT !.todo = rest]
      BY <1>1 DEF RequestType
    <3> QED  BY <1>1, <1>6, <3>1
  <2>2. next # Branch /\ next # PullRequest
    BY <1>6 DEF Branch, PullRequest
  <2> HIDE DEF q, next, rest
  <2> QED  BY <1>3, <1>5, <2>1, <2>2
<1>7. CASE req' = [req EXCEPT ![h] = Idle]
  BY <1>2, <1>7, Ends
<1>8. ASSUME req' = [req EXCEPT ![h].todo = Tail(@),
                       ![h].got.branch = IF next.of = "branch" THEN tip ELSE @,
                       ![h].got.pull =
                          IF next.of = "pull"
                          THEN [state |-> IF pull.state = "open" THEN "open" ELSE "closed",
                                base |-> tip, head |-> pull.head]
                          ELSE @]
      PROVE  Inv'
  <2> DEFINE found  == [state |-> IF pull.state = "open" THEN "open" ELSE "closed",
                        base |-> tip, head |-> pull.head]
             branch == IF next.of = "branch" THEN tip ELSE q.got.branch
             pulled == IF next.of = "pull" THEN found ELSE q.got.pull
             got    == [q.got EXCEPT !.branch = branch, !.pull = pulled]
  <2>1. req' = [req EXCEPT ![h] = [q EXCEPT !.todo = rest, !.got = got]]
    BY <1>1, <1>8
  <2>2. /\ tip \in Nat /\ pull.head \in Nat /\ q.d.base <= tip /\ q.d.pr.head <= pull.head
        /\ q.d.base \in Nat /\ q.d.pr.head \in Nat
    BY <1>1, <1>3 DEF TypeOK, PullType, WellFormed, DeliveryType
  <2>3. tip \in BranchOf(q.d) /\ found \in PullsOf(q.d)
    BY <2>2 DEF BranchOf, PullsOf
  <2>4. found \in [state : {"open", "closed"}, base : Nat, head : Nat]
    BY <2>2
  <2> HIDE DEF found
  <2>5. branch \in Nat
    BY <1>3, <2>2 DEF GotType
  <2>6. pulled \in [state : {"open", "closed"}, base : Nat, head : Nat] \cup {None}
    BY <1>3, <2>4 DEF GotType
  <2> HIDE DEF branch, pulled
  <2>7. got \in GotType /\ got.branch = branch /\ got.pull = pulled
    BY <1>3, <2>5, <2>6 DEF GotType
  <2>8. /\ next = Branch => next.of = "branch"
        /\ next = PullRequest => next.of = "pull"
    BY DEF Branch, PullRequest
  <2> HIDE DEF got, q, next, rest
  <2>9. /\ next = Branch \/ q.got.branch \in BranchOf(q.d) => got.branch \in BranchOf(q.d)
        /\ next = PullRequest \/ q.got.pull \in PullsOf(q.d) => got.pull \in PullsOf(q.d)
    BY <2>3, <2>7, <2>8 DEF branch, pulled
  <2> QED  BY <1>5, <2>1, <2>7, <2>9
<1> QED  BY <1>6, <1>7, <1>8 DEF Lookup

LEMMA HandleEventKeeps ==
    ASSUME Inv, NEW h \in Handlers, HandleEvent(h)
    PROVE  Inv'
<1> DEFINE q == req[h]
           event == Parsed(q.d, q.got)
           r == [q EXCEPT !.pc = "plugin", !.event = event]
<1>1. /\ q \in RequestType /\ Good(q) /\ q.pc = "lookup" /\ q.todo = <<>>
      /\ req \in [Handlers -> RequestType] /\ TypeOK
  BY DEF Inv, TypeOK, Handled, HandleEvent, At
<1>2. UNCHANGED <<unchangedBySteps, net>>
  BY DEF HandleEvent
<1>3. /\ q.from = "git" /\ q.d \in DeliveryType /\ WellFormed(q.d) /\ ~Ignores(q.d)
      /\ q.got \in GotType /\ LooksUp(q) /\ q.d.secret = q.secret
  BY <1>1 DEF Good
<1>4. \A x : ~Has(q.todo, x)
  BY <1>1 DEF Has
<1>5. Told(q.d, event)
  BY <1>1, <1>3, <1>4, ParsedIsTold DEF LooksUp
<1>6. req' = [req EXCEPT ![h] = r]
  BY <1>1 DEF HandleEvent
<1> HIDE DEF event
<1>7. r \in RequestType
  BY <1>1, <1>5 DEF RequestType, Told
<1>8. /\ r.pc = "plugin" /\ r.from = q.from /\ r.d = q.d /\ r.secret = q.secret
      /\ r.event = event
  BY <1>1 DEF RequestType
<1> HIDE DEF r
<1>9. Good(r)
  BY <1>3, <1>5, <1>8 DEF Good
<1> QED  BY <1>2, <1>6, <1>7, <1>9, GoesOn

LEMMA HandleKeeps ==
    ASSUME Inv, NEW h \in Handlers, Handle(h)
    PROVE  Inv'
<1> DEFINE q == req[h]
           r == [q EXCEPT !.pc = "sync"]
<1>1. /\ q \in RequestType /\ Good(q) /\ q.pc = "plugin"
      /\ req \in [Handlers -> RequestType]
  BY DEF Inv, TypeOK, Handled, Handle, At
<1>2. UNCHANGED <<unchangedBySteps, net>>
  BY DEF Handle
<1>3. CASE q.event.type = "push" /\ Goto(h, "sync")
  <2>1. req' = [req EXCEPT ![h] = r]
    BY <1>1, <1>3 DEF Goto
  <2>2. r \in RequestType
    BY <1>1 DEF RequestType
  <2>3. r.pc = "sync" /\ r.from = q.from /\ r.d = q.d /\ r.secret = q.secret
    BY <1>1 DEF RequestType
  <2>4. q.d.kind \in {"push", "topic", "tag"} /\ q.from = "git"
    BY <1>1, <1>3 DEF Good, Told
  <2> HIDE DEF r
  <2>5. Good(r)
    BY <1>1, <2>3, <2>4 DEF Good, PushKinds
  <2> QED  BY <1>2, <2>1, <2>2, <2>5, GoesOn
<1>4. CASE EndOfRequest(h, FALSE)
  BY <1>2, <1>4, Ends DEF EndOfRequest
<1> QED  BY <1>3, <1>4 DEF Handle

LEMMA AuthorizeKeeps ==
    ASSUME Inv, NEW h \in Handlers, Authorize(h)
    PROVE  Inv'
<1> DEFINE q == req[h]
           r == [q EXCEPT !.pc = "get"]
<1>1. /\ q \in RequestType /\ Good(q) /\ q.pc = "authorize"
      /\ req \in [Handlers -> RequestType]
  BY DEF Inv, TypeOK, Handled, Authorize, At
<1>2. UNCHANGED <<unchangedBySteps, net>>
  BY DEF Authorize
<1>3. CASE q.fault # "certificate" /\ ReviewAccess(h) /\ Goto(h, "get")
  <2>1. req' = [req EXCEPT ![h] = r]
    BY <1>1, <1>3 DEF Goto
  <2>2. r \in RequestType
    BY <1>1 DEF RequestType
  <2>3. r.pc = "get" /\ r.from = q.from /\ r.was = q.was /\ r.fault = q.fault
    BY <1>1 DEF RequestType
  <2>4. q.from = "api" /\ q.was /\ q.fault = "none"
    BY <1>1, <1>3 DEF Good, ReviewAccess, RequestType, Faults
  <2> HIDE DEF r
  <2>5. Good(r)
    BY <2>3, <2>4 DEF Good
  <2> QED  BY <1>2, <2>1, <2>2, <2>5, GoesOn
<1>4. CASE EndOfRequest(h, TRUE)
  BY <1>2, <1>4, Ends DEF EndOfRequest
<1> QED  BY <1>3, <1>4 DEF Authorize

LEMMA CheckSyncKeeps ==
    ASSUME Inv, NEW h \in Handlers, CheckSync(h)
    PROVE  Inv'
<1> DEFINE q == req[h]
           r == [q EXCEPT !.pc = "apply", !.read = tip]
<1>1. /\ q \in RequestType /\ Good(q) /\ q.pc = "sync" /\ tip \in Nat
      /\ req \in [Handlers -> RequestType]
  BY DEF Inv, TypeOK, Handled, CheckSync, At
<1>2. UNCHANGED <<unchangedBySteps, net>> /\ req' = [req EXCEPT ![h] = r]
  BY <1>1 DEF CheckSync
<1>3. r \in RequestType
  BY <1>1 DEF RequestType
<1>4. r.pc = "apply" /\ r.from = q.from /\ r.d = q.d
  BY <1>1 DEF RequestType
<1> HIDE DEF r
<1>5. Good(r)
  BY <1>1, <1>4 DEF Good
<1> QED  BY <1>2, <1>3, <1>5, GoesOn

LEMMA StepKeeps ==
    ASSUME Inv, NEW h \in Handlers, Step(h)
    PROVE  Inv'
<1>1. CASE Apply(h)
  BY <1>1, Ends DEF Apply, EndOfRequest
<1> QED  BY <1>1, CheckSyncKeeps, GetKeeps, ParseKeeps, LookupKeeps, HandleEventKeeps,
            HandleKeeps, AuthorizeKeeps DEF Step

(***************************************************************************)
(* The steps of the repository and of the objects.                         *)
(***************************************************************************)
\* Steps that move no request: what is on its way is old, or fits.
LEMMA OthersKeep ==
    ASSUME Inv, MovesOn, TypeOK', req' = req, allowed' = allowed,
           \A d \in net' : d \in net \/ (d \in DeliveryType /\ WellFormed(d)')
    PROVE  Inv'
<1>1. TypeOK
  BY DEF Inv
<1>2. \A h \in Handlers : Handled(h)'
  BY <1>1, HandledStill DEF Inv
<1>3. DeliveriesFit'
  BY <1>1, FitsStill DEF Inv, DeliveriesFit
<1> QED  BY <1>2, <1>3 DEF Inv

\* What a delivery says of what has just happened.
LEMMA DeliveryFits ==
    ASSUME TypeOK, tip' \in Nat, NEW kind \in Kinds, NEW sha \in Nat, NEW was \in PullType,
           NEW label \in Labels \cup {None}, NEW onPull \in BOOLEAN,
           was = pull',
           kind = "deleted" => sha = 0,
           kind \in PullKinds \cup ReviewKinds => onPull,
           kind \in GithubKinds => api' = "github" /\ onPull,
           onPull => was.state # "none",
           kind \in PullKinds \ {"merged"} => was.state \in {"open", "closed"},
           kind = "labeled" => label \in was.labels,
           kind = "unlabeled" => label \in Labels \ was.labels,
           NEW d, d = Delivery(kind, sha, was, label, onPull)
    PROVE  d \in DeliveryType /\ WellFormed(d)'
<1>1. events \in Nat /\ hook \in Nat
  BY DEF TypeOK
<1>2. d = [id |-> events, kind |-> kind, sha |-> sha, pr |-> was, base |-> tip',
           label |-> label, onPull |-> onPull, secret |-> hook]
  BY DEF Delivery
<1>3. d \in DeliveryType
  BY <1>1, <1>2 DEF DeliveryType
<1>4. /\ d.kind = kind /\ d.sha = sha /\ d.pr = was /\ d.base = tip'
      /\ d.label = label /\ d.onPull = onPull
  BY <1>2
<1>5. was.head \in Nat /\ was.head <= pull'.head /\ d.base <= tip'
  BY <1>4 DEF PullType
<1> QED  BY <1>3, <1>4, <1>5 DEF WellFormed

\* Something that happens in the repository, and what is told of it.
Happens ==
    /\ api' = api /\ hook' = hook /\ app' = app /\ allowed' = allowed /\ req' = req
    /\ events' = events + 1

LEMMA SendKeeps ==
    ASSUME Inv, Happens, tip' \in Nat, tip <= tip', pull' \in PullType,
           pull.head <= pull'.head,
           \A d \in net' : d \in net \/ (d \in DeliveryType /\ WellFormed(d)')
    PROVE  Inv'
<1>1. TypeOK' /\ MovesOn
  BY DEF Inv, TypeOK, MovesOn, Happens
<1> QED  BY <1>1, OthersKeep DEF Happens

LEMMA RepositoryKeeps ==
    ASSUME Inv, RepositoryStep
    PROVE  Inv'
<1> USE DEF Kinds, PushKinds, PullKinds, ReviewKinds, NoteKinds, GithubKinds
<1>1. /\ TypeOK /\ tip \in Nat /\ pull \in PullType
      /\ pull.state \in PullStates \cup {"none"} /\ pull.head \in Nat
      /\ pull.labels \in SUBSET Labels
  BY DEF Inv, TypeOK, PullType
<1>2. CASE Pushed
  <2>1. /\ tip' = tip + 1 /\ pull' = pull /\ Happens
        /\ net' \subseteq net \cup {Delivery("push", tip', pull, None, FALSE)}
    BY <1>2 DEF Pushed, Send, Event, Happens
  <2>2. tip' \in Nat /\ tip <= tip' /\ pull' \in PullType /\ pull.head <= pull'.head
    BY <1>1, <2>1
  <2>3. ASSUME NEW d, d = Delivery("push", tip', pull, None, FALSE)
        PROVE  d \in DeliveryType /\ WellFormed(d)'
    BY <1>1, <2>1, <2>2, <2>3, DeliveryFits
  <2>4. \A d \in net' : d \in net \/ (d \in DeliveryType /\ WellFormed(d)')
    BY <2>1, <2>3
  <2> QED  BY <2>1, <2>2, <2>4, SendKeeps
<1>3. ASSUME NEW kind \in {"tag", "deleted"}, RefChanged(kind)
      PROVE  Inv'
  <2> DEFINE sha == IF kind = "deleted" THEN 0 ELSE tip
  <2>1. /\ tip' = tip /\ pull' = pull /\ Happens
        /\ net' \subseteq net \cup {Delivery(kind, sha, pull, None, FALSE)}
    BY <1>3 DEF RefChanged, Send, Event, Happens
  <2>2. sha \in Nat /\ (kind = "deleted" => sha = 0)
    BY <1>1
  <2> HIDE DEF sha
  <2>3. tip' \in Nat /\ tip <= tip' /\ pull' \in PullType /\ pull.head <= pull'.head
    BY <1>1, <2>1
  <2>4. ASSUME NEW d, d = Delivery(kind, sha, pull, None, FALSE)
        PROVE  d \in DeliveryType /\ WellFormed(d)'
    BY <1>1, <2>1, <2>2, <2>3, <2>4, DeliveryFits
  <2>5. \A d \in net' : d \in net \/ (d \in DeliveryType /\ WellFormed(d)')
    BY <2>1, <2>4
  <2> QED  BY <2>1, <2>3, <2>5, SendKeeps
<1>4. CASE TopicPushed
  <2>1. /\ tip' = tip /\ pull' = [pull EXCEPT !.head = @ + 1] /\ pull.state = "open"
        /\ Happens
        /\ net' \subseteq net \cup {Delivery("topic", pull'.head, pull', None, FALSE),
                                    Delivery("synchronize", 0, pull', None, TRUE)}
    BY <1>4 DEF TopicPushed, Send, Event, Happens
  <2>2. /\ pull' \in PullType /\ pull'.head = pull.head + 1 /\ pull'.state = "open"
        /\ pull'.head \in Nat
    BY <1>1, <2>1 DEF PullType
  <2>3. tip' \in Nat /\ tip <= tip' /\ pull' \in PullType /\ pull.head <= pull'.head
    BY <1>1, <2>1, <2>2
  <2>4. ASSUME NEW d, d = Delivery("topic", pull'.head, pull', None, FALSE)
        PROVE  d \in DeliveryType /\ WellFormed(d)'
    BY <1>1, <2>2, <2>3, <2>4, DeliveryFits
  <2>5. ASSUME NEW d, d = Delivery("synchronize", 0, pull', None, TRUE)
        PROVE  d \in DeliveryType /\ WellFormed(d)'
    BY <1>1, <2>2, <2>3, <2>5, DeliveryFits
  <2>6. \A d \in net' : d \in net \/ (d \in DeliveryType /\ WellFormed(d)')
    BY <2>1, <2>4, <2>5
  <2> QED  BY <2>1, <2>3, <2>6, SendKeeps
<1>5. CASE Merged
  <2>1. /\ tip' = tip + 1 /\ pull' = [pull EXCEPT !.state = "merged"] /\ Happens
        /\ net' \subseteq net \cup {Delivery("merged", 0, pull', None, TRUE),
                                    Delivery("push", tip', pull', None, FALSE)}
    BY <1>5 DEF Merged, Send, Event, Happens
  <2>2. pull' \in PullType /\ pull'.head = pull.head /\ pull'.state = "merged"
    BY <1>1, <2>1 DEF PullType, PullStates
  <2>3. tip' \in Nat /\ tip <= tip' /\ pull' \in PullType /\ pull.head <= pull'.head
    BY <1>1, <2>1, <2>2
  <2>4. ASSUME NEW d, d = Delivery("merged", 0, pull', None, TRUE)
        PROVE  d \in DeliveryType /\ WellFormed(d)'
    BY <1>1, <2>2, <2>3, <2>4, DeliveryFits
  <2>5. ASSUME NEW d, d = Delivery("push", tip', pull', None, FALSE)
        PROVE  d \in DeliveryType /\ WellFormed(d)'
    BY <1>1, <2>2, <2>3, <2>5, DeliveryFits
  <2>6. \A d \in net' : d \in net \/ (d \in DeliveryType /\ WellFormed(d)')
    BY <2>1, <2>4, <2>5
  <2> QED  BY <2>1, <2>3, <2>6, SendKeeps
<1>6. ASSUME NEW kind \in PullKinds, NEW state \in {"open", "closed"}, PullMoved(kind, state)
      PROVE  Inv'
  <2>1. /\ tip' = tip /\ pull' = [pull EXCEPT !.state = state] /\ Happens
        /\ net' \subseteq net \cup {Delivery(kind, 0, pull', None, TRUE)}
        /\ kind \in {"opened", "closed", "reopened", "edited", "assigned"}
    BY <1>6 DEF PullMoved, Send, Event, Happens
  <2>2. pull' \in PullType /\ pull'.head = pull.head /\ pull'.state = state
    BY <1>1, <2>1 DEF PullType, PullStates
  <2>3. tip' \in Nat /\ tip <= tip' /\ pull' \in PullType /\ pull.head <= pull'.head
    BY <1>1, <2>1, <2>2
  <2>4. ASSUME NEW d, d = Delivery(kind, 0, pull', None, TRUE)
        PROVE  d \in DeliveryType /\ WellFormed(d)'
    BY <1>1, <2>1, <2>2, <2>3, <2>4, DeliveryFits
  <2>5. \A d \in net' : d \in net \/ (d \in DeliveryType /\ WellFormed(d)')
    BY <2>1, <2>4
  <2> QED  BY <2>1, <2>3, <2>5, SendKeeps
<1>7. ASSUME NEW l \in Labels, Labelled(l)
      PROVE  Inv'
  <2> DEFINE kind   == IF l \in pull.labels THEN "unlabeled" ELSE "labeled"
             labels == IF l \in pull.labels THEN pull.labels \ {l} ELSE pull.labels \cup {l}
  <2>1. /\ tip' = tip /\ pull' = [pull EXCEPT !.labels = labels] /\ pull.state = "open"
        /\ Happens /\ net' \subseteq net \cup {Delivery(kind, 0, pull', l, TRUE)}
    BY <1>7 DEF Labelled, Send, Event, Happens
  <2>2. /\ kind \in {"labeled", "unlabeled"} /\ labels \in SUBSET Labels
        /\ kind = "labeled" => l \in labels
        /\ kind = "unlabeled" => l \in Labels \ labels
    BY <1>1
  <2> HIDE DEF kind, labels
  <2>3. /\ pull' \in PullType /\ pull'.head = pull.head /\ pull'.state = "open"
        /\ pull'.labels = labels
    BY <1>1, <2>1, <2>2 DEF PullType
  <2>4. tip' \in Nat /\ tip <= tip' /\ pull' \in PullType /\ pull.head <= pull'.head
    BY <1>1, <2>1, <2>3
  <2>5. ASSUME NEW d, d = Delivery(kind, 0, pull', l, TRUE)
        PROVE  d \in DeliveryType /\ WellFormed(d)'
    BY <1>1, <2>2, <2>3, <2>4, <2>5, DeliveryFits
  <2>6. \A d \in net' : d \in net \/ (d \in DeliveryType /\ WellFormed(d)')
    BY <2>1, <2>5
  <2> QED  BY <2>1, <2>4, <2>6, SendKeeps
<1>8. ASSUME NEW kind \in ReviewKinds, Reviewed(kind)
      PROVE  Inv'
  <2>1. /\ tip' = tip /\ pull' = pull /\ pull.state = "open" /\ Happens
        /\ net' \subseteq net \cup {Delivery(kind, 0, pull, None, TRUE)}
        /\ kind \in {"commented", "dismissed"} => api' = "github"
    BY <1>8 DEF Reviewed, Send, Event, Happens
  <2>2. tip' \in Nat /\ tip <= tip' /\ pull' \in PullType /\ pull.head <= pull'.head
    BY <1>1, <2>1
  <2>3. ASSUME NEW d, d = Delivery(kind, 0, pull, None, TRUE)
        PROVE  d \in DeliveryType /\ WellFormed(d)'
    BY <1>1, <2>1, <2>2, <2>3, DeliveryFits
  <2>4. \A d \in net' : d \in net \/ (d \in DeliveryType /\ WellFormed(d)')
    BY <2>1, <2>3
  <2> QED  BY <2>1, <2>2, <2>4, SendKeeps
<1>9. ASSUME NEW kind \in NoteKinds \cup {"other"}, NEW onPull \in BOOLEAN,
             Noted(kind, onPull)
      PROVE  Inv'
  <2>1. /\ tip' = tip /\ pull' = pull /\ Happens
        /\ net' \subseteq net \cup {Delivery(kind, 0, pull, None, onPull)}
        /\ kind \in {"reviewComment", "reviewCommentEdited"} => api' = "github" /\ onPull
        /\ onPull => pull.state # "none"
    BY <1>9 DEF Noted, Send, Event, Happens
  <2>2. tip' \in Nat /\ tip <= tip' /\ pull' \in PullType /\ pull.head <= pull'.head
    BY <1>1, <2>1
  <2>3. ASSUME NEW d, d = Delivery(kind, 0, pull, None, onPull)
        PROVE  d \in DeliveryType /\ WellFormed(d)'
    BY <1>1, <2>1, <2>2, <2>3, DeliveryFits
  <2>4. \A d \in net' : d \in net \/ (d \in DeliveryType /\ WellFormed(d)')
    BY <2>1, <2>3
  <2> QED  BY <2>1, <2>2, <2>4, SendKeeps
<1>10. ASSUME NEW d \in net, Dropped(d)
       PROVE  Inv'
  <2>1. /\ UNCHANGED <<api, tip, pull, hook, app, allowed, req, events>>
        /\ \A e \in net' : e \in net
    BY <1>10 DEF Dropped
  <2>2. TypeOK' /\ MovesOn
    BY <1>1, <2>1 DEF TypeOK, MovesOn
  <2> QED  BY <2>1, <2>2, OthersKeep
<1> QED  BY <1>2, <1>3, <1>4, <1>5, <1>6, <1>7, <1>8, <1>9, <1>10 DEF RepositoryStep

LEMMA ObjectsKeep ==
    ASSUME Inv, ObjectStep
    PROVE  Inv'
<1>1. TypeOK
  BY DEF Inv
<1>2. CASE AppDeleted
  <2>1. /\ UNCHANGED <<api, tip, pull, allowed, req>> /\ (\A d \in net' : d \in net)
        /\ app' = [app EXCEPT !.there = FALSE] /\ hook' \in {0, hook} /\ events' = events + 1
    BY <1>2 DEF AppDeleted, Event
  <2>2. app' \in [there : BOOLEAN, secret : Nat] /\ hook' \in Nat
    <3>1. app \in [there : BOOLEAN, secret : Nat] /\ hook \in Nat
      BY <1>1 DEF TypeOK
    <3>2. [app EXCEPT !.there = FALSE] \in [there : BOOLEAN, secret : Nat]
      BY <3>1
    <3> QED  BY <2>1, <3>1, <3>2
  <2>3. MovesOn
    BY <1>1, <2>1 DEF TypeOK, MovesOn, PullType
  <2>4. TypeOK'
    BY <1>1, <2>1, <2>2 DEF TypeOK
  <2> QED  BY <2>1, <2>3, <2>4, OthersKeep
<1>3. CASE AppCreated
  <2>1. /\ UNCHANGED <<api, tip, pull, allowed, req, events>> /\ (\A d \in net' : d \in net)
        /\ app' = [there |-> TRUE, secret |-> app.secret + 1]
        /\ hook' \in {app'.secret, hook}
    BY <1>3 DEF AppCreated
  <2>2. TypeOK' /\ MovesOn
    BY <1>1, <2>1 DEF TypeOK, MovesOn, PullType
  <2> QED  BY <2>1, <2>2, OthersKeep
<1>4. CASE RightsChanged
  <2>1. /\ UNCHANGED <<api, tip, pull, hook, net, app>> /\ events' = events + 1
        /\ allowed' = ~allowed
        /\ req' = [h \in Handlers |-> IF req[h].from = "api" /\ allowed'
                                     THEN [req[h] EXCEPT !.was = TRUE] ELSE req[h]]
    BY <1>4 DEF RightsChanged, Event, repoVars
  <2>2. \A h \in Handlers : /\ req[h] \in RequestType
                            /\ [req[h] EXCEPT !.was = TRUE] \in RequestType
    BY <1>1 DEF TypeOK, RequestType
  <2>3. TypeOK' /\ MovesOn
    BY <1>1, <2>1, <2>2 DEF TypeOK, MovesOn, PullType
  <2>4. DeliveriesFit'
    BY <1>1, <2>1, <2>3, FitsStill DEF Inv, DeliveriesFit
  <2>5. ASSUME NEW h \in Handlers
        PROVE  Handled(h)'
    <3>1. CASE req[h].from = "api" /\ allowed'
      <4>1. /\ req'[h].pc = req[h].pc /\ req'[h].from = "api" /\ req'[h].was
            /\ req'[h].fault = req[h].fault
        BY <2>1, <2>2, <3>1 DEF RequestType
      <4>2. /\ req[h].pc \notin {"parse", "lookup", "plugin"}
            /\ req[h].pc \in {"get", "sync"} => req[h].fault = "none"
        BY <3>1 DEF Inv, Handled, Good
      <4> QED  BY <4>1, <4>2 DEF Handled, Good
    <3>2. CASE req[h].from # "api"
      <4>1. req'[h] = req[h] /\ req[h].pc # "authorize"
        BY <2>1, <3>2 DEF Inv, Handled, Good
      <4>2. /\ WellFormed(req[h].d)' <=> WellFormed(req[h].d)
            /\ Ignores(req[h].d)' <=> Ignores(req[h].d)
        BY <2>1, <4>1 DEF WellFormed, Ignores
      <4>3. /\ LooksUp(req[h])' <=> LooksUp(req[h])
            /\ Told(req[h].d, req[h].event)' <=> Told(req[h].d, req[h].event)
        BY <2>1, <4>1 DEF LooksUp, WantsBranch, WantsPull, BranchOf, PullsOf, Has, Branch,
                          PullRequest, Told, Since, ActionsFor, StateFor, ReviewFor
      <4> QED  BY <4>1, <4>2, <4>3 DEF Inv, Handled, Good
    <3>3. CASE req[h].from = "api" /\ ~allowed'
      <4>1. req'[h] = req[h]
        BY <2>1, <3>3
      <4> QED  BY <1>1, <2>3, <3>3, <4>1, HandledStill DEF Inv
    <3> QED  BY <3>1, <3>2, <3>3
  <2> QED  BY <2>3, <2>4, <2>5 DEF Inv
<1> QED  BY <1>2, <1>3, <1>4 DEF ObjectStep

LEMMA CrashKeeps ==
    ASSUME Inv, Crash
    PROVE  Inv'
<1>1. TypeOK
  BY DEF Inv
<1>2. /\ UNCHANGED <<api, tip, pull, hook, net, app, allowed>> /\ events' = events + 1
      /\ req' = [h \in Handlers |-> Idle]
  BY DEF Crash, Event, repoVars, appVars
<1>3. TypeOK' /\ MovesOn
  BY <1>1, <1>2, IdleIsGood DEF TypeOK, MovesOn, PullType
<1>4. DeliveriesFit'
  BY <1>1, <1>2, <1>3, FitsStill DEF Inv, DeliveriesFit
<1>5. \A h \in Handlers : Handled(h)'
  BY <1>2 DEF Handled, Good, Idle
<1> QED  BY <1>3, <1>4, <1>5 DEF Inv

LEMMA InvInit == Init => Inv
<1> SUFFICES ASSUME Init
             PROVE  Inv
  OBVIOUS
<1>1. TypeOK
  BY IdleIsGood DEF Init, TypeOK, PullType, PullStates
<1>2. DeliveriesFit
  BY DEF Init, DeliveriesFit
<1>3. \A h \in Handlers : Handled(h)
  BY IdleIsGood DEF Init, Handled
<1> QED  BY <1>1, <1>2, <1>3 DEF Inv

LEMMA InvStep == Inv /\ [Next]_vars => Inv'
<1> SUFFICES ASSUME Inv, [Next]_vars
             PROVE  Inv'
  OBVIOUS
<1>1. CASE UNCHANGED vars
  <2>1. /\ UNCHANGED <<api, tip, pull, hook, app, allowed, req, events>>
        /\ \A d \in net' : d \in net
    BY <1>1 DEF vars
  <2>2. TypeOK' /\ MovesOn
    BY <2>1 DEF Inv, TypeOK, MovesOn, PullType
  <2> QED  BY <2>1, <2>2, OthersKeep
<1> QED  BY <1>1, RepositoryKeeps, ObjectsKeep, ReceiveKeeps, CrashKeeps, StepKeeps,
            RequestKeeps DEF Next

(***************************************************************************)
(* The theorems.                                                           *)
(***************************************************************************)
\* The plugins of a webhook server get events about what happened, in the words
\* their server's parser has for it and with commits of a time since then, however
\* many handlers look things up while the repository moves on.  Of labels GitLab's
\* tells which changed, not whether they were added or removed.
\* (ParseWebhook, parser.go of both clients)
THEOREM EventsAreTrue == Spec => []EventsTellWhatHappened
<1>1. Inv => EventsTellWhatHappened
  <2>1. \A h \in Handlers : Inv /\ At(h, "plugin") => Told(req[h].d, req[h].event)
    BY DEF Inv, Handled, Good, At
  <2> QED  BY <2>1 DEF EventsTellWhatHappened, Told, Since
<1> QED  BY <1>1, InvInit, InvStep, PTL DEF Spec

\* A forced sync has a push with the Application's own secret behind it, or a user
\* who came with a certificate and the headers and was allowed to update the
\* Application at some time since asking.
\* (handler_webhook.go, dispatcher.go, authorize.go, deploy.go)
THEOREM SyncsAreAsked == Spec => []ForcedSyncsAreAsked
<1>1. Inv => ForcedSyncsAreAsked
  <2> SUFFICES ASSUME Inv, NEW h \in Handlers, At(h, "sync")
               PROVE  IF IsDelivery(h)
                        THEN /\ req[h].d.kind \in PushKinds \ {"deleted"}
                             /\ req[h].d.secret = req[h].secret
                        ELSE req[h].was /\ req[h].fault = "none"
    BY DEF ForcedSyncsAreAsked
  <2> QED  BY DEF Inv, Handled, Good, At, IsDelivery
<1> QED  BY <1>1, InvInit, InvStep, PTL DEF Spec
=============================================================================
