-------------------------- MODULE GitClientProofs --------------------------
(***************************************************************************)
(* Theorems of GitClient, for every page size, tree of directories and     *)
(* number of changes that others make meanwhile.                           *)
(***************************************************************************)
EXTENDS GitClient, SequenceTheorems, TLAPS

(***************************************************************************)
(* The values of the variables.                                            *)
(***************************************************************************)
Entry == [context : Contexts, state : States \cup GitlabStates]

Found == Files \X (Contents \cup {None})

CallType ==
    [op : {"idle", "hooks", "statuses", "infos", "listed", "read", "manifests"},
     page : Nat, got : Seq(Nat \cup Entry), kind : {None, "hooks", "statuses", "infos"},
     dirs : SUBSET Dirs, infos : SUBSET Found, objs : SUBSET (Files \X Contents)]

SinceType ==
    [ids : SUBSET Nat, files : SUBSET Files, seen : SUBSET Found,
     moved : BOOLEAN, cut : BOOLEAN]

TypeOK ==
    /\ api \in {"github", "gitlab"}
    /\ hooks \in Seq(Nat) /\ statuses \in Seq(Entry)
    /\ wrote \in [Contexts -> States \cup {None}]
    /\ tree \in [Files -> Contents \cup {None}]
    /\ call \in CallType /\ since \in SinceType
    /\ ~At("idle") => call.page >= 1
    /\ events \in Nat

LEMMA IdleType == Idle \in CallType /\ NoSince \in SinceType
BY DEF Idle, CallType, NoSince, SinceType

\* What removing an element leaves.
LEMMA RemoveAtDoes ==
    ASSUME NEW S, NEW s \in Seq(S), NEW i \in 1..Len(s)
    PROVE  /\ RemoveAt(s, i) \in Seq(S) /\ Len(RemoveAt(s, i)) = Len(s) - 1
           /\ \A j \in 1..(Len(s) - 1) :
                RemoveAt(s, i)[j] = IF j < i THEN s[j] ELSE s[j + 1]
<1> DEFINE left  == SubSeq(s, 1, i - 1)
           right == SubSeq(s, i + 1, Len(s))
<1>1. Len(s) \in Nat /\ i \in Nat /\ i >= 1 /\ i <= Len(s)
  OBVIOUS
<1>2. /\ left \in Seq(S) /\ Len(left) = i - 1
      /\ \A j \in 1..(i - 1) : left[j] = s[j]
  OBVIOUS
<1>3. /\ right \in Seq(S) /\ Len(right) = Len(s) - i
      /\ \A j \in 1..(Len(s) - i) : right[j] = s[j + i]
  OBVIOUS
<1>4. RemoveAt(s, i) = left \o right
  BY DEF RemoveAt
<1> HIDE DEF left, right
<1>5. /\ left \o right \in Seq(S) /\ Len(left \o right) = Len(left) + Len(right)
      /\ \A j \in 1..(Len(left) + Len(right)) :
           (left \o right)[j] = IF j <= Len(left) THEN left[j] ELSE right[j - Len(left)]
  BY <1>2, <1>3, ConcatProperties
<1>6. Len(left) + Len(right) = Len(s) - 1
  BY <1>1, <1>2, <1>3
<1>7. ASSUME NEW j \in 1..(Len(s) - 1)
      PROVE  (left \o right)[j] = IF j < i THEN s[j] ELSE s[j + 1]
  <2>1. j \in Nat /\ j >= 1 /\ j <= Len(s) - 1
    BY <1>1
  <2>2. CASE j < i
    BY <1>1, <1>2, <1>5, <1>6, <2>1, <2>2
  <2>3. CASE ~(j < i)
    <3>1. (left \o right)[j] = right[j - (i - 1)]
      BY <1>1, <1>2, <1>5, <1>6, <2>1, <2>3
    <3>2. right[j - (i - 1)] = s[(j - (i - 1)) + i] /\ (j - (i - 1)) + i = j + 1
      BY <1>1, <1>3, <2>1, <2>3
    <3> QED  BY <1>1, <2>1, <2>3, <3>1, <3>2
  <2> QED  BY <2>2, <2>3
<1> QED  BY <1>4, <1>5, <1>6, <1>7

LEMMA WrittenType ==
    ASSUME TypeOK, NEW ctx \in Contexts, NEW raw \in States \cup GitlabStates
    PROVE  Written(ctx, raw) \in Seq(Entry)
<1> DEFINE old == {j \in DOMAIN statuses : statuses[j].context = ctx}
           i   == CHOOSE j \in old : TRUE
           new == [context |-> ctx, state |-> raw]
<1>1. new \in Entry /\ statuses \in Seq(Entry)
  BY DEF Entry, TypeOK
<1>2. old # {} => i \in 1..Len(statuses)
  BY <1>1
<1>3. <<new>> \o statuses \in Seq(Entry) /\ Append(statuses, new) \in Seq(Entry)
  BY <1>1
<1>4. old # {} => /\ [statuses EXCEPT ![i] = new] \in Seq(Entry)
                  /\ Append(RemoveAt(statuses, i), new) \in Seq(Entry)
  <2> HIDE DEF i, new, old
  <2> QED  BY <1>1, <1>2, RemoveAtDoes
<1>5. api \in {"github", "gitlab"}
  BY DEF TypeOK
<1> HIDE DEF i, new
<1> QED  BY <1>3, <1>4, <1>5 DEF Written, i, new

\* The pages collected so far and the next one.
Page(all) ==
    LET end == PageSize * call.page
    IN  SubSeq(all, end - PageSize + 1, IF end < Len(all) THEN end ELSE Len(all))

LEMMA PageType ==
    ASSUME NEW S, NEW all \in Seq(S), TypeOK, ~At("idle")
    PROVE  Page(all) \in Seq(S)
<1> DEFINE end  == PageSize * call.page
           last == IF end < Len(all) THEN end ELSE Len(all)
<1>1. end \in Nat /\ PageSize \in Nat /\ end >= PageSize
  <2>1. /\ call.page \in Nat /\ call.page >= 1
        /\ PageSize \in Nat /\ PageSize >= 1
    BY PageAssumption DEF TypeOK, CallType
  <2> QED  BY <2>1
<1> HIDE DEF end
<1>2. last \in Nat /\ last <= Len(all) /\ Len(all) \in Nat
  BY <1>1
<1> HIDE DEF last
<1>3. end - PageSize + 1 \in Nat /\ end - PageSize + 1 >= 1
  BY <1>1
<1>4. \A k \in (end - PageSize + 1)..last : all[k] \in S
  BY <1>2, <1>3, ElementOfSeq
<1>5. SubSeq(all, end - PageSize + 1, last) \in Seq(S)
  BY <1>2, <1>3, <1>4, SubSeqProperties
<1> QED  BY <1>5 DEF Page, end, last

\* What other clients do keeps the types.
LEMMA OthersType ==
    ASSUME TypeOK, OthersStep
    PROVE  TypeOK'
<1> USE DEF Event, At
<1>1. CASE HookAdded
  <2>1. NewId \in Nat /\ call' = call
    BY <1>1 DEF TypeOK, NewId, FirstIds, HookAdded
  <2> QED  BY <1>1, <2>1 DEF HookAdded, TypeOK
<1>2. ASSUME NEW i \in DOMAIN hooks, HookDeleted(i)
      PROVE  TypeOK'
  <2>1. RemoveAt(hooks, i) \in Seq(Nat)
    BY RemoveAtDoes DEF TypeOK
  <2>2. since' \in SinceType
    BY <1>2 DEF HookDeleted, TypeOK, SinceType
  <2> QED  BY <1>2, <2>1, <2>2 DEF HookDeleted, TypeOK
<1>3. ASSUME NEW f \in Files, NEW x \in Contents \cup {None}, GitPush(f, x)
      PROVE  TypeOK'
  <2>1. since' \in SinceType
    BY <1>3 DEF GitPush, TypeOK, SinceType, Found
  <2> QED  BY <1>3, <2>1 DEF GitPush, TypeOK
<1>4. ASSUME NEW c \in Contexts, NEW s \in States \cup GitlabStates, StatusByOthers(c, s)
      PROVE  TypeOK'
  <2>1. since' \in SinceType
    BY <1>4 DEF StatusByOthers, TypeOK, SinceType
  <2> QED  BY <1>4, <2>1, WrittenType DEF StatusByOthers, TypeOK
<1> QED  BY <1>1, <1>2, <1>3, <1>4 DEF OthersStep

LEMMA SinceHasType == TypeOK => Since \in SinceType
BY DEF TypeOK, Since, SinceType, Found, ToSet

LEMMA ReturnType ==
    ASSUME TypeOK, Return
    PROVE  TypeOK'
BY IdleType DEF Return, TypeOK, At, Idle

\* The requests of the client do too.
LEMMA ClientType ==
    ASSUME TypeOK, ClientStep
    PROVE  TypeOK'
<1> USE DEF Event, At
<1>1. ASSUME NEW op \in {"hooks", "statuses", "infos"}, Begin(op)
      PROVE  TypeOK'
  <2> DEFINE dirs == IF op = "infos" THEN {Root} ELSE {}
  <2>1. dirs \subseteq Dirs
    BY TreeAssumption
  <2>2. call' = [Idle EXCEPT !.op = op, !.page = 1, !.dirs = dirs]
    BY <1>1 DEF Begin
  <2> HIDE DEF dirs
  <2>3. call' \in CallType
    <3>1. Idle \in CallType /\ op \in {"hooks", "statuses", "infos"} /\ 1 \in Nat
      BY IdleType
    <3> QED  BY <2>1, <2>2, <3>1 DEF CallType
  <2>4. call'.page >= 1
    BY <2>2, <2>3, IdleType DEF CallType
  <2> QED  BY <1>1, <2>3, <2>4, SinceHasType DEF Begin, TypeOK
<1>2. CASE Return
  BY <1>2, ReturnType
<1>3. CASE GetPaginatedRequest
  <2>1. /\ hooks \in Seq(Nat \cup Entry) /\ statuses \in Seq(Nat \cup Entry)
        /\ call.got \in Seq(Nat \cup Entry)
    <3>1. call \in CallType /\ hooks \in Seq(Nat) /\ statuses \in Seq(Entry)
      BY DEF TypeOK
    <3>2. call.got \in Seq(Nat \cup Entry)
      BY <3>1 DEF CallType
    <3> QED  BY <3>1, <3>2
  <2>2. \A all \in Seq(Nat \cup Entry) : call.got \o Page(all) \in Seq(Nat \cup Entry)
    BY <1>3, <2>1, PageType, ConcatProperties DEF GetPaginatedRequest, At
  <2>3. PICK got \in Seq(Nat \cup Entry) :
           \/ call' = [call EXCEPT !.got = got, !.page = @ + 1]
           \/ call' = [call EXCEPT !.got = got, !.kind = call.op, !.op = "listed"]
    <3>1. CASE At("hooks")
      BY <1>3, <2>1, <2>2, <3>1 DEF GetPaginatedRequest, Page
    <3>2. CASE ~At("hooks")
      BY <1>3, <2>1, <2>2, <3>2 DEF GetPaginatedRequest, Page
    <3> QED  BY <3>1, <3>2
  <2>4. call.op \in {"hooks", "statuses"} /\ call.page + 1 \in Nat
    BY <1>3 DEF GetPaginatedRequest, TypeOK, CallType
  <2>5. call.page >= 1
    BY <2>4 DEF TypeOK, At
  <2>6. call \in CallType /\ call.page \in Nat
    BY DEF TypeOK, CallType
  <2>7. call' \in CallType
    BY <2>3, <2>4, <2>6 DEF CallType
  <2>8. call'.page >= 1
    <3>1. DOMAIN call = DOMAIN Idle
      BY <2>6 DEF CallType, Idle
    <3>2. call'.page \in {call.page, call.page + 1}
      BY <2>3, <3>1 DEF Idle
    <3> QED  BY <2>5, <2>6, <3>2
  <2> QED  BY <1>3, <2>7, <2>8 DEF GetPaginatedRequest, TypeOK
<1>4. CASE RegisterWebhook
  BY <1>4, OthersType DEF RegisterWebhook, OthersStep
<1>5. ASSUME NEW i \in DOMAIN hooks, DeleteWebhook(i)
      PROVE  TypeOK'
  BY <1>5, OthersType DEF DeleteWebhook, OthersStep
<1>6. ASSUME NEW c \in Contexts, NEW s \in States, SetCommitStatus(c, s)
      PROVE  TypeOK'
  <2>1. StatusRequest(s) \in States \cup GitlabStates
    BY DEF StatusRequest, States, GitlabStates, TypeOK
  <2> QED  BY <1>6, <2>1, WrittenType DEF SetCommitStatus, TypeOK
<1>7. ASSUME NEW d \in Dirs, GetManifestInfos(d), ~Return
      PROVE  TypeOK'
  <2>1. PICK s \in Shown(d) :
          LET dirs == (call.dirs \ {d}) \cup {e.name : e \in {x \in s : x.type = "dir"}} IN
            /\ call' = [call EXCEPT
                   !.dirs = dirs, !.op = IF dirs = {} THEN "read" ELSE "infos",
                   !.infos = @ \cup {Info(e.name) : e \in {x \in s : x.type = "file"}}]
            /\ since' = [since EXCEPT !.cut = @ \/ s # Entries(d)]
            /\ UNCHANGED <<api, hooks, statuses, wrote, tree, events>>
    BY <1>7 DEF GetManifestInfos
  <2> DEFINE dirs  == (call.dirs \ {d}) \cup {e.name : e \in {x \in s : x.type = "dir"}}
             infos == call.infos \cup {Info(e.name) : e \in {x \in s : x.type = "file"}}
  <2>2. s \subseteq Entries(d)
    BY DEF Shown
  <2>3. \A e \in s : /\ e.type = "dir" => e.name \in Dirs
                     /\ e.type = "file" => e.name \in Files
    BY <2>2 DEF Entries, Under
  <2>4. dirs \in SUBSET Dirs
    BY <2>3 DEF TypeOK, CallType
  <2>5. \A f \in Files : Info(f) \in Found
    BY DEF Info, Found, TypeOK
  <2>6. infos \in SUBSET Found
    BY <2>3, <2>5 DEF TypeOK, CallType
  <2>7. call' = [call EXCEPT !.dirs = dirs, !.op = IF dirs = {} THEN "read" ELSE "infos",
                             !.infos = infos]
    BY <2>1
  <2> HIDE DEF dirs, infos
  <2>8. call' \in CallType /\ call'.page >= 1
    BY <1>7, <2>4, <2>6, <2>7 DEF TypeOK, CallType, GetManifestInfos, At
  <2>9. since' \in SinceType
    BY <2>1 DEF TypeOK, SinceType
  <2> QED  BY <2>1, <2>8, <2>9 DEF TypeOK
<1>8. ASSUME NEW info \in call.infos, ObjectFromManifest(info), ~Return
      PROVE  TypeOK'
  <2>1. /\ call' = [call EXCEPT !.infos = @ \ {info},
                                !.objs = @ \cup {<<info[1], Content(info)>>}]
        /\ Content(info) # None
    BY <1>8 DEF ObjectFromManifest
  <2>2. info[1] \in Files /\ Content(info) \in Contents
    BY <2>1 DEF Content, TypeOK, CallType, Found
  <2> DEFINE infos == call.infos \ {info}
             objs  == call.objs \cup {<<info[1], Content(info)>>}
  <2>3. infos \in SUBSET Found /\ objs \in SUBSET (Files \X Contents)
    BY <2>2 DEF TypeOK, CallType
  <2>4. call' = [call EXCEPT !.infos = infos, !.objs = objs]
    BY <2>1
  <2> HIDE DEF infos, objs
  <2>5. call' \in CallType /\ call'.page >= 1
    BY <1>8, <2>3, <2>4 DEF TypeOK, CallType, ObjectFromManifest, At
  <2> QED  BY <1>8, <2>5 DEF ObjectFromManifest, TypeOK
<1>9. CASE EndOfManifests
  BY <1>9 DEF EndOfManifests, TypeOK, CallType, At
<1> QED  BY <1>1, <1>2, <1>3, <1>4, <1>5, <1>6, <1>7, <1>8, <1>9
         DEF ClientStep, RequestFails, EndOfCall

LEMMA TypeInit == Init => TypeOK
BY IdleType, ContentsAssumption DEF Init, TypeOK, FirstIds, At, Idle

LEMMA TypeStep == TypeOK /\ [Next]_vars => TypeOK'
<1>1. TypeOK /\ UNCHANGED vars => TypeOK'
  BY DEF TypeOK, vars, At
<1> QED  BY <1>1, OthersType, ClientType DEF Next

\* TypeOK holds throughout: a call has the fields of its kind, a page number
\* from 1 on, and lists of what the server keeps.
THEOREM TypeCorrect == Spec => []TypeOK
BY TypeInit, TypeStep, PTL DEF Spec

\* The steps, those that are one and the same taken together.
LEMMA Steps ==
    ASSUME Next
    PROVE  \/ OthersStep
           \/ \E op \in {"hooks", "statuses", "infos"} : Begin(op)
           \/ Return
           \/ GetPaginatedRequest
           \/ \E c \in Contexts, s \in States : SetCommitStatus(c, s)
           \/ \E d \in Dirs : GetManifestInfos(d)
           \/ \E info \in call.infos : ObjectFromManifest(info)
           \/ EndOfManifests
BY DEF Next, ClientStep, OthersStep, RegisterWebhook, DeleteWebhook, RequestFails, EndOfCall

(***************************************************************************)
(* Directories.                                                            *)
(***************************************************************************)
LEMMA SelfAbove == \A d \in Dirs : d \in Above(d)
BY DEF Above

\* Where one goes up to from another directory one comes through one of its own.
LEMMA ChildAbove ==
    ASSUME NEW d \in Dirs, NEW e \in Above(d), e # d
    PROVE  \E c \in Dirs \ {Root} : ParentOf[c] = e /\ c \in Above(d)
<1> SUFFICES ASSUME \A c \in Dirs \ {Root} : c \in Above(d) => ParentOf[c] # e
             PROVE  FALSE
  OBVIOUS
<1> DEFINE S == Above(d) \ {e}
<1>1. S \in SUBSET Dirs /\ d \in S
  BY SelfAbove DEF Above
<1>2. ASSUME NEW x \in S \ {Root}
      PROVE  ParentOf[x] \in S
  <2>1. ParentOf[x] \in Dirs
    BY <1>1, TreeAssumption
  <2>2. ParentOf[x] \in Above(d)
    BY <2>1 DEF Above
  <2> QED  BY <1>1, <2>2
<1>3. e \in S
  BY <1>1, <1>2 DEF Above
<1> QED  BY <1>3

(***************************************************************************)
(* What a step does to the files and the call that lists them.             *)
(***************************************************************************)
\* Others change neither the call nor the server, and what has been there since
\* the call began is kept up with them.
LEMMA OthersDo ==
    ASSUME TypeOK, OthersStep
    PROVE  /\ api' = api /\ call' = call /\ since'.cut = since.cut
           /\ since.seen \subseteq since'.seen /\ since'.files \subseteq since.files
           /\ InCall => \A f \in Files :
                          \/ tree'[f] = tree[f]
                          \/ tree'[f] = None /\ f \notin since'.files
                          \/ tree'[f] # None /\ <<f, tree'[f]>> \in since'.seen
<1>1. since \in SinceType /\ tree \in [Files -> Contents \cup {None}]
  BY DEF TypeOK
<1>2. CASE HookAdded
  BY <1>2 DEF HookAdded, Event
<1>3. ASSUME NEW i \in DOMAIN hooks, HookDeleted(i)
      PROVE  /\ api' = api /\ call' = call /\ tree' = tree /\ since'.cut = since.cut
             /\ since'.seen = since.seen /\ since'.files = since.files
  BY <1>1, <1>3 DEF HookDeleted, SinceType
<1>4. ASSUME NEW c \in Contexts, NEW s \in States \cup GitlabStates, StatusByOthers(c, s)
      PROVE  /\ api' = api /\ call' = call /\ tree' = tree /\ since'.cut = since.cut
             /\ since'.seen = since.seen /\ since'.files = since.files
  BY <1>1, <1>4 DEF StatusByOthers, SinceType
<1>5. ASSUME NEW f \in Files, NEW x \in Contents \cup {None}, GitPush(f, x)
      PROVE  /\ api' = api /\ call' = call /\ since'.cut = since.cut
             /\ since.seen \subseteq since'.seen /\ since'.files \subseteq since.files
             /\ InCall => \A g \in Files :
                            \/ tree'[g] = tree[g]
                            \/ tree'[g] = None /\ g \notin since'.files
                            \/ tree'[g] # None /\ <<g, tree'[g]>> \in since'.seen
  <2>1. tree' = [tree EXCEPT ![f] = x] /\ api' = api /\ call' = call
    BY <1>5 DEF GitPush
  <2>2. CASE InCall
    <3>1. /\ since'.seen = since.seen \cup ({f} \X {x} \ {<<f, None>>})
          /\ since'.files = IF x = None THEN since.files \ {f} ELSE since.files
          /\ since'.cut = since.cut
      BY <1>1, <1>5, <2>2 DEF GitPush, SinceType
    <3>2. \A g \in Files : g # f => tree'[g] = tree[g]
      BY <1>1, <2>1
    <3>3. tree'[f] = x
      BY <1>1, <2>1
    <3>4. x # None => <<f, x>> \in since'.seen
      BY <3>1
    <3> QED  BY <2>1, <3>1, <3>2, <3>3, <3>4
  <2>3. CASE ~InCall
    BY <1>5, <2>1, <2>3 DEF GitPush
  <2> QED  BY <2>2, <2>3
<1> QED  BY <1>2, <1>3, <1>4, <1>5 DEF OthersStep

\* One listing of a directory that is not refused.
Lists(d, s) ==
    LET dirs == (call.dirs \ {d}) \cup {e.name : e \in {x \in s : x.type = "dir"}} IN
    /\ At("infos") /\ d \in call.dirs /\ s \subseteq Entries(d)
    /\ call'.op = (IF dirs = {} THEN "read" ELSE "infos")
    /\ call'.dirs = dirs /\ call'.objs = call.objs
    /\ call'.infos = call.infos \cup {Info(e.name) : e \in {x \in s : x.type = "file"}}
    /\ since'.seen = since.seen /\ since'.files = since.files
    /\ since'.cut = (since.cut \/ s # Entries(d))
    /\ api' = api /\ tree' = tree

LEMMA ListingDoes ==
    ASSUME TypeOK, NEW d \in Dirs, GetManifestInfos(d)
    PROVE  Return \/ \E s : Lists(d, s)
<1>1. call \in CallType /\ since \in SinceType
  BY DEF TypeOK
<1> SUFFICES ASSUME ~Return
             PROVE  \E s : Lists(d, s)
  OBVIOUS
<1>2. PICK s \in Shown(d) :
        LET dirs == (call.dirs \ {d}) \cup {e.name : e \in {x \in s : x.type = "dir"}} IN
          /\ call' = [call EXCEPT
                 !.dirs = dirs, !.op = IF dirs = {} THEN "read" ELSE "infos",
                 !.infos = @ \cup {Info(e.name) : e \in {x \in s : x.type = "file"}}]
          /\ since' = [since EXCEPT !.cut = @ \/ s # Entries(d)]
          /\ UNCHANGED <<api, hooks, statuses, wrote, tree, events>>
  BY DEF GetManifestInfos
<1> DEFINE dirs  == (call.dirs \ {d}) \cup {e.name : e \in {x \in s : x.type = "dir"}}
           op    == IF dirs = {} THEN "read" ELSE "infos"
           infos == call.infos \cup {Info(e.name) : e \in {x \in s : x.type = "file"}}
           cut   == since.cut \/ s # Entries(d)
<1>3. s \subseteq Entries(d)
  BY DEF Shown
<1>4. call' = [call EXCEPT !.dirs = dirs, !.op = op, !.infos = infos]
  BY <1>2
<1>5. since' = [since EXCEPT !.cut = cut]
  BY <1>2
<1>6. /\ call'.op = op /\ call'.dirs = dirs /\ call'.infos = infos
      /\ call'.objs = call.objs
  <2> HIDE DEF dirs, op, infos
  <2> QED  BY <1>1, <1>4 DEF CallType
<1>7. /\ since'.seen = since.seen /\ since'.files = since.files
      /\ since'.cut = cut
  <2> HIDE DEF cut
  <2> QED  BY <1>1, <1>5 DEF SinceType
<1>8. At("infos") /\ d \in call.dirs /\ api' = api /\ tree' = tree
  BY <1>2 DEF GetManifestInfos
<1>9. Lists(d, s)
  BY <1>3, <1>6, <1>7, <1>8 DEF Lists
<1> QED  BY <1>9

\* One file that is read.
Reads(info) ==
    /\ At("read") /\ info \in call.infos /\ Content(info) # None
    /\ call'.op = call.op /\ call'.infos = call.infos \ {info}
    /\ call'.objs = call.objs \cup {<<info[1], Content(info)>>}
    /\ since' = since /\ api' = api /\ tree' = tree

LEMMA ReadingDoes ==
    ASSUME TypeOK, NEW info \in call.infos, ObjectFromManifest(info)
    PROVE  Return \/ Reads(info)
<1>1. call \in CallType
  BY DEF TypeOK
<1> QED  BY <1>1 DEF ObjectFromManifest, Reads, CallType

\* The other steps do not touch what a listing of manifests has collected.
LEMMA RestDoes ==
    ASSUME TypeOK,
           \/ GetPaginatedRequest
           \/ \E c \in Contexts, s \in States : SetCommitStatus(c, s)
           \/ EndOfManifests
           \/ UNCHANGED vars
    PROVE  /\ api' = api /\ tree' = tree /\ since' = since
           /\ \/ call' = call
              \/ At("hooks") \/ At("statuses")
              \/ /\ At("read") /\ call.infos = {} /\ call'.op = "manifests"
                 /\ call'.infos = call.infos /\ call'.objs = call.objs
           /\ At("hooks") \/ At("statuses") => call'.op \in {"hooks", "statuses", "listed"}
<1>1. call \in CallType
  BY DEF TypeOK
<1>2. CASE GetPaginatedRequest
  BY <1>1, <1>2 DEF GetPaginatedRequest, At, CallType
<1>3. CASE \E c \in Contexts, s \in States : SetCommitStatus(c, s)
  BY <1>3 DEF SetCommitStatus, At
<1>4. CASE EndOfManifests
  BY <1>1, <1>4 DEF EndOfManifests, At, CallType
<1>5. CASE UNCHANGED vars
  BY <1>5 DEF vars, At
<1> QED  BY <1>2, <1>3, <1>4, <1>5

(***************************************************************************)
(* What is read has been there.                                            *)
(***************************************************************************)
\* During a call since.seen has what the files hold, on GitLab the blobs listed
\* too, and all that has been read.
Genuine ==
    /\ InCall => \A f \in Files : tree[f] # None => <<f, tree[f]>> \in since.seen
    /\ (At("infos") \/ At("read")) /\ api = "gitlab" => call.infos \subseteq since.seen
    /\ At("infos") \/ At("read") \/ At("manifests") => call.objs \subseteq since.seen

LEMMA GenuineBegin ==
    ASSUME TypeOK, NEW op \in {"hooks", "statuses", "infos"}, Begin(op)
    PROVE  Genuine'
<1>1. call' = [Idle EXCEPT !.op = op, !.page = 1,
                           !.dirs = IF op = "infos" THEN {Root} ELSE {}]
  BY DEF Begin
<1>2. call'.infos = {} /\ call'.objs = {} /\ since' = Since /\ tree' = tree
  BY <1>1 DEF Begin, Idle
<1> QED  BY <1>2 DEF Genuine, Since

LEMMA GenuineStep == TypeOK /\ Genuine /\ [Next]_vars => Genuine'
<1> SUFFICES ASSUME TypeOK, Genuine, [Next]_vars
             PROVE  Genuine'
  OBVIOUS
<1> USE DEF At
<1>1. CASE OthersStep
  BY <1>1, OthersDo DEF Genuine, InCall
<1>2. CASE Return
  BY <1>2 DEF Return, Genuine, InCall, Idle
<1>3. ASSUME NEW op \in {"hooks", "statuses", "infos"}, Begin(op)
      PROVE  Genuine'
  BY <1>3, GenuineBegin
<1>4. ASSUME NEW d \in Dirs, GetManifestInfos(d), ~Return
      PROVE  Genuine'
  <2>1. PICK s : Lists(d, s)
    BY <1>4, ListingDoes
  <2>2. /\ At("infos") /\ call'.op \in {"infos", "read"}
        /\ call'.objs = call.objs /\ since'.seen = since.seen
        /\ api' = api /\ tree' = tree /\ s \subseteq Entries(d)
        /\ call'.infos = call.infos \cup {Info(e.name) : e \in {x \in s : x.type = "file"}}
    BY <2>1 DEF Lists
  <2>3. ASSUME NEW e \in s, e.type = "file", api = "gitlab"
        PROVE  Info(e.name) \in since.seen
    <3>1. e.name \in Files /\ tree[e.name] # None
      BY <2>2, <2>3 DEF Entries, Under
    <3>2. <<e.name, tree[e.name]>> \in since.seen
      BY <2>2, <3>1 DEF Genuine, InCall
    <3> QED  BY <2>3, <3>2 DEF Info
  <2>4. api = "gitlab" => call'.infos \subseteq since.seen
    BY <2>2, <2>3 DEF Genuine
  <2> QED  BY <2>2, <2>4 DEF Genuine, InCall
<1>5. ASSUME NEW info \in call.infos, ObjectFromManifest(info), ~Return
      PROVE  Genuine'
  <2>1. Reads(info)
    BY <1>5, ReadingDoes
  <2>2. /\ info = <<info[1], info[2]>> /\ info[1] \in Files
        /\ api \in {"github", "gitlab"}
    BY DEF TypeOK, CallType, Found
  <2>3. <<info[1], Content(info)>> \in since.seen
    <3>1. CASE api = "github"
      BY <2>1, <2>2, <3>1 DEF Content, Genuine, Reads, InCall
    <3>2. CASE api = "gitlab"
      BY <2>1, <2>2, <3>2 DEF Content, Genuine, Reads
    <3> QED  BY <2>2, <3>1, <3>2
  <2> QED  BY <2>1, <2>3 DEF Reads, Genuine, InCall
<1>6. CASE \/ GetPaginatedRequest
           \/ \E c \in Contexts, s \in States : SetCommitStatus(c, s)
           \/ EndOfManifests
           \/ UNCHANGED vars
  BY <1>6, RestDoes DEF Genuine, InCall
<1> QED  BY <1>1, <1>2, <1>3, <1>4, <1>5, <1>6, Steps

\* What a Sync reads of the repository is what each file held at some time since
\* the listing began (ObjectFromManifest of either client), however often the
\* branch moves between the requests.
THEOREM ManifestsGenuine == Spec => []ManifestsAreGenuine
<1>1. Init => Genuine
  BY DEF Init, Genuine, InCall, At, Idle
<1>2. Genuine => ManifestsAreGenuine
  BY DEF Genuine, ManifestsAreGenuine
<1> QED  BY <1>1, <1>2, TypeInit, TypeStep, GenuineStep, PTL DEF Spec

(***************************************************************************)
(* Nothing that stays is missed.                                           *)
(***************************************************************************)
\* Unless a directory did not fit its page, a file that has been there all the
\* time is below a directory still to be listed, or among the files found, or
\* among the objects read.
Reached(f) == \E d \in call.dirs : d \in Above(DirOf[f])
Named(f) == \E info \in call.infos : info[1] = f
Read(f) == \E x \in Contents : <<f, x>> \in call.objs

Complete ==
    /\ InCall => \A f \in since.files : tree[f] # None
    /\ At("infos") /\ ~since.cut => \A f \in since.files : Reached(f) \/ Named(f)
    /\ At("read") /\ ~since.cut => \A f \in since.files : Named(f) \/ Read(f)
    /\ At("manifests") /\ ~since.cut => \A f \in since.files : Read(f)

LEMMA CompleteBegin ==
    ASSUME TypeOK, NEW op \in {"hooks", "statuses", "infos"}, Begin(op)
    PROVE  Complete'
<1>1. call' = [Idle EXCEPT !.op = op, !.page = 1,
                           !.dirs = IF op = "infos" THEN {Root} ELSE {}]
  BY DEF Begin
<1>2. call'.op = op /\ (op = "infos" => call'.dirs = {Root})
  BY <1>1 DEF Idle
<1>3. /\ since'.files = {f \in Files : tree[f] # None} /\ tree' = tree
  BY DEF Begin, Since
<1>4. \A f \in Files : Root \in Above(DirOf[f])
  BY TreeAssumption
<1> QED  BY <1>2, <1>3, <1>4 DEF Complete, At, Reached

\* A directory listed gives way to its files and to those of its directories that
\* lead to others.
LEMMA CompleteListing ==
    ASSUME TypeOK, Complete, NEW d \in Dirs, NEW s, Lists(d, s)
    PROVE  Complete'
<1>1. /\ At("infos") /\ api' = api /\ tree' = tree
      /\ since'.files = since.files /\ since'.cut = (since.cut \/ s # Entries(d))
      /\ call'.infos = call.infos \cup {Info(e.name) : e \in {x \in s : x.type = "file"}}
      /\ call'.dirs = (call.dirs \ {d}) \cup {e.name : e \in {x \in s : x.type = "dir"}}
      /\ call'.op = IF call'.dirs = {} THEN "read" ELSE "infos"
  BY DEF Lists
<1>2. since.files \subseteq Files /\ call.dirs \subseteq Dirs
  BY DEF TypeOK, SinceType, CallType
<1>3. \A f \in since.files : tree[f] # None
  BY <1>1 DEF Complete, InCall, At
<1>4. ASSUME NEW f \in since.files, ~since'.cut
      PROVE  Reached(f)' \/ Named(f)'
  <2>1. s = Entries(d) /\ ~since.cut
    BY <1>1, <1>4
  <2>2. CASE Named(f)
    BY <1>1, <2>2 DEF Named
  <2>3. CASE Reached(f)
    <3>1. PICK e \in call.dirs : e \in Above(DirOf[f])
      BY <2>3 DEF Reached
    <3>2. CASE e # d
      BY <1>1, <3>1, <3>2 DEF Reached
    <3>3. CASE e = d /\ DirOf[f] = d
      <4>1. f \in Under(d)
        BY <1>2, <1>3, <3>1, <3>3 DEF Under
      <4>2. [type |-> "file", name |-> f] \in s
        BY <1>2, <2>1, <3>3, <4>1 DEF Entries
      <4>3. Info(f) \in call'.infos
        BY <1>1, <4>2
      <4> QED  BY <4>3 DEF Named, Info
    <3>4. CASE e = d /\ DirOf[f] # d
      <4>1. PICK c \in Dirs \ {Root} : ParentOf[c] = d /\ c \in Above(DirOf[f])
        BY <1>2, <3>1, <3>4, ChildAbove, TreeAssumption
      <4>2. f \in Under(c)
        BY <1>2, <1>3, <4>1 DEF Under
      <4>3. [type |-> "dir", name |-> c] \in s
        BY <2>1, <4>1, <4>2 DEF Entries
      <4>4. c \in call'.dirs
        BY <1>1, <4>3
      <4> QED  BY <4>1, <4>4 DEF Reached
    <3> QED  BY <3>2, <3>3, <3>4
  <2> QED  BY <1>1, <2>1, <2>2, <2>3 DEF Complete
<1>5. call'.op = "infos" \/ (call'.op = "read" /\ call'.dirs = {})
  BY <1>1
<1> QED  BY <1>1, <1>3, <1>4, <1>5 DEF Complete, At, InCall, Reached

LEMMA CompleteStep == TypeOK /\ Complete /\ [Next]_vars => Complete'
<1> SUFFICES ASSUME TypeOK, Complete, [Next]_vars
             PROVE  Complete'
  OBVIOUS
<1>1. CASE OthersStep
  <2>1. since.files \subseteq Files
    BY DEF TypeOK, SinceType
  <2> QED  BY <1>1, <2>1, OthersDo DEF Complete, InCall, At, Reached, Named, Read
<1>2. CASE Return
  BY <1>2 DEF Return, Complete, InCall, Idle, At
<1>3. ASSUME NEW op \in {"hooks", "statuses", "infos"}, Begin(op)
      PROVE  Complete'
  BY <1>3, CompleteBegin
<1>4. ASSUME NEW d \in Dirs, GetManifestInfos(d), ~Return
      PROVE  Complete'
  BY <1>4, ListingDoes, CompleteListing
<1>5. ASSUME NEW info \in call.infos, ObjectFromManifest(info), ~Return
      PROVE  Complete'
  <2>1. Reads(info)
    BY <1>5, ReadingDoes
  <2>2. Content(info) \in Contents
    BY <2>1 DEF Reads, Content, TypeOK, CallType, Found
  <2>3. ASSUME NEW f
        PROVE  Named(f) \/ Read(f) => Named(f)' \/ Read(f)'
    BY <2>1, <2>2 DEF Reads, Named, Read
  <2> QED  BY <2>1, <2>3 DEF Reads, Complete, At, InCall
<1>6. CASE \/ GetPaginatedRequest
           \/ \E c \in Contexts, s \in States : SetCommitStatus(c, s)
           \/ EndOfManifests
           \/ UNCHANGED vars
  <2>1. /\ tree' = tree /\ since' = since
        /\ \/ call' = call
           \/ At("hooks") \/ At("statuses")
           \/ /\ At("read") /\ call.infos = {} /\ call'.op = "manifests"
              /\ call'.infos = call.infos /\ call'.objs = call.objs
        /\ At("hooks") \/ At("statuses") => call'.op \in {"hooks", "statuses", "listed"}
    BY <1>6, RestDoes
  <2>2. CASE call' = call
    BY <2>1, <2>2 DEF Complete, At, InCall, Reached, Named, Read
  <2>3. CASE At("hooks") \/ At("statuses")
    BY <2>1, <2>3 DEF Complete, At, InCall
  <2>4. CASE /\ At("read") /\ call.infos = {} /\ call'.op = "manifests"
             /\ call'.objs = call.objs
    BY <2>1, <2>4 DEF Complete, At, InCall, Named, Read
  <2> QED  BY <2>1, <2>2, <2>3, <2>4
<1> QED  BY <1>1, <1>2, <1>3, <1>4, <1>5, <1>6, Steps

\* A listing that succeeds has every manifest that was in the repository all the
\* time, in whatever order GetManifestInfos walks the directories and however
\* others come and go, unless a directory had more entries than a page of GitLab
\* shows.
THEOREM ManifestsComplete == Spec => []ManifestsAreComplete
<1>1. Init => Complete
  BY DEF Init, Complete, InCall, At, Idle
<1>2. Complete => ManifestsAreComplete
  BY DEF Complete, ManifestsAreComplete, Read
<1> QED  BY <1>1, <1>2, TypeInit, TypeStep, CompleteStep, PTL DEF Spec

(***************************************************************************)
(* Listings page by page.                                                  *)
(***************************************************************************)
\* The next page goes on where the ones before it end.
LEMMA PageDoes ==
    ASSUME NEW S, NEW all \in Seq(S), TypeOK, ~At("idle"), call.got \in Seq(S),
           Len(call.got) = PageSize * call.page - PageSize
    PROVE  LET got == call.got \o Page(all) IN
           /\ got \in Seq(S)
           /\ NextLink(all) => /\ Len(got) = PageSize * (call.page + 1) - PageSize
                               /\ Len(got) <= Len(all)
           /\ ~NextLink(all) => Len(got) = IF Len(call.got) > Len(all)
                                             THEN Len(call.got) ELSE Len(all)
           /\ \A i \in 1..Len(got) :
                got[i] = IF i <= Len(call.got) THEN call.got[i] ELSE all[i]
<1> DEFINE end  == PageSize * call.page
           last == IF end < Len(all) THEN end ELSE Len(all)
           k    == Len(call.got)
           got  == call.got \o Page(all)
<1>1. /\ call.page \in Nat /\ call.page >= 1
      /\ PageSize \in Nat /\ PageSize >= 1
  BY PageAssumption DEF TypeOK, CallType
<1>2. end \in Nat /\ k \in Nat /\ k = end - PageSize /\ Len(all) \in Nat
  BY <1>1
<1>3. PageSize * (call.page + 1) - PageSize = end
  BY <1>1
<1>4. NextLink(all) <=> end < Len(all)
  BY DEF NextLink
<1>5. Page(all) = SubSeq(all, k + 1, last)
  BY <1>2 DEF Page
<1> HIDE DEF end, k
<1>6. last \in Nat /\ last <= Len(all)
  BY <1>2
<1>7. \A i \in (k + 1)..last : all[i] \in S
  BY <1>2, <1>6, ElementOfSeq
<1>8. last = IF end < Len(all) THEN end ELSE Len(all)
  OBVIOUS
<1> HIDE DEF last
<1>9. /\ Page(all) \in Seq(S)
      /\ Len(Page(all)) = IF k + 1 <= last THEN last - k ELSE 0
      /\ \A i \in 1..Len(Page(all)) : Page(all)[i] = all[k + i]
  <2>1. k + 1 \in Int /\ last \in Int
    BY <1>2, <1>6
  <2>2. /\ Page(all) \in Seq(S)
        /\ Len(Page(all)) = IF k + 1 <= last THEN last - (k + 1) + 1 ELSE 0
        /\ \A i \in 1..(last - (k + 1) + 1) : Page(all)[i] = all[(k + 1) + i - 1]
    BY <1>5, <1>7, <2>1, SubSeqProperties
  <2>3. Len(Page(all)) = IF k + 1 <= last THEN last - k ELSE 0
    BY <1>2, <1>6, <2>2
  <2>4. ASSUME NEW i \in 1..Len(Page(all))
        PROVE  Page(all)[i] = all[k + i]
    <3>1. i \in 1..(last - (k + 1) + 1) /\ (k + 1) + i - 1 = k + i
      BY <1>2, <1>6, <2>3
    <3> QED  BY <2>2, <3>1
  <2> QED  BY <2>2, <2>3, <2>4
<1>10. /\ got \in Seq(S) /\ Len(got) = k + Len(Page(all))
      /\ \A i \in 1..(k + Len(Page(all))) :
           got[i] = IF i <= k THEN call.got[i] ELSE Page(all)[i - k]
  BY <1>9, ConcatProperties DEF k
<1> HIDE DEF got
<1>11. ASSUME NEW i \in 1..Len(got)
       PROVE  got[i] = IF i <= k THEN call.got[i] ELSE all[i]
  <2>1. i \in Nat /\ i >= 1 /\ i <= k + Len(Page(all)) /\ Len(Page(all)) \in Nat
    BY <1>2, <1>6, <1>9, <1>10
  <2>2. CASE i <= k
    BY <1>2, <1>10, <2>1, <2>2
  <2>3. CASE ~(i <= k)
    <3>1. i - k \in 1..Len(Page(all)) /\ k + (i - k) = i
      BY <1>2, <2>1, <2>3
    <3>2. got[i] = Page(all)[i - k]
      BY <1>2, <1>10, <2>1, <2>3
    <3> QED  BY <1>9, <2>3, <3>1, <3>2
  <2> QED  BY <2>2, <2>3
<1>12. NextLink(all) => Len(got) = end /\ end <= Len(all)
  BY <1>1, <1>2, <1>4, <1>9, <1>10, <1>8
<1>13. ~NextLink(all) => Len(got) = IF k > Len(all) THEN k ELSE Len(all)
  <2>1. ~NextLink(all) => last = Len(all)
    BY <1>2, <1>4, <1>8
  <2>2. CASE k + 1 <= last
    BY <1>2, <1>6, <1>9, <1>10, <2>1, <2>2
  <2>3. CASE ~(k + 1 <= last)
    BY <1>2, <1>6, <1>9, <1>10, <2>1, <2>3
  <2> QED  BY <2>2, <2>3
<1> QED  BY <1>3, <1>10, <1>11, <1>12, <1>13 DEF got, k

\* What a request for a page does.
Paged(all, got) ==
    /\ since' = since /\ hooks' = hooks /\ statuses' = statuses /\ wrote' = wrote
    /\ api' = api /\ events' = events
    /\ call'.got = got
    /\ IF NextLink(all) THEN call'.op = call.op /\ call'.page = call.page + 1
                        ELSE call'.op = "listed" /\ call'.kind = call.op

LEMMA PagingDoes ==
    ASSUME TypeOK, GetPaginatedRequest
    PROVE  \/ At("hooks") /\ Paged(hooks, call.got \o Page(hooks))
           \/ At("statuses") /\ Paged(statuses, call.got \o Page(statuses))
<1>1. call \in CallType
  BY DEF TypeOK
<1>2. ASSUME NEW all, all = IF At("hooks") THEN hooks ELSE statuses
      PROVE  Paged(all, call.got \o Page(all))
  <2> DEFINE got == call.got \o Page(all)
  <2>1. /\ call' = IF NextLink(all)
                     THEN [call EXCEPT !.got = got, !.page = @ + 1]
                     ELSE [call EXCEPT !.got = got, !.kind = call.op, !.op = "listed"]
        /\ UNCHANGED <<api, hooks, statuses, wrote, tree, since, events>>
    BY <1>2 DEF GetPaginatedRequest, Page
  <2> HIDE DEF got
  <2>2. CASE NextLink(all)
    <3>1. call' = [[call EXCEPT !.got = got] EXCEPT !.page = @ + 1]
      BY <2>1, <2>2
    <3>2. call'.got = got /\ call'.op = call.op /\ call'.page = call.page + 1
      BY <1>1, <3>1 DEF CallType
    <3> QED  BY <2>1, <2>2, <3>2 DEF Paged, got
  <2>3. CASE ~NextLink(all)
    <3>1. call' = [call EXCEPT !.got = got, !.kind = call.op, !.op = "listed"]
      BY <2>1, <2>3
    <3>2. call'.got = got /\ call'.op = "listed" /\ call'.kind = call.op
      BY <1>1, <3>1 DEF CallType
    <3> QED  BY <2>1, <2>3, <3>2 DEF Paged, got
  <2> QED  BY <2>2, <2>3
<1>3. At("hooks") \/ At("statuses")
  BY DEF GetPaginatedRequest, At
<1> QED  BY <1>2, <1>3 DEF At

\* The steps of the other calls.
LEMMA QuietDoes ==
    ASSUME TypeOK,
           \/ Return
           \/ \E d \in Dirs : GetManifestInfos(d)
           \/ \E info \in call.infos : ObjectFromManifest(info)
           \/ EndOfManifests
    PROVE  /\ api' = api /\ hooks' = hooks /\ statuses' = statuses /\ wrote' = wrote
           /\ events' = events
           /\ call'.op \in {"idle", "infos", "read", "manifests"}
<1>1. call \in CallType
  BY DEF TypeOK
<1>2. CASE Return
  BY <1>2 DEF Return, Idle
<1>3. ASSUME NEW d \in Dirs, GetManifestInfos(d), ~Return
      PROVE  /\ api' = api /\ hooks' = hooks /\ statuses' = statuses /\ wrote' = wrote
             /\ events' = events
             /\ call'.op \in {"infos", "read"}
  <2>1. PICK s : Lists(d, s)
    BY <1>3, ListingDoes
  <2>2. call'.op \in {"infos", "read"}
    BY <2>1 DEF Lists
  <2> QED  BY <1>3, <2>2 DEF GetManifestInfos
<1>4. ASSUME NEW info \in call.infos, ObjectFromManifest(info), ~Return
      PROVE  /\ api' = api /\ hooks' = hooks /\ statuses' = statuses /\ wrote' = wrote
             /\ events' = events
             /\ call'.op = "read"
  BY <1>1, <1>4 DEF ObjectFromManifest, At, CallType
<1>5. CASE EndOfManifests
  BY <1>1, <1>5 DEF EndOfManifests, CallType
<1> QED  BY <1>2, <1>3, <1>4, <1>5

(***************************************************************************)
(* Webhooks.                                                               *)
(***************************************************************************)
Increasing(s) == \A i, j \in 1..Len(s) : i < j => s[i] < s[j]
Below(s, id) == \A i \in 1..Len(s) : s[i] < id

\* What has been listed comes before what has not been.
Behind(s, all) == \A i \in 1..Len(s), j \in 1..Len(all) : j > Len(s) => s[i] < all[j]

\* all begins with s.
Begins(s, all) == Len(s) <= Len(all) /\ \A i \in 1..Len(s) : s[i] = all[i]

\* The pages of hooks collected so far.
HooksSoFar ==
    /\ call.got \in Seq(Nat) /\ Len(call.got) = PageSize * call.page - PageSize
    /\ Increasing(call.got) /\ Below(call.got, NewId) /\ Behind(call.got, hooks)
    /\ ~since.moved => since.ids \subseteq ToSet(hooks) /\ Begins(call.got, hooks)

\* The server numbers its webhooks upwards, and a listing keeps to that whatever
\* is added or deleted between its pages.
HooksInOrder ==
    /\ Increasing(hooks) /\ Below(hooks, NewId)
    /\ At("hooks") => HooksSoFar
    /\ At("listed") /\ call.kind = "hooks" =>
         /\ call.got \in Seq(Nat) /\ Increasing(call.got)
         /\ since.moved \/ since.ids \subseteq ToSet(call.got)

LEMMA AppendKeepsOrder ==
    ASSUME NEW s \in Seq(Nat), NEW id \in Nat, Increasing(s), Below(s, id)
    PROVE  /\ Increasing(Append(s, id)) /\ Below(Append(s, id), id + 1)
           /\ \A t \in Seq(Nat) :
                /\ Below(t, id) /\ Behind(t, s) => Behind(t, Append(s, id))
                /\ Begins(t, s) => Begins(t, Append(s, id))
           /\ ToSet(s) \subseteq ToSet(Append(s, id))
<1> DEFINE r == Append(s, id)
<1>1. /\ Len(s) \in Nat /\ Len(r) = Len(s) + 1 /\ r[Len(s) + 1] = id
      /\ \A i \in 1..Len(s) : r[i] = s[i]
  OBVIOUS
<1> HIDE DEF r
<1>2. \A i \in 1..Len(s) : s[i] \in Nat /\ s[i] < id
  BY DEF Below
<1>3. \A i \in 1..Len(r) : i = Len(s) + 1 \/ i \in 1..Len(s)
  BY <1>1
<1>4. Increasing(r)
  BY <1>1, <1>2, <1>3 DEF Increasing
<1>5. Below(r, id + 1)
  <2> SUFFICES ASSUME NEW i \in 1..Len(r)
               PROVE  r[i] < id + 1
    BY DEF Below
  <2>1. CASE i \in 1..Len(s)
    BY <1>1, <1>2, <2>1
  <2>2. CASE i = Len(s) + 1
    BY <1>1, <2>2
  <2> QED  BY <1>3, <2>1, <2>2
<1>6. ASSUME NEW t \in Seq(Nat)
      PROVE  /\ Below(t, id) /\ Behind(t, s) => Behind(t, r)
             /\ Begins(t, s) => Begins(t, r)
  BY <1>1, <1>3 DEF Below, Behind, Begins
<1>7. ToSet(s) \subseteq ToSet(r)
  BY <1>1, <1>3 DEF ToSet
<1> QED  BY <1>4, <1>5, <1>6, <1>7 DEF r

LEMMA RemoveKeepsOrder ==
    ASSUME NEW s \in Seq(Nat), NEW i \in 1..Len(s), NEW id, Increasing(s), Below(s, id)
    PROVE  /\ Increasing(RemoveAt(s, i)) /\ Below(RemoveAt(s, i), id)
           /\ \A t \in Seq(Nat) : Behind(t, s) => Behind(t, RemoveAt(s, i))
<1> DEFINE r == RemoveAt(s, i)
<1>1. /\ r \in Seq(Nat) /\ Len(r) = Len(s) - 1 /\ Len(s) \in Nat /\ i \in Nat
      /\ \A j \in 1..(Len(s) - 1) : r[j] = IF j < i THEN s[j] ELSE s[j + 1]
  BY RemoveAtDoes
<1> HIDE DEF r
<1>2. \A j \in 1..Len(r) : \E k \in 1..Len(s) : /\ r[j] = s[k]
                                                /\ k = IF j < i THEN j ELSE j + 1
  <2> SUFFICES ASSUME NEW j \in 1..Len(r)
               PROVE  \E k \in 1..Len(s) : /\ r[j] = s[k]
                                           /\ k = IF j < i THEN j ELSE j + 1
    OBVIOUS
  <2>1. j \in 1..Len(s) /\ j + 1 \in 1..Len(s)
    BY <1>1
  <2> QED  BY <1>1, <2>1
<1>3. Increasing(r)
  <2> SUFFICES ASSUME NEW j \in 1..Len(r), NEW k \in 1..Len(r), j < k
               PROVE  r[j] < r[k]
    BY DEF Increasing
  <2>1. PICK a \in 1..Len(s) : r[j] = s[a] /\ a = IF j < i THEN j ELSE j + 1
    BY <1>2
  <2>2. PICK b \in 1..Len(s) : r[k] = s[b] /\ b = IF k < i THEN k ELSE k + 1
    BY <1>2
  <2>3. a < b
    <3>1. i \in Nat /\ j \in Nat /\ k \in Nat /\ a \in Nat /\ b \in Nat
      BY <1>1
    <3>2. CASE j < i
      BY <2>1, <2>2, <3>1, <3>2
    <3>3. CASE ~(j < i)
      <4>1. a = j + 1 /\ ~(k < i)
        BY <2>1, <3>1, <3>3
      <4> QED  BY <2>2, <3>1, <4>1
    <3> QED  BY <3>2, <3>3
  <2> QED  BY <2>1, <2>2, <2>3 DEF Increasing
<1>4. Below(r, id)
  BY <1>2 DEF Below
<1>5. ASSUME NEW t \in Seq(Nat), Behind(t, s)
      PROVE  Behind(t, r)
  <2> SUFFICES ASSUME NEW a \in 1..Len(t), NEW j \in 1..Len(r), j > Len(t)
               PROVE  t[a] < r[j]
    BY DEF Behind
  <2>1. PICK k \in 1..Len(s) : r[j] = s[k] /\ k = IF j < i THEN j ELSE j + 1
    BY <1>2
  <2>2. k > Len(t)
    BY <1>1, <2>1
  <2> QED  BY <1>5, <2>1, <2>2 DEF Behind
<1> QED  BY <1>3, <1>4, <1>5 DEF r

\* What others do to the webhooks.
LEMMA HooksByOthers ==
    ASSUME TypeOK, HooksInOrder, OthersStep
    PROVE  HooksInOrder'
<1>1. /\ hooks \in Seq(Nat) /\ events \in Nat /\ since \in SinceType
      /\ NewId \in Nat /\ NewId = events + 3
  BY DEF TypeOK, NewId, FirstIds
<1>2. \A s : Below(s, NewId) /\ s \in Seq(Nat) => Below(s, NewId + 1)
  <2> SUFFICES ASSUME NEW s \in Seq(Nat), Below(s, NewId), NEW i \in 1..Len(s)
               PROVE  s[i] < NewId + 1
    BY DEF Below
  <2> QED  BY <1>1 DEF Below
<1>3. events' = events + 1 => NewId' = NewId + 1
  BY <1>1 DEF NewId, FirstIds
<1>4. CASE HookAdded
  <2>1. /\ hooks' = Append(hooks, NewId) /\ NewId' = NewId + 1
        /\ call' = call /\ since' = since
    BY <1>3, <1>4 DEF HookAdded, Event
  <2>2. Increasing(hooks') /\ Below(hooks', NewId')
    BY <1>1, <2>1, AppendKeepsOrder DEF HooksInOrder
  <2>3. At("hooks") => HooksSoFar'
    <3>1. SUFFICES ASSUME At("hooks")
                   PROVE  HooksSoFar'
      OBVIOUS
    <3>2. HooksSoFar /\ call.got \in Seq(Nat)
      BY <3>1 DEF HooksInOrder, HooksSoFar
    <3>3. Below(call.got, NewId') /\ Behind(call.got, hooks')
      BY <1>1, <1>2, <2>1, <3>2, AppendKeepsOrder DEF HooksInOrder, HooksSoFar
    <3>4. ~since.moved => since.ids \subseteq ToSet(hooks') /\ Begins(call.got, hooks')
      BY <1>1, <2>1, <3>2, AppendKeepsOrder DEF HooksInOrder, HooksSoFar
    <3> QED  BY <2>1, <3>2, <3>3, <3>4 DEF HooksSoFar
  <2> QED  BY <2>1, <2>2, <2>3 DEF HooksInOrder, At
<1>5. ASSUME NEW i \in DOMAIN hooks, HookDeleted(i)
      PROVE  HooksInOrder'
  <2>1. /\ hooks' = RemoveAt(hooks, i) /\ NewId' = NewId + 1 /\ call' = call
        /\ InCall \/ since' = since
        /\ At("hooks") => since'.moved
        /\ i \in 1..Len(hooks)
    <3>1. hooks' = RemoveAt(hooks, i) /\ NewId' = NewId + 1 /\ call' = call
      BY <1>3, <1>5 DEF HookDeleted, Event
    <3>2. InCall \/ since' = since
      BY <1>5 DEF HookDeleted
    <3>3. ASSUME At("hooks")
          PROVE  since'.moved
      <4>1. since' = [since EXCEPT !.ids = @ \ {hooks[i]}, !.moved = TRUE]
        BY <1>5, <3>3 DEF HookDeleted, InCall, At
      <4> QED  BY <1>1, <4>1 DEF SinceType
    <3>4. i \in 1..Len(hooks)
      BY <1>1
    <3> QED  BY <3>1, <3>2, <3>3, <3>4
  <2>2. Increasing(hooks') /\ Below(hooks', NewId)
    BY <1>1, <2>1, RemoveKeepsOrder DEF HooksInOrder
  <2>3. hooks' \in Seq(Nat)
    BY <1>1, <2>1, RemoveAtDoes
  <2>4. Below(hooks', NewId')
    BY <1>2, <2>1, <2>2, <2>3
  <2>5. At("hooks") => HooksSoFar'
    <3>1. SUFFICES ASSUME At("hooks")
                   PROVE  HooksSoFar'
      OBVIOUS
    <3>2. HooksSoFar /\ call.got \in Seq(Nat)
      BY <3>1 DEF HooksInOrder, HooksSoFar
    <3>3. Below(call.got, NewId') /\ Behind(call.got, hooks')
      BY <1>1, <1>2, <2>1, <3>2, RemoveKeepsOrder DEF HooksInOrder, HooksSoFar
    <3> QED  BY <2>1, <3>1, <3>2, <3>3 DEF HooksSoFar
  <2> QED  BY <2>1, <2>2, <2>4, <2>5 DEF HooksInOrder, At, InCall
<1>6. CASE \/ \E f \in Files, x \in Contents \cup {None} : GitPush(f, x)
           \/ \E c \in Contexts, s \in States \cup GitlabStates : StatusByOthers(c, s)
  <2>1. /\ hooks' = hooks /\ NewId' = NewId + 1 /\ call' = call
        /\ InCall \/ since' = since
        /\ At("hooks") => since'.moved = since.moved /\ since'.ids = since.ids
    BY <1>1, <1>3, <1>6 DEF GitPush, StatusByOthers, Event, InCall, At, SinceType
  <2>2. Increasing(hooks') /\ Below(hooks', NewId')
    BY <1>1, <1>2, <2>1 DEF HooksInOrder
  <2>3. At("hooks") => HooksSoFar'
    BY <1>2, <2>1 DEF HooksInOrder, HooksSoFar
  <2> QED  BY <2>1, <2>2, <2>3 DEF HooksInOrder, At, InCall
<1> QED  BY <1>4, <1>5, <1>6 DEF OthersStep

\* A page that is added.
LEMMA HooksByPage ==
    ASSUME TypeOK, HooksInOrder, At("hooks"), Paged(hooks, call.got \o Page(hooks))
    PROVE  HooksInOrder'
<1> DEFINE got == call.got \o Page(hooks)
<1>1. hooks \in Seq(Nat) /\ ~At("idle")
  BY DEF TypeOK, At
<1>2. /\ HooksSoFar /\ call.got \in Seq(Nat)
      /\ Len(call.got) = PageSize * call.page - PageSize
      /\ Increasing(hooks) /\ Below(hooks, NewId)
  BY DEF HooksInOrder, HooksSoFar
<1>3. /\ got \in Seq(Nat)
      /\ NextLink(hooks) => /\ Len(got) = PageSize * (call.page + 1) - PageSize
                            /\ Len(got) <= Len(hooks)
      /\ ~NextLink(hooks) => Len(got) = IF Len(call.got) > Len(hooks)
                                          THEN Len(call.got) ELSE Len(hooks)
      /\ \A i \in 1..Len(got) :
           got[i] = IF i <= Len(call.got) THEN call.got[i] ELSE hooks[i]
  BY <1>1, <1>2, PageDoes
<1>4. /\ since' = since /\ hooks' = hooks /\ NewId' = NewId /\ call'.got = got
      /\ IF NextLink(hooks) THEN call'.op = "hooks" /\ call'.page = call.page + 1
                            ELSE call'.op = "listed" /\ call'.kind = "hooks"
  BY DEF Paged, At, NewId, FirstIds
<1> HIDE DEF got
<1>5. Len(call.got) \in Nat /\ Len(hooks) \in Nat /\ Len(got) \in Nat
  BY <1>1, <1>2, <1>3
<1>6. Len(got) <= Len(call.got) \/ Len(got) <= Len(hooks)
  BY <1>3, <1>5
<1>7. \A i \in 1..Len(got) : \/ i \in 1..Len(call.got) /\ got[i] = call.got[i]
                             \/ /\ i \in 1..Len(hooks) /\ i > Len(call.got)
                                /\ got[i] = hooks[i]
  BY <1>3, <1>5, <1>6
<1>8. Increasing(got)
  <2> SUFFICES ASSUME NEW i \in 1..Len(got), NEW j \in 1..Len(got), i < j
               PROVE  got[i] < got[j]
    BY DEF Increasing
  <2>1. CASE j <= Len(call.got)
    BY <1>2, <1>5, <1>7, <2>1 DEF HooksSoFar, Increasing
  <2>2. CASE ~(j <= Len(call.got)) /\ i <= Len(call.got)
    BY <1>2, <1>5, <1>7, <2>2 DEF HooksSoFar, Behind
  <2>3. CASE ~(i <= Len(call.got))
    BY <1>2, <1>5, <1>7, <2>3 DEF Increasing
  <2> QED  BY <2>1, <2>2, <2>3
<1>9. Below(got, NewId)
  BY <1>2, <1>7 DEF HooksSoFar, Below
<1>10. ~since.moved => since.ids \subseteq ToSet(hooks) /\ Begins(call.got, hooks)
  BY <1>2 DEF HooksSoFar
<1>11. ~since.moved => \A i \in 1..Len(got) : i \in 1..Len(hooks) /\ got[i] = hooks[i]
  BY <1>5, <1>7, <1>10 DEF Begins
<1>12. CASE NextLink(hooks)
  <2>1. Len(got) <= Len(hooks)
    BY <1>3, <1>12
  <2>2. Behind(got, hooks)
    <3> SUFFICES ASSUME NEW i \in 1..Len(got), NEW j \in 1..Len(hooks), j > Len(got)
                 PROVE  got[i] < hooks[j]
      BY DEF Behind
    <3>1. /\ i < j /\ i \in 1..Len(hooks)
          /\ (j > Len(call.got) \/ Len(got) < Len(call.got))
      BY <1>5, <2>1
    <3>2. Len(got) >= Len(call.got)
      <4>1. Len(got) = PageSize * call.page
        <5>1. call.page \in Nat /\ PageSize \in Nat
          BY PageAssumption DEF TypeOK, CallType
        <5> QED  BY <1>3, <1>12, <5>1
      <4>2. PageSize * call.page \in Nat /\ PageSize \in Nat
        BY PageAssumption DEF TypeOK, CallType
      <4> QED  BY <1>2, <4>1, <4>2
    <3>3. i < j /\ i \in 1..Len(hooks) /\ j > Len(call.got)
      BY <1>5, <3>1, <3>2
    <3> QED  BY <1>2, <1>7, <3>3 DEF HooksSoFar, Behind, Increasing
  <2>3. ~since.moved => Begins(got, hooks)
    BY <1>11, <2>1 DEF Begins
  <2>4. HooksSoFar'
    BY <1>3, <1>4, <1>8, <1>9, <1>10, <1>12, <2>2, <2>3 DEF HooksSoFar
  <2> QED  BY <1>2, <1>4, <1>12, <2>4 DEF HooksInOrder, At
<1>13. CASE ~NextLink(hooks)
  <2>1. ASSUME ~since.moved
        PROVE  since.ids \subseteq ToSet(got)
    <3>1. Len(got) = Len(hooks)
      BY <1>3, <1>5, <1>10, <1>13, <2>1 DEF Begins
    <3>2. ToSet(hooks) = ToSet(got)
      BY <1>11, <2>1, <3>1 DEF ToSet
    <3> QED  BY <1>10, <2>1, <3>2
  <2> QED  BY <1>2, <1>3, <1>4, <1>8, <1>13, <2>1 DEF HooksInOrder, At
<1> QED  BY <1>12, <1>13

LEMMA HooksBegin ==
    ASSUME TypeOK, HooksInOrder, NEW op \in {"hooks", "statuses", "infos"}, Begin(op)
    PROVE  HooksInOrder'
<1>1. call' = [Idle EXCEPT !.op = op, !.page = 1,
                           !.dirs = IF op = "infos" THEN {Root} ELSE {}]
  BY DEF Begin
<1>2. call'.op = op /\ call'.got = <<>> /\ call'.page = 1
  BY <1>1 DEF Idle
<1>3. /\ since'.ids = ToSet(hooks) /\ hooks' = hooks /\ NewId' = NewId
  BY DEF Begin, Since, NewId, FirstIds
<1>4. PageSize \in Nat /\ PageSize * 1 - PageSize = 0 /\ Len(<<>>) = 0
  BY PageAssumption
<1>5. HooksSoFar'
  BY <1>2, <1>3, <1>4 DEF HooksSoFar, Increasing, Below, Behind, Begins
<1> QED  BY <1>2, <1>3, <1>5 DEF HooksInOrder, At

LEMMA HooksStep == TypeOK /\ HooksInOrder /\ [Next]_vars => HooksInOrder'
<1> SUFFICES ASSUME TypeOK, HooksInOrder, [Next]_vars
             PROVE  HooksInOrder'
  OBVIOUS
<1>1. CASE OthersStep
  BY <1>1, HooksByOthers
<1>2. ASSUME NEW op \in {"hooks", "statuses", "infos"}, Begin(op)
      PROVE  HooksInOrder'
  BY <1>2, HooksBegin
<1>3. CASE GetPaginatedRequest
  <2>1. CASE At("hooks") /\ Paged(hooks, call.got \o Page(hooks))
    BY <2>1, HooksByPage
  <2>2. CASE At("statuses") /\ Paged(statuses, call.got \o Page(statuses))
    BY <2>2 DEF Paged, HooksInOrder, At, NewId, FirstIds
  <2> QED  BY <1>3, <2>1, <2>2, PagingDoes
<1>4. CASE \E c \in Contexts, s \in States : SetCommitStatus(c, s)
  <2>1. /\ hooks' = hooks /\ events' = events + 1 /\ call' = call /\ At("idle")
    BY <1>4 DEF SetCommitStatus, Event
  <2>2. Below(hooks, NewId) /\ hooks \in Seq(Nat) /\ NewId \in Nat /\ NewId' = NewId + 1
    BY <2>1 DEF HooksInOrder, TypeOK, NewId, FirstIds
  <2>3. Below(hooks', NewId')
    BY <2>1, <2>2 DEF Below
  <2> QED  BY <2>1, <2>3 DEF HooksInOrder, At
<1>5. CASE \/ Return
           \/ \E d \in Dirs : GetManifestInfos(d)
           \/ \E info \in call.infos : ObjectFromManifest(info)
           \/ EndOfManifests
  BY <1>5, QuietDoes DEF HooksInOrder, At, NewId, FirstIds
<1>6. CASE UNCHANGED vars
  BY <1>6 DEF vars, HooksInOrder, HooksSoFar, At, NewId, FirstIds
<1> QED  BY <1>1, <1>2, <1>3, <1>4, <1>5, <1>6, Steps

\* ListWebhook returns no webhook twice and misses none that was there from the
\* first page to the last, unless one was deleted in between: the list only grows
\* at its end, so a page starts where the one before it ended.
THEOREM HooksAreListed == Spec => []ListsAllHooks
<1>1. Init => HooksInOrder
  BY DEF Init, HooksInOrder, At, Idle, Increasing, Below, NewId, FirstIds
<1>2. HooksInOrder => ListsAllHooks
  <2> SUFFICES ASSUME HooksInOrder, At("listed"), call.kind = "hooks"
               PROVE  /\ IsInjective(call.got)
                      /\ since.moved \/ since.ids \subseteq ToSet(call.got)
    BY DEF ListsAllHooks
  <2>1. call.got \in Seq(Nat) /\ Increasing(call.got)
    BY DEF HooksInOrder
  <2>2. ASSUME NEW i \in DOMAIN call.got, NEW j \in DOMAIN call.got,
               call.got[i] = call.got[j], i # j
        PROVE  FALSE
    <3>1. i \in 1..Len(call.got) /\ j \in 1..Len(call.got) /\ Len(call.got) \in Nat
      BY <2>1
    <3>2. call.got[i] \in Nat /\ call.got[j] \in Nat
      BY <2>1, <3>1
    <3> QED  BY <2>1, <2>2, <3>1, <3>2 DEF Increasing
  <2> QED  BY <2>2 DEF HooksInOrder, IsInjective
<1> QED  BY <1>1, <1>2, TypeInit, TypeStep, HooksStep, PTL DEF Spec

(***************************************************************************)
(* Commit statuses.                                                        *)
(***************************************************************************)
\* A list has a state of a context: the first of it on GitHub, which keeps the
\* older ones, the only one on GitLab.
Shows(list, c, raw) ==
    \E j \in 1..Len(list) :
        /\ list[j] = [context |-> c, state |-> raw]
        /\ \A k \in 1..Len(list) :
             list[k].context = c => IF api = "github" THEN k >= j ELSE k = j

Single(list) ==
    \A j, k \in 1..Len(list) : list[j].context = list[k].context => j = k

\* The server keeps what has been set, and a listing what it has seen of it.
StatusesKept ==
    /\ api = "gitlab" => Single(statuses)
    /\ \A c \in Contexts :
         wrote[c] # None => Shows(statuses, c, StatusRequest(wrote[c]))
    /\ At("statuses") =>
         /\ call.got \in Seq(Entry) /\ Len(call.got) = PageSize * call.page - PageSize
         /\ ~since.moved => Begins(call.got, statuses)
    /\ At("listed") /\ call.kind = "statuses" =>
         /\ call.got \in Seq(Entry)
         /\ ~since.moved => \A c \in Contexts :
              wrote[c] # None => Shows(call.got, c, StatusRequest(wrote[c]))

\* What is written can be seen, and what is not about its context stays so.
LEMMA WrittenDoes ==
    ASSUME TypeOK, StatusesKept, NEW ctx \in Contexts, NEW raw \in States \cup GitlabStates
    PROVE  LET list == Written(ctx, raw) IN
           /\ Shows(list, ctx, raw) /\ (api = "gitlab" => Single(list))
           /\ \A c, r : c # ctx /\ Shows(statuses, c, r) => Shows(list, c, r)
<1> DEFINE old == {j \in DOMAIN statuses : statuses[j].context = ctx}
           i   == CHOOSE j \in old : TRUE
           new == [context |-> ctx, state |-> raw]
           list == Written(ctx, raw)
           n    == Len(statuses)
<1>1. /\ new \in Entry /\ new.context = ctx /\ statuses \in Seq(Entry) /\ n \in Nat
      /\ api \in {"github", "gitlab"}
  BY DEF Entry, TypeOK
<1>2. /\ api = "github" => list = <<new>> \o statuses
      /\ api = "gitlab" /\ old = {} => list = Append(statuses, new)
      /\ api = "gitlab" /\ old # {} /\ statuses[i].state = "running" =>
           list = [statuses EXCEPT ![i] = new]
      /\ api = "gitlab" /\ old # {} /\ statuses[i].state # "running" =>
           list = Append(RemoveAt(statuses, i), new)
  <2> HIDE DEF new, i
  <2> QED  BY DEF Written, new, i
<1>3. old # {} => i \in 1..n /\ statuses[i].context = ctx
  BY <1>1
<1>4. \A j \in 1..n : statuses[j].context = ctx <=> j \in old
  BY <1>1
<1>5. api = "gitlab" => Single(statuses)
  BY DEF StatusesKept
<1> HIDE DEF i, list, old
<1>6. CASE api = "github"
  <2>1. /\ Len(list) = n + 1 /\ list[1] = new
        /\ \A j \in 1..n : list[j + 1] = statuses[j]
    <3>1. <<new>> \in Seq(Entry) /\ Len(<<new>>) = 1 /\ <<new>>[1] = new
      BY <1>1
    <3>2. /\ Len(list) = 1 + n
          /\ \A j \in 1..(1 + n) : list[j] = IF j <= 1 THEN <<new>>[j] ELSE statuses[j - 1]
      <4> HIDE DEF new
      <4> QED  BY <1>1, <1>2, <1>6, <3>1, ConcatProperties
    <3> HIDE DEF new, n
    <3>3. list[1] = new
      BY <1>1, <3>1, <3>2
    <3>4. \A j \in 1..n : list[j + 1] = statuses[j]
      BY <1>1, <3>2
    <3> QED  BY <1>1, <3>2, <3>3, <3>4
  <2> HIDE DEF n
  <2>2. Shows(list, ctx, raw)
    BY <1>1, <1>6, <2>1 DEF Shows
  <2>3. ASSUME NEW c, NEW r, c # ctx, Shows(statuses, c, r)
        PROVE  Shows(list, c, r)
    <3>1. PICK j \in 1..n : /\ statuses[j] = [context |-> c, state |-> r]
                            /\ \A k \in 1..n : statuses[k].context = c => k >= j
      BY <1>6, <2>3 DEF Shows, n
    <3>2. j + 1 \in 1..Len(list) /\ list[j + 1] = [context |-> c, state |-> r]
      BY <1>1, <2>1, <3>1
    <3>3. ASSUME NEW k \in 1..Len(list), list[k].context = c
          PROVE  k >= j + 1
      <4>1. k # 1
        BY <1>1, <2>1, <2>3, <3>3
      <4>2. k - 1 \in 1..n /\ list[(k - 1) + 1] = statuses[k - 1] /\ (k - 1) + 1 = k
        BY <1>1, <2>1, <4>1
      <4>3. k - 1 >= j
        BY <3>1, <3>3, <4>2
      <4> QED  BY <1>1, <4>3
    <3> QED  BY <1>6, <3>2, <3>3 DEF Shows
  <2> QED  BY <1>6, <2>2, <2>3 DEF list
<1>7. CASE api = "gitlab" /\ old # {} /\ statuses[i].state = "running"
  <2>1. /\ Len(list) = n /\ i \in 1..n /\ list[i] = new
        /\ \A j \in 1..n : j # i => list[j] = statuses[j]
    <3> HIDE DEF new
    <3> QED  BY <1>1, <1>2, <1>3, <1>7
  <2> HIDE DEF n
  <2>2. \A j \in 1..n : list[j].context = statuses[j].context
    BY <1>1, <1>3, <1>7, <2>1
  <2>3. Single(list)
    BY <1>5, <1>7, <2>1, <2>2 DEF Single, n
  <2>4. Shows(list, ctx, raw)
    BY <1>1, <1>7, <2>1, <2>3 DEF Shows, Single
  <2>5. ASSUME NEW c, NEW r, c # ctx, Shows(statuses, c, r)
        PROVE  Shows(list, c, r)
    <3>1. PICK j \in 1..n : statuses[j] = [context |-> c, state |-> r]
      BY <2>5 DEF Shows, n
    <3>2. list[j] = [context |-> c, state |-> r]
      BY <1>3, <1>7, <2>1, <2>5, <3>1
    <3> QED  BY <1>7, <2>1, <2>3, <3>2 DEF Shows, Single
  <2> QED  BY <2>3, <2>4, <2>5 DEF list
<1>8. CASE api = "gitlab" /\ ~(old # {} /\ statuses[i].state = "running")
  <2> DEFINE rest == IF old = {} THEN statuses ELSE RemoveAt(statuses, i)
  <2>1. /\ rest \in Seq(Entry)
        /\ \A j \in 1..Len(rest) : rest[j].context # ctx
        /\ Single(rest)
        /\ \A j \in 1..n : statuses[j].context # ctx =>
             \E k \in 1..Len(rest) : rest[k] = statuses[j]
    <3>1. CASE old = {}
      BY <1>1, <1>4, <1>5, <1>8, <3>1
    <3>2. CASE old # {}
      <4>1. i \in 1..n /\ statuses[i].context = ctx /\ Single(statuses)
        BY <1>3, <1>5, <1>8, <3>2
      <4>2. rest = RemoveAt(statuses, i)
        BY <3>2
      <4> HIDE DEF rest
      <4>3. /\ rest \in Seq(Entry) /\ Len(rest) = n - 1
            /\ \A j \in 1..(n - 1) : rest[j] = IF j < i THEN statuses[j] ELSE statuses[j + 1]
        BY <1>1, <4>1, <4>2, RemoveAtDoes
      <4> HIDE DEF n
      <4>4. \A j \in 1..Len(rest) :
              \E k \in 1..n : k # i /\ rest[j] = statuses[k] /\ k = IF j < i THEN j ELSE j + 1
        <5> SUFFICES ASSUME NEW j \in 1..Len(rest)
                     PROVE  \E k \in 1..n : /\ k # i /\ rest[j] = statuses[k]
                                            /\ k = IF j < i THEN j ELSE j + 1
          OBVIOUS
        <5>1. j \in 1..n /\ j + 1 \in 1..n /\ j \in 1..(n - 1)
          BY <1>1, <4>3
        <5>2. CASE j < i
          BY <4>3, <5>1, <5>2
        <5>3. CASE ~(j < i)
          <6>1. rest[j] = statuses[j + 1] /\ j + 1 # i
            BY <1>1, <4>1, <4>3, <5>1, <5>3
          <6> QED  BY <5>1, <5>3, <6>1
        <5> QED  BY <5>2, <5>3
      <4>5. \A j \in 1..Len(rest) : rest[j].context # ctx
        BY <4>1, <4>4 DEF Single, n
      <4>6. Single(rest)
        <5> SUFFICES ASSUME NEW j \in 1..Len(rest), NEW k \in 1..Len(rest),
                            rest[j].context = rest[k].context
                     PROVE  j = k
          BY DEF Single
        <5>1. PICK a \in 1..n : rest[j] = statuses[a] /\ a = IF j < i THEN j ELSE j + 1
          BY <4>4
        <5>2. PICK b \in 1..n : rest[k] = statuses[b] /\ b = IF k < i THEN k ELSE k + 1
          BY <4>4
        <5>3. a = b
          BY <4>1, <5>1, <5>2 DEF Single, n
        <5>4. i \in Nat /\ j \in Nat /\ k \in Nat
          BY <1>1, <4>1, <4>3
        <5> QED  BY <5>1, <5>2, <5>3, <5>4
      <4>7. ASSUME NEW j \in 1..n, statuses[j].context # ctx
            PROVE  \E k \in 1..Len(rest) : rest[k] = statuses[j]
        <5>1. j # i /\ j \in Nat /\ i \in Nat /\ j >= 1 /\ j <= n /\ i <= n
          BY <1>1, <4>1, <4>7
        <5>2. CASE j < i
          <6>1. j \in 1..(n - 1)
            BY <1>1, <5>1, <5>2
          <6> QED  BY <4>3, <5>2, <6>1
        <5>3. CASE ~(j < i)
          <6>1. j - 1 \in 1..(n - 1) /\ ~(j - 1 < i) /\ (j - 1) + 1 = j
            BY <1>1, <4>1, <5>1, <5>3
          <6>2. rest[j - 1] = statuses[j]
            BY <4>3, <6>1
          <6> QED  BY <4>3, <6>1, <6>2
        <5> QED  BY <5>2, <5>3
      <4> QED  BY <4>3, <4>5, <4>6, <4>7
    <3> QED  BY <3>1, <3>2
  <2>2. list = Append(rest, new)
    BY <1>2, <1>8
  <2> HIDE DEF rest, n
  <2>3. /\ Len(list) = Len(rest) + 1 /\ Len(rest) \in Nat /\ list[Len(rest) + 1] = new
        /\ \A j \in 1..Len(rest) : list[j] = rest[j]
    <3> HIDE DEF new
    <3> QED  BY <1>1, <2>1, <2>2
  <2>4. \A j \in 1..Len(list) : j \in 1..Len(rest) \/ j = Len(rest) + 1
    BY <2>3
  <2>5. Single(list)
    BY <1>1, <2>1, <2>3, <2>4 DEF Single
  <2>6. Shows(list, ctx, raw)
    BY <1>1, <1>8, <2>3, <2>5 DEF Shows, Single
  <2>7. ASSUME NEW c, NEW r, c # ctx, Shows(statuses, c, r)
        PROVE  Shows(list, c, r)
    <3>1. PICK j \in 1..n : statuses[j] = [context |-> c, state |-> r]
      BY <2>7 DEF Shows, n
    <3>2. PICK k \in 1..Len(rest) : rest[k] = [context |-> c, state |-> r]
      BY <2>1, <2>7, <3>1
    <3>3. k \in 1..Len(list) /\ list[k] = [context |-> c, state |-> r]
      BY <2>3, <3>2
    <3> QED  BY <1>8, <2>5, <3>3 DEF Shows, Single
  <2> QED  BY <2>5, <2>6, <2>7 DEF list
<1> QED  BY <1>1, <1>6, <1>7, <1>8

\* What others do to the statuses.
LEMMA StatusesByOthers ==
    ASSUME TypeOK, StatusesKept, OthersStep
    PROVE  StatusesKept'
<1>1. since \in SinceType /\ wrote \in [Contexts -> States \cup {None}]
  BY DEF TypeOK
<1>2. CASE \/ HookAdded
           \/ \E i \in DOMAIN hooks : HookDeleted(i)
           \/ \E f \in Files, x \in Contents \cup {None} : GitPush(f, x)
  <2>1. /\ statuses' = statuses /\ wrote' = wrote /\ api' = api /\ call' = call
        /\ InCall \/ since' = since
        /\ At("statuses") => since'.moved = since.moved
    BY <1>1, <1>2 DEF HookAdded, HookDeleted, GitPush, InCall, At, SinceType
  <2>2. At("listed") => since' = since
    BY <2>1 DEF At, InCall
  <2> QED  BY <2>1, <2>2 DEF StatusesKept, Shows, StatusRequest, At
<1>3. ASSUME NEW c \in Contexts, NEW s \in States \cup GitlabStates, StatusByOthers(c, s)
      PROVE  StatusesKept'
  <2>1. /\ statuses' = Written(c, s) /\ wrote' = [wrote EXCEPT ![c] = None]
        /\ api' = api /\ call' = call
        /\ InCall \/ since' = since
    BY <1>3 DEF StatusByOthers
  <2>2. At("statuses") => since'.moved
    <3>1. ASSUME At("statuses")
          PROVE  since' = [since EXCEPT !.moved = TRUE]
      BY <1>3, <3>1 DEF StatusByOthers, InCall, At
    <3> QED  BY <1>1, <3>1 DEF SinceType
  <2>3. At("listed") => since' = since
    BY <2>1 DEF At, InCall
  <2>4. /\ api = "gitlab" => Single(statuses')
        /\ \A e, r : e # c /\ Shows(statuses, e, r) => Shows(statuses', e, r)
    BY <2>1, WrittenDoes
  <2>5. \A e \in Contexts : wrote'[e] # None => e # c /\ wrote'[e] = wrote[e]
    BY <1>1, <2>1
  <2>6. \A e \in Contexts : wrote'[e] # None =>
          StatusRequest(wrote[e])' = StatusRequest(wrote[e])
    BY <2>1, <2>5 DEF StatusRequest
  <2>7. \A e, r : (Shows(statuses', e, r) <=> Shows(statuses, e, r)')
    BY <2>1 DEF Shows
  <2>8. \A e \in Contexts : wrote'[e] # None =>
          Shows(statuses, e, StatusRequest(wrote[e]))'
    <3> SUFFICES ASSUME NEW e \in Contexts, wrote'[e] # None
                 PROVE  Shows(statuses, e, StatusRequest(wrote[e]))'
      OBVIOUS
    <3>1. Shows(statuses, e, StatusRequest(wrote[e]))
      BY <2>5 DEF StatusesKept
    <3>2. Shows(statuses', e, StatusRequest(wrote[e]))
      BY <2>4, <2>5, <3>1
    <3> QED  BY <2>1, <2>6, <3>2 DEF Shows
  <2>9. ASSUME At("listed"), call.kind = "statuses", ~since'.moved,
               NEW e \in Contexts, wrote'[e] # None
        PROVE  Shows(call.got, e, StatusRequest(wrote[e]))'
    <3>1. Shows(call.got, e, StatusRequest(wrote[e]))
      BY <2>3, <2>5, <2>9 DEF StatusesKept
    <3> QED  BY <2>1, <2>6, <2>9, <3>1 DEF Shows
  <2> QED  BY <2>1, <2>2, <2>4, <2>8, <2>9 DEF StatusesKept, At
<1> QED  BY <1>2, <1>3 DEF OthersStep

\* What SetCommitStatus writes.
LEMMA StatusesBySet ==
    ASSUME TypeOK, StatusesKept, NEW ctx \in Contexts, NEW state \in States,
           SetCommitStatus(ctx, state)
    PROVE  StatusesKept'
<1>1. /\ statuses' = Written(ctx, StatusRequest(state))
      /\ wrote' = [wrote EXCEPT ![ctx] = state]
      /\ api' = api /\ call' = call /\ call.op = "idle"
  BY DEF SetCommitStatus, At
<1>2. StatusRequest(state) \in States \cup GitlabStates
  BY DEF StatusRequest, States, GitlabStates, TypeOK
<1>3. /\ api = "gitlab" => Single(statuses')
      /\ Shows(statuses', ctx, StatusRequest(state))
      /\ \A e, r : e # ctx /\ Shows(statuses, e, r) => Shows(statuses', e, r)
  BY <1>1, <1>2, WrittenDoes
<1>4. \A e \in Contexts : wrote'[e] = IF e = ctx THEN state ELSE wrote[e]
  BY <1>1 DEF TypeOK
<1>5. ASSUME NEW e \in Contexts, wrote'[e] # None
      PROVE  Shows(statuses, e, StatusRequest(wrote[e]))'
  <2>1. CASE e = ctx
    <3>1. StatusRequest(wrote[e])' = StatusRequest(state)
      BY <1>1, <1>4, <2>1 DEF StatusRequest
    <3> QED  BY <1>1, <1>3, <2>1, <3>1 DEF Shows
  <2>2. CASE e # ctx
    <3>1. StatusRequest(wrote[e])' = StatusRequest(wrote[e])
      BY <1>1, <1>4, <2>2 DEF StatusRequest
    <3>2. Shows(statuses, e, StatusRequest(wrote[e]))
      BY <1>4, <1>5, <2>2 DEF StatusesKept
    <3>3. Shows(statuses', e, StatusRequest(wrote[e]))
      BY <1>3, <2>2, <3>2
    <3> QED  BY <1>1, <3>1, <3>3 DEF Shows
  <2> QED  BY <2>1, <2>2
<1> QED  BY <1>1, <1>3, <1>5 DEF StatusesKept, At

\* A page that is added.
LEMMA StatusesByPage ==
    ASSUME TypeOK, StatusesKept, At("statuses"),
           Paged(statuses, call.got \o Page(statuses))
    PROVE  StatusesKept'
<1> DEFINE got == call.got \o Page(statuses)
<1>1. statuses \in Seq(Entry) /\ ~At("idle")
  BY DEF TypeOK, At
<1>2. /\ call.got \in Seq(Entry) /\ Len(call.got) = PageSize * call.page - PageSize
      /\ ~since.moved => Begins(call.got, statuses)
  BY DEF StatusesKept
<1>3. /\ got \in Seq(Entry)
      /\ NextLink(statuses) => /\ Len(got) = PageSize * (call.page + 1) - PageSize
                               /\ Len(got) <= Len(statuses)
      /\ ~NextLink(statuses) => Len(got) = IF Len(call.got) > Len(statuses)
                                             THEN Len(call.got) ELSE Len(statuses)
      /\ \A i \in 1..Len(got) :
           got[i] = IF i <= Len(call.got) THEN call.got[i] ELSE statuses[i]
  BY <1>1, <1>2, PageDoes
<1>4. /\ since' = since /\ statuses' = statuses /\ wrote' = wrote /\ api' = api
      /\ call'.got = got
      /\ IF NextLink(statuses) THEN call'.op = "statuses" /\ call'.page = call.page + 1
                               ELSE call'.op = "listed" /\ call'.kind = "statuses"
  BY DEF Paged, At
<1> HIDE DEF got
<1>5. Len(call.got) \in Nat /\ Len(statuses) \in Nat /\ Len(got) \in Nat
  BY <1>1, <1>2, <1>3
<1>6. ~since.moved => \A i \in 1..Len(got) : got[i] = statuses[i]
  <2> SUFFICES ASSUME ~since.moved, NEW i \in 1..Len(got)
               PROVE  got[i] = statuses[i]
    OBVIOUS
  <2>1. CASE i <= Len(call.got)
    BY <1>2, <1>3, <1>5, <2>1 DEF Begins
  <2>2. CASE ~(i <= Len(call.got))
    BY <1>3, <1>5, <2>2
  <2> QED  BY <2>1, <2>2
<1>7. CASE NextLink(statuses)
  <2>1. ~since.moved => Begins(got, statuses)
    BY <1>3, <1>5, <1>6, <1>7 DEF Begins
  <2>2. /\ api = "gitlab" => Single(statuses)
        /\ \A c \in Contexts :
             wrote[c] # None => Shows(statuses, c, StatusRequest(wrote[c]))
    BY DEF StatusesKept
  <2> QED  BY <1>3, <1>4, <1>7, <2>1, <2>2 DEF StatusesKept, At, Shows, StatusRequest
<1>8. CASE ~NextLink(statuses)
  <2>1. ~since.moved => got = statuses
    <3> SUFFICES ASSUME ~since.moved
                 PROVE  got = statuses
      OBVIOUS
    <3>1. Len(got) = Len(statuses)
      BY <1>2, <1>3, <1>5, <1>8 DEF Begins
    <3>2. \A i \in 1..Len(got) : got[i] = statuses[i]
      BY <1>5, <1>6, <3>1
    <3> QED  BY <1>1, <1>3, <3>1, <3>2, SeqEqual
  <2>2. /\ api = "gitlab" => Single(statuses)
        /\ \A c \in Contexts :
             wrote[c] # None => Shows(statuses, c, StatusRequest(wrote[c]))
    BY DEF StatusesKept
  <2> QED  BY <1>3, <1>4, <1>8, <2>1, <2>2 DEF StatusesKept, At, Shows, StatusRequest
<1> QED  BY <1>7, <1>8

LEMMA StatusesBegin ==
    ASSUME TypeOK, StatusesKept, NEW op \in {"hooks", "statuses", "infos"}, Begin(op)
    PROVE  StatusesKept'
<1>1. call' = [Idle EXCEPT !.op = op, !.page = 1,
                           !.dirs = IF op = "infos" THEN {Root} ELSE {}]
  BY DEF Begin
<1>2. call'.op = op /\ call'.got = <<>> /\ call'.page = 1
  BY <1>1 DEF Idle
<1>3. /\ statuses' = statuses /\ wrote' = wrote /\ api' = api /\ statuses \in Seq(Entry)
  BY DEF Begin, TypeOK
<1>4. PageSize \in Nat /\ PageSize * 1 - PageSize = 0 /\ Len(<<>>) = 0
  BY PageAssumption
<1>5. <<>> \in Seq(Entry) /\ Begins(<<>>, statuses)
  BY <1>3, <1>4 DEF Begins
<1>6. call'.op # "listed"
  BY <1>2
<1>7. call'.got \in Seq(Entry) /\ Len(call'.got) = PageSize * call'.page - PageSize
  BY <1>2, <1>4, <1>5
<1>8. Begins(call'.got, statuses')
  BY <1>2, <1>3, <1>5
<1>9. /\ api' = "gitlab" => Single(statuses')
      /\ \A c \in Contexts : wrote'[c] # None => Shows(statuses, c, StatusRequest(wrote[c]))'
  BY <1>3 DEF StatusesKept, Shows, StatusRequest
<1> QED  BY <1>6, <1>7, <1>8, <1>9 DEF StatusesKept, At

LEMMA StatusesStep == TypeOK /\ StatusesKept /\ [Next]_vars => StatusesKept'
<1> SUFFICES ASSUME TypeOK, StatusesKept, [Next]_vars
             PROVE  StatusesKept'
  OBVIOUS
<1>1. CASE OthersStep
  BY <1>1, StatusesByOthers
<1>2. ASSUME NEW op \in {"hooks", "statuses", "infos"}, Begin(op)
      PROVE  StatusesKept'
  BY <1>2, StatusesBegin
<1>3. CASE GetPaginatedRequest
  <2>1. CASE At("hooks") /\ Paged(hooks, call.got \o Page(hooks))
    BY <2>1 DEF Paged, StatusesKept, At, Shows, StatusRequest
  <2>2. CASE At("statuses") /\ Paged(statuses, call.got \o Page(statuses))
    BY <2>2, StatusesByPage
  <2> QED  BY <1>3, <2>1, <2>2, PagingDoes
<1>4. CASE \E c \in Contexts, s \in States : SetCommitStatus(c, s)
  BY <1>4, StatusesBySet
<1>5. CASE \/ Return
           \/ \E d \in Dirs : GetManifestInfos(d)
           \/ \E info \in call.infos : ObjectFromManifest(info)
           \/ EndOfManifests
  BY <1>5, QuietDoes DEF StatusesKept, At, Shows, StatusRequest
<1>6. CASE UNCHANGED vars
  BY <1>6 DEF vars, StatusesKept, At, Shows, StatusRequest
<1> QED  BY <1>1, <1>2, <1>3, <1>4, <1>5, <1>6, Steps

\* What a client makes of a list that shows a state of a context.
LEMMA ShownIsReturned ==
    ASSUME NEW got \in Seq(Entry), NEW c, NEW raw, Shows(got, c, raw),
           api \in {"github", "gitlab"}
    PROVE  {s.state : s \in {t \in CommitStatuses(got) : t.context = c}}
             = {IF api = "gitlab" THEN CommitState(raw) ELSE raw}
<1>1. PICK j \in 1..Len(got) :
        /\ got[j] = [context |-> c, state |-> raw]
        /\ \A k \in 1..Len(got) :
             got[k].context = c => IF api = "github" THEN k >= j ELSE k = j
  BY DEF Shows
<1>2. Len(got) \in Nat /\ DOMAIN got = 1..Len(got)
  OBVIOUS
<1>3. \A k \in 1..Len(got) : got[k] \in Entry
  OBVIOUS
<1>4. CASE api = "github"
  <2>1. CommitStatuses(got) = FirstOfContext(got)
    BY <1>4 DEF CommitStatuses
  <2>2. got[j] \in FirstOfContext(got)
    <3>1. \A k \in 1..(j - 1) : k \in 1..Len(got) /\ ~(k >= j)
      BY <1>2
    <3>2. \A k \in 1..(j - 1) : got[k].context # got[j].context
      BY <1>1, <1>4, <3>1
    <3> QED  BY <1>2, <3>2 DEF FirstOfContext
  <2>3. ASSUME NEW t \in FirstOfContext(got), t.context = c
        PROVE  t = got[j]
    <3>1. PICK i \in 1..Len(got) :
            /\ t = got[i]
            /\ \A k \in 1..(i - 1) : got[k].context # got[i].context
      BY <1>2 DEF FirstOfContext
    <3>2. i >= j
      BY <1>1, <1>4, <2>3, <3>1
    <3>3. CASE i > j
      <4>1. j \in 1..(i - 1)
        BY <1>2, <3>3
      <4> QED  BY <1>1, <2>3, <3>1, <4>1
    <3>4. CASE i = j
      BY <3>1, <3>4
    <3> QED  BY <1>2, <3>2, <3>3, <3>4
  <2>4. {t \in CommitStatuses(got) : t.context = c} = {got[j]}
    BY <1>1, <2>1, <2>2, <2>3
  <2> QED  BY <1>1, <1>4, <2>4
<1>5. CASE api = "gitlab"
  <2> DEFINE Told(s) == [s EXCEPT !.state = CommitState(@)]
  <2>1. CommitStatuses(got) = {Told(s) : s \in ToSet(got)}
    BY <1>5 DEF CommitStatuses
  <2>2. \A s \in Entry : Told(s).context = s.context /\ Told(s).state = CommitState(s.state)
    BY DEF Entry
  <2>3. got[j] \in ToSet(got) /\ got[j] \in Entry
    BY <1>2, <1>3 DEF ToSet
  <2>4. ASSUME NEW s \in ToSet(got), Told(s).context = c
        PROVE  s = got[j]
    <3>1. PICK k \in 1..Len(got) : s = got[k]
      BY <1>2 DEF ToSet
    <3>2. got[k].context = c
      BY <1>3, <2>2, <2>4, <3>1
    <3> QED  BY <1>1, <1>5, <3>1, <3>2
  <2>5. Told(got[j]).context = c /\ Told(got[j]).state = CommitState(raw)
    BY <1>1, <2>2, <2>3
  <2> HIDE DEF Told
  <2>6. {t \in CommitStatuses(got) : t.context = c} = {Told(got[j])}
    BY <2>1, <2>3, <2>4, <2>5
  <2> QED  BY <1>5, <2>5, <2>6
<1> QED  BY <1>4, <1>5

\* What SetCommitStatus has set last for a context, ListCommitStatuses returns as
\* that context's one state, over any number of pages, unless somebody writes a
\* status meanwhile: GitHub's log is cut to the newest entry, GitLab's states are
\* translated there and back.
THEOREM StatusesAreListed == Spec => []StatusIsListed
<1>1. Init => StatusesKept
  BY DEF Init, StatusesKept, At, Idle, Single
<1>2. TypeOK /\ StatusesKept => StatusIsListed
  <2> SUFFICES ASSUME TypeOK, StatusesKept, At("listed"), call.kind = "statuses",
                      ~since.moved, NEW c \in Contexts, wrote[c] # None
               PROVE  {s.state : s \in {t \in CommitStatuses(call.got) : t.context = c}}
                        = {IF api = "gitlab" THEN CommitState(StatusRequest(wrote[c]))
                           ELSE wrote[c]}
    BY DEF StatusIsListed
  <2>1. call.got \in Seq(Entry) /\ Shows(call.got, c, StatusRequest(wrote[c]))
    BY DEF StatusesKept
  <2>2. api \in {"github", "gitlab"} /\ (api = "github" => StatusRequest(wrote[c]) = wrote[c])
    BY DEF TypeOK, StatusRequest
  <2>3. {s.state : s \in {t \in CommitStatuses(call.got) : t.context = c}}
          = {IF api = "gitlab" THEN CommitState(StatusRequest(wrote[c]))
             ELSE StatusRequest(wrote[c])}
    BY <2>1, <2>2, ShownIsReturned
  <2> QED  BY <2>2, <2>3
<1> QED  BY <1>1, <1>2, TypeInit, TypeStep, StatusesStep, PTL DEF Spec
=============================================================================
