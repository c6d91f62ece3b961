------------------------- MODULE TemplateAccessProofs -------------------------
(***************************************************************************)
(* For any users, groups, templates and handlers: the types of             *)
(* TemplateAccess, that a revision names what a workspace was built from,  *)
(* and that the deletion of a group opens a template to nobody.            *)
(*                                                                         *)
(* The second needs the snapshots that handlers hold as well as those of   *)
(* workspaces, and what a form that has read its row knows of it; the      *)
(* third what a deletion that has looked through the templates knows.      *)
(***************************************************************************)
EXTENDS TemplateAccess, TLAPS

Op == {"none", "groups", "add", "remove", "delete", "form", "workspace"}
Place == {"done", "asked", "listed", "checked", "read"}
Mode == {"include", "exclude"}
Handler == [op : Op, at : Place, user : SUBSET User, template : SUBSET Template,
            groups : SUBSET Group, revision : 0..MaxRevision, content : SUBSET Content,
            mode : Mode, overtaken : BOOLEAN]

(* A creation has read a row, which has a revision; a form is for one      *)
(* template.                                                               *)
Bound(q) == /\ q.op = "workspace" => q.revision > 0
            /\ q.op = "form" => \E t \in Template : q.template = {t}

Typed == TypeOK /\ request \in [Request -> Handler] /\ \A r \in Request : Bound(request[r])

(* The snapshots of workspaces, and those a creation is about to record. *)
Held(q) == IF q.op = "workspace"
           THEN [template : q.template, revision : {q.revision}, content : q.content] ELSE {}
Snapshots == built \cup UNION {Held(request[r]) : r \in Request}

Matches(s) == LET t == template[s.template] IN
    s.revision <= t.revision /\ (s.revision = t.revision => s.content = t.content)

Fresh(q) == q.op = "form" /\ q.at = "read" /\ ~q.overtaken =>
    \A t \in q.template : q.revision = template[t].revision

RevisionsTell == "revision" \notin raced =>
    /\ \A s \in Snapshots : Matches(s)
    /\ \A s, t \in Snapshots :
          s.template = t.template /\ s.revision = t.revision => s.content = t.content
    /\ \A r \in Request : Fresh(request[r])

(* A deletion that looked through the templates would find the same again, *)
(* unless it has been overtaken.                                           *)
StillUnused(q) == q.op = "delete" /\ q.at = "checked" /\ ~q.overtaken =>
    \A t \in Template : template[t].groups \cap q.groups = {}

GroupsUnused ==
    /\ \A t \in Template : ~HasRow(t) => template[t].groups = {}
    /\ \A r \in Request : StillUnused(request[r])

-----------------------------------------------------------------------------
(* Typing *)

LEMMA TypedMeans ==
  Typed <=> /\ group \in [Group -> {"absent", "exists", "deleted"}]
            /\ member \in [User -> SUBSET Group]
            /\ template \in [Template -> Rules]
            /\ built \subseteq Snapshot
            /\ raced \subseteq {"group", "revision"}
            /\ request \in [Request -> Handler]
            /\ \A r \in Request : Bound(request[r])
  BY DEF Typed, TypeOK, Handler, Op, Place, Mode

LEMMA IdleHandler == Idle \in Handler /\ Bound(Idle)
  BY TemplateAccessAssumption DEF Idle, Handler, Bound, Op, Place, Mode

LEMMA InitTyped == Init => Typed
  <1> SUFFICES ASSUME Init PROVE Typed
    OBVIOUS
  <1> DEFINE First == [revision : {0}, content : Content, mode : {"exclude"},
                       groups : {{}}, enabled : {FALSE}]
  <1>1. First \subseteq Rules
    <2> SUFFICES ASSUME NEW f \in First PROVE f \in Rules
      OBVIOUS
    <2>1. f.revision = 0 /\ f.content \in Content /\ f.mode = "exclude" /\ f.groups = {}
          /\ f.enabled = FALSE
          /\ f = [revision |-> f.revision, content |-> f.content, mode |-> f.mode,
                  groups |-> f.groups, enabled |-> f.enabled]
      BY Zenon
    <2>2. f.revision \in 0..MaxRevision /\ f.mode \in {"include", "exclude"}
          /\ f.groups \in SUBSET Group
      BY <2>1, TemplateAccessAssumption
    <2>3. f.enabled \in BOOLEAN
      BY <2>1, Zenon
    <2> HIDE DEF First
    <2> QED
      BY <2>1, <2>2, <2>3, Zenon DEF Rules
  <1>2. template \in [Template -> First]
    BY Zenon DEF Init
  <1> HIDE DEF First
  <1>3. template \in [Template -> Rules]
    BY <1>1, <1>2
  <1> QED
    BY <1>3, IdleHandler, TypedMeans DEF Init

(* A handler's next record decides the type of all of them. *)
LEMMA HandlerMoves ==
  ASSUME Typed, NEW r \in Request, NEW q \in Handler, Bound(q),
         request' = [request EXCEPT ![r] = q]
  PROVE  request' \in [Request -> Handler] /\ \A p \in Request : Bound(request'[p])
  BY TypedMeans

(* One handler is done, and others at most become overtaken. *)
Settles(r) ==
    /\ request' = [p \in Request |-> request'[p]]
    /\ request'[r] = Idle
    /\ \A p \in Request \ {r} :
          request'[p] \in {request[p], [request[p] EXCEPT !.overtaken = TRUE]}

LEMMA HandlerSettles ==
  ASSUME Typed, NEW r \in Request, Settles(r)
  PROVE  request' \in [Request -> Handler] /\ \A p \in Request : Bound(request'[p])
  <1>1. ASSUME NEW p \in Request PROVE request'[p] \in Handler /\ Bound(request'[p])
    <2> DEFINE q == [request[p] EXCEPT !.overtaken = TRUE]
    <2>1. q \in Handler /\ Bound(q)
      <3>1. request[p] \in Handler /\ Bound(request[p])
        BY TypedMeans
      <3> QED
        BY <3>1 DEF Handler, Bound
    <2>2. request'[p] \in {Idle, request[p], q}
      BY DEF Settles
    <2> HIDE DEF q
    <2> QED
      BY <2>1, <2>2, IdleHandler, TypedMeans
  <1> QED
    BY <1>1 DEF Settles

LEMMA NoneStaleSettles ==
  ASSUME Typed, NEW r \in Request, EndWriting(r, NoneStale)
  PROVE  Settles(r) /\ \A p \in Request \ {r} : request'[p] = request[p]
  BY TypedMeans DEF EndWriting, NoneStale, Settles

LEMMA SaveSettles ==
  ASSUME Typed, NEW r \in Request, NEW t \in Template, NEW content \in Content,
         NEW mode \in Mode, NEW groups \in SUBSET Group, NEW enabled \in BOOLEAN,
         SaveTemplate(r, t, content, mode, groups, enabled)
  PROVE  /\ Settles(r)
         /\ \A p \in Request \ {r} :
               request'[p] = IF Overtakes(t, groups, request[p])
                             THEN [request[p] EXCEPT !.overtaken = TRUE] ELSE request[p]
  BY TypedMeans DEF SaveTemplate, EndWriting, Settles

LEMMA NextTyped ==
  ASSUME Typed, [Next]_vars
  PROVE  Typed'
  <1>0. Typed' <=> /\ group' \in [Group -> {"absent", "exists", "deleted"}]
                  /\ member' \in [User -> SUBSET Group]
                  /\ template' \in [Template -> Rules]
                  /\ built' \subseteq Snapshot
                  /\ raced' \subseteq {"group", "revision"}
                  /\ request' \in [Request -> Handler]
                  /\ \A r \in Request : Bound(request'[r])
    BY DEF Typed, TypeOK, Handler, Op, Place, Mode
  <1> DEFINE RequestTyped == /\ request \in [Request -> Handler]
                             /\ \A p \in Request : Bound(request[p])
  <1>1. ASSUME NEW r \in Request, NEW q \in Handler, Bound(q),
               request' = [request EXCEPT ![r] = q], Unwritten
        PROVE  Typed'
    <2>1. RequestTyped'
      BY <1>1, HandlerMoves
    <2> QED
      BY <2>1, <1>1, <1>0, TypedMeans DEF Unwritten
  <1>2. ASSUME NEW r \in Request, Settles(r), group' \in [Group -> {"absent", "exists", "deleted"}],
               member' \in [User -> SUBSET Group], template' \in [Template -> Rules],
               built' \subseteq Snapshot, raced' \subseteq {"group", "revision"}
        PROVE  Typed'
    <2>1. RequestTyped'
      BY <1>2, HandlerSettles
    <2> QED
      BY <2>1, <1>2, <1>0
  <1>a. CASE UNCHANGED vars
    BY <1>a, <1>0, TypedMeans DEF vars
  <1>b. ASSUME NEW g \in Group, CreateGroup(g) PROVE Typed'
    BY <1>b, <1>0, TypedMeans DEF CreateGroup
  <1>c. ASSUME NEW r \in Request, NEW u \in User, NEW groups \in SUBSET Group,
               AskGroups(r, u, groups)
        PROVE  Typed'
    <2> DEFINE q == [Idle EXCEPT !.op = "groups", !.at = "checked", !.user = {u},
                                 !.groups = groups]
    <2>1. q \in Handler /\ Bound(q)
      BY IdleHandler DEF Handler, Bound, Idle, Op, Place
    <2> QED
      BY <1>c, <2>1, <1>1 DEF AskGroups, Begin
  <1>d. ASSUME NEW r \in Request, NEW u \in User, NEW groups \in SUBSET Group,
               AskToAdd(r, u, groups)
        PROVE  Typed'
    <2> DEFINE q == [Idle EXCEPT !.op = "add", !.at = "checked", !.user = {u},
                                 !.groups = groups \ member[u]]
    <2>1. q \in Handler /\ Bound(q)
      BY IdleHandler DEF Handler, Bound, Idle, Op, Place
    <2> QED
      BY <1>d, <2>1, <1>1 DEF AskToAdd, Begin
  <1>e. ASSUME NEW r \in Request, NEW u \in User, NEW g \in Group, ListUserGroupIDs(r, u, g)
        PROVE  Typed'
    <2> DEFINE q == [Idle EXCEPT !.op = "remove", !.at = "listed", !.user = {u},
                                 !.groups = member[u] \ {g}]
    <2>1. q \in Handler /\ Bound(q)
      BY IdleHandler, TypedMeans DEF Handler, Bound, Idle, Op, Place
    <2> QED
      BY <1>e, <2>1, <1>1 DEF ListUserGroupIDs, Begin
  <1>f. ASSUME NEW r \in Request, SetUserGroups(r) PROVE Typed'
    <2>1. request[r].groups \subseteq Group
      BY TypedMeans DEF Handler
    <2>2. Settles(r)
      BY <1>f, NoneStaleSettles DEF SetUserGroups
    <2> QED
      BY <1>f, <2>1, <2>2, <1>2, TypedMeans DEF SetUserGroups
  <1>g. ASSUME NEW r \in Request, AddUserGroups(r) PROVE Typed'
    <2>1. request[r].groups \subseteq Group
      BY TypedMeans DEF Handler
    <2>2. Settles(r)
      BY <1>g, NoneStaleSettles DEF AddUserGroups
    <2> QED
      BY <1>g, <2>1, <2>2, <1>2, TypedMeans DEF AddUserGroups
  <1>h. ASSUME NEW r \in Request, RemoveUserFromGroup(r) PROVE Typed'
    <2> DEFINE q == [request[r] EXCEPT !.op = "groups", !.at = "checked"]
    <2>1. q \in Handler /\ Bound(q)
      <3>1. request[r] \in Handler /\ Bound(request[r])
        BY TypedMeans
      <3>2. q \in Handler
        BY <3>1 DEF Handler, Op, Place
      <3> QED
        BY <3>1, <3>2 DEF Bound
    <2>2. request' = [request EXCEPT ![r] = q]
      BY <1>h, TypedMeans DEF RemoveUserFromGroup, Handler
    <2> QED
      BY <1>h, <2>1, <2>2, <1>1 DEF RemoveUserFromGroup
  <1>i. ASSUME NEW r \in Request, NEW g \in Group, AskDeleteGroup(r, g) PROVE Typed'
    <2> DEFINE q == [Idle EXCEPT !.op = "delete", !.at = "asked", !.groups = {g}]
    <2>1. q \in Handler /\ Bound(q)
      BY IdleHandler DEF Handler, Bound, Idle, Op, Place
    <2> QED
      BY <1>i, <2>1, <1>1 DEF AskDeleteGroup, Begin
  <1>j. ASSUME NEW r \in Request, ListTemplates(r) PROVE Typed'
    <2> DEFINE q == [request[r] EXCEPT !.at = "checked"]
    <2>1. q \in Handler /\ Bound(q)
      BY TypedMeans DEF Handler, Bound, Place
    <2>2. request' = [request EXCEPT ![r] = q]
      BY <1>j DEF ListTemplates
    <2> QED
      BY <1>j, <2>1, <2>2, <1>1 DEF ListTemplates
  <1>k. ASSUME NEW r \in Request, DeleteGroup(r) PROVE Typed'
    <2>1. Settles(r)
      BY <1>k, NoneStaleSettles DEF DeleteGroup
    <2>2. group' \in [Group -> {"absent", "exists", "deleted"}] /\ member' \in [User -> SUBSET Group]
      BY <1>k, TypedMeans DEF DeleteGroup
    <2> QED
      BY <1>k, <2>1, <2>2, <1>2, TypedMeans DEF DeleteGroup
  <1>l. ASSUME NEW r \in Request, NEW t \in Template, LoadForm(r, t) PROVE Typed'
    <2> DEFINE q == [Idle EXCEPT !.op = "form", !.at = "asked", !.template = {t},
                                 !.groups = Existing]
    <2>1. q \in Handler /\ Bound(q)
      BY IdleHandler DEF Handler, Bound, Idle, Op, Place, Existing
    <2> QED
      BY <1>l, <2>1, <1>1 DEF LoadForm, Begin
  <1>m. ASSUME NEW r \in Request, FindTemplate(r) PROVE Typed'
    <2>1. PICK t \in request[r].template :
             request' = [request EXCEPT ![r].at = "read", ![r].revision = template[t].revision]
      BY <1>m DEF FindTemplate
    <2> DEFINE q == [request[r] EXCEPT !.at = "read", !.revision = template[t].revision]
    <2>2. t \in Template /\ request[r].op = "form"
      BY <1>m, TypedMeans DEF Handler, FindTemplate, At
    <2>a. request[r] \in Handler /\ Bound(request[r]) /\ template[t].revision \in 0..MaxRevision
      BY <2>2, TypedMeans DEF Rules
    <2>3. q \in Handler /\ Bound(q)
      BY <2>2, <2>a DEF Handler, Bound, Place
    <2>4. request' = [request EXCEPT ![r] = q]
      BY <2>1, TypedMeans DEF Handler
    <2> QED
      BY <1>m, <2>3, <2>4, <1>1 DEF FindTemplate
  <1>n. ASSUME NEW r \in Request, NEW t \in Template, NEW content \in Content,
               NEW groups \in SUBSET Group, NEW mode \in Mode, NEW enabled \in BOOLEAN,
               SaveTemplate(r, t, content, mode, groups, enabled)
        PROVE  Typed'
    <2>1. Settles(r)
      BY <1>n, SaveSettles
    <2>2. request[r].revision + 1 \in 0..MaxRevision
      BY <1>n, TypedMeans, TemplateAccessAssumption DEF SaveTemplate, Handler
    <2>3. template' \in [Template -> Rules]
      BY <1>n, <2>2, TypedMeans DEF SaveTemplate, Rules, Mode
    <2>4. raced' \subseteq {"group", "revision"}
      BY <1>n, TypedMeans DEF SaveTemplate, Late
    <2> QED
      BY <1>n, <2>1, <2>3, <2>4, <1>2, TypedMeans DEF SaveTemplate
  <1>o. ASSUME NEW t \in Template, NEW enabled \in BOOLEAN, SetTemplateEnabled(t, enabled)
        PROVE  Typed'
    BY <1>o, <1>0, TypedMeans DEF SetTemplateEnabled, Rules
  <1>p. ASSUME NEW r \in Request, NEW u \in User, NEW t \in Template, ReadTemplate(r, u, t)
        PROVE  Typed'
    <2> DEFINE q == [Idle EXCEPT !.op = "workspace", !.at = "read", !.user = {u},
                        !.template = {t}, !.revision = template[t].revision,
                        !.content = {template[t].content},
                        !.mode = template[t].mode, !.groups = template[t].groups]
    <2>1. template[t] \in Rules /\ template[t].revision > 0
      BY <1>p, TypedMeans DEF ReadTemplate, HasRow
    <2>2. q \in Handler /\ Bound(q)
      BY <2>1, IdleHandler DEF Handler, Bound, Idle, Op, Place, Mode, Rules
    <2> QED
      BY <1>p, <2>2, <1>1 DEF ReadTemplate, Begin
  <1>q. ASSUME NEW r \in Request, TemplateAllowed(r) PROVE Typed'
    <2> DEFINE q == [Idle EXCEPT !.op = "workspace", !.at = "checked",
                        !.template = request[r].template, !.revision = request[r].revision,
                        !.content = request[r].content]
    <2>1. request[r].op = "workspace" /\ request[r] \in Handler /\ Bound(request[r])
      BY <1>q, TypedMeans DEF TemplateAllowed, At
    <2>2. q \in Handler /\ Bound(q)
      BY <2>1, IdleHandler DEF Handler, Bound, Idle, Op, Place
    <2> QED
      BY <1>q, <2>2, <1>1 DEF TemplateAllowed
  <1>r. ASSUME NEW r \in Request, CreateWorkspace(r) PROVE Typed'
    <2>1. request[r].op = "workspace" /\ request[r] \in Handler /\ Bound(request[r])
      BY <1>r, TypedMeans DEF CreateWorkspace, At
    <2>2. built' \subseteq Snapshot
      BY <1>r, <2>1, TypedMeans, TemplateAccessAssumption
         DEF CreateWorkspace, Snapshot, Handler, Bound
    <2>3. Settles(r)
      BY <1>r, NoneStaleSettles DEF CreateWorkspace
    <2> QED
      BY <1>r, <2>2, <2>3, <1>2, TypedMeans DEF CreateWorkspace
  <1>s. ASSUME NEW r \in Request, Abandon(r) PROVE Typed'
    BY <1>s, IdleHandler, <1>1 DEF Abandon
  <1>t. ASSUME NEW s \in built, DeleteWorkspaces(s) PROVE Typed'
    BY <1>t, <1>0, TypedMeans DEF DeleteWorkspaces
  <1> QED
    BY <1>a, <1>b, <1>c, <1>d, <1>e, <1>f, <1>g, <1>h, <1>i, <1>j, <1>k, <1>l, <1>m,
       <1>n, <1>o, <1>p, <1>q, <1>r, <1>s, <1>t DEF Next, Mode

(* Every variable of TemplateAccess keeps its type. *)
THEOREM TemplatesTyped == Spec => []TypeOK
  <1>1. Typed /\ [Next]_vars => Typed'
    BY NextTyped
  <1>2. Typed => TypeOK
    BY DEF Typed
  <1> QED
    BY <1>1, <1>2, InitTyped, PTL DEF Spec

-----------------------------------------------------------------------------
(* What a revision tells *)

LEMMA SnapshotsTyped ==
  ASSUME Typed
  PROVE  Snapshots \subseteq Snapshot /\ \A r \in Request : Held(request[r]) \subseteq Snapshots
  <1>1. ASSUME NEW r \in Request PROVE Held(request[r]) \subseteq Snapshot
    <2>1. request[r] \in Handler /\ Bound(request[r])
      BY TypedMeans
    <2> QED
      BY <2>1, TemplateAccessAssumption DEF Held, Snapshot, Handler, Bound
  <1> QED
    BY <1>1, TypedMeans DEF Snapshots

(* No row changes but in whether it is offered, no snapshot is new, and no *)
(* form reads a row.                                                       *)
LEMMA TellsStill ==
  ASSUME Typed, RevisionsTell, Snapshots' \subseteq Snapshots, raced \subseteq raced',
         \A t \in Template : /\ template'[t].revision = template[t].revision
                             /\ template'[t].content = template[t].content,
         \A r \in Request : Fresh(request[r]) => Fresh(request[r])'
  PROVE  RevisionsTell'
  <1> SUFFICES ASSUME "revision" \notin raced'
               PROVE  /\ \A s \in Snapshots' : Matches(s)'
                      /\ \A s, t \in Snapshots' :
                            s.template = t.template /\ s.revision = t.revision
                               => s.content = t.content
                      /\ \A r \in Request : Fresh(request[r])'
    BY DEF RevisionsTell
  <1>1. ASSUME NEW s \in Snapshots' PROVE Matches(s)'
    <2>1. Matches(s) /\ s.template \in Template
      BY <1>1, SnapshotsTyped DEF RevisionsTell, Snapshot
    <2> QED
      BY <2>1 DEF Matches
  <1> QED
    BY <1>1 DEF RevisionsTell

(* Nor does any step that one handler takes without reading a row.         *)
LEMMA HandlerTells ==
  ASSUME Typed, RevisionsTell, built' = built, raced' = raced, template' = template,
         NEW r \in Request, NEW q \in Handler, request' = [request EXCEPT ![r] = q],
         Held(q) \subseteq Held(request[r]), Fresh(q)
  PROVE  RevisionsTell'
  <1>1. request'[r] = q /\ \A p \in Request \ {r} : request'[p] = request[p]
    BY TypedMeans
  <1>2. ASSUME NEW p \in Request PROVE Held(request[p])' \subseteq Held(request[p])
    BY <1>1 DEF Held
  <1>3. Snapshots' \subseteq Snapshots
    BY <1>2 DEF Snapshots
  <1>4. ASSUME NEW p \in Request, Fresh(request[p]) PROVE Fresh(request[p])'
    BY <1>1, <1>4 DEF Fresh
  <1> QED
    BY <1>3, <1>4, TellsStill

LEMMA SettlingTells ==
  ASSUME Typed, RevisionsTell, NEW r \in Request, Settles(r), template' = template,
         built' \subseteq built \cup Held(request[r]), raced \subseteq raced'
  PROVE  RevisionsTell'
  <1>1. ASSUME NEW p \in Request PROVE Held(request[p])' \subseteq Held(request[p])
    BY TypedMeans DEF Settles, Held, Idle, Handler
  <1>2. Snapshots' \subseteq Snapshots
    BY <1>1 DEF Snapshots
  <1>3. ASSUME NEW p \in Request, Fresh(request[p]) PROVE Fresh(request[p])'
    BY <1>3, TypedMeans DEF Settles, Fresh, Idle, Handler
  <1> QED
    BY <1>2, <1>3, TellsStill

LEMMA SaveTells ==
  ASSUME Typed, RevisionsTell, NEW r \in Request, NEW t \in Template, NEW content \in Content,
         NEW mode \in Mode, NEW groups \in SUBSET Group, NEW enabled \in BOOLEAN,
         SaveTemplate(r, t, content, mode, groups, enabled)
  PROVE  RevisionsTell'
  <1> SUFFICES ASSUME "revision" \notin raced'
               PROVE  /\ \A s \in Snapshots' : Matches(s)'
                      /\ \A s, z \in Snapshots' :
                            s.template = z.template /\ s.revision = z.revision
                               => s.content = z.content
                      /\ \A p \in Request : Fresh(request[p])'
    BY DEF RevisionsTell
  <1>0. Settles(r) /\ \A p \in Request \ {r} :
               request'[p] = IF Overtakes(t, groups, request[p])
                             THEN [request[p] EXCEPT !.overtaken = TRUE] ELSE request[p]
    BY SaveSettles
  <1>1. "revision" \notin raced /\ ~request[r].overtaken
    BY DEF SaveTemplate, Late
  <1>2. request[r].revision = template[t].revision
    BY <1>1 DEF SaveTemplate, RevisionsTell, Fresh, At
  <1>3. ASSUME NEW p \in Request PROVE Held(request[p])' \subseteq Held(request[p])
    BY <1>0, TypedMeans DEF Settles, Held, Idle, Handler
  <1>4. Snapshots' \subseteq Snapshots
    BY <1>3 DEF Snapshots, SaveTemplate
  <1>5. ASSUME NEW s \in Snapshots' PROVE Matches(s)'
    <2>1. Matches(s) /\ s.template \in Template /\ s.revision \in Nat
      BY <1>1, <1>4, <1>5, SnapshotsTyped DEF RevisionsTell, Snapshot
    <2>2. template[t].revision \in Nat
      BY TypedMeans DEF Rules
    <2>3. CASE s.template = t
      <3>1. template'[t].revision = template[t].revision + 1
        BY <1>2, TypedMeans DEF SaveTemplate
      <3> QED
        BY <2>1, <2>2, <2>3, <3>1 DEF Matches
    <2>4. CASE s.template # t
      <3>1. template'[s.template] = template[s.template]
        BY <2>1, <2>4, TypedMeans DEF SaveTemplate
      <3> QED
        BY <2>1, <3>1 DEF Matches
    <2> QED
      BY <2>3, <2>4
  <1>6. ASSUME NEW p \in Request PROVE Fresh(request[p])'
    <2>1. CASE p = r
      BY <2>1, <1>0 DEF Settles, Fresh, Idle
    <2>2. CASE p # r /\ Overtakes(t, groups, request[p])
      <3>1. request'[p].overtaken
        BY <1>0, <2>2, TypedMeans DEF Handler
      <3> QED
        BY <3>1 DEF Fresh
    <2>3. CASE p # r /\ ~Overtakes(t, groups, request[p])
      <3>1. request'[p] = request[p] /\ Fresh(request[p])
        BY <1>0, <1>1, <2>3 DEF RevisionsTell
      <3>2. CASE request[p].op = "form" /\ request[p].at = "read"
        <4>1. PICK z \in Template : request[p].template = {z}
          BY <3>2, TypedMeans DEF Bound
        <4>2. z # t
          BY <2>3, <3>2, <4>1 DEF Overtakes
        <4>3. template'[z] = template[z]
          BY <4>2, TypedMeans DEF SaveTemplate
        <4> QED
          BY <3>1, <4>1, <4>3 DEF Fresh
      <3>3. CASE ~(request[p].op = "form" /\ request[p].at = "read")
        BY <3>1, <3>3 DEF Fresh
      <3> QED
        BY <3>2, <3>3
    <2> QED
      BY <2>1, <2>2, <2>3
  <1> QED
    BY <1>1, <1>4, <1>5, <1>6 DEF RevisionsTell

LEMMA ReadTells ==
  ASSUME Typed, RevisionsTell, NEW r \in Request, NEW u \in User, NEW t \in Template,
         ReadTemplate(r, u, t)
  PROVE  RevisionsTell'
  <1> SUFFICES ASSUME "revision" \notin raced
               PROVE  /\ \A s \in Snapshots' : Matches(s)
                      /\ \A s, z \in Snapshots' :
                            s.template = z.template /\ s.revision = z.revision
                               => s.content = z.content
                      /\ \A p \in Request : Fresh(request[p])'
    BY DEF RevisionsTell, ReadTemplate, Unwritten, Matches
  <1> DEFINE new == [template |-> t, revision |-> template[t].revision,
                     content |-> template[t].content]
  <1>1. /\ request'[r].op = "workspace" /\ request'[r].template = {t}
        /\ request'[r].revision = template[t].revision
        /\ request'[r].content = {template[t].content}
    BY TypedMeans DEF ReadTemplate, Begin, Idle
  <1>2. \A p \in Request \ {r} : request'[p] = request[p]
    BY TypedMeans DEF ReadTemplate, Begin
  <1>3. Held(request[r])' = {new}
    <2>1. Held(request[r])' = [template : {t}, revision : {template[t].revision},
                               content : {template[t].content}]
      BY <1>1 DEF Held
    <2>2. \A s \in Held(request[r])' : s = new
      BY <2>1
    <2>3. new \in Held(request[r])'
      BY <2>1
    <2> QED
      BY <2>2, <2>3
  <1>4. \A p \in Request \ {r} : Held(request[p])' = Held(request[p])
    BY <1>2 DEF Held
  <1>5. Snapshots' \subseteq Snapshots \cup {new}
    BY <1>3, <1>4 DEF Snapshots, ReadTemplate, Unwritten
  <1>6. Matches(new)
    BY TypedMeans DEF Matches, Rules
  <1>7. \A s \in Snapshots : s.template = new.template /\ s.revision = new.revision
                                => s.content = new.content
    BY DEF RevisionsTell, Matches
  <1>8. ASSUME NEW p \in Request PROVE Fresh(request[p])'
    BY <1>1, <1>2 DEF Fresh, RevisionsTell, ReadTemplate, Unwritten
  <1> HIDE DEF new
  <1> QED
    BY <1>5, <1>6, <1>7, <1>8 DEF RevisionsTell

LEMMA NextTells ==
  ASSUME Typed, RevisionsTell, [Next]_vars
  PROVE  RevisionsTell'
  <1>1. ASSUME NEW r \in Request, NEW q \in Handler, q.op \notin {"workspace", "form"},
               request' = [request EXCEPT ![r] = q], Unwritten
        PROVE  RevisionsTell'
    <2>1. Held(q) \subseteq Held(request[r]) /\ Fresh(q)
      BY <1>1 DEF Held, Fresh
    <2> QED
      BY <1>1, <2>1, HandlerTells DEF Unwritten
  <1>a. CASE UNCHANGED vars
    BY <1>a DEF vars, RevisionsTell, Snapshots, Held, Matches, Fresh
  <1>b. ASSUME NEW g \in Group, CreateGroup(g) PROVE RevisionsTell'
    BY <1>b DEF CreateGroup, RevisionsTell, Snapshots, Held, Matches, Fresh
  <1>c. ASSUME NEW r \in Request, NEW u \in User, NEW groups \in SUBSET Group,
               AskGroups(r, u, groups)
        PROVE  RevisionsTell'
    <2> DEFINE q == [Idle EXCEPT !.op = "groups", !.at = "checked", !.user = {u},
                                 !.groups = groups]
    <2>1. q \in Handler /\ q.op \notin {"workspace", "form"}
      BY IdleHandler DEF Handler, Idle, Op, Place
    <2> QED
      BY <1>c, <2>1, <1>1 DEF AskGroups, Begin
  <1>d. ASSUME NEW r \in Request, NEW u \in User, NEW groups \in SUBSET Group,
               AskToAdd(r, u, groups)
        PROVE  RevisionsTell'
    <2> DEFINE q == [Idle EXCEPT !.op = "add", !.at = "checked", !.user = {u},
                                 !.groups = groups \ member[u]]
    <2>1. q \in Handler /\ q.op \notin {"workspace", "form"}
      BY IdleHandler DEF Handler, Idle, Op, Place
    <2> QED
      BY <1>d, <2>1, <1>1 DEF AskToAdd, Begin
  <1>e. ASSUME NEW r \in Request, NEW u \in User, NEW g \in Group, ListUserGroupIDs(r, u, g)
        PROVE  RevisionsTell'
    <2> DEFINE q == [Idle EXCEPT !.op = "remove", !.at = "listed", !.user = {u},
                                 !.groups = member[u] \ {g}]
    <2>1. q \in Handler /\ q.op \notin {"workspace", "form"}
      BY IdleHandler, TypedMeans DEF Handler, Idle, Op, Place
    <2> QED
      BY <1>e, <2>1, <1>1 DEF ListUserGroupIDs, Begin
  <1>f. ASSUME NEW r \in Request, SetUserGroups(r) \/ AddUserGroups(r) PROVE RevisionsTell'
    <2>1. Settles(r)
      BY <1>f, NoneStaleSettles DEF SetUserGroups, AddUserGroups
    <2> QED
      BY <1>f, <2>1, SettlingTells DEF SetUserGroups, AddUserGroups
  <1>g. ASSUME NEW r \in Request, RemoveUserFromGroup(r) PROVE RevisionsTell'
    <2> DEFINE q == [request[r] EXCEPT !.op = "groups", !.at = "checked"]
    <2>1. q \in Handler /\ q.op \notin {"workspace", "form"}
      <3>1. request[r] \in Handler
        BY TypedMeans
      <3> QED
        BY <3>1 DEF Handler, Op, Place
    <2>2. request' = [request EXCEPT ![r] = q]
      BY <1>g, TypedMeans DEF RemoveUserFromGroup, Handler
    <2> QED
      BY <1>g, <2>1, <2>2, <1>1 DEF RemoveUserFromGroup
  <1>h. ASSUME NEW r \in Request, NEW g \in Group, AskDeleteGroup(r, g) PROVE RevisionsTell'
    <2> DEFINE q == [Idle EXCEPT !.op = "delete", !.at = "asked", !.groups = {g}]
    <2>1. q \in Handler /\ q.op \notin {"workspace", "form"}
      BY IdleHandler DEF Handler, Idle, Op, Place
    <2> QED
      BY <1>h, <2>1, <1>1 DEF AskDeleteGroup, Begin
  <1>i. ASSUME NEW r \in Request, ListTemplates(r) PROVE RevisionsTell'
    <2> DEFINE q == [request[r] EXCEPT !.at = "checked"]
    <2>1. q \in Handler /\ q.op \notin {"workspace", "form"}
      BY <1>i, TypedMeans DEF ListTemplates, At, Handler, Place
    <2>2. request' = [request EXCEPT ![r] = q]
      BY <1>i DEF ListTemplates
    <2> QED
      BY <1>i, <2>1, <2>2, <1>1 DEF ListTemplates
  <1>j. ASSUME NEW r \in Request, DeleteGroup(r) PROVE RevisionsTell'
    <2>1. Settles(r)
      BY <1>j, NoneStaleSettles DEF DeleteGroup
    <2> QED
      BY <1>j, <2>1, SettlingTells DEF DeleteGroup
  <1>k. ASSUME NEW r \in Request, NEW t \in Template, LoadForm(r, t) PROVE RevisionsTell'
    <2> DEFINE q == [Idle EXCEPT !.op = "form", !.at = "asked", !.template = {t},
                                 !.groups = Existing]
    <2>1. q \in Handler /\ Held(q) = {} /\ Fresh(q)
      BY IdleHandler DEF Handler, Idle, Op, Place, Existing, Held, Fresh
    <2> QED
      BY <1>k, <2>1, HandlerTells DEF LoadForm, Begin, Unwritten
  <1>l. ASSUME NEW r \in Request, FindTemplate(r) PROVE RevisionsTell'
    <2>1. PICK t \in request[r].template :
             request' = [request EXCEPT ![r].at = "read", ![r].revision = template[t].revision]
      BY <1>l DEF FindTemplate
    <2> DEFINE q == [request[r] EXCEPT !.at = "read", !.revision = template[t].revision]
    <2>2. t \in Template /\ request[r].op = "form" /\ request[r].template = {t}
      BY <1>l, TypedMeans DEF Handler, Bound, FindTemplate, At
    <2>a. request[r] \in Handler /\ template[t].revision \in 0..MaxRevision
      BY <2>2, TypedMeans DEF Rules
    <2>3. q \in Handler /\ Held(q) = {} /\ Fresh(q)
      BY <2>2, <2>a DEF Handler, Place, Held, Fresh
    <2>4. request' = [request EXCEPT ![r] = q]
      BY <2>1, TypedMeans DEF Handler
    <2> QED
      BY <1>l, <2>3, <2>4, HandlerTells DEF FindTemplate, Unwritten
  <1>m. ASSUME NEW t \in Template, NEW enabled \in BOOLEAN, SetTemplateEnabled(t, enabled)
        PROVE  RevisionsTell'
    <2>1. \A z \in Template : /\ template'[z].revision = template[z].revision
                              /\ template'[z].content = template[z].content
      BY <1>m, TypedMeans DEF SetTemplateEnabled, Rules
    <2>2. Snapshots' = Snapshots /\ raced' = raced
      BY <1>m DEF SetTemplateEnabled, Snapshots, Held
    <2>3. ASSUME NEW p \in Request, Fresh(request[p]) PROVE Fresh(request[p])'
      BY <1>m, <2>1, <2>3, TypedMeans DEF SetTemplateEnabled, Fresh, Handler
    <2> QED
      BY <2>1, <2>2, <2>3, TellsStill
  <1>n. ASSUME NEW r \in Request, TemplateAllowed(r) PROVE RevisionsTell'
    <2> DEFINE q == [Idle EXCEPT !.op = "workspace", !.at = "checked",
                        !.template = request[r].template, !.revision = request[r].revision,
                        !.content = request[r].content]
    <2>1. request[r].op = "workspace" /\ request[r] \in Handler
      BY <1>n, TypedMeans DEF TemplateAllowed, At
    <2>2. q \in Handler
      BY <2>1, IdleHandler DEF Handler, Idle, Op, Place
    <2>3. Held(q) = Held(request[r]) /\ Fresh(q)
      BY <2>1 DEF Held, Fresh, Idle
    <2> QED
      BY <1>n, <2>2, <2>3, HandlerTells DEF TemplateAllowed, Unwritten
  <1>o. ASSUME NEW r \in Request, CreateWorkspace(r) PROVE RevisionsTell'
    <2>1. Settles(r)
      BY <1>o, NoneStaleSettles DEF CreateWorkspace
    <2>2. built' \subseteq built \cup Held(request[r])
      BY <1>o DEF CreateWorkspace, Held, At
    <2> QED
      BY <1>o, <2>1, <2>2, SettlingTells DEF CreateWorkspace
  <1>p. ASSUME NEW r \in Request, Abandon(r) PROVE RevisionsTell'
    BY <1>p, <1>1, IdleHandler DEF Abandon, Idle
  <1>q. ASSUME NEW s \in built, DeleteWorkspaces(s) PROVE RevisionsTell'
    <2>1. Snapshots' \subseteq Snapshots /\ raced' = raced /\ template' = template
      BY <1>q DEF DeleteWorkspaces, Snapshots, Held
    <2>2. \A p \in Request : Fresh(request[p]) => Fresh(request[p])'
      BY <1>q DEF DeleteWorkspaces, Fresh
    <2> QED
      BY <2>1, <2>2, TellsStill
  <1> QED
    BY <1>a, <1>b, <1>c, <1>d, <1>e, <1>f, <1>g, <1>h, <1>i, <1>j, <1>k, <1>l, <1>m,
       <1>n, <1>o, <1>p, <1>q, SaveTells, ReadTells DEF Next, Mode

(* Two workspaces of a template with one revision were built from the same *)
(* content (UpdateTemplate and effectiveConfiguration).                    *)
THEOREM RevisionsAreDistinct == Spec => []RevisionNamesContent
  <1>1. Init => RevisionsTell
    BY DEF Init, RevisionsTell, Snapshots, Held, Idle, Fresh
  <1>2. Typed /\ RevisionsTell /\ [Next]_vars => Typed' /\ RevisionsTell'
    BY NextTyped, NextTells
  <1>3. RevisionsTell => RevisionNamesContent
    BY DEF RevisionsTell, RevisionNamesContent, Snapshots
  <1> QED
    BY <1>1, <1>2, <1>3, InitTyped, PTL DEF Spec

-----------------------------------------------------------------------------
(* What the deletion of a group finds *)

LEMMA HandlerKeepsUnused ==
  ASSUME Typed, GroupsUnused, template' = template, NEW r \in Request, NEW q,
         request' = [request EXCEPT ![r] = q], StillUnused(q)
  PROVE  GroupsUnused'
  BY TypedMeans DEF GroupsUnused, StillUnused, HasRow

LEMMA SettlingKeepsUnused ==
  ASSUME Typed, GroupsUnused, template' = template, NEW r \in Request, Settles(r)
  PROVE  GroupsUnused'
  <1>1. ASSUME NEW p \in Request PROVE StillUnused(request[p])'
    BY TypedMeans DEF Settles, GroupsUnused, StillUnused, Idle, Handler
  <1> QED
    BY <1>1 DEF GroupsUnused, HasRow

LEMMA SaveKeepsUnused ==
  ASSUME Typed, GroupsUnused, NEW r \in Request, NEW t \in Template, NEW content \in Content,
         NEW mode \in Mode, NEW groups \in SUBSET Group, NEW enabled \in BOOLEAN,
         SaveTemplate(r, t, content, mode, groups, enabled)
  PROVE  GroupsUnused'
  <1>0. Settles(r) /\ \A p \in Request \ {r} :
               request'[p] = IF Overtakes(t, groups, request[p])
                             THEN [request[p] EXCEPT !.overtaken = TRUE] ELSE request[p]
    BY SaveSettles
  <1>1. /\ \A z \in Template \ {t} : template'[z] = template[z]
        /\ template'[t].groups = groups
        /\ template'[t].revision = request[r].revision + 1
    BY TypedMeans DEF SaveTemplate
  <1>2. request[r].revision \in Nat
    BY TypedMeans, TemplateAccessAssumption DEF Handler
  <1>3. \A z \in Template : ~HasRow(z)' => template'[z].groups = {}
    BY <1>1, <1>2 DEF GroupsUnused, HasRow
  <1>4. ASSUME NEW p \in Request PROVE StillUnused(request[p])'
    <2>1. CASE p = r
      BY <2>1, <1>0 DEF Settles, StillUnused, Idle
    <2>2. CASE p # r /\ Overtakes(t, groups, request[p])
      <3>1. request'[p].overtaken
        BY <1>0, <2>2, TypedMeans DEF Handler
      <3> QED
        BY <3>1 DEF StillUnused
    <2>3. CASE p # r /\ ~Overtakes(t, groups, request[p])
      <3>1. request'[p] = request[p] /\ StillUnused(request[p])
        BY <1>0, <2>3 DEF GroupsUnused
      <3> QED
        BY <1>1, <2>3, <3>1 DEF StillUnused, Overtakes
    <2> QED
      BY <2>1, <2>2, <2>3
  <1> QED
    BY <1>3, <1>4 DEF GroupsUnused

LEMMA ListTemplatesFinds ==
  ASSUME Typed, GroupsUnused, NEW r \in Request, ListTemplates(r)
  PROVE  GroupsUnused'
  <1> DEFINE q == [request[r] EXCEPT !.at = "checked"]
  <1>1. q.groups = request[r].groups
    BY TypedMeans DEF Handler
  <1>2. \A t \in Template : template[t].groups \cap request[r].groups = {}
    BY DEF ListTemplates, GroupsUnused
  <1>3. StillUnused(q)
    BY <1>1, <1>2 DEF StillUnused
  <1>4. request' = [request EXCEPT ![r] = q] /\ template' = template
    BY DEF ListTemplates, Unwritten
  <1> HIDE DEF q
  <1> QED
    BY <1>3, <1>4, HandlerKeepsUnused

LEMMA NextKeepsUnused ==
  ASSUME Typed, GroupsUnused, [Next]_vars
  PROVE  GroupsUnused'
  <1>1. ASSUME NEW r \in Request, NEW q, q.op # "delete" \/ q.at # "checked",
               Begin(r, q), Unwritten
        PROVE  GroupsUnused'
    BY <1>1, HandlerKeepsUnused DEF StillUnused, Begin, Unwritten
  <1>a. CASE UNCHANGED vars
    BY <1>a DEF vars, GroupsUnused, StillUnused, HasRow
  <1>b. ASSUME NEW g \in Group, CreateGroup(g) PROVE GroupsUnused'
    BY <1>b DEF CreateGroup, GroupsUnused, StillUnused, HasRow
  <1>c. ASSUME NEW r \in Request, NEW u \in User, NEW groups \in SUBSET Group,
               AskGroups(r, u, groups) \/ AskToAdd(r, u, groups)
        PROVE  GroupsUnused'
    BY <1>c, <1>1 DEF AskGroups, AskToAdd, Idle
  <1>d. ASSUME NEW r \in Request, NEW u \in User, NEW g \in Group, ListUserGroupIDs(r, u, g)
        PROVE  GroupsUnused'
    BY <1>d, <1>1 DEF ListUserGroupIDs, Idle
  <1>e. ASSUME NEW r \in Request, SetUserGroups(r) \/ AddUserGroups(r) \/ CreateWorkspace(r)
                                     \/ DeleteGroup(r)
        PROVE  GroupsUnused'
    <2>1. Settles(r) /\ template' = template
      BY <1>e, NoneStaleSettles DEF SetUserGroups, AddUserGroups, CreateWorkspace, DeleteGroup
    <2> QED
      BY <2>1, SettlingKeepsUnused
  <1>f. ASSUME NEW r \in Request, RemoveUserFromGroup(r) PROVE GroupsUnused'
    <2> DEFINE q == [request[r] EXCEPT !.op = "groups", !.at = "checked"]
    <2>1. request' = [request EXCEPT ![r] = q] /\ template' = template /\ StillUnused(q)
      BY <1>f, TypedMeans DEF RemoveUserFromGroup, Handler, Unwritten, StillUnused
    <2> HIDE DEF q
    <2> QED
      BY <2>1, HandlerKeepsUnused
  <1>g. ASSUME NEW r \in Request, NEW g \in Group, AskDeleteGroup(r, g) PROVE GroupsUnused'
    BY <1>g, <1>1 DEF AskDeleteGroup, Idle
  <1>h. ASSUME NEW r \in Request, NEW t \in Template, LoadForm(r, t) PROVE GroupsUnused'
    BY <1>h, <1>1 DEF LoadForm, Idle
  <1>i. ASSUME NEW r \in Request, FindTemplate(r) PROVE GroupsUnused'
    <2>1. PICK t \in request[r].template :
             request' = [request EXCEPT ![r].at = "read", ![r].revision = template[t].revision]
      BY <1>i DEF FindTemplate
    <2> DEFINE q == [request[r] EXCEPT !.at = "read", !.revision = template[t].revision]
    <2>a. q.op = "form"
      BY <1>i, TypedMeans DEF FindTemplate, At, Handler
    <2>2. request' = [request EXCEPT ![r] = q] /\ template' = template /\ StillUnused(q)
      BY <1>i, <2>1, <2>a, TypedMeans DEF FindTemplate, Handler, Unwritten, StillUnused
    <2> HIDE DEF q
    <2> QED
      BY <2>2, HandlerKeepsUnused
  <1>j. ASSUME NEW t \in Template, NEW enabled \in BOOLEAN, SetTemplateEnabled(t, enabled)
        PROVE  GroupsUnused'
    <2>1. \A z \in Template : /\ template'[z].revision = template[z].revision
                              /\ template'[z].groups = template[z].groups
      BY <1>j, TypedMeans DEF SetTemplateEnabled, Rules
    <2> QED
      BY <1>j, <2>1 DEF SetTemplateEnabled, GroupsUnused, StillUnused, HasRow
  <1>k. ASSUME NEW r \in Request, NEW u \in User, NEW t \in Template, ReadTemplate(r, u, t)
        PROVE  GroupsUnused'
    BY <1>k, <1>1 DEF ReadTemplate, Idle
  <1>l. ASSUME NEW r \in Request, TemplateAllowed(r) PROVE GroupsUnused'
    <2> DEFINE q == [Idle EXCEPT !.op = "workspace", !.at = "checked",
                        !.template = request[r].template, !.revision = request[r].revision,
                        !.content = request[r].content]
    <2>1. request' = [request EXCEPT ![r] = q] /\ template' = template
      BY <1>l DEF TemplateAllowed, Unwritten
    <2>2. StillUnused(q)
      BY DEF StillUnused, Idle
    <2> HIDE DEF q
    <2> QED
      BY <2>1, <2>2, HandlerKeepsUnused
  <1>n. ASSUME NEW r \in Request, Abandon(r) PROVE GroupsUnused'
    <2>1. StillUnused(Idle)
      BY DEF StillUnused, Idle
    <2> QED
      BY <1>n, <2>1, HandlerKeepsUnused DEF Abandon, Unwritten
  <1>m. ASSUME NEW s \in built, DeleteWorkspaces(s) PROVE GroupsUnused'
    BY <1>m DEF DeleteWorkspaces, GroupsUnused, StillUnused, HasRow
  <1> QED
    BY <1>a, <1>b, <1>c, <1>d, <1>e, <1>f, <1>g, <1>h, <1>i, <1>j, <1>k, <1>l, <1>m, <1>n,
       SaveKeepsUnused, ListTemplatesFinds DEF Next, Mode

(* The deletion of a group opens a template to nobody (DeleteGroup of      *)
(* internal/auth), but where a form came too late.                         *)
THEOREM DeletingIsSafe == Spec => DeletionOpensNothing
  <1>1. Init => GroupsUnused
    BY DEF Init, GroupsUnused, StillUnused, HasRow, Idle
  <1>2. Typed /\ GroupsUnused /\ [Next]_vars => Typed' /\ GroupsUnused'
    BY NextTyped, NextKeepsUnused
  <1> DEFINE Safe == \A r \in Request : DeleteGroup(r) /\ "group" \notin raced' =>
          \A u \in User, t \in Template :
              Allows(template'[t], member'[u]) => Allows(template[t], member[u])
  <1>3. Typed /\ GroupsUnused => Safe
    <2> SUFFICES ASSUME Typed, GroupsUnused, NEW r \in Request, DeleteGroup(r),
                        "group" \notin raced', NEW u \in User, NEW t \in Template
                 PROVE  Allows(template'[t], member'[u]) <=> Allows(template[t], member[u])
      OBVIOUS
    <2>1. ~request[r].overtaken
      BY DEF DeleteGroup
    <2>2. template[t].groups \cap request[r].groups = {}
      BY <2>1 DEF GroupsUnused, StillUnused, DeleteGroup, At
    <2>3. template' = template /\ member'[u] = member[u] \ request[r].groups
      BY DEF DeleteGroup
    <2>4. template[t].groups \cap member'[u] = template[t].groups \cap member[u]
      BY <2>2, <2>3
    <2> QED
      BY <2>3, <2>4 DEF Allows
  <1>4. Typed /\ GroupsUnused /\ [Next]_vars => [Safe]_vars
    BY <1>3
  <1> QED
    BY <1>1, <1>2, <1>4, InitTyped, PTL DEF Spec, DeletionOpensNothing
=============================================================================
