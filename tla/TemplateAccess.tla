--------------------------- MODULE TemplateAccess ---------------------------
(***************************************************************************)
(* Groups, memberships and templates, and the workspaces made from them:   *)
(* the administrators' handlers of internal/web, internal/auth and         *)
(* internal/workspace/template.go, and the admission of CreateWorkspace    *)
(* by the rules of the template (templateAllowed).                         *)
(*                                                                         *)
(* As in Accounts, a handler checks in one statement and writes in a later *)
(* one, and `overtaken` marks a handler when another one wrote what it     *)
(* read.  Every actor here is an administrator, but for the owner of a     *)
(* workspace, whose role the template allows.  The identifier of a group   *)
(* is drawn at random, so a deleted one never comes back.                  *)
(***************************************************************************)
EXTENDS FiniteSets, Naturals, TLC

CONSTANTS
    User, Group, Template,
    Content,       \* what a template configures: image, mounts, services
    Request,       \* handlers running at once
    MaxRevision    \* bound: revisions of a template

ASSUME TemplateAccessAssumption == MaxRevision \in Nat \ {0}

VARIABLES
    group,      \* groups: those that exist, and those deleted
    member,     \* user_groups
    template,   \* workspace_templates; revision 0 when there is no row
    built,      \* the snapshots that workspaces hold
    request,    \* where each handler is, and what it read
    raced       \* what a handler wrote on, though another one had changed it

vars == <<group, member, template, built, request, raced>>

Rules == [revision : 0..MaxRevision, content : Content, mode : {"include", "exclude"},
          groups : SUBSET Group, enabled : BOOLEAN]
(* Revision 0 would stand for the template as it is now                    *)
(* (effectiveConfiguration).                                               *)
Snapshot == [template : Template, revision : 1..MaxRevision, content : Content]
Idle == [op |-> "none", at |-> "done", user |-> {}, template |-> {}, groups |-> {},
         revision |-> 0, content |-> {}, mode |-> "exclude", overtaken |-> FALSE]

TypeOK ==
    /\ group \in [Group -> {"absent", "exists", "deleted"}]
    /\ member \in [User -> SUBSET Group]
    /\ template \in [Template -> Rules]
    /\ built \subseteq Snapshot
    /\ \A r \in Request : LET q == request[r] IN
          /\ q.op \in {"none", "groups", "add", "remove", "delete", "form", "workspace"}
          /\ q.at \in {"done", "asked", "listed", "checked", "read"}
          /\ q.user \subseteq User /\ q.template \subseteq Template /\ q.groups \subseteq Group
          /\ q.revision \in 0..MaxRevision /\ q.content \subseteq Content
          /\ q.mode \in {"include", "exclude"} /\ q.overtaken \in BOOLEAN
    /\ raced \subseteq {"group", "revision"}

Init ==
    /\ group = [g \in Group |-> "absent"]
    /\ member = [u \in User |-> {}]
    /\ template \in [Template -> [revision : {0}, content : Content, mode : {"exclude"},
                                  groups : {{}}, enabled : {FALSE}]]
    /\ built = {} /\ raced = {}
    /\ request = [r \in Request |-> Idle]

Existing == {g \in Group : group[g] = "exists"}
HasRow(t) == template[t].revision > 0
Ready(r) == request[r].op = "none"
At(r, op, at) == request[r].op = op /\ request[r].at = at
Begin(r, fields) == Ready(r) /\ request' = [request EXCEPT ![r] = fields]
Unwritten == UNCHANGED <<group, member, template, built, raced>>

(* A handler ends with a write; those that `stale` tells are overtaken. *)
EndWriting(r, stale(_)) ==
    request' = [q \in Request |->
        IF q = r THEN Idle
        ELSE IF stale(request[q]) THEN [request[q] EXCEPT !.overtaken = TRUE] ELSE request[q]]

NoneStale(q) == FALSE

-----------------------------------------------------------------------------
(* Groups and memberships. *)

CreateGroup(g) ==
    /\ group[g] = "absent"
    /\ group' = [group EXCEPT ![g] = "exists"]
    /\ UNCHANGED <<member, template, built, request, raced>>

(* SetUserGroups looks every group up first; the row of a membership needs *)
(* its group in the end, by a foreign key.                                 *)
AskGroups(r, u, groups) ==
    /\ groups \subseteq Existing
    /\ Begin(r, [Idle EXCEPT !.op = "groups", !.at = "checked", !.user = {u}, !.groups = groups])
    /\ Unwritten

SetUserGroups(r) ==
    LET q == request[r] IN
    /\ At(r, "groups", "checked") /\ q.groups \subseteq Existing
    /\ member' = [u \in User |-> IF u \in q.user THEN q.groups ELSE member[u]]
    /\ EndWriting(r, NoneStale)
    /\ UNCHANGED <<group, template, built, raced>>

(* ImportUsers and RegisterUser only add. *)
AskToAdd(r, u, groups) ==
    /\ groups \subseteq Existing
    /\ Begin(r, [Idle EXCEPT !.op = "add", !.at = "checked", !.user = {u},
                             !.groups = groups \ member[u]])
    /\ Unwritten

AddUserGroups(r) ==
    LET q == request[r] IN
    /\ At(r, "add", "checked") /\ q.groups \subseteq Existing
    /\ member' = [u \in User |-> IF u \in q.user THEN member[u] \cup q.groups ELSE member[u]]
    /\ EndWriting(r, NoneStale)
    /\ UNCHANGED <<group, template, built, raced>>

(* RemoveUserFromGroup lists the memberships and sets those that are left, *)
(* by way of SetUserGroups and its checks.                                 *)
ListUserGroupIDs(r, u, g) ==
    /\ g \in Existing
    /\ Begin(r, [Idle EXCEPT !.op = "remove", !.at = "listed", !.user = {u},
                             !.groups = member[u] \ {g}])
    /\ Unwritten

RemoveUserFromGroup(r) ==
    /\ At(r, "remove", "listed") /\ request[r].groups \subseteq Existing
    /\ request' = [request EXCEPT ![r].op = "groups", ![r].at = "checked"]
    /\ Unwritten

AskDeleteGroup(r, g) ==
    /\ g \in Existing
    /\ Begin(r, [Idle EXCEPT !.op = "delete", !.at = "asked", !.groups = {g}])
    /\ Unwritten

(* A slip: a template that is not offered counts as not using the group. *)
ListEnabledTemplates(r) ==
    /\ At(r, "delete", "asked")
    /\ \A t \in Template :
          HasRow(t) /\ template[t].enabled => template[t].groups \cap request[r].groups = {}
    /\ request' = [request EXCEPT ![r].at = "checked"]
    /\ Unwritten

(* ErrGroupInUse while a template names the group. *)
ListTemplates(r) ==
    /\ At(r, "delete", "asked")
    /\ \A t \in Template : HasRow(t) => template[t].groups \cap request[r].groups = {}
    /\ request' = [request EXCEPT ![r].at = "checked"]
    /\ Unwritten

(* The memberships go with the group. *)
DeleteGroup(r) ==
    LET gone == request[r].groups
    IN /\ At(r, "delete", "checked") /\ gone \subseteq Existing
       /\ group' = [g \in Group |-> IF g \in gone THEN "deleted" ELSE group[g]]
       /\ member' = [u \in User |-> member[u] \ gone]
       /\ raced' = raced \cup (IF request[r].overtaken THEN {"group"} ELSE {})
       /\ EndWriting(r, NoneStale)
       /\ UNCHANGED <<template, built>>

-----------------------------------------------------------------------------
(* Templates.  The page of the form offers the groups there are; what is   *)
(* sent back names some of them, and is not compared with groups again.    *)

LoadForm(r, t) ==
    /\ Begin(r, [Idle EXCEPT !.op = "form", !.at = "asked", !.template = {t},
                             !.groups = Existing])
    /\ Unwritten

(* UpdateTemplate reads the row it replaces, CreateTemplate that there is  *)
(* none with the name.                                                     *)
FindTemplate(r) ==
    LET q == request[r] IN
    /\ At(r, "form", "asked")
    /\ \E t \in q.template :
          request' = [request EXCEPT ![r].at = "read", ![r].revision = template[t].revision]
    /\ Unwritten

(* Forms of the template that have read its row, and deletions that have   *)
(* looked through the templates, are overtaken.  The last are those of a   *)
(* group the template now names.                                           *)
Overtakes(t, groups, q) ==
    \/ q.op = "form" /\ q.at = "read" /\ q.template = {t}
    \/ q.op = "delete" /\ q.at = "checked" /\ q.groups \cap groups # {}

(* What a form comes too late for: the row it read has been replaced, or a *)
(* group it names has been deleted since its page was made.                *)
Late(q, groups) ==
    (IF q.overtaken THEN {"revision"} ELSE {})
    \cup (IF groups \subseteq Existing THEN {} ELSE {"group"})

(* A slip: the revision stays. *)
SaveSameRevision(r, t, content, mode, groups, enabled) ==
    LET q == request[r]
        next == IF q.revision = 0 THEN 1 ELSE q.revision
        overtakes(p) == Overtakes(t, groups, p)
    IN /\ At(r, "form", "read") /\ q.template = {t} /\ groups \subseteq q.groups
       /\ q.revision = 0 => ~HasRow(t)
       /\ template' = [template EXCEPT ![t] = [revision |-> next, content |-> content,
                          mode |-> mode, groups |-> groups, enabled |-> enabled]]
       /\ raced' = raced \cup Late(q, groups)
       /\ EndWriting(r, overtakes)
       /\ UNCHANGED <<group, member, built>>

SaveTemplate(r, t, content, mode, groups, enabled) ==
    LET q == request[r]
        overtakes(p) == Overtakes(t, groups, p)
    IN /\ At(r, "form", "read") /\ q.template = {t} /\ groups \subseteq q.groups
       /\ q.revision < MaxRevision
       /\ q.revision = 0 => ~HasRow(t)      \* the name is unique in the schema
       /\ template' = [template EXCEPT ![t] = [revision |-> q.revision + 1, content |-> content,
                          mode |-> mode, groups |-> groups, enabled |-> enabled]]
       /\ raced' = raced \cup Late(q, groups)
       /\ EndWriting(r, overtakes)
       /\ UNCHANGED <<group, member, built>>

SetTemplateEnabled(t, enabled) ==
    /\ HasRow(t)
    /\ template' = [template EXCEPT ![t].enabled = enabled]
    /\ UNCHANGED <<group, member, built, request, raced>>

-----------------------------------------------------------------------------
(* CreateWorkspace. *)

(* templateAllowed, by the memberships `groups` of the user. *)
Allows(rules, groups) ==
    LET matched == rules.groups \cap groups # {}
    IN IF rules.mode = "include" THEN matched ELSE ~matched

(* A slip: the revision is left out. *)
ReadTemplateOnly(r, u, t) ==
    /\ HasRow(t) /\ template[t].enabled
    /\ Begin(r, [Idle EXCEPT !.op = "workspace", !.at = "read", !.user = {u}, !.template = {t},
                    !.content = {template[t].content},
                    !.mode = template[t].mode, !.groups = template[t].groups])
    /\ Unwritten

(* The row is read, and what the workspace will hold of it; then the       *)
(* memberships.                                                            *)
ReadTemplate(r, u, t) ==
    /\ HasRow(t) /\ template[t].enabled
    /\ Begin(r, [Idle EXCEPT !.op = "workspace", !.at = "read", !.user = {u}, !.template = {t},
                    !.revision = template[t].revision, !.content = {template[t].content},
                    !.mode = template[t].mode, !.groups = template[t].groups])
    /\ Unwritten

TemplateAllowed(r) ==
    LET q == request[r] IN
    /\ At(r, "workspace", "read")
    /\ \A u \in q.user : Allows(q, member[u])
    /\ request' = [request EXCEPT ![r] = [Idle EXCEPT !.op = "workspace", !.at = "checked",
             !.template = q.template, !.revision = q.revision, !.content = q.content]]
    /\ Unwritten

CreateWorkspace(r) ==
    LET q == request[r] IN
    /\ At(r, "workspace", "checked")
    /\ built' = built \cup [template : q.template, revision : {q.revision}, content : q.content]
    /\ EndWriting(r, NoneStale)
    /\ UNCHANGED <<group, member, template, raced>>

DeleteWorkspaces(s) ==
    /\ built' = built \ {s}
    /\ UNCHANGED <<group, member, template, request, raced>>

(* A check refuses, a statement fails, or the client leaves. *)
Abandon(r) ==
    /\ ~Ready(r)
    /\ request' = [request EXCEPT ![r] = Idle]
    /\ Unwritten

Next ==
    \/ \E g \in Group : CreateGroup(g)
    \/ \E r \in Request, u \in User, groups \in SUBSET Group :
          AskGroups(r, u, groups) \/ AskToAdd(r, u, groups)
    \/ \E r \in Request, u \in User, g \in Group : ListUserGroupIDs(r, u, g)
    \/ \E r \in Request : SetUserGroups(r) \/ AddUserGroups(r) \/ RemoveUserFromGroup(r)
    \/ \E r \in Request, g \in Group : AskDeleteGroup(r, g)
    \/ \E r \in Request : ListTemplates(r) \/ DeleteGroup(r)
    \/ \E r \in Request, t \in Template : LoadForm(r, t)
    \/ \E r \in Request : FindTemplate(r)
    \/ \E r \in Request, t \in Template, content \in Content, groups \in SUBSET Group,
          mode \in {"include", "exclude"}, enabled \in BOOLEAN :
          SaveTemplate(r, t, content, mode, groups, enabled)
    \/ \E t \in Template, enabled \in BOOLEAN : SetTemplateEnabled(t, enabled)
    \/ \E r \in Request, u \in User, t \in Template : ReadTemplate(r, u, t)
    \/ \E r \in Request : TemplateAllowed(r) \/ CreateWorkspace(r) \/ Abandon(r)
    \/ \E s \in built : DeleteWorkspaces(s)

Spec == Init /\ [][Next]_vars

-----------------------------------------------------------------------------
(* A workspace's template and revision say what it was built from          *)
(* (UpdateTemplate counts a revision with every change), but for forms of  *)
(* which two read the row before either replaced it.                       *)
RevisionNamesContent ==
    "revision" \in raced \/
    \A s, t \in built :
        s.template = t.template /\ s.revision = t.revision => s.content = t.content

(* Deleting a group opens a template to nobody (DeleteGroup refuses while  *)
(* a template names the group), unless a form named the group after its    *)
(* deletion, or between the look at the templates and the deletion.        *)
DeletionOpensNothing ==
    [][\A r \in Request : DeleteGroup(r) /\ "group" \notin raced' =>
          \A u \in User, t \in Template :
              Allows(template'[t], member'[u]) => Allows(template[t], member[u])]_vars

(* What the decision on groups promises: a template names no group that is *)
(* gone.  A form whose page is older than the deletion makes it do so.     *)
TemplatesNameGroups ==
    \A t \in Template : HasRow(t) => template[t].groups \subseteq Existing

(* For TLC. *)
Alike == Permutations(Request) \cup Permutations(Content)
             \cup Permutations(User) \cup Permutations(Group)

=============================================================================
