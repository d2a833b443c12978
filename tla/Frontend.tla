------------------------------ MODULE Frontend ------------------------------
(***************************************************************************)
(* The requests of the web interface that change something: submissions,   *)
(* redo and deletion of a firmware image, its comments, and the users and  *)
(* roles, which the console tool manage_users.py edits as well.  uWSGI     *)
(* serves requests in several processes and threads; a step is one session *)
(* of a database or one push to Redis.  The backend is left with what it   *)
(* does to the entry of the image and to its binary.                       *)
(***************************************************************************)
EXTENDS Naturals, Sequences, FiniteSets, SequencesExt

CONSTANTS
    Workers,        \* request threads
    Names,          \* user names
    ROLES,          \* the roles of privileges.py
    OtherRoles,     \* roles somebody created with the console tool
    Times,          \* seconds in which comments are posted
    MaxRequests     \* bound on the number of requests

ASSUME FrontendConstants ==
    /\ IsFiniteSet(Workers)
    /\ ROLES \cap OtherRoles = {} /\ "guest" \in ROLES
    /\ Times \subseteq Nat /\ MaxRequests \in Nat

VARIABLES
    image,      \* the firmware image: entry in the database, its comments, binary on disk
    tasks,      \* the Redis queues to the backend
    users,      \* table user: name -> primary key, 0 without an entry
    roleNames,  \* table role
    member,     \* table roles_users: <<primary key, role>> -> number of rows
    req,        \* the request a worker is in
    cli,        \* manage_users.py: off, at its prompt, with an action, or dead
    started,    \* number of requests and actions so far
    history     \* what the properties remember of the past

vars == <<image, tasks, users, roleNames, member, req, cli, started, history>>
userVars == <<users, roleNames, member>>

TaskTypes == {"analysis_task", "re_analyze_task", "update_task", "single_file_task",
              "file_delete_task"}
AllRoles == ROLES \cup OtherRoles
Keys == 1 .. MaxRequests
Idle == [step |-> "idle"]
Ready == [step |-> "ready"]
Off == [step |-> "off"]

Init ==
    /\ image = [stored |-> FALSE, comments |-> {}, disk |-> FALSE]
    /\ tasks = [t \in TaskTypes |-> <<>>]
    /\ users = [n \in Names |-> 0] /\ roleNames = {} /\ member = [m \in Keys \X AllRoles |-> 0]
    /\ req = [w \in Workers |-> Idle] /\ cli = Off
    /\ started = 0
    /\ history = [posted |-> {}, uncommented |-> {}, uploaded |-> FALSE, deleted |-> FALSE,
                  rewritten |-> FALSE, crashed |-> FALSE, overlap |-> FALSE, userOverlap |-> FALSE]

UserSteps == {"add_user", "check_roles", "edit_roles"}
UserActivity ==
    {<<w>> : w \in {v \in Workers : req[v].step \in UserSteps}}
    \cup {<<"tool", step>> : step \in {cli.step} \cap {"write"}}
ImageActivity ==
    {<<w>> : w \in {v \in Workers : req[v].step \notin UserSteps \cup {"idle"}}}
    \cup UNION {{<<t, i>> : i \in DOMAIN tasks[t]} : t \in TaskTypes}

\* Bookkeeping for the properties: what else was under way?
Watch(h) ==
    history' = [h EXCEPT
        !.overlap = @ \/ Cardinality(ImageActivity') > 1,
        !.userOverlap = @ \/ Cardinality(UserActivity') > 1]

\* A worker without a request gets one.
Receive(w) == req[w].step = "idle" /\ started < MaxRequests /\ started' = started + 1
Answer(w) == req' = [req EXCEPT ![w] = Idle]
Push(type, task) == tasks' = [tasks EXCEPT ![type] = Append(@, task)]

-----------------------------------------------------------------------------
(* Submissions *)

\* The form: a field that is not optional is empty, or nothing is.
CheckForErrors(form) == form # "complete"

\* post_upload.  Without a file the task has no binary: _get_uid_of_analysis_task
\* ends in a KeyError before check_for_errors can report it.
PostUpload(w, form) ==
    /\ Receive(w)
    /\ IF form = "no file" \/ CheckForErrors(form) THEN UNCHANGED tasks ELSE Push("analysis_task", {})
    /\ UNCHANGED <<image, userVars, req, cli>>
    /\ Watch(IF tasks' = tasks THEN history
             ELSE [history EXCEPT !.uploaded = TRUE, !.rewritten = @ \/ image.stored])

\* get_object: nothing found is an error page or, without a check, an AttributeError.
Submit(w, type, form) ==
    /\ Receive(w)
    /\ req' = IF CheckForErrors(form) \/ ~image.stored THEN req
              ELSE [req EXCEPT ![w] = [step |-> "send", type |-> type, comments |-> image.comments]]
    /\ UNCHANGED <<image, tasks, userVars, cli>> /\ Watch(history)

PostUpdateAnalysis(w, form) == Submit(w, "update_task", form)
StartSingleFileAnalysis(w) == Submit(w, "single_file_task", "complete")
\* The REST request: with "unpacker" among the plugins the image is unpacked again.
UpdateAnalysis(w, unpack) == Submit(w, IF unpack THEN "re_analyze_task" ELSE "update_task", "complete")

SendTask(w) ==
    /\ req[w].step = "send"
    /\ Push(req[w].type, req[w].comments)
    /\ Answer(w)
    /\ UNCHANGED <<image, userVars, cli, started>>
    /\ Watch([history EXCEPT !.rewritten = @ \/ req[w].type = "re_analyze_task"])

\* Mutant: the task is sent first.
RedoSendFirst(w, form) ==
    /\ Receive(w)
    /\ IF CheckForErrors(form)
         THEN UNCHANGED <<tasks, req>>
         ELSE /\ Push("re_analyze_task", {})
              /\ req' = [req EXCEPT ![w] = [step |-> "delete"]]
    /\ UNCHANGED <<image, userVars, cli>>
    /\ Watch([history EXCEPT !.rewritten = @ \/ req' # req])

\* redo: the entry is deleted, its binary stays, and a new one is submitted.
RedoAnalysis(w, form) ==
    /\ Receive(w)
    /\ IF CheckForErrors(form)
         THEN UNCHANGED <<image, req>>
         ELSE /\ image' = [image EXCEPT !.stored = FALSE, !.comments = {}]
              /\ req' = [req EXCEPT ![w] = [step |-> "send", type |-> "re_analyze_task", comments |-> {}]]
    /\ UNCHANGED <<tasks, userVars, cli>>
    /\ Watch([history EXCEPT !.rewritten = @ \/ req' # req])

\* delete_firmware: is it there, its entry, then its binary.
CheckFirmware(w) ==
    /\ Receive(w)
    /\ req' = IF image.stored THEN [req EXCEPT ![w] = [step |-> "delete"]] ELSE req
    /\ UNCHANGED <<image, tasks, userVars, cli>>
    /\ Watch([history EXCEPT !.deleted = @ \/ image.stored])

DeleteFirmware(w) ==
    /\ req[w].step = "delete"
    /\ image' = [image EXCEPT !.stored = FALSE, !.comments = {}]
    /\ req' = [req EXCEPT ![w] = IF image.stored
                                   THEN [step |-> "send", type |-> "file_delete_task", comments |-> {}]
                                   ELSE Idle]
    /\ UNCHANGED <<tasks, userVars, cli, started>>
    /\ Watch([history EXCEPT !.rewritten = TRUE])

\* The backend takes a task.  add_object writes the comments of the object it was
\* given; an update writes analyses only; the binary of an image in the database
\* is not deleted.
BackEnd(type) ==
    /\ tasks[type] # <<>>
    /\ tasks' = [tasks EXCEPT ![type] = Tail(@)]
    /\ image' =
         CASE type = "analysis_task" ->
                [stored |-> TRUE, comments |-> Head(tasks[type]), disk |-> TRUE]
           [] type = "re_analyze_task" /\ image.disk ->
                [image EXCEPT !.stored = TRUE, !.comments = Head(tasks[type])]
           [] type = "file_delete_task" /\ ~image.stored -> [image EXCEPT !.disk = FALSE]
           [] OTHER -> image
    /\ UNCHANGED <<userVars, req, cli, started>>
    /\ Watch(history)

-----------------------------------------------------------------------------
(* Comments: the session reads the list and writes a new one *)

\* add_comment_to_object and delete_comment: session.get
ReadComments(w, op, time) ==
    /\ Receive(w)
    /\ req' = IF ~image.stored THEN req
              ELSE [req EXCEPT ![w] = [step |-> op, time |-> time, id |-> started',
                                       comments |-> image.comments]]
    /\ UNCHANGED <<image, tasks, userVars, cli>>
    /\ Watch(history)

NewComment(r) == [id |-> r.id, time |-> r.time]

\* commit: an entry that is gone is an error.
AddComment(w) ==
    LET r == req[w] IN
    /\ r.step = "comment"
    /\ image' = IF image.stored THEN [image EXCEPT !.comments = r.comments \cup {NewComment(r)}] ELSE image
    /\ Answer(w)
    /\ UNCHANGED <<tasks, userVars, cli, started>>
    /\ Watch(IF image.stored THEN [history EXCEPT !.posted = @ \cup {NewComment(r)}] ELSE history)

\* A list that stays the same is not written.
DeleteComment(w) ==
    LET r == req[w]
        rest == {c \in r.comments : c.time # r.time}
    IN
    /\ r.step = "delete_comment"
    /\ image' = IF image.stored /\ rest # r.comments THEN [image EXCEPT !.comments = rest] ELSE image
    /\ Answer(w)
    /\ UNCHANGED <<tasks, userVars, cli, started>>
    /\ Watch([history EXCEPT !.uncommented = @ \cup {c \in r.comments : c.time = r.time}])

-----------------------------------------------------------------------------
(* Users and roles *)

imageVars == <<image, tasks>>
RolesOf(key) == {r \in AllRoles : member[<<key, r>>] > 0}
InsertUser(n, key, roles) ==
    /\ users' = [users EXCEPT ![n] = key]
    /\ member' = [m \in DOMAIN member |-> IF m[1] = key /\ m[2] \in roles THEN 1 ELSE member[m]]

\* _add_user: user_exists, then the insert, which the unique name may refuse.
UserExists(w, n) ==
    /\ Receive(w)
    /\ req' = IF users[n] # 0 THEN req ELSE [req EXCEPT ![w] = [step |-> "add_user", name |-> n, key |-> started']]
    /\ UNCHANGED <<imageVars, userVars, cli>> /\ Watch(history)

AddUser(w) ==
    /\ req[w].step = "add_user"
    /\ IF users[req[w].name] # 0 THEN UNCHANGED <<users, member>> ELSE InsertUser(req[w].name, req[w].key, {})
    /\ Answer(w)
    /\ UNCHANGED <<imageVars, roleNames, cli, started>> /\ Watch(history)

\* _edit_roles: the roles the user has are read ...
FindUser(w, n, selected) ==
    /\ Receive(w)
    /\ LET current == RolesOf(users[n]) \cap ROLES IN
       req' = IF users[n] = 0 THEN req
              ELSE [req EXCEPT ![w] = [step |-> "check_roles", key |-> users[n], new |-> {},
                                       added |-> selected \ current, removed |-> current \ selected]]
    /\ UNCHANGED <<imageVars, userVars, cli>> /\ Watch(history)

\* ... then which of the added roles are in the table ...
RoleExists(w) ==
    /\ req[w].step = "check_roles"
    /\ req' = [req EXCEPT ![w].step = "edit_roles", ![w].new = req[w].added \ roleNames]
    /\ UNCHANGED <<imageVars, userVars, cli, started>> /\ Watch(history)

\* ... and all is committed, or nothing: a role that was created in the meantime
\* breaks the unique name, and a membership that is not exactly one row cannot be
\* deleted (StaleDataError).
CanDelete(key, roles) == \A r \in roles : member[<<key, r>>] = 1
Refused(r) == r.new \cap roleNames # {} \/ ~CanDelete(r.key, r.removed)
Edited(key, added, removed) ==
    [m \in DOMAIN member |->
        IF m[1] # key THEN member[m]
        ELSE IF m[2] \in added THEN member[m] + 1
        ELSE IF m[2] \in removed THEN 0 ELSE member[m]]

\* Mutant: what is not selected is not removed but added again.
EditAllRoles(w) ==
    LET r == req[w] IN
    /\ r.step = "edit_roles"
    /\ IF Refused(r) THEN UNCHANGED <<roleNames, member>>
       ELSE roleNames' = roleNames \cup r.new /\ member' = Edited(r.key, r.added \cup r.removed, {})
    /\ Answer(w)
    /\ UNCHANGED <<imageVars, users, cli, started>> /\ Watch(history)

EditRoles(w) ==
    LET r == req[w] IN
    /\ r.step = "edit_roles"
    /\ IF Refused(r) THEN UNCHANGED <<roleNames, member>>
       ELSE roleNames' = roleNames \cup r.new /\ member' = Edited(r.key, r.added, r.removed)
    /\ Answer(w)
    /\ UNCHANGED <<imageVars, users, cli, started>> /\ Watch(history)

RemoveUser(n) ==
    /\ users' = [users EXCEPT ![n] = 0]
    /\ member' = [m \in DOMAIN member |-> IF m[1] = users[n] THEN 0 ELSE member[m]]
CanRemove(n) == users[n] # 0 /\ CanDelete(users[n], RolesOf(users[n]))

DeleteUser(w, n) ==
    /\ Receive(w)
    /\ IF CanRemove(n) THEN RemoveUser(n) ELSE UNCHANGED <<users, member>>
    /\ UNCHANGED <<imageVars, roleNames, req, cli>>
    /\ Watch([history EXCEPT !.userOverlap = @ \/ UserActivity # {}])

-----------------------------------------------------------------------------
(* manage_users.py *)

\* prompt_loop and initialise_roles
StartTool ==
    /\ cli = Off
    /\ roleNames' = roleNames \cup ROLES
    /\ cli' = Ready
    /\ UNCHANGED <<imageVars, users, member, req, started>>
    /\ Watch([history EXCEPT !.userOverlap = @ \/ UserActivity # {}])

Exit ==
    /\ cli = Ready
    /\ cli' = Off
    /\ UNCHANGED <<imageVars, userVars, req, started>> /\ Watch(history)

\* The answers to the prompts are checked with lists that were read before.
Valid(action, n, r) ==
    CASE action = "create_user" -> users[n] = 0
      [] action = "delete_user" -> users[n] # 0
      [] action = "create_role" -> r \notin roleNames
      [] action = "add_role_to_user" -> users[n] # 0 /\ r \in roleNames
      [] action = "remove_role_from_user" -> users[n] # 0 /\ r \in RolesOf(users[n])

Prompt(action, n, r) ==
    /\ cli = Ready /\ started < MaxRequests /\ Valid(action, n, r)
    /\ started' = started + 1
    /\ cli' = [step |-> "write", action |-> action, name |-> n, role |-> r, key |-> started']
    /\ UNCHANGED <<imageVars, userVars, req>> /\ Watch(history)

\* Only AssertionErrors are caught: what the database refuses ends the tool.
Refuses(c) ==
    CASE c.action = "create_user" -> users[c.name] # 0
      [] c.action = "delete_user" -> ~CanRemove(c.name)
      [] c.action = "create_role" -> FALSE
      [] c.action = "add_role_to_user" -> users[c.name] = 0
      [] c.action = "remove_role_from_user" ->
            users[c.name] = 0 \/ member[<<users[c.name], c.role>>] > 1
Write ==
    /\ cli.step = "write"
    /\ LET key == users[cli.name] IN
       IF Refuses(cli) THEN UNCHANGED userVars
       ELSE CASE cli.action = "create_user" -> InsertUser(cli.name, cli.key, {"guest"}) /\ UNCHANGED roleNames
              [] cli.action = "delete_user" -> RemoveUser(cli.name) /\ UNCHANGED roleNames
              [] cli.action = "create_role" ->
                    roleNames' = roleNames \cup {cli.role} /\ UNCHANGED <<users, member>>
              [] cli.action = "add_role_to_user" ->
                    /\ member' = Edited(key, {cli.role} \ RolesOf(key), {})
                    /\ UNCHANGED <<users, roleNames>>
              [] cli.action = "remove_role_from_user" ->
                    member' = Edited(key, {}, {cli.role}) /\ UNCHANGED <<users, roleNames>>
    /\ cli' = IF Refuses(cli) THEN [step |-> "dead"] ELSE Ready
    /\ UNCHANGED <<imageVars, req, started>> /\ Watch(history)

-----------------------------------------------------------------------------
\* uWSGI kills a worker in the middle of a request and starts another one.
Respawn(w) ==
    /\ req[w].step # "idle" /\ ~history.crashed
    /\ Answer(w)
    /\ UNCHANGED <<imageVars, userVars, cli, started>>
    /\ Watch([history EXCEPT !.crashed = TRUE])

Forms == {"complete", "incomplete", "no file"}
CliActions == {"create_user", "delete_user", "create_role", "add_role_to_user", "remove_role_from_user"}

Steps(w) ==
    \/ SendTask(w) \/ DeleteFirmware(w) \/ AddComment(w) \/ DeleteComment(w)
    \/ AddUser(w) \/ RoleExists(w) \/ EditRoles(w)

Requests(w) ==
    \/ \E form \in Forms : PostUpload(w, form)
    \/ \E form \in {"complete", "incomplete"} : PostUpdateAnalysis(w, form) \/ RedoAnalysis(w, form)
    \/ StartSingleFileAnalysis(w)
    \/ \E unpack \in BOOLEAN : UpdateAnalysis(w, unpack)
    \/ CheckFirmware(w)
    \/ \E op \in {"comment", "delete_comment"}, t \in Times : ReadComments(w, op, t)
    \/ \E n \in Names : UserExists(w, n) \/ DeleteUser(w, n)
    \/ \E n \in Names, S \in SUBSET ROLES : FindUser(w, n, S)

Next ==
    \/ \E w \in Workers : Requests(w) \/ Steps(w) \/ Respawn(w)
    \/ \E type \in TaskTypes : BackEnd(type)
    \/ StartTool \/ Exit \/ Write
    \/ \E a \in CliActions, n \in Names, r \in AllRoles : Prompt(a, n, r)

\* A request that was begun goes on, and the backend takes its tasks.
Fairness ==
    /\ \A w \in Workers : WF_vars(Steps(w))
    /\ \A type \in TaskTypes : WF_vars(BackEnd(type))
Spec == Init /\ [][Next]_vars /\ Fairness

-----------------------------------------------------------------------------
(* Properties *)

TypeOK ==
    /\ image.stored \in BOOLEAN /\ image.disk \in BOOLEAN
    /\ users \in [Names -> 0 .. MaxRequests]
    /\ roleNames \subseteq AllRoles
    /\ member \in [Keys \X AllRoles -> Nat]
    /\ cli.step \in {"off", "ready", "write", "dead"}

\* Edits are not lost as long as nothing overlaps.  The comments of an image are those
\* that were posted and not deleted, unless it is submitted anew: add_object overwrites
\* the comments, and of two sessions that edit the list the last one wins.  And every
\* membership is one row of a user that exists, and the console tool is alive: the
\* checks of names, roles and memberships are not in the session that writes.
CommentsKept ==
    (ImageActivity = {} /\ ~history.overlap /\ ~history.rewritten /\ image.stored) =>
        image.comments = history.posted \ history.uncommented

MembershipsSound ==
    history.userOverlap \/
        /\ cli.step # "dead"
        /\ \A m \in DOMAIN member : member[m] <= 1 /\ (member[m] = 1 => \E n \in Names : users[n] = m[1])
        /\ \A m \in DOMAIN member : member[m] = 1 => m[2] \in roleNames

EditsKept == TypeOK /\ CommentsKept /\ MembershipsSound

\* An image that was submitted is in the database in the end if nobody deletes it,
\* whatever requests to update and redo its analysis overlap; only the end of a
\* worker between the deletion and the new task of a redo loses it.
ImageComesBack ==
    [](history.uploaded => <>(image.stored \/ history.deleted \/ history.crashed))
=============================================================================
