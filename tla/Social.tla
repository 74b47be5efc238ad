------------------------------- MODULE Social -------------------------------
(***************************************************************************)
(* Friends and friend groups (services/social/friend and friendgroup).     *)
(*                                                                         *)
(* A friendship is a pair of rows, a chat workspace and two bindings of    *)
(* that workspace in the access control lists; a group is a record, a      *)
(* workspace and, for each member, a record under the group, one under the *)
(* member and a binding.  They live in different stores.  A call writes    *)
(* them one by one and undoes by hand what it has done when a write fails. *)
(* Handlers run concurrently and take no lock.                             *)
(*                                                                         *)
(* One friendship and one group.  A call is a record of who makes it, whom *)
(* it is about and the role it asks for; every access to a store is a step *)
(* of its own, and a write may fail.  A call of an administrator goes      *)
(* through the steps of the peers' call, without its tests of roles.       *)
(***************************************************************************)
EXTENDS Naturals, FiniteSets

CONSTANTS Peers, Owner, Pair,  \* who may make the group, the two friends
          Handlers,     \* the goroutines that serve calls, one call at a time
          MaxCalls,     \* bound: requests
          MaxFaults     \* bound: failing writes

ASSUME SocialAssumption ==
  /\ Owner \in Peers /\ Pair \subseteq Peers /\ IsFiniteSet(Pair) /\ Cardinality(Pair) = 2
  /\ MaxCalls \in Nat /\ MaxFaults \in Nat

VARIABLES
  db,        \* the stores
  call,      \* handler -> its request, what it does next and what it has read
  calls,     \* requests so far
  unborn,    \* the group has not been made yet
  faults,    \* writes that failed
  clash,     \* which calls about one subject have overlapped
  unfinished, \* a write of a deletion or of a rollback has failed
  overtaken  \* history: the handlers whose subject another call has made an
             \* owner since they took up their call

handlerVars == <<db, call, calls, unborn, faults, clash, unfinished>>
socialVars == <<handlerVars, overtaken>>

-----------------------------------------------------------------------------
Roles == {"owner", "admin", "member"}
None == "none"
Chats == {"direct", "group"}
Sweeps == {"e_belongs", "e_bindings"}
NoList == [s \in Sweeps |-> {}]
RequestKinds ==
  {"add_friend", "delete_friend", "create", "invite", "join", "add", "put", "remove", "delete"}
FriendKinds == {"add_friend", "delete_friend"}
AdminKinds == {"create", "invite", "add", "remove", "delete"}
\* admin: the call comes from the admin service and is made in no peer's name.
Request == [kind : RequestKinds, who : Peers, about : Peers, role : Roles, admin : BOOLEAN]
NoRequest == [kind |-> None, who |-> Owner, about |-> Owner, role |-> "member", admin |-> FALSE]

\* The steps of the handlers: a call is at the step it takes next, at first at
\* that of its kind.
HandlerSteps ==
  {"idle"} \cup RequestKinds \cup
  {"f_workspace", "f_grant1", "f_grant2", "f_undo", "f_rows", "f_revoke1", "f_revoke2",
   "x_revoke1", "x_revoke2", "x_workspace", "x_rows",
   "m_read", "m_member", "m_belong", "i_member", "i_belong",
   "m_group", "m_grant", "m_get", "m_revoke", "r_member", "r_belong", "a_target", "p_target",
   "d_role", "d_member", "d_belong", "d_back", "d_group", "d_revoke",
   "g_grant", "g_record", "g_owner", "g_undo", "g_undo2", "g_undo3", "n_token",
   "e_list", "e_members", "e_belongs", "e_token", "e_bindings", "e_workspace", "e_record"}

\* role: what writeMember writes.  prior: the member's role as the handler read
\* it.  found: writeMember found the member.  made: the call made the workspace.
\* list: the members that the two sweeps of a deletion have still to do.
CallFields ==
  [req : Request \cup {NoRequest}, pc : HandlerSteps, role : Roles \cup {None},
   prior : Roles \cup {None}, found : BOOLEAN, made : BOOLEAN,
   list : [Sweeps -> SUBSET Peers]]
Idle ==
  [req |-> NoRequest, pc |-> "idle", role |-> None, prior |-> None,
   found |-> FALSE, made |-> FALSE, list |-> NoList]

Stores ==
  [ws : SUBSET Chats, bind : [Chats -> SUBSET Peers], rows : BOOLEAN, group : BOOLEAN,
   token : BOOLEAN, members : [Peers -> Roles \cup {None}], belongs : [Peers -> Roles \cup {None}]]

Empty ==
  [ws |-> {}, bind |-> [x \in Chats |-> {}], rows |-> FALSE, group |-> FALSE, token |-> FALSE,
   members |-> [p \in Peers |-> None], belongs |-> [p \in Peers |-> None]]
\* The group with an invitation and whatever members; administrators appoint as
\* many owners as they like, or none.
Established(m) ==
  [Empty EXCEPT !.ws = {"group"}, !.group = TRUE, !.token = TRUE, !.members = m, !.belongs = m,
                !.bind["group"] = {p \in Peers : m[p] # None}]

SocialInit ==
  /\ \/ db = Empty /\ unborn = TRUE
     \/ unborn = FALSE /\ \E m \in [Peers -> Roles \cup {None}] : db = Established(m)
  /\ call = [c \in Handlers |-> Idle]
  /\ calls = 0
  /\ faults = 0
  /\ clash = None
  /\ unfinished = FALSE
  /\ overtaken = {}

Busy == {c \in Handlers : call[c] # Idle}
Kind(c) == call[c].req.kind
Who(c) == call[c].req.who
About(c) == call[c].req.about
ByAdmin(c) == call[c].req.admin

\* Two requests are about the same records.
SameSubject(a, b) ==
  \/ a.kind \in FriendKinds /\ b.kind \in FriendKinds
  \/ /\ a.kind \notin FriendKinds /\ b.kind \notin FriendKinds
     /\ a.about = b.about \/ "delete" \in {a.kind, b.kind}
\* Making the same friendship, or joining, twice.
SameAddition(a, b) == a.kind = b.kind /\ a.kind \in {"add_friend", "join"}

\* What is asked.  Join is about its caller and friends are the two peers of
\* Pair; only an administrator appoints an owner.
Asked ==
  {r \in Request :
     /\ r.kind \in {"join", "create", "invite", "delete"} => r.about = r.who
     /\ r.kind = "create" => r.who = Owner
     /\ r.kind \in FriendKinds => {r.who, r.about} = Pair
     /\ r.kind \notin {"add", "put"} => r.role = "member"
     /\ r.role = "owner" => r.admin
     /\ r.admin => r.kind \in AdminKinds /\ r.who = Owner}

\* A request arrives.  The group gets its random id from its creation, which
\* nobody knows before the creation returns.
Receive(c, r) ==
  /\ calls < MaxCalls /\ calls' = calls + 1
  /\ call[c] = Idle
  /\ r.kind = "create" => unborn
  /\ r.kind \notin FriendKinds \cup {"create"} => ~unborn /\ \A d \in Busy : Kind(d) # "create"
  /\ call' = [call EXCEPT ![c] = [Idle EXCEPT !.req = r, !.pc = r.kind]]
  /\ unborn' = (unborn /\ r.kind # "create")
  /\ clash' = LET others == {call[d].req : d \in Busy} IN
              IF \E o \in others : SameSubject(r, o) /\ ~SameAddition(r, o) THEN "mixed"
              ELSE IF clash = None /\ \E o \in others : SameSubject(r, o) THEN "additions" ELSE clash
  /\ UNCHANGED <<db, faults, unfinished>>

\* The call goes on at l with the fields of to; at "idle" it has returned.
Continue(c, l, to) ==
  call' = [call EXCEPT ![c] = IF l = "idle" THEN Idle ELSE [to EXCEPT !.pc = l]]
Proceed(c, l) == Continue(c, l, call[c])
At(c, l) == call[c].pc = l

\* The writes by which a handler takes back what it has done.
Rollbacks ==
  {"f_undo", "f_revoke1", "f_revoke2", "i_member", "i_belong", "m_revoke", "r_member", "r_belong",
   "d_back", "g_undo", "g_undo2", "g_undo3"}

\* A write of c fails.
Fault(c) ==
  /\ faults < MaxFaults /\ faults' = faults + 1
  /\ unfinished' = (unfinished \/ Kind(c) \in {"delete_friend", "delete"} \/ call[c].pc \in Rollbacks)
  /\ UNCHANGED db

\* One write: it takes effect and the call goes on at ok, or it fails and the
\* call goes on at bad.
Write(c, at, new, ok, bad) ==
  /\ At(c, at)
  /\ \/ db' = new /\ Proceed(c, ok) /\ UNCHANGED <<faults, unfinished>>
     \/ Fault(c) /\ Proceed(c, bad)
  /\ UNCHANGED <<calls, unborn, clash>>

\* One read that decides where the call goes on, with what it keeps of it.
ReadInto(c, at, next, to) ==
  /\ At(c, at)
  /\ Continue(c, next, to)
  /\ UNCHANGED <<db, calls, unborn, faults, clash, unfinished>>
Read(c, at, next) == ReadInto(c, at, next, call[c])

\* The workspace service and the bindings.  A workspace that exists is fine.
MakeWorkspace(c, at, chat, ok) ==
  /\ At(c, at)
  /\ \/ /\ db' = [db EXCEPT !.ws = @ \cup {chat}]
        /\ Continue(c, ok, [call[c] EXCEPT !.made = chat \notin db.ws])
        /\ UNCHANGED <<faults, unfinished>>
     \/ Fault(c) /\ Proceed(c, "idle")
  /\ UNCHANGED <<calls, unborn, clash>>
Without(chat) == [db EXCEPT !.ws = @ \ {chat}]
Granted(chat, p) == [db EXCEPT !.bind[chat] = @ \cup {p}]
Revoked(chat, p) == [db EXCEPT !.bind[chat] = @ \ {p}]

-----------------------------------------------------------------------------
(* Friends                                                                 *)

\* findInviteToken and GetFriendRelation: no valid token, friends already, or on.
AddFriendCheck(c) ==
  \/ Read(c, "add_friend", "idle")
  \/ ~db.rows /\ Read(c, "add_friend", "f_workspace")

\* Mutant of AddFriendRows: the rollback forgets the bindings.
AddFriendRowsKeepsBindings(c) ==
  \/ Write(c, "f_rows", [db EXCEPT !.rows = TRUE], "idle", "f_undo")
  \/ Write(c, "f_revoke1", Revoked("direct", Who(c)), "f_revoke2", "f_undo")
  \/ Write(c, "f_revoke2", Revoked("direct", About(c)), "f_undo", "f_undo")

\* ensureDirectChatWorkspace: a grant that fails leaves the one before it.
AddFriendWorkspace(c) ==
  \/ MakeWorkspace(c, "f_workspace", "direct", "f_grant1")
  \/ Write(c, "f_grant1", Granted("direct", Who(c)), "f_grant2", "f_undo")
  \/ Write(c, "f_grant2", Granted("direct", About(c)), "f_rows", "f_undo")
  \/ call[c].made /\ Write(c, "f_undo", Without("direct"), "idle", "idle")
  \/ ~call[c].made /\ Read(c, "f_undo", "idle")

\* createFriendRows writes both rows in one batch; else the rollback: both
\* bindings, as far as the first error, and the workspace.
AddFriendRows(c) ==
  \/ Write(c, "f_rows", [db EXCEPT !.rows = TRUE], "idle", "f_revoke1")
  \/ Write(c, "f_revoke1", Revoked("direct", Who(c)), "f_revoke2", "f_undo")
  \/ Write(c, "f_revoke2", Revoked("direct", About(c)), "f_undo", "f_undo")

\* The bindings, the workspace, the rows; any error ends it.
DeleteFriend(c) ==
  \/ Read(c, "delete_friend", IF db.rows THEN "x_revoke1" ELSE "idle")
  \/ Write(c, "x_revoke1", Revoked("direct", Who(c)), "x_revoke2", "idle")
  \/ Write(c, "x_revoke2", Revoked("direct", About(c)), "x_workspace", "idle")
  \/ Write(c, "x_workspace", Without("direct"), "x_rows", "idle")
  \/ Write(c, "x_rows", [db EXCEPT !.rows = FALSE], "idle", "idle")

-----------------------------------------------------------------------------
(* Members                                                                 *)

Member(p, r) == [db EXCEPT !.members[p] = r]
Belong(p, r) == [db EXCEPT !.belongs[p] = r]

\* The handler goes on to write the member with role r.
ToWriteMember(c, at, r) ==
  ReadInto(c, at, "m_read", [call[c] EXCEPT !.role = r, !.prior = db.members[About(c)]])

\* AdminPutFriendGroupMember has read the workspace of the group before.
AfterMember(c) ==
  CASE Kind(c) \in {"create", "put"} -> "idle"
    [] Kind(c) = "add" /\ ByAdmin(c) -> "m_grant"
    [] OTHER -> "m_group"
MemberFailed(c) == IF Kind(c) = "create" THEN "g_undo" ELSE "idle"

\* What writeMember restores.  A record that it found has got the new role by
\* then: current.Role is assigned before the writes.
Undone(c) == IF call[c].found THEN call[c].role ELSE None

\* writeMember: it reads the member once more, writes its two records and calls
\* restoreMember if the second cannot be written.
WriteMember(c) ==
  \/ ReadInto(c, "m_read", "m_member", [call[c] EXCEPT !.found = db.members[About(c)] # None])
  \/ Write(c, "m_member", Member(About(c), call[c].role), "m_belong", MemberFailed(c))
  \/ Write(c, "m_belong", Belong(About(c), call[c].role), AfterMember(c), "i_member")
  \/ Write(c, "i_member", Member(About(c), Undone(c)), "i_belong", "i_belong")
  \/ Write(c, "i_belong", Belong(About(c), Undone(c)), MemberFailed(c), MemberFailed(c))

\* What follows in JoinFriendGroup, AddFriendGroupMember and
\* AdminPutFriendGroupMember: the workspace of the group, the binding and, for
\* a join, the group as the peer sees it.
GrantMember(c) ==
  \/ Read(c, "m_group", IF db.group THEN "m_grant" ELSE "r_member")
  \/ Write(c, "m_grant", Granted("group", About(c)),
           IF Kind(c) = "join" THEN "m_get" ELSE "idle", "r_member")
  \/ Read(c, "m_get", IF db.group /\ db.members[About(c)] # None THEN "idle" ELSE "m_revoke")
  \/ Write(c, "m_revoke", Revoked("group", About(c)), "r_member", "r_member")

\* Mutant of RestoreMember: writes what was read even if nothing was found.
RestoreMemberWritesZero(c) ==
  LET r == IF call[c].prior = None THEN "" ELSE call[c].prior IN
  \/ Write(c, "r_member", Member(About(c), r), "r_belong", "r_belong")
  \/ Write(c, "r_belong", Belong(About(c), r), "idle", "idle")

\* restoreMember with what the handler read; its errors are dropped.
RestoreMember(c) ==
  \/ Write(c, "r_member", Member(About(c), call[c].prior), "r_belong", "r_belong")
  \/ Write(c, "r_belong", Belong(About(c), call[c].prior), "idle", "idle")

\* JoinFriendGroup with a valid token: a member already, or a new one.
Join(c) ==
  \/ Read(c, "join", "idle")
  \/ /\ db.token /\ db.members[Who(c)] = None
     /\ ToWriteMember(c, "join", "member")

\* requireRole or requireAdmin of the caller; an administrator needs the group.
MayAppoint(c) ==
  db.members[Who(c)] \in (IF call[c].req.role = "admin" THEN {"owner"} ELSE {"owner", "admin"})
MayAdd(c) == IF ByAdmin(c) THEN db.group ELSE MayAppoint(c)

\* Mutant of AddMember: the owner may be given another role.
AddMemberAnyRole(c) ==
  \/ Read(c, "add", IF MayAdd(c) THEN "a_target" ELSE "idle")
  \/ ToWriteMember(c, "a_target", call[c].req.role)

\* AddFriendGroupMember, and AdminPutFriendGroupMember, which changes the role
\* of an owner too.
AddMember(c) ==
  \/ Read(c, "add", IF MayAdd(c) THEN "a_target" ELSE "idle")
  \/ ~ByAdmin(c) /\ db.members[About(c)] = "owner" /\ Read(c, "a_target", "idle")
  \/ /\ ByAdmin(c) \/ db.members[About(c)] # "owner"
     /\ ToWriteMember(c, "a_target", call[c].req.role)

PutMember(c) ==
  \/ Read(c, "put", IF db.members[Who(c)] = "owner" THEN "p_target" ELSE "idle")
  \/ db.members[About(c)] \in {"owner", None} /\ Read(c, "p_target", "idle")
  \/ /\ db.members[About(c)] \notin {"owner", None}
     /\ ToWriteMember(c, "p_target", call[c].req.role)

MayRemove(c) ==
  \/ ByAdmin(c)
  \/ IF call[c].prior = "admin" THEN db.members[Who(c)] = "owner"
     ELSE Who(c) = About(c) \/ db.members[Who(c)] \in {"owner", "admin"}

\* DeleteFriendGroupMember and AdminDeleteFriendGroupMember: the member's record,
\* the record under the peer, the binding.  Every error puts back what has been
\* removed.
Removable(c) == {"admin", "member"} \cup (IF ByAdmin(c) THEN {"owner"} ELSE {})
RemoveMember(c) ==
  \/ db.members[About(c)] \notin Removable(c) /\ Read(c, "remove", "idle")
  \/ /\ db.members[About(c)] \in Removable(c)
     /\ ReadInto(c, "remove", "d_role", [call[c] EXCEPT !.prior = db.members[About(c)]])
  \/ Read(c, "d_role", IF MayRemove(c) THEN "d_member" ELSE "idle")
  \/ Write(c, "d_member", Member(About(c), None), "d_belong", "idle")
  \/ Write(c, "d_belong", Belong(About(c), None), "d_group", "d_back")
  \/ Write(c, "d_back", Member(About(c), call[c].prior), "idle", "idle")
  \/ Read(c, "d_group", IF db.group THEN "d_revoke" ELSE "r_member")
  \/ Write(c, "d_revoke", Revoked("group", About(c)), "idle", "r_member")

-----------------------------------------------------------------------------
(* Groups                                                                  *)

\* AdminCreateFriendGroup leaves out the steps that make somebody the owner.
ForOwner(c, l, next) == IF ByAdmin(c) THEN next ELSE l

\* CreateFriendGroup up to its owner's member record, and its rollback; what was
\* not written is not there to remove.
CreateGroup(c) ==
  \/ MakeWorkspace(c, "create", "group", ForOwner(c, "g_grant", "g_record"))
  \/ Write(c, "g_grant", Granted("group", Who(c)), "g_record", "g_undo")
  \/ Write(c, "g_record", [db EXCEPT !.group = TRUE], ForOwner(c, "g_owner", "idle"), "g_undo")
  \/ ToWriteMember(c, "g_owner", "owner")
  \/ Write(c, "g_undo", Without("group"), ForOwner(c, "g_undo2", "idle"), ForOwner(c, "g_undo2", "idle"))
  \/ Write(c, "g_undo2", Revoked("group", Who(c)), "g_undo3", "g_undo3")
  \/ Write(c, "g_undo3", [db EXCEPT !.group = FALSE], "idle", "idle")

\* CreateFriendGroupInviteToken by an owner, AdminPutFriendGroupInviteToken.
MayInvite(c) == IF ByAdmin(c) THEN db.group ELSE db.members[Who(c)] = "owner"
Invite(c) ==
  \/ Read(c, "invite", IF MayInvite(c) THEN "n_token" ELSE "idle")
  \/ Write(c, "n_token", [db EXCEPT !.token = TRUE], "idle", "idle")

\* The token expires or is cleared.
TokenGone ==
  /\ db.token
  /\ db' = [db EXCEPT !.token = FALSE]
  /\ UNCHANGED <<call, calls, unborn, faults, clash, unfinished>>

\* requireRole of DeleteFriendGroup; AdminDeleteFriendGroup has none.
MayDelete(c) == ByAdmin(c) \/ db.members[Who(c)] = "owner"

\* Removes what a deletion lists, one member after the other: the records under
\* the peers, then the bindings.
Sweep(c, at, next) ==
  \/ call[c].list[at] = {} /\ Read(c, at, next)
  \/ /\ At(c, at)
     /\ \E p \in call[c].list[at] :
          \/ /\ db' = IF at = "e_belongs" THEN Belong(p, None) ELSE Revoked("group", p)
             /\ Continue(c, at, [call[c] EXCEPT !.list[at] = @ \ {p}])
             /\ UNCHANGED <<faults, unfinished>>
          \/ Fault(c) /\ Proceed(c, "idle")
     /\ UNCHANGED <<calls, unborn, clash>>

\* The records of the members are listed before they are deleted: the records
\* under the peers and the bindings go by that list.
ListMembers(c, at, next) ==
  LET all == {p \in Peers : db.members[p] # None} IN
  ReadInto(c, at, next, [call[c] EXCEPT !.list = [s \in Sweeps |-> all]])

\* Mutant of DeleteGroup: the members are listed after they have been deleted.
DeleteGroupListsLate(c) ==
  \/ Read(c, "delete", IF MayDelete(c) THEN "e_members" ELSE "idle")
  \/ Write(c, "e_members", [db EXCEPT !.members = [p \in Peers |-> None]], "e_list", "idle")
  \/ ListMembers(c, "e_list", "e_belongs")
  \/ Sweep(c, "e_belongs", "e_token")
  \/ Write(c, "e_token", [db EXCEPT !.token = FALSE], "e_bindings", "idle")
  \/ Sweep(c, "e_bindings", "e_workspace")
  \/ Write(c, "e_workspace", Without("group"), "e_record", "idle")
  \/ Write(c, "e_record", [db EXCEPT !.group = FALSE], "idle", "idle")

DeleteGroup(c) ==
  \/ Read(c, "delete", IF MayDelete(c) THEN "e_list" ELSE "idle")
  \/ db.group /\ ListMembers(c, "e_list", "e_members")
  \/ ~db.group /\ Read(c, "e_list", "idle")
  \/ Write(c, "e_members", [db EXCEPT !.members = [p \in Peers |-> None]], "e_belongs", "idle")
  \/ Sweep(c, "e_belongs", "e_token")
  \/ Write(c, "e_token", [db EXCEPT !.token = FALSE], "e_bindings", "idle")
  \/ Sweep(c, "e_bindings", "e_workspace")
  \/ Write(c, "e_workspace", Without("group"), "e_record", "idle")
  \/ Write(c, "e_record", [db EXCEPT !.group = FALSE], "idle", "idle")

\* The step of another call makes the subject of c an owner.
Overtakes(c) ==
  call'[c] = call[c] /\ db.members[About(c)] # "owner" /\ db'.members[About(c)] = "owner"

\* The guard of Receive comes before the choice of a request.
HandlerNext ==
  \/ TokenGone
  \/ \E c \in Handlers :
       \/ calls < MaxCalls /\ \E r \in Asked : Receive(c, r)
       \/ AddFriendCheck(c) \/ AddFriendWorkspace(c) \/ AddFriendRows(c) \/ DeleteFriend(c)
       \/ WriteMember(c) \/ GrantMember(c) \/ RestoreMember(c)
       \/ Join(c) \/ AddMember(c) \/ PutMember(c) \/ RemoveMember(c)
       \/ CreateGroup(c) \/ Invite(c) \/ DeleteGroup(c)

Overtake == overtaken' = {c \in Busy : call'[c] # Idle /\ (c \in overtaken \/ Overtakes(c))}

SocialNext == HandlerNext /\ Overtake

SocialSpec == SocialInit /\ [][SocialNext]_socialVars

-----------------------------------------------------------------------------
(* Properties                                                              *)

\* Types of the stores and of the progress of the calls.
SocialTypeOK ==
  /\ db \in Stores
  /\ call \in [Handlers -> CallFields]
  /\ calls \in 0 .. MaxCalls /\ unborn \in BOOLEAN
  /\ faults \in 0 .. MaxFaults /\ unfinished \in BOOLEAN
  /\ clash \in {None, "additions", "mixed"}
  /\ overtaken \subseteq Busy

\* Nothing has happened that the handlers do not provide for: no calls about
\* one subject have overlapped, but for the same addition made twice without a
\* failure, and no deletion and no rollback has been broken off.
Orderly ==
  /\ clash = None \/ (clash = "additions" /\ faults = 0)
  /\ ~unfinished

NoneBusy(K) == \A c \in Busy : Kind(c) \notin K

\* When no call on the friendship is under way, friends have their workspace and
\* both bindings, and others have no workspace and no more bindings than writes
\* that failed, whichever write of an addition it was: a failed second grant
\* leaves the first, and the rollbacks of AddFriend leave nothing.
FriendsConsistent ==
  Orderly /\ NoneBusy(FriendKinds) =>
    IF db.rows THEN "direct" \in db.ws /\ db.bind["direct"] = Pair
    ELSE "direct" \notin db.ws /\ Cardinality(db.bind["direct"]) <= faults

\* When no call is under way on a member, the member's two records agree with
\* one another and with the binding, and a member has a group with a workspace,
\* whichever write failed (restoreMember and the rollback of
\* CreateFriendGroup); calls on other members may be half way.
MembersConsistent ==
  Orderly =>
    \A p \in Peers :
      (\A c \in Busy : Kind(c) # "delete" /\ (Kind(c) \in FriendKinds \/ About(c) # p)) =>
        /\ db.belongs[p] = db.members[p]
        /\ p \in db.bind["group"] <=> db.members[p] # None
        /\ db.members[p] # None => db.group /\ "group" \in db.ws

\* The records of a group agree: those of its members do, the group keeps its
\* workspace and a token its group, and neither the rollback of
\* CreateFriendGroup nor DeleteFriendGroup leaves one without the other.
GroupConsistent ==
  /\ MembersConsistent
  /\ Orderly /\ NoneBusy({"create", "delete"}) =>
       /\ db.group <=> "group" \in db.ws
       /\ db.token => db.group

\* An owner's role is taken by the deletion of the group, by the rollback of
\* its creation and by an administrator ("social: cannot change owner role" and
\* "cannot delete friend group owner"): a peer's call takes it only from a
\* subject that another call has made an owner since the peer's began.  Roles
\* are read before they are written, members are restored from copies, and
\* whatever calls overlap and fail, no stale role goes over an owner of longer
\* standing.
OwnerStays ==
  [][\A p \in Peers : db.members[p] = "owner" /\ db'.members[p] # "owner" =>
       \E c \in Busy :
         /\ call'[c] # call[c]
         /\ Kind(c) \in {"create", "delete"} \/ ByAdmin(c) \/ (c \in overtaken /\ About(c) = p)]_socialVars

-----------------------------------------------------------------------------
(* Formulas that the code does not satisfy; see the README.                *)

\* The group of every record under a peer exists: ListFriendGroups fails on one
\* that does not.
BelongsResolve ==
  Busy = {} => \A p \in Peers : db.belongs[p] # None => db.group

\* A group whose deletion was broken off can be deleted by its owner.
OwnerCanRetry ==
  [][\A c \in Busy :
       Kind(c) = "delete" /\ ~ByAdmin(c) /\ ~At(c, "delete") /\ call'[c] = Idle /\ clash = None /\ db'.group =>
         \E p \in Peers : db'.members[p] = "owner"]_socialVars

\* PutFriendGroupMember that returns an error has not changed the role.
FailedPutKeepsRole ==
  [][\A c \in Handlers : Kind(c) = "put" /\ At(c, "i_belong") /\ call'[c] = Idle /\ clash = None =>
       db'.members[About(c)] = call[c].prior]_socialVars

\* No call of a peer takes an owner's role while the group exists.
OwnerOutlivesCalls ==
  [][\A p \in Peers : db.members[p] = "owner" /\ db'.members[p] # "owner" =>
       \E c \in Busy : call'[c] # call[c] /\ (Kind(c) \in {"create", "delete"} \/ ByAdmin(c))]_socialVars

\* Who is no friend has no binding of the workspace.
NoBindingLeft ==
  Orderly /\ Busy = {} /\ ~db.rows => db.bind["direct"] = {}

=============================================================================
