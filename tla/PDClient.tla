------------------------------ MODULE PDClient ------------------------------
(***************************************************************************)
(* Class PDClient (include/pd_client.h, src/pd_client.cc): the connection  *)
(* to the leader among the PD servers, shared by the threads that call.    *)
(*                                                                         *)
(* A call asks get_leader_stub for a raw pointer to the stub that          *)
(* leader_stub_ owns, makes its RPC with it and, if that fails, asks once  *)
(* more.  rwlock_ is taken in update_leader alone; every other access to   *)
(* leader_stub_ and members_ is unlocked and a step of its own here, and a *)
(* thread may run between any two of them.                                 *)
(*                                                                         *)
(* PD (external) is a script: MemberTable[i] gives the members, the leader *)
(* and the servers that can be reached in the i-th epoch.  Only a server   *)
(* that can be reached answers GetMembers and only the leader answers the  *)
(* calls; every request may fail, too.  Each member has one URL.  The four *)
(* public calls differ only in what they ask and in how they retry.        *)
(* cluster_id_, which comes with every answer of PD, is left out: nobody   *)
(* leaves get_leader_stub with a stub before there has been an answer.     *)
(***************************************************************************)
EXTENDS Integers, Sequences

CONSTANTS
    Threads,      \* the threads that share the client
    Server,       \* the PD servers
    NoServer,     \* member id 0: what an answer without a leader decodes to
    Addr,         \* the server whose address the constructor is given
    MemberTable,  \* the script of PD
    Op            \* the calls that are made

View == [members : SUBSET Server, leader : Server \cup {NoServer}, up : SUBSET Server]

ASSUME ServerAssumption == NoServer \notin Server /\ Addr \in Server
ASSUME MemberTableAssumption ==
    /\ MemberTable \in Seq(View)
    /\ Len(MemberTable) > 0
    /\ \A i \in DOMAIN MemberTable :
        LET view == MemberTable[i]
        IN  view.leader \in (view.members \cap view.up) \cup {NoServer}
ASSUME OpAssumption ==
    Op \subseteq {"get_region", "get_region_by_id", "get_store_by_id", "get_all_stores"}

VARIABLES
    members,    \* members_: the servers known, NoServer if an answer had no leader
    leader,     \* leader_
    stub,       \* leader_stub_: the server it is connected to, or NoServer
    epoch,      \* the epoch PD is in
    pc,         \* where each thread is; before the constructor ends, "new"
    frame,      \* the locals of each thread's call
    undefined,  \* the build's behaviour is undefined from here on, and why
    contacted,  \* history: the constructor got an answer from PD
    failed,     \* history: some RPC of a call has failed
    steady      \* history: PD has not changed since the thread's retry began

vars == <<members, leader, stub, epoch, pc, frame,
          undefined, contacted, failed, steady>>
pool == <<members, leader, stub>>
history == <<contacted, failed, steady>>

Now == MemberTable[epoch]

\* A raw pointer to a stub.  It dangles once leader_stub_ has let go of it.
NoPointer == [server |-> NoServer, live |-> FALSE]

Frame == [op : Op \cup {"none"}, retry : BOOLEAN, force : BOOLEAN,
          target : Server \cup {NoServer}, answer : DOMAIN MemberTable,
          ptr : [server : Server \cup {NoServer}, live : BOOLEAN]]
NoFrame == [op |-> "none", retry |-> FALSE, force |-> FALSE, target |-> Addr,
            answer |-> 1, ptr |-> NoPointer]

\* The model stops at the first step with undefined behaviour.
Defined == undefined = "none"

-----------------------------------------------------------------------------
(* Members and leader.                                                     *)

UpdateLeaderCompares(view) ==
    /\ members' = view.members \cup {view.leader}
    /\ leader' = view.leader
    /\ IF view.leader \in members' /\ (view.leader # leader \/ stub = NoServer)
       THEN /\ stub' = view.leader
            /\ undefined' = IF view.leader = NoServer THEN "empty_list" ELSE undefined
       ELSE UNCHANGED <<stub, undefined>>
\* update_leader, with rwlock_ held.  The answer's leader is a member, with
\* no URL if PD named none.  leader_ is assigned before the members are
\* compared with it, so only a missing stub makes the loop connect.
UpdateLeader(view) ==
    /\ members' = view.members \cup {view.leader}
    /\ leader' = view.leader
    /\ IF view.leader \in members' /\ (view.leader # leader' \/ stub = NoServer)
       THEN /\ stub' = view.leader
            /\ undefined' = IF view.leader = NoServer THEN "empty_list" ELSE undefined
       ELSE UNCHANGED <<stub, undefined>>

\* The constructor: init asks the given address; its result is ignored.
Construct ==
    /\ Defined
    /\ \A t \in Threads : pc[t] = "new"
    /\ \/ Addr \in Now.up /\ UpdateLeader(Now) /\ contacted' = TRUE
       \/ UNCHANGED <<pool, undefined, contacted>>
    /\ pc' = [t \in Threads |-> "idle"]
    /\ UNCHANGED <<epoch, frame, failed, steady>>

GoTo(t, at) ==
    /\ Defined
    /\ pc' = [pc EXCEPT ![t] = at]

CheckStubAlwaysForced(t) ==
    /\ pc[t] = "check"
    /\ GoTo(t, "reset")
    /\ UNCHANGED <<pool, epoch, frame, undefined, history>>
\* get_leader_stub: is there a stub?
CheckStub(t) ==
    /\ pc[t] = "check"
    /\ GoTo(t, IF stub = NoServer \/ frame[t].force THEN "reset" ELSE "get")
    /\ UNCHANGED <<pool, epoch, frame, undefined, history>>

\* get_leader_stub: leader_stub_.reset(); pointers to the stub dangle.
ResetStub(t) ==
    /\ pc[t] = "reset"
    /\ GoTo(t, "pick")
    /\ stub' = NoServer
    /\ frame' = [u \in Threads |-> [frame[u] EXCEPT !.ptr.live = FALSE]]
    /\ UNCHANGED <<members, leader, epoch, undefined, history>>

\* get_leader_stub: one of the members is picked at random, if there is one.
\* The pick is an iterator into members_.
PickMember(t) ==
    /\ pc[t] = "pick" /\ members # {}
    /\ GoTo(t, "url")
    /\ \E m \in members : frame' = [frame EXCEPT ![t].target = m]
    /\ UNCHANGED <<pool, epoch, undefined, history>>

PickUrlUnchecked(t) ==
    /\ pc[t] = "url"
    /\ GoTo(t, "ask")
    /\ UNCHANGED <<pool, epoch, frame, undefined, history>>
\* get_leader_stub: one of the URLs of that member is picked.
PickUrl(t) ==
    /\ pc[t] = "url" /\ frame[t].target # NoServer
    /\ GoTo(t, "ask")
    /\ UNCHANGED <<pool, epoch, frame, undefined, history>>

\* get_leader_stub: there is no member, or the member picked has no URL.
PickFromNothing(t) ==
    /\ \/ pc[t] = "pick" /\ members = {}
       \/ pc[t] = "url" /\ frame[t].target = NoServer
    /\ GoTo(t, pc[t])
    /\ undefined' = "empty_list"
    /\ UNCHANGED <<pool, epoch, frame, history>>

\* get_leader_stub: members_ was replaced after the member was picked.
PickFromReplaced(t) ==
    /\ pc[t] = "replaced"
    /\ GoTo(t, "replaced")
    /\ undefined' = "dangling_member"
    /\ UNCHANGED <<pool, epoch, frame, history>>

\* get_pd_members_inner
AskMembers(t) ==
    /\ pc[t] = "ask"
    /\ frame[t].target \in Now.up
    /\ GoTo(t, "update")
    /\ frame' = [frame EXCEPT ![t].answer = epoch]
    /\ UNCHANGED <<pool, epoch, undefined, history>>

AskMembersForgets(t) ==
    /\ pc[t] = "ask"
    /\ GoTo(t, "loop")
    /\ members' = members \ {frame[t].target}
    /\ UNCHANGED <<leader, stub, epoch, frame, undefined, history>>
AskMembersInsists(t) ==
    /\ pc[t] = "ask"
    /\ GoTo(t, "ask")
    /\ UNCHANGED <<pool, epoch, frame, undefined, history>>
\* get_pd_members_inner fails, and get_leader_stub goes on.
AskMembersFails(t) ==
    /\ pc[t] = "ask"
    /\ GoTo(t, "loop")
    /\ UNCHANGED <<pool, epoch, frame, undefined, history>>

\* update_leader in the loop; the members others have picked are gone.
ApplyMembers(t) ==
    /\ pc[t] = "update"
    /\ Defined
    /\ pc' = [u \in Threads |-> IF u = t THEN "loop"
                                ELSE IF pc[u] = "url" THEN "replaced" ELSE pc[u]]
    /\ UpdateLeader(MemberTable[frame[t].answer])
    /\ UNCHANGED <<epoch, frame, history>>

LeaveAfterOneRound(t) ==
    /\ pc[t] = "loop"
    /\ GoTo(t, "get")
    /\ UNCHANGED <<pool, epoch, frame, undefined, history>>
\* get_leader_stub: sleep and pick again until there is a stub.
LoopOrLeave(t) ==
    /\ pc[t] = "loop"
    /\ GoTo(t, IF stub = NoServer THEN "pick" ELSE "get")
    /\ UNCHANGED <<pool, epoch, frame, undefined, history>>

\* get_leader_stub: return leader_stub_.get(), which may be null by now.
GetStub(t) ==
    /\ pc[t] = "get"
    /\ GoTo(t, "rpc")
    /\ frame' = [frame EXCEPT ![t].ptr = [server |-> stub, live |-> stub # NoServer]]
    /\ UNCHANGED <<pool, epoch, undefined, history>>

-----------------------------------------------------------------------------
(* The public calls.                                                       *)

NeverForces(op) == FALSE
\* Whether the retry of a call asks for a new connection.
Forces(op) == op # "get_region_by_id"

Call(t, op) ==
    /\ pc[t] = "idle"
    /\ GoTo(t, "check")
    /\ frame' = [frame EXCEPT ![t] = [NoFrame EXCEPT !.op = op]]
    /\ UNCHANGED <<pool, epoch, undefined, history>>

\* The RPC of t goes to the leader, and the leader can be reached.
Reaches(t) ==
    LET server == frame[t].ptr.server
    IN  server \in Now.up /\ server = Now.leader

\* The call returns, with its result or an error.
Return(t) ==
    /\ GoTo(t, "idle")
    /\ frame' = [frame EXCEPT ![t] = NoFrame]
    /\ steady' = [steady EXCEPT ![t] = FALSE]
    /\ UNCHANGED <<pool, epoch, undefined, contacted, failed>>

\* The RPC is answered.
RpcOk(t) ==
    /\ pc[t] = "rpc" /\ frame[t].ptr.live
    /\ Reaches(t)
    /\ Return(t)

\* The RPC fails, wherever it went, for the first time: get_leader_stub and
\* the RPC once more.
RpcRetries(t) ==
    /\ pc[t] = "rpc" /\ frame[t].ptr.live
    /\ ~frame[t].retry
    /\ GoTo(t, "check")
    /\ frame' = [frame EXCEPT ![t].retry = TRUE, ![t].force = Forces(frame[t].op),
                              ![t].ptr = NoPointer]
    /\ failed' = TRUE
    /\ steady' = [steady EXCEPT ![t] = TRUE]
    /\ UNCHANGED <<pool, epoch, undefined, contacted>>

\* It fails a second time, and the error is the caller's.
RpcFails(t) ==
    /\ pc[t] = "rpc" /\ frame[t].ptr.live
    /\ frame[t].retry
    /\ Return(t)

\* The RPC is made through a null or a dangling pointer.
RpcOnDeadStub(t) ==
    /\ pc[t] = "rpc" /\ ~frame[t].ptr.live
    /\ GoTo(t, "rpc")
    /\ undefined' = "dead_stub"
    /\ UNCHANGED <<pool, epoch, frame, history>>

\* PD (external): servers come and go, the leader moves.
PDChange ==
    /\ Defined
    /\ epoch < Len(MemberTable)
    /\ epoch' = epoch + 1
    /\ steady' = [t \in Threads |-> FALSE]
    /\ UNCHANGED <<pool, pc, frame, undefined, contacted, failed>>

-----------------------------------------------------------------------------
Init ==
    /\ members = {}
    /\ leader = NoServer
    /\ stub = NoServer
    /\ epoch = 1
    /\ pc = [t \in Threads |-> "new"]
    /\ frame = [t \in Threads |-> NoFrame]
    /\ undefined = "none"
    /\ contacted = FALSE
    /\ failed = FALSE
    /\ steady = [t \in Threads |-> FALSE]

GetLeaderStub(t) ==
    \/ CheckStub(t) \/ ResetStub(t) \/ PickMember(t) \/ PickUrl(t)
    \/ PickFromNothing(t) \/ PickFromReplaced(t)
    \/ AskMembers(t) \/ AskMembersFails(t) \/ ApplyMembers(t)
    \/ LoopOrLeave(t) \/ GetStub(t)

Rpc(t) == RpcOk(t) \/ RpcRetries(t) \/ RpcFails(t) \/ RpcOnDeadStub(t)

\* A step inside a call.
Step(t) == GetLeaderStub(t) \/ Rpc(t)

Next ==
    \/ Construct
    \/ \E t \in Threads, op \in Op : Call(t, op)
    \/ \E t \in Threads : Step(t)
    \/ PDChange

Spec == Init /\ [][Next]_vars

\* A thread inside a call goes on, and an RPC ends.  A member that can be
\* reached is picked in the end, as select_randomly is uniform and picks anew in
\* every round, and does not fail every time it is asked.
FairSpec ==
    /\ Spec
    /\ \A t \in Threads : /\ WF_vars(Step(t))
                          /\ SF_vars(PickMember(t) /\ frame'[t].target \in Now.up)
                          /\ SF_vars(AskMembers(t))

-----------------------------------------------------------------------------
(* Correctness.                                                            *)

\* Every variable has its type, and only a server is asked for members.
TypeOK ==
    /\ members \in SUBSET (Server \cup {NoServer})
    /\ leader \in Server \cup {NoServer}
    /\ stub \in Server \cup {NoServer}
    /\ epoch \in DOMAIN MemberTable
    /\ pc \in [Threads -> {"new", "idle", "check", "reset", "pick", "url", "replaced",
                           "ask", "update", "loop", "get", "rpc"}]
    /\ frame \in [Threads -> Frame]
    /\ \A t \in Threads : pc[t] = "ask" => frame[t].target \in Server
    /\ undefined \in {"none", "empty_list", "dangling_member", "dead_stub"}
    /\ contacted \in BOOLEAN /\ failed \in BOOLEAN
    /\ steady \in [Threads -> BOOLEAN]

\* Threads that share the client use the stub that leader_stub_ owns, without
\* a lock, and that is safe as long as the constructor has connected and no
\* call has failed: then no thread ever takes the path that resets it.
SharedStubSafe ==
    (contacted /\ Defined /\ ~failed)
        => \A t \in Threads : pc[t] = "rpc" =>
            frame[t].ptr = [server |-> stub, live |-> TRUE]

\* A member or URL is picked from an empty list only if the constructor got no
\* answer, or the answer that the pool was last filled from had no leader:
\* requests that fail later on, however long, never empty the pool.
EmptyPickHasCause ==
    undefined = "empty_list" => ~contacted \/ NoServer \in members

\* A thread that has the client to itself never makes an RPC through a stub
\* that is gone, nor follows a member that has been replaced, whatever fails
\* and however PD changes: get_leader_stub leaves its loop with a stub only, and
\* a call that resets the stub holds no pointer to it any more.
AloneIsDefined ==
    (\A t, u \in Threads : t = u) => undefined \notin {"dead_stub", "dangling_member"}

\* What the comment above each retry says (src/pd_client.cc:28, 39, 51, 62,
\* "force update leader rpc connect and retry"): the retry goes to the leader,
\* unless PD has changed since it began.  (It may still fail there.)
RetryReachesLeader ==
    \A t \in Threads :
        (pc[t] = "rpc" /\ frame[t].retry /\ frame[t].ptr.live /\ steady[t]) => Reaches(t)

\* What a forced retry is for (src/pd_client.cc:28, "force update leader rpc
\* connect", and :111, "check if need update leader"): when update_leader has
\* worked off PD's present answer for it, the connection is to that leader.
ForcedUpdateConnects ==
    [][\A t \in Threads :
        (/\ pc[t] = "update" /\ pc'[t] = "loop"
         /\ frame[t].retry /\ frame[t].force
         /\ frame[t].answer = epoch /\ Now.leader # NoServer)
            => stub' = Now.leader]_vars

Connection ==
    INSTANCE PDConnection WITH
        named <- {MemberTable[i].leader : i \in 1..epoch},
        conn  <- stub,
        use   <- [t \in Threads |-> frame[t].ptr.server],
        gone  <- {t \in Threads : frame[t].ptr.server # NoServer /\ ~frame[t].ptr.live}
\* leader_stub_ is one connection to a leader that PD has named, and the raw
\* pointers that threads take from it without a lock are to that connection or
\* to one that was dropped since: a late or outdated answer of PD never puts
\* another stub in its place under a thread that uses it.
IsConnection == Connection!Spec

\* As long as some known member can be reached, and unless failures force new
\* connections for ever, a call returns, whatever other threads do to the stub
\* (or the build's behaviour becomes undefined).
CallsGetThrough ==
    (/\ [](members = {} \/ members \cap Now.up # {})
     /\ <>[][\A t \in Threads : ~(RpcRetries(t) /\ Forces(frame[t].op))]_vars)
        => \A t \in Threads : pc[t] = "check" ~> (pc[t] = "idle" \/ ~Defined)

=============================================================================
