--------------------------- MODULE PDClientProofs ---------------------------
(***************************************************************************)
(* Proofs about PDClient, for every number of threads and servers and every *)
(* script of PD.                                                           *)
(***************************************************************************)
EXTENDS PDClient, TLAPS

\* Until the first failure every thread stays on the path that reads the stub.
Quiet ==
    /\ \A t \in Threads : pc[t] = "new" => ~frame[t].force
    /\ (contacted /\ Defined /\ ~failed) =>
        /\ stub # NoServer
        /\ \A t \in Threads :
            /\ pc[t] \in {"new", "idle", "check", "get", "rpc"}
            /\ ~frame[t].force
            /\ pc[t] = "rpc" => frame[t].ptr = [server |-> stub, live |-> TRUE]

\* The pool is never emptied, member 0 is only ever picked from it, and answers
\* are from the past.
PoolFilled ==
    /\ members = {} => ~contacted
    /\ \A t \in Threads : pc[t] = "url" /\ frame[t].target = NoServer => NoServer \in members
    /\ \A t \in Threads : pc[t] = "update" => frame[t].answer <= epoch

IInv == TypeOK /\ Quiet /\ PoolFilled /\ EmptyPickHasCause

LEMMA TableFacts ==
    /\ Len(MemberTable) \in Nat /\ Len(MemberTable) >= 1
    /\ DOMAIN MemberTable = 1..Len(MemberTable)
    /\ \A i \in DOMAIN MemberTable :
        /\ MemberTable[i] \in View
        /\ MemberTable[i].members \subseteq Server
        /\ MemberTable[i].leader \in Server \cup {NoServer}
<1>1. /\ Len(MemberTable) \in Nat /\ Len(MemberTable) >= 1
      /\ DOMAIN MemberTable = 1..Len(MemberTable)
      /\ \A i \in DOMAIN MemberTable : MemberTable[i] \in View
    BY MemberTableAssumption
<1> QED
    BY <1>1 DEF View

LEMMA NoFrameType == NoFrame \in Frame /\ ~NoFrame.force
BY TableFacts, ServerAssumption DEF NoFrame, NoPointer, Frame

LEMMA InitIInv == Init => IInv
<1> SUFFICES ASSUME Init PROVE IInv
    OBVIOUS
<1>1. TypeOK
    <2>1. epoch \in DOMAIN MemberTable
        BY TableFacts DEF Init
    <2>2. frame \in [Threads -> Frame]
        BY NoFrameType DEF Init
    <2> QED
        BY <2>1, <2>2 DEF Init, TypeOK
<1>3. Quiet
    BY NoFrameType DEF Init, Quiet
<1>4. PoolFilled /\ EmptyPickHasCause
    BY ServerAssumption DEF Init, PoolFilled, EmptyPickHasCause
<1> QED
    BY <1>1, <1>3, <1>4 DEF IInv

\* What an answer of PD that was given in epoch i does to the pool.
LEMMA UpdateLeaderStep ==
    ASSUME IInv, NEW i \in DOMAIN MemberTable, i <= epoch, 
           UpdateLeader(MemberTable[i])
    PROVE  /\ members' \in SUBSET (Server \cup {NoServer}) /\ members' # {}
           /\ leader' \in Server \cup {NoServer}
           /\ stub' \in Server \cup {NoServer}
           /\ undefined' \in {undefined, "empty_list"}
           /\ undefined' = "empty_list" => undefined = "empty_list" \/ NoServer \in members'
           /\ undefined' # "empty_list" => stub' # NoServer
<1> DEFINE view == MemberTable[i]
<1>1. /\ view.members \subseteq Server /\ view.leader \in Server \cup {NoServer}
      /\ NoServer \notin Server /\ i \in Nat /\ i >= 1 /\ epoch \in Nat
    BY TableFacts, ServerAssumption DEF IInv, TypeOK
<1>2. /\ members' = view.members \cup {view.leader} /\ leader' = view.leader
      /\ IF stub = NoServer
         THEN /\ stub' = view.leader
              /\ undefined' = IF view.leader = NoServer THEN "empty_list" ELSE undefined
         ELSE UNCHANGED <<stub, undefined>>
    BY DEF UpdateLeader
<1>3. view.leader = NoServer => NoServer \in members'
    BY <1>2
<1>4. stub \in Server \cup {NoServer}
    BY DEF IInv, TypeOK
<1> QED
    BY <1>1, <1>2, <1>3, <1>4

LEMMA ConstructStep ==
    ASSUME IInv, Construct
    PROVE  IInv'
<1>1. /\ pc' = [t \in Threads |-> "idle"]
      /\ \A t \in Threads : pc[t] = "new"
      /\ UNCHANGED <<epoch, frame, failed, steady>>
      /\ epoch \in DOMAIN MemberTable /\ epoch <= epoch
      /\ undefined = "none"
    BY TableFacts DEF Construct, IInv, TypeOK, Defined
<1>2. CASE UpdateLeader(Now) /\ contacted' = TRUE
    <2>1. UpdateLeader(MemberTable[epoch]) /\ contacted' = TRUE
        BY <1>2 DEF Now
    <2>2. /\ members' \in SUBSET (Server \cup {NoServer}) /\ members' # {}
          /\ leader' \in Server \cup {NoServer}
          /\ stub' \in Server \cup {NoServer}
          /\ undefined' \in {undefined, "empty_list"}
          /\ undefined' = "empty_list" => undefined = "empty_list" \/ NoServer \in members'
          /\ undefined' # "empty_list" => stub' # NoServer
        BY <1>1, <2>1, UpdateLeaderStep
    <2>3. TypeOK'
        BY <1>1, <2>1, <2>2 DEF IInv, TypeOK
    <2>5. Quiet'
        BY <1>1, <2>2 DEF IInv, TypeOK, Quiet, Defined
    <2>6. PoolFilled'
        BY <1>1, <2>2 DEF IInv, PoolFilled
    <2>7. EmptyPickHasCause'
        BY <1>1, <2>1, <2>2 DEF IInv, EmptyPickHasCause, PoolFilled
    <2> QED
        BY <2>3, <2>5, <2>6, <2>7 DEF IInv
<1>3. CASE UNCHANGED <<pool, undefined, contacted>>
    <2>1. UNCHANGED <<members, leader, stub, undefined, contacted>>
        BY <1>3 DEF pool
    <2>2. TypeOK'
        BY <1>1, <2>1 DEF IInv, TypeOK
    <2>4. Quiet'
        BY <1>1, <2>1 DEF IInv, TypeOK, Quiet, Defined
    <2>5. PoolFilled' /\ EmptyPickHasCause'
        BY <1>1, <2>1 DEF IInv, PoolFilled, EmptyPickHasCause
    <2> QED
        BY <2>2, <2>4, <2>5 DEF IInv
<1> QED
    BY <1>2, <1>3 DEF Construct

\* A step that only moves one thread on the way to the RPC, and no further than
\* what it has seen allows.
LEMMA MoveStep ==
    ASSUME IInv, NEW t \in Threads, NEW at,
           at \in {"check", "reset", "pick", "ask", "loop", "get"}, pc[t] # "new",
           pc' = [pc EXCEPT ![t] = at],
           UNCHANGED <<pool, epoch, frame, undefined, history>>,
           at = "ask" => frame[t].target \in Server,
           at = "get" => stub # NoServer,
           (contacted /\ Defined /\ ~failed) => at \in {"check", "get"}
    PROVE  IInv'
<1>1. /\ \A u \in Threads : pc'[u] = IF u = t THEN at ELSE pc[u]
      /\ UNCHANGED <<members, leader, stub, epoch, frame, undefined,
                     contacted, failed, steady>>
    BY DEF IInv, TypeOK, pool, history
<1>2. TypeOK'
    BY <1>1 DEF IInv, TypeOK
<1>4. Quiet'
    BY <1>1 DEF IInv, Quiet, Defined
<1>5. PoolFilled' /\ EmptyPickHasCause'
    BY <1>1 DEF IInv, PoolFilled, EmptyPickHasCause
<1> QED
    BY <1>2, <1>4, <1>5 DEF IInv

LEMMA PathStep ==
    ASSUME IInv, NEW t \in Threads,
           CheckStub(t) \/ PickUrl(t) \/ AskMembersFails(t) \/ LoopOrLeave(t)
    PROVE  IInv'
<1> USE DEF GoTo
<1>1. CASE CheckStub(t)
    <2>1. (contacted /\ Defined /\ ~failed) => stub # NoServer /\ ~frame[t].force
        BY DEF IInv, Quiet
    <2> QED
        BY <1>1, <2>1, MoveStep DEF CheckStub
<1>2. CASE PickUrl(t)
    <2>1. ~(contacted /\ Defined /\ ~failed)
        BY <1>2 DEF PickUrl, IInv, Quiet
    <2>2. frame[t].target \in Server
        BY <1>2 DEF PickUrl, IInv, TypeOK, Frame
    <2> QED
        BY <1>2, <2>1, <2>2, MoveStep DEF PickUrl
<1>3. CASE AskMembersFails(t)
    <2>1. ~(contacted /\ Defined /\ ~failed)
        BY <1>3 DEF AskMembersFails, IInv, Quiet
    <2> QED
        BY <1>3, <2>1, MoveStep DEF AskMembersFails
<1>4. CASE LoopOrLeave(t)
    <2>1. ~(contacted /\ Defined /\ ~failed)
        BY <1>4 DEF LoopOrLeave, IInv, Quiet
    <2> QED
        BY <1>4, <2>1, MoveStep DEF LoopOrLeave
<1> QED
    BY <1>1, <1>2, <1>3, <1>4

LEMMA ResetStep ==
    ASSUME IInv, NEW t \in Threads, ResetStub(t)
    PROVE  IInv'
<1>1. /\ pc[t] = "reset" /\ pc' = [pc EXCEPT ![t] = "pick"]
      /\ stub' = NoServer
      /\ frame' = [u \in Threads |-> [frame[u] EXCEPT !.ptr.live = FALSE]]
      /\ UNCHANGED <<members, leader, epoch, undefined, contacted, failed, steady>>
    BY DEF ResetStub, GoTo, history
<1>2. \A u \in Threads :
        /\ frame'[u] \in Frame
        /\ frame'[u].force = frame[u].force /\ frame'[u].target = frame[u].target
        /\ frame'[u].answer = frame[u].answer
    <2> SUFFICES ASSUME NEW u \in Threads
                 PROVE  LET f == frame[u]  g == frame'[u]
                        IN  g \in Frame /\ g.force = f.force /\ g.target = f.target
                            /\ g.answer = f.answer
        OBVIOUS
    <2>1. frame[u] \in Frame
        BY DEF IInv, TypeOK
    <2>2. frame'[u] = [frame[u] EXCEPT !.ptr = [frame[u].ptr EXCEPT !.live = FALSE]]
        BY <1>1
    <2> DEFINE p == [frame[u].ptr EXCEPT !.live = FALSE]
    <2>3. p \in [server : Server \cup {NoServer}, live : BOOLEAN]
        BY <2>1 DEF Frame
    <2> HIDE DEF p
    <2> QED
        BY <2>1, <2>2, <2>3 DEF p, Frame
<1>3. TypeOK'
    BY <1>1, <1>2 DEF IInv, TypeOK
<1>5. Quiet'
    BY <1>1, <1>2 DEF IInv, TypeOK, Quiet, Defined
<1>6. PoolFilled' /\ EmptyPickHasCause'
    BY <1>1, <1>2 DEF IInv, TypeOK, PoolFilled, EmptyPickHasCause
<1> QED
    BY <1>3, <1>5, <1>6 DEF IInv

LEMMA PickStep ==
    ASSUME IInv, NEW t \in Threads, PickMember(t)
    PROVE  IInv'
<1>1. /\ pc[t] = "pick" /\ pc' = [pc EXCEPT ![t] = "url"]
      /\ UNCHANGED <<members, leader, stub, epoch, undefined,
                     contacted, failed, steady>>
    BY DEF PickMember, GoTo, pool, history
<1>2. PICK m \in members : frame' = [frame EXCEPT ![t].target = m]
    BY DEF PickMember
<1>3. m \in Server \cup {NoServer}
    BY DEF IInv, TypeOK
<1>4. /\ frame' \in [Threads -> Frame] /\ frame'[t].target = m
      /\ \A u \in Threads : /\ frame'[u].answer = frame[u].answer
                            /\ u # t => frame'[u] = frame[u]
    <2>1. frame \in [Threads -> Frame] /\ frame[t] \in Frame
        BY DEF IInv, TypeOK
    <2> DEFINE g == [frame[t] EXCEPT !.target = m]
    <2>2. g \in Frame /\ g.target = m /\ g.answer = frame[t].answer
        BY <1>3, <2>1 DEF Frame
    <2>3. frame' = [frame EXCEPT ![t] = g]
        BY <1>2
    <2> HIDE DEF g
    <2> QED
        BY <2>1, <2>2, <2>3
<1>5. TypeOK'
    BY <1>1, <1>4 DEF IInv, TypeOK
<1>7. Quiet'
    BY <1>1, <1>4 DEF IInv, TypeOK, Quiet, Defined
<1>8. PoolFilled' /\ EmptyPickHasCause'
    BY <1>1, <1>4 DEF IInv, TypeOK, PoolFilled, EmptyPickHasCause
<1> QED
    BY <1>5, <1>7, <1>8 DEF IInv

\* A step with undefined behaviour: nothing else changes.
LEMMA UndefinedStep ==
    ASSUME IInv, NEW t \in Threads,
           PickFromNothing(t) \/ PickFromReplaced(t) \/ RpcOnDeadStub(t)
    PROVE  IInv'
<1>1. /\ pc[t] # "new" /\ pc' = pc
      /\ undefined' \in {"empty_list", "dangling_member", "dead_stub"}
      /\ UNCHANGED <<members, leader, stub, epoch, frame,
                     contacted, failed, steady>>
    BY DEF PickFromNothing, PickFromReplaced, RpcOnDeadStub, GoTo, pool, history,
           IInv, TypeOK
<1>2. TypeOK'
    BY <1>1 DEF IInv, TypeOK
<1>3. Quiet'
    BY <1>1 DEF IInv, Quiet, Defined
<1>4. undefined' = "empty_list" => ~contacted \/ NoServer \in members
    BY DEF PickFromNothing, PickFromReplaced, RpcOnDeadStub, IInv, PoolFilled
<1>5. PoolFilled' /\ EmptyPickHasCause'
    BY <1>1, <1>4 DEF IInv, PoolFilled, EmptyPickHasCause
<1> QED
    BY <1>2, <1>3, <1>5 DEF IInv

LEMMA AskStep ==
    ASSUME IInv, NEW t \in Threads, AskMembers(t)
    PROVE  IInv'
<1>1. /\ pc[t] = "ask" /\ pc' = [pc EXCEPT ![t] = "update"]
      /\ frame' = [frame EXCEPT ![t].answer = epoch]
      /\ UNCHANGED <<members, leader, stub, epoch, undefined,
                     contacted, failed, steady>>
    BY DEF AskMembers, GoTo, Now, pool, history
<1>2. epoch \in DOMAIN MemberTable /\ epoch \in Nat
    BY TableFacts DEF IInv, TypeOK
<1>3. /\ frame' \in [Threads -> Frame] /\ frame'[t].answer = epoch
      /\ \A u \in Threads : /\ frame'[u].target = frame[u].target
                            /\ u # t => frame'[u] = frame[u]
    <2>1. frame \in [Threads -> Frame] /\ frame[t] \in Frame
        BY DEF IInv, TypeOK
    <2>2. [frame[t] EXCEPT !.answer = epoch] \in Frame
        BY <2>1, <1>2 DEF Frame
    <2>3. frame' = [frame EXCEPT ![t] = [frame[t] EXCEPT !.answer = epoch]]
        BY <1>1
    <2>4. frame[t].target = [frame[t] EXCEPT !.answer = epoch].target
        BY <2>1 DEF Frame
    <2> QED
        BY <2>1, <2>2, <2>3, <2>4 DEF Frame
<1>4. TypeOK'
    BY <1>1, <1>3 DEF IInv, TypeOK
<1>6. Quiet'
    BY <1>1, <1>3 DEF IInv, TypeOK, Quiet, Defined
<1>7. PoolFilled' /\ EmptyPickHasCause'
    BY <1>1, <1>2, <1>3 DEF IInv, TypeOK, PoolFilled, EmptyPickHasCause
<1> QED
    BY <1>4, <1>6, <1>7 DEF IInv

LEMMA ApplyStep ==
    ASSUME IInv, NEW t \in Threads, ApplyMembers(t)
    PROVE  IInv'
<1> DEFINE i == frame[t].answer
<1>1. /\ pc[t] = "update"
      /\ pc' = [u \in Threads |-> IF u = t THEN "loop"
                                 ELSE IF pc[u] = "url" THEN "replaced" ELSE pc[u]]
      /\ UpdateLeader(MemberTable[i])
      /\ UNCHANGED <<epoch, frame, contacted, failed, steady>>
      /\ Defined
    BY DEF ApplyMembers, history
<1>2. i \in DOMAIN MemberTable /\ i <= epoch
    BY <1>1 DEF IInv, TypeOK, Frame, PoolFilled
<1>3. /\ members' \in SUBSET (Server \cup {NoServer}) /\ members' # {}
      /\ leader' \in Server \cup {NoServer}
      /\ stub' \in Server \cup {NoServer}
      /\ undefined' \in {undefined, "empty_list"}
      /\ undefined' = "empty_list" => undefined = "empty_list" \/ NoServer \in members'
    BY <1>1, <1>2, UpdateLeaderStep
<1>4. ~(contacted /\ Defined /\ ~failed)
    BY <1>1 DEF IInv, Quiet
<1>5. TypeOK'
    BY <1>1, <1>3 DEF IInv, TypeOK
<1>7. Quiet'
    BY <1>1, <1>3, <1>4 DEF IInv, TypeOK, Quiet, Defined
<1>8. PoolFilled' /\ EmptyPickHasCause'
    BY <1>1, <1>3 DEF IInv, TypeOK, PoolFilled, EmptyPickHasCause, Defined
<1> QED
    BY <1>5, <1>7, <1>8 DEF IInv

LEMMA GetStubStep ==
    ASSUME IInv, NEW t \in Threads, GetStub(t)
    PROVE  IInv'
<1>1. /\ pc[t] = "get" /\ pc' = [pc EXCEPT ![t] = "rpc"]
      /\ frame' = [frame EXCEPT ![t].ptr = [server |-> stub, live |-> stub # NoServer]]
      /\ UNCHANGED <<members, leader, stub, epoch, undefined,
                     contacted, failed, steady>>
    BY DEF GetStub, GoTo, pool, history
<1>2. /\ frame' \in [Threads -> Frame]
      /\ frame'[t].ptr = [server |-> stub, live |-> stub # NoServer]
      /\ \A u \in Threads : /\ frame'[u].target = frame[u].target
                            /\ frame'[u].answer = frame[u].answer
                            /\ frame'[u].force = frame[u].force
                            /\ u # t => frame'[u] = frame[u]
    <2>1. frame \in [Threads -> Frame] /\ frame[t] \in Frame
        BY DEF IInv, TypeOK
    <2>2. [frame[t] EXCEPT !.ptr = [server |-> stub, live |-> stub # NoServer]] \in Frame
        BY <2>1 DEF Frame, IInv, TypeOK
    <2>3. frame' = [frame EXCEPT ![t] = [frame[t] EXCEPT !.ptr = [server |-> stub, live |-> stub # NoServer]]]
        BY <1>1
    <2>4. frame[t].target = [frame[t] EXCEPT !.ptr = [server |-> stub, live |-> stub # NoServer]].target
        BY <2>1 DEF Frame
    <2> QED
        BY <2>1, <2>2, <2>3, <2>4 DEF Frame
<1>3. TypeOK'
    BY <1>1, <1>2 DEF IInv, TypeOK
<1>5. Quiet'
    BY <1>1, <1>2 DEF IInv, TypeOK, Quiet, Defined
<1>6. PoolFilled' /\ EmptyPickHasCause'
    BY <1>1, <1>2 DEF IInv, TypeOK, PoolFilled, EmptyPickHasCause
<1> QED
    BY <1>3, <1>5, <1>6 DEF IInv

\* The steps of the public calls: the call itself and the RPC through a live
\* pointer.  Only a failure asks for a new connection.
LEMMA CallStep ==
    ASSUME IInv, NEW t \in Threads,
           (\E op \in Op : Call(t, op)) \/ RpcOk(t) \/ RpcRetries(t) \/ RpcFails(t)
    PROVE  IInv'
<1>1. PICK at \in {"idle", "check"} : pc' = [pc EXCEPT ![t] = at]
    BY DEF Call, RpcOk, RpcRetries, RpcFails, Return, GoTo
<1>2. /\ pc[t] \in {"idle", "rpc"}
      /\ UNCHANGED <<members, leader, stub, epoch, undefined, contacted>>
      /\ \A u \in Threads : pc'[u] = IF u = t THEN at ELSE pc[u]
    BY <1>1 DEF Call, RpcOk, RpcRetries, RpcFails, Return, pool, history, IInv, TypeOK
<1>3. /\ frame' \in [Threads -> Frame]
      /\ \A u \in Threads \ {t} : frame'[u] = frame[u]
      /\ failed' \in BOOLEAN /\ steady' \in [Threads -> BOOLEAN]
      /\ failed => failed'
      /\ ~failed' => frame'[t].force \in {FALSE, frame[t].force}
    <2>1. CASE \E op \in Op : Call(t, op)
        <3>1. PICK op \in Op : Call(t, op)
            BY <2>1
        <3>2. [NoFrame EXCEPT !.op = op] \in Frame /\ ~[NoFrame EXCEPT !.op = op].force
            BY NoFrameType DEF Frame
        <3>3. /\ frame' = [frame EXCEPT ![t] = [NoFrame EXCEPT !.op = op]]
              /\ UNCHANGED <<failed, steady>>
            BY <3>1 DEF Call, history
        <3>4. frame \in [Threads -> Frame] /\ failed \in BOOLEAN /\ steady \in [Threads -> BOOLEAN]
            BY DEF IInv, TypeOK
        <3>5. [NoFrame EXCEPT !.op = op].force = FALSE
            BY <3>2, NoFrameType DEF NoFrame
        <3>6. frame' \in [Threads -> Frame] /\ frame'[t].force = FALSE
            BY <3>2, <3>3, <3>4, <3>5
        <3> QED
            BY <3>3, <3>4, <3>6
    <2>2. CASE RpcOk(t) \/ RpcFails(t)
        <3>1. frame' = [frame EXCEPT ![t] = NoFrame] /\ failed' = failed
              /\ steady' = [steady EXCEPT ![t] = FALSE]
            BY <2>2 DEF RpcOk, RpcFails, Return
        <3>2. NoFrame \in Frame /\ NoFrame.force = FALSE
            BY NoFrameType DEF NoFrame
        <3>3. frame \in [Threads -> Frame] /\ failed \in BOOLEAN /\ steady \in [Threads -> BOOLEAN]
            BY DEF IInv, TypeOK
        <3> QED
            BY <3>1, <3>2, <3>3
    <2>3. CASE RpcRetries(t)
        BY <2>3, ServerAssumption DEF RpcRetries, Forces, NoPointer, history, IInv, TypeOK, Frame
    <2> QED
        BY <2>1, <2>2, <2>3
<1>4. TypeOK'
    BY <1>2, <1>3, <1>1 DEF IInv, TypeOK
<1>6. Quiet'
    BY <1>2, <1>3 DEF IInv, TypeOK, Quiet, Defined
<1>7. PoolFilled' /\ EmptyPickHasCause'
    BY <1>2, <1>3 DEF IInv, TypeOK, PoolFilled, EmptyPickHasCause
<1> QED
    BY <1>4, <1>6, <1>7 DEF IInv

LEMMA PDChangeStep ==
    ASSUME IInv, PDChange
    PROVE  IInv'
<1>1. /\ epoch' = epoch + 1 /\ epoch' \in DOMAIN MemberTable /\ epoch \in Nat
      /\ UNCHANGED <<members, leader, stub, pc, frame, undefined,
                     contacted, failed>>
      /\ steady' = [t \in Threads |-> FALSE]
    BY TableFacts DEF PDChange, IInv, TypeOK, pool
<1>3. TypeOK'
    BY <1>1 DEF IInv, TypeOK
<1>4. Quiet'
    BY <1>1 DEF IInv, Quiet, Defined
<1>5. \A t \in Threads : frame[t].answer \in Nat
    <2> SUFFICES ASSUME NEW t \in Threads PROVE frame[t].answer \in Nat
        OBVIOUS
    <2>1. frame[t] \in Frame
        BY DEF IInv, TypeOK
    <2>2. frame[t].answer \in DOMAIN MemberTable
        BY <2>1 DEF Frame
    <2> QED
        BY <2>2, TableFacts
<1>6. PoolFilled'
    BY <1>1, <1>5 DEF IInv, PoolFilled
<1>7. EmptyPickHasCause'
    BY <1>1 DEF IInv, EmptyPickHasCause
<1> QED
    BY <1>3, <1>4, <1>6, <1>7 DEF IInv

LEMMA NextStep == IInv /\ [Next]_vars => IInv'
<1> SUFFICES ASSUME IInv, [Next]_vars PROVE IInv'
    OBVIOUS
<1>1. CASE Construct
    BY <1>1, ConstructStep
<1>2. ASSUME NEW t \in Threads, NEW op \in Op, Call(t, op) PROVE IInv'
    BY <1>2, CallStep
<1>3. ASSUME NEW t \in Threads, GetLeaderStub(t) PROVE IInv'
    BY <1>3, PathStep, ResetStep, PickStep, UndefinedStep, AskStep, ApplyStep, GetStubStep
       DEF GetLeaderStub
<1>4. ASSUME NEW t \in Threads, Rpc(t) PROVE IInv'
    BY <1>4, CallStep, UndefinedStep DEF Rpc
<1>5. CASE PDChange
    BY <1>5, PDChangeStep
<1>6. CASE UNCHANGED vars
    <2>1. UNCHANGED <<members, leader, stub, epoch, pc, frame, undefined,
                      contacted, failed, steady>>
        BY <1>6 DEF vars
    <2>2. TypeOK'
        BY <2>1 DEF IInv, TypeOK
    <2>3. Quiet'
        BY <2>1 DEF IInv, Quiet, Defined
    <2>4. PoolFilled' /\ EmptyPickHasCause'
        BY <2>1 DEF IInv, PoolFilled, EmptyPickHasCause
    <2> QED
        BY <2>2, <2>3, <2>4 DEF IInv
<1> QED
    BY <1>1, <1>2, <1>3, <1>4, <1>5, <1>6 DEF Next, Step

\* The inductive invariant holds in every state of the client.
THEOREM Invariance == Spec => []IInv
<1>1. Init => IInv
    BY InitIInv
<1>2. IInv /\ [Next]_vars => IInv'
    BY NextStep
<1> QED
    BY <1>1, <1>2, PTL DEF Spec

\* The members, the pointers and the frames of the calls keep their types, and
\* only a server is asked for the members (get_leader_stub).
THEOREM TypeCorrect == Spec => []TypeOK
<1>1. IInv => TypeOK
    BY DEF IInv
<1> QED
    BY <1>1, Invariance, PTL

\* Until the first RPC fails, every thread's pointer is the live leader stub,
\* for any number of threads.
THEOREM SharedUntilFailure == Spec => []SharedStubSafe
<1>1. IInv => SharedStubSafe
    BY DEF IInv, Quiet, SharedStubSafe
<1> QED
    BY <1>1, Invariance, PTL

\* Outages alone never leave get_leader_stub without a member to pick.
THEOREM EmptyPickCause == Spec => []EmptyPickHasCause
<1>1. IInv => EmptyPickHasCause
    BY DEF IInv
<1> QED
    BY <1>1, Invariance, PTL

-----------------------------------------------------------------------------
(* What is defined for a thread that is alone with the client.             *)

\* It leaves get_leader_stub with a stub, and nobody takes that away.
AloneInv ==
    (\A t, u \in Threads : t = u) =>
        /\ undefined \notin {"dead_stub", "dangling_member"}
        /\ \A t \in Threads :
            /\ pc[t] # "replaced"
            /\ pc[t] = "get" => stub # NoServer
            /\ pc[t] = "rpc" => frame[t].ptr.live

\* A step of the only thread, told by where it leads.
LEMMA AloneStep ==
    ASSUME NEW t \in Threads, \A u \in Threads : u = t, IInv, AloneInv,
           Step(t) \/ \E op \in Op : Call(t, op)
    PROVE  AloneInv'
<1>1. /\ DOMAIN pc = Threads /\ DOMAIN frame = Threads /\ frame[t] \in Frame
      /\ undefined \notin {"dead_stub", "dangling_member"}
      /\ pc[t] # "replaced"
      /\ pc[t] = "get" => stub # NoServer
      /\ pc[t] = "rpc" => frame[t].ptr.live
    BY DEF IInv, TypeOK, AloneInv
<1>2. SUFFICES /\ undefined' \notin {"dead_stub", "dangling_member"}
               /\ pc'[t] # "replaced"
               /\ pc'[t] = "get" => stub' # NoServer
               /\ pc'[t] = "rpc" => frame'[t].ptr.live
    BY DEF AloneInv
<1> USE DEF GoTo
<1>3. CASE CheckStub(t) \/ PickUrl(t) \/ AskMembersFails(t) \/ LoopOrLeave(t)
           \/ PickFromNothing(t)
    BY <1>1, <1>3 DEF CheckStub, PickUrl, AskMembersFails, LoopOrLeave, PickFromNothing, pool
<1>4. CASE ResetStub(t) \/ PickMember(t) \/ AskMembers(t) \/ ApplyMembers(t)
    BY <1>1, <1>4 DEF ResetStub, PickMember, AskMembers, ApplyMembers, UpdateLeader
<1>5. CASE GetStub(t)
    BY <1>1, <1>5 DEF GetStub, Frame
<1>6. CASE PickFromReplaced(t) \/ RpcOnDeadStub(t)
    BY <1>1, <1>6 DEF PickFromReplaced, RpcOnDeadStub
<1>7. CASE RpcOk(t) \/ RpcRetries(t) \/ RpcFails(t) \/ \E op \in Op : Call(t, op)
    BY <1>1, <1>7 DEF RpcOk, RpcRetries, RpcFails, Return, Call
<1> QED
    BY <1>3, <1>4, <1>5, <1>6, <1>7 DEF Step, GetLeaderStub, Rpc

\* The behaviour of the client is defined but for a pick from an empty list, if
\* one thread uses it: whatever fails, whenever PD changes.
THEOREM DefinedAlone == Spec => []AloneIsDefined
<1>1. Init => AloneInv
    BY DEF Init, AloneInv
<1>2. IInv /\ AloneInv /\ [Next]_vars => AloneInv'
    <2> SUFFICES ASSUME IInv, AloneInv, [Next]_vars, \A t, u \in Threads : t = u
                 PROVE  AloneInv'
        BY DEF AloneInv
    <2>1. ASSUME NEW t \in Threads, Step(t) \/ \E op \in Op : Call(t, op) PROVE AloneInv'
        BY <2>1, AloneStep
    <2>2. CASE Construct
        BY <2>2 DEF Construct, UpdateLeader, AloneInv
    <2>3. CASE PDChange
        BY <2>3 DEF PDChange, pool, AloneInv
    <2>4. CASE UNCHANGED vars
        BY <2>4 DEF vars, AloneInv
    <2> QED
        BY <2>1, <2>2, <2>3, <2>4 DEF Next
<1>3. AloneInv => AloneIsDefined
    BY DEF AloneInv, AloneIsDefined
<1> QED
    BY <1>1, <1>2, <1>3, Invariance, PTL DEF Spec

-----------------------------------------------------------------------------
(* The connection.                                                         *)

Named == {MemberTable[i].leader : i \in 1..epoch}
Use == [t \in Threads |-> frame[t].ptr.server]
Gone == {t \in Threads : frame[t].ptr.server # NoServer /\ ~frame[t].ptr.live}

\* Every step that changes neither PD's history nor the stub, and the pointer of
\* one thread at most, is a thread's own.
LEMMA OwnStep ==
    ASSUME UNCHANGED <<epoch, stub>>, NEW t \in Threads,
           \A u \in Threads \ {t} : frame'[u].ptr = frame[u].ptr,
           \/ frame'[t].ptr = frame[t].ptr
           \/ frame'[t].ptr = NoPointer
           \/ frame'[t].ptr = [server |-> stub, live |-> stub # NoServer]
    PROVE  [Connection!Next]_Connection!vars
<1>1. UNCHANGED <<Named, stub>>
    BY DEF Named
<1>2. \A u \in Threads \ {t} : Use'[u] = Use[u]
    BY DEF Use
<1>3. Use = [u \in Threads |-> Use[u]] /\ Use' = [u \in Threads |-> Use'[u]]
    BY DEF Use
<1>4. CASE frame'[t].ptr = frame[t].ptr
    <2>1. Use' = Use /\ Gone' = Gone
        BY <1>4 DEF Use, Gone
    <2> QED
        BY <1>1, <2>1 DEF Connection!vars, Named, Use, Gone
<1>5. CASE frame'[t].ptr = NoPointer
    <2>1. Use'[t] = NoServer
        BY <1>5 DEF Use, NoPointer
    <2>2. Use' = [Use EXCEPT ![t] = NoServer]
        BY <1>2, <1>3, <2>1
    <2>3. Gone' = Gone \ {t}
        BY <1>5 DEF Gone, NoPointer
    <2>4. Connection!GiveUp(t)
        BY <1>1, <2>2, <2>3 DEF Connection!GiveUp, Named, Use, Gone
    <2> QED
        BY <2>4 DEF Connection!Next
<1>6. CASE frame'[t].ptr = [server |-> stub, live |-> stub # NoServer]
    <2>1. Use'[t] = stub
        BY <1>6 DEF Use
    <2>2. Use' = [Use EXCEPT ![t] = stub]
        BY <1>2, <1>3, <2>1
    <2>3. Gone' = Gone \ {t}
        <3>1. ~(frame'[t].ptr.server # NoServer /\ ~frame'[t].ptr.live)
            <4>1. /\ frame'[t].ptr.server = stub
                  /\ frame'[t].ptr.live = (stub # NoServer)
                BY <1>6
            <4> QED
                BY <4>1, Zenon
        <3> QED
            BY <3>1 DEF Gone
    <2>4. Connection!Take(t)
        BY <1>1, <2>2, <2>3 DEF Connection!Take, Named, Use, Gone
    <2> QED
        BY <2>4 DEF Connection!Next
<1> QED
    BY <1>4, <1>5, <1>6

\* An answer of PD makes the connection where there is none, and is otherwise
\* without effect on it.
LEMMA AnswerConnects ==
    ASSUME IInv, NEW i \in DOMAIN MemberTable, i <= epoch, UpdateLeader(MemberTable[i]),
           UNCHANGED <<epoch, frame>>
    PROVE  [Connection!Next]_Connection!vars
<1>1. UNCHANGED <<Named, Use, Gone>>
    BY DEF Named, Use, Gone
<1>2. CASE stub' = stub
    BY <1>1, <1>2 DEF Connection!vars, Named, Use, Gone
<1>3. CASE stub' # stub
    <2>1. stub = NoServer /\ stub' = MemberTable[i].leader
        BY <1>3 DEF UpdateLeader
    <2>2. i \in 1..epoch
        BY TableFacts DEF IInv, TypeOK
    <2>3. stub' \in Named
        BY <2>1, <2>2 DEF Named
    <2>4. Connection!Connect
        BY <1>1, <2>1, <2>3 DEF Connection!Connect, Named, Use, Gone
    <2> QED
        BY <2>4 DEF Connection!Next
<1> QED
    BY <1>2, <1>3

LEMMA ConnectionStep ==
    ASSUME IInv, NEW t \in Threads, Step(t) \/ \E op \in Op : Call(t, op)
    PROVE  [Connection!Next]_Connection!vars
<1>1. frame \in [Threads -> Frame]
    BY DEF IInv, TypeOK
<1>2. CASE ApplyMembers(t)
    <2> DEFINE i == frame[t].answer
    <2>1. i \in DOMAIN MemberTable /\ i <= epoch
        BY <1>2 DEF ApplyMembers, IInv, TypeOK, Frame, PoolFilled
    <2> QED
        BY <1>2, <2>1, AnswerConnects DEF ApplyMembers
<1>3. CASE ResetStub(t)
    <2>1. ASSUME NEW u \in Threads
          PROVE  ~frame'[u].ptr.live /\ frame'[u].ptr.server = frame[u].ptr.server
        <3>1. frame'[u] = [frame[u] EXCEPT !.ptr = [frame[u].ptr EXCEPT !.live = FALSE]]
            BY <1>3 DEF ResetStub
        <3> QED
            BY <1>1, <3>1 DEF Frame
    <2>2. /\ UNCHANGED <<Named, Use>> /\ stub' = NoServer
          /\ Gone' = {u \in Threads : Use[u] # NoServer}
        BY <1>3, <2>1 DEF ResetStub, Use, Gone, Named
    <2>3. Connection!Drop
        BY <2>2 DEF Connection!Drop, Named, Use, Gone
    <2> QED
        BY <2>3 DEF Connection!Next
<1>4. CASE PickMember(t) \/ AskMembers(t)
    <2>1. PICK f \in {frame'[t]} :
            /\ frame' = [frame EXCEPT ![t] = f] /\ f.ptr = frame[t].ptr
        BY <1>1, <1>4 DEF PickMember, AskMembers, Frame
    <2>2. UNCHANGED <<epoch, stub>>
        BY <1>4 DEF PickMember, AskMembers, pool
    <2> QED
        BY <1>1, <2>1, <2>2, OwnStep
<1>5. CASE GetStub(t)
    <2>1. /\ UNCHANGED <<epoch, stub>>
          /\ frame' = [frame EXCEPT ![t].ptr = [server |-> stub, live |-> stub # NoServer]]
        BY <1>5 DEF GetStub, pool
    <2>2. /\ frame'[t].ptr = [server |-> stub, live |-> stub # NoServer]
          /\ \A u \in Threads \ {t} : frame'[u].ptr = frame[u].ptr
        BY <1>1, <2>1 DEF Frame
    <2> QED
        BY <2>1, <2>2, OwnStep
<1>6. CASE RpcOk(t) \/ RpcRetries(t) \/ RpcFails(t) \/ \E op \in Op : Call(t, op)
    <2>1. UNCHANGED <<epoch, stub>>
        BY <1>6 DEF RpcOk, RpcRetries, RpcFails, Return, Call, pool
    <2>2. \A u \in Threads \ {t} : frame'[u].ptr = frame[u].ptr
        BY <1>1, <1>6 DEF RpcOk, RpcRetries, RpcFails, Return, Call
    <2>3. frame'[t].ptr = NoPointer
        BY <1>1, <1>6 DEF RpcOk, RpcRetries, RpcFails, Return, Call, Frame, NoFrame
    <2> QED
        BY <2>1, <2>2, <2>3, OwnStep
<1>7. CASE UNCHANGED <<epoch, stub, frame>>
    BY <1>7, OwnStep
<1> QED
    BY <1>2, <1>3, <1>4, <1>5, <1>6, <1>7
    DEF Step, GetLeaderStub, Rpc, CheckStub, PickUrl, PickFromNothing, PickFromReplaced,
        AskMembersFails, LoopOrLeave, RpcOnDeadStub, pool

\* The client implements the connection, for any number of threads that use
\* it without a lock.
THEOREM ImplementsConnection == Spec => IsConnection
<1>1. Init => Connection!Init
    BY DEF Init, NoFrame, NoPointer, Connection!Init, Connection!Unused
<1>2. IInv /\ [Next]_vars => [Connection!Next]_Connection!vars
    <2> SUFFICES ASSUME IInv, [Next]_vars PROVE [Connection!Next]_Connection!vars
        OBVIOUS
    <2>1. ASSUME NEW t \in Threads, Step(t) \/ \E op \in Op : Call(t, op)
          PROVE  [Connection!Next]_Connection!vars
        BY <2>1, ConnectionStep
    <2>2. CASE Construct
        <3>1. epoch \in DOMAIN MemberTable /\ epoch <= epoch
            BY TableFacts DEF IInv, TypeOK
        <3>2. CASE UpdateLeader(MemberTable[epoch])
            BY <2>2, <3>1, <3>2, AnswerConnects DEF Construct
        <3>3. CASE UNCHANGED pool
            BY <2>2, <3>3 DEF Construct, pool, Connection!vars
        <3> QED
            BY <2>2, <3>2, <3>3 DEF Construct, Now
    <2>3. CASE PDChange
        <3>1. epoch' = epoch + 1 /\ epoch \in Nat /\ UNCHANGED <<stub, frame>>
            BY <2>3, TableFacts DEF PDChange, pool, IInv, TypeOK
        <3>2. Named \subseteq Named'
            BY <3>1 DEF Named
        <3> QED
            BY <3>1, <3>2 DEF Connection!Next, Connection!Name, Named
    <2>4. CASE UNCHANGED vars
        BY <2>4 DEF vars, Connection!vars
    <2> QED
        BY <2>1, <2>2, <2>3, <2>4 DEF Next
<1> QED
    BY <1>1, <1>2, Invariance, PTL DEF Spec, IsConnection, Connection!Spec

-----------------------------------------------------------------------------
(* The retry of a thread that is alone with the client.                    *)

\* While nothing changes in PD, a forced retry goes from no stub, by an answer
\* of PD as it is, to a stub of its leader.
Retried(t) ==
    (frame[t].retry /\ steady[t]) =>
        /\ pc[t] = "check" => frame[t].force
        /\ pc[t] \in {"pick", "url", "ask", "update"} => stub = NoServer
        /\ pc[t] = "update" => frame[t].answer = epoch
        /\ pc[t] = "loop" => stub \in {NoServer, Now.leader}
        /\ pc[t] = "get" => stub = Now.leader /\ stub # NoServer
        /\ pc[t] = "rpc" => frame[t].ptr.server = Now.leader /\ frame[t].ptr.server # NoServer

\* A call that is under way is one of the client's.
UnderWay(t) ==
    pc[t] \notin {"new", "idle"} => frame[t].op \in Op

RetryInv ==
    \A t \in Threads : Retried(t) /\ UnderWay(t)

LEMMA InitRetryInv == Init => RetryInv
BY DEF Init, NoFrame, RetryInv, Retried, UnderWay

\* A step that leaves the frames alone.
LEMMA WalkStep ==
    ASSUME NEW one, Threads = {one}, IInv, RetryInv,
           UNCHANGED <<frame, steady, epoch>>, pc[one] # "new", pc[one] # "idle",
           Retried(one)'
    PROVE  RetryInv'
BY DEF IInv, TypeOK, RetryInv, UnderWay

LEMMA LoopStep ==
    ASSUME NEW one, Threads = {one}, IInv, RetryInv,
           CheckStub(one) \/ PickUrl(one) \/ PickFromNothing(one) \/ PickFromReplaced(one)
           \/ AskMembersFails(one) \/ LoopOrLeave(one) \/ RpcOnDeadStub(one)
           \/ ApplyMembers(one)
    PROVE  RetryInv'
<1>1. /\ UNCHANGED <<frame, steady, epoch>> /\ pc[one] # "new" /\ pc[one] # "idle"
      /\ DOMAIN pc = Threads
    BY DEF CheckStub, PickUrl, PickFromNothing, PickFromReplaced, AskMembersFails,
           LoopOrLeave, RpcOnDeadStub, ApplyMembers, history, IInv, TypeOK
<1>2. CASE ApplyMembers(one)
    <2> DEFINE view == MemberTable[frame[one].answer]
    <2>1. pc'[one] = "loop" /\ pc[one] = "update"
        BY <1>2 DEF ApplyMembers
    <2>2. stub = NoServer => stub' = view.leader
        BY <1>2 DEF ApplyMembers, UpdateLeader
    <2>3. Retried(one)'
        BY <1>1, <2>1, <2>2 DEF RetryInv, Retried, Now
    <2> QED
        BY <1>1, <2>3, WalkStep
<1>3. CASE \/ CheckStub(one) \/ PickUrl(one) \/ PickFromNothing(one) \/ PickFromReplaced(one)
           \/ AskMembersFails(one) \/ LoopOrLeave(one) \/ RpcOnDeadStub(one)
    <2>1. stub' = stub
        BY <1>3 DEF CheckStub, PickUrl, PickFromNothing, PickFromReplaced, AskMembersFails,
                    LoopOrLeave, RpcOnDeadStub, pool
    <2>2. Retried(one)'
        BY <1>1, <1>3, <2>1
        DEF CheckStub, PickUrl, PickFromNothing, PickFromReplaced, AskMembersFails,
            LoopOrLeave, RpcOnDeadStub, GoTo, RetryInv, Retried, Now
    <2> QED
        BY <1>1, <2>2, WalkStep
<1> QED
    BY <1>2, <1>3

\* The steps that write to the frame of the call.
LEMMA FrameStep ==
    ASSUME NEW one, Threads = {one}, \A op \in Op : Forces(op), IInv, RetryInv,
           ResetStub(one) \/ PickMember(one) \/ AskMembers(one) \/ GetStub(one)
           \/ (\E op \in Op : Call(one, op))
           \/ RpcOk(one) \/ RpcRetries(one) \/ RpcFails(one)
    PROVE  RetryInv'
<1> DEFINE f == frame[one]
<1>1. /\ frame \in [Threads -> Frame] /\ f \in Frame
      /\ DOMAIN pc = Threads /\ steady \in [Threads -> BOOLEAN]
      /\ Retried(one) /\ UnderWay(one)
    BY DEF IInv, TypeOK, RetryInv
<1>2. SUFFICES /\ Retried(one)' /\ UnderWay(one)'
    BY DEF RetryInv
<1> USE <1>1
<1>3. CASE ResetStub(one)
    <2>1. frame'[one] = [f EXCEPT !.ptr = [f.ptr EXCEPT !.live = FALSE]]
        BY <1>3 DEF ResetStub
    <2>2. /\ frame'[one].retry = f.retry /\ frame'[one].op = f.op
        BY <2>1 DEF Frame
    <2>3. /\ pc[one] = "reset" /\ pc'[one] = "pick" /\ stub' = NoServer
          /\ UNCHANGED <<epoch, steady>>
        BY <1>3 DEF ResetStub, GoTo, history
    <2> QED
        BY <2>2, <2>3 DEF Retried, UnderWay
<1>4. CASE PickMember(one)
    <2>1. PICK m \in members : frame' = [frame EXCEPT ![one].target = m]
        BY <1>4 DEF PickMember
    <2>2. /\ frame'[one].retry = f.retry /\ frame'[one].op = f.op
        BY <2>1 DEF Frame
    <2>3. /\ pc[one] = "pick" /\ pc'[one] = "url" /\ UNCHANGED <<stub, epoch, steady>>
        BY <1>4 DEF PickMember, GoTo, pool, history
    <2> QED
        BY <2>2, <2>3 DEF Retried, UnderWay
<1>5. CASE AskMembers(one)
    <2>1. frame' = [frame EXCEPT ![one].answer = epoch]
        BY <1>5 DEF AskMembers
    <2>2. /\ frame'[one].retry = f.retry /\ frame'[one].op = f.op
          /\ frame'[one].answer = epoch
        BY <2>1 DEF Frame
    <2>3. /\ pc[one] = "ask" /\ pc'[one] = "update" /\ UNCHANGED <<stub, epoch, steady>>
        BY <1>5 DEF AskMembers, GoTo, pool, history
    <2> QED
        BY <2>2, <2>3 DEF Retried, UnderWay
<1>6. CASE GetStub(one)
    <2>1. frame' = [frame EXCEPT ![one].ptr = [server |-> stub, live |-> stub # NoServer]]
        BY <1>6 DEF GetStub
    <2>2. /\ frame'[one].retry = f.retry /\ frame'[one].op = f.op
          /\ frame'[one].ptr.server = stub
        BY <2>1 DEF Frame
    <2>3. /\ pc[one] = "get" /\ pc'[one] = "rpc" /\ UNCHANGED <<stub, epoch, steady>>
        BY <1>6 DEF GetStub, GoTo, pool, history
    <2> QED
        BY <2>2, <2>3 DEF Retried, UnderWay, Now
<1>7. ASSUME NEW op \in Op, Call(one, op)
      PROVE  /\ Retried(one)' /\ UnderWay(one)'
    <2>1. frame'[one] = [NoFrame EXCEPT !.op = op]
        BY <1>7 DEF Call
    <2>2. ~frame'[one].retry /\ frame'[one].op = op
        BY <2>1 DEF NoFrame
    <2> QED
        BY <2>2 DEF Retried, UnderWay
<1>8. CASE RpcOk(one) \/ RpcFails(one)
    <2>1. frame'[one] = NoFrame /\ pc'[one] = "idle"
        BY <1>8 DEF RpcOk, RpcFails, Return, GoTo
    <2>2. ~frame'[one].retry
        BY <2>1 DEF NoFrame
    <2> QED
        BY <2>1, <2>2 DEF Retried, UnderWay
<1>9. CASE RpcRetries(one)
    <2>1. frame' = [frame EXCEPT ![one].retry = TRUE, ![one].force = Forces(f.op),
                                 ![one].ptr = NoPointer]
        BY <1>9 DEF RpcRetries
    <2>2. pc[one] = "rpc" /\ pc'[one] = "check"
        BY <1>9 DEF RpcRetries, GoTo
    <2>3. f.op \in Op
        BY <2>2 DEF UnderWay
    <2>4. frame'[one].force = Forces(f.op) /\ frame'[one].op = f.op
        BY <2>1 DEF Frame
    <2>5. frame'[one].force
        BY <2>3, <2>4
    <2> QED
        BY <2>2, <2>3, <2>4, <2>5 DEF Retried, UnderWay
<1> QED
    BY <1>3, <1>4, <1>5, <1>6, <1>7, <1>8, <1>9

\* If one thread uses the client, and only for calls whose retry forces, its
\* retry reaches the leader unless PD changes again.
THEOREM RetryIsUseful ==
    ASSUME NEW one, Threads = {one}, \A op \in Op : Forces(op)
    PROVE  Spec => []RetryReachesLeader
<1>1. Init => RetryInv
    BY InitRetryInv
<1>2. IInv /\ RetryInv /\ [Next]_vars => RetryInv'
    <2> SUFFICES ASSUME IInv, RetryInv, [Next]_vars PROVE RetryInv'
        OBVIOUS
    <2>1. ASSUME NEW t \in Threads, Step(t) \/ \E op \in Op : Call(t, op) PROVE RetryInv'
        <3>1. t = one
            OBVIOUS
        <3>2. CASE Step(one)
            BY <3>2, LoopStep, FrameStep DEF Step, GetLeaderStub, Rpc
        <3>3. CASE \E op \in Op : Call(one, op)
            BY <3>3, FrameStep
        <3> QED
            BY <2>1, <3>1, <3>2, <3>3
    <2>2. CASE Construct
        <3>1. pc'[one] = "idle" /\ UNCHANGED <<frame, steady>>
            BY <2>2 DEF Construct
        <3> QED
            BY <3>1 DEF RetryInv, Retried, UnderWay
    <2>3. CASE PDChange
        <3>1. /\ UNCHANGED <<pc, frame>> /\ steady' = [t \in Threads |-> FALSE]
            BY <2>3 DEF PDChange
        <3> QED
            BY <3>1 DEF RetryInv, Retried, UnderWay
    <2>4. CASE UNCHANGED vars
        BY <2>4 DEF vars, RetryInv, Retried, UnderWay, Now
    <2> QED
        BY <2>1, <2>2, <2>3, <2>4 DEF Next
<1>3. IInv /\ RetryInv => RetryReachesLeader
    BY MemberTableAssumption DEF IInv, TypeOK, RetryInv, Retried, RetryReachesLeader, Reaches, Now
<1> QED
    BY <1>1, <1>2, <1>3, Invariance, PTL DEF Spec

=============================================================================
