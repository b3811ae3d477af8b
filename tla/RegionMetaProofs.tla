-------------------------- MODULE RegionMetaProofs --------------------------
(***************************************************************************)
(* Facts about the records of RegionMeta that the proofs about its users   *)
(* share.                                                                  *)
(***************************************************************************)
EXTENDS RegionMeta, TLAPS

\* RegionVerID::operator< is a strict total order on versions, as std::map
\* needs of its key (include/meta.h:22-32).
THEOREM VerIDOrder ==
    \A a, b, c \in VerID :
        /\ ~VerLess(a, a)
        /\ VerLess(a, b) /\ VerLess(b, c) => VerLess(a, c)
        /\ a = b \/ VerLess(a, b) \/ VerLess(b, a)
<1> SUFFICES ASSUME NEW a \in VerID, NEW b \in VerID, NEW c \in VerID
             PROVE  /\ ~VerLess(a, a)
                    /\ VerLess(a, b) /\ VerLess(b, c) => VerLess(a, c)
                    /\ a = b \/ VerLess(a, b) \/ VerLess(b, a)
    OBVIOUS
<1>1. ~VerLess(a, a)
    BY DEF VerLess, VerID
<1>2. VerLess(a, b) /\ VerLess(b, c) => VerLess(a, c)
    BY DEF VerLess, VerID
<1>3. a = b \/ VerLess(a, b) \/ VerLess(b, a)
    <2>1. a.id = b.id /\ a.ver = b.ver /\ a.conf_ver = b.conf_ver => a = b
        BY DEF VerID
    <2> QED
        BY <2>1 DEF VerLess, VerID
<1> QED
    BY <1>1, <1>2, <1>3

\* The switch_leader loops change the leader alone, and only to a peer.
LEMMA LeaderAmongPeers ==
    ASSUME NEW r \in Region, NEW matching \in SUBSET r.peers
    PROVE  [r EXCEPT !.leader = LeaderAmong(r, matching)] \in
               {x \in Region :
                   /\ x.ver_id = r.ver_id /\ x.peers = r.peers
                   /\ x.start_key = r.start_key /\ x.end_key = r.end_key
                   /\ x.leader \in r.peers \cup {r.leader}}
<1>1. LeaderAmong(r, matching) \in r.peers \cup {r.leader}
    BY DEF LeaderAmong
<1> QED
    BY <1>1 DEF Region

LEMMA SwitchLeaderKeeps ==
    ASSUME NEW r \in Region, NEW s
    PROVE  /\ SwitchLeader(r, s) \in Region
           /\ SwitchLeader(r, s).ver_id = r.ver_id
           /\ SwitchLeader(r, s).peers = r.peers
           /\ SwitchLeader(r, s).start_key = r.start_key
           /\ SwitchLeader(r, s).end_key = r.end_key
           /\ SwitchLeader(r, s).leader \in r.peers \cup {r.leader}
BY LeaderAmongPeers, {p \in r.peers : p.store_id = s} \in SUBSET r.peers
   DEF SwitchLeader

LEMMA SwitchLeaderByPeerIdKeeps ==
    ASSUME NEW r \in Region, NEW id
    PROVE  /\ SwitchLeaderByPeerId(r, id) \in Region
           /\ SwitchLeaderByPeerId(r, id).ver_id = r.ver_id
           /\ SwitchLeaderByPeerId(r, id).peers = r.peers
           /\ SwitchLeaderByPeerId(r, id).start_key = r.start_key
           /\ SwitchLeaderByPeerId(r, id).end_key = r.end_key
           /\ SwitchLeaderByPeerId(r, id).leader \in r.peers \cup {r.leader}
BY LeaderAmongPeers, {p \in r.peers : p.id = id} \in SUBSET r.peers
   DEF SwitchLeaderByPeerId

=============================================================================
