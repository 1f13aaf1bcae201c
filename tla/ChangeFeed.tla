------------------------------ MODULE ChangeFeed ------------------------------
(***************************************************************************)
(* What the push side of the sync engine promises, without transactions:   *)
(* versioned records, a feed of their changes and the answers given to     *)
(* operations, all three moving together in one atomic step.               *)
(***************************************************************************)
EXTENDS Integers

CONSTANTS Ent, OpId, NoAnswer

VARIABLES
    ver,        \* version of each record, 0 before it exists
    dead,       \* whether it is a tombstone
    feed,       \* published changes: [seq, ent, op, ver]
    answer      \* the answer given to each operation

feedVars == <<ver, dead, feed, answer>>

FeedInit ==
    /\ ver = [e \in Ent |-> 0]
    /\ dead = [e \in Ent |-> FALSE]
    /\ feed = {}
    /\ answer = [o \in OpId |-> NoAnswer]

\* The changes to publish tell every new version of every record, once, each
\* above the changes of that record published before.
Publishes(new) ==
    /\ \A e \in Ent : \A v \in ver[e] + 1 .. ver'[e] : \E n \in new : n.ent = e /\ n.ver = v
    /\ \A n \in new : n.ver \in ver[n.ent] + 1 .. ver'[n.ent]
    /\ \A m, n \in new : m.ent = n.ent /\ m.ver = n.ver => m = n
    /\ \A m \in feed \cup new, n \in new :
          m.ent = n.ent /\ m.ver < n.ver => m.seq < n.seq

\* A batch is accepted: records only gain versions, a tombstone stays one, an
\* answer once given stands.
Accept ==
    /\ \A e \in Ent : ver[e] <= ver'[e]
    /\ \A e \in Ent : dead[e] => dead'[e]
    /\ \A e \in Ent : dead'[e] # dead[e] => ver[e] < ver'[e]
    /\ feed \subseteq feed'
    /\ Publishes(feed' \ feed)
    /\ \A o \in OpId : answer[o] # NoAnswer => answer'[o] = answer[o]

FeedSpec == FeedInit /\ [][Accept]_feedVars
===============================================================================
