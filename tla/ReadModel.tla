------------------------------ MODULE ReadModel ------------------------------
(***************************************************************************)
(* What a read model promises about a source, with no outbox, event or     *)
(* projector in sight.  The writes of a key are numbered, and a deletion   *)
(* is the last of them.  What is shown of a key is the content of one of   *)
(* its writes.  A write is acknowledged only while its content is shown,   *)
(* and once it is, no earlier one is shown again.                          *)
(***************************************************************************)
EXTENDS Naturals

CONSTANTS
    Keys,
    Contents,
    Numbers,       \* the numbers writes may have
    None           \* deleted, or not there yet

VARIABLES
    writes,        \* the writes of the source: key, number and content
    acknowledged,  \* those the view has acknowledged
    shown          \* what it shows of each key

modelVars == <<writes, acknowledged, shown>>

ModelInit ==
    /\ writes = {}
    /\ acknowledged = {}
    /\ shown = [k \in Keys |-> None]

Write(k, n, c) ==
    /\ \A w \in writes : w.key = k => w.number < n /\ w.content # None
    /\ writes' = writes \union {[key |-> k, number |-> n, content |-> c]}
    /\ UNCHANGED <<acknowledged, shown>>

NotBehind(w) == \A a \in acknowledged : a.key = w.key => a.number <= w.number

Show(w) ==
    /\ NotBehind(w)
    /\ shown' = [shown EXCEPT ![w.key] = w.content]
    /\ UNCHANGED <<writes, acknowledged>>

Acknowledge(w) ==
    /\ NotBehind(w)
    /\ shown[w.key] = w.content
    /\ acknowledged' = acknowledged \union {w}
    /\ UNCHANGED <<writes, shown>>

ModelNext ==
    \/ \E k \in Keys, n \in Numbers, c \in Contents \union {None} : Write(k, n, c)
    \/ \E w \in writes : Show(w) \/ Acknowledge(w)

ModelSpec == ModelInit /\ [][ModelNext]_modelVars
=============================================================================
