------------------------------ MODULE CommitteeVoting -----------------------------
(***************************************************************************)
(* What the oracle promises, without counters, variant tables or stored    *)
(* reports: in each frame every member of the committee has at most one    *)
(* vote, and the only report that can be processed is one a quorum of the  *)
(* current members votes for at that moment; one report per frame.         *)
(***************************************************************************)
EXTENDS Integers, FiniteSets

CONSTANTS Addresses, Hashes, NoVote

VARIABLES refSlot,    \* reference slot of the current frame, 0 before the first
          committee,  \* the members
          quorum,
          vote,       \* each address's vote in the current frame
          processed   \* reference slot of the last processed report

vars == <<refSlot, committee, quorum, vote, processed>>

Supporters(h) == {a \in committee : vote[a] = h}

Agreed == {h \in Hashes : Cardinality(Supporters(h)) >= quorum}

Init ==
  /\ refSlot = 0
  /\ committee = {}
  /\ quorum = 0
  /\ vote = [a \in Addresses |-> NoVote]
  /\ processed = 0

\* A later frame starts; the votes of the previous one are void.
NewFrame ==
  /\ refSlot' \in Nat
  /\ refSlot' > refSlot
  /\ vote' = [a \in Addresses |-> NoVote]
  /\ UNCHANGED <<committee, quorum, processed>>

\* A member votes or changes its vote, while the frame's report is not processed.
Vote(a, h) ==
  /\ a \in committee
  /\ processed < refSlot
  /\ vote' = [vote EXCEPT ![a] = h]
  /\ UNCHANGED <<refSlot, committee, quorum, processed>>

\* The committee or its quorum changes.  Those who leave lose their vote,
\* those who join have none, and a quorum is always a majority.
Reform(c) ==
  /\ committee' = c
  /\ quorum' \in Nat
  /\ quorum' > Cardinality(c) \div 2
  /\ vote' = [a \in Addresses |-> IF a \in committee \cap c THEN vote[a] ELSE NoVote]
  /\ UNCHANGED <<refSlot, processed>>

Process(h) ==
  /\ h \in Agreed
  /\ processed < refSlot
  /\ processed' = refSlot
  /\ UNCHANGED <<refSlot, committee, quorum, vote>>

Next ==
  \/ NewFrame
  \/ \E a \in Addresses, h \in Hashes : Vote(a, h)
  \/ \E c \in SUBSET Addresses : Reform(c)
  \/ \E h \in Hashes : Process(h)

Spec == Init /\ [][Next]_vars
===================================================================================
