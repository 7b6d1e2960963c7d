----------------------------- MODULE WithdrawalEscrow -----------------------------
(***************************************************************************)
(* What the withdrawal queue promises to the holder of a request: requests *)
(* are settled in the order they came in, each for some amount of ether    *)
(* not above what was asked, that amount never changes again, and it is    *)
(* paid once, to whoever owns the request by then.                         *)
(***************************************************************************)
EXTENDS Integers, Sequences

CONSTANT Owners

VARIABLES entries,    \* entries[i] = [owner, amount], in order of arrival
          worth,      \* worth[i], the ether request i is settled for
          paid,       \* ids of the requests paid out
          paidOut     \* all ether paid

vars == <<entries, worth, paid, paidOut>>

Init ==
  /\ entries = << >> /\ worth = << >>
  /\ paid = {} /\ paidOut = 0

Enter ==
  /\ Len(entries') = Len(entries) + 1
  /\ SubSeq(entries', 1, Len(entries)) = entries
  /\ entries'[Len(entries')].owner \in Owners
  /\ UNCHANGED <<worth, paid, paidOut>>

\* Some of the oldest open requests are settled.
Settle ==
  /\ Len(worth') \in Len(worth) + 1..Len(entries)
  /\ SubSeq(worth', 1, Len(worth)) = worth
  /\ \A i \in Len(worth) + 1..Len(worth') : worth'[i] \in 0..entries[i].amount
  /\ UNCHANGED <<entries, paid, paidOut>>

Pay(i) ==
  /\ i \notin paid
  /\ paid' = paid \cup {i}
  /\ paidOut' = paidOut + worth[i]
  /\ UNCHANGED <<entries, worth>>

HandOver(i, to) ==
  /\ i \notin paid
  /\ entries' = [entries EXCEPT ![i].owner = to]
  /\ UNCHANGED <<worth, paid, paidOut>>

Next ==
  \/ Enter
  \/ Settle
  \/ \E i \in DOMAIN worth : Pay(i)
  \/ \E i \in DOMAIN entries, to \in Owners : HandOver(i, to)

Spec == Init /\ [][Next]_vars
===================================================================================
