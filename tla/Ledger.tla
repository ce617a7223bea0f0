------------------------------- MODULE Ledger -------------------------------
(***************************************************************************)
(* What ingestion promises, with no handler, lock or service row: results  *)
(* are stored one at a time and whole.  With a result go the changes from  *)
(* what some number of the results stored before it leave as the newest of *)
(* its target, and the open services of the hosts it lists; nothing but a  *)
(* result changes what is open.                                            *)
(***************************************************************************)
EXTENDS Integers, Sequences

CONSTANTS Hosts, Results, NoPorts, NoSnapshot, Recorded(_, _)

VARIABLES scan, changes, open

vars == <<scan, changes, open>>

Init == /\ scan = << >>
        /\ changes = << >>
        /\ open = [h \in Hosts |-> NoPorts]

Earlier(n, t) == {i \in DOMAIN scan : i <= n /\ scan[i].target = t}

\* Of the first n results, the snapshot of the one of t that started last.
Newest(n, t, s) ==
  \/ Earlier(n, t) = {} /\ s = NoSnapshot
  \/ \E i \in Earlier(n, t) :
       /\ \A k \in Earlier(n, t) : scan[k].started <= scan[i].started
       /\ s = scan[i].snap

Compared(new) ==
  \E n \in 0 .. Len(scan) :
    \E s \in {scan[i].snap : i \in DOMAIN scan} \cup {NoSnapshot} :
      /\ Newest(n, new.target, s)
      /\ changes' = Append(changes, Recorded(s, new.snap))

Store(new) ==
  /\ scan' = Append(scan, new)
  /\ Compared(new)
  /\ open' = [h \in Hosts |-> IF h \in DOMAIN new.snap THEN new.snap[h].ports
                                                       ELSE open[h]]

Next == \E new \in Results : Store(new)

Spec == Init /\ [][Next]_vars
=============================================================================
