----------------------------- MODULE SortedList -----------------------------
(***************************************************************************)
(* Event lists kept in order: ns3::ListScheduler, and the one tree of      *)
(* ns3::MapScheduler, which as a set of keys needs no more than its first  *)
(* element.  CalendarScheduler keeps each of its buckets as such a list.   *)
(***************************************************************************)
EXTENDS Sequences, FiniteSetsExt, EventKey
SE == INSTANCE SequencesExt

\* Insert before the first entry that ev sorts before, else at the end.
SortedInsert(s, ev) ==
    LET later == {i \in DOMAIN s : Less(ev, s[i])}
    IN IF later = {} THEN Append(s, ev) ELSE SE!InsertAt(s, Min(later), ev)

\* Remove the first entry with the uid of ev.
SortedRemove(s, ev) == SE!RemoveFirstMatch(s, LAMBDA f : f.uid = ev.uid)

IsSorted(s) == \A i, j \in DOMAIN s : i < j => Less(s[i], s[j])

\* std::map::begin: the entry of the set S that no other sorts before.
Begin(S) == CHOOSE ev \in S : IsEarliest(ev, S)
=============================================================================
