------------------------------ MODULE Calendar ------------------------------
(***************************************************************************)
(* The calendar of ns3::CalendarScheduler.  Time is cut into days of       *)
(* width ticks, dealt in turn to the buckets, each a list in order.  The   *)
(* search for the next event starts at the day of the last one             *)
(* (lastBucket, which ends at bucketTop) and goes once around the buckets; *)
(* if no bucket has an event of its current day, the earliest of all their *)
(* first events is taken.  The number of buckets doubles and halves with   *)
(* the number of events, and each time the width is estimated anew.        *)
(*                                                                         *)
(* A calendar is a record of the members of the class.                     *)
(***************************************************************************)
EXTENDS Naturals, Sequences, FiniteSetsExt, SortedList

MaxBuckets == 32768

NBuckets(c) == Cardinality(DOMAIN c.buckets)

Hash(c, ts) == (ts \div c.width) % NBuckets(c)

Day(c, ts) == (ts \div c.width + 1) * c.width

NewCalendar(nBuckets, width, startPrio, qSize) ==
    [buckets    |-> [i \in 0..(nBuckets - 1) |-> <<>>],
     width      |-> width,
     lastPrio   |-> startPrio,
     lastBucket |-> (startPrio \div width) % nBuckets,
     bucketTop  |-> (startPrio \div width + 1) * width,
     qSize      |-> qSize]

EmptyCalendar == NewCalendar(2, 1, 0, 0)

DoInsert(c, ev) ==
    [c EXCEPT !.buckets[Hash(c, ev.ts)] = SortedInsert(@, ev)]

\* The buckets in the order of the search: k steps from lastBucket.
Bucket(c, k) == (c.lastBucket + k) % NBuckets(c)

\* A bug: events of later rounds are taken for events of the current day.
DueStepsAnyRound(c) == {k \in 0..(NBuckets(c) - 1) : c.buckets[Bucket(c, k)] # <<>>}

\* The steps whose bucket holds an event of its current day.
DueSteps(c) == {k \in 0..(NBuckets(c) - 1) :
              LET b == c.buckets[Bucket(c, k)]
              IN b # <<>> /\ Head(b).ts < c.bucketTop + k * c.width}

Fronts(c) == {Head(c.buckets[i]) : i \in {j \in DOMAIN c.buckets :
                                            c.buckets[j] # <<>>}}

\* What PeekNext returns: DoRemoveNext repeats its search.
PeekNext(c) == IF DueSteps(c) # {} THEN Head(c.buckets[Bucket(c, Min(DueSteps(c)))])
                              ELSE Begin(Fronts(c))

\* A bug: bucketTop is not moved to the day of the event found.
DoRemoveNextStaleTop(c) ==
    LET ev == PeekNext(c)
    IN [c EXCEPT !.buckets[Hash(c, ev.ts)] = Tail(@),
                 !.lastPrio   = ev.ts,
                 !.lastBucket = Hash(c, ev.ts)]

\* The calendar after DoRemoveNext.
DoRemoveNext(c) ==
    LET ev == PeekNext(c)
        k  == Min(DueSteps(c))
        i  == IF DueSteps(c) # {} THEN Bucket(c, k) ELSE Hash(c, ev.ts)
    IN [c EXCEPT !.buckets[i]   = Tail(@),
                 !.lastPrio     = ev.ts,
                 !.lastBucket   = i,
                 !.bucketTop    = IF DueSteps(c) # {} THEN @ + k * c.width
                                                      ELSE Day(c, ev.ts)]

\* How many events CalculateNewWidth looks at.
NSamples(c) == Min({25, IF c.qSize <= 5 THEN c.qSize ELSE 5 + c.qSize \div 10})
=============================================================================
