---------------------------- MODULE CalendarSteps ----------------------------
(***************************************************************************)
(* ns3::CalendarScheduler with its loops taken step by step, for a client  *)
(* that keeps its side of the contract of Scheduler.  A resize takes some  *)
(* events as samples (CalculateNewWidth), puts them back, and deals all    *)
(* events to new buckets (DoResize).  The new width is any positive        *)
(* number: the estimate made of the samples is at least one.               *)
(***************************************************************************)
EXTENDS Calendar

VARIABLES
    cal,      \* the calendar
    call,     \* where the call under way is: "none", "up" or "down" (about to
              \* resize or not), "sample", "putBack", "deal"
    newSize,  \* the number of buckets to resize to
    saved,    \* the calendar when CalculateNewWidth began
    samples,  \* the samples not yet put back
    old,      \* the old buckets, less what was dealt
    given,    \* the key of the event last taken
    held      \* History: the events inserted and not yet taken or removed

rvars == <<newSize, saved, samples, old>>
cvars == <<cal, call, rvars, given, held>>

CalInit ==
    /\ cal = EmptyCalendar
    /\ call = "none"
    /\ newSize = 2 /\ saved = EmptyCalendar /\ samples = <<>> /\ old = <<>>
    /\ given = [ts |-> 0, uid |-> 0]
    /\ held = {}

CalInsert(ev) ==
    /\ call = "none" /\ call' = "up"
    /\ Less(given, ev) /\ \A f \in held : f.uid # ev.uid
    /\ cal' = [DoInsert(cal, ev) EXCEPT !.qSize = @ + 1]
    /\ held' = held \cup {ev}
    /\ UNCHANGED <<rvars, given>>

CalTake ==
    /\ call = "none" /\ call' = "down"
    /\ cal.qSize # 0
    /\ given' = PeekNext(cal)
    /\ cal' = [DoRemoveNext(cal) EXCEPT !.qSize = @ - 1]
    /\ held' = held \ {given'}
    /\ UNCHANGED rvars

CalRemove(ev) ==
    /\ call = "none" /\ call' = "down"
    /\ cal' = [cal EXCEPT !.buckets[Hash(cal, ev.ts)] = SortedRemove(@, ev),
                          !.qSize = @ - 1]
    /\ held' = held \ {ev}
    /\ UNCHANGED <<rvars, given>>

\* Whether ResizeUp and ResizeDown resize.
Overfull(c)  == c.qSize > 2 * NBuckets(c) /\ NBuckets(c) < MaxBuckets
Underfull(c) == c.qSize < NBuckets(c) \div 2

BeginResize(size) ==
    /\ call' = "sample"
    /\ newSize' = size
    /\ saved' = cal
    /\ UNCHANGED <<samples, old>>

NoResize == call' = "none" /\ UNCHANGED rvars

CalResize ==
    /\ \/ call = "up" /\ Overfull(cal) /\ BeginResize(2 * NBuckets(cal))
       \/ call = "down" /\ Underfull(cal) /\ BeginResize(NBuckets(cal) \div 2)
       \/ call = "up" /\ ~Overfull(cal) /\ NoResize
       \/ call = "down" /\ ~Underfull(cal) /\ NoResize
    /\ UNCHANGED <<cal, given, held>>

\* CalculateNewWidth takes one event more, or enough are taken.
TakeSample ==
    /\ call = "sample"
    /\ IF cal.qSize >= 2 /\ Len(samples) < NSamples(cal)
         THEN /\ cal' = DoRemoveNext(cal)
              /\ samples' = Append(samples, PeekNext(cal))
              /\ UNCHANGED call
         ELSE /\ call' = "putBack"
              /\ UNCHANGED <<cal, samples>>
    /\ UNCHANGED <<newSize, saved, old, given, held>>

PutBack ==
    /\ call = "putBack" /\ samples # <<>>
    /\ cal' = DoInsert(cal, Head(samples))
    /\ samples' = Tail(samples)
    /\ UNCHANGED <<call, newSize, saved, old, given, held>>

\* DoResize sets the old buckets aside and begins with new ones.
SetAside ==
    /\ call = "putBack" /\ samples = <<>> /\ call' = "deal"
    /\ old' = cal.buckets
    /\ \E width \in Nat \ {0} :
          cal' = NewCalendar(newSize, width, saved.lastPrio, cal.qSize)
    /\ UNCHANGED <<newSize, saved, samples, given, held>>

\* The old buckets in turn, each from its front.
Deal ==
    /\ call = "deal"
    /\ \E i \in DOMAIN old :
          /\ old[i] # <<>> /\ \A j \in DOMAIN old : j < i => old[j] = <<>>
          /\ cal' = DoInsert(cal, Head(old[i]))
          /\ old' = [old EXCEPT ![i] = Tail(@)]
    /\ UNCHANGED <<call, newSize, saved, samples, given, held>>

EndDeal ==
    /\ call = "deal" /\ call' = "none"
    /\ \A i \in DOMAIN old : old[i] = <<>>
    /\ old' = <<>>
    /\ UNCHANGED <<cal, newSize, saved, samples, given, held>>

CalNext == \/ \E ts, uid \in Nat : CalInsert([ts |-> ts, uid |-> uid])
           \/ CalTake
           \/ \E ev \in held : CalRemove(ev)
           \/ CalResize \/ TakeSample \/ PutBack \/ SetAside \/ Deal \/ EndDeal

CalSpec == CalInit /\ [][CalNext]_cvars
-----------------------------------------------------------------------------
(* Properties. *)

\* Between two calls every event held is in the bucket of its day and nothing
\* else is, the buckets are in order, the counter is the number of events, and
\* the search starts at the day of the last event taken, which none precedes.
Rested == call = "none" =>
    /\ UNION {{cal.buckets[i][j] : j \in DOMAIN cal.buckets[i]} :
                 i \in DOMAIN cal.buckets} = held
    /\ cal.qSize = Cardinality(held)
    /\ cal.lastBucket = Hash(cal, given.ts) /\ cal.bucketTop = Day(cal, given.ts)
    /\ \A i \in DOMAIN cal.buckets :
          /\ IsSorted(cal.buckets[i])
          /\ \A j \in DOMAIN cal.buckets[i] :
                /\ Hash(cal, cal.buckets[i][j].ts) = i
                /\ cal.buckets[i][j].ts >= given.ts

\* Taking the samples and putting them back leaves the calendar as it was, with
\* the three members restored that CalculateNewWidth saves.
Restored == call = "putBack" /\ samples = <<>> =>
    [cal EXCEPT !.lastPrio   = saved.lastPrio,
                !.lastBucket = saved.lastBucket,
                !.bucketTop  = saved.bucketTop] = saved

CalContract == INSTANCE Scheduler WITH queue <- held, last <- given
=============================================================================
