------------------------------ MODULE Polling ------------------------------
(***************************************************************************)
(* startPolling of escrow/monitor.ts: an interval that calls fetchFn and   *)
(* delivers its answer, whether or not the call before has been answered.  *)
(* Events are numbered; an answer holds those up to the last one emitted   *)
(* when the node gave it.                                                  *)
(***************************************************************************)
EXTENDS Calls, Naturals

CONSTANTS MaxIntervals, \* bound: calls of startPolling
          Poll,         \* the polls that can be in flight
          MaxEmitted    \* bound: events

ASSUME PollAssumption == MaxIntervals \in Nat /\ MaxEmitted \in Nat

Interval == 1 .. MaxIntervals

VARIABLES
  intervals,       \* the intervals that tick
  pollingInterval, \* pollingInterval, 0 for undefined
  intervalCount,   \* how often startPolling was called
  polling,         \* polling[p]: idle, fetching, answered
  answer,          \* answer[p]: the last event of p's answer
  emitted,         \* the events the contract has emitted
  newestShown,           \* history: the newest event the handlers were given
  backwards,       \* history: an older answer was delivered after a newer one
  overlapping,     \* history: two polls were in flight at a time
  restarted        \* history: startPolling was called while another interval ticked

pollVars == <<intervals, pollingInterval, intervalCount, polling, answer, emitted, newestShown,
              backwards, overlapping, restarted>>

PollTypeOK == /\ intervals \subseteq Interval /\ pollingInterval \in {0} \cup Interval
              /\ intervalCount \in 0 .. MaxIntervals
              /\ polling \in [Poll -> {"idle", "fetching", "answered"}]
              /\ answer \in [Poll -> 0 .. MaxEmitted]
              /\ emitted \in 0 .. MaxEmitted /\ newestShown \in 0 .. MaxEmitted
              /\ backwards \in BOOLEAN /\ overlapping \in BOOLEAN /\ restarted \in BOOLEAN

PollInit == /\ intervals = {} /\ pollingInterval = 0 /\ intervalCount = 0
            /\ polling = [p \in Poll |-> "idle"] /\ answer = [p \in Poll |-> 0]
            /\ emitted = 0 /\ newestShown = 0
            /\ backwards = FALSE /\ overlapping = FALSE /\ restarted = FALSE

-----------------------------------------------------------------------------
\* The interval that was there is neither cleared nor remembered.
startPolling ==
  /\ intervalCount < MaxIntervals /\ intervalCount' = intervalCount + 1
  /\ intervals' = intervals \cup {intervalCount'} /\ pollingInterval' = intervalCount'
  /\ restarted' = (restarted \/ intervals # {})
  /\ UNCHANGED <<polling, answer, emitted, newestShown, backwards, overlapping>>

stopPolling == /\ intervals' = intervals \ {pollingInterval}
               /\ UNCHANGED <<pollingInterval, intervalCount, polling, answer, emitted, newestShown,
                              backwards, overlapping, restarted>>

IntervalTicks(p) ==
  /\ intervals # {} /\ polling[p] = "idle"
  /\ polling' = [polling EXCEPT ![p] = "fetching"]
  /\ overlapping' = (overlapping \/ \E q \in Poll : polling[q] # "idle")
  /\ UNCHANGED <<intervals, pollingInterval, intervalCount, answer, emitted, newestShown, backwards, restarted>>

PollAnswered(p) ==
  /\ polling[p] = "fetching" /\ polling' = [polling EXCEPT ![p] = "answered"]
  /\ answer' = [answer EXCEPT ![p] = emitted]
  /\ UNCHANGED <<intervals, pollingInterval, intervalCount, emitted, newestShown, backwards,
                 overlapping, restarted>>

\* The error is logged and given to onError; the next tick is a new attempt.
PollFails(p) ==
  /\ polling[p] = "fetching" /\ polling' = [polling EXCEPT ![p] = "idle"]
  /\ UNCHANGED <<intervals, pollingInterval, intervalCount, answer, emitted, newestShown, backwards,
                 overlapping, restarted>>

\* Also after stopPolling.
PollDelivers(p) ==
  /\ polling[p] = "answered" /\ polling' = [polling EXCEPT ![p] = "idle"]
  /\ answer' = [answer EXCEPT ![p] = 0]
  /\ newestShown' = IF answer[p] > newestShown THEN answer[p] ELSE newestShown
  /\ backwards' = (backwards \/ answer[p] < newestShown)
  /\ UNCHANGED <<intervals, pollingInterval, intervalCount, emitted, overlapping, restarted>>

EventEmitted == /\ emitted < MaxEmitted /\ emitted' = emitted + 1
        /\ UNCHANGED <<intervals, pollingInterval, intervalCount, polling, answer, newestShown,
                       backwards, overlapping, restarted>>

PollNext == \/ startPolling \/ stopPolling \/ EventEmitted
            \/ \E p \in Poll : IntervalTicks(p) \/ PollAnswered(p) \/ PollFails(p) \/ PollDelivers(p)

PollSpec == PollInit /\ [][PollNext]_pollVars

-----------------------------------------------------------------------------
\* If startPolling is not called while an interval ticks, the one that ticks is the one that
\* stopPolling clears; and the handlers see events go forward unless two polls were in
\* flight together, which a fetchFn slower than the interval is enough for.
PollsAreOwned ==
  /\ ~restarted => intervals \subseteq {pollingInterval}
  /\ ~overlapping => ~backwards

=============================================================================
