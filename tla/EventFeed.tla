----------------------------- MODULE EventFeed -----------------------------
(***************************************************************************)
(* events.ts and the delivery half of escrow/monitor.ts: one raw contract  *)
(* event, parsed and given to the handlers that are registered and that    *)
(* the topic filters let it through to. Two tables, written apart, say     *)
(* which topic is which field: parseEvent's and matchesTopicFilters'.      *)
(* A topic is a word, "" when nothing can be decoded from it.              *)
(***************************************************************************)
EXTENDS Calls, SequencesExt

CONSTANTS RawEvents,  \* the events the node serves
          TopicValue, \* what a filter asks for
          MaxFilters  \* bound: filters at a time

ASSUME FeedAssumption ==
  \A event \in RawEvents : event.topics \in Seq(STRING) /\ event.topics # <<>>

VARIABLES
  raw,           \* the event
  filters,       \* topicFilters
  eventHandlers, \* handlers: the names there is a handler for
  given,         \* whose handlers the last deliver called
  delivered,     \* a deliver has run, and nothing was registered or filtered since
  skipped        \* parseEvents reported the event to onSkip

feedVars == <<raw, filters, eventHandlers, given, delivered, skipped>>

KNOWN_EVENT_TYPES == {"escrow_created", "escrow_funded", "escrow_released", "escrow_cancelled",
                      "dispute_raised", "dispute_resolved"}

EventType == raw.topics[1]
EventNames == {EventType, "*"} \* handlers of other types are never concerned
TopicFilter == [type : KNOWN_EVENT_TYPES \cap {EventType}, topicIndex : 0 .. 3, value : TopicValue]

FeedTypeOK == /\ raw \in RawEvents /\ filters \subseteq TopicFilter
              /\ eventHandlers \subseteq EventNames /\ given \subseteq EventNames
              /\ delivered \in BOOLEAN /\ skipped \in BOOLEAN

FeedInit == /\ raw \in RawEvents
            /\ filters = {} /\ eventHandlers = {} /\ given = {}
            /\ delivered = FALSE /\ skipped = FALSE

-----------------------------------------------------------------------------
\* The fields parseEvent decodes, in the order of their topics.
Fields(type) ==
  CASE type = "escrow_created"  -> <<"escrowId", "sender", "recipient">>
    [] type = "escrow_released" -> <<"escrowId", "recipient">>
    [] type = "dispute_raised"  -> <<"escrowId", "raisedBy">>
    [] OTHER                    -> <<>>

\* toBigIntSafe: the value is a number.
HasAmount(event) == event.value = "number"

\* parseEvent does not return null: known, and every field is there.
Parses(event) ==
  LET type == event.topics[1]  fields == Fields(type)
  IN  /\ type \in KNOWN_EVENT_TYPES
      /\ Len(event.topics) > Len(fields)
      /\ \A i \in DOMAIN fields : event.topics[i + 1] # ""
      /\ type \in {"escrow_created", "escrow_released"} => HasAmount(event)

\* The fields of the parsed event with their values.
EventData(event) == {<<Fields(event.topics[1])[i], event.topics[i + 1]>> :
                  i \in DOMAIN Fields(event.topics[1])}

isTrustFlowEvent(event) == event.ours

\* The fields a filter's topicIndex stands for; index 0, the type, for none.
FilteredField(type) ==
  CASE type = "escrow_released"  -> <<"escrowId", "recipient">>
    [] type = "dispute_raised"   -> <<"escrowId", "raisedBy">>
    [] type = "dispute_resolved" -> <<"escrowId", "resolvedBy">>
    [] OTHER                     -> <<"escrowId", "sender", "recipient">>

matchesTopicFilters(event) ==
  \A f \in filters :
    /\ f.topicIndex \in DOMAIN FilteredField(f.type)
    /\ <<FilteredField(f.type)[f.topicIndex], f.value>> \in EventData(event)

-----------------------------------------------------------------------------
Changed == /\ delivered' = FALSE /\ given' = {} /\ skipped' = FALSE
           /\ UNCHANGED raw

on(name)  == eventHandlers' = eventHandlers \cup {name} /\ Changed /\ UNCHANGED filters
off(name) == eventHandlers' = eventHandlers \ {name} /\ Changed /\ UNCHANGED filters
unsubscribeAll == eventHandlers' = {} /\ Changed /\ UNCHANGED filters

addTopicFilter(f) == /\ Cardinality(filters \cup {f}) <= MaxFilters
                     /\ filters' = filters \cup {f} /\ Changed /\ UNCHANGED eventHandlers
removeTopicFilter(f) == filters' = filters \ {f} /\ Changed /\ UNCHANGED eventHandlers

\* parseEvents, then deliver.
Deliver ==
  /\ ~delivered /\ delivered' = TRUE
  /\ skipped' = (isTrustFlowEvent(raw) /\ ~Parses(raw))
  /\ given' = IF isTrustFlowEvent(raw) /\ Parses(raw) /\ matchesTopicFilters(raw)
              THEN eventHandlers ELSE {}
  /\ UNCHANGED <<raw, filters, eventHandlers>>

FeedNext == \/ \E name \in EventNames : on(name) \/ off(name)
            \/ \E f \in TopicFilter : addTopicFilter(f) \/ removeTopicFilter(f)
            \/ unsubscribeAll \/ Deliver

FeedSpec == FeedInit /\ [][FeedNext]_feedVars

-----------------------------------------------------------------------------
\* What a filter says of the raw event.
TopicIs(f) == f.topicIndex + 1 \in DOMAIN raw.topics /\ raw.topics[f.topicIndex + 1] = f.value

\* A handler is given no event that a filter on its topics excludes; and of the types whose
\* fields are decoded, every event that the filters describe.
FiltersAreExact ==
  delivered =>
    /\ given # {} => \A f \in filters : TopicIs(f)
    /\ /\ isTrustFlowEvent(raw) /\ Parses(raw)
       /\ \A f \in filters : TopicIs(f) /\ f.topicIndex \in DOMAIN Fields(EventType)
       => given = eventHandlers
    /\ skipped => given = {}

=============================================================================
