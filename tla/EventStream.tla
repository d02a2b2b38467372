----------------------------- MODULE EventStream -----------------------------
(***************************************************************************)
(* The server-sent event decoder of crates/openai-codex-model/src/sse.rs:  *)
(* a model response arrives in chunks cut anywhere, is split into lines    *)
(* and events, and ends with the answer or an error.                       *)
(*                                                                         *)
(* A line is what its bytes say: `data: ` and an event or a part of one,   *)
(* any other field or comment, no UTF-8, or nothing; `size` counts its     *)
(* bytes without the line end, `data: ` counting as one.  Texts are        *)
(* sequences of letters, one byte each.  The empty text also stands for a text that was *)
(* not received, since the code treats both alike once it completes.       *)
(***************************************************************************)
EXTENDS Naturals, Sequences

CONSTANTS
    Line,            \* the lines the provider may send
    Letter,          \* the letters of its texts
    BUFFER,          \* bytes one read returns at most (8192 in the code)
    RESPONSE_BYTES,  \* limits.response_bytes (4 MiB in the code)
    EVENT_BYTES,     \* limits.event_bytes (1 MiB in the code)
    TEXT_BYTES       \* limits.text_bytes (256 KiB in the code)

ASSUME LimitsAssumption ==
    /\ BUFFER \in Nat \ {0} /\ RESPONSE_BYTES \in Nat
    /\ EVENT_BYTES \in Nat /\ TEXT_BYTES \in Nat

EventType == {"delta", "item", "done", "completed", "failed", "ignored",
              "malformed", "head", "tail"}
Event == [type : EventType, text : Seq(Letter)]

(* A data line has one byte for `data: ` and at least one for its value. *)
ASSUME LineAssumption ==
    /\ Line \subseteq [field : {"data", "other", "blank", "binary"}, event : Event,
                       size : Nat, cr : BOOLEAN]
    /\ \A l \in Line :
           /\ l.field = "blank" <=> l.size = 0
           /\ l.field = "data" => l.size > 1

VARIABLES
    lines,           \* history: the lines received so far
    line,            \* the line being received
    pending,         \* how many of its bytes are buffered
    unread,          \* bytes of the last chunk not looked at yet
    response_bytes, event_bytes, event_data, data_bytes,
    deltas, output_item, done,
    result,          \* what decode returned
    text             \* the answer it returned

framing == <<lines, line, pending, unread>>
counters == <<response_bytes, event_bytes, event_data, data_bytes>>
texts == <<deltas, output_item, done>>
vars == <<framing, counters, texts, result, text>>

Init ==
    /\ lines = <<>> /\ line \in Line /\ pending = 0 /\ unread = 0
    /\ response_bytes = 0 /\ event_bytes = 0 /\ event_data = <<>> /\ data_bytes = 0
    /\ deltas = <<>> /\ output_item = <<>> /\ done = <<>>
    /\ result = "none" /\ text = <<>>

-----------------------------------------------------------------------------
Return(value) ==
    /\ result' = value
    /\ UNCHANGED <<lines, line, pending, counters, texts, text>>

(* Bytes before the line feed. *)
Width(l) == l.size + IF l.cr THEN 1 ELSE 0

(* JSON parsing: an event may be spread over two data lines, and event_data *)
(* that is no single event is not one.                                      *)
Malformed == [type |-> "malformed", text |-> <<>>]
Parse(data) ==
    IF Len(data) = 1 /\ data[1].type \notin {"head", "tail"} THEN data[1]
    ELSE IF Len(data) = 2 /\ data[1].type = "head" /\ data[2].type = "tail"
         THEN [type |-> "delta", text |-> data[2].text]
         ELSE Malformed

(* Defects for the mutation runs. *)
DeltasFirst ==
    IF deltas # <<>> THEN deltas ELSE IF output_item # <<>> THEN output_item ELSE done

DispatchKeepsCount ==
    /\ event_data' = <<>> /\ data_bytes' = 0
    /\ event_bytes' = event_bytes + 1

(* What is beyond the limit is dropped, and reading goes on. *)
ResponseTooLongDropped ==
    /\ result = "none" /\ unread = 0
    /\ response_bytes + BUFFER > RESPONSE_BYTES
    /\ UNCHANGED vars

-----------------------------------------------------------------------------
(* One read, charged before any of its bytes is looked at. *)
Read ==
    /\ result = "none" /\ unread = 0
    /\ \E n \in 1 .. BUFFER :
           /\ response_bytes + n <= RESPONSE_BYTES
           /\ response_bytes' = response_bytes + n
           /\ unread' = n
    /\ UNCHANGED <<lines, line, pending, event_bytes, event_data, data_bytes, texts,
                   result, text>>

ResponseTooLong ==
    /\ result = "none" /\ unread = 0
    /\ response_bytes + BUFFER > RESPONSE_BYTES
    /\ Return("LimitExceeded")
    /\ UNCHANGED unread

(* The end of the input, or a read that fails or times out. *)
ReadFails ==
    /\ result = "none" /\ unread = 0
    /\ Return("Invalid") \/ Return("TimedOut")
    /\ UNCHANGED unread

(* process_chunk: a byte that is no line feed. *)
Push ==
    /\ result = "none" /\ unread > 0
    /\ pending < Width(line)
    /\ event_bytes + pending + 1 <= EVENT_BYTES
    /\ pending' = pending + 1
    /\ unread' = unread - 1
    /\ UNCHANGED <<lines, line, counters, texts, result, text>>

LineTooLong ==
    /\ result = "none" /\ unread > 0
    /\ pending < Width(line)
    /\ event_bytes + pending + 1 > EVENT_BYTES
    /\ Return("LimitExceeded")
    /\ UNCHANGED unread

-----------------------------------------------------------------------------
(* process_line: the line feed is next. *)
AtLineEnd == result = "none" /\ unread > 0 /\ pending = Width(line)

(* The parts of event_data are joined by a line feed. *)
Joined == data_bytes + (line.size - 1) + IF event_data = <<>> THEN 0 ELSE 1

Fits ==
    /\ event_bytes + line.size + 1 <= EVENT_BYTES
    /\ line.field = "data" => Joined <= EVENT_BYTES

NextLine ==
    /\ lines' = Append(lines, line)
    /\ line' \in Line
    /\ pending' = 0
    /\ unread' = unread - 1

LineFeedTooLong ==
    /\ AtLineEnd
    /\ ~Fits
    /\ Return("LimitExceeded")
    /\ UNCHANGED unread

NotText ==
    /\ AtLineEnd /\ Fits
    /\ line.field = "binary"
    /\ Return("Invalid")
    /\ UNCHANGED unread

(* Comments, other fields and lines without a colon are only counted. *)
SkipLine ==
    /\ AtLineEnd /\ Fits
    /\ line.field = "other"
    /\ event_bytes' = event_bytes + line.size + 1
    /\ NextLine
    /\ UNCHANGED <<response_bytes, event_data, data_bytes, texts, result, text>>

DataLine ==
    /\ AtLineEnd /\ Fits
    /\ line.field = "data"
    /\ event_bytes' = event_bytes + line.size + 1
    /\ data_bytes' = Joined
    /\ event_data' = Append(event_data, line.event)
    /\ NextLine
    /\ UNCHANGED <<response_bytes, texts, result, text>>

-----------------------------------------------------------------------------
(* A blank line dispatches the event and starts the next one. *)
AtEvent == AtLineEnd /\ Fits /\ line.field = "blank"
Received == Parse(event_data)
EventDone == event_data' = <<>> /\ data_bytes' = 0 /\ event_bytes' = 0

NoData ==
    /\ AtEvent
    /\ event_data = <<>>
    /\ EventDone /\ NextLine
    /\ UNCHANGED <<response_bytes, texts, result, text>>

Delta ==
    /\ AtEvent /\ event_data # <<>>
    /\ Received.type = "delta"
    /\ Len(deltas) + Len(Received.text) <= TEXT_BYTES
    /\ deltas' = deltas \o Received.text
    /\ EventDone /\ NextLine
    /\ UNCHANGED <<response_bytes, output_item, done, result, text>>

(* An item without output text leaves the earlier one alone. *)
OutputItem ==
    /\ AtEvent /\ event_data # <<>>
    /\ Received.type = "item"
    /\ Len(Received.text) <= TEXT_BYTES
    /\ output_item' = IF Received.text = <<>> THEN output_item ELSE Received.text
    /\ EventDone /\ NextLine
    /\ UNCHANGED <<response_bytes, deltas, done, result, text>>

TextDone ==
    /\ AtEvent /\ event_data # <<>>
    /\ Received.type = "done"
    /\ Len(Received.text) <= TEXT_BYTES
    /\ done' = Received.text
    /\ EventDone /\ NextLine
    /\ UNCHANGED <<response_bytes, deltas, output_item, result, text>>

TextTooLong ==
    /\ AtEvent /\ event_data # <<>>
    /\ \/ Received.type = "delta" /\ Len(deltas) + Len(Received.text) > TEXT_BYTES
       \/ Received.type \in {"item", "done"} /\ Len(Received.text) > TEXT_BYTES
    /\ Return("LimitExceeded")
    /\ UNCHANGED unread

Ignored ==
    /\ AtEvent /\ event_data # <<>>
    /\ Received.type = "ignored"
    /\ EventDone /\ NextLine
    /\ UNCHANGED <<response_bytes, texts, result, text>>

(* The finished item is authoritative, then what was streamed. *)
Answer ==
    IF output_item # <<>> THEN output_item ELSE IF deltas # <<>> THEN deltas ELSE done

Completed ==
    /\ AtEvent /\ event_data # <<>>
    /\ Received.type = "completed"
    /\ Answer # <<>>
    /\ result' = "Text"
    /\ text' = Answer
    /\ EventDone /\ NextLine
    /\ UNCHANGED <<response_bytes, texts>>

FailedEvent ==
    /\ AtEvent /\ event_data # <<>>
    /\ \/ Received.type = "failed" /\ Return("ModelFailed")
       \/ Received.type = "completed" /\ Answer = <<>> /\ Return("EmptyText")
       \/ Received.type = "malformed" /\ Return("Invalid")
    /\ UNCHANGED unread

(* check_budget, around each read and before each event. *)
OutOfTime ==
    /\ result = "none"
    /\ unread = 0 \/ AtEvent
    /\ Return("TimedOut")
    /\ UNCHANGED unread

Decode ==
    \/ Read \/ ResponseTooLong
    \/ Push \/ LineTooLong
    \/ LineFeedTooLong \/ NotText \/ SkipLine \/ DataLine
    \/ NoData \/ Delta \/ OutputItem \/ TextDone \/ TextTooLong \/ Ignored
    \/ Completed \/ FailedEvent

Next == Decode \/ ReadFails \/ OutOfTime

Spec == Init /\ [][Next]_vars

(* The loop goes on and a read returns; the budget need not run out. *)
LiveSpec == Spec /\ WF_vars(Decode)

-----------------------------------------------------------------------------
Results == {"none", "Text", "EmptyText", "ModelFailed", "Invalid", "TimedOut",
            "LimitExceeded"}

(* The whole response at once, line by line: the data and size of the event *)
(* that is not complete yet, the bytes of all lines and the events in order.*)
Nothing == [data |-> <<>>, size |-> 0, bytes |-> 0, events |-> <<>>]

Take(before, l) ==
    [data |-> IF l.field = "data" THEN Append(before.data, l.event)
              ELSE IF l.field = "blank" THEN <<>> ELSE before.data,
     size |-> IF l.field = "blank" THEN 0 ELSE before.size + l.size + 1,
     bytes |-> before.bytes + Width(l) + 1,
     events |-> IF l.field = "blank" /\ before.data # <<>>
                THEN Append(before.events, Parse(before.data)) ELSE before.events]

Whole(received) ==
    LET upto[n \in 0 .. Len(received)] ==
            IF n = 0 THEN Nothing ELSE Take(upto[n - 1], received[n])
    IN  upto[Len(received)]

(* The texts of the deltas, one after the other. *)
Extend(before, e) == IF e.type = "delta" THEN before \o e.text ELSE before

Streamed(events) ==
    LET upto[n \in 0 .. Len(events)] ==
            IF n = 0 THEN <<>> ELSE Extend(upto[n - 1], events[n])
    IN  upto[Len(events)]

(* t is the text of the last of the events chosen, and empty without one. *)
IsLatest(t, events, chosen) ==
    IF chosen = {} THEN t = <<>>
    ELSE \E i \in chosen : (\A j \in chosen : j <= i) /\ t = events[i].text

Items(events) == {i \in DOMAIN events : events[i].type = "item" /\ events[i].text # <<>>}
Dones(events) == {i \in DOMAIN events : events[i].type = "done"}
Ends(events) == {i \in DOMAIN events : events[i].type \in {"completed", "failed"}}

IsAnswer(t, events) ==
    IF Items(events) # {} THEN IsLatest(t, events, Items(events))
    ELSE IF Streamed(events) # <<>> THEN t = Streamed(events)
    ELSE IsLatest(t, events, Dones(events))

(* However the response is cut into chunks and events into lines, the first *)
(* terminal event decides, and the answer is the one the events before it   *)
(* make: the last finished item, else the streamed text, else the done text.*)
ReferenceResult ==
    LET decisive == result \in {"EmptyText", "ModelFailed"}
        events == Whole(IF decisive THEN Append(lines, line) ELSE lines).events
        last == events[Len(events)]
    IN  /\ Ends(events) = IF decisive \/ result = "Text" THEN {Len(events)} ELSE {}
        /\ result \in {"Text", "EmptyText"} =>
               /\ last.type = "completed"
               /\ IsAnswer(text, events)
               /\ result = "EmptyText" <=> text = <<>>
        /\ result = "ModelFailed" => last.type = "failed"

(* Nothing that is buffered outgrows its limit, and every byte that was read *)
(* was charged: the lines, the pending bytes and the unread ones.            *)
Bounded ==
    /\ Whole(lines).bytes + pending + unread = response_bytes
    /\ response_bytes <= RESPONSE_BYTES
    /\ event_bytes + pending <= EVENT_BYTES
    /\ data_bytes <= event_bytes
    /\ \A t \in {deltas, output_item, done} : Len(t) <= TEXT_BYTES

(* A response is refused as too long only when it is: as a whole, in one     *)
(* event (whatever its line ends) or in its text.                            *)
LimitJustified ==
    result = "LimitExceeded" =>
        \/ response_bytes + BUFFER > RESPONSE_BYTES
        \/ Whole(lines).size + line.size + 1 > EVENT_BYTES
        \/ LET events == Whole(Append(lines, line)).events
           IN  \/ Len(Streamed(events)) > TEXT_BYTES
               \/ \E i \in DOMAIN events : Len(events[i].text) > TEXT_BYTES

(* The limits hold to the byte wherever a chunk ends: nothing beyond them is *)
(* kept, nothing within them is refused.                                    *)
LimitsExact == Bounded /\ LimitJustified

(* Every response ends, an endless one too. *)
Terminates == <>(result # "none")
=============================================================================
