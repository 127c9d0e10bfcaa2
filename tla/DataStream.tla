----------------------------- MODULE DataStream -----------------------------
(***************************************************************************)
(* The data streams a server runs for its clients                          *)
(* (common/src/server/service.rs, common/src/data_stream).                 *)
(*                                                                         *)
(* A request takes a permit, is validated against the chain view and       *)
(* becomes a task.  The task asks the view for the block after its         *)
(* position and sends it, alone or, where segments exist, from a second    *)
(* task that walks the groups and segments; it sends an invalidation when  *)
(* its position was reorganized away, and waits at the head.               *)
(*                                                                         *)
(* Every read of the view is a step of its own: the view changes between   *)
(* two of them.  What changes it is kept small: a canonical chain that     *)
(* grows and is cut, a finalized number of the node's that knows nothing   *)
(* of the branch the chain is on (Ingestion), a compactor (Compaction) and *)
(* pending blocks, each change shown in the order it was written           *)
(* (ChainViewSync, no watch breaking).  A client keeps what it received    *)
(* and comes back with its last cursor.                                    *)
(***************************************************************************)
EXTENDS FullCanonicalChain, SegmentMath, Sequences, FiniteSets

CONSTANTS
    Client,            \* the connections; a client uses one at a time
    MaxStreams,        \* max_concurrent_streams
    ChannelSize,       \* channel_size
    PrefetchSegments,  \* prefetch_segment_count
    BlocksPerSegment,  \* segment_size
    SegmentsPerGroup,  \* group_size
    Setting            \* the initial states: records
                       \*   chain      the canonical chain, number -> block
                       \*   finalized  the finalized block number
                       \*   final      a block; the node finalizes its branch
                       \*   segments   how many segments and groups there are
                       \*   groups
                       \*   moves      which changes of the view happen
                       \*   requests   per client, the requests it may send
                       \*   matching   the blocks with data for the filters
                       \*   header     the header filter
                       \*   contents   what pending blocks have for the filters
                       \*   serving    the view is there from the start
                       \* and model bounds
                       \*   finals     the finalized numbers there will be
                       \*   versions   pending blocks after one head
                       \*   faults     downloads that fail, clients that leave,
                       \*              servers that restart

ASSUME StreamAssumption ==
    /\ MaxStreams \in Nat \ {0}
    /\ ChannelSize \in Nat \ {0}
    /\ PrefetchSegments \in Nat \ {0}
    /\ BlocksPerSegment \in Nat \ {0}
    /\ SegmentsPerGroup \in Nat \ {0}

VARIABLES
    builder,       \* the ingester's chain
    view,          \* the chain view of this server
    clearing,      \* the pending key was deleted and the view has yet to hear it
    segmentBlocks, \* number -> block, what the segments hold
    pruned,        \* the block objects up to this number are deleted
    pendingStore,  \* the pending block objects: their number, generation, parent
                   \*   and content for the filters
    pendingCache,  \* the copies of them in this server's file cache
    permits,       \* free permits of the semaphore
    stream,        \* per client, the handler of its request and its DataStream
    producer,      \* per client, the SegmentStream
    queue,         \* per client, the segments prefetched
    channel,       \* per client, the messages on their way
    client,        \* per client, what it has
    setting,       \* the setting chosen
    serving,       \* the server has a chain view
    everFinalized  \* the highest finalized number it showed

pendingVars == <<pendingStore, pendingCache>>
worldVars   == <<builder, view, clearing, segmentBlocks, pruned, pendingVars, serving,
                 everFinalized>>
streamVars  == <<worldVars, permits, stream, producer, queue, channel, client, setting>>

BlocksPerGroup == BlocksPerSegment * SegmentsPerGroup

Finality  == {"unknown", "pending", "accepted", "finalized"}
Heartbeat == 10 .. 60

Off      == [pc |-> "off", request |-> Null, current |-> Null, finalized |-> Null,
             next |-> Null, isHead |-> FALSE, label |-> Null, generation |-> Null,
             object |-> Null, sent |-> Null, waits |-> {}, heard |-> {}, todo |-> {}]
NoSegments == [pc |-> "off", at |-> 0, offset |-> 0, until |-> Null]

At(c, pc) == stream[c].pc = pc

\* The stream of c goes on with state s; nothing else changes but what the
\* action says.
Become(c, s) == stream' = [stream EXCEPT ![c] = s]

Gone(c) == ~client[c].up

\* The position between two rounds of the main loop.
TickOf(s, current) ==
    [Off EXCEPT !.pc = "tick", !.request = s.request, !.current = current,
                !.finalized = s.finalized]

\* A wait begins with a gap in which a notification is missed.
WaitOf(s, notifications) ==
    [TickOf(s, s.current) EXCEPT !.pc = "gap", !.waits = notifications, !.sent = s.sent]

\* Mutant: the permit stays with the stream that ended.
EndKeepsPermit(c) ==
    /\ Become(c, Off)
    /\ producer' = [producer EXCEPT ![c] = NoSegments]
    /\ queue' = [queue EXCEPT ![c] = <<>>]
    /\ UNCHANGED permits

\* The task ends, well or with an error; the permit is dropped with it and the
\* client sees the end of the stream once it has read what was sent.
End(c) ==
    /\ Become(c, Off)
    /\ producer' = [producer EXCEPT ![c] = NoSegments]
    /\ queue' = [queue EXCEPT ![c] = <<>>]
    /\ permits' = permits + 1

-----------------------------------------------------------------------------
(* The request: StreamService::stream_data                                 *)

\* Without a chain view the service is unavailable.
RequestArrives(c, request) ==
    /\ At(c, "off") /\ Gone(c)
    /\ serving
    /\ Become(c, [Off EXCEPT !.pc = "permit", !.request = request])
    /\ client' = [client EXCEPT ![c].up = TRUE]
    /\ UNCHANGED <<worldVars, permits, producer, queue, channel, setting>>

\* A refusal closes the call; the client may ask again.
Refuse(c) ==
    /\ Become(c, Off)
    /\ client' = [client EXCEPT ![c].up = FALSE]
    /\ UNCHANGED <<worldVars, producer, queue, channel, setting>>

AcquirePermit(c) ==
    /\ At(c, "permit") /\ permits > 0
    /\ permits' = permits - 1
    /\ Become(c, [stream[c] EXCEPT !.pc = "range"])
    /\ UNCHANGED <<worldVars, producer, queue, channel, client, setting>>

\* One second without a permit.
AcquireTimesOut(c) ==
    /\ At(c, "permit") /\ permits = 0
    /\ Refuse(c)
    /\ UNCHANGED permits

\* ensure_cursor_in_range; without a cursor the stream starts at the first block.
EnsureCursorInRange(c) ==
    /\ At(c, "range")
    /\ LET cursor == client[c].cursor
       IN  IF cursor = Null \/ GetCanonical(view, cursor.number).kind = "canonical"
           THEN /\ Become(c, [stream[c] EXCEPT !.pc = "validate"])
                /\ UNCHANGED <<worldVars, permits, producer, queue, channel, client, setting>>
           ELSE Refuse(c) /\ permits' = permits + 1

Validate(c) ==
    /\ At(c, "validate")
    /\ LET cursor == client[c].cursor
           reply  == IF cursor = Null THEN Reply("valid", Null) ELSE ValidateCursor(view, cursor)
           start  == IF reply.target = Null THEN Null ELSE CursorOf(reply.target)
       IN  IF reply.kind = "valid"
           THEN /\ Become(c, [stream[c] EXCEPT !.pc = "arguments", !.current = start])
                /\ UNCHANGED <<worldVars, permits, producer, queue, channel, client, setting>>
           ELSE Refuse(c) /\ permits' = permits + 1

\* The other arguments: finality, heartbeat interval in seconds, filters.
IsAcceptable(request) ==
    /\ request.finality \in Finality \cup {Null}
    /\ request.heartbeat \in Heartbeat \cup {Null}
    /\ request.filter = "wellFormed"

\* DataStream::new and its task.
StartStream(c) ==
    /\ At(c, "arguments")
    /\ IF IsAcceptable(stream[c].request)
       THEN /\ Become(c, TickOf([stream[c] EXCEPT !.finalized = view.finalized],
                                stream[c].current))
            /\ UNCHANGED <<worldVars, permits, producer, queue, channel, client, setting>>
       ELSE Refuse(c) /\ permits' = permits + 1

RequestStep(c) ==
    \/ AcquirePermit(c) \/ AcquireTimesOut(c) \/ EnsureCursorInRange(c) \/ Validate(c)
    \/ StartStream(c)

-----------------------------------------------------------------------------
(* The main loop: DataStream::tick                                         *)

Finalized(c) == stream[c].request.finality = "finalized"
Pending(c)   == stream[c].request.finality = "pending"

\* A block is sent when a filter matches, or for the sake of its header.
HasData(block, isLive) ==
    \/ block \in setting.matching
    \/ setting.header = "always"
    \/ setting.header = "onDataOrOnNewBlock" /\ isLive

\* get_next_cursor without a position is the first block and not the head.
NextCursor(current) ==
    IF current = Null THEN Reply("continue", CanonicalBlock(view, view.starting))
    ELSE GetNextCursor(view, current)

IsHead(current, block) == current # Null /\ Number[block] = view.recent.last

\* Mutant: a client of finalized data is sent everything.
MustWaitNever(c, block) == FALSE

\* Mutant: the block after the finalized one is sent as well.
MustWaitOneLater(c, block) == Finalized(c) /\ Number[block] > stream[c].finalized + 1

\* The finalized block the stream knows has not reached the block.
MustWait(c, block) == Finalized(c) /\ Number[block] > stream[c].finalized

\* Mutant: nobody looks whether the client is still there.
LoopIsOverNever(c) == FALSE

\* The main loop is left when the channel is closed.
LoopIsOver(c) == Gone(c)

Tick(c) ==
    /\ At(c, "tick")
    /\ LET s     == stream[c]
           reply == NextCursor(s.current)
       IN  IF LoopIsOver(c) \/ reply.kind = "error"
           THEN End(c)
           ELSE /\ CASE reply.kind = "invalidate" ->
                        Become(c, [s EXCEPT !.pc = "invalidate", !.next = reply.target])
                     [] reply.kind = "atHead" ->
                        Become(c, IF Pending(c) THEN [s EXCEPT !.pc = "pending"]
                                  ELSE WaitOf(s, {"head", "finalized"}))
                     [] reply.kind = "continue" ->
                        Become(c, IF MustWait(c, reply.target) THEN WaitOf(s, {"finalized"})
                                  ELSE [s EXCEPT !.pc = "route", !.next = reply.target,
                                          !.isHead = IsHead(s.current, reply.target)])
                /\ UNCHANGED <<permits, producer, queue>>
    /\ UNCHANGED <<worldVars, channel, client, setting>>

\* Mutant: a message is sent at once.
SendAtOnce(c, message, after, closed) ==
    /\ Become(c, after)
    /\ channel' = [channel EXCEPT ![c] = Append(@, message)]
    /\ UNCHANGED <<worldVars, permits, client, setting>>

\* A message is sent when there is room.  If the client has gone the round
\* ends and the position stays.
Send(c, message, after, closed) ==
    /\ Gone(c) \/ Len(channel[c]) < ChannelSize
    /\ Become(c, IF Gone(c) THEN closed ELSE after)
    /\ channel' = IF Gone(c) THEN channel ELSE [channel EXCEPT ![c] = Append(@, message)]
    /\ UNCHANGED <<worldVars, permits, client, setting>>

Message(kind, end, block, label) ==
    [kind |-> kind, end |-> end, block |-> block, label |-> label]

\* Mutant: the position stays on the block that was removed.
SendInvalidateAndStay(c) ==
    /\ At(c, "invalidate")
    /\ LET s == stream[c]
       IN  Send(c, Message("invalidate", CursorOf(s.next), s.next, Null),
                TickOf(s, s.current), TickOf(s, s.current))
    /\ UNCHANGED <<producer, queue>>

SendInvalidate(c) ==
    /\ At(c, "invalidate")
    /\ LET s == stream[c]
       IN  Send(c, Message("invalidate", CursorOf(s.next), s.next, Null),
                TickOf(s, CursorOf(s.next)), TickOf(s, s.current))
    /\ UNCHANGED <<producer, queue>>

HasSegmentForBlock(v, block) ==
    v.segmented # Null /\ GetSegmentEndBlock(BlocksPerSegment, block) <= v.segmented

FirstOfGroup(block) == GetGroupStartBlock(BlocksPerSegment, SegmentsPerGroup, block)

\* From a segment if the view has one for the block, else the block alone.
Route(c) ==
    /\ At(c, "route")
    /\ LET s == stream[c]
       IN  IF HasSegmentForBlock(view, Number[s.next])
           THEN /\ Become(c, [s EXCEPT !.pc = "segments"])
                /\ producer' = [producer EXCEPT ![c] =
                       [NoSegments EXCEPT !.pc = "start", !.at = FirstOfGroup(Number[s.next])]]
           ELSE Become(c, [s EXCEPT !.pc = "single"]) /\ UNCHANGED producer
    /\ UNCHANGED <<worldVars, permits, queue, channel, client, setting>>

-----------------------------------------------------------------------------
(* One block: DataStream::tick_single                                      *)

LabelOf(block) == IF Number[block] > view.finalized THEN "accepted" ELSE "finalized"

ReadFinality(c) ==
    /\ At(c, "single")
    /\ Become(c, [stream[c] EXCEPT !.pc = "fetch", !.label = LabelOf(stream[c].next)])
    /\ UNCHANGED <<worldVars, permits, producer, queue, channel, client, setting>>

\* The object may have been pruned since the view was asked for a segment; the
\* file cache may still have it.
FetchBlock(c) ==
    /\ At(c, "fetch")
    /\ LET s == stream[c]
       IN  \/ /\ Number[s.next] <= pruned
              /\ End(c)
           \/ /\ Become(c, IF HasData(s.next, s.isHead) THEN [s EXCEPT !.pc = "send"]
                           ELSE TickOf(s, CursorOf(s.next)))
              /\ UNCHANGED <<permits, producer, queue>>
    /\ UNCHANGED <<worldVars, channel, client, setting>>

SendBlock(c) ==
    /\ At(c, "send")
    /\ LET s == stream[c]
       IN  Send(c, Message("data", CursorOf(s.next), s.next, s.label),
                TickOf(s, CursorOf(s.next)), TickOf(s, s.current))
    /\ UNCHANGED <<producer, queue>>

-----------------------------------------------------------------------------
(* Segments: SegmentStream::start fills the queue,                         *)
(* DataStream::tick_segment_stream empties it                              *)

\* The producer of c goes on; its view reads and its sends are its own steps.
Produce(c, p) ==
    /\ producer' = [producer EXCEPT ![c] = p]
    /\ UNCHANGED <<worldVars, permits, stream, channel, client, setting>>

Fetch(first, blocks) == [first |-> first, blocks |-> blocks]

\* Groups first, if there are any.
ReadGrouped(c) ==
    /\ producer[c].pc = "start"
    /\ Produce(c, [producer[c] EXCEPT !.pc = IF view.grouped = Null THEN "tail" ELSE "groups",
                                      !.until = view.grouped])
    /\ UNCHANGED queue

\* The blocks the indexes of the group name, for headers every block.
BlocksWithData(first) ==
    {n \in first .. first + (BlocksPerSegment - 1) :
        setting.header = "always" \/ segmentBlocks[n] \in setting.matching}

\* The grouped cursor is read again when it is the next group's first block;
\* it is the last block of a group and never is.
GroupsUntil(until, at) == IF until = at THEN view.grouped ELSE until

\* One segment of the group; a segment without data is passed over.
ProduceFromGroup(c) ==
    /\ producer[c].pc = "groups"
    /\ LET p      == producer[c]
           first  == p.at + p.offset * BlocksPerSegment
           blocks == BlocksWithData(first)
           next   == p.at + BlocksPerGroup
       IN  \/ /\ p.at > p.until
              /\ Produce(c, [p EXCEPT !.pc = "tail", !.until = Null])
              /\ UNCHANGED queue
           \/ /\ p.at <= p.until
              /\ blocks # {} => Len(queue[c]) < PrefetchSegments
              /\ queue' = IF blocks = {} THEN queue
                          ELSE [queue EXCEPT ![c] = Append(@, Fetch(first, blocks))]
              /\ Produce(c, IF p.offset + 1 < SegmentsPerGroup
                            THEN [p EXCEPT !.offset = @ + 1]
                            ELSE [p EXCEPT !.offset = 0, !.at = next,
                                           !.until = GroupsUntil(p.until, next)])

ReadSegmented(c) ==
    /\ producer[c].pc = "tail"
    /\ Produce(c, [producer[c] EXCEPT
           !.pc = IF view.segmented = Null THEN "done" ELSE "segments", !.until = view.segmented])
    /\ UNCHANGED queue

\* Segments without a group are sent whole.
ProduceSegment(c) ==
    /\ producer[c].pc = "segments"
    /\ LET p == producer[c]
       IN  \/ /\ p.at > p.until
              /\ Produce(c, [NoSegments EXCEPT !.pc = "done"])
              /\ UNCHANGED queue
           \/ /\ p.at <= p.until
              /\ Len(queue[c]) < PrefetchSegments
              /\ queue' = [queue EXCEPT ![c] =
                     Append(@, Fetch(p.at, p.at .. p.at + (BlocksPerSegment - 1)))]
              /\ Produce(c, [p EXCEPT !.at = @ + BlocksPerSegment])

ProducerStep(c) ==
    ReadGrouped(c) \/ ProduceFromGroup(c) \/ ReadSegmented(c) \/ ProduceSegment(c)

\* Mutant: the blocks before the position are sent as well.
NewBlocksAll(fetch, next) == fetch.blocks

\* The producer aligned its start: what lies before the position is dropped.
NewBlocks(fetch, next) == {n \in fetch.blocks : n >= Number[next]}

TakeSegment(c) ==
    /\ At(c, "segments") /\ queue[c] # <<>>
    /\ LET todo == NewBlocks(Head(queue[c]), stream[c].next)
       IN  Become(c, [stream[c] EXCEPT !.todo = todo,
                                       !.pc = IF todo = {} THEN "segments" ELSE "blocks"])
    /\ queue' = [queue EXCEPT ![c] = Tail(@)]
    /\ UNCHANGED <<worldVars, permits, producer, channel, client, setting>>

\* The blocks of a segment in order.  Their cursors carry no hash.
SendFromSegment(c) ==
    /\ At(c, "blocks")
    /\ LET s     == stream[c]
           n     == CHOOSE m \in s.todo : \A k \in s.todo : m <= k
           end   == [number |-> n, hash |-> ZeroHash]
           after == [s EXCEPT !.current = end, !.todo = @ \ {n},
                              !.pc = IF s.todo = {n} THEN "segments" ELSE "blocks"]
           leave == Gone(c) /\ HasData(segmentBlocks[n], FALSE)
       IN  /\ IF HasData(segmentBlocks[n], FALSE)
              THEN Send(c, Message("data", end, segmentBlocks[n], "finalized"), after,
                        TickOf(s, s.current))
              ELSE /\ Become(c, after)
                   /\ UNCHANGED <<worldVars, permits, channel, client, setting>>
           /\ producer' = IF leave THEN [producer EXCEPT ![c] = NoSegments] ELSE producer
           /\ queue' = IF leave THEN [queue EXCEPT ![c] = <<>>] ELSE queue

\* Nothing is left in the queue and the producer has ended, well or not.
SegmentsFinish(c) ==
    /\ At(c, "segments") /\ queue[c] = <<>> /\ producer[c].pc \in {"done", "failed"}
    /\ Become(c, TickOf(stream[c], stream[c].current))
    /\ producer' = [producer EXCEPT ![c] = NoSegments]
    /\ UNCHANGED <<worldVars, permits, queue, channel, client, setting>>

\* select! looks at the producer's result before the end of the queue.
SegmentsFail(c) ==
    /\ At(c, "segments") /\ producer[c].pc = "failed"
    /\ End(c)
    /\ UNCHANGED <<worldVars, channel, client, setting>>

-----------------------------------------------------------------------------
(* At the head: tick_at_head, tick_at_head_pending and the wait of tick    *)

StartWaiting(c) ==
    /\ At(c, "gap")
    /\ Become(c, [stream[c] EXCEPT !.pc = "waiting"])
    /\ UNCHANGED <<worldVars, permits, producer, queue, channel, client, setting>>

\* select! takes any branch that is ready, or the first in the stream of
\* pending data; the other notifications are forgotten with their futures.
Selected(c, notification) ==
    /\ notification \in stream[c].heard
    /\ Pending(c) =>
          \/ notification = "head"
          \/ notification = "finalized" /\ "head" \notin stream[c].heard
          \/ stream[c].heard = {"pending"}

Wake(c, notification) ==
    /\ At(c, "waiting")
    /\ Selected(c, notification)
    /\ LET s    == stream[c]
           know == [s EXCEPT !.finalized = view.finalized, !.heard = {}]
       IN  Become(c, CASE notification = "head" -> TickOf(s, s.current)
                       [] notification = "finalized" ->
                            IF s.waits = {"finalized"} THEN TickOf(know, s.current)
                            ELSE [know EXCEPT !.pc = "finalize"]
                       [] notification = "pending" ->
                            [s EXCEPT !.pc = "pending", !.heard = {}])
    /\ UNCHANGED <<worldVars, permits, producer, queue, channel, client, setting>>

SendFinalize(c) ==
    /\ At(c, "finalize")
    /\ LET s == stream[c]
       IN  Send(c, Message("finalize", [number |-> s.finalized, hash |-> ZeroHash], Null, Null),
                WaitOf(s, s.waits), WaitOf(s, s.waits))
    /\ UNCHANGED <<producer, queue>>

AllChanges == {"head", "finalized", "pending"}

ReadPending(c) ==
    /\ At(c, "pending")
    /\ LET s == stream[c]
       IN  Become(c, IF view.pending = Null THEN WaitOf(s, AllChanges)
                     ELSE [s EXCEPT !.pc = "fetchPending", !.generation = view.pending])
    /\ UNCHANGED <<worldVars, permits, producer, queue, channel, client, setting>>

\* Mutant: the newest object of the generation.
PendingObjectOf(c) ==
    {o \in pendingStore \cup pendingCache :
        /\ o.generation = stream[c].generation
        /\ \A q \in pendingStore : q.generation = o.generation => q.number <= o.number}

\* The object of the generation after the own position: it may not exist, and
\* the file cache may have a copy from before it was written again.
PendingObject(c) ==
    {o \in pendingStore \cup pendingCache :
        o.number = stream[c].current.number + 1 /\ o.generation = stream[c].generation}

\* What is hashed: the header, which names the parent, and the filtered data.
Content(o) == <<o.parent, o.content>>

\* The object is cached; it is sent unless it has nothing for the filters or
\* its content was the last to be sent.
FetchPending(c) ==
    /\ At(c, "fetchPending")
    /\ LET s == stream[c]
       IN  \/ /\ PendingObject(c) = {}
              /\ End(c)
              /\ UNCHANGED pendingCache
           \/ \E o \in PendingObject(c) :
                 /\ pendingCache' = (pendingCache \ PendingObject(c)) \cup {o}
                 /\ Become(c, IF \/ o.content = "none" /\ setting.header # "always"
                                \/ s.sent = Content(o)
                              THEN WaitOf(s, AllChanges)
                              ELSE [s EXCEPT !.pc = "sendPending", !.object = o])
                 /\ UNCHANGED <<permits, producer, queue>>
    /\ UNCHANGED <<builder, view, clearing, segmentBlocks, pruned, pendingStore, serving,
                   everFinalized, channel, client, setting>>

SendPending(c) ==
    /\ At(c, "sendPending")
    /\ LET s   == stream[c]
           end == [number |-> s.current.number + 1, hash |-> ZeroHash]
       IN  Send(c, Message("pending", end, Null, "pending"),
                WaitOf([s EXCEPT !.sent = Content(s.object)], AllChanges), WaitOf(s, AllChanges))
    /\ UNCHANGED <<producer, queue>>

StreamStep(c) ==
    \/ Tick(c) \/ SendInvalidate(c) \/ Route(c)
    \/ ReadFinality(c) \/ FetchBlock(c) \/ SendBlock(c)
    \/ TakeSegment(c) \/ SendFromSegment(c) \/ SegmentsFinish(c) \/ SegmentsFail(c)
    \/ StartWaiting(c) \/ (\E n \in AllChanges : Wake(c, n)) \/ SendFinalize(c)
    \/ ReadPending(c) \/ FetchPending(c) \/ SendPending(c)

-----------------------------------------------------------------------------
(* The client                                                              *)

NewClient == [up |-> FALSE, cursor |-> Null, have |-> <<>>, final |-> -1]

\* Data is kept with its cursor, an invalidation drops what is above it.
\* Pending data is no position to come back to.
Keep(k, message) ==
    CASE message.kind = "data" ->
           [k EXCEPT !.cursor = message.end,
                     !.have = Append(@, [block |-> message.block, label |-> message.label])]
      [] message.kind = "invalidate" ->
           [k EXCEPT !.cursor = message.end,
                     !.have = SelectSeq(@, LAMBDA d : Number[d.block] <= message.end.number)]
      [] message.kind = "finalize" -> [k EXCEPT !.final = message.end.number]
      [] message.kind = "pending" -> k

\* ResponseStreamWithHeartbeat: a message comes before a heartbeat.
Receive(c) ==
    /\ client[c].up /\ channel[c] # <<>>
    /\ channel' = [channel EXCEPT ![c] = Tail(@)]
    /\ client' = [client EXCEPT ![c] = Keep(@, Head(channel[c]))]
    /\ UNCHANGED <<worldVars, permits, stream, producer, queue, setting>>

SeesEnd(c) ==
    /\ client[c].up /\ channel[c] = <<>> /\ At(c, "off")
    /\ client' = [client EXCEPT ![c].up = FALSE]
    /\ UNCHANGED <<worldVars, permits, stream, producer, queue, channel, setting>>

HandlerPhase == {"permit", "range", "validate", "arguments"}

UseFault ==
    /\ setting.faults > 0
    /\ setting' = [setting EXCEPT !.faults = @ - 1]

\* The client hangs up.  The handler of a request is dropped, with the permit
\* it may have; a task is not told.
Leave(c) ==
    /\ UseFault
    /\ client[c].up
    /\ \/ /\ stream[c].pc \in HandlerPhase
          /\ Become(c, Off)
          /\ permits' = permits + (IF At(c, "permit") THEN 0 ELSE 1)
       \/ /\ stream[c].pc \notin HandlerPhase
          /\ UNCHANGED <<stream, permits>>
    /\ client' = [client EXCEPT ![c].up = FALSE]
    /\ channel' = [channel EXCEPT ![c] = <<>>]
    /\ UNCHANGED <<worldVars, producer, queue>>

\* A download fails: an object, or an old chain segment the view asks for.  It
\* is the end of the request or the task, a segment that was fetched ahead
\* when its turn comes, but of the producer's a failure is only its own end.
DownloadFails(c) ==
    /\ UseFault
    /\ \/ /\ \/ stream[c].pc \in {"range", "validate", "arguments"}
             \/ stream[c].pc \in {"tick", "single", "fetch", "fetchPending"}
             \/ At(c, "waiting") /\ "finalized" \in stream[c].heard
             \/ At(c, "segments") /\ queue[c] # <<>>
          /\ End(c)
       \/ /\ producer[c].pc \in {"start", "groups", "tail"}
          /\ producer' = [producer EXCEPT ![c] = [NoSegments EXCEPT !.pc = "failed"]]
          /\ UNCHANGED <<stream, queue, permits>>
    /\ UNCHANGED <<worldVars, channel, client>>

\* The server stops, by a signal or a crash, and is started again.
Restart ==
    /\ UseFault
    /\ stream' = [c \in Client |-> Off]
    /\ producer' = [c \in Client |-> NoSegments]
    /\ queue' = [c \in Client |-> <<>>]
    /\ channel' = [c \in Client |-> <<>>]
    /\ client' = [c \in Client |-> [client[c] EXCEPT !.up = FALSE]]
    /\ permits' = MaxStreams
    /\ UNCHANGED worldVars

-----------------------------------------------------------------------------
(* What the view shows                                                     *)

\* The tasks that wait at this moment hear the notification.
Notify(notification) ==
    stream' = [c \in Client |->
        IF At(c, "waiting") /\ notification \in stream[c].waits
        THEN [stream[c] EXCEPT !.heard = @ \cup {notification}]
        ELSE stream[c]]

Moves(move) ==
    /\ move \in setting.moves
    /\ ~clearing
    /\ UNCHANGED <<permits, producer, queue, channel, client, setting, serving>>

BranchOf(block) == {block} \cup Ancestors[block]

\* A new chain; the deletion of the pending key is the next event.
ShowRecent(chain) ==
    /\ builder' = chain
    /\ clearing' = (view.pending # Null)
    /\ Notify("head")

\* A block is published; a full chain segment is moved to the store first.
HeadGrows(block) ==
    /\ Moves("grow")
    /\ CanGrow(builder, block) /\ Parent[block] = LastBlock(builder)
    /\ LET grown == Grow(builder, block)
           takes == CanTakeSegment(grown, ChainSegmentSize)
           rest  == IF takes THEN AfterTake(grown, ChainSegmentSize) ELSE grown
       IN  /\ ShowRecent(rest)
           /\ view' = [view EXCEPT
                  !.recent = CurrentSegment(rest),
                  !.store = IF takes
                            THEN [n \in DOMAIN @ \cup {grown.first} |->
                                    IF n = grown.first THEN TakenSegment(grown, ChainSegmentSize)
                                    ELSE @[n]]
                            ELSE @]
    /\ UNCHANGED <<segmentBlocks, pruned, pendingVars, everFinalized>>

\* A reorganization.  The ingester keeps the blocks the node has, and the node
\* those of its own branch up to the finalized number: a block of another
\* branch is cut whatever that number is.
HeadIsCut(n) ==
    /\ Moves("cut")
    /\ n \in builder.first .. builder.last - 1
    /\ n >= view.finalized \/ builder.canonical[n + 1] \notin BranchOf(setting.final)
    /\ LET cut == Shrink(builder, builder.canonical[n])
       IN  ShowRecent(cut) /\ view' = [view EXCEPT !.recent = CurrentSegment(cut)]
    /\ UNCHANGED <<segmentBlocks, pruned, pendingVars, everFinalized>>

PendingIsCleared ==
    /\ clearing
    /\ clearing' = FALSE
    /\ view' = [view EXCEPT !.pending = Null]
    /\ Notify("pending")
    /\ UNCHANGED <<builder, segmentBlocks, pruned, pendingVars, serving, everFinalized>>
    /\ UNCHANGED <<permits, producer, queue, channel, client, setting>>

\* The node's finalized number: the running ingester only moves it up, one that
\* was restarted stores what its node says.  It may be above the head.
FinalizedMoves(n) ==
    /\ \/ Moves("finalize") /\ n > view.finalized
       \/ Moves("lag")
    /\ view' = [view EXCEPT !.finalized = n]
    /\ everFinalized' = IF n > everFinalized THEN n ELSE everFinalized
    /\ Notify("finalized")
    /\ UNCHANGED <<builder, clearing, segmentBlocks, pruned, pendingVars>>

FirstAfter(cursor) == IF cursor = Null THEN StartingBlock ELSE cursor + 1

SegmentIsMade ==
    /\ Moves("compact")
    /\ LET next == FirstAfter(view.segmented) + BlocksPerSegment
       IN  /\ next <= view.finalized /\ next <= view.recent.last
           /\ view' = [view EXCEPT !.segmented = next - 1]
           /\ segmentBlocks' = [n \in StartingBlock .. next - 1 |->
                 IF n \in DOMAIN segmentBlocks THEN segmentBlocks[n] ELSE CanonicalBlock(view, n)]
    /\ UNCHANGED <<builder, clearing, pruned, pendingVars, everFinalized, stream>>

GroupIsMade ==
    /\ Moves("compact")
    /\ view.segmented # Null
    /\ LET next == FirstAfter(view.grouped) + BlocksPerGroup
       IN  /\ next <= view.segmented
           /\ view' = [view EXCEPT !.grouped = next - 1]
    /\ UNCHANGED <<builder, clearing, segmentBlocks, pruned, pendingVars, everFinalized, stream>>

BlocksArePruned ==
    /\ Moves("compact")
    /\ view.grouped # Null /\ pruned < view.grouped
    /\ pruned' = view.grouped
    /\ UNCHANGED <<builder, view, clearing, segmentBlocks, pendingVars, everFinalized, stream>>

\* Another version of the pending block; its object is written first, over one
\* of the same number and generation.
PendingMoves(content) ==
    /\ Moves("pending")
    /\ LET generation == IF view.pending = Null THEN 1 ELSE view.pending + 1
           number     == builder.last + 1
       IN  /\ generation <= setting.versions
           /\ pendingStore' =
                 {o \in pendingStore : o.number # number \/ o.generation # generation}
                 \cup {[number |-> number, generation |-> generation,
                        parent |-> LastBlock(builder), content |-> content]}
           /\ view' = [view EXCEPT !.pending = generation]
    /\ Notify("pending")
    /\ UNCHANGED <<builder, clearing, segmentBlocks, pruned, pendingCache, everFinalized>>

\* The synchronisation has sent the view.
ViewArrives ==
    /\ ~serving
    /\ serving' = TRUE
    /\ UNCHANGED <<builder, view, clearing, segmentBlocks, pruned, pendingVars, everFinalized>>
    /\ UNCHANGED <<permits, stream, producer, queue, channel, client, setting>>

ViewMoves ==
    \/ \E b \in Block : HeadGrows(b)
    \/ \E n \in {Number[b] : b \in Block} : HeadIsCut(n)
    \/ \E n \in setting.finals : FinalizedMoves(n)
    \/ \E content \in setting.contents : PendingMoves(content)
    \/ SegmentIsMade \/ GroupIsMade \/ BlocksArePruned

-----------------------------------------------------------------------------
(* The whole                                                               *)

ChainPart(chain, first, last) ==
    [previous |-> Null, first |-> first, last |-> last,
     canonical |-> Restrict(chain, first .. last), reorgs |-> NoReorgs, extraReorgs |-> NoReorgs]

\* The cursor of n compacted runs of a size.
CursorAfter(n, blocks) == IF n = 0 THEN Null ELSE StartingBlock + (n * blocks - 1)

Begin(s) ==
    LET length    == Cardinality(DOMAIN s.chain)
        archived  == (length - 1) \div ChainSegmentSize
        first     == StartingBlock + archived * ChainSegmentSize
        recent    == ChainPart(s.chain, first, StartingBlock + (length - 1))
        segmented == CursorAfter(s.segments, BlocksPerSegment)
    IN  /\ setting = s
        /\ builder = RestoreFromSegment(recent)
        /\ view = [starting |-> StartingBlock, recent |-> recent,
                   store |-> [n \in {StartingBlock + i * ChainSegmentSize : i \in 0 .. archived - 1} |->
                                 ChainPart(s.chain, n, n + (ChainSegmentSize - 1))],
                   finalized |-> s.finalized, segmented |-> segmented,
                   grouped |-> CursorAfter(s.groups, BlocksPerGroup), pending |-> Null]
        /\ segmentBlocks = IF segmented = Null THEN NoReorgs
                           ELSE Restrict(s.chain, StartingBlock .. segmented)
        /\ clearing = FALSE
        /\ pruned = StartingBlock - 1
        /\ pendingStore = {} /\ pendingCache = {}
        /\ permits = MaxStreams
        /\ stream = [c \in Client |-> Off]
        /\ producer = [c \in Client |-> NoSegments]
        /\ queue = [c \in Client |-> <<>>]
        /\ channel = [c \in Client |-> <<>>]
        /\ client = [c \in Client |-> NewClient]
        /\ serving = s.serving
        /\ everFinalized = s.finalized

StreamInit == \E s \in Setting : Begin(s)

ClientStep(c) == Receive(c) \/ SeesEnd(c)

StreamNext ==
    \/ ViewMoves \/ PendingIsCleared \/ ViewArrives \/ Restart
    \/ \E c \in Client :
          \/ \E request \in setting.requests[c] : RequestArrives(c, request)
          \/ RequestStep(c) \/ StreamStep(c) \/ ProducerStep(c) \/ ClientStep(c)
          \/ Leave(c) \/ DownloadFails(c)

\* Tasks and clients are not starved and the view handles its events; nothing
\* is assumed of the chain, and no client has to send a request.
StreamFairness ==
    /\ WF_streamVars(PendingIsCleared)
    /\ \A c \in Client :
          /\ WF_streamVars(RequestStep(c))
          /\ WF_streamVars(StreamStep(c))
          /\ WF_streamVars(ProducerStep(c))
          /\ WF_streamVars(ClientStep(c))

StreamSpec == StreamInit /\ [][StreamNext]_streamVars /\ StreamFairness

-----------------------------------------------------------------------------
(* Properties                                                              *)

\* The block of a cursor a client was given.
BlockOf(cursor) == IF cursor.hash = ZeroHash THEN segmentBlocks[cursor.number] ELSE cursor.hash

Path(cursor) == IF cursor = Null THEN {} ELSE {BlockOf(cursor)} \cup Ancestors[BlockOf(cursor)]

Holds(c) == {client[c].have[i].block : i \in DOMAIN client[c].have}

Wanted == {b \in Block : setting.header = "always" \/ b \in setting.matching}

\* Streams, queues and channels have their type and stay within their bounds.
StreamTypeOK ==
    /\ permits \in 0 .. MaxStreams
    /\ \A c \in Client :
          /\ Len(queue[c]) <= PrefetchSegments
          /\ Len(channel[c]) <= ChannelSize
          /\ producer[c].pc # "off" => stream[c].pc \in {"segments", "blocks"}
          /\ stream[c].heard \subseteq stream[c].waits

\* What a client holds is one branch of the chain: every block on the way from
\* the first block to the client's cursor that its filters want, once and in
\* order, through groups, segments and single blocks, reorganizations, lost
\* connections and new requests from its last cursor (stream.rs 227-484,
\* segment_stream.rs 54-311).
ClientHoldsOneBranch ==
    \A c \in Client :
        /\ \A i, j \in DOMAIN client[c].have :
              i < j => Number[client[c].have[i].block] < Number[client[c].have[j].block]
        /\ Holds(c) \subseteq Path(client[c].cursor)
        /\ Path(client[c].cursor) \cap Wanted \subseteq Holds(c)

\* Data sent as finalized, and data at or below a Finalize message, is never
\* invalidated, as stream.proto:133 says of finalized data: "Data is finalized
\* and cannot be invalidated".  The finality of a block is told from its number
\* alone (stream.rs 423-433), which on a branch the node has left says nothing.
FinalizedDataIsKept ==
    [][\A c \in Client : \A i \in DOMAIN client[c].have :
          LET d == client[c].have[i]
          IN  d.label = "finalized" \/ Number[d.block] <= client[c].final =>
                  i \in DOMAIN client'[c].have /\ client'[c].have[i] = d
      ]_streamVars

\* A client of finalized data is never told to drop a block of the branch the
\* node finalizes, as long as the finalized number does not move back: the
\* stream waits for that number before it sends a block (stream.rs 272-282).
FinalizedClientKeepsBranch ==
    [][\A c \in Client : \A i \in DOMAIN client[c].have :
          LET d == client[c].have[i]
          IN  /\ \A request \in setting.requests[c] : request.finality = "finalized"
              /\ d.block \in BranchOf(setting.final)
              /\ "lag" \notin setting.moves
              => i \in DOMAIN client'[c].have /\ client'[c].have[i] = d
      ]_streamVars

\* A client that asked for finalized data gets no block above every finalized
\* number the view showed, and every block labelled so unless that number
\* moved back: the stream compares with one it read earlier and the label is
\* from one read later (stream.rs 272-282, 423-433).
FinalizedStreamIsFinal ==
    \A c \in Client :
        stream[c].request # Null /\ Finalized(c) =>
            \A i \in DOMAIN channel[c] :
                channel[c][i].kind = "data" =>
                    /\ Number[channel[c][i].block] <= everFinalized
                    /\ channel[c][i].label = "finalized" \/ "lag" \in setting.moves

\* Every permit is free or belongs to one request or stream, whatever way it
\* ends (server/service.rs 128-139).
PermitsAreConserved ==
    permits + Cardinality({c \in Client : stream[c].pc \notin {"off", "permit"}}) = MaxStreams

\* Pending data continues the block the stream has reached, as long as the
\* chain is not cut, although the generation is read from a view that may have
\* moved on (stream.rs 507-566).
PendingDataExtendsPosition ==
    "cut" \notin setting.moves =>
        \A c \in Client :
            At(c, "sendPending") => stream[c].object.parent = BlockOf(stream[c].current)

\* The head never settles: every block is left again and again.
HeadKeepsMoving == \A b \in Block : []<>(LastBlock(view.recent) # b)

\* A block that stays canonical reaches every client that stays connected, as
\* long as new heads keep coming: a notification missed on the way to the wait
\* (stream.rs 486-541) is made up for by the next.
LastingBlockIsDelivered ==
    HeadKeepsMoving =>
        \A c \in Client : \A b \in Block :
            <>[](/\ client[c].up /\ stream[c].request # Null /\ ~Finalized(c)
                 /\ CanonicalBlock(view, Number[b]) = b /\ b \in Wanted)
                => <>[](b \in Holds(c))

\* The permit of a client that hung up is free again once new heads come; a
\* stream that waits for the finalized block needs one of those
\* (stream.rs 209, 486-505).
PermitIsReturned ==
    HeadKeepsMoving =>
        \A c \in Client :
            Gone(c) ~> (stream[c].pc = "off" \/ client[c].up \/ stream[c].waits = {"finalized"})

=============================================================================
